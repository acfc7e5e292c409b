CONSTANTS
  CaptureCapacity = 4
  DepthMod = 4
  Documents <- MCDocuments
  SourceKinds = {"file", "sz", "mmap"}
  Calls = {"read", "skipSubtree", "skipToIndex", "skipToEndArray", "skipToEndObject", "Siblings", "Forward", "Descendants"}
  MaxIndex = 1
  Sought <- MCSought
  Levels <- MCLevels
SPECIFICATION FreeSpec
INVARIANTS
  TypeOK
  ReaderInv
  ReadGetsFurther
  SkipGetsFurtherUnlessLost
  SearchGetsFurther
PROPERTIES
  ErrorIsFinal

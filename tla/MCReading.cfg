CONSTANTS
  CaptureCapacity = 5
  DepthMod = 4
  Documents <- MCDocuments
  SourceKinds = {"file", "sz", "mmap"}
  Calls = {"read", "skipSubtree", "skipToIndex", "skipToEndArray", "skipToEndObject"}
  MaxIndex = 3
SPECIFICATION MCSpec
INVARIANTS
  NodeInStep
  TextInStep
  ValueInStep
  NothingIsWrong
  ReadGetsFurther
  SkipGetsFurther
PROPERTIES
  FollowsStream

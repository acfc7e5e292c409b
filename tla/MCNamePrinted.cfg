CONSTANTS
  CaptureCapacity = 8
  DepthMod = 8
  Documents <- MCNamedDocuments
  SourceKinds = {"file"}
  Calls = {"read", "Siblings", "skipToIndex"}
  MaxIndex = 0
  Names <- MCNames
  Queries <- MCQueries
  Capacities <- MCCapacities
  ElementSize = 2
  FieldEntrySize = 3
  ArrayEntrySize = 2
  PointerSize = 1
  Programs = {"skipToEpisode"}
  Index = 0
SPECIFICATION DemoSpec
INVARIANT NamePrinted
CHECK_DEADLOCK FALSE

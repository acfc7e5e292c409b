CONSTANTS
  CaptureCapacity = 8
  DepthMod = 8
  Documents <- MCFlatDocuments
  SourceKinds = {"file"}
  Calls = {"read", "Siblings", "skipToIndex", "extract"}
  MaxIndex = 0
  Names <- MCNames
  Queries <- MCQueries
  Capacities <- MCCapacities
  ElementSize = 2
  FieldEntrySize = 3
  ArrayEntrySize = 2
  PointerSize = 1
  Programs = {"showExtraction"}
  Index = 0
SPECIFICATION DemoSpec
INVARIANT MissingIsNoFailure
CHECK_DEADLOCK FALSE

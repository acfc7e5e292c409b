\* Building, looking up and printing trees in pools too small for them.
CONSTANTS
  CaptureCapacity = 4
  ElementSize = 2
  FieldEntrySize = 3
  ArrayEntrySize = 2
  PointerSize = 1
  Capacities <- MCCapacities
  FieldNames <- MCFieldNames
  Values <- MCValues
  Strings <- MCStrings
SPECIFICATION Spec
INVARIANT MemoryOK
INVARIANT TreeAsBuilt
INVARIANT LookupsAgree
INVARIANT FaultsAtNullOnly
CHECK_DEADLOCK FALSE

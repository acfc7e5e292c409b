\* Printing trees, in pools that have room or have not.
CONSTANTS
  CaptureCapacity = 4
  ElementSize = 2
  FieldEntrySize = 3
  ArrayEntrySize = 2
  PointerSize = 1
  Capacities <- MCCapacities
  FieldNames <- MCFieldNames
  Values <- MCValues
  Strings <- MCStrings
SPECIFICATION Spec
INVARIANT StringIsJson
CHECK_DEADLOCK FALSE

CONSTANTS
  CaptureCapacity = 9
  DepthMod = 4
  Documents <- SurrogatePair
  SourceKinds = {"file"}
  Calls = {"read"}
  MaxIndex = 2
SPECIFICATION ClientSpec
INVARIANT NothingIsWrong

CONSTANTS
  CaptureCapacity = 5
  DepthMod = 4
  Documents <- EscapeAtChunkEnd
  SourceKinds = {"file"}
  Calls = {"read"}
  MaxIndex = 2
SPECIFICATION ClientSpec
INVARIANT TextInStep

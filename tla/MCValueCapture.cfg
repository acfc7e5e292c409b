CONSTANTS
  CaptureCapacity = 5
  Ascii <- MCAscii
  Inputs <- MCInputs
SPECIFICATION FairSpec
CHECK_DEADLOCK FALSE
INVARIANTS
  TypeOK
  Lossless
  NoOverrun
  PartsAreNotEmpty
  CaptureInv
PROPERTY
  ScanEnds

CONSTANTS
  CaptureCapacity = 4
  FileReaders = {f, g}
  MappedReaders = {m}
  TextReaders = {t}
  Handles = {h, i}
  Mappings = {a}
  Texts = {z}
  Nothing = Nothing
  Ascii = {"x", "["}
  Contents <- MCContents
  PageSize = 3
SYMMETRY Alike
SPECIFICATION MCSpec
INVARIANTS
  SearchInBounds
  LifeInv
PROPERTY ClosedIsSilent

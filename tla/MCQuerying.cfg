\* Searching, parsing, extracting, and what main.cpp makes of it.
CONSTANTS
  CaptureCapacity = 8
  DepthMod = 8
  Documents <- MCDocuments
  SourceKinds = {"file", "sz", "mmap"}
  Calls = {"read", "Forward", "Siblings", "Descendants", "skipSubtree", "skipToIndex", "parseSubtree", "extract"}
  MaxIndex = 1
  Names <- MCNames
  Queries <- MCQueries
  Capacities <- MCCapacities
  ElementSize = 2
  FieldEntrySize = 3
  ArrayEntrySize = 2
  PointerSize = 1
  Programs = {"free", "search", "countEpisodes", "extractEpisodes", "parseEpisodes", "readAllIds", "readStatus", "skipToEpisode", "showExtraction"}
  Index = 1
SPECIFICATION MCSpec
INVARIANTS
  FoundIsNode
  FaultsInArraysOnly
  DemoAnswers
PROPERTY FollowsElements
CHECK_DEADLOCK FALSE

CONSTANTS
  MaxCapacity = 5
  MaxRequest = 6
  SizeMod = 16
SPECIFICATION Spec
INVARIANTS
  TypeOK
  LiveBlocksDisjoint
PROPERTY
  ImplementsAllocator

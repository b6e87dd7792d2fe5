CONSTANTS
  Bits = 8
  Memory = 256
  Places <- SomePlaces
  Wanted <- ManySizes
  Aligns <- ManyAligns
  MaxBlocks = 3
SPECIFICATION Spec
INVARIANTS Accounted WordsSurvive
PROPERTY KeepsPromise
CHECK_DEADLOCK FALSE

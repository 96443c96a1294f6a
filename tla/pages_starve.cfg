SPECIFICATION WriterSpec
CONSTANTS
  NB = 5
  NE = 2
  FREE = FREE
  DELETED = DELETED
  Garbage = Garbage
  EcFlag = 16
  ObjId = {l1, l2, l3, l4, l5}
  Contents = {c1}
  Faults = {}
  MaxWrites = 9
  MaxErase = 3
  MaxFreeBlocks = 9
  MaxFree = 0
  GcMaxRuns = 5
  NoPage = NoPage
  NoContent = NoContent
  CheckOnMount = FALSE
SYMMETRY Symmetry
INVARIANTS GcNeverStarves
CHECK_DEADLOCK FALSE

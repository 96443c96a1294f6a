SPECIFICATION Spec
CONSTANTS
  NB = 3
  NE = 2
  FREE = FREE
  DELETED = DELETED
  Garbage = Garbage
  EcFlag = 16
  ObjId = {l1, l2}
  Contents = {c1, c2}
  Faults = {"power"}
  MaxWrites = 9
  MaxErase = 1
  MaxFreeBlocks = 9
  MaxFree = 0
  GcMaxRuns = 5
  NoPage = NoPage
  NoContent = NoContent
  CheckOnMount = TRUE
SYMMETRY Symmetry
INVARIANTS TypeOK FreeBlocksNotUnder FreeEntriesTrail CommittedSurvive FreeMeansErased StatsExact

SPECIFICATION FairSpec
CONSTANTS
  NB = 4
  NE = 3
  FREE = FREE
  DELETED = DELETED
  Garbage = Garbage
  EcFlag = 16
  Obj = {"a", "b"}
  Fd = {1, 2}
  HdrLen = 1
  IxLen = 2
  DPS = 2
  GcRuns = 5
  NoPix = NoPix
  NoObj = NoObj
  Writes <- W1
  MaxOps = 4
  MaxSize = 8
  Maps <- NoMaps
  TruncateMapped = FALSE
  PowerFails = TRUE
  UseDamaged = FALSE
  NoFile = NoFile
  Unreadable = Unreadable
  ErasedByte = 0
INVARIANTS ReadsBack OnlyKnownDamage
PROPERTIES CheckKeeps CheckMends CheckEventuallyEnds
CHECK_DEADLOCK FALSE

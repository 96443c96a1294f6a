SPECIFICATION Spec
CONSTANTS
  NB = 4
  NE = 3
  FREE = FREE
  DELETED = DELETED
  Garbage = Garbage
  EcFlag = 16
  Obj = {"a", "b"}
  Fd = {1, 2}
  HdrLen = 1
  IxLen = 2
  DPS = 2
  GcRuns = 5
  NoPix = NoPix
  NoObj = NoObj
  Writes <- W1
  MaxOps = 5
  MaxSize = 8
  Maps <- Map1
  TruncateMapped = TRUE
  PowerFails = FALSE
  UseDamaged = FALSE
  NoFile = NoFile
  Unreadable = Unreadable
  ErasedByte = 0
INVARIANTS ReadsBackOpen
CHECK_DEADLOCK FALSE

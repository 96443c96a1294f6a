SPECIFICATION Spec
CONSTANTS
  NB = 4
  NE = 3
  FREE = FREE
  DELETED = DELETED
  Garbage = Garbage
  EcFlag = 16
  Obj = {a, b}
  Fd = {d, e}
  HdrLen = 1
  IxLen = 2
  DPS = 2
  GcRuns = 5
  NoPix = NoPix
  NoObj = NoObj
  Writes <- W1
  MaxOps = 6
  MaxSize = 8
  Maps <- Map2
  TruncateMapped = FALSE
  PowerFails = FALSE
  UseDamaged = FALSE
  NoFile = NoFile
  Unreadable = Unreadable
  ErasedByte = 0
SYMMETRY Interchangeable
INVARIANTS ReadsBack ReadsBackOpen HealthyIsFit HealthyUntouched
CHECK_DEADLOCK FALSE

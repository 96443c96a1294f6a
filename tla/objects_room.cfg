SPECIFICATION Spec
CONSTANTS
  NB = 7
  NE = 3
  FREE = FREE
  DELETED = DELETED
  Garbage = Garbage
  EcFlag = 16
  Obj = {"a"}
  Fd = {1}
  HdrLen = 1
  IxLen = 1
  DPS = 2
  GcRuns = 5
  NoPix = NoPix
  NoObj = NoObj
  Writes <- WRoom
  MaxOps = 6
  MaxSize = 14
  Maps <- NoMaps
  TruncateMapped = FALSE
  PowerFails = FALSE
  UseDamaged = FALSE
  NoFile = NoFile
  Unreadable = Unreadable
  ErasedByte = 0
INVARIANTS ReadsBack
CHECK_DEADLOCK FALSE

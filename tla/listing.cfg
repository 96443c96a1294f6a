SPECIFICATION DirSpec
CONSTANTS
  NB = 4
  NE = 3
  FREE = FREE
  DELETED = DELETED
  Garbage = Garbage
  EcFlag = 16
  Obj = {"a", "b"}
  Fd = {1}
  HdrLen = 1
  IxLen = 2
  DPS = 2
  GcRuns = 5
  NoPix = NoPix
  NoObj = NoObj
  Writes <- W1
  MaxOps = 6
  MaxSize = 8
  Maps <- NoMaps
  TruncateMapped = FALSE
  PowerFails = FALSE
  UseDamaged = FALSE
  NoFile = NoFile
  NotOpen = NotOpen
  Ended = Ended
  Unreadable = Unreadable
  ErasedByte = 0
INVARIANTS ListedOnce ShowsTheFiles
PROPERTIES ListingEnds
CHECK_DEADLOCK FALSE

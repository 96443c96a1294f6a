SPECIFICATION Spec
CONSTANTS
  ObjId = {o1, o2}
  Name = {n1, n2}
  FdCount = 2
  CachePage = {c1, c2}
  Byte = {a}
  PageSize = 3
  DataSize = 2
  HdrBytes = 2
  MaxSize = 3
  Lengths = {1, 3}
  Flags <- Cached
  Refusals = {"never", "append", "always"}
  Habits = {"shared", "dirent", "rename"}
  NoObj = NoObj
  NoPage = NoPage
  NoFile = NoFile
  Closed = Closed
  Hole = Hole
  Garbage = Garbage
SYMMETRY Symmetry
INVARIANTS OneWritePage PagePointers PendingHasOwner DescriptorsCoherent

SPECIFICATION Spec
CONSTANTS
  ObjId = {o1}
  Name = {n1}
  FdCount = 2
  CachePage = {c1, c2}
  Byte = {a}
  PageSize = 3
  DataSize = 2
  HdrBytes = 2
  MaxSize = 4
  Lengths = {1, 2, 3}
  Flags <- Plain
  Refusals = {"never"}
  Habits = {"dirent", "fresh"}
  NoObj = NoObj
  NoPage = NoPage
  NoFile = NoFile
  Closed = Closed
  Hole = Hole
  Garbage = Garbage
SYMMETRY Symmetry
INVARIANT DescriptorsCoherent

SPECIFICATION Spec
CONSTANTS
  ObjId = {o1}
  Name = {n1, n2}
  FdCount = 2
  CachePage = {c1, c2}
  Byte = {a, b}
  PageSize = 3
  DataSize = 2
  HdrBytes = 2
  MaxSize = 4
  Lengths = {1, 2, 3}
  Flags <- AllFlags
  Refusals = {"never"}
  Habits = {}
  NoObj = NoObj
  NoPage = NoPage
  NoFile = NoFile
  Closed = Closed
  Hole = Hole
  Garbage = Garbage
SYMMETRY Symmetry
INVARIANTS TypeOK EmptyMeansNothingToRead
PROPERTY StoreSpec

SPECIFICATION Spec
CONSTANTS
  Block = {b1}
  NP = 3
  NoPage = NoPage
  NC = 2
  ObjId = {o1, o2}
  Nothing = Nothing
  Faults = {"read", "write", "erase"}
  MaxSuspect = 1
SYMMETRY Symmetry
INVARIANTS OneCopy PendingKept Coherent
PROPERTY FlashSpec

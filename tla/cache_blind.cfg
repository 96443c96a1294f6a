SPECIFICATION BlindSpec
CONSTANTS
  Block = {b1}
  NP = 2
  NoPage = NoPage
  NC = 2
  ObjId = {o1}
  Nothing = Nothing
  Faults = {}
  MaxSuspect = 1
SYMMETRY Symmetry
INVARIANT Coherent

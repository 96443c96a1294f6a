SPECIFICATION Spec
CONSTANTS
    ObjId = {a, b}
    Name = {m, n}
    Handle = {1, 2}
    Ffile = {f, g}
    NoFile = NoFile
    Closed = Closed
    Absent = Absent
    NoName = NoName
    NoFd = NoFd
    Nothing = Nothing
    Position <- Start
    Data <- Bytes
    Faults = {}
    MaxSize = 2
INVARIANTS AvailableMeansMounted

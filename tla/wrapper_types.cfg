SPECIFICATION Spec
CONSTANTS
    ObjId = {a, b}
    Name = {m, n}
    Handle = {1, 2}
    Ffile = {f, g}
    NoFile = NoFile
    Closed = Closed
    Absent = Absent
    NoName = NoName
    NoFd = NoFd
    Nothing = Nothing
    Position <- Start
    Data <- Bytes
    Faults = {"mount", "format", "open", "write"}
    MaxSize = 2
INVARIANTS TypeOK
SYMMETRY Interchangeable

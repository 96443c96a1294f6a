SPECIFICATION Spec
CONSTANTS
    PS = 3
    MaxObjects = 26
    Few = 3
    Strays <- LastId
INVARIANTS MapInBounds

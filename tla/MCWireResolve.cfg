SPECIFICATION WireSpec
CONSTANTS
    Slice = 2
    Pieces = 2
    ControlTimeout = 3
    DataTimeout = 5
    MaxParts = 1
    MaxResolve = 2
INVARIANT ConnectKeepsTime

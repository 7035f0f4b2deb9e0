SPECIFICATION Spec
CONSTANTS
    Cases <- MCCases
    Names <- MCNames
    Self = "self"
    MaxDepth = 2
    MaxChanges = 1
    MaxTree = 3
    MaxOld = 1
INVARIANTS
    StackIsBounded
    WalkIsWhole
    CopyIsWhole
    RemovalIsExact
CHECK_DEADLOCK FALSE

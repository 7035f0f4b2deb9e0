SPECIFICATION Spec
CONSTANTS
    Paths <- MCPaths
    Names <- MCNames
    Holdings <- MCHoldings
    Root = "/"
    MaxConnects = 2
    MaxTasks = 1
    MaxOps = 1
INVARIANT ParentIsNeverDeleted
CHECK_DEADLOCK FALSE

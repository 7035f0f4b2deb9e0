SPECIFICATION Spec
CONSTANTS
    Paths <- MCPaths
    MaxConnects = 2
    MaxLists = 2
    MaxTasks = 3
INVARIANTS
    NoLostWakeup
    ListPendingCounts
    ConnectedIsAlive
PROPERTIES
    ListingsArrive
    ExitReturns
    ConnectSettles

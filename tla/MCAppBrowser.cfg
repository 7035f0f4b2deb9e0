SPECIFICATION AppSpec
CONSTANTS
    Paths <- MCPaths
    MaxConnects = 1
    MaxLists = 0
    MaxTasks = 0
    Directions <- MCDirections
    MaxRequests = 1
    MaxJobs = 1
    MaxWalk = 1
PROPERTY DeadLinkEndsBrowser

SPECIFICATION AppSpec
CONSTANTS
    Paths <- MCPaths
    MaxConnects = 2
    MaxLists = 0
    MaxTasks = 0
    Directions <- MCDirections
    MaxRequests = 1
    MaxJobs = 2
    MaxWalk = 2
INVARIANT HeldOnlyForTheQuestion

SPECIFICATION AppSpec
CONSTANTS
    Paths <- MCPaths
    MaxConnects = 1
    MaxLists = 0
    MaxTasks = 0
    Directions <- MCDirections
    MaxRequests = 1
    MaxJobs = 2
    MaxWalk = 2
INVARIANTS
    DrainIsATask
    LossInDrainIsSeen
PROPERTIES
    QuestionHoldsJobs
    LostEndsBrowser
    QuitEnds

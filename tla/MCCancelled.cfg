SPECIFICATION Spec
CONSTANTS
    Directions <- MCDirections
    MaxRequests = 2
    MaxJobs = 3
    MaxWalk = 2
INVARIANT CancelledNeverRuns

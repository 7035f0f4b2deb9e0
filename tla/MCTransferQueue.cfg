SPECIFICATION Spec
CONSTANTS
    Directions <- MCDirections
    MaxRequests = 2
    MaxJobs = 3
    MaxWalk = 2
INVARIANTS
    OneDrain
    NoStrandedWork
    ActiveIsNamed
    JobsInOrder
    CancelledWasAsked
    InFlightIsActive
PROPERTIES
    ImplementsJobQueue

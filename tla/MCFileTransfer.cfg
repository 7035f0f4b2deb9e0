SPECIFICATION Spec
CONSTANTS
    MaxChunks = 2
    Buffer = 2
    MaxJobs = 2
INVARIANTS
    DestIsNeverPartial
    NothingIsLost
    NoScratchLeft
    UploadIsWhole
PROPERTIES
    FailedUploadIsRemoved
CHECK_DEADLOCK FALSE

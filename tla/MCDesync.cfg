SPECIFICATION Spec
CONSTANTS
    MaxChunks = 2
    Buffer = 2
    MaxJobs = 2
INVARIANT JobLeavesInStep
CHECK_DEADLOCK FALSE

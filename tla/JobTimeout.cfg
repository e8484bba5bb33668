SPECIFICATION Spec
CONSTANTS
    solveJob = solveJob
    simulateJob = simulateJob
    Jobs <- MCJobs
    Persisted <- MCPersisted
    MaxJobs = 1
    MaxTries = 5
    Faults = {"job_timeout"}
    MaxFaults = 1
INVARIANT RunningIsAttended
CHECK_DEADLOCK FALSE

SPECIFICATION Spec
CONSTANTS
    solveJob = solveJob
    simulateJob = simulateJob
    Jobs <- MCJobs
    Persisted <- MCPersisted
    MaxJobs = 1
    MaxTries = 5
    Faults = {"crash"}
    MaxFaults = 1
INVARIANT ResponseAsDocumented
CHECK_DEADLOCK FALSE

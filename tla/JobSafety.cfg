SPECIFICATION FairSpec
CONSTANTS
    solveJob = solveJob
    simulateJob = simulateJob
    Jobs <- MCJobs
    Persisted <- MCPersisted
    MaxJobs = 1
    MaxTries = 3
    Faults = {"enqueue", "lost_reply", "api_death", "db_error", "job_timeout", "shutdown", "crash"}
    MaxFaults = 3
INVARIANTS
    SettledPayload
    UndisturbedResponse
    SolutionsPerDelivery
    PendingIsOwned
PROPERTIES
    FinalOnceDropped
    Contract
    JobsSettle
CHECK_DEADLOCK FALSE

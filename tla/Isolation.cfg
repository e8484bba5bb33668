SPECIFICATION FairSpec
CONSTANTS
    first = first
    second = second
    Calls <- MCCalls
    MaxProcesses = 1
    PoolSize = 2
    Modes = {"thread", "process"}
INVARIANTS
    ComputationsStopped
    ProcessesBounded
PROPERTIES
    CallsEnd
    ThreadsReturn
CHECK_DEADLOCK FALSE

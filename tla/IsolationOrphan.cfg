SPECIFICATION Spec
CONSTANTS
    first = first
    second = second
    Calls <- MCCalls
    MaxProcesses = 1
    PoolSize = 2
    Modes = {"process"}
INVARIANT RemainingChildStopped
CHECK_DEADLOCK FALSE

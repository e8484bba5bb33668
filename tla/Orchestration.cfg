SPECIFICATION Spec
CONSTANTS
    None = None
    Invalid = Invalid
    Failed = Failed
    MaxExact = 3
    MaxNodes = 20
    MaxSearch = 12
    MaxCells = 200
    Whole = 2
    Searches <- MCSearches
    Sayings <- MCSayings
    Received <- MCReceived
    firstMeter = firstMeter
    secondMeter = secondMeter
    Meters <- MCMeters
    MeterRuns = 2
INVARIANTS
    ThresholdIsBoundary
    ThresholdIsLeast
    ScenariosAreComparable
    BudgetSuffices
    RatiosRank
    ExactIsNeverBeaten
    StructuredIsGrounded
    StructuredIsSolvable
    RankingIsWhole
    PeakIsOwn
CHECK_DEADLOCK FALSE

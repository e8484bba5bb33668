SPECIFICATION Spec
CONSTANTS
    None = None
    MaxExact = 3
    MaxNodes = 20
    MaxSearch = 12
    MaxCells = 200
    Whole = 2
    Problems <- MCProblems
    Offers <- MCOffers
INVARIANTS
    RoutesAreShortest
    TreesAreMinimal
    SchedulesAreTight
    RostersAreBest
    PlansAreBest
    VerdictIsRight
CHECK_DEADLOCK FALSE

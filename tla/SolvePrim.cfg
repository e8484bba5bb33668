SPECIFICATION Spec
CONSTANTS
    None = None
    MaxExact = 3
    MaxNodes = 20
    MaxSearch = 12
    MaxCells = 200
    Whole = 2
    Problems <- MCProblems
    Offers <- MCOffers
INVARIANT PrimFindsTrees
CHECK_DEADLOCK FALSE

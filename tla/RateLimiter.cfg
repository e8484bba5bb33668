SPECIFICATION FairSpec
CONSTANTS
    home = home
    office = office
    homeIp = homeIp
    officeIp = officeIp
    account = account
    Clients <- MCClients
    Buckets <- MCBuckets
    Route <- MCRoute
    Limit <- MCLimit
    Window <- MCWindow
    MaxPerTick = 2
INVARIANTS
    KeysExpire
    SlidingBound
PROPERTIES
    WindowsClose

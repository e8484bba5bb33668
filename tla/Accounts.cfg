SPECIFICATION FairSpec
CONSTANTS
    tab = tab
    otherTab = otherTab
    alice = alice
    firstLogin = firstLogin
    secondLogin = secondLogin
    NoOne = NoOne
    Clients <- MCClients
    Emails <- MCEmails
    Sessions <- MCSessions
    AccessTtl = 1
    RefreshTtl = 2
INVARIANTS
    EmailsAreUnique
    KeyOutlivesToken
PROPERTIES
    BlockedStaysOut
    LogoutStopsRefreshes
    AccountsSettle

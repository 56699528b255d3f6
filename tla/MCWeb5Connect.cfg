SPECIFICATION FairSpec
CONSTANTS
    p1 = p1
    p2 = p2
    Protocol = {p1}
    Asks <- OneAsk
    Local = local
    r1 = r1
    r2 = r2
    Remote = {r1, r2}
    Routes <- Apart
    MaxSession = 2
    MaxSubmission = 2
    MaxCreated = 1
    MaxTry = 2
    Endpoint = {e1}
    Requires = {}
    Options <- AllOptions
    MayCrash = TRUE
INVARIANTS GrantsSuffice StoresWhole OnlyAccepted
PROPERTY ConnectEnds
CHECK_DEADLOCK FALSE

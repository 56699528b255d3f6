SPECIFICATION Spec
CONSTANTS
    alice = alice  bob = bob  u1 = u1  u2 = u2  notes = notes  other = other
    phone = phone  w0 = w0  w1 = w1  w2 = w2  f0 = f0
    NoDelegate = NoDelegate  AllProtocols = AllProtocols
    Unregistered = Unregistered  NoOp = NoOp  Local = Local
    Msg <- ScopeMsg
    Deletes = {}
    Needs <- RecordNeeds
    Supersedes <- RecordSupersedes
    Did = {alice, bob}
    Delegate = {phone}
    Endpoint = {u1, u2}
    Protocol = {notes, other}
    EndpointsOf <- OneEach
    Options <- Delegated
    TenantOf <- TwoTenants
    ProtocolOf <- ScopeProtocol
    Origins <- ApartOrigins
    Refuses <- OthersRefused
    Rank <- KeyRank
    Happens = {"unreachable", "lostReply", "noGrant", "batchFails", "throws",
               "crash", "unregister", "clear", "clearBusy"}
INVARIANTS HistoryJustified
PROPERTY OnlyReplicates
CHECK_DEADLOCK FALSE

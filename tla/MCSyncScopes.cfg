SPECIFICATION Spec
CONSTANTS
    alice = alice  bob = bob  u1 = u1  u2 = u2  notes = notes  other = other
    phone = phone  w0 = w0  w1 = w1  w2 = w2  f0 = f0
    NoDelegate = NoDelegate  AllProtocols = AllProtocols
    Unregistered = Unregistered  NoOp = NoOp  Local = Local
    Msg = {w0, f0}
    Deletes = {}
    Needs <- RecordNeeds
    Supersedes <- RecordSupersedes
    Did = {alice}
    Delegate = {phone}
    Endpoint = {u1}
    Protocol = {notes, other}
    EndpointsOf <- BothEndpoints
    Options <- ScopeOptions
    TenantOf <- AllAlice
    ProtocolOf <- ScopeProtocol
    Origins <- ApartOrigins
    Refuses <- OthersRefused
    Rank <- KeyRank
    Happens = {"unreachable", "lostReply", "throws", "clear", "unregister",
               "update"}
INVARIANTS PushInvariant PushAccounted
CHECK_DEADLOCK FALSE

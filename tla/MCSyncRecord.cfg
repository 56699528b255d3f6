SPECIFICATION Spec
CONSTANTS
    alice = alice  bob = bob  u1 = u1  u2 = u2  notes = notes  other = other
    phone = phone  w0 = w0  w1 = w1  w2 = w2  f0 = f0
    NoDelegate = NoDelegate  AllProtocols = AllProtocols
    Unregistered = Unregistered  NoOp = NoOp  Local = Local
    Msg <- RecordMsg
    Deletes = {w2}
    Needs <- RecordNeeds
    Supersedes <- RecordSupersedes
    Did = {alice}
    Delegate = {}
    Endpoint = {u1, u2}
    Protocol = {notes}
    EndpointsOf <- BothEndpoints
    Options <- Everything
    TenantOf <- AllAlice
    ProtocolOf <- AllNotes
    Origins <- RecordOrigins
    Refuses <- RecordRefuses
    Rank <- KeyRank
    Happens = {"unreachable"}
INVARIANTS PullAccounted PushedInOrder NoEcho
PROPERTY PushSettled
CHECK_DEADLOCK FALSE

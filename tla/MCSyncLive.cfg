SPECIFICATION FairSpec
CONSTANTS
    alice = alice  bob = bob  u1 = u1  u2 = u2  notes = notes  other = other
    phone = phone  w0 = w0  w1 = w1  w2 = w2  f0 = f0
    NoDelegate = NoDelegate  AllProtocols = AllProtocols
    Unregistered = Unregistered  NoOp = NoOp  Local = Local
    Msg = {w0, w2}
    Deletes = {}
    Needs <- RecordNeeds
    Supersedes <- NothingSuperseded
    Did = {alice}
    Delegate = {}
    Endpoint = {u1, u2}
    Protocol = {notes}
    EndpointsOf <- BothEndpoints
    Options <- Everything
    TenantOf <- AllAlice
    ProtocolOf <- AllNotes
    Origins <- RecordOrigins
    Refuses <- NothingRefused
    Rank <- KeyRank
    Happens = {"unreachable", "lostReply"}
PROPERTY Replicates
CHECK_DEADLOCK FALSE

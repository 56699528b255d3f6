SPECIFICATION ApiSpec
CONSTANTS
    g1 = g1  g2 = g2  g3 = g3
    notes = notes  chat = chat
    Grant = {g1, g2, g3}
    ScopeOf <- NotesScopes
    Requested = {g2}
    Revocable = {g2}
    Type <- Types
    Protocol = {notes, chat}
    AnyProtocol = AnyProtocol
    NoGrant = NoGrant
    Caller = {c1}
    Object = {o1}
    MaxTime = 3
    MayRefuse = {"remote"}
    Reader = {r1, r2}
    Source <- Sources
    Request = {q1, q2}
    Drl = {"did", "did/a"}  Documents = {"did"}
    Checks <- WorkerChecks
    MaxVersion = 2  MaxClock = 2
    None = None  i1 = i1  i2 = i2
    Link <- PageLinks
    Image = {i1, i2}
    MaxClicks = 3  MaxPresses = 3
INVARIANTS LookupsRight DataKept ImportAccepted DrlsRight
CHECK_DEADLOCK FALSE

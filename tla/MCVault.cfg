SPECIFICATION FragileSpec
CONSTANTS
    s1 = s1  s2 = s2  p1 = p1  p2 = p2  None = None
    Caller = {c1}
    Seed = {s1, s2}
    Password = {p1, p2}
    Foreign <- BothBackups
    Ops = {"initialize", "lock", "unlock", "changePassword", "backup", "restore"}
    Happens = {"createFails", "writeFails", "crash", "restoreFails"}
    MaxDate = 3
INVARIANTS VaultWhole
PROPERTY IsVault

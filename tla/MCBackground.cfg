SPECIFICATION MCSpec
CONSTANTS
    Did = {did}
    Caller = {c1, c2}
    MaxDoc = 2
    MaxRecord = 2
    Happens = {"unreachable", "lookupFails", "updateFails", "storeFails",
               "crash", "elsewhere", "import", "update", "delete"}
    MaxTimer = 3
    Stopper = {s1, s2}
    Polls = 2
INVARIANTS OneRefresh ManagedCached OneTimer ArmedWhileWanted
PROPERTIES UnmanagedForgotten KeepsSyncing

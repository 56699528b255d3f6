SPECIFICATION MCSpec
CONSTANTS
    d1 = d1  d2 = d2  k1 = k1  k2 = k2
    c1 = c1  c2 = c2
    Did = {d1, d2}
    Key = {k1, k2}
    KeysOf <- SharedKey
    Caller = {c1, c2}
    Portable <- Bring
    MayFail = TRUE
INVARIANTS KeysAgree Sealed CredentialsHold Signable KeysKeepAlgorithm DocumentsHold
PROPERTIES DeletedForGood
CHECK_DEADLOCK FALSE

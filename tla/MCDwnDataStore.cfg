SPECIFICATION Spec
CONSTANTS
    k1 = k1
    k2 = k2
    t1 = t1
    Key = {k1, k2}
    Tenant = {t1}
    TenantOf <- OneTenant
    Data = {d1, d2}
    Caller = {c1, c2}
    MaxRecord = 2
    Happens = {"nodeFails", "refuses", "expiry", "restart"}
INVARIANTS IndexNames ProtocolFirst 
 
SYMMETRY Symmetry
CHECK_DEADLOCK FALSE

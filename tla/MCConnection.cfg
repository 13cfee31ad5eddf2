CONSTANTS
    c1 = c1
    c2 = c2
    t1 = t1
    t2 = t2
    NoTxn = NoTxn
    Conns = {c1, c2}
    Txns = {t1, t2}
SYMMETRY Perms
SPECIFICATION ConnSpec
INVARIANTS
    ConnTypeOK
    LockFitsTrans
    LockExclusion
    IdleHoldsNoLock
    OpenOnOneConn
    WroteIsKept
    Atomicity
PROPERTIES
    StoredIsStable
    StoreSpec

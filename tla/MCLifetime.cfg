CONSTANTS
    Dbs = {d1, d2}
    Stmts = {s1, s2}
    Conns = {c1, c2}
    Handles = {h1, h2, h3}
    MutexObjs = {m1, m2}
    Mutexes = {x1}
    Null = Null
SYMMETRY Perms
SPECIFICATION MutexSpec
INVARIANTS
    TypeOK
    DbsOwnOpen
    StmtsOwnLive
    LiveOnOpen
    LeaksAreKnown
    OnlyWrappedMisused
    MutexesAreKept
CHECK_DEADLOCK FALSE

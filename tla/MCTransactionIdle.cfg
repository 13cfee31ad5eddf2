CONSTANTS
    c1 = c1
    c2 = c2
    t1 = t1
    t2 = t2
    o1 = o1
    o2 = o2
    NoTxn = NoTxn
    NoConn = NoConn
    Conns = {c1, c2}
    Txns = {t1, t2}
    Objs = {o1, o2}
SPECIFICATION Spec
INVARIANT IdleConnectionReleased

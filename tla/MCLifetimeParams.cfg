CONSTANTS
    Dbs = {d1, d2}
    Stmts = {s1, s2}
    Conns = {c1, c2}
    Handles = {h1, h2, h3}
    Null = Null
SPECIFICATION Spec
INVARIANT ParamsAreLive
CHECK_DEADLOCK FALSE

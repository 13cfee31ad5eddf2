CONSTANTS
    p1 = p1
    p2 = p2
    p3 = p3
    v1 = v1
    v2 = v2
    Absent = Absent
    Torn = Torn
    NoCache = NoCache
    Procs = {p1, p2, p3}
    NumPages = 2
    Values = {v1, v2}
SYMMETRY Perms
SPECIFICATION JournalSpec
INVARIANTS
    JournalTypeOK
    WriteAhead
    ReadersSeeCommitted
PROPERTIES
    RepeatableRead
    AtomicCommit

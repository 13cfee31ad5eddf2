CONSTANTS
    Columns = 2
    Values = {v1, v2}
    Null = Null
SYMMETRY ValuePerms
SPECIFICATION Spec
INVARIANTS
    TypeOK
    ReadyUnlessThrown
    StoredAsAsked

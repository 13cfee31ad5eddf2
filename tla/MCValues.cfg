CONSTANTS
    H8 = 2
    H16 = 4
    H32 = 8
    H64 = 16
    Bytes <- ShortBytes
SPECIFICATION ValuesSpec
INVARIANTS
    RoundTrip
    NoneOnlyForNull
    CrossRead
    RowAgrees
    CopyIsStable

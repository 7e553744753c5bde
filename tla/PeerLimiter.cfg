\* Six seconds; the fastest rate leaves the u64 range within two of them.
CONSTANTS
    U64Max = 5
    Amounts <- MCAmounts
    Params <- MCParams
    MaxHistory = 5
SPECIFICATION Spec
INVARIANTS
    TypeOK
    WindowBound
    LevelBound
PROPERTY
    ImplementsTokenBucket

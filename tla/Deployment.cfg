\* HyperEVM, a second build, and up to three transactions under way.
CONSTANTS
    Signer = signer
    Owner = owner
    HyperEvm = TRUE
    MaxBuild = 2
    MaxPending = 3
SPECIFICATION Spec
INVARIANTS
    RolesInPlace
    SmallAgain
PROPERTY
    NeverOrphaned

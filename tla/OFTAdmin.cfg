\* Every instruction, two keys, one token in motion.
CONSTANTS
    U64Max = 8
    OneInBasisPoints = 4
    OftType = "Adapter"
    Ld2sdRate = 2
    e1 = e1
    e2 = e2
    a1 = a1
    a2 = a2
    ZeroAddress = ZeroAddress
    Eids = {e1}
    Addresses = {a1}
    Pathways <- OnePathway
    Keys = {k1, k2}
    NoKey = NoKey
    InitialAdmin = k1
    InitialSupply = 4
    AmountsLd = {2}
    AmountsSd = {1}
    FeeBps = {2, 4}
    TransferFees <- NoTransferFees
    LimitParams <- NoLimitParams
    MaxWired = 1
    MaxVerified = 1
    MaxNow = 0
SPECIFICATION Spec
PROPERTY
    PausedFreezesFunds

\* An Adapter, three units at most under way or abroad, under changing fees.
CONSTANTS
    U64Max = 24
    OneInBasisPoints = 4
    OftType = "Adapter"
    Ld2sdRate = 2
    e1 = e1
    a1 = a1
    ZeroAddress = ZeroAddress
    Eids = {e1}
    Addresses = {a1}
    Pathways <- OnePathway
    Keys = {k1}
    NoKey = NoKey
    InitialAdmin = k1
    InitialSupply = 9
    AmountsLd = {3, 7}
    AmountsSd = {1, 2}
    FeeBps = {0, 2}
    TransferFees <- MCTransferFees
    LimitParams = {}
    MaxWired = 3
    MaxVerified = 2
    MaxNow = 0
SPECIFICATION HubSpec
INVARIANTS
    EscrowIsExact
    WireIsBacked
    ReportIsCredit
    NeverShort

\* An Adapter whose transfer fee changes while deliveries are planned.
CONSTANTS
    U64Max = 9
    OneInBasisPoints = 4
    OftType = "Adapter"
    Ld2sdRate = 2
    e1 = e1
    a1 = a1
    ZeroAddress = ZeroAddress
    Eids = {e1}
    Addresses = {a1}
    Pathways <- OnePathway
    Keys = {k1}
    NoKey = NoKey
    InitialAdmin = k1
    InitialSupply = 6
    AmountsLd = {6}
    AmountsSd = {1, 2}
    FeeBps = {0}
    TransferFees <- MCTransferFees
    LimitParams <- MCLimitParams
    MaxWired = 2
    MaxVerified = 2
    MaxNow = 2
    Authorities = {store, other}
    StoreAuthorities = {store}
SPECIFICATION ExecutorSpec
PROPERTIES
    Delivered
    OversizedWaits
    PlanStands

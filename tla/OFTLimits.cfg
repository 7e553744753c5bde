\* One peer's limiters, both directions, reconfigured at any time, over two seconds.
CONSTANTS
    U64Max = 8
    OneInBasisPoints = 4
    OftType = "Adapter"
    Ld2sdRate = 1
    e1 = e1
    e2 = e2
    a1 = a1
    a2 = a2
    ZeroAddress = ZeroAddress
    Eids = {e1}
    Addresses = {a1}
    Pathways <- OnePathway
    Keys = {k1}
    NoKey = NoKey
    InitialAdmin = k1
    InitialSupply = 4
    AmountsLd = {1, 3}
    AmountsSd = {1, 2}
    FeeBps = {0}
    TransferFees <- NoTransferFees
    LimitParams <- MCLimitParams
    MaxWired = 4
    MaxVerified = 2
    MaxNow = 2
SPECIFICATION LimitsSpec
PROPERTIES
    OutboundIsBucket
    InboundIsBucket

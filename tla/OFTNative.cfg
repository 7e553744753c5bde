\* A Native OFT; 11 sd overflows the supply when enough is minted, 13 sd are
\* more than a u64 holds in local decimals.
CONSTANTS
    U64Max = 24
    OneInBasisPoints = 4
    OftType = "Native"
    Ld2sdRate = 2
    e1 = e1
    e2 = e2
    a1 = a1
    a2 = a2
    ZeroAddress = ZeroAddress
    Eids = {e1}
    Addresses = {a1, a2}
    Pathways <- OnePathway
    Keys = {k1}
    NoKey = NoKey
    InitialAdmin = k1
    InitialSupply = 10
    AmountsLd = {3, 7}
    AmountsSd = {0, 1, 11, 13}
    FeeBps = {0, 2}
    TransferFees <- MCTransferFees
    LimitParams <- MCLimitParams
    MaxWired = 4
    MaxVerified = 2
    MaxNow = 0
SPECIFICATION ValueSpec
INVARIANTS
    TypeOK
    WireIsBacked
    ReportIsCredit

\* Every transfer fee on a scale of 5 basis points, amounts 0 .. 32.
CONSTANTS
    U64Max = 32
    OneInBasisPoints = 5
    Ld2sdRates <- MCLd2sdRates
    TransferFees <- MCTransferFees
    FeeBps <- MCFeeBps
SPECIFICATION Spec
INVARIANTS
    EscrowIsFunded
    NeverOvercharged
    NoDustOnTheWire
    SentIsLeast
    QuoteAddsUp
\* The walk ends at the largest u64.
CHECK_DEADLOCK FALSE

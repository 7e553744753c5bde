\* The 2 of 4 DVNs of the mainnet, one of them faulty and another the default.
CONSTANTS
    Chains = {"ETHEREUM", "OPTIMISM"}
    CONFIRMATIONS <- MCCONFIRMATIONS
    Operators = {"CANARY", "DEUTSCHE_TELEKOM", "LUGANODES", "P2P"}
    OPTIONAL_DVNS <- MCOPTIONAL_DVNS
    OPTIONAL_DVNS_THRESHOLD = 2
    DefaultOperator = "P2P"
    DefaultConfirmations <- MCDefaultConfirmations
    Faulty = {"CANARY"}
SPECIFICATION PathwaysSpec
PROPERTIES
    DeepEnough
    VerifiedInTheEnd

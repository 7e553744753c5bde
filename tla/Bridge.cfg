\* Two chains, one holder besides the adapters, two transfers; a word that
\* three units overflow and a wire that carries one.
CONSTANTS
    UintMax = 2
    Accounts = {admin, adapter, dead}
    ZeroAddress = ZeroAddress
    Chains = {c1, c2}
    Adapter = adapter
    DeadAddress = dead
    Admin = admin
    U64Max = 1
    Amounts = {1, 2}
    Recipients = {admin, ZeroAddress}
    Suspects = {admin}
    MaxIssued = 2
    MaxSent = 2
SPECIFICATION FairBridgeSpec
INVARIANTS
    Conserved
    AlwaysMintable
PROPERTIES
    ImplementsLedger
    Arrives

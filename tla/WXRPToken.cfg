\* Two accounts, one of which is given roles; amounts up to the largest word.
CONSTANTS
    UintMax = 2
    Accounts = {alice, bob}
    ZeroAddress = ZeroAddress
    InitialAdmin = alice
    Amounts = {1, 2}
    Grantees = {bob}
SPECIFICATION Spec
INVARIANTS
    TypeOK
    SupplyIsSum
PROPERTIES
    FrozenFundsStay
    SealedSupply

SPECIFICATION ClientSpec
CONSTANTS
    Actions = {"list", "secret", "change"}
    Contents = {"open", "strict"}
    Table <- MCTable
    Keys = {"k1", "k2"}
    Scope = {"list", "secret"}
    Lifetime = 1
    OperationOf <- MCOperationOf
    ReadOnly = {"list", "secret"}
    AllowedOperations = {"GET"}
    RulesOf <- MCRulesOf
    DefaultOf <- MCDefaultOf
    ActionOf <- MCActionOf
    BundleTTL = 1
    Lag = 1
    Tolerance = 0
    QueueLimit = 2
    MaxEpoch = 2
    MaxSigned = 2
INVARIANTS
    CacheAgreesWithAuthority
    StalePolicyIsBounded
    OfflineIsAccounted
PROPERTIES
    QueuedIsReported

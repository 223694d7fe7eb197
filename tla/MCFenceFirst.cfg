SPECIFICATION FairExecSpec
CONSTANTS
    g1 = g1  g2 = g2  s1 = s1  d1 = d1  d2 = d2
    k1 = k1  k2 = k2  t1 = t1  e1 = e1  e2 = e2  w1 = w1  w2 = w2  r1 = r1
    NoLimit = NoLimit
    Nonces = {g1, g2}
    Scopes = {s1}
    Keys = {k1, k2}
    Digests = {d1, d2}
    Policies = {"adapter"}
    Tasks = {t1}
    Effects = {e1, e2}
    Repeatable = {e1}
    Workers = {w1}
    Reviewers = {r1}
    Foreclosing = FALSE
    FenceFirst = TRUE
    TaskOf <- MCTaskOf
    EffectOf <- MCEffectOf
    AmountOf <- MCAmountOf
    Limit <- MCLimitOne
    GrantScope <- MCGrantScope
    GrantDigest <- MCSameDigest
    GrantPolicy <- MCGrantPolicy
INVARIANTS
    InFlightHoldsTask
    RealSpendWithinBudget
PROPERTIES
    UncertaintyIsResolved
    WithdrawnGrantHasNoEffect
CHECK_DEADLOCK FALSE

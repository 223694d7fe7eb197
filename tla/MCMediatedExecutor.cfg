SPECIFICATION ExecSpec
CONSTANTS
    g1 = g1  g2 = g2  s1 = s1  d1 = d1  d2 = d2
    k1 = k1  k2 = k2  t1 = t1  e1 = e1  e2 = e2  w1 = w1  w2 = w2  r1 = r1
    NoLimit = NoLimit
    Nonces = {g1, g2}
    Scopes = {s1}
    Keys = {k1, k2}
    Digests = {d1, d2}
    Policies = {"adapter"}
    Tasks = {t1}
    Effects = {e1, e2}
    Repeatable = {}
    Workers = {w1, w2}
    Reviewers = {r1}
    Foreclosing = TRUE
    FenceFirst = FALSE
    TaskOf <- MCTaskOf
    EffectOf <- MCEffectOf
    AmountOf <- MCAmountOf
    Limit <- MCLimit
    GrantScope <- MCGrantScope
    GrantDigest <- MCSameDigest
    GrantPolicy <- MCGrantPolicy
SYMMETRY MCSymmetry
INVARIANTS
    CalledAtMostOnce
    NotDispatchedMeansNoEffect
    EffectAppliedOnce
PROPERTIES
    KeepsEffectContract
CHECK_DEADLOCK FALSE

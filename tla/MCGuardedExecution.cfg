SPECIFICATION GuardSpec
CONSTANTS
    n1 = n1  n2 = n2  s1 = s1  t1 = t1  b1 = b1  b2 = b2
    report = report  other = other  command = command  read = read
    NoLimit = NoLimit
    Nonces = {n1, n2}
    Scopes = {s1}
    Keys = {n1, n2}
    Digests = {report, other, command, read}
    Policies = {"v1", "v2"}
    Tasks = {t1}
    Effects = {report, other, command, read}
    Repeatable = {}
    Boundaries = {b1, b2}
    HasSandbox = {b1}
    Consequential = {report, other, command}
    Commands = {command}
    PostRun = TRUE
    TaskOf <- MCTaskOf
    EffectOf <- MCEffectOf
    AmountOf <- MCAmountOf
    Limit <- MCLimit
    BoundaryScope <- MCBoundaryScope
    BoundaryPolicy <- MCBoundaryPolicy
    Replaces <- MCReplaces
    Authority <- MCAuthority
SYMMETRY MCSymmetry
INVARIANTS
    OneUncertainPerTask
    CallRunsOnce
    ContentRunsOnce
    OnlyAuthorizedRuns
    LedgerTellsWhatRan
    UnreviewedNeverShown

    

SPECIFICATION ControlSpec
CONSTANTS
    adm = adm  app = app  ag = ag  rev = rev  exe = exe  x1 = x1  t1 = t1  t2 = t2
    p1 = p1 p2 = p2 k1 = k1 r1 = r1 n1 = n1 n2 = n2
    Actors <- MCActors
    SubjectOf <- MCSubjectOf
    RolesOf <- MCRolesOf
    KeyOf <- MCKeyOf
    NoKey = "-"
    ScopeOf <- MCScopeOf
    Actions = {x1}
    TaskOfAction <- MCTaskOfAction
    Tasks = {t1, t2}
    Permitted = {x1}
    LegacyAgent <- MCLegacy
    PolicyIds = {p1, p2}
    Drafts <- MCOneAction
    Keys = {k1}
    ReviewIds = {r1}
    Nonces = {n1, n2}
    Audiences = {exe, rev}
    ReceiptTTL = 1
    ReviewTTL = 2
    GrantTTL = 1
    MaxEntries = 9
    MaxTime = 1
    MaxRekeyed = 2
    Durable = TRUE
SYMMETRY MCSymmetry
INVARIANTS
    ValidGrantIsAuthorizedNow
    EscalatedGrantHasOwnReview
PROPERTIES
    InvalidIsFinal
    EpochTellsChange
CHECK_DEADLOCK FALSE

SPECIFICATION InspectSpec
CONSTANTS
    n1 = n1  n2 = n2  p1 = p1  p2 = p2  c1 = c1  c2 = c2  c3 = c3  s1 = s1  s2 = s2  t1 = t1
    alice = alice  bob = bob  m1 = m1  m2 = m2  root = root  note = note
    NoLimit = NoLimit  NoMaximum = NoMaximum
    Nonces = {n1, n2}
    Keys = {n1, n2}
    Scopes = {s1, s2}
    Tasks = {t1}
    Policies = {"v1", "v2"}
    Repeatable = {}
    Processes = {p1, p2}
    Coroutines = {c1, c2, c3}
    Tools = {"pay", "list", "odd"}
    Available = {"pay", "list", "odd"}
    Fields = {"to", "amount", "memo", "note", "path"}
    Harmful = {}
    Payments = {"pay"}
    Destinations = {"to"}
    Protected = {}
    Calls <- MCCalls
    Digests <- MCDigests
    Effects <- MCDigests
    Effect <- MCEffect
    Schema <- MCSchema
    Required <- MCRequired
    Selectors <- MCSelectors
    Optional <- MCNone
    Attachments <- MCNone
    Generatable <- MCNone
    ReadResources <- MCReadResources
    ReadDefaults <- MCReadDefaults
    GrantOf <- MCGrantOf
    ModeOf <- MCModeOf
    ProcessOf <- MCProcessOf
    ScopeOf <- MCScopeOf
    ResultPolicyOf <- MCResultPolicyOf
    Histories <- MCHistories
    TaskOf <- MCTaskOf
    EffectOf <- MCEffectOf
    AmountOf <- MCAmountOf
    Limit <- MCLimit
SYMMETRY MCSymmetry
INVARIANTS
    OnlyGrantedRuns
    NativeCallRunsOnce
    PaymentsWithinGrant
    ReceiptsTellWhatRan
PROPERTIES
    EscalationStopsDispatch

SPECIFICATION FairBoundarySpec
CONSTANTS
    c1 = c1  c2 = c2  src = src  certA = certA  idA = idA  idB = idB
    NoIdentity = NoIdentity
    Connections = {c1, c2}
    Sources = {src}
    Certificates = {certA}
    Identities = {idA, idB}
    MaxConnections = 2
    MaxHandshakes = 1
    MaxPeerConnections = 1
    IngressTime = 1
    RateLimit = 2
    Window = 2
    MaxTracked = 1
    MaxTime = 2
INVARIANTS
    PermitsConserved
    TimerOrDispatch
PROPERTIES
    SlotsComeBack

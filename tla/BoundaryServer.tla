--------------------------- MODULE BoundaryServer ---------------------------
(***************************************************************************)
(* Admission of the isolated mTLS boundary: BoundaryServer, Ingress and     *)
(* BoundaryHandler (src/traceguard/mtls.py).                                *)
(*                                                                         *)
(* Every accepted connection has a thread and a timer, which interleave at  *)
(* each lock, semaphore and blocking call.  Clients are external: they may  *)
(* stall, drip, disconnect or send nonsense at any point.  So are the       *)
(* registry of identities, which may change between any two reads, and the  *)
(* dispatched service.  TLS, framing and JSON are left out: a read either   *)
(* yields what the code accepts or fails.                                   *)
(***************************************************************************)
EXTENDS Integers, Sequences, FiniteSets

CONSTANTS
    Connections,   \* accepted sockets, reused when closed
    Sources,       \* client addresses
    Certificates,
    Identities,    \* (subject, service key) pairs
    NoIdentity,
    MaxConnections, MaxHandshakes, MaxPeerConnections,
    IngressTime,   \* ingress_seconds
    RateLimit, Window, MaxTracked,  \* of _budget: 120, 60 seconds, 1024 keys
    MaxTime        \* bound on the clock

ASSUME BoundaryConstants ==
    /\ NoIdentity \notin Identities
    /\ MaxConnections \in Nat /\ MaxPeerConnections \in 1..(MaxConnections - 1)
    /\ MaxHandshakes \in 1..MaxConnections
    /\ IngressTime \in Nat \ {0} /\ Window \in Nat \ {0}
    /\ RateLimit \in Nat \ {0} /\ MaxTracked \in Nat /\ MaxTime \in Nat

VARIABLES
    slots, handshakes,       \* permits left
    peers,                   \* admitted connections per identity
    rates, handshakeRates,   \* windows of _budget
    registry,                \* certificate -> identity
    conn,                    \* thread, session and socket of each connection
    now,
    admitted                 \* observed: the times at which each identity was admitted

boundaryVars == <<slots, handshakes, peers, rates, handshakeRates, registry, conn, now, admitted>>

Closed == [pc |-> "closed"]
Unwound == [pc |-> "slot"]     \* all is returned but the slot
Stranded == [pc |-> "stranded"]  \* the thread ended before its try block
Steps == {"timer", "source", "permit", "wrap", "attach", "handshake", "resolve", "admit", "headers", "body",
          "finish", "recheck", "dispatch", "unwind"}
Open == [pc: Steps, source: Sources, cert: Certificates, deadline: Nat, expired: BOOLEAN,
         complete: BOOLEAN, shut: BOOLEAN, permit: BOOLEAN, counted: BOOLEAN,
         identity: Identities \cup {NoIdentity}]
NoWindow == [start |-> 0, count |-> 0]

BoundaryTypeOK ==
    /\ slots \in Nat /\ handshakes \in Nat
    /\ peers \in [Identities -> Int]
    /\ rates \in [Identities -> [start: Nat, count: Nat]]
    /\ handshakeRates \in [Sources -> [start: Nat, count: Nat]]
    /\ registry \in [Certificates -> Identities \cup {NoIdentity}]
    /\ conn \in [Connections -> Open \cup {Closed, Unwound, Stranded}]
    /\ now \in 0..MaxTime
    /\ admitted \in [Identities -> Seq(0..MaxTime)]

At(c, step) == conn[c].pc = step
Goto(c, step) == conn' = [conn EXCEPT ![c].pc = step]
permits == <<slots, handshakes, peers>>
windows == <<rates, handshakeRates, admitted>>
Outside == UNCHANGED <<registry, now>>

-----------------------------------------------------------------------------
(* _budget: fixed windows that start with the first attempt after the last   *)
(* one ended.  Refused attempts count too; a count is only ever compared with *)
(* the limit, so the model stops counting there.                             *)

Current(table) == [k \in DOMAIN table |->
    IF table[k].start + Window <= now THEN NoWindow ELSE table[k]]

Tracked(table) == {k \in DOMAIN table : table[k] # NoWindow}
Trackable(table, key) ==
    key \in Tracked(Current(table)) \/ Cardinality(Tracked(Current(table))) < MaxTracked

WithinBudget(table, key) == Trackable(table, key) /\ Current(table)[key].count < RateLimit

Budgeted(table, key) ==
    LET current == Current(table)
    IN IF ~Trackable(table, key) THEN current
       ELSE [current EXCEPT ![key] =
                [start |-> IF @ = NoWindow THEN now ELSE @.start,
                 count |-> IF @.count < RateLimit THEN @.count + 1 ELSE @.count]]

-----------------------------------------------------------------------------
(* process_request, process_request_thread *)

\* Without a free slot the socket is closed and nothing else happens; a slot is
\* given back at once when the thread of the connection cannot be started.  No
\* deadline lies beyond the model's clock.
Accept(c, source, cert) ==
    /\ conn[c] = Closed /\ slots > 0
    /\ now + IngressTime <= MaxTime
    /\ slots' = slots - 1
    /\ conn' = [conn EXCEPT ![c] =
           [pc |-> "timer", source |-> source, cert |-> cert, deadline |-> now + IngressTime,
            expired |-> FALSE, complete |-> FALSE, shut |-> FALSE, permit |-> FALSE,
            counted |-> FALSE, identity |-> NoIdentity]]
    /\ UNCHANGED <<handshakes, peers, windows>> /\ Outside

StartTimer(c) ==
    /\ At(c, "timer") /\ Goto(c, "source")
    /\ UNCHANGED <<permits, windows>> /\ Outside

\* The timer is a thread of its own, started before the try block: when it cannot
\* be, the exception ends the connection's thread with socket, session and slot.
TimerFails(c) ==
    /\ At(c, "timer")
    /\ conn' = [conn EXCEPT ![c] = Stranded]
    /\ UNCHANGED <<permits, windows>> /\ Outside

CheckSource(c) ==
    /\ At(c, "source")
    /\ handshakeRates' = Budgeted(handshakeRates, conn[c].source)
    /\ Goto(c, IF WithinBudget(handshakeRates, conn[c].source) THEN "permit" ELSE "unwind")
    /\ UNCHANGED <<permits, rates, admitted>> /\ Outside

\* The handshake permit is not waited for.
AcquirePermit(c) ==
    /\ At(c, "permit")
    /\ IF handshakes > 0
       THEN /\ handshakes' = handshakes - 1
            /\ conn' = [conn EXCEPT ![c].pc = "wrap", ![c].permit = TRUE]
       ELSE Goto(c, "unwind") /\ UNCHANGED handshakes
    /\ UNCHANGED <<slots, peers, windows>> /\ Outside

\* wrap_socket takes the descriptor from the raw socket that the timer knows.
Wrap(c) ==
    /\ At(c, "wrap") /\ Goto(c, "attach")
    /\ UNCHANGED <<permits, windows>> /\ Outside

Late(c) == conn[c].expired \/ now >= conn[c].deadline

\* Mutant of Attach: the deadline is not looked at again.
MutAttach(c) ==
    /\ At(c, "attach") /\ Goto(c, "handshake")
    /\ UNCHANGED <<permits, windows>> /\ Outside

\* Under the ingress lock the timer gets the TLS socket, unless it came too late.
Attach(c) ==
    /\ At(c, "attach")
    /\ Goto(c, IF Late(c) THEN "unwind" ELSE "handshake")
    /\ UNCHANGED <<permits, windows>> /\ Outside

\* The client completes the handshake; the permit is returned.
Handshake(c) ==
    /\ At(c, "handshake") /\ ~conn[c].shut
    /\ conn' = [conn EXCEPT ![c].pc = "resolve", ![c].permit = FALSE]
    /\ handshakes' = handshakes + 1
    /\ UNCHANGED <<slots, peers, windows>> /\ Outside

Registered(c) == registry[conn[c].cert] # NoIdentity

\* PeerIdentities.resolve reads the registry anew each time.
Resolve(c) ==
    /\ At(c, "resolve")
    /\ IF Registered(c)
       THEN conn' = [conn EXCEPT ![c].pc = "admit", ![c].identity = registry[conn[c].cert]]
       ELSE Goto(c, "unwind")
    /\ UNCHANGED <<permits, windows>> /\ Outside

\* Under the rate lock; a peer at its cap spends none of its rate.
Admit(c) ==
    LET key == conn[c].identity
        room == peers[key] < MaxPeerConnections
    IN /\ At(c, "admit")
       /\ rates' = IF room THEN Budgeted(rates, key) ELSE rates
       /\ IF room /\ WithinBudget(rates, key)
          THEN /\ conn' = [conn EXCEPT ![c].pc = "headers", ![c].counted = TRUE]
               /\ peers' = [peers EXCEPT ![key] = @ + 1]
               /\ admitted' = [admitted EXCEPT ![key] = Append(@, now)]
          ELSE Goto(c, "unwind") /\ UNCHANGED <<peers, admitted>>
       /\ UNCHANGED <<slots, handshakes, handshakeRates>> /\ Outside

\* The blocking calls end with an exception: the client disconnects or sends
\* what is refused, or the socket was shut down.
Blocking == {"wrap", "handshake", "headers", "body"}
Fail(c) ==
    /\ conn[c].pc \in Blocking /\ Goto(c, "unwind")
    /\ UNCHANGED <<permits, windows>> /\ Outside

\* Mutant of Unwind: a failed handshake keeps its permit.
MutUnwind(c) ==
    /\ At(c, "unwind") /\ conn' = [conn EXCEPT ![c] = Unwound]
    /\ peers' = IF conn[c].counted THEN [peers EXCEPT ![conn[c].identity] = @ - 1] ELSE peers
    /\ UNCHANGED <<slots, handshakes, windows>> /\ Outside

\* The finally block: timer, permit, sockets, session and peer count.
Unwind(c) ==
    /\ At(c, "unwind")
    /\ conn' = [conn EXCEPT ![c] = Unwound]
    /\ handshakes' = IF conn[c].permit THEN handshakes + 1 ELSE handshakes
    /\ peers' = IF conn[c].counted THEN [peers EXCEPT ![conn[c].identity] = @ - 1] ELSE peers
    /\ UNCHANGED <<slots, windows>> /\ Outside

FreeSlot(c) ==
    /\ At(c, "slot")
    /\ conn' = [conn EXCEPT ![c] = Closed]
    /\ slots' = slots + 1
    /\ UNCHANGED <<handshakes, peers, windows>> /\ Outside

-----------------------------------------------------------------------------
(* Ingress.expire, and BoundaryHandler.do_POST with Ingress.finish *)

\* The timer shuts down the socket it knows; between wrap and attach that one
\* no longer has a descriptor.
Expire(c) ==
    /\ conn[c].pc \notin {"closed", "timer", "slot", "stranded"}
    /\ now >= conn[c].deadline /\ ~conn[c].complete /\ ~conn[c].expired
    /\ conn' = [conn EXCEPT ![c].expired = TRUE, ![c].shut = conn[c].pc # "attach"]
    /\ UNCHANGED <<permits, windows>> /\ Outside

Headers(c) ==
    /\ At(c, "headers") /\ ~conn[c].shut
    /\ Goto(c, IF Registered(c) THEN "body" ELSE "unwind")
    /\ UNCHANGED <<permits, windows>> /\ Outside

Body(c) ==
    /\ At(c, "body") /\ ~conn[c].shut /\ Goto(c, "finish")
    /\ UNCHANGED <<permits, windows>> /\ Outside

\* Mutant of Finish: what was read is dispatched, however late.
MutFinish(c) ==
    /\ At(c, "finish")
    /\ conn' = [conn EXCEPT ![c].pc = "recheck", ![c].complete = TRUE]
    /\ UNCHANGED <<permits, windows>> /\ Outside

\* Under the ingress lock: the request is complete in time, or never dispatched.
Finish(c) ==
    /\ At(c, "finish")
    /\ conn' = IF Late(c) THEN [conn EXCEPT ![c].pc = "unwind"]
                          ELSE [conn EXCEPT ![c].pc = "recheck", ![c].complete = TRUE]
    /\ UNCHANGED <<permits, windows>> /\ Outside

\* The identity is resolved again, and a revoked certificate goes no further.
Recheck(c) ==
    /\ At(c, "recheck")
    /\ Goto(c, IF Registered(c) THEN "dispatch" ELSE "unwind")
    /\ UNCHANGED <<permits, windows>> /\ Outside

\* The service returns or raises; the reply is written or fails.
Reply(c) ==
    /\ At(c, "dispatch") /\ Goto(c, "unwind")
    /\ UNCHANGED <<permits, windows>> /\ Outside

-----------------------------------------------------------------------------
\* The application rewrites the registry: a certificate is revoked, or another's.
Reregister(cert, identity) ==
    /\ registry' = [registry EXCEPT ![cert] = identity]
    /\ UNCHANGED <<permits, windows, conn, now>>

Tick ==
    /\ now < MaxTime /\ now' = now + 1
    /\ UNCHANGED <<permits, windows, conn, registry>>

BoundaryInit ==
    /\ slots = MaxConnections /\ handshakes = MaxHandshakes
    /\ peers = [k \in Identities |-> 0]
    /\ rates = [k \in Identities |-> NoWindow]
    /\ handshakeRates = [s \in Sources |-> NoWindow]
    /\ registry \in [Certificates -> Identities]
    /\ conn = [c \in Connections |-> Closed]
    /\ now = 0
    /\ admitted = [k \in Identities |-> << >>]

\* Steps the server takes by itself, and those that need the client.
ServerStep(c) ==
    \/ StartTimer(c) \/ CheckSource(c) \/ AcquirePermit(c) \/ Wrap(c) \/ Attach(c) \/ Resolve(c) \/ Admit(c)
    \/ Finish(c) \/ Recheck(c) \/ Reply(c) \/ Unwind(c) \/ FreeSlot(c)
ClientStep(c) == Handshake(c) \/ Headers(c) \/ Body(c)

BoundaryNext ==
    \/ \E c \in Connections :
          \/ \E source \in Sources, cert \in Certificates : Accept(c, source, cert)
          \/ ServerStep(c) \/ ClientStep(c) \/ Fail(c) \/ Expire(c) \/ TimerFails(c)
    \/ \E cert \in Certificates, k \in Identities \cup {NoIdentity} : Reregister(cert, k)
    \/ Tick

BoundarySpec == BoundaryInit /\ [][BoundaryNext]_boundaryVars

\* A blocking call on a socket that was shut down returns.
Broken(c) == conn[c].pc \in Blocking /\ conn[c].shut /\ Fail(c)

\* Time passes, and of thread and timer of a connection one runs when it can.
\* Nothing is assumed of clients, but that the service returns.
FairBoundarySpec ==
    /\ BoundarySpec
    /\ WF_boundaryVars(Tick)
    /\ \A c \in Connections : WF_boundaryVars(ServerStep(c) \/ Expire(c) \/ Broken(c))

-----------------------------------------------------------------------------
(* Properties *)

Holding(Test(_)) == Cardinality({c \in Connections : conn[c] \in Open /\ Test(c)})

\* Every permit that is missing is held by a running thread, and every peer count
\* is that of its admitted connections, also when the identity of a certificate
\* changed in between.  "All paths release slots" (docs/isolated_executor.md) is
\* true of every path but one: a connection whose timer could not be started
\* keeps its slot for as long as the server runs.
PermitsConserved ==
    /\ slots + Cardinality({c \in Connections : conn[c] \in Open \cup {Unwound}})
             + Cardinality({c \in Connections : conn[c] = Stranded}) = MaxConnections
    /\ handshakes + Holding(LAMBDA c : conn[c].permit) = MaxHandshakes
    /\ \A k \in Identities :
          peers[k] = Holding(LAMBDA c : conn[c].counted /\ conn[c].identity = k)

\* "Ingress has an absolute monotonic deadline": of timer and thread one wins.  A
\* request whose timer expired is never dispatched, and a complete one is not
\* shut down any more.
TimerOrDispatch ==
    \A c \in Connections : conn[c] \in Open =>
        /\ ~(conn[c].expired /\ conn[c].complete)
        /\ conn[c].pc \in {"recheck", "dispatch"} => conn[c].complete /\ ~conn[c].shut

\* However attempts are spread over fixed windows, in any stretch of a window's
\* length an identity is admitted less than twice the limit; not the "120/minute"
\* of docs/isolated_executor.md, which holds of a window and not of a minute.
RateBounded ==
    \A k \in Identities, t \in 0..MaxTime :
        Cardinality({i \in DOMAIN admitted[k] : t <= admitted[k][i] /\ admitted[k][i] < t + Window})
            < 2 * RateLimit

\* A connection that stalls or drips ends, and its slot comes back, whatever the
\* client does, unless its timer could not be started.
SlotsComeBack == \A c \in Connections : conn[c] # Closed ~> conn[c] \in {Closed, Stranded}
=============================================================================

------------------------ MODULE BoundaryServerProofs ------------------------
(***************************************************************************)
(* Proofs about BoundaryServer for any number of connections, certificates *)
(* and identities, any limits and any deadline.                            *)
(***************************************************************************)
EXTENDS BoundaryServer, FiniteSetTheorems, WellFoundedInduction, TLAPS

\* The windows of _budget keep their type, whatever is tracked.
LEMMA BudgetedTyped ==
    ASSUME NEW K, NEW key, NEW table \in [K -> [start: Nat, count: Nat]], now \in Nat
    PROVE  Budgeted(table, key) \in [K -> [start: Nat, count: Nat]]
  <1> DEFINE current == Current(table)
  <1>1. current \in [K -> [start: Nat, count: Nat]]
    BY DEF Current, NoWindow
  <1>2. CASE ~Trackable(table, key)
    BY <1>1, <1>2 DEF Budgeted
  <1>3. CASE Trackable(table, key)
    <2> DEFINE w == [start |-> IF current[key] = NoWindow THEN now ELSE current[key].start,
                     count |-> IF current[key].count < RateLimit
                               THEN current[key].count + 1 ELSE current[key].count]
    <2>1. Budgeted(table, key) = [current EXCEPT ![key] = w]
      BY <1>3 DEF Budgeted
    <2>2. key \in K => w \in [start: Nat, count: Nat]
      BY <1>1
    <2> QED BY <1>1, <2>1, <2>2
  <1> QED BY <1>2, <1>3

-----------------------------------------------------------------------------
(* The inductive invariant *)

\* What holds of one connection's record.  That a shut socket means an expired
\* timer is what makes TimerOrDispatch inductive.
Sound(r) ==
    r \in Open => /\ ~(r.expired /\ r.complete)
                  /\ r.pc \in {"recheck", "dispatch"} => r.complete /\ ~r.shut
                  /\ r.shut => r.expired

Record(r) == r \in Open \cup {Closed, Unwound, Stranded}

BoundaryInv == BoundaryTypeOK /\ \A c \in Connections : Sound(conn[c])

\* A thread that has not returned everything has an open record.
LEMMA Running ==
    ASSUME BoundaryTypeOK, NEW c \in Connections, conn[c].pc \in Steps
    PROVE  conn[c] \in Open
  <1>1. conn[c] \in Open \cup {Closed, Unwound, Stranded}
    BY DEF BoundaryTypeOK
  <1> QED BY <1>1 DEF Closed, Unwound, Stranded, Steps

\* Only connection c has a new record, and it is sound.
Moves(c) == \E r : Record(r) /\ Sound(r) /\ conn' = [conn EXCEPT ![c] = r]

\* Going on to a step before the dispatch keeps a record sound.
LEMMA GotoMoves ==
    ASSUME BoundaryInv, NEW c \in Connections, conn[c].pc \in Steps,
           NEW step \in Steps \ {"recheck", "dispatch"}, Goto(c, step)
    PROVE  Moves(c)
  <1> DEFINE rec == [conn[c] EXCEPT !.pc = step]
  <1>1. conn[c] \in Open /\ Sound(conn[c])
    BY Running DEF BoundaryInv
  <1>2. rec \in Open /\ Sound(rec)
    BY <1>1 DEF Open, Sound
  <1>3. conn' = [conn EXCEPT ![c] = rec]
    BY DEF Goto
  <1> HIDE DEF rec
  <1> QED BY <1>2, <1>3 DEF Moves, Record

\* A whole new record of a closed or finished connection.
LEMMA ResetMoves ==
    ASSUME NEW c \in Connections, NEW r \in {Closed, Unwound, Stranded}, conn' = [conn EXCEPT ![c] = r]
    PROVE  Moves(c)
  <1>1. r \notin Open
    BY DEF Open, Closed, Unwound, Stranded, Steps
  <1> QED BY <1>1 DEF Moves, Record, Sound

\* A connection is accepted with a fresh record.
LEMMA AcceptMoves ==
    ASSUME BoundaryInv, NEW c \in Connections, NEW source \in Sources, NEW cert \in Certificates,
           Accept(c, source, cert)
    PROVE  Moves(c)
  <1> DEFINE rec == [pc |-> "timer", source |-> source, cert |-> cert, deadline |-> now + IngressTime,
                     expired |-> FALSE, complete |-> FALSE, shut |-> FALSE, permit |-> FALSE,
                     counted |-> FALSE, identity |-> NoIdentity]
  <1>1. rec \in Open /\ Sound(rec)
    BY BoundaryConstants DEF BoundaryInv, BoundaryTypeOK, Open, Sound, Steps
  <1>2. conn' = [conn EXCEPT ![c] = rec]
    BY DEF Accept
  <1> HIDE DEF rec
  <1> QED BY <1>1, <1>2 DEF Moves, Record

\* The permit is taken, or the thread ends.
LEMMA AcquirePermitMoves ==
    ASSUME BoundaryInv, NEW c \in Connections, AcquirePermit(c)
    PROVE  Moves(c)
  <1>1. conn[c].pc \in Steps /\ conn[c] \in Open /\ Sound(conn[c])
    BY Running DEF BoundaryInv, AcquirePermit, At, Steps
  <1>2. CASE conn' = [conn EXCEPT ![c].pc = "wrap", ![c].permit = TRUE]
    <2> DEFINE rec == [conn[c] EXCEPT !.pc = "wrap", !.permit = TRUE]
    <2>1. rec \in Open /\ Sound(rec)
      BY <1>1, <1>2 DEF Open, Sound, Steps
    <2>2. conn' = [conn EXCEPT ![c] = rec]
      BY <1>2
    <2> HIDE DEF rec
    <2> QED BY <2>1, <2>2 DEF Moves, Record
  <1>3. CASE Goto(c, "unwind")
    BY <1>1, <1>3, GotoMoves DEF Steps
  <1> QED BY <1>2, <1>3 DEF AcquirePermit, Goto

\* The permit is returned after the handshake.
LEMMA HandshakeMoves ==
    ASSUME BoundaryInv, NEW c \in Connections, Handshake(c)
    PROVE  Moves(c)
  <1>1. conn[c].pc \in Steps /\ conn[c] \in Open /\ Sound(conn[c])
    BY Running DEF BoundaryInv, Handshake, At, Steps
  <1>2. CASE conn' = [conn EXCEPT ![c].pc = "resolve", ![c].permit = FALSE]
    <2> DEFINE rec == [conn[c] EXCEPT !.pc = "resolve", !.permit = FALSE]
    <2>1. rec \in Open /\ Sound(rec)
      BY <1>1, <1>2 DEF Open, Sound, Steps
    <2>2. conn' = [conn EXCEPT ![c] = rec]
      BY <1>2
    <2> HIDE DEF rec
    <2> QED BY <2>1, <2>2 DEF Moves, Record
  <1> QED BY <1>2 DEF Handshake, Goto

\* The identity is read from the registry.
LEMMA ResolveMoves ==
    ASSUME BoundaryInv, NEW c \in Connections, Resolve(c)
    PROVE  Moves(c)
  <1>1. conn[c].pc \in Steps /\ conn[c] \in Open /\ Sound(conn[c])
    BY Running DEF BoundaryInv, Resolve, At, Steps
  <1>2. CASE conn' = [conn EXCEPT ![c].pc = "admit", ![c].identity = registry[conn[c].cert]]
    <2> DEFINE rec == [conn[c] EXCEPT !.pc = "admit", !.identity = registry[conn[c].cert]]
    <2>1. rec \in Open /\ Sound(rec)
      BY <1>1, <1>2 DEF Open, Sound, Steps, BoundaryInv, BoundaryTypeOK
    <2>2. conn' = [conn EXCEPT ![c] = rec]
      BY <1>2
    <2> HIDE DEF rec
    <2> QED BY <2>1, <2>2 DEF Moves, Record
  <1>3. CASE Goto(c, "unwind")
    BY <1>1, <1>3, GotoMoves DEF Steps
  <1> QED BY <1>2, <1>3 DEF Resolve, Goto

\* The connection is counted, or the thread ends.
LEMMA AdmitMoves ==
    ASSUME BoundaryInv, NEW c \in Connections, Admit(c)
    PROVE  Moves(c)
  <1>1. conn[c].pc \in Steps /\ conn[c] \in Open /\ Sound(conn[c])
    BY Running DEF BoundaryInv, Admit, At, Steps
  <1>2. CASE conn' = [conn EXCEPT ![c].pc = "headers", ![c].counted = TRUE]
    <2> DEFINE rec == [conn[c] EXCEPT !.pc = "headers", !.counted = TRUE]
    <2>1. rec \in Open /\ Sound(rec)
      BY <1>1, <1>2 DEF Open, Sound, Steps
    <2>2. conn' = [conn EXCEPT ![c] = rec]
      BY <1>2
    <2> HIDE DEF rec
    <2> QED BY <2>1, <2>2 DEF Moves, Record
  <1>3. CASE Goto(c, "unwind")
    BY <1>1, <1>3, GotoMoves DEF Steps
  <1> QED BY <1>2, <1>3 DEF Admit, Goto

\* The timer expires before the request is complete.
LEMMA ExpireMoves ==
    ASSUME BoundaryInv, NEW c \in Connections, Expire(c)
    PROVE  Moves(c)
  <1>0. conn[c] \in Open \cup {Closed, Unwound, Stranded} /\ Sound(conn[c])
    BY DEF BoundaryInv, BoundaryTypeOK
  <1>1. conn[c] \in Open /\ Sound(conn[c])
    BY <1>0 DEF Expire, Closed, Unwound, Stranded
  <1>2. CASE ~conn[c].complete /\ conn' = [conn EXCEPT ![c].expired = TRUE, ![c].shut = conn[c].pc # "attach"]
    <2> DEFINE rec == [conn[c] EXCEPT !.expired = TRUE, !.shut = conn[c].pc # "attach"]
    <2>1. rec \in Open /\ Sound(rec)
      BY <1>1, <1>2 DEF Open, Sound, Steps
    <2>2. conn' = [conn EXCEPT ![c] = rec]
      BY <1>2
    <2> HIDE DEF rec
    <2> QED BY <2>1, <2>2 DEF Moves, Record
  <1> QED BY <1>2 DEF Expire, Goto

\* The request is complete before the timer expires, or the thread ends.
LEMMA FinishMoves ==
    ASSUME BoundaryInv, NEW c \in Connections, Finish(c)
    PROVE  Moves(c)
  <1>1. conn[c].pc \in Steps /\ conn[c] \in Open /\ Sound(conn[c])
    BY Running DEF BoundaryInv, Finish, At, Steps
  <1>2. CASE ~conn[c].expired /\ conn' = [conn EXCEPT ![c].pc = "recheck", ![c].complete = TRUE]
    <2> DEFINE rec == [conn[c] EXCEPT !.pc = "recheck", !.complete = TRUE]
    <2>1. rec \in Open /\ Sound(rec)
      BY <1>1, <1>2 DEF Open, Sound, Steps
    <2>2. conn' = [conn EXCEPT ![c] = rec]
      BY <1>2
    <2> HIDE DEF rec
    <2> QED BY <2>1, <2>2 DEF Moves, Record
  <1>3. CASE Goto(c, "unwind")
    BY <1>1, <1>3, GotoMoves DEF Steps
  <1> QED BY <1>2, <1>3 DEF Finish, Late, Goto

\* The request is dispatched, or the thread ends.
LEMMA RecheckMoves ==
    ASSUME BoundaryInv, NEW c \in Connections, Recheck(c)
    PROVE  Moves(c)
  <1>1. conn[c].pc \in Steps /\ conn[c] \in Open /\ Sound(conn[c])
    BY Running DEF BoundaryInv, Recheck, At, Steps
  <1>2. CASE At(c, "recheck") /\ Goto(c, "dispatch")
    <2> DEFINE rec == [conn[c] EXCEPT !.pc = "dispatch"]
    <2>1. rec \in Open /\ Sound(rec)
      BY <1>1, <1>2 DEF Open, Sound, Steps, At
    <2>2. conn' = [conn EXCEPT ![c] = rec]
      BY <1>2 DEF Goto
    <2> HIDE DEF rec
    <2> QED BY <2>1, <2>2 DEF Moves, Record
  <1>3. CASE Goto(c, "unwind")
    BY <1>1, <1>3, GotoMoves DEF Steps
  <1> QED BY <1>2, <1>3 DEF Recheck, Goto

-----------------------------------------------------------------------------
\* Every step leaves all connections alone, or moves one.
LEMMA EveryStepMoves ==
    ASSUME BoundaryInv, [BoundaryNext]_boundaryVars
    PROVE  UNCHANGED conn \/ \E c \in Connections : Moves(c)
  <1>1. ASSUME NEW c \in Connections, 
               \/ StartTimer(c) \/ CheckSource(c) \/ Wrap(c) \/ Attach(c) \/ Fail(c)
               \/ Headers(c) \/ Body(c) \/ Reply(c)
        PROVE  Moves(c)
    <2>1. conn[c].pc \in Steps
      BY <1>1 DEF StartTimer, CheckSource, Wrap, Attach, Fail, Blocking, Headers, Body, Reply, At, Steps
    <2>2. \E step \in Steps \ {"recheck", "dispatch"} : Goto(c, step)
      BY <1>1 DEF StartTimer, CheckSource, Wrap, Attach, Fail, Headers, Body, Reply, Steps
    <2> QED BY <2>1, <2>2, GotoMoves
  <1>2. ASSUME NEW c \in Connections, Unwind(c) \/ FreeSlot(c) \/ TimerFails(c) PROVE Moves(c)
    BY <1>2, ResetMoves DEF Unwind, FreeSlot, TimerFails
  <1>3. CASE UNCHANGED boundaryVars \/ Tick \/ \E cert \in Certificates, k \in Identities \cup {NoIdentity} :
                                                  Reregister(cert, k)
    BY <1>3 DEF boundaryVars, Tick, Reregister
  <1> QED
    BY <1>1, <1>2, <1>3, AcceptMoves, AcquirePermitMoves, HandshakeMoves, ResolveMoves, AdmitMoves,
       ExpireMoves, FinishMoves, RecheckMoves
       DEF BoundaryNext, ServerStep, ClientStep

\* The permits, tables, registry and clock keep their types.
LEMMA TablesTyped ==
    ASSUME BoundaryInv, [BoundaryNext]_boundaryVars
    PROVE  /\ slots' \in Nat /\ handshakes' \in Nat
           /\ peers' \in [Identities -> Int]
           /\ rates' \in [Identities -> [start: Nat, count: Nat]]
           /\ handshakeRates' \in [Sources -> [start: Nat, count: Nat]]
           /\ registry' \in [Certificates -> Identities \cup {NoIdentity}]
           /\ now' \in 0..MaxTime
           /\ admitted' \in [Identities -> Seq(0..MaxTime)]
  <1> DEFINE Typed == /\ slots' \in Nat /\ handshakes' \in Nat
                      /\ peers' \in [Identities -> Int]
                      /\ rates' \in [Identities -> [start: Nat, count: Nat]]
                      /\ handshakeRates' \in [Sources -> [start: Nat, count: Nat]]
                      /\ registry' \in [Certificates -> Identities \cup {NoIdentity}]
                      /\ now' \in 0..MaxTime
                      /\ admitted' \in [Identities -> Seq(0..MaxTime)]
  <1>0. /\ slots \in Nat /\ handshakes \in Nat /\ peers \in [Identities -> Int]
        /\ rates \in [Identities -> [start: Nat, count: Nat]]
        /\ handshakeRates \in [Sources -> [start: Nat, count: Nat]]
        /\ registry \in [Certificates -> Identities \cup {NoIdentity}]
        /\ now \in 0..MaxTime /\ now \in Nat /\ MaxTime \in Nat
        /\ admitted \in [Identities -> Seq(0..MaxTime)]
    BY BoundaryConstants DEF BoundaryInv, BoundaryTypeOK
  <1>1. ASSUME NEW c \in Connections, NEW source \in Sources, NEW cert \in Certificates, Accept(c, source, cert)
        PROVE  Typed
    BY <1>0, <1>1 DEF Accept, windows, Outside
  <1>2. ASSUME NEW c \in Connections, CheckSource(c) PROVE Typed
    <2>1. handshakeRates' \in [Sources -> [start: Nat, count: Nat]]
      BY <1>0, <1>2, BudgetedTyped DEF CheckSource
    <2> QED BY <1>0, <1>2, <2>1 DEF CheckSource, permits, Outside
  <1>3. ASSUME NEW c \in Connections, AcquirePermit(c) \/ Handshake(c) PROVE Typed
    BY <1>0, <1>3 DEF AcquirePermit, Handshake, windows, Outside
  <1>4. ASSUME NEW c \in Connections,
               \/ Wrap(c) \/ Attach(c) \/ Fail(c) \/ Headers(c) \/ Body(c) \/ Resolve(c)
               \/ Recheck(c) \/ Expire(c) \/ Finish(c) \/ Reply(c) \/ StartTimer(c) \/ TimerFails(c)
        PROVE  Typed
    <2>1. UNCHANGED <<permits, windows>> /\ Outside
      BY <1>4 DEF Wrap, Attach, Fail, Headers, Body, Resolve, Recheck, Expire, Finish, Reply,
         StartTimer, TimerFails
    <2> QED BY <1>0, <2>1 DEF permits, windows, Outside
  <1>5. ASSUME NEW c \in Connections, Admit(c) PROVE Typed
    <2> DEFINE key == conn[c].identity
    <2>1. rates' \in [Identities -> [start: Nat, count: Nat]]
      BY <1>0, <1>5, BudgetedTyped DEF Admit
    <2>2. peers' = peers \/ peers' = [peers EXCEPT ![key] = @ + 1]
      BY <1>5 DEF Admit
    <2>3. admitted' = admitted \/ admitted' = [admitted EXCEPT ![key] = Append(@, now)]
      BY <1>5 DEF Admit
    <2>4. UNCHANGED <<slots, handshakes, handshakeRates>> /\ Outside
      BY <1>5 DEF Admit
    <2> HIDE DEF key
    <2>5. peers' \in [Identities -> Int]
      BY <1>0, <2>2
    <2>6. admitted' \in [Identities -> Seq(0..MaxTime)]
      <3>1. CASE admitted' = [admitted EXCEPT ![key] = Append(@, now)]
        <4>1. key \in Identities => Append(admitted[key], now) \in Seq(0..MaxTime)
          BY <1>0
        <4> QED BY <1>0, <3>1, <4>1
      <3> QED BY <1>0, <2>3, <3>1
    <2> QED BY <1>0, <2>1, <2>4, <2>5, <2>6 DEF Outside
  <1>6. ASSUME NEW c \in Connections, FreeSlot(c) PROVE Typed
    BY <1>0, <1>6 DEF FreeSlot, windows, Outside
  <1>7. ASSUME NEW c \in Connections, Unwind(c) PROVE Typed
    <2> DEFINE key == conn[c].identity
    <2>1. peers' = peers \/ peers' = [peers EXCEPT ![key] = @ - 1]
      BY <1>7 DEF Unwind
    <2>2. handshakes' = handshakes \/ handshakes' = handshakes + 1
      BY <1>7 DEF Unwind
    <2>3. UNCHANGED <<slots, windows>> /\ Outside
      BY <1>7 DEF Unwind
    <2> HIDE DEF key
    <2> QED BY <1>0, <2>1, <2>2, <2>3 DEF windows, Outside
  <1>8. ASSUME NEW cert \in Certificates, NEW k \in Identities \cup {NoIdentity}, Reregister(cert, k)
        PROVE  Typed
    BY <1>0, <1>8 DEF Reregister, permits, windows
  <1>9. CASE Tick \/ UNCHANGED boundaryVars
    BY <1>0, <1>9 DEF Tick, permits, windows, boundaryVars
  <1> QED
    BY <1>1, <1>2, <1>3, <1>4, <1>5, <1>6, <1>7, <1>8, <1>9 DEF BoundaryNext, ServerStep, ClientStep

\* BoundaryInv is inductive.
LEMMA InvStep == BoundaryInv /\ [BoundaryNext]_boundaryVars => BoundaryInv'
  <1> SUFFICES ASSUME BoundaryInv, [BoundaryNext]_boundaryVars PROVE BoundaryInv'
    OBVIOUS
  <1>1. conn' \in [Connections -> Open \cup {Closed, Unwound, Stranded}] /\ \A c \in Connections : Sound(conn'[c])
    <2>1. conn \in [Connections -> Open \cup {Closed, Unwound, Stranded}] /\ \A c \in Connections : Sound(conn[c])
      BY DEF BoundaryInv, BoundaryTypeOK
    <2>2. CASE UNCHANGED conn
      BY <2>1, <2>2
    <2>3. ASSUME NEW c \in Connections, NEW r, Record(r), Sound(r), conn' = [conn EXCEPT ![c] = r]
          PROVE  /\ conn' \in [Connections -> Open \cup {Closed, Unwound, Stranded}]
                 /\ \A d \in Connections : Sound(conn'[d])
      BY <2>1, <2>3 DEF Record
    <2> QED BY <2>2, <2>3, EveryStepMoves DEF Moves
  <1> QED BY <1>1, TablesTyped DEF BoundaryInv, BoundaryTypeOK, Sound

-----------------------------------------------------------------------------
\* BoundaryInv holds throughout.
LEMMA BoundaryInvariant == BoundarySpec => []BoundaryInv
  <1>1. BoundaryInit => BoundaryInv
    <2> SUFFICES ASSUME BoundaryInit PROVE BoundaryInv
      OBVIOUS
    <2>1. BoundaryTypeOK
      BY BoundaryConstants DEF BoundaryInit, BoundaryTypeOK, NoWindow
    <2>2. Closed \notin Open
      BY DEF Closed, Open, Steps
    <2> QED BY <2>1, <2>2 DEF BoundaryInit, BoundaryInv, Sound
  <1> QED BY <1>1, InvStep, PTL DEF BoundarySpec

\* The server's permits, tables and connections stay well typed; no counter of
\* permits is ever negative.
THEOREM BoundaryTypeCorrect == BoundarySpec => []BoundaryTypeOK
  <1>1. BoundaryInv => BoundaryTypeOK
    BY DEF BoundaryInv
  <1> QED BY <1>1, BoundaryInvariant, PTL

\* Of Ingress.expire and Ingress.finish one wins, for any number of connections,
\* any deadline and whatever clients do: an expired request is never dispatched
\* and a complete one is not shut down.
THEOREM OneWins == BoundarySpec => []TimerOrDispatch
  <1>1. BoundaryInv => TimerOrDispatch
    BY DEF BoundaryInv, TimerOrDispatch, Sound
  <1> QED BY <1>1, BoundaryInvariant, PTL

-----------------------------------------------------------------------------
(* Conservation of permits.  Only finitely many connections are ever open, so  *)
(* nothing is assumed of how many there can be.                              *)

Used == {c \in Connections : conn[c] # Closed}
Permitted == {c \in Connections : conn[c] \in Open /\ conn[c].permit}
Counted(k) == {c \in Connections : conn[c] \in Open /\ conn[c].counted /\ conn[c].identity = k}

\* What a thread holds at each of its steps.
Held(r) ==
    r \in Open =>
        /\ r.pc \in {"timer", "source", "permit"} => ~r.permit
        /\ r.pc \in {"wrap", "attach", "handshake"} => r.permit
        /\ r.pc \in {"timer", "source", "permit", "wrap", "attach", "handshake", "resolve", "admit"}
              => ~r.counted
        /\ r.pc = "admit" \/ r.counted => r.identity \in Identities

ConservedInv ==
    /\ BoundaryInv
    /\ \A c \in Connections : Held(conn[c])
    /\ IsFiniteSet(Used)
    /\ slots + Cardinality(Used) = MaxConnections
    /\ handshakes + Cardinality(Permitted) = MaxHandshakes
    /\ \A k \in Identities : peers[k] = Cardinality(Counted(k))

\* The new record of c holds as much more as the counters have less.
One(test) == IF test THEN 1 ELSE 0
HasPermit(r) == r \in Open /\ r.permit
CountsFor(r, k) == r \in Open /\ r.counted /\ r.identity = k
Balanced(c, r) ==
    /\ slots' + One(r # Closed) = slots + One(conn[c] # Closed)
    /\ handshakes' + One(HasPermit(r)) = handshakes + One(HasPermit(conn[c]))
    /\ \A k \in Identities :
          peers'[k] - One(CountsFor(r, k)) = peers[k] - One(CountsFor(conn[c], k))

Accounted(c) == \E r : Record(r) /\ Held(r) /\ Balanced(c, r) /\ conn' = [conn EXCEPT ![c] = r]

\* A set that gains or loses at most one element changes its size accordingly.
LEMMA OneMore ==
    ASSUME NEW S, NEW T, NEW c, IsFiniteSet(S), \A d : d # c => (d \in S <=> d \in T)
    PROVE  /\ IsFiniteSet(T) /\ Cardinality(S) \in Nat /\ Cardinality(T) \in Nat
           /\ Cardinality(T) - One(c \in T) = Cardinality(S) - One(c \in S)
<1>1. Cardinality(S) \in Nat
  BY FS_CardinalityType
<1>2. CASE c \in T
  <2>1. T = S \cup {c}
    BY <1>2
  <2>2. IsFiniteSet(T) /\ Cardinality(T) = IF c \in S THEN Cardinality(S) ELSE Cardinality(S) + 1
    BY <2>1, FS_AddElement
  <2> QED BY <1>1, <1>2, <2>2 DEF One
<1>3. CASE c \notin T
  <2>1. T = S \ {c}
    BY <1>3
  <2>2. IsFiniteSet(T) /\ Cardinality(T) = IF c \in S THEN Cardinality(S) - 1 ELSE Cardinality(S)
    BY <2>1, FS_RemoveElement
  <2>3. Cardinality(T) \in Nat
    BY <2>2, FS_CardinalityType
  <2> QED BY <1>1, <1>3, <2>2, <2>3 DEF One
<1> QED BY <1>2, <1>3

\* What the counter loses the set gains.
LEMMA SumKept ==
    ASSUME NEW a \in Nat, NEW b \in Nat, NEW m \in Nat, NEW n \in Nat, NEW x \in {0, 1}, NEW y \in {0, 1},
           b + x = a + y, n - x = m - y
    PROVE  b + n = a + m
OBVIOUS

\* A balanced step keeps every sum.
LEMMA BalanceKeeps ==
    ASSUME ConservedInv, BoundaryInv', NEW c \in Connections, NEW r, Held(r), Balanced(c, r),
           conn' = [conn EXCEPT ![c] = r]
    PROVE  ConservedInv'
<1>0. /\ conn \in [Connections -> Open \cup {Closed, Unwound, Stranded}] /\ slots \in Nat /\ handshakes \in Nat
      /\ peers \in [Identities -> Int] /\ slots' \in Nat /\ handshakes' \in Nat
      /\ peers' \in [Identities -> Int]
  BY DEF ConservedInv, BoundaryInv, BoundaryTypeOK
<1>1. conn'[c] = r /\ \A d \in Connections \ {c} : conn'[d] = conn[d]
  BY <1>0
<1>2. \A d \in Connections : Held(conn'[d])
  BY <1>1 DEF ConservedInv
<1>3. Closed \notin Open
  BY DEF Closed, Open, Steps
<1>4. /\ IsFiniteSet(Used') /\ Cardinality(Used) \in Nat /\ Cardinality(Used') \in Nat
      /\ Cardinality(Used') - One(r # Closed) = Cardinality(Used) - One(conn[c] # Closed)
  <2>1. \A d : d # c => (d \in Used <=> d \in Used')
    BY <1>1 DEF Used
  <2>2. (c \in Used <=> conn[c] # Closed) /\ (c \in Used' <=> r # Closed)
    BY <1>1 DEF Used
  <2>3. IsFiniteSet(Used)
    BY DEF ConservedInv
  <2>4. /\ IsFiniteSet(Used') /\ Cardinality(Used) \in Nat /\ Cardinality(Used') \in Nat
        /\ Cardinality(Used') - One(c \in Used') = Cardinality(Used) - One(c \in Used)
    BY <2>1, <2>3, OneMore
  <2> QED BY <2>2, <2>4 DEF One
<1>5. /\ Cardinality(Permitted) \in Nat /\ Cardinality(Permitted') \in Nat
      /\ Cardinality(Permitted') - One(HasPermit(r)) = Cardinality(Permitted) - One(HasPermit(conn[c]))
  <2>1. \A d : d # c => (d \in Permitted <=> d \in Permitted')
    BY <1>1 DEF Permitted
  <2>2. (c \in Permitted <=> HasPermit(conn[c])) /\ (c \in Permitted' <=> HasPermit(r))
    BY <1>1 DEF Permitted, HasPermit
  <2>3. Permitted \in SUBSET Used
    BY <1>3 DEF Permitted, Used
  <2>4. IsFiniteSet(Permitted)
    BY <2>3, FS_Subset DEF ConservedInv
  <2>5. /\ Cardinality(Permitted) \in Nat /\ Cardinality(Permitted') \in Nat
        /\ Cardinality(Permitted') - One(c \in Permitted') = Cardinality(Permitted) - One(c \in Permitted)
    BY <2>1, <2>4, OneMore
  <2> QED BY <2>2, <2>5 DEF One
<1>6. ASSUME NEW k \in Identities
      PROVE  /\ Cardinality(Counted(k)) \in Nat /\ Cardinality(Counted(k)') \in Nat
             /\ Cardinality(Counted(k)') - One(CountsFor(r, k))
                   = Cardinality(Counted(k)) - One(CountsFor(conn[c], k))
  <2>1. \A d : d # c => (d \in Counted(k) <=> d \in Counted(k)')
    BY <1>1 DEF Counted
  <2>2. (c \in Counted(k) <=> CountsFor(conn[c], k)) /\ (c \in Counted(k)' <=> CountsFor(r, k))
    BY <1>1 DEF Counted, CountsFor
  <2>3. Counted(k) \in SUBSET Used
    BY <1>3 DEF Counted, Used
  <2>4. IsFiniteSet(Counted(k))
    BY <2>3, FS_Subset DEF ConservedInv
  <2>5. /\ Cardinality(Counted(k)) \in Nat /\ Cardinality(Counted(k)') \in Nat
        /\ Cardinality(Counted(k)') - One(c \in Counted(k)') = Cardinality(Counted(k)) - One(c \in Counted(k))
    BY <2>1, <2>4, OneMore
  <2> QED BY <2>2, <2>5 DEF One
<1>7. slots' + Cardinality(Used') = MaxConnections
  <2>1. slots + Cardinality(Used) = MaxConnections
    BY DEF ConservedInv
  <2>2. slots' + One(r # Closed) = slots + One(conn[c] # Closed)
    BY DEF Balanced
  <2>3. PICK x \in {0, 1}, y \in {0, 1} : x = One(r # Closed) /\ y = One(conn[c] # Closed)
    BY DEF One
  <2>4. slots' + Cardinality(Used') = slots + Cardinality(Used)
    BY <1>0, <1>4, <2>2, <2>3, SumKept
  <2> QED BY <2>1, <2>4
<1>8. handshakes' + Cardinality(Permitted') = MaxHandshakes
  <2>1. handshakes + Cardinality(Permitted) = MaxHandshakes
    BY DEF ConservedInv
  <2>2. handshakes' + One(HasPermit(r)) = handshakes + One(HasPermit(conn[c]))
    BY DEF Balanced
  <2>3. PICK x \in {0, 1}, y \in {0, 1} : x = One(HasPermit(r)) /\ y = One(HasPermit(conn[c]))
    BY DEF One
  <2>4. handshakes' + Cardinality(Permitted') = handshakes + Cardinality(Permitted)
    BY <1>0, <1>5, <2>2, <2>3, SumKept
  <2> QED BY <2>1, <2>4
<1>9. ASSUME NEW k \in Identities PROVE peers'[k] = Cardinality(Counted(k)')
  <2>1. peers[k] = Cardinality(Counted(k)) /\ peers'[k] \in Int /\ peers[k] \in Int
    BY <1>0 DEF ConservedInv
  <2>2. peers'[k] - One(CountsFor(r, k)) = peers[k] - One(CountsFor(conn[c], k))
    BY DEF Balanced
  <2> QED BY <1>6, <2>1, <2>2 DEF One
<1> QED BY <1>2, <1>4, <1>7, <1>8, <1>9 DEF ConservedInv

\* Most steps leave what the thread holds, and the counters, as they are.
LEMMA KeepsHoldings ==
    ASSUME BoundaryInv, NEW c \in Connections, UNCHANGED permits, conn[c] \in Open,
           NEW r \in Open, Held(r), r.permit = conn[c].permit, r.counted = conn[c].counted,
           r.identity = conn[c].identity, conn' = [conn EXCEPT ![c] = r]
    PROVE  Accounted(c)
<1>1. Closed \notin Open
  BY DEF Closed, Open, Steps
<1>2. Balanced(c, r)
  BY <1>1 DEF Balanced, permits, HasPermit, CountsFor
<1> QED BY <1>2 DEF Accounted, Record

\* Steps that only look, read, time out or dispatch.
LEMMA QuietAccounts ==
    ASSUME ConservedInv, NEW c \in Connections,
           \/ StartTimer(c) \/ CheckSource(c) \/ Wrap(c) \/ Attach(c) \/ Fail(c) \/ Headers(c) \/ Body(c)
           \/ Finish(c) \/ Recheck(c) \/ Reply(c) \/ Expire(c)
    PROVE  Accounted(c)
<1>1. /\ BoundaryInv /\ Held(conn[c])
      /\ conn[c] \in Open \cup {Closed, Unwound, Stranded}
  BY DEF ConservedInv, BoundaryInv, BoundaryTypeOK
<1>2. conn[c] \in Open
  BY <1>1 DEF StartTimer, CheckSource, Wrap, Attach, Fail, Blocking, Headers, Body, Finish, Recheck,
     Reply, Expire, At, Closed, Unwound, Stranded
<1>3. UNCHANGED permits
  BY DEF StartTimer, CheckSource, Wrap, Attach, Fail, Headers, Body, Finish, Recheck, Reply, Expire,
     permits
<1>4. ASSUME NEW step \in Steps, Goto(c, step),
             \/ step \in {"unwind", "body", "finish"} /\ (step # "unwind" => conn[c].pc \in {"headers", "body"})
             \/ conn[c].pc = "timer" /\ step = "source"
             \/ conn[c].pc = "source" /\ step = "permit"
             \/ conn[c].pc = "recheck" /\ step = "dispatch"
             \/ conn[c].pc = "wrap" /\ step = "attach"
             \/ conn[c].pc = "attach" /\ step = "handshake"
      PROVE  Accounted(c)
  <2> DEFINE r == [conn[c] EXCEPT !.pc = step]
  <2>1. /\ r \in Open /\ r.pc = step /\ r.permit = conn[c].permit /\ r.counted = conn[c].counted
        /\ r.identity = conn[c].identity
    BY <1>2 DEF Open
  <2>2. conn' = [conn EXCEPT ![c] = r]
    BY <1>4 DEF Goto
  <2> HIDE DEF r
  <2>3. Held(r)
    BY <1>1, <1>2, <1>4, <2>1 DEF Held
  <2> QED BY <1>1, <1>2, <1>3, <2>1, <2>2, <2>3, KeepsHoldings
<1>5. CASE \/ StartTimer(c) \/ CheckSource(c) \/ Wrap(c) \/ Attach(c) \/ Fail(c) \/ Headers(c)
           \/ Body(c) \/ Recheck(c) \/ Reply(c)
  <2>1. PICK step \in {"unwind", "source", "permit", "attach", "handshake", "body", "finish", "dispatch"} :
           /\ Goto(c, step)
           /\ \/ step \in {"unwind", "body", "finish"} /\ (step # "unwind" => conn[c].pc \in {"headers", "body"})
              \/ conn[c].pc = "timer" /\ step = "source"
              \/ conn[c].pc = "source" /\ step = "permit"
              \/ conn[c].pc = "recheck" /\ step = "dispatch"
              \/ conn[c].pc = "wrap" /\ step = "attach"
              \/ conn[c].pc = "attach" /\ step = "handshake"
    BY <1>5 DEF StartTimer, CheckSource, Wrap, Attach, Fail, Headers, Body, Recheck, Reply, At
  <2>2. step \in Steps
    BY DEF Steps
  <2> QED BY <1>4, <2>1, <2>2
<1>6. CASE Finish(c) /\ conn' = [conn EXCEPT ![c].pc = "recheck", ![c].complete = TRUE]
  <2> DEFINE r == [conn[c] EXCEPT !.pc = "recheck", !.complete = TRUE]
  <2>1. /\ r \in Open /\ r.pc = "recheck" /\ r.permit = conn[c].permit /\ r.counted = conn[c].counted
        /\ r.identity = conn[c].identity
    BY <1>2 DEF Open, Steps
  <2>2. conn' = [conn EXCEPT ![c] = r]
    BY <1>6
  <2> HIDE DEF r
  <2>3. Held(r)
    BY <1>1, <1>2, <2>1 DEF Held
  <2> QED BY <1>1, <1>2, <1>3, <2>1, <2>2, <2>3, KeepsHoldings
<1>7. CASE Expire(c)
  <2> DEFINE r == [conn[c] EXCEPT !.expired = TRUE, !.shut = conn[c].pc # "attach"]
  <2>1. /\ r \in Open /\ r.pc = conn[c].pc /\ r.permit = conn[c].permit /\ r.counted = conn[c].counted
        /\ r.identity = conn[c].identity
    BY <1>2 DEF Open
  <2>2. conn' = [conn EXCEPT ![c] = r]
    BY <1>7 DEF Expire
  <2> HIDE DEF r
  <2>3. Held(r)
    BY <1>1, <1>2, <2>1 DEF Held
  <2> QED BY <1>1, <1>2, <1>3, <2>1, <2>2, <2>3, KeepsHoldings
<1>8. CASE Finish(c) /\ Goto(c, "unwind")
  <2>1. "unwind" \in Steps
    BY DEF Steps
  <2> QED BY <1>4, <1>8, <2>1
<1> QED BY <1>5, <1>6, <1>7, <1>8 DEF Finish, Goto

\* A slot is taken for a fresh record and given back with the socket; a connection
\* without a timer keeps it.
LEMMA SlotAccounts ==
    ASSUME ConservedInv, NEW c \in Connections,
           \/ \E source \in Sources, cert \in Certificates : Accept(c, source, cert)
           \/ FreeSlot(c) \/ TimerFails(c)
    PROVE  Accounted(c)
<1>1. /\ BoundaryInv /\ slots \in Nat /\ handshakes \in Nat /\ peers \in [Identities -> Int]
      /\ now \in Nat /\ Held(conn[c]) /\ conn[c] \in Open \cup {Closed, Unwound, Stranded}
  BY BoundaryConstants DEF ConservedInv, BoundaryInv, BoundaryTypeOK
<1>2. /\ Closed \notin Open /\ Unwound \notin Open /\ Stranded \notin Open
      /\ Closed # Unwound /\ Closed # Stranded
  BY DEF Closed, Unwound, Stranded, Open, Steps
<1>3. ASSUME NEW source \in Sources, NEW cert \in Certificates, Accept(c, source, cert)
      PROVE  Accounted(c)
  <2> DEFINE r == [pc |-> "timer", source |-> source, cert |-> cert, deadline |-> now + IngressTime,
                   expired |-> FALSE, complete |-> FALSE, shut |-> FALSE, permit |-> FALSE,
                   counted |-> FALSE, identity |-> NoIdentity]
  <2>1. r \in Open /\ r.pc = "timer" /\ ~r.permit /\ ~r.counted
    BY <1>1, BoundaryConstants DEF Open, Steps
  <2>2. /\ conn' = [conn EXCEPT ![c] = r] /\ conn[c] = Closed /\ slots' = slots - 1
        /\ UNCHANGED <<handshakes, peers>>
    BY <1>3 DEF Accept
  <2> HIDE DEF r
  <2>3. Held(r)
    BY <2>1 DEF Held
  <2>4. Balanced(c, r)
    BY <1>1, <1>2, <2>1, <2>2 DEF Balanced, One, HasPermit, CountsFor
  <2> QED BY <2>1, <2>2, <2>3, <2>4 DEF Accounted, Record
<1>4. CASE FreeSlot(c)
  <2>1. /\ conn' = [conn EXCEPT ![c] = Closed] /\ slots' = slots + 1 /\ UNCHANGED <<handshakes, peers>>
        /\ conn[c].pc = "slot"
    BY <1>4 DEF FreeSlot, At
  <2>2. conn[c] = Unwound
    BY <1>1, <2>1 DEF Open, Steps, Closed, Stranded
  <2>3. Held(Closed)
    BY <1>2 DEF Held
  <2>4. Balanced(c, Closed)
    BY <1>1, <1>2, <2>1, <2>2 DEF Balanced, One, HasPermit, CountsFor
  <2> QED BY <2>1, <2>3, <2>4 DEF Accounted, Record
<1>5. CASE TimerFails(c)
  <2>1. conn' = [conn EXCEPT ![c] = Stranded] /\ UNCHANGED permits /\ conn[c].pc = "timer"
    BY <1>5 DEF TimerFails, At
  <2>2. conn[c] \in Open /\ ~conn[c].permit /\ ~conn[c].counted
    BY <1>1, <2>1 DEF Closed, Unwound, Stranded, Held
  <2>3. Held(Stranded)
    BY <1>2 DEF Held
  <2>4. Balanced(c, Stranded)
    BY <1>1, <1>2, <2>1, <2>2 DEF Balanced, One, HasPermit, CountsFor, permits
  <2> QED BY <2>1, <2>3, <2>4 DEF Accounted, Record
<1> QED BY <1>3, <1>4, <1>5

\* The handshake permit is taken, and returned after the handshake; the identity
\* is set before anything is counted for it.
LEMMA HandshakeAccounts ==
    ASSUME ConservedInv, NEW c \in Connections, AcquirePermit(c) \/ Handshake(c) \/ Resolve(c)
    PROVE  Accounted(c)
<1>1. /\ BoundaryInv /\ Held(conn[c]) /\ slots \in Nat /\ handshakes \in Nat
      /\ peers \in [Identities -> Int] /\ registry \in [Certificates -> Identities \cup {NoIdentity}]
  BY DEF ConservedInv, BoundaryInv, BoundaryTypeOK
<1>2. conn[c] \in Open
  BY <1>1, Running DEF BoundaryInv, AcquirePermit, Handshake, Resolve, At, Steps
<1>3. Closed \notin Open
  BY DEF Closed, Open, Steps
<1>4. CASE Goto(c, "unwind") /\ UNCHANGED permits
  <2> DEFINE r == [conn[c] EXCEPT !.pc = "unwind"]
  <2>1. /\ r \in Open /\ r.pc = "unwind" /\ r.permit = conn[c].permit /\ r.counted = conn[c].counted
        /\ r.identity = conn[c].identity
    BY <1>2 DEF Open, Steps
  <2>2. conn' = [conn EXCEPT ![c] = r]
    BY <1>4 DEF Goto
  <2> HIDE DEF r
  <2>3. Held(r)
    BY <1>1, <1>2, <2>1 DEF Held
  <2> QED BY <1>1, <1>2, <1>4, <2>1, <2>2, <2>3, KeepsHoldings
<1>5. CASE /\ At(c, "permit") /\ handshakes' = handshakes - 1 /\ UNCHANGED <<slots, peers>>
           /\ conn' = [conn EXCEPT ![c].pc = "wrap", ![c].permit = TRUE]
  <2> DEFINE r == [conn[c] EXCEPT !.pc = "wrap", !.permit = TRUE]
  <2>1. /\ r \in Open /\ r.pc = "wrap" /\ r.permit /\ r.counted = conn[c].counted
        /\ r.identity = conn[c].identity
    BY <1>2 DEF Open, Steps
  <2>2. conn' = [conn EXCEPT ![c] = r]
    BY <1>5
  <2> HIDE DEF r
  <2>3. ~conn[c].permit /\ ~conn[c].counted
    BY <1>1, <1>2, <1>5 DEF Held, At
  <2>4. Held(r)
    BY <2>1, <2>3 DEF Held
  <2>5. Balanced(c, r)
    BY <1>1, <1>2, <1>3, <1>5, <2>1, <2>3 DEF Balanced, One, HasPermit, CountsFor
  <2> QED BY <2>1, <2>2, <2>4, <2>5 DEF Accounted, Record
<1>6. CASE Handshake(c)
  <2> DEFINE r == [conn[c] EXCEPT !.pc = "resolve", !.permit = FALSE]
  <2>1. /\ r \in Open /\ r.pc = "resolve" /\ ~r.permit /\ r.counted = conn[c].counted
        /\ r.identity = conn[c].identity
    BY <1>2 DEF Open, Steps
  <2>2. /\ conn' = [conn EXCEPT ![c] = r] /\ handshakes' = handshakes + 1 /\ UNCHANGED <<slots, peers>>
    BY <1>6 DEF Handshake
  <2> HIDE DEF r
  <2>3. conn[c].permit /\ ~conn[c].counted
    BY <1>1, <1>2, <1>6 DEF Held, Handshake, At
  <2>4. Held(r)
    BY <2>1, <2>3 DEF Held
  <2>5. Balanced(c, r)
    BY <1>1, <1>2, <1>3, <2>1, <2>2, <2>3 DEF Balanced, One, HasPermit, CountsFor
  <2> QED BY <2>1, <2>2, <2>4, <2>5 DEF Accounted, Record
<1>7. CASE /\ At(c, "resolve") /\ Registered(c) /\ UNCHANGED permits
           /\ conn' = [conn EXCEPT ![c].pc = "admit", ![c].identity = registry[conn[c].cert]]
  <2> DEFINE r == [conn[c] EXCEPT !.pc = "admit", !.identity = registry[conn[c].cert]]
  <2>1. registry[conn[c].cert] \in Identities
    BY <1>1, <1>2, <1>7 DEF Registered, Open
  <2>2. /\ r \in Open /\ r.pc = "admit" /\ r.permit = conn[c].permit /\ r.counted = conn[c].counted
        /\ r.identity \in Identities
    BY <1>2, <2>1 DEF Open, Steps
  <2>3. conn' = [conn EXCEPT ![c] = r]
    BY <1>7
  <2> HIDE DEF r
  <2>4. ~conn[c].counted
    BY <1>1, <1>2, <1>7 DEF Held, At
  <2>5. Held(r)
    BY <2>2, <2>4 DEF Held
  <2>6. Balanced(c, r)
    BY <1>1, <1>2, <1>3, <1>7, <2>2, <2>4 DEF Balanced, One, HasPermit, CountsFor, permits
  <2> QED BY <2>2, <2>3, <2>5, <2>6 DEF Accounted, Record
<1> QED BY <1>4, <1>5, <1>6, <1>7 DEF AcquirePermit, Resolve, permits

\* The peer is counted once it is admitted, for the identity of its record.
LEMMA AdmitAccounts ==
    ASSUME ConservedInv, NEW c \in Connections, Admit(c)
    PROVE  Accounted(c)
<1>1. /\ BoundaryInv /\ Held(conn[c]) /\ slots \in Nat /\ handshakes \in Nat
      /\ peers \in [Identities -> Int]
  BY DEF ConservedInv, BoundaryInv, BoundaryTypeOK
<1>2. conn[c] \in Open /\ conn[c].pc = "admit"
  BY <1>1, Running DEF BoundaryInv, Admit, At, Steps
<1>3. Closed \notin Open /\ ~conn[c].counted /\ conn[c].identity \in Identities
  BY <1>1, <1>2 DEF Closed, Open, Steps, Held
<1>4. CASE Goto(c, "unwind") /\ UNCHANGED permits
  <2> DEFINE r == [conn[c] EXCEPT !.pc = "unwind"]
  <2>1. /\ r \in Open /\ r.pc = "unwind" /\ r.permit = conn[c].permit /\ r.counted = conn[c].counted
        /\ r.identity = conn[c].identity
    BY <1>2 DEF Open, Steps
  <2>2. conn' = [conn EXCEPT ![c] = r]
    BY <1>4 DEF Goto
  <2> HIDE DEF r
  <2>3. Held(r)
    BY <1>1, <1>2, <2>1 DEF Held
  <2> QED BY <1>1, <1>2, <1>4, <2>1, <2>2, <2>3, KeepsHoldings
<1>5. CASE /\ conn' = [conn EXCEPT ![c].pc = "headers", ![c].counted = TRUE]
           /\ peers' = [peers EXCEPT ![conn[c].identity] = @ + 1] /\ UNCHANGED <<slots, handshakes>>
  <2> DEFINE r == [conn[c] EXCEPT !.pc = "headers", !.counted = TRUE]
  <2>1. /\ r \in Open /\ r.pc = "headers" /\ r.permit = conn[c].permit /\ r.counted
        /\ r.identity = conn[c].identity
    BY <1>2 DEF Open, Steps
  <2>2. conn' = [conn EXCEPT ![c] = r]
    BY <1>5
  <2> HIDE DEF r
  <2>3. Held(r)
    BY <1>3, <2>1 DEF Held
  <2>4. /\ slots' + One(r # Closed) = slots + One(conn[c] # Closed)
        /\ handshakes' + One(HasPermit(r)) = handshakes + One(HasPermit(conn[c]))
    BY <1>2, <1>3, <1>5, <2>1 DEF HasPermit
  <2>5. ASSUME NEW k \in Identities
        PROVE  peers'[k] - One(CountsFor(r, k)) = peers[k] - One(CountsFor(conn[c], k))
    BY <1>1, <1>3, <1>5, <2>1 DEF CountsFor, One
  <2> QED BY <2>1, <2>2, <2>3, <2>4, <2>5 DEF Accounted, Record, Balanced
<1> QED BY <1>4, <1>5 DEF Admit, permits

\* The finally block returns exactly what the thread holds.
LEMMA UnwindAccounts ==
    ASSUME ConservedInv, NEW c \in Connections, Unwind(c)
    PROVE  Accounted(c)
<1>1. /\ BoundaryInv /\ Held(conn[c]) /\ slots \in Nat /\ handshakes \in Nat
      /\ peers \in [Identities -> Int]
  BY DEF ConservedInv, BoundaryInv, BoundaryTypeOK
<1>2. /\ conn[c] \in Open /\ conn' = [conn EXCEPT ![c] = Unwound] /\ slots' = slots
      /\ handshakes' = IF conn[c].permit THEN handshakes + 1 ELSE handshakes
      /\ peers' = IF conn[c].counted THEN [peers EXCEPT ![conn[c].identity] = @ - 1] ELSE peers
  BY <1>1, Running DEF BoundaryInv, Unwind, At, Steps
<1>3. Closed \notin Open /\ Unwound \notin Open /\ Closed # Unwound
  BY DEF Closed, Unwound, Open, Steps
<1>4. Held(Unwound) /\ (conn[c].counted => conn[c].identity \in Identities)
  BY <1>1, <1>2, <1>3 DEF Held
<1>5. /\ slots' + One(Unwound # Closed) = slots + One(conn[c] # Closed)
      /\ handshakes' + One(HasPermit(Unwound)) = handshakes + One(HasPermit(conn[c]))
  BY <1>1, <1>2, <1>3 DEF HasPermit, One
<1>6. ASSUME NEW k \in Identities
      PROVE  peers'[k] - One(CountsFor(Unwound, k)) = peers[k] - One(CountsFor(conn[c], k))
  BY <1>1, <1>2, <1>3, <1>4 DEF CountsFor, One
<1> QED BY <1>2, <1>4, <1>5, <1>6 DEF Accounted, Record, Balanced

\* Every permit that is missing is held by a running thread, but for the slots of
\* connections whose timer could not be started, and every peer count is that of
\* its admitted connections: for any number of connections and however handshakes
\* fail, timers expire or fail to start, and the registry changes.
THEOREM PermitsAccounted == BoundarySpec => []PermitsConserved
<1>1. BoundaryInit => ConservedInv
  <2> SUFFICES ASSUME BoundaryInit PROVE ConservedInv
    OBVIOUS
  <2>1. BoundaryTypeOK
    BY BoundaryConstants DEF BoundaryInit, BoundaryTypeOK, NoWindow
  <2>2. Closed \notin Open
    BY DEF Closed, Open, Steps
  <2>3. /\ \A c \in Connections : conn[c] = Closed /\ Sound(conn[c]) /\ Held(conn[c])
        /\ Used = {} /\ Permitted = {} /\ \A k \in Identities : Counted(k) = {}
    BY <2>2 DEF BoundaryInit, Sound, Held, Used, Permitted, Counted
  <2>4. /\ slots = MaxConnections /\ handshakes = MaxHandshakes
        /\ MaxConnections \in Nat /\ MaxHandshakes \in Nat
        /\ \A k \in Identities : peers[k] = 0
    BY BoundaryConstants DEF BoundaryInit
  <2> QED BY <2>1, <2>3, <2>4, FS_EmptySet DEF ConservedInv, BoundaryInv
<1>2. ConservedInv /\ [BoundaryNext]_boundaryVars => ConservedInv'
  <2> SUFFICES ASSUME ConservedInv, [BoundaryNext]_boundaryVars PROVE ConservedInv'
    OBVIOUS
  <2>1. BoundaryInv'
    BY InvStep DEF ConservedInv
  <2>2. ASSUME NEW c \in Connections, Accounted(c) PROVE ConservedInv'
    BY <2>1, <2>2, BalanceKeeps DEF Accounted
  <2>3. CASE UNCHANGED <<slots, handshakes, peers, conn>>
    BY <2>1, <2>3 DEF ConservedInv, Used, Permitted, Counted
  <2>4. CASE UNCHANGED boundaryVars \/ Tick \/ \E cert \in Certificates, k \in Identities \cup {NoIdentity} :
                                                  Reregister(cert, k)
    BY <2>3, <2>4 DEF boundaryVars, Tick, Reregister, permits
  <2> QED
    BY <2>2, <2>4, SlotAccounts, HandshakeAccounts, AdmitAccounts, UnwindAccounts, QuietAccounts
       DEF BoundaryNext, ServerStep, ClientStep
<1>3. ConservedInv => PermitsConserved
  <2> SUFFICES ASSUME ConservedInv PROVE PermitsConserved
    OBVIOUS
  <2>1. /\ Used = {c \in Connections : conn[c] # Closed}
        /\ Permitted = {c \in Connections : conn[c] \in Open /\ conn[c].permit}
    BY DEF Used, Permitted
  <2>2. \A k \in Identities :
           Counted(k) = {c \in Connections : conn[c] \in Open /\ conn[c].counted /\ conn[c].identity = k}
    BY DEF Counted
  <2> DEFINE Threads == {c \in Connections : conn[c] \in Open \cup {Unwound}}
             Leaked == {c \in Connections : conn[c] = Stranded}
  <2>3. Cardinality(Threads) + Cardinality(Leaked) = Cardinality(Used)
    <3>1. Closed \notin Open \cup {Unwound} /\ Stranded \notin Open \cup {Unwound} /\ Closed # Stranded
      BY DEF Closed, Unwound, Stranded, Open, Steps
    <3>2. conn \in [Connections -> Open \cup {Closed, Unwound, Stranded}] /\ IsFiniteSet(Used)
      BY DEF ConservedInv, BoundaryInv, BoundaryTypeOK
    <3>3. Used = Threads \cup Leaked /\ Threads \cap Leaked = {}
      BY <3>1, <3>2 DEF Used
    <3> HIDE DEF Threads, Leaked
    <3>4. IsFiniteSet(Threads) /\ IsFiniteSet(Leaked)
      BY <3>2, <3>3, FS_Subset
    <3>5. Cardinality(Used) = Cardinality(Threads) + Cardinality(Leaked) - Cardinality(Threads \cap Leaked)
      BY <3>3, <3>4, FS_Union
    <3>6. Cardinality(Threads \cap Leaked) = 0
      BY <3>3, FS_EmptySet
    <3>7. Cardinality(Threads) \in Nat /\ Cardinality(Leaked) \in Nat
      BY <3>4, FS_CardinalityType
    <3> QED BY <3>5, <3>6, <3>7
  <2>4. slots + Cardinality(Threads) + Cardinality(Leaked) = MaxConnections
    <3>1. slots \in Nat /\ IsFiniteSet(Used) /\ slots + Cardinality(Used) = MaxConnections
      BY DEF ConservedInv, BoundaryInv, BoundaryTypeOK
    <3>2. IsFiniteSet(Threads) /\ IsFiniteSet(Leaked)
      BY <3>1, FS_Subset DEF Used, Closed, Unwound, Stranded, Open, Steps
    <3> HIDE DEF Threads, Leaked
    <3>3. Cardinality(Threads) \in Nat /\ Cardinality(Leaked) \in Nat
      BY <3>2, FS_CardinalityType
    <3> QED BY <2>3, <3>1, <3>3
  <2> QED BY <2>1, <2>2, <2>4 DEF ConservedInv, PermitsConserved, Holding
<1> QED BY <1>1, <1>2, <1>3, PTL DEF BoundarySpec

-----------------------------------------------------------------------------
(* Rates.  The times of an identity's admissions are in order, so that the     *)
(* bound over every stretch of time is one between admissions by their number. *)

InWindow(start, count, n) == count > 0 /\ n < start + Window

\* q are the admissions, start and count are of the window that _budget has for
\* the identity, n is the time.  The window in force began with its first
\* admission, a whole window after the one RateLimit before; without one, the
\* last RateLimit admissions began a whole window ago.
Paced(q, start, count, n) ==
    /\ count = 0 => start = 0
    /\ \A i, j \in DOMAIN q : i <= j => q[i] <= q[j]
    /\ \A i \in DOMAIN q : q[i] <= n
    /\ \A i, j \in DOMAIN q : j = i + 2 * RateLimit - 1 => q[i] + Window <= q[j]
    /\ InWindow(start, count, n) =>
          /\ count <= RateLimit /\ count <= Len(q)
          /\ \A i \in DOMAIN q : i = Len(q) + 1 - count => q[i] = start
          /\ \A i \in DOMAIN q : i = Len(q) + 1 - count - RateLimit => q[i] + Window <= start
    /\ ~InWindow(start, count, n) =>
          \A i \in DOMAIN q : i = Len(q) + 1 - RateLimit => q[i] + Window <= n

LEMMA Limits == RateLimit \in Nat /\ RateLimit > 0 /\ Window \in Nat /\ Window > 0
  BY BoundaryConstants

LEMMA Through ==
    ASSUME NEW a \in Nat, NEW b \in Nat, NEW d \in Nat, NEW w \in Nat
    PROVE  (a <= b /\ b + w <= d => a + w <= d) /\ (a + w <= b /\ b <= d => a + w <= d)
  OBVIOUS

\* The admission RateLimit back from the last is not after a window's first.
LEMMA FirstIndex ==
    ASSUME NEW len \in Nat, NEW count \in Nat, NEW limit \in Nat, 0 < count, count <= len, count <= limit
    PROVE  /\ len + 1 - count \in 1..len
           /\ len + 1 - limit <= len + 1 - count
  OBVIOUS

\* The admission 2 * RateLimit - 1 before a new one.
LEMMA FarIndex ==
    ASSUME NEW len \in Nat, NEW count \in Nat, NEW limit \in Nat, 0 < limit, count < limit,
           NEW i \in 1..(len + 1), len + 1 = i + 2 * limit - 1
    PROVE  i \in 1..len /\ len + 1 - count - limit \in 1..len /\ i <= len + 1 - count - limit
  OBVIOUS

\* A window that ends leaves RateLimit admissions at most, the first at its start.
LEMMA PacedTick ==
    ASSUME NEW q \in Seq(Nat), NEW start \in Nat, NEW count \in Nat, NEW n \in Nat,
           Paced(q, start, count, n)
    PROVE  Paced(q, start, count, n + 1)
<1> USE Limits
<1>1. DOMAIN q = 1..Len(q) /\ Len(q) \in Nat /\ \A i \in DOMAIN q : q[i] \in Nat
  OBVIOUS
<1>2. \A i \in DOMAIN q : q[i] <= n + 1
  <2>1. \A i \in DOMAIN q : q[i] <= n
    BY DEF Paced
  <2> QED BY <1>1, <2>1
<1>3. CASE InWindow(start, count, n + 1)
  <2>1. InWindow(start, count, n)
    BY <1>3 DEF InWindow
  <2> QED BY <1>2, <1>3, <2>1 DEF Paced
<1>4. CASE ~InWindow(start, count, n + 1) /\ ~InWindow(start, count, n)
  <2>1. \A i \in DOMAIN q : i = Len(q) + 1 - RateLimit => q[i] + Window <= n
    BY <1>4 DEF Paced
  <2>2. \A i \in DOMAIN q : q[i] + Window <= n => q[i] + Window <= n + 1
    BY <1>1
  <2> QED BY <1>2, <1>4, <2>1, <2>2 DEF Paced
<1>5. CASE ~InWindow(start, count, n + 1) /\ InWindow(start, count, n)
  <2>1. start + Window <= n + 1 /\ count > 0
    BY <1>5 DEF InWindow
  <2>2. ASSUME NEW i \in DOMAIN q, i = Len(q) + 1 - RateLimit PROVE q[i] + Window <= n + 1
    <3>1. count <= RateLimit /\ count <= Len(q)
      BY <1>5 DEF Paced
    <3>2. Len(q) + 1 - count \in DOMAIN q /\ i <= Len(q) + 1 - count
      BY <1>1, <2>1, <2>2, <3>1, FirstIndex
    <3>3. q[Len(q) + 1 - count] = start
      BY <1>5, <3>2 DEF Paced
    <3>4. q[i] <= start /\ q[i] \in Nat
      BY <1>1, <3>2, <3>3 DEF Paced
    <3> QED BY <2>1, <3>4
  <2> QED BY <1>2, <1>5, <2>2 DEF Paced
<1> QED BY <1>3, <1>4, <1>5

\* Dropping a window that is over changes nothing.
LEMMA PacedDropped ==
    ASSUME NEW q \in Seq(Nat), NEW start \in Nat, NEW count \in Nat, NEW n \in Nat,
           Paced(q, start, count, n), start + Window <= n
    PROVE  Paced(q, 0, 0, n)
<1>1. ~InWindow(start, count, n) /\ ~InWindow(0, 0, n)
  BY Limits DEF InWindow
<1> QED BY <1>1 DEF Paced

\* One more admission, in the window there is or in a new one.
LEMMA PacedAdmission ==
    ASSUME NEW q \in Seq(Nat), NEW start \in Nat, NEW count \in Nat, NEW n \in Nat,
           Paced(q, start, count, n), count < RateLimit,
           count > 0 => n < start + Window,
           NEW first \in Nat, first = IF count = 0 THEN n ELSE start
    PROVE  Paced(Append(q, n), first, count + 1, n)
<1> DEFINE p == Append(q, n)
<1> USE Limits
<1>1. /\ DOMAIN q = 1..Len(q) /\ Len(q) \in Nat /\ (\A i \in DOMAIN q : q[i] \in Nat)
      /\ p \in Seq(Nat) /\ Len(p) = Len(q) + 1 /\ DOMAIN p = 1..(Len(q) + 1)
      /\ (\A i \in DOMAIN q : i \in DOMAIN p /\ p[i] = q[i]) /\ p[Len(q) + 1] = n
  OBVIOUS
<1> HIDE DEF p
<1>2. \A i \in DOMAIN p : i = Len(q) + 1 \/ (i \in DOMAIN q /\ p[i] = q[i] /\ q[i] \in Nat)
  BY <1>1
<1>3. /\ \A i, j \in DOMAIN q : i <= j => q[i] <= q[j]
      /\ \A i \in DOMAIN q : q[i] <= n
      /\ \A i, j \in DOMAIN q : j = i + 2 * RateLimit - 1 => q[i] + Window <= q[j]
  BY DEF Paced
<1>4. ASSUME NEW i \in DOMAIN p, NEW j \in DOMAIN p, i <= j PROVE p[i] <= p[j]
  <2>1. CASE j \in DOMAIN q
    <3>1. i \in DOMAIN q
      BY <1>1, <1>4, <2>1
    <3> QED BY <1>1, <1>3, <1>4, <2>1, <3>1
  <2>2. CASE j = Len(q) + 1
    BY <1>1, <1>2, <1>3, <2>2
  <2> QED BY <1>2, <2>1, <2>2
<1>5. \A i \in DOMAIN p : p[i] <= n
  BY <1>1, <1>2, <1>3
<1>6. InWindow(first, count + 1, n) /\ first <= n
  <2>1. CASE count = 0
    BY <2>1 DEF InWindow
  <2>2. CASE count > 0
    <3>1. InWindow(start, count, n) /\ first = start
      BY <2>2 DEF InWindow
    <3>2. Len(q) + 1 - count \in DOMAIN q /\ q[Len(q) + 1 - count] = start
      <4>1. count <= RateLimit /\ count <= Len(q)
        BY <3>1 DEF Paced
      <4>2. Len(q) + 1 - count \in DOMAIN q
        BY <1>1, <2>2, <4>1, FirstIndex
      <4> QED BY <3>1, <4>2 DEF Paced
    <3>3. start <= n
      BY <1>3, <3>2
    <3> QED BY <2>2, <3>1, <3>3 DEF InWindow
  <2> QED BY <2>1, <2>2
\* The admission RateLimit before the window's first, which may be the new one.
<1>7. ASSUME NEW i \in DOMAIN q, i = Len(q) + 1 - count - RateLimit PROVE q[i] + Window <= first
  <2>1. CASE count = 0
    <3>1. ~InWindow(start, count, n) /\ i = Len(q) + 1 - RateLimit /\ first = n
      BY <1>1, <1>7, <2>1 DEF InWindow
    <3> QED BY <3>1 DEF Paced
  <2>2. CASE count > 0
    <3>1. InWindow(start, count, n) /\ first = start
      BY <2>2 DEF InWindow
    <3> QED BY <1>7, <3>1 DEF Paced
  <2> QED BY <2>1, <2>2
<1>8. ASSUME NEW i \in DOMAIN p, NEW j \in DOMAIN p, j = i + 2 * RateLimit - 1
      PROVE  p[i] + Window <= p[j]
  <2>1. CASE j \in DOMAIN q
    <3>1. i \in DOMAIN q
      BY <1>1, <1>8, <2>1
    <3> QED BY <1>1, <1>3, <1>8, <2>1, <3>1
  <2>2. CASE j = Len(q) + 1
    <3> DEFINE m == Len(q) + 1 - count - RateLimit
    <3>1. i \in DOMAIN q /\ m \in DOMAIN q /\ i <= m
      BY <1>1, <1>8, <2>2, FarIndex
    <3>2. q[m] + Window <= first
      BY <1>7, <3>1
    <3>3. q[i] <= q[m]
      BY <1>3, <3>1
    <3>4. q[i] \in Nat /\ q[m] \in Nat /\ p[i] = q[i] /\ p[j] = n
      BY <1>1, <2>2, <3>1
    <3> HIDE DEF m
    <3>5. PICK a \in Nat, b \in Nat : a = q[i] /\ b = q[m]
      BY <3>4
    <3> QED BY <1>6, <3>2, <3>3, <3>4, <3>5, Through
  <2> QED BY <1>2, <2>1, <2>2
<1>9. /\ count + 1 <= RateLimit /\ count + 1 <= Len(p)
      /\ \A i \in DOMAIN p : i = Len(p) + 1 - (count + 1) => p[i] = first
      /\ \A i \in DOMAIN p : i = Len(p) + 1 - (count + 1) - RateLimit => p[i] + Window <= first
  <2>1. Len(p) + 1 - (count + 1) = Len(q) + 1 - count
    BY <1>1
  <2>2. count <= Len(q)
    <3>1. CASE count > 0
      BY <3>1 DEF Paced, InWindow
    <3> QED BY <1>1, <3>1
  <2>3. ASSUME NEW i \in DOMAIN p, i = Len(q) + 1 - count PROVE p[i] = first
    <3>1. CASE count = 0
      <4>1. i = Len(q) + 1
        BY <1>1, <2>3, <3>1
      <4> QED BY <1>1, <3>1, <4>1
    <3>2. CASE count > 0
      <4>1. i \in DOMAIN q /\ InWindow(start, count, n) /\ first = start
        BY <1>1, <2>3, <3>2 DEF InWindow
      <4> QED BY <1>1, <2>3, <4>1 DEF Paced
    <3> QED BY <3>1, <3>2
  <2>4. ASSUME NEW i \in DOMAIN p, i = Len(q) + 1 - count - RateLimit PROVE p[i] + Window <= first
    <3>1. i \in DOMAIN q
      BY <1>1, <2>4
    <3> QED BY <1>1, <1>7, <2>4, <3>1
  <2>5. count + 1 <= RateLimit /\ count + 1 <= Len(p)
    BY <1>1, <2>2
  <2> QED BY <2>1, <2>3, <2>4, <2>5
<1>10. count + 1 # 0
  OBVIOUS
<1>11. Paced(p, first, count + 1, n)
  BY <1>4, <1>5, <1>6, <1>8, <1>9, <1>10 DEF Paced
<1> QED BY <1>11 DEF p

-----------------------------------------------------------------------------
\* RateBounded with what makes it inductive.
RateInv ==
    /\ BoundaryInv
    /\ \A k \in Identities : Paced(admitted[k], rates[k].start, rates[k].count, now)

LEMMA WiderSequence ==
    ASSUME NEW S \in SUBSET Nat, NEW q \in Seq(S)
    PROVE  q \in Seq(Nat)
<1>1. Len(q) \in Nat
  OBVIOUS
<1>2. q \in [1..Len(q) -> S]
  OBVIOUS
<1>3. q \in [1..Len(q) -> Nat]
  BY <1>2
<1> QED BY <1>1, <1>3

LEMMA RateTypes ==
    ASSUME RateInv, NEW k \in Identities
    PROVE  /\ rates \in [Identities -> [start: Nat, count: Nat]]
           /\ rates[k] \in [start: Nat, count: Nat]
           /\ admitted \in [Identities -> Seq(0..MaxTime)] /\ admitted[k] \in Seq(Nat)
           /\ now \in Nat
<1>1. /\ admitted \in [Identities -> Seq(0..MaxTime)] /\ now \in 0..MaxTime
      /\ rates \in [Identities -> [start: Nat, count: Nat]]
  BY DEF RateInv, BoundaryInv, BoundaryTypeOK
<1>2. PICK q \in Seq(0..MaxTime) : q = admitted[k]
  BY <1>1
<1>3. q \in Seq(Nat)
  <2>1. 0..MaxTime \in SUBSET Nat
    OBVIOUS
  <2> QED BY <1>2, <2>1, WiderSequence
<1>4. rates[k] \in [start: Nat, count: Nat] /\ now \in Nat
  BY <1>1
<1> QED BY <1>1, <1>2, <1>3, <1>4

\* What _budget finds when it has dropped the windows that are over.
LEMMA CurrentPaced ==
    ASSUME RateInv, NEW k \in Identities
    PROVE  LET w == Current(rates)[k]
           IN /\ w \in [start: Nat, count: Nat]
              /\ Paced(admitted[k], w.start, w.count, now)
              /\ w.count > 0 => now < w.start + Window
              /\ w = NoWindow <=> w.count = 0
<1> DEFINE w == Current(rates)[k]
<1>1. /\ rates[k] \in [start: Nat, count: Nat] /\ k \in DOMAIN rates
      /\ admitted[k] \in Seq(Nat) /\ now \in Nat
      /\ Paced(admitted[k], rates[k].start, rates[k].count, now)
  BY RateTypes DEF RateInv
<1>2. PICK q \in Seq(Nat), start \in Nat, count \in Nat, n \in Nat :
         q = admitted[k] /\ start = rates[k].start /\ count = rates[k].count /\ n = now
  BY <1>1
<1>3. Paced(q, start, count, n) /\ rates[k] = [start |-> start, count |-> count]
  BY <1>1, <1>2
<1>4. CASE start + Window <= n
  <2>1. w = NoWindow
    BY <1>1, <1>2, <1>4 DEF Current
  <2>2. w \in [start: Nat, count: Nat] /\ w.start = 0 /\ w.count = 0
    BY <2>1 DEF NoWindow
  <2>3. Paced(q, 0, 0, n)
    BY <1>3, <1>4, PacedDropped
  <2>4. Paced(admitted[k], w.start, w.count, now)
    BY <1>2, <2>2, <2>3
  <2> HIDE DEF w
  <2>5. /\ w \in [start: Nat, count: Nat] /\ Paced(admitted[k], w.start, w.count, now)
        /\ (w.count > 0 => now < w.start + Window) /\ (w = NoWindow <=> w.count = 0)
    BY <2>1, <2>2, <2>4
  <2> QED BY <2>5 DEF w
<1>5. CASE ~(start + Window <= n)
  <2>1. w = rates[k]
    BY <1>1, <1>2, <1>5 DEF Current
  <2>2. w \in [start: Nat, count: Nat] /\ w = [start |-> start, count |-> count]
        /\ w.start = start /\ w.count = count
    BY <1>2, <1>3, <2>1
  <2>3. n < start + Window
    BY <1>5, Limits
  <2>4. count = 0 => start = 0
    BY <1>3 DEF Paced
  <2>5. w = NoWindow <=> w.count = 0
    BY <2>2, <2>4 DEF NoWindow
  <2> HIDE DEF w
  <2>6. /\ w \in [start: Nat, count: Nat] /\ Paced(admitted[k], w.start, w.count, now)
        /\ (w.count > 0 => now < w.start + Window) /\ (w = NoWindow <=> w.count = 0)
    BY <1>2, <1>3, <2>2, <2>3, <2>5
  <2> QED BY <2>6 DEF w
<1> QED BY <1>4, <1>5

\* _budget under the rate lock: who is admitted is counted in the window, and a
\* refused attempt leaves the window as it is.
LEMMA AdmitPaced ==
    ASSUME RateInv, NEW c \in Connections, Admit(c), NEW k \in Identities
    PROVE  Paced(admitted'[k], rates'[k].start, rates'[k].count, now')
<1> DEFINE key == conn[c].identity
           w == Current(rates)[k]
<1>1. /\ w \in [start: Nat, count: Nat]
      /\ Paced(admitted[k], w.start, w.count, now)
      /\ w.count > 0 => now < w.start + Window
      /\ w = NoWindow <=> w.count = 0
  BY CurrentPaced
<1>2. /\ Paced(admitted[k], rates[k].start, rates[k].count, now)
      /\ admitted \in [Identities -> Seq(0..MaxTime)] /\ admitted[k] \in Seq(Nat)
      /\ rates \in [Identities -> [start: Nat, count: Nat]]
      /\ now \in Nat /\ now' = now
  <2>1. now' = now
    BY DEF Admit, Outside
  <2> QED BY <2>1, RateTypes DEF RateInv
<1>3. CASE rates' = rates /\ admitted' = admitted
  BY <1>2, <1>3
<1>4. CASE rates' = Budgeted(rates, key) /\ admitted' = admitted /\ ~WithinBudget(rates, key)
  <2>1. rates'[k] = w
    <3>1. CASE ~Trackable(rates, key)
      BY <1>4, <3>1 DEF Budgeted
    <3>2. CASE Trackable(rates, key) /\ k # key
      BY <1>2, <1>4, <3>2 DEF Budgeted, Current
    <3>3. CASE Trackable(rates, key) /\ k = key
      <4>1. ~(w.count < RateLimit)
        BY <1>4, <3>3 DEF WithinBudget
      <4>2. w # NoWindow /\ w = [start |-> w.start, count |-> w.count]
        BY <1>1, <4>1, Limits
      <4>3. DOMAIN Current(rates) = Identities
        BY <1>2 DEF Current
      <4>4. rates' = [Current(rates) EXCEPT ![k] =
                        [start |-> IF w = NoWindow THEN now ELSE w.start,
                         count |-> IF w.count < RateLimit THEN w.count + 1 ELSE w.count]]
        BY <1>4, <3>3 DEF Budgeted
      <4> HIDE DEF w
      <4> QED BY <4>1, <4>2, <4>3, <4>4
    <3> QED BY <3>1, <3>2, <3>3
  <2> QED BY <1>1, <1>2, <1>4, <2>1
<1>5. CASE /\ rates' = Budgeted(rates, key) /\ WithinBudget(rates, key)
           /\ admitted' = [admitted EXCEPT ![key] = Append(@, now)]
  <2>1. CASE k # key
    <3>1. rates'[k] = w
      BY <1>2, <1>5, <2>1 DEF Budgeted, Current, WithinBudget
    <3>2. admitted'[k] = admitted[k]
      BY <1>2, <1>5, <2>1
    <3> QED BY <1>1, <1>2, <3>1, <3>2
  <2>2. CASE k = key
    <3>1. w.count < RateLimit
      BY <1>5, <2>2 DEF WithinBudget
    <3>2. DOMAIN Current(rates) = Identities
      BY <1>2 DEF Current
    <3>3. rates' = [Current(rates) EXCEPT ![k] =
                      [start |-> IF w = NoWindow THEN now ELSE w.start,
                       count |-> IF w.count < RateLimit THEN w.count + 1 ELSE w.count]]
      BY <1>5, <2>2 DEF Budgeted, WithinBudget
    <3>4. admitted'[k] = Append(admitted[k], now)
      BY <1>2, <1>5, <2>2
    <3> HIDE DEF w
    <3>5. PICK q \in Seq(Nat), start \in Nat, count \in Nat, n \in Nat, first \in Nat :
             /\ q = admitted[k] /\ start = w.start /\ count = w.count /\ n = now
             /\ first = IF count = 0 THEN n ELSE start
      BY <1>1, <1>2
    <3>6. rates'[k] = [start |-> first, count |-> count + 1]
      BY <1>1, <3>1, <3>2, <3>3, <3>5
    <3>7. Paced(Append(q, n), first, count + 1, n)
      BY <1>1, <3>1, <3>5, PacedAdmission
    <3> QED BY <1>2, <3>4, <3>5, <3>6, <3>7
  <2> QED BY <2>1, <2>2
<1> QED BY <1>3, <1>4, <1>5 DEF Admit

LEMMA LeastIndex ==
    ASSUME NEW T \in SUBSET Nat, T # {}
    PROVE  \E x \in T : \A y \in T : x <= y
<1>1. PICK x \in T : \A y \in T : ~(<<y, x>> \in OpToRel(<, Nat))
  BY NatLessThanWellFounded, WFMin
<1>2. \A y \in T : ~(y < x)
  BY <1>1 DEF OpToRel
<1> QED BY <1>2

\* Of admissions so paced, fewer than twice the limit lie within a window's length.
LEMMA PacedBounds ==
    ASSUME NEW q \in Seq(Nat), NEW start \in Nat, NEW count \in Nat, NEW n \in Nat, NEW t \in Nat,
           Paced(q, start, count, n)
    PROVE  Cardinality({i \in DOMAIN q : t <= q[i] /\ q[i] < t + Window}) < 2 * RateLimit
<1> DEFINE T == {i \in DOMAIN q : t <= q[i] /\ q[i] < t + Window}
<1>1. DOMAIN q = 1..Len(q) /\ Len(q) \in Nat /\ \A i \in DOMAIN q : q[i] \in Nat
  OBVIOUS
<1>2. CASE T = {}
  <2>1. Cardinality(T) = 0
    BY <1>2, FS_EmptySet
  <2> HIDE DEF T
  <2>2. Cardinality(T) < 2 * RateLimit
    BY <2>1, Limits
  <2> QED BY <2>2 DEF T
<1>3. CASE T # {}
  <2>1. T \in SUBSET Nat
    BY <1>1
  <2> HIDE DEF T
  <2>2. PICK x \in T : \A y \in T : x <= y
    BY <1>3, <2>1, LeastIndex
  <2>3. x \in Nat /\ x \in DOMAIN q /\ t <= q[x] /\ x >= 1
    BY <1>1, <2>1, <2>2 DEF T
  <2> DEFINE far == x + 2 * RateLimit - 1
  <2>4. ASSUME NEW y \in T PROVE y \in x..(x + 2 * RateLimit - 2)
    <3>1. y \in Nat /\ x <= y /\ y \in DOMAIN q /\ q[y] < t + Window /\ y <= Len(q)
      BY <1>1, <2>1, <2>2 DEF T
    <3>2. CASE far <= y
      <4>1. far \in DOMAIN q
        BY <1>1, <2>3, <3>1, <3>2, Limits
      <4>2. q[x] + Window <= q[far]
        BY <2>3, <4>1 DEF Paced
      <4>3. q[far] <= q[y]
        BY <3>1, <3>2, <4>1 DEF Paced
      <4>4. q[x] \in Nat /\ q[far] \in Nat /\ q[y] \in Nat
        BY <1>1, <2>3, <3>1, <4>1
      <4> HIDE DEF far
      <4>5. PICK a \in Nat, b \in Nat, d \in Nat, w \in Nat :
               a = q[x] /\ b = q[far] /\ d = q[y] /\ w = Window
        BY <4>4, Limits
      <4>6. t <= a /\ a + w <= b /\ b <= d /\ d < t + w
        BY <2>3, <3>1, <4>2, <4>3, <4>5
      <4> QED BY <4>6
    <3>3. CASE ~(far <= y)
      BY <2>3, <3>1, <3>3, Limits
    <3> QED BY <3>2, <3>3
  <2>5. PICK a \in Int, b \in Int : a = x /\ b = x + 2 * RateLimit - 2
    BY <2>3, Limits
  <2>6. IsFiniteSet(a..b) /\ Cardinality(a..b) = 2 * RateLimit - 1
    <3>1. IsFiniteSet(a..b) /\ Cardinality(a..b) = IF a > b THEN 0 ELSE b - a + 1
      BY FS_Interval
    <3>2. ~(a > b) /\ b - a + 1 = 2 * RateLimit - 1
      BY <2>3, <2>5, Limits
    <3> QED BY <3>1, <3>2
  <2>7. IsFiniteSet(T) /\ Cardinality(T) <= Cardinality(a..b)
    BY <2>4, <2>5, <2>6, FS_Subset
  <2>8. Cardinality(T) \in Nat
    BY <2>7, FS_CardinalityType
  <2>9. Cardinality(T) < 2 * RateLimit
    BY <2>6, <2>7, <2>8, Limits
  <2> QED BY <2>9 DEF T
<1> QED BY <1>2, <1>3

\* In any stretch of a window's length an identity is admitted less than twice
\* the limit, for every limit and window and any number of identities, however
\* attempts are spread over the fixed windows and whatever they prune.
THEOREM RatesBounded == BoundarySpec => []RateBounded
<1>1. BoundaryInit => RateInv
  <2> SUFFICES ASSUME BoundaryInit PROVE RateInv
    OBVIOUS
  <2>1. BoundaryTypeOK
    BY BoundaryConstants DEF BoundaryInit, BoundaryTypeOK, NoWindow
  <2>2. \A c \in Connections : Sound(conn[c])
    BY DEF BoundaryInit, Sound, Closed, Open, Steps
  <2>3. ASSUME NEW k \in Identities PROVE Paced(admitted[k], rates[k].start, rates[k].count, now)
    <3>1. admitted[k] = << >> /\ rates[k].start = 0 /\ rates[k].count = 0 /\ DOMAIN admitted[k] = {}
      BY DEF BoundaryInit, NoWindow
    <3>2. ~InWindow(rates[k].start, rates[k].count, now)
      BY <3>1 DEF InWindow
    <3> QED BY <3>1, <3>2 DEF Paced
  <2> QED BY <2>1, <2>2, <2>3 DEF RateInv, BoundaryInv
<1>2. RateInv /\ [BoundaryNext]_boundaryVars => RateInv'
  <2> SUFFICES ASSUME RateInv, [BoundaryNext]_boundaryVars PROVE RateInv'
    OBVIOUS
  <2>1. BoundaryInv'
    BY InvStep DEF RateInv
  <2>2. ASSUME NEW k \in Identities PROVE Paced(admitted'[k], rates'[k].start, rates'[k].count, now')
    <3>1. CASE UNCHANGED <<admitted, rates, now>>
      BY <3>1 DEF RateInv
    <3>2. CASE Tick
      <4>1. /\ admitted[k] \in Seq(Nat) /\ rates[k] \in [start: Nat, count: Nat] /\ now \in Nat
            /\ UNCHANGED <<admitted, rates>> /\ now' = now + 1
        <5>1. UNCHANGED <<admitted, rates>> /\ now' = now + 1
          BY <3>2 DEF Tick, windows
        <5> QED BY <5>1, RateTypes
      <4>2. PICK q \in Seq(Nat), start \in Nat, count \in Nat, n \in Nat :
               q = admitted[k] /\ start = rates[k].start /\ count = rates[k].count /\ n = now
        BY <4>1
      <4>3. Paced(q, start, count, n + 1)
        BY <4>2, PacedTick DEF RateInv
      <4> QED BY <4>1, <4>2, <4>3
    <3>3. CASE UNCHANGED boundaryVars \/ \E cert \in Certificates, i \in Identities \cup {NoIdentity} :
                                            Reregister(cert, i)
      BY <3>1, <3>3 DEF boundaryVars, Reregister, windows
    <3>4. ASSUME NEW c \in Connections,
                 \/ \E source \in Sources, cert \in Certificates : Accept(c, source, cert)
                 \/ StartTimer(c) \/ TimerFails(c)
                 \/ CheckSource(c) \/ AcquirePermit(c) \/ Wrap(c) \/ Attach(c) \/ Resolve(c)
                 \/ Finish(c) \/ Recheck(c) \/ Reply(c) \/ Unwind(c) \/ FreeSlot(c)
                 \/ ClientStep(c) \/ Fail(c) \/ Expire(c)
          PROVE  UNCHANGED <<admitted, rates, now>>
      BY <3>4 DEF Accept, StartTimer, TimerFails, CheckSource, AcquirePermit, Wrap, Attach, Resolve, Finish, Recheck, Reply,
                  Unwind, FreeSlot, ClientStep, Handshake, Headers, Body, Fail, Expire, windows, Outside
    <3> QED BY <3>1, <3>2, <3>3, <3>4, AdmitPaced DEF BoundaryNext, ServerStep
  <2> QED BY <2>1, <2>2 DEF RateInv
<1>3. RateInv => RateBounded
  <2> SUFFICES ASSUME RateInv, NEW k \in Identities, NEW t \in 0..MaxTime
               PROVE  Cardinality({i \in DOMAIN admitted[k] : t <= admitted[k][i] /\ admitted[k][i] < t + Window})
                          < 2 * RateLimit
    BY DEF RateBounded
  <2>1. admitted[k] \in Seq(Nat) /\ rates[k] \in [start: Nat, count: Nat] /\ now \in Nat /\ t \in Nat
    BY RateTypes, BoundaryConstants
  <2>2. PICK q \in Seq(Nat), start \in Nat, count \in Nat, n \in Nat :
           q = admitted[k] /\ start = rates[k].start /\ count = rates[k].count /\ n = now
    BY <2>1
  <2>3. Paced(q, start, count, n)
    BY <2>2 DEF RateInv
  <2> QED BY <2>1, <2>2, <2>3, PacedBounds
<1> QED BY <1>1, <1>2, <1>3, PTL DEF BoundarySpec
=============================================================================

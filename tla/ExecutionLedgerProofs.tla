----------------------- MODULE ExecutionLedgerProofs -----------------------
(***************************************************************************)
(* What ExecutionLedger guarantees for every set of nonces, scopes, keys,   *)
(* digests and policies and for every caller.  LedgerInv is the inductive   *)
(* invariant: OneUncertainPerTask and EffectReservedOnce are inductive once *)
(* rows are well typed.                                                     *)
(***************************************************************************)
EXTENDS ExecutionLedger, FiniteSetTheorems, WellFoundedInduction, TLAPS

\* A row that is absent is NoRow; every other row has all its columns.
LEMMA RowCases ==
    ASSUME TypeOK, NEW n \in Nonces
    PROVE  /\ Present(n) <=> executions[n] \in Row
           /\ ~Present(n) <=> executions[n] = NoRow
  BY DEF TypeOK, Present, Status, Row, NoRow, Statuses

\* An operation rewrites at most one existing row, keeps the columns that say
\* what was reserved, and either settles (or doubts) an uncertain row or decides
\* about the result of a succeeded one.
SameReservation(n, row) ==
    /\ row.scope = executions[n].scope /\ row.key = executions[n].key
    /\ row.digest = executions[n].digest /\ row.policy = executions[n].policy

Settles(n, row) ==
    /\ Uncertain(n) /\ row.status # "pending"
    /\ row.status = "unknown" => Status(n) = "pending"

Decides(n, row) ==
    /\ Status(n) = "succeeded" /\ row.status = "succeeded"
    /\ row.result = executions[n].result
    /\ executions[n].disposition \notin {"withheld", "review_required"}

Rewrites(n, row) ==
    /\ Present(n) /\ row \in Row
    /\ executions' = [executions EXCEPT ![n] = row]
    /\ SameReservation(n, row)
    /\ Settles(n, row) \/ Decides(n, row)

Inserts == \E n \in Nonces, s \in Scopes, k \in Keys, d \in Digests, p \in Policies :
               ReserveInsert(n, s, k, d, p)

\* The UPDATE shared by finish and reconcile.
LEMMA SettleRewrites ==
    ASSUME TypeOK, NEW n \in Nonces, NEW st \in Statuses \ {"pending"}, NEW r \in BOOLEAN,
           NEW di \in Dispositions, Uncertain(n), st = "unknown" => Status(n) = "pending",
           executions' = [executions EXCEPT ![n].status = st, ![n].result = r,
                                            ![n].disposition = di]
    PROVE  \E row \in Row : Rewrites(n, row)
<1> DEFINE row == [executions[n] EXCEPT !.status = st, !.result = r, !.disposition = di]
<1>1. Present(n) /\ executions[n] \in Row
  BY RowCases DEF Uncertain, Present
<1>2. row \in Row /\ executions' = [executions EXCEPT ![n] = row]
  BY <1>1 DEF Row
<1>3. SameReservation(n, row) /\ row.status = st
  BY <1>1 DEF Row, SameReservation
<1>4. Settles(n, row)
  BY <1>3 DEF Settles
<1>5. Rewrites(n, row)
  BY <1>1, <1>2, <1>3, <1>4 DEF Rewrites
<1> QED
  BY <1>2, <1>5

\* The UPDATE shared by decide_result and a replay under a changed policy.
LEMMA DecideRewrites ==
    ASSUME TypeOK, NEW n \in Nonces, NEW di \in Dispositions, Status(n) = "succeeded",
           executions[n].disposition \notin {"withheld", "review_required"},
           executions' = [executions EXCEPT ![n].disposition = di]
    PROVE  \E row \in Row : Rewrites(n, row)
<1> DEFINE row == [executions[n] EXCEPT !.disposition = di]
<1>1. Present(n) /\ executions[n] \in Row
  BY RowCases DEF Present
<1>2. row \in Row /\ executions' = [executions EXCEPT ![n] = row]
  BY <1>1 DEF Row
<1>3. SameReservation(n, row) /\ row.status = "succeeded" /\ row.result = executions[n].result
  BY <1>1 DEF Row, SameReservation, Status
<1>4. Rewrites(n, row)
  BY <1>1, <1>2, <1>3 DEF Rewrites, Decides
<1> QED
  BY <1>2, <1>4

\* Every operation of the ledger is one of three kinds of step on `executions`.
LEMMA StepKinds ==
    ASSUME TypeOK, LedgerNext
    PROVE  UNCHANGED executions \/ Inserts \/ \E n \in Nonces, row \in Row : Rewrites(n, row)
<1>1. ASSUME NEW n \in Nonces, NEW s \in Scopes, NEW k \in Keys, NEW d \in Digests,
             NEW p \in Policies, reserve(n, s, k, d, p)
      PROVE  UNCHANGED executions \/ Inserts \/ \E m \in Nonces, row \in Row : Rewrites(m, row)
  <2>1. CASE ReserveInsert(n, s, k, d, p)
    BY <2>1 DEF Inserts
  <2>2. CASE ReserveReplay(n, s, k, d, p)
    <3>1. PICK m \in Existing(n, s, k) :
             \/ UNCHANGED executions
             \/ /\ Accepted(m)
                /\ executions' = [executions EXCEPT ![m].disposition = "review_required"]
      BY <2>2 DEF ReserveReplay
    <3>2. m \in Nonces
      BY DEF Existing
    <3>3. Accepted(m) => /\ Status(m) = "succeeded"
                         /\ executions[m].disposition \notin {"withheld", "review_required"}
      BY DEF Accepted
    <3>4. "review_required" \in Dispositions
      BY DEF Dispositions
    <3> QED
      BY <3>1, <3>2, <3>3, <3>4, DecideRewrites
  <2>3. CASE ReserveRefuse(n, s, k, d)
    BY <2>3 DEF ReserveRefuse, ledgerVars
  <2> QED
    BY <1>1, <2>1, <2>2, <2>3 DEF reserve
<1>2. ASSUME NEW n \in Nonces, NEW st \in Statuses \ {"pending"}, NEW r \in BOOLEAN,
             NEW di \in Dispositions, finish(n, st, r, di)
      PROVE  UNCHANGED executions \/ \E row \in Row : Rewrites(n, row)
  <2>1. CASE Status(n) = "pending"
    BY <1>2, <2>1, SettleRewrites DEF finish, Uncertain
  <2>2. CASE Status(n) # "pending"
    BY <1>2, <2>2 DEF finish
  <2> QED
    BY <2>1, <2>2
<1>3. ASSUME NEW n \in Nonces, NEW di \in Dispositions \ {"pending_review"}, NEW p \in Policies,
             decide_result(n, di, p)
      PROVE  UNCHANGED executions \/ \E row \in Row : Rewrites(n, row)
  BY <1>3, DecideRewrites DEF decide_result
<1>4. ASSUME NEW n \in Nonces, NEW st \in {"succeeded", "not_dispatched"}, NEW r \in BOOLEAN,
             NEW di \in Dispositions \ {"pending_review"}, NEW fenced \in BOOLEAN,
             reconcile(n, st, r, di, fenced)
      PROVE  UNCHANGED executions \/ \E row \in Row : Rewrites(n, row)
  <2>1. st \in Statuses \ {"pending"} /\ st # "unknown"
    BY DEF Statuses
  <2>2. CASE Uncertain(n)
    BY <1>4, <2>1, <2>2, SettleRewrites DEF reconcile, Record
  <2>3. CASE ~Uncertain(n)
    BY <1>4, <2>3 DEF reconcile, Record, Uncertain
  <2> QED
    BY <2>2, <2>3
<1> QED
  BY <1>1, <1>2, <1>3, <1>4 DEF LedgerNext

-----------------------------------------------------------------------------

\* A replay is the only step that releases a result, and it leaves the row alone.
LEMMA ReleaseSteps ==
    ASSUME TypeOK, LedgerNext
    PROVE  \/ UNCHANGED released
           \/ \E n \in Nonces, p \in Policies :
                 /\ released' = released \cup {<<n, p>>}
                 /\ Accepted(n) /\ executions[n].policy = p /\ executions[n].result
                 /\ UNCHANGED executions
<1>1. ASSUME NEW n \in Nonces, NEW s \in Scopes, NEW k \in Keys, NEW d \in Digests,
             NEW p \in Policies, ReserveReplay(n, s, k, d, p)
      PROVE  \/ UNCHANGED released
             \/ \E m \in Nonces :
                   /\ released' = released \cup {<<m, p>>}
                   /\ Accepted(m) /\ executions[m].policy = p /\ executions[m].result
                   /\ UNCHANGED executions
  <2>1. PICK m \in Existing(n, s, k) :
           IF Accepted(m) /\ (executions[m].policy # p \/ ~executions[m].result)
           THEN UNCHANGED released
           ELSE /\ released' = IF Accepted(m) THEN released \cup {<<m, p>>} ELSE released
                /\ UNCHANGED executions
    BY <1>1 DEF ReserveReplay
  <2>2. m \in Nonces
    BY DEF Existing
  <2> QED
    BY <2>1, <2>2
<1>2. ASSUME NEW n \in Nonces, NEW s \in Scopes, NEW k \in Keys, NEW d \in Digests,
             NEW p \in Policies, ReserveInsert(n, s, k, d, p) \/ ReserveRefuse(n, s, k, d)
      PROVE  UNCHANGED released
  BY <1>2 DEF ReserveInsert, ReserveRefuse, ledgerVars
<1>3. ASSUME NEW n \in Nonces, NEW st, NEW r, NEW di, NEW p, NEW fenced,
             finish(n, st, r, di) \/ decide_result(n, di, p) \/ reconcile(n, st, r, di, fenced)
      PROVE  UNCHANGED released
  BY <1>3 DEF finish, decide_result, reconcile, Record
<1> QED
  BY <1>1, <1>2, <1>3 DEF LedgerNext, reserve

\* A reconciliation is recorded only with the verdict that resolves its row.
LEMMA ReconcileSteps ==
    ASSUME TypeOK, LedgerNext
    PROVE  \/ UNCHANGED reconciliations
           \/ \E n \in Nonces, st \in {"succeeded", "not_dispatched"} :
                 /\ reconciliations' = reconciliations \cup {[nonce |-> n, status |-> st]}
                 /\ Uncertain(n) /\ executions'[n].status = st
<1>1. ASSUME NEW n \in Nonces, NEW st \in {"succeeded", "not_dispatched"}, NEW r \in BOOLEAN,
             NEW di \in Dispositions \ {"pending_review"}, NEW fenced \in BOOLEAN,
             reconcile(n, st, r, di, fenced), Uncertain(n), ~UNCHANGED reconciliations
      PROVE  /\ reconciliations' = reconciliations \cup {[nonce |-> n, status |-> st]}
             /\ executions'[n].status = st
  <2>1. executions[n] \in Row
    BY <1>1, RowCases DEF Uncertain, Present
  <2> QED
    BY <1>1, <2>1 DEF reconcile, Record, TypeOK, Row
<1>2. ASSUME NEW n \in Nonces, NEW st \in {"succeeded", "not_dispatched"}, NEW r \in BOOLEAN,
             NEW di \in Dispositions \ {"pending_review"}, NEW fenced \in BOOLEAN,
             reconcile(n, st, r, di, fenced), ~Uncertain(n)
      PROVE  UNCHANGED reconciliations
  BY <1>2 DEF reconcile, Record, Uncertain
<1>3. ASSUME NEW n \in Nonces, NEW s \in Scopes, NEW k \in Keys, NEW d \in Digests,
             NEW p \in Policies, reserve(n, s, k, d, p)
      PROVE  UNCHANGED reconciliations
  BY <1>3 DEF reserve, ReserveInsert, ReserveReplay, ReserveRefuse, ledgerVars
<1>4. ASSUME NEW n \in Nonces, NEW st, NEW r, NEW di, NEW p,
             finish(n, st, r, di) \/ decide_result(n, di, p)
      PROVE  UNCHANGED reconciliations
  BY <1>4 DEF finish, decide_result
<1> QED
  BY <1>1, <1>2, <1>3, <1>4 DEF LedgerNext

\* The columns of the row a reservation inserts.
Fresh(n, s, k, d, p) ==
    [scope |-> s, key |-> k, digest |-> d, status |-> "pending",
     result |-> FALSE, disposition |-> "pending_review", policy |-> p]

\* An insertion takes a nonce that has no row, in a task that is not held.
LEMMA InsertStep ==
    ASSUME TypeOK, NEW n \in Nonces, NEW s \in Scopes, NEW k \in Keys, NEW d \in Digests,
           NEW p \in Policies, ReserveInsert(n, s, k, d, p)
    PROVE  /\ Fresh(n, s, k, d, p) \in Row
           /\ executions' = [executions EXCEPT ![n] = Fresh(n, s, k, d, p)]
           /\ ~Present(n)
           /\ \A m \in Nonces : Uncertain(m) => TaskOf[executions[m].scope] # TaskOf[s]
           /\ \A m \in Nonces :
                 /\ Live(m) /\ EffectOf[d] \notin Repeatable
                 /\ TaskOf[executions[m].scope] = TaskOf[s]
                 => EffectAt(m) # EffectOf[d]
<1>1. Fresh(n, s, k, d, p) \in Row
  BY DEF Fresh, Row, Statuses, Dispositions
<1>2. executions' = [executions EXCEPT ![n] = Fresh(n, s, k, d, p)]
  BY DEF ReserveInsert, Fresh
<1>3. ~Present(n)
  BY DEF ReserveInsert, Existing
<1>4. \A m \in Nonces : Uncertain(m) => TaskOf[executions[m].scope] # TaskOf[s]
  BY DEF ReserveInsert, Held, Holds, InTask, Uncertain, Present
<1>5. \A m \in Nonces :
         /\ Live(m) /\ EffectOf[d] \notin Repeatable
         /\ TaskOf[executions[m].scope] = TaskOf[s]
         => EffectAt(m) # EffectOf[d]
  BY DEF ReserveInsert, Duplicate, InTask, Live
<1> QED
  BY <1>1, <1>2, <1>3, <1>4, <1>5

-----------------------------------------------------------------------------
\* Every operation of the ledger keeps the tables well formed.
LEMMA TypeStep ==
    ASSUME TypeOK, [LedgerNext]_ledgerVars
    PROVE  TypeOK'
<1>1. CASE UNCHANGED ledgerVars
  BY <1>1 DEF ledgerVars, TypeOK
<1>2. CASE LedgerNext
  <2>1. executions' \in [Nonces -> Row \cup {NoRow}]
    <3>1. CASE Inserts
      BY <3>1, InsertStep DEF Inserts, TypeOK
    <3>2. CASE \E n \in Nonces, row \in Row : Rewrites(n, row)
      BY <3>2 DEF Rewrites, TypeOK
    <3>3. CASE UNCHANGED executions
      BY <3>3 DEF TypeOK
    <3> QED
      BY <1>2, <3>1, <3>2, <3>3, StepKinds
  <2>2. reconciliations' \subseteq Reconciliation
    BY <1>2, ReconcileSteps DEF TypeOK, Reconciliation
  <2>3. released' \subseteq Nonces \X Policies
    BY <1>2, ReleaseSteps DEF TypeOK
  <2> QED
    BY <2>1, <2>2, <2>3 DEF TypeOK
<1> QED
  BY <1>1, <1>2

\* Type correctness of the ledger for every caller.
THEOREM LedgerTypeCorrect == LedgerSpec => []TypeOK
<1>1. LedgerInit => TypeOK
  BY DEF LedgerInit, TypeOK
<1> QED
  BY <1>1, TypeStep, PTL DEF LedgerSpec

\* Two reservations of one task are never uncertain together: the insertion
\* check and the fact that no operation makes a settled row uncertain again.
LEMMA SerializedStep ==
    ASSUME TypeOK, OneUncertainPerTask, [LedgerNext]_ledgerVars
    PROVE  OneUncertainPerTask'
<1> SUFFICES ASSUME NEW m \in Nonces, NEW n \in Nonces, Uncertain(m)', Uncertain(n)',
                    TaskOf[executions'[m].scope] = TaskOf[executions'[n].scope]
             PROVE  m = n
  BY DEF OneUncertainPerTask
<1>1. CASE UNCHANGED executions
  BY <1>1 DEF OneUncertainPerTask, Uncertain, Status
<1>2. CASE Inserts
  <2>1. PICK i \in Nonces, s \in Scopes, k \in Keys, d \in Digests, p \in Policies :
           ReserveInsert(i, s, k, d, p)
    BY <1>2 DEF Inserts
  <2>2. /\ executions' = [executions EXCEPT ![i] = Fresh(i, s, k, d, p)]
        /\ \A j \in Nonces : Uncertain(j) => TaskOf[executions[j].scope] # TaskOf[s]
    BY <2>1, InsertStep
  <2>3. Fresh(i, s, k, d, p).scope = s
    BY DEF Fresh
  <2> QED
    BY <2>2, <2>3 DEF OneUncertainPerTask, Uncertain, Status, TypeOK
<1>3. CASE \E i \in Nonces, row \in Row : Rewrites(i, row)
  <2>1. PICK i \in Nonces, row \in Row : Rewrites(i, row)
    BY <1>3
  <2>2. \A j \in Nonces : Uncertain(j)' => /\ Uncertain(j)
                                          /\ executions'[j].scope = executions[j].scope
    BY <2>1 DEF Rewrites, Settles, Decides, SameReservation, Uncertain, Status, TypeOK
  <2> QED
    BY <2>2 DEF OneUncertainPerTask
<1> QED
  BY <1>1, <1>2, <1>3, StepKinds DEF ledgerVars

\* The ledger serializes consequential actions per task, for every caller and
\* every number of nonces, keys and credentials.
THEOREM Serialized == LedgerSpec => []OneUncertainPerTask
<1>1. LedgerInit => TypeOK /\ OneUncertainPerTask
  BY DEF LedgerInit, TypeOK, OneUncertainPerTask, Uncertain, Status, NoRow
<1>2. TypeOK /\ OneUncertainPerTask /\ [LedgerNext]_ledgerVars
      => TypeOK' /\ OneUncertainPerTask'
  BY TypeStep, SerializedStep
<1> QED
  BY <1>1, <1>2, PTL DEF LedgerSpec

\* A non-repeatable effect has at most one live reservation in a task: a
\* not_dispatched row stays so, and a live row keeps its task and effect.
LEMMA ReservedOnceStep ==
    ASSUME TypeOK, EffectReservedOnce, [LedgerNext]_ledgerVars
    PROVE  EffectReservedOnce'
<1> SUFFICES ASSUME NEW m \in Nonces, NEW n \in Nonces, Live(m)', Live(n)',
                    TaskOf[executions'[m].scope] = TaskOf[executions'[n].scope],
                    EffectAt(m)' = EffectAt(n)', EffectAt(n)' \notin Repeatable
             PROVE  m = n
  BY DEF EffectReservedOnce
<1>1. CASE UNCHANGED executions
  BY <1>1 DEF EffectReservedOnce, Live, Present, Status, EffectAt
<1>2. CASE Inserts
  <2>1. PICK i \in Nonces, s \in Scopes, k \in Keys, d \in Digests, p \in Policies :
           ReserveInsert(i, s, k, d, p)
    BY <1>2 DEF Inserts
  <2>2. /\ executions' = [executions EXCEPT ![i] = Fresh(i, s, k, d, p)]
        /\ \A j \in Nonces :
              /\ Live(j) /\ EffectOf[d] \notin Repeatable
              /\ TaskOf[executions[j].scope] = TaskOf[s]
              => EffectAt(j) # EffectOf[d]
    BY <2>1, InsertStep
  <2>3. Fresh(i, s, k, d, p).scope = s /\ Fresh(i, s, k, d, p).digest = d
    BY DEF Fresh
  <2>4. CASE m # i /\ n # i
    BY <2>2, <2>4 DEF EffectReservedOnce, Live, Present, Status, EffectAt, TypeOK
  <2>5. CASE m = i /\ n # i
    BY <2>2, <2>3, <2>5 DEF Live, Present, Status, EffectAt, TypeOK
  <2>6. CASE n = i /\ m # i
    BY <2>2, <2>3, <2>6 DEF Live, Present, Status, EffectAt, TypeOK
  <2> QED
    BY <2>4, <2>5, <2>6
<1>3. CASE \E i \in Nonces, row \in Row : Rewrites(i, row)
  <2>1. PICK i \in Nonces, row \in Row : Rewrites(i, row)
    BY <1>3
  <2>2. \A j \in Nonces : Live(j)' => /\ Live(j)
                                     /\ executions'[j].scope = executions[j].scope
                                     /\ EffectAt(j)' = EffectAt(j)
    BY <2>1 DEF Rewrites, Settles, Decides, SameReservation, Uncertain, Live, Present, Status,
                EffectAt, TypeOK
  <2> QED
    BY <2>2 DEF EffectReservedOnce
<1> QED
  BY <1>1, <1>2, <1>3, StepKinds DEF ledgerVars

\* No key, nonce, credential or provenance reserves a non-repeatable effect a
\* second time, for every instance.
THEOREM ReservedOnce == LedgerSpec => []EffectReservedOnce
<1>1. LedgerInit => TypeOK /\ EffectReservedOnce
  BY DEF LedgerInit, TypeOK, EffectReservedOnce, Live, Present, Status, NoRow
<1>2. TypeOK /\ EffectReservedOnce /\ [LedgerNext]_ledgerVars
      => TypeOK' /\ EffectReservedOnce'
  BY TypeStep, ReservedOnceStep
<1> QED
  BY <1>1, <1>2, PTL DEF LedgerSpec

\* No operation changes a withheld row.
LEMMA WithheldStays ==
    ASSUME TypeOK, [LedgerNext]_ledgerVars, NEW n \in Nonces, Status(n) = "succeeded",
           executions[n].disposition \in {"withheld", "review_required"}
    PROVE  executions'[n] = executions[n]
<1>1. CASE Inserts
  BY <1>1, InsertStep DEF Inserts, Present, TypeOK
<1>2. CASE \E i \in Nonces, row \in Row : Rewrites(i, row)
  BY <1>2 DEF Rewrites, Settles, Decides, Uncertain, TypeOK
<1> QED
  BY <1>1, <1>2, StepKinds DEF ledgerVars

\* Withheld rows and their results are left alone by every operation.
THEOREM WithholdingHolds == LedgerSpec => WithheldIsFinal
<1>1. ASSUME TypeOK, LedgerNext, NEW n \in Nonces, Status(n) = "succeeded",
             executions[n].disposition \in {"withheld", "review_required"}
      PROVE  /\ executions'[n] = executions[n]
             /\ \A p \in Policies : <<n, p>> \in released' => <<n, p>> \in released
  <2>1. executions'[n] = executions[n]
    BY <1>1, WithheldStays
  <2>2. \A p \in Policies : <<n, p>> \in released' => <<n, p>> \in released
    BY <1>1, ReleaseSteps DEF Accepted
  <2> QED
    BY <2>1, <2>2
<1>2. TypeOK /\ [LedgerNext]_ledgerVars =>
        [\A n \in Nonces :
          Status(n) = "succeeded" /\ executions[n].disposition \in {"withheld", "review_required"}
          => /\ executions'[n] = executions[n]
             /\ \A p \in Policies : <<n, p>> \in released' => <<n, p>> \in released]_ledgerVars
  BY <1>1
<1> QED
  BY <1>2, LedgerTypeCorrect, PTL DEF LedgerSpec, WithheldIsFinal

\* A settled row keeps its status and every row keeps its reservation.
LEMMA RowKept ==
    ASSUME TypeOK, [LedgerNext]_ledgerVars, NEW n \in Nonces, Present(n)
    PROVE  /\ Status(n) \in {"succeeded", "not_dispatched"} => Status(n)' = Status(n)
           /\ Status(n) = "succeeded" => executions'[n].result = executions[n].result
           /\ SameReservation(n, executions'[n])
<1>1. CASE UNCHANGED executions
  BY <1>1 DEF Status, SameReservation
<1>2. CASE Inserts
  BY <1>2, InsertStep DEF Inserts, Present, Status, SameReservation, TypeOK
<1>3. CASE \E i \in Nonces, row \in Row : Rewrites(i, row)
  <2>1. PICK i \in Nonces, row \in Row : Rewrites(i, row)
    BY <1>3
  <2>2. executions'[n] = IF i = n THEN row ELSE executions[n]
    BY <2>1 DEF Rewrites, TypeOK
  <2> QED
    BY <2>1, <2>2 DEF Rewrites, Settles, Decides, Uncertain, Status, SameReservation
<1> QED
  BY <1>1, <1>2, <1>3, StepKinds DEF ledgerVars

\* No late finish and no second reconciliation changes a settled row, and no
\* operation changes what a row was reserved for.
THEOREM SettlementHolds == LedgerSpec => SettledIsFinal
<1>1. ASSUME TypeOK, [LedgerNext]_ledgerVars, NEW n \in Nonces, Present(n)
      PROVE  /\ Status(n) \in {"succeeded", "not_dispatched"} => Status(n)' = Status(n)
             /\ \A f \in {"scope", "key", "digest", "policy"} :
                   executions'[n][f] = executions[n][f]
  BY <1>1, RowKept DEF SameReservation
<1>2. TypeOK /\ [LedgerNext]_ledgerVars =>
        [\A n \in Nonces : Present(n) =>
          /\ Status(n) \in {"succeeded", "not_dispatched"} => Status(n)' = Status(n)
          /\ \A f \in {"scope", "key", "digest", "policy"} :
                executions'[n][f] = executions[n][f]]_ledgerVars
  BY <1>1
<1> QED
  BY <1>2, LedgerTypeCorrect, PTL DEF LedgerSpec, SettledIsFinal

\* What a replay returned stays a stored result of the policy it was returned
\* under: the row it came from is settled.
THEOREM ReleasesAreBound == LedgerSpec => []ReleasedUnderItsPolicy
<1>1. LedgerInit => ReleasedUnderItsPolicy
  BY DEF LedgerInit, ReleasedUnderItsPolicy
<1>2. ASSUME TypeOK, ReleasedUnderItsPolicy, [LedgerNext]_ledgerVars
      PROVE  ReleasedUnderItsPolicy'
  <2> SUFFICES ASSUME NEW rel \in released'
               PROVE  /\ executions'[rel[1]].status = "succeeded" /\ executions'[rel[1]].result
                      /\ executions'[rel[1]].policy = rel[2]
    BY DEF ReleasedUnderItsPolicy
  <2>1. CASE rel \in released
    <3>1. rel[1] \in Nonces
      BY <2>1, <1>2 DEF TypeOK
    <3>2. Status(rel[1]) = "succeeded" /\ executions[rel[1]].result
          /\ executions[rel[1]].policy = rel[2]
      BY <2>1, <1>2 DEF ReleasedUnderItsPolicy, Status
    <3>3. Present(rel[1])
      BY <3>2 DEF Present
    <3> QED
      BY <1>2, <3>1, <3>2, <3>3, RowKept DEF Status, SameReservation
  <2>2. CASE rel \notin released
    <3>1. PICK n \in Nonces, p \in Policies :
             /\ released' = released \cup {<<n, p>>}
             /\ Accepted(n) /\ executions[n].policy = p /\ executions[n].result
             /\ UNCHANGED executions
      BY <1>2, <2>2, ReleaseSteps DEF ledgerVars
    <3>2. rel[1] = n /\ rel[2] = p
      BY <3>1, <2>2
    <3> QED
      BY <3>1, <3>2 DEF Accepted, Status
  <2> QED
    BY <2>1, <2>2
<1> QED
  BY <1>1, <1>2, LedgerTypeCorrect, PTL DEF LedgerSpec

-----------------------------------------------------------------------------
(* What each ledger call does to the statuses and bindings of the rows. *)

Keeps(n) ==
    /\ Status(n)' = Status(n)
    /\ Present(n) => /\ executions'[n].scope = executions[n].scope
                     /\ executions'[n].digest = executions[n].digest

Becomes(n, st) ==
    /\ Status(n)' = st
    /\ executions'[n].scope = executions[n].scope
    /\ executions'[n].digest = executions[n].digest

\* An insertion makes its row pending and leaves the others alone.
LEMMA InsertEffect ==
    ASSUME TypeOK, NEW n \in Nonces, NEW s \in Scopes, NEW k \in Keys, NEW d \in Digests,
           NEW p \in Policies, ReserveInsert(n, s, k, d, p)
    PROVE  /\ ~Present(n) /\ Status(n)' = "pending"
           /\ executions'[n].scope = s /\ executions'[n].digest = d
           /\ \A m \in Nonces \ {n} : Keeps(m)
<1>1. executions' = [executions EXCEPT ![n] = Fresh(n, s, k, d, p)] /\ ~Present(n)
  BY InsertStep
<1>2. executions'[n] = Fresh(n, s, k, d, p)
  BY <1>1 DEF TypeOK
<1>3. \A m \in Nonces \ {n} : executions'[m] = executions[m]
  BY <1>1 DEF TypeOK
<1> QED
  BY <1>1, <1>2, <1>3 DEF Fresh, Status, Keeps

\* A replay or a refusal changes no row's status, scope or digest.
LEMMA ReplayEffect ==
    ASSUME TypeOK, NEW n \in Nonces, NEW s \in Scopes, NEW k \in Keys, NEW d \in Digests,
           NEW p \in Policies,
           ReserveReplay(n, s, k, d, p) \/ ReserveRefuse(n, s, k, d)
    PROVE  \A m \in Nonces : Keeps(m)
<1>1. CASE UNCHANGED executions
  BY <1>1 DEF Keeps, Status
<1>2. CASE ~UNCHANGED executions
  <2>1. PICK i \in Existing(n, s, k) :
           executions' = [executions EXCEPT ![i].disposition = "review_required"]
    BY <1>2 DEF ReserveReplay, ReserveRefuse, ledgerVars
  <2>2. i \in Nonces /\ executions[i] \in Row
    BY RowCases DEF Existing
  <2>3. /\ executions'[i] = [executions[i] EXCEPT !.disposition = "review_required"]
        /\ \A m \in Nonces \ {i} : executions'[m] = executions[m]
    BY <2>1, <2>2 DEF TypeOK
  <2>4. Keeps(i)
    BY <2>2, <2>3 DEF Keeps, Status, Row
  <2> QED
    BY <2>3, <2>4 DEF Keeps, Status
<1> QED
  BY <1>1, <1>2

\* The UPDATE of a row changes that row's status only.
LEMMA SettleEffect ==
    ASSUME TypeOK, NEW n \in Nonces, Present(n), NEW st \in Statuses, NEW r \in BOOLEAN, NEW di \in Dispositions,
           executions' = [executions EXCEPT ![n].status = st, ![n].result = r,
                                            ![n].disposition = di]
    PROVE  Becomes(n, st) /\ \A m \in Nonces \ {n} : Keeps(m)
<1> DEFINE row == [executions[n] EXCEPT !.status = st, !.result = r, !.disposition = di]
<1>1. executions[n] \in Row
  BY RowCases
<1>2. /\ executions'[n] = row
      /\ \A m \in Nonces \ {n} : executions'[m] = executions[m]
  BY DEF TypeOK
<1>3. /\ row.status = st
      /\ row.scope = executions[n].scope /\ row.digest = executions[n].digest
  BY <1>1 DEF Row
<1> HIDE DEF row
<1>4. Becomes(n, st)
  BY <1>2, <1>3 DEF Becomes, Status
<1> QED
  BY <1>2, <1>4 DEF Keeps, Status

\* finish gives its row the status and leaves the others alone.
LEMMA FinishEffect ==
    ASSUME TypeOK, NEW n \in Nonces, NEW st \in Statuses, NEW r \in BOOLEAN, NEW di \in Dispositions,
           finish(n, st, r, di), Status(n) = "pending"
    PROVE  Becomes(n, st) /\ \A m \in Nonces \ {n} : Keeps(m)
  BY SettleEffect DEF finish, Present

\* reconcile settles an uncertain row or leaves everything alone.
LEMMA ReconcileEffect ==
    ASSUME TypeOK, NEW n \in Nonces, NEW st \in Statuses, NEW r \in BOOLEAN,
           NEW di \in Dispositions, NEW fenced \in BOOLEAN,
           reconcile(n, st, r, di, fenced)
    PROVE  /\ \A m \in Nonces \ {n} : Keeps(m)
           /\ \/ Keeps(n)
              \/ /\ Becomes(n, st)
                 /\ Status(n) = "unknown" \/ (Status(n) = "pending" /\ fenced)
<1>1. CASE Status(n) = "unknown" \/ (Status(n) = "pending" /\ fenced)
  <2>1. Present(n)
    BY <1>1 DEF Present
  <2>2. executions' = [executions EXCEPT ![n].status = st, ![n].result = r, ![n].disposition = di]
    BY <1>1 DEF reconcile, Record
  <2> QED
    BY <1>1, <2>1, <2>2, SettleEffect
<1>2. CASE ~(Status(n) = "unknown" \/ (Status(n) = "pending" /\ fenced))
  BY <1>2 DEF reconcile, Record, Keeps, Status
<1> QED
  BY <1>1, <1>2

\* Deciding about a result changes no row's status, scope or digest.
LEMMA DecideEffect ==
    ASSUME TypeOK, NEW n \in Nonces, NEW di \in Dispositions, NEW p \in Policies, decide_result(n, di, p)
    PROVE  \A m \in Nonces : Keeps(m)
<1>1. CASE UNCHANGED executions
  BY <1>1 DEF Keeps, Status
<1>2. CASE Status(n) = "succeeded" /\ executions' = [executions EXCEPT ![n].disposition = di]
  <2>1. executions[n] \in Row
    BY <1>2, RowCases DEF Present
  <2>2. /\ executions'[n] = [executions[n] EXCEPT !.disposition = di]
        /\ \A m \in Nonces \ {n} : executions'[m] = executions[m]
    BY <1>2 DEF TypeOK
  <2>3. Keeps(n)
    BY <2>1, <2>2 DEF Keeps, Status, Row
  <2> QED
    BY <2>2, <2>3 DEF Keeps, Status
<1> QED
  BY <1>1, <1>2 DEF decide_result

-----------------------------------------------------------------------------
(* How a result comes to be accepted, and that rows stay. *)

\* No operation deletes a row.
LEMMA RowStays ==
    ASSUME TypeOK, [LedgerNext]_ledgerVars, NEW n \in Nonces, Present(n)
    PROVE  Present(n)' /\ executions'[n].digest = executions[n].digest
                       /\ executions'[n].scope = executions[n].scope
<1>1. CASE UNCHANGED executions
  BY <1>1 DEF Present, Status
<1>2. CASE Inserts
  <2>1. PICK i \in Nonces, s \in Scopes, k \in Keys, d \in Digests, p \in Policies :
           ReserveInsert(i, s, k, d, p)
    BY <1>2 DEF Inserts
  <2>2. i # n /\ Keeps(n)
    BY <2>1, InsertEffect
  <2> QED
    BY <2>2 DEF Keeps, Present
<1>3. ASSUME NEW i \in Nonces, NEW row \in Row, Rewrites(i, row)
      PROVE  Present(n)' /\ executions'[n].digest = executions[n].digest
                         /\ executions'[n].scope = executions[n].scope
  <2>1. executions'[n] = IF i = n THEN row ELSE executions[n]
    BY <1>3 DEF Rewrites, TypeOK
  <2>2. row.status # "absent"
    BY DEF Row, Statuses
  <2> QED
    BY <1>3, <2>1, <2>2 DEF Rewrites, SameReservation, Present, Status
<1> QED
  BY <1>1, <1>2, <1>3, StepKinds DEF ledgerVars

\* A reservation, fresh or replayed, accepts nothing.
LEMMA ReserveAcceptsNothing ==
    ASSUME TypeOK, NEW n \in Nonces, NEW s \in Scopes, NEW k \in Keys, NEW d \in Digests,
           NEW p \in Policies, reserve(n, s, k, d, p), NEW m \in Nonces, Accepted(m)'
    PROVE  Accepted(m)
<1>1. CASE UNCHANGED executions
  BY <1>1 DEF Accepted, Status
<1>2. CASE ReserveInsert(n, s, k, d, p)
  <2>1. executions'[n] = Fresh(n, s, k, d, p) /\ \A i \in Nonces \ {n} : executions'[i] = executions[i]
    BY <1>2, InsertStep DEF TypeOK
  <2> QED
    BY <2>1 DEF Fresh, Accepted, Status
<1>3. ASSUME NEW i \in Existing(n, s, k),
             executions' = [executions EXCEPT ![i].disposition = "review_required"]
      PROVE  Accepted(m)
  <2>1. i \in Nonces /\ executions[i] \in Row
    BY RowCases DEF Existing
  <2>2. /\ executions'[i].disposition = "review_required"
        /\ \A j \in Nonces \ {i} : executions'[j] = executions[j]
    BY <1>3, <2>1 DEF TypeOK, Row
  <2> QED
    BY <2>2 DEF Accepted, Status
<1> QED
  BY <1>1, <1>2, <1>3 DEF reserve, ReserveReplay, ReserveRefuse, ledgerVars

\* An update accepts the row it is about only, when it says so.
LEMMA SettleAccepts ==
    ASSUME TypeOK, NEW n \in Nonces, Present(n), NEW st, NEW r, NEW di,
           executions' = [executions EXCEPT ![n].status = st, ![n].result = r,
                                            ![n].disposition = di],
           NEW m \in Nonces, Accepted(m)'
    PROVE  Accepted(m) \/ (m = n /\ di = "accepted_for_agent" /\ st = "succeeded")
<1> DEFINE row == [executions[n] EXCEPT !.status = st, !.result = r, !.disposition = di]
<1>1. executions[n] \in Row
  BY RowCases
<1>2. executions'[n] = row /\ \A i \in Nonces \ {n} : executions'[i] = executions[i]
  BY DEF TypeOK
<1>3. row.status = st /\ row.disposition = di
  BY <1>1 DEF Row
<1> HIDE DEF row
<1> QED
  BY <1>2, <1>3 DEF Accepted, Status

\* finish accepts a pending row only, when it says so.
LEMMA FinishAccepts ==
    ASSUME TypeOK, NEW n \in Nonces, NEW st, NEW r \in BOOLEAN, NEW di, finish(n, st, r, di),
           NEW m \in Nonces, Accepted(m)'
    PROVE  Accepted(m) \/ (m = n /\ di = "accepted_for_agent" /\ Status(n) = "pending")
<1>1. CASE Status(n) = "pending"
  <2>1. executions' = [executions EXCEPT ![n].status = st, ![n].result = r, ![n].disposition = di]
    BY <1>1 DEF finish
  <2>2. Present(n)
    BY <1>1 DEF Present
  <2> QED
    BY <1>1, <2>1, <2>2, SettleAccepts
<1>2. CASE Status(n) # "pending"
  BY <1>2 DEF finish, Accepted, Status
<1> QED
  BY <1>1, <1>2

\* A positive reconciliation is on record.
LEMMA ReconcileAccepts ==
    ASSUME TypeOK, NEW n \in Nonces, NEW st, NEW r, NEW di, NEW fenced,
           reconcile(n, st, r, di, fenced), NEW m \in Nonces, Accepted(m)'
    PROVE  Accepted(m) \/ (m = n /\ [nonce |-> n, status |-> "succeeded"] \in reconciliations')
<1>1. CASE Status(n) = "unknown" \/ (Status(n) = "pending" /\ fenced)
  <2>1. Present(n) /\ Record(n, st, r, di)
    BY <1>1 DEF reconcile, Present
  <2> QED
    BY <2>1, SettleAccepts DEF Record
<1>2. CASE ~(Status(n) = "unknown" \/ (Status(n) = "pending" /\ fenced))
  BY <1>2 DEF reconcile, Accepted, Status
<1> QED
  BY <1>1, <1>2

\* A decision about a result accepts the row it is about only, when it says so.
LEMMA DecideAccepts ==
    ASSUME TypeOK, NEW n \in Nonces, NEW di, NEW p, decide_result(n, di, p),
           NEW m \in Nonces, Accepted(m)'
    PROVE  Accepted(m) \/ (m = n /\ di = "accepted_for_agent")
<1>1. CASE UNCHANGED executions
  BY <1>1 DEF Accepted, Status
<1>2. CASE Status(n) = "succeeded" /\ executions' = [executions EXCEPT ![n].disposition = di]
  <2>1. executions[n] \in Row
    BY <1>2, RowCases DEF Present
  <2>2. /\ executions'[n].disposition = di
        /\ \A i \in Nonces \ {n} : executions'[i] = executions[i]
    BY <1>2, <2>1 DEF TypeOK, Row
  <2> QED
    BY <2>2 DEF Accepted, Status
<1> QED
  BY <1>1, <1>2 DEF decide_result

-----------------------------------------------------------------------------
(* Sums.  Total is a recursive function over the subsets of a finite set; that *)
(* the recursion has a solution, and that the order does not matter, is shown  *)
(* by induction over sizes, which is stated with sets of numbers.              *)

\* The element a fold takes first.
Pick(s) == CHOOSE x \in s : TRUE

\* g is the function that the fold of Total defines.
Sums(w, g) ==
    g = [s \in SUBSET (DOMAIN w) |-> IF s = {} THEN 0 ELSE w[Pick(s)] + g[s \ {Pick(s)}]]

LEMMA PickIn ==
    ASSUME NEW s, s # {}
    PROVE  Pick(s) \in s
BY DEF Pick

\* If the recursion has a solution, Total is the value of one.
LEMMA TotalUnfolds ==
    ASSUME NEW w
    PROVE  Total(w) = (CHOOSE g : Sums(w, g))[DOMAIN w]
BY Zenon DEF Total, MapThenSumSet, MapThenFoldSet, Sums, Pick

LEMMA TotalIsSolution ==
    ASSUME NEW w, \E g : Sums(w, g)
    PROVE  \E g : Sums(w, g) /\ Total(w) = g[DOMAIN w]
<1>1. Sums(w, CHOOSE g : Sums(w, g))
  OBVIOUS
<1> QED BY <1>1, TotalUnfolds

\* A set of natural numbers has a least element, so induction is sound.
LEMMA LeastNatural ==
    ASSUME NEW T \in SUBSET Nat, T # {}
    PROVE  \E x \in T : \A y \in T : x <= y
<1>1. PICK x \in T : \A y \in T : ~(<<y, x>> \in OpToRel(<, Nat))
  BY NatLessThanWellFounded, WFMin
<1>2. \A y \in T : ~(y < x)
  BY <1>1 DEF OpToRel
<1> QED BY <1>2

LEMMA Induction ==
    ASSUME NEW Q \in SUBSET Nat, 0 \in Q, \A n \in Q : n + 1 \in Q
    PROVE  Q = Nat
<1> SUFFICES ASSUME Nat \ Q # {} PROVE FALSE
  OBVIOUS
<1>1. PICK x \in Nat \ Q : \A y \in Nat \ Q : x <= y
  BY LeastNatural
<1>2. x - 1 \in Nat /\ x - 1 \notin Nat \ Q
  BY <1>1
<1> QED BY <1>1, <1>2

\* A subset of a finite set without one of its elements.
LEMMA Smaller ==
    ASSUME NEW S, IsFiniteSet(S), NEW s \in SUBSET S, NEW x \in s
    PROVE  /\ Cardinality(s) \in Nat /\ s \ {x} \in SUBSET S
           /\ Cardinality(s \ {x}) \in Nat /\ Cardinality(s \ {x}) + 1 = Cardinality(s)
<1>1. IsFiniteSet(s) /\ IsFiniteSet(s \ {x})
  BY FS_Subset
<1>2. Cardinality(s) \in Nat /\ Cardinality(s \ {x}) \in Nat
  BY <1>1, FS_CardinalityType
<1>3. Cardinality(s \ {x}) = Cardinality(s) - 1
  BY <1>1, FS_RemoveElement
<1> QED BY <1>2, <1>3

\* Induction over the subsets of a finite set by their size.
LEMMA SubsetInduction ==
    ASSUME NEW S, IsFiniteSet(S), NEW P \in SUBSET (SUBSET S), {} \in P,
           \A s \in SUBSET S : s # {} /\ (\A x \in s : s \ {x} \in P) => s \in P
    PROVE  P = SUBSET S
<1> DEFINE Q == {n \in Nat : \A s \in SUBSET S : Cardinality(s) = n => s \in P}
<1>1. \A s \in SUBSET S : Cardinality(s) \in Nat /\ (Cardinality(s) = 0 <=> s = {})
  BY FS_Subset, FS_CardinalityType, FS_EmptySet
<1>2. 0 \in Q
  BY <1>1
<1>3. ASSUME NEW n \in Q PROVE n + 1 \in Q
  <2> SUFFICES ASSUME NEW s \in SUBSET S, Cardinality(s) = n + 1 PROVE s \in P
    OBVIOUS
  <2>1. s # {}
    BY <1>1
  <2>2. ASSUME NEW x \in s PROVE s \ {x} \in P
    <3>1. s \ {x} \in SUBSET S /\ Cardinality(s \ {x}) = n
      BY Smaller
    <3> QED BY <3>1
  <2> QED BY <2>1, <2>2
<1>4. Q = Nat
  <2> HIDE DEF Q
  <2>1. Q \in SUBSET Nat
    BY DEF Q
  <2> QED BY <1>2, <1>3, <2>1, Induction
<1> QED BY <1>1, <1>4

\* g adds up w over every subset of S.
Adds(w, S, g) ==
    /\ g \in [SUBSET S -> Nat]
    /\ \A s \in SUBSET S : g[s] = IF s = {} THEN 0 ELSE w[Pick(s)] + g[s \ {Pick(s)}]

\* The recursion has a solution: it is built for subsets of growing size.
LEMMA AddsFrom ==
    ASSUME NEW w, NEW S, IsFiniteSet(S), w \in [S -> Nat]
    PROVE  \E g : Adds(w, S, g)
<1> DEFINE Upto(n) == {s \in SUBSET S : Cardinality(s) <= n}
           Body(g, s) == IF s = {} THEN 0 ELSE w[Pick(s)] + g[s \ {Pick(s)}]
           Good(n, g) == g \in [Upto(n) -> Nat] /\ \A s \in Upto(n) : g[s] = Body(g, s)
           Q == {n \in Nat : \E g : Good(n, g)}
<1>1. \A s \in SUBSET S : Cardinality(s) \in Nat /\ (Cardinality(s) = 0 <=> s = {})
  BY FS_Subset, FS_CardinalityType, FS_EmptySet
<1>2. \A s \in SUBSET S : s # {} =>
         /\ Pick(s) \in s /\ w[Pick(s)] \in Nat /\ s \ {Pick(s)} \in SUBSET S
         /\ Cardinality(s \ {Pick(s)}) \in Nat /\ Cardinality(s \ {Pick(s)}) + 1 = Cardinality(s)
  BY PickIn, Smaller
<1>3. 0 \in Q
  <2>1. Upto(0) = {{}}
    BY <1>1
  <2>2. Good(0, [s \in Upto(0) |-> 0])
    BY <2>1
  <2> QED BY <2>2
<1>4. ASSUME NEW n \in Q PROVE n + 1 \in Q
  <2>1. PICK g : Good(n, g)
    BY <1>4
  <2> DEFINE h == [s \in Upto(n + 1) |-> Body(g, s)]
  <2>2. n \in Nat
    OBVIOUS
  <2>3. \A s \in Upto(n + 1) : s # {} => s \ {Pick(s)} \in Upto(n) /\ g[s \ {Pick(s)}] \in Nat
    BY <1>1, <1>2, <2>1, <2>2
  <2>4. h \in [Upto(n + 1) -> Nat]
    BY <1>2, <2>3
  <2>5. \A s \in Upto(n) : s \in Upto(n + 1) /\ h[s] = g[s]
    BY <1>1, <2>1, <2>2
  <2>6. ASSUME NEW s \in Upto(n + 1) PROVE h[s] = Body(h, s)
    <3>1. CASE s = {}
      BY <3>1
    <3>2. CASE s # {}
      BY <2>3, <2>5, <3>2
    <3> QED BY <3>1, <3>2
  <2>7. Good(n + 1, h)
    BY <2>4, <2>6
  <2> HIDE DEF Good, h
  <2> QED BY <2>2, <2>7
<1>5. Q = Nat
  <2> HIDE DEF Q
  <2>1. Q \in SUBSET Nat
    BY DEF Q
  <2> QED BY <1>3, <1>4, <2>1, Induction
<1>6. Cardinality(S) \in Nat /\ Upto(Cardinality(S)) = SUBSET S
  <2>1. \A s \in SUBSET S : Cardinality(s) <= Cardinality(S)
    BY FS_Subset
  <2> QED BY <1>1, <2>1
<1>7. PICK g : Good(Cardinality(S), g)
  BY <1>5, <1>6
<1>8. Adds(w, S, g)
  BY <1>6, <1>7 DEF Adds
<1> QED BY <1>8

\* Total adds up a function on a finite set.
LEMMA TotalAdds ==
    ASSUME NEW w, NEW S, IsFiniteSet(S), w \in [S -> Nat]
    PROVE  \E g : Adds(w, S, g) /\ Total(w) = g[S]
<1>1. DOMAIN w = S
  OBVIOUS
<1>2. PICK f : Adds(w, S, f)
  BY AddsFrom
<1>3. Sums(w, f)
  BY <1>1, <1>2 DEF Adds, Sums
<1>4. PICK g : Sums(w, g) /\ Total(w) = g[S]
  BY <1>1, <1>3, TotalIsSolution
<1>5. /\ DOMAIN g = SUBSET S
      /\ \A s \in SUBSET S : g[s] = IF s = {} THEN 0 ELSE w[Pick(s)] + g[s \ {Pick(s)}]
  BY <1>1, <1>4 DEF Sums
<1> DEFINE P == {s \in SUBSET S : g[s] \in Nat}
<1>6. {} \in P
  <2>1. {} \in SUBSET S /\ g[{}] = 0
    BY <1>5
  <2> QED BY <2>1
<1>7. ASSUME NEW s \in SUBSET S, s # {}, \A x \in s : s \ {x} \in P PROVE s \in P
  <2>1. Pick(s) \in s /\ w[Pick(s)] \in Nat
    BY <1>7, PickIn
  <2>2. g[s] = w[Pick(s)] + g[s \ {Pick(s)}] /\ g[s \ {Pick(s)}] \in Nat
    BY <1>5, <1>7, <2>1
  <2>3. g[s] \in Nat
    BY <2>1, <2>2
  <2> QED BY <2>3
<1>8. P = SUBSET S
  <2> HIDE DEF P
  <2>1. P \in SUBSET (SUBSET S)
    BY DEF P
  <2> QED BY <1>6, <1>7, <2>1, SubsetInduction
<1>9. g \in [SUBSET S -> Nat]
  <2>1. \A s \in SUBSET S : g[s] \in Nat
    BY <1>8
  <2>2. g = [s \in SUBSET S |-> g[s]]
    BY <1>1, <1>4 DEF Sums
  <2> QED BY <2>1, <2>2
<1>10. Adds(w, S, g)
  BY <1>5, <1>9 DEF Adds
<1> QED BY <1>4, <1>10

\* What one step of an exchange rests on.
LEMMA Exchange ==
    ASSUME NEW a \in Nat, NEW b \in Nat, NEW c \in Nat
    PROVE  a + (b + c) = b + (a + c)
OBVIOUS

\* The order in which elements are taken does not matter.
LEMMA AddsAny ==
    ASSUME NEW w, NEW S, IsFiniteSet(S), w \in [S -> Nat], NEW g, Adds(w, S, g),
           NEW r \in SUBSET S, NEW z \in r
    PROVE  g[r] = w[z] + g[r \ {z}]
<1> DEFINE P == {s \in SUBSET S : \A x \in s : g[s] = w[x] + g[s \ {x}]}
<1>1. {} \in P
  OBVIOUS
<1>2. ASSUME NEW s \in SUBSET S, s # {}, \A x \in s : s \ {x} \in P PROVE s \in P
  <2> SUFFICES ASSUME NEW x \in s PROVE g[s] = w[x] + g[s \ {x}]
    OBVIOUS
  <2> DEFINE y == Pick(s)
  <2>1. y \in s /\ g[s] = w[y] + g[s \ {y}]
    BY <1>2, PickIn DEF Adds
  <2> HIDE DEF y
  <2>2. CASE x = y
    BY <2>1, <2>2
  <2>3. CASE x # y
    <3>1. g[s \ {y}] = w[x] + g[(s \ {y}) \ {x}]
      BY <1>2, <2>1, <2>3
    <3>2. g[s \ {x}] = w[y] + g[(s \ {x}) \ {y}]
      BY <1>2, <2>1, <2>3
    <3>3. (s \ {y}) \ {x} = (s \ {x}) \ {y} /\ (s \ {x}) \ {y} \in SUBSET S
      OBVIOUS
    <3>4. w[x] \in Nat /\ w[y] \in Nat /\ g[(s \ {x}) \ {y}] \in Nat
      BY <2>1, <3>3 DEF Adds
    <3>5. w[y] + (w[x] + g[(s \ {x}) \ {y}]) = w[x] + (w[y] + g[(s \ {x}) \ {y}])
      BY <3>4, Exchange
    <3> QED BY <2>1, <3>1, <3>2, <3>3, <3>5, Zenon
  <2> QED BY <2>2, <2>3
<1>3. P = SUBSET S
  <2> HIDE DEF P
  <2>1. P \in SUBSET (SUBSET S)
    BY DEF P
  <2> QED BY <1>1, <1>2, <2>1, SubsetInduction
<1> QED BY <1>3

\* A part of a function adds up to the same on its own domain.
LEMMA AddsAgree ==
    ASSUME NEW w, NEW S, IsFiniteSet(S), w \in [S -> Nat], NEW g, Adds(w, S, g),
           NEW v, NEW R, R \subseteq S, v \in [R -> Nat], \A x \in R : v[x] = w[x],
           NEW h, Adds(v, R, h)
    PROVE  \A s \in SUBSET R : h[s] = g[s]
<1> DEFINE P == {s \in SUBSET R : h[s] = g[s]}
<1>1. {} \in P
  BY DEF Adds
<1>2. ASSUME NEW s \in SUBSET R, s # {}, \A x \in s : s \ {x} \in P PROVE s \in P
  <2>1. Pick(s) \in s /\ s \in SUBSET S
    BY <1>2, PickIn
  <2>2. h[s] = v[Pick(s)] + h[s \ {Pick(s)}]
    BY <1>2 DEF Adds
  <2>3. g[s] = w[Pick(s)] + g[s \ {Pick(s)}]
    BY <1>2, <2>1 DEF Adds
  <2> QED BY <1>2, <2>1, <2>2, <2>3
<1>3. P = SUBSET R
  <2> HIDE DEF P
  <2>1. P \in SUBSET (SUBSET R) /\ IsFiniteSet(R)
    BY FS_Subset DEF P
  <2> QED BY <1>1, <1>2, <2>1, SubsetInduction
<1> QED BY <1>3

\* More elements add up to no less.
LEMMA AddsMonotone ==
    ASSUME NEW w, NEW S, IsFiniteSet(S), w \in [S -> Nat], NEW g, Adds(w, S, g)
    PROVE  \A s \in SUBSET S : \A r \in SUBSET s : g[r] <= g[s]
<1> DEFINE P == {s \in SUBSET S : \A r \in SUBSET s : g[r] <= g[s]}
<1>4. ASSUME NEW s \in SUBSET S, NEW x \in s PROVE g[s] = w[x] + g[s \ {x}]
  BY AddsAny
<1>0. \A s \in SUBSET S : g[s] \in Nat
  BY DEF Adds
<1>1. {} \in P
  <2>1. {} \in SUBSET S /\ SUBSET {} = {{}} /\ g[{}] \in Nat
    BY <1>0
  <2>2. g[{}] <= g[{}]
    BY <2>1
  <2> QED BY <2>1, <2>2, Zenon
<1>2. ASSUME NEW s \in SUBSET S, s # {}, \A x \in s : s \ {x} \in P PROVE s \in P
  <2> SUFFICES ASSUME NEW r \in SUBSET s, r # s PROVE g[r] <= g[s]
    BY <1>0
  <2>1. PICK x \in s : x \notin r
    OBVIOUS
  <2>2. r \in SUBSET (s \ {x}) /\ s \ {x} \in SUBSET S /\ r \in SUBSET S
    BY <2>1
  <2>3. g[r] <= g[s \ {x}]
    BY <1>2, <2>2
  <2>4. g[s] = w[x] + g[s \ {x}]
    BY <1>4
  <2>5. w[x] \in Nat
    OBVIOUS
  <2>6. g[r] \in Nat /\ g[s] \in Nat /\ g[s \ {x}] \in Nat
    BY <1>0, <2>2
  <2> QED BY <2>3, <2>4, <2>5, <2>6
<1>3. P = SUBSET S
  <2> HIDE DEF P
  <2>1. P \in SUBSET (SUBSET S)
    BY DEF P
  <2> QED BY <1>1, <1>2, <2>1, SubsetInduction
<1> QED BY <1>3

\* The facts about sums that the budget needs.
LEMMA TotalType ==
    ASSUME NEW w, NEW S, IsFiniteSet(S), w \in [S -> Nat]
    PROVE  Total(w) \in Nat
<1>1. PICK g : Adds(w, S, g) /\ Total(w) = g[S]
  BY TotalAdds
<1> QED BY <1>1 DEF Adds

LEMMA TotalNothing ==
    ASSUME NEW w, w \in [{} -> Nat]
    PROVE  Total(w) = 0
<1>1. IsFiniteSet({})
  BY FS_EmptySet
<1>2. PICK g : Adds(w, {}, g) /\ Total(w) = g[{}]
  BY <1>1, TotalAdds
<1> QED BY <1>2 DEF Adds

LEMMA TotalPart ==
    ASSUME NEW w, NEW S, IsFiniteSet(S), w \in [S -> Nat],
           NEW v, NEW R, R \subseteq S, v \in [R -> Nat], \A x \in R : v[x] = w[x]
    PROVE  Total(v) <= Total(w)
<1>1. IsFiniteSet(R)
  BY FS_Subset
<1>2. PICK g : Adds(w, S, g) /\ Total(w) = g[S]
  BY TotalAdds
<1>3. PICK h : Adds(v, R, h) /\ Total(v) = h[R]
  BY <1>1, TotalAdds
<1>4. h[R] = g[R]
  BY <1>2, <1>3, AddsAgree
<1>5. g[R] <= g[S]
  BY <1>2, AddsMonotone
<1> QED BY <1>2, <1>3, <1>4, <1>5

LEMMA TotalMore ==
    ASSUME NEW w, NEW S, IsFiniteSet(S), w \in [S -> Nat], NEW x \in S,
           NEW v, NEW R, R = S \ {x}, v \in [R -> Nat], \A y \in R : v[y] = w[y]
    PROVE  Total(w) = w[x] + Total(v)
<1>1. IsFiniteSet(R)
  BY FS_Subset
<1>2. PICK g : Adds(w, S, g) /\ Total(w) = g[S]
  BY TotalAdds
<1>3. PICK h : Adds(v, R, h) /\ Total(v) = h[R]
  BY <1>1, TotalAdds
<1>4. h[R] = g[R]
  BY <1>2, <1>3, AddsAgree
<1>5. g[S] = w[x] + g[R]
  BY <1>2, AddsAny
<1> QED BY <1>2, <1>3, <1>4, <1>5

\* A sum whose terms are terms of another one, each used at most once, is no greater.
LEMMA TotalInjected ==
    ASSUME NEW w, NEW S, IsFiniteSet(S), w \in [S -> Nat],
           NEW v, NEW R, IsFiniteSet(R), v \in [R -> Nat],
           NEW f \in [R -> S], \A x, y \in R : f[x] = f[y] => x = y, \A x \in R : v[x] = w[f[x]]
    PROVE  Total(v) <= Total(w)
<1>1. PICK g : Adds(w, S, g) /\ Total(w) = g[S]
  BY TotalAdds
<1>2. PICK h : Adds(v, R, h) /\ Total(v) = h[R]
  BY TotalAdds
<1> DEFINE Image(s) == {f[x] : x \in s}
           P == {s \in SUBSET R : h[s] = g[Image(s)]}
<1>3. \A s \in SUBSET R : Image(s) \in SUBSET S
  OBVIOUS
<1>4. {} \in P
  <2>1. Image({}) = {}
    OBVIOUS
  <2>2. {} \in SUBSET S /\ {} \in SUBSET R
    OBVIOUS
  <2>3. g[{}] = 0
    BY <1>1, <2>2 DEF Adds
  <2>4. h[{}] = 0
    BY <1>2, <2>2 DEF Adds
  <2> QED BY <2>1, <2>3, <2>4
<1>5. ASSUME NEW s \in SUBSET R, s # {}, \A x \in s : s \ {x} \in P PROVE s \in P
  <2>1. PICK x \in s : h[s] = v[x] + h[s \ {x}]
    BY <1>2, <1>5, PickIn DEF Adds
  <2>2. PICK z, r : z = f[x] /\ r = Image(s)
    OBVIOUS
  <2>3. z \in r /\ r \in SUBSET S
    BY <1>3, <2>2
  <2>4. g[r] = w[z] + g[r \ {z}]
    BY <1>1, <2>3, AddsAny
  <2>5. Image(s \ {x}) = r \ {z}
    BY <2>2
  <2>6. h[s \ {x}] = g[Image(s \ {x})]
    BY <1>5
  <2> QED BY <2>1, <2>2, <2>4, <2>5, <2>6
<1>6. P = SUBSET R
  <2> HIDE DEF P
  <2>1. P \in SUBSET (SUBSET R)
    BY DEF P
  <2> QED BY <1>4, <1>5, <2>1, SubsetInduction
<1>7. h[R] = g[Image(R)]
  BY <1>6
<1>8. g[Image(R)] <= g[S]
  BY <1>1, <1>3, AddsMonotone
<1> QED BY <1>1, <1>2, <1>7, <1>8

-----------------------------------------------------------------------------
(* The budget *)

\* What each live row of a task costs.
Costs(t) == [n \in LiveIn(t) |-> AmountOf[EffectAt(n)]]

LEMMA CostsAre ==
    ASSUME TypeOK, NEW t \in Tasks
    PROVE  /\ IsFiniteSet(LiveIn(t)) /\ Costs(t) \in [LiveIn(t) -> Nat]
           /\ Spent(t) = Total(Costs(t))
<1>1. LiveIn(t) \subseteq Nonces
  BY DEF LiveIn
<1>2. IsFiniteSet(LiveIn(t))
  BY <1>1, FiniteNonces, FS_Subset
<1>3. ASSUME NEW n \in LiveIn(t) PROVE AmountOf[EffectAt(n)] \in Nat
  <2>1. n \in Nonces /\ Present(n)
    BY DEF LiveIn, Live
  <2>2. executions[n].digest \in Digests
    BY <2>1, RowCases DEF Row
  <2> QED BY <2>2, LedgerConstants DEF EffectAt
<1> QED BY <1>2, <1>3 DEF Costs, Spent

\* The same of the state after a step.
LEMMA CostsStayFinite ==
    ASSUME NEW t \in Tasks
    PROVE  (TypeOK => /\ IsFiniteSet(LiveIn(t)) /\ Costs(t) \in [LiveIn(t) -> Nat]
                      /\ Spent(t) = Total(Costs(t)))'
<1>1. TypeOK => /\ IsFiniteSet(LiveIn(t)) /\ Costs(t) \in [LiveIn(t) -> Nat]
                /\ Spent(t) = Total(Costs(t))
  BY CostsAre
<1> QED BY <1>1, PTL

\* An insertion adds its amount, which the check before it has left room for; a
\* row that is settled or decided keeps its amount or gives it back.
LEMMA SpentStep ==
    ASSUME TypeOK, TypeOK', SpentWithinBudget, [LedgerNext]_ledgerVars
    PROVE  SpentWithinBudget'
<1> SUFFICES ASSUME NEW t \in Tasks, Limit[t] # NoLimit PROVE Spent(t)' <= Limit[t]
  BY DEF SpentWithinBudget
<1>1. Limit[t] \in Nat
  BY LedgerConstants
<1>2. Spent(t) <= Limit[t]
  BY DEF SpentWithinBudget
<1>3. PICK S, w : S = LiveIn(t) /\ w = Costs(t)
  OBVIOUS
<1>4. PICK R, v : R = LiveIn(t)' /\ v = Costs(t)'
  OBVIOUS
<1>5. IsFiniteSet(S) /\ w \in [S -> Nat] /\ Spent(t) = Total(w) /\ Total(w) \in Nat
  BY <1>3, CostsAre, TotalType
<1>6. IsFiniteSet(R) /\ v \in [R -> Nat] /\ Spent(t)' = Total(v) /\ Total(v) \in Nat
  <2>1. IsFiniteSet(R) /\ v \in [R -> Nat] /\ Spent(t)' = Total(v)
    BY <1>4, CostsStayFinite
  <2> QED BY <2>1, TotalType
<1>7. ASSUME R \subseteq S, \A n \in R : v[n] = w[n] PROVE Total(v) <= Total(w)
  BY <1>5, <1>6, <1>7, TotalPart
<1>8. ASSUME \A n \in Nonces : Live(n)' => /\ Live(n) /\ executions'[n].scope = executions[n].scope
                                          /\ executions'[n].digest = executions[n].digest
      PROVE  Spent(t)' <= Limit[t]
  <2>1. R \subseteq S
    BY <1>3, <1>4, <1>8 DEF LiveIn, InTask, Live
  <2>2. \A n \in R : v[n] = w[n]
    BY <1>3, <1>4, <1>8, <2>1 DEF LiveIn, Costs, EffectAt
  <2> QED BY <1>1, <1>2, <1>5, <1>6, <1>7, <2>1, <2>2
<1>9. CASE UNCHANGED executions
  BY <1>8, <1>9 DEF Live, Present, Status
<1>10. CASE Inserts
  <2>1. PICK i \in Nonces, s \in Scopes, k \in Keys, d \in Digests, p \in Policies :
           ReserveInsert(i, s, k, d, p)
    BY <1>10 DEF Inserts
  <2>2. executions' = [executions EXCEPT ![i] = Fresh(i, s, k, d, p)] /\ ~Present(i)
    BY <2>1, InsertStep
  <2>3. ~OverBudget(TaskOf[s], EffectOf[d])
    BY <2>1 DEF ReserveInsert
  <2>4. \A n \in Nonces : n # i => executions'[n] = executions[n]
    BY <2>2 DEF TypeOK
  <2>5. /\ executions'[i].scope = s /\ executions'[i].digest = d
        /\ executions'[i].status = "pending"
    BY <2>2 DEF TypeOK, Fresh
  <2>6. i \notin S /\ \A n \in Nonces : n # i => (n \in R <=> n \in S)
    BY <1>3, <1>4, <2>2, <2>4 DEF LiveIn, InTask, Live, Present, Status
  <2>7. \A n \in S : n # i /\ n \in Nonces
    BY <1>3, <2>6 DEF LiveIn
  <2>8. S \subseteq R /\ \A n \in S : v[n] = w[n]
    BY <1>3, <1>4, <2>4, <2>6, <2>7 DEF Costs, EffectAt
  <2>9. CASE TaskOf[s] # t
    <3>1. i \notin R
      BY <1>4, <2>5, <2>9 DEF LiveIn, InTask
    <3>2. R \subseteq S
      BY <1>4, <2>6, <3>1 DEF LiveIn
    <3> QED BY <1>1, <1>2, <1>5, <1>6, <1>7, <2>8, <3>2
  <2>10. CASE TaskOf[s] = t
    <3>1. i \in R
      BY <1>4, <2>5, <2>10 DEF LiveIn, InTask, Live, Present, Status
    <3>2. S = R \ {i}
      BY <1>4, <2>6, <2>7, <2>8 DEF LiveIn
    <3>3. v[i] = AmountOf[EffectOf[d]]
      BY <1>4, <2>5, <3>1 DEF Costs, EffectAt
    <3>4. Total(v) = v[i] + Total(w)
      BY <1>5, <1>6, <2>8, <3>1, <3>2, TotalMore
    <3>5. ~(Spent(t) + AmountOf[EffectOf[d]] > Limit[t])
      BY <2>3, <2>10 DEF OverBudget
    <3>6. v[i] \in Nat
      BY <1>6, <3>1
    <3> QED BY <1>1, <1>5, <1>6, <3>3, <3>4, <3>5, <3>6
  <2> QED BY <2>9, <2>10
<1>11. CASE \E i \in Nonces, row \in Row : Rewrites(i, row)
  <2>1. PICK i \in Nonces, row \in Row : Rewrites(i, row)
    BY <1>11
  <2>2. \A n \in Nonces : n # i => executions'[n] = executions[n]
    BY <2>1 DEF Rewrites, TypeOK
  <2>3. executions'[i] = row /\ SameReservation(i, row) /\ Present(i)
    BY <2>1 DEF Rewrites, TypeOK
  <2>4. Live(i)' => Live(i)
    BY <2>1, <2>3 DEF Rewrites, Settles, Decides, Uncertain, Live, Present, Status
  <2>5. \A n \in Nonces : Live(n)' => /\ Live(n) /\ executions'[n].scope = executions[n].scope
                                     /\ executions'[n].digest = executions[n].digest
    BY <2>2, <2>3, <2>4 DEF SameReservation, Live, Present, Status
  <2> QED BY <1>8, <2>5
<1> QED
  BY <1>9, <1>10, <1>11, StepKinds DEF ledgerVars

\* For every caller and every budget: the live reservations of a task never cost
\* more than its limit, although rows that were not dispatched give theirs back.
THEOREM BudgetHolds == LedgerSpec => []SpentWithinBudget
<1>1. LedgerInit => TypeOK /\ SpentWithinBudget
  <2> SUFFICES ASSUME LedgerInit PROVE TypeOK /\ SpentWithinBudget
    OBVIOUS
  <2>1. TypeOK
    BY DEF LedgerInit, TypeOK
  <2>2. ASSUME NEW t \in Tasks, Limit[t] # NoLimit PROVE Spent(t) <= Limit[t]
    <3>1. LiveIn(t) = {}
      BY DEF LedgerInit, LiveIn, Live, Present, Status, NoRow
    <3>2. PICK w : w = Costs(t)
      OBVIOUS
    <3>3. w \in [{} -> Nat] /\ Spent(t) = Total(w)
      BY <2>1, <3>1, <3>2, CostsAre
    <3>4. Total(w) = 0
      BY <3>3, TotalNothing
    <3>5. Limit[t] \in Nat
      BY <2>2, LedgerConstants
    <3> QED BY <3>3, <3>4, <3>5
  <2> QED BY <2>1, <2>2 DEF SpentWithinBudget
<1>2. TypeOK /\ SpentWithinBudget /\ [LedgerNext]_ledgerVars
      => TypeOK' /\ SpentWithinBudget'
  BY TypeStep, SpentStep
<1> QED
  BY <1>1, <1>2, PTL DEF LedgerSpec
=============================================================================

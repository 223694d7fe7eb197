----------------------- MODULE MediatedExecutorProofs -----------------------
(***************************************************************************)
(* The mediated executor for every number of workers, reviewers, grants and *)
(* keys.  Two results carry the rest: every step of the executor is a step  *)
(* of the ledger (so the ledger's theorems hold here), and ExecInv, the     *)
(* inductive invariant that ties a worker's program counter, the row it     *)
(* reserved and the calls the provider has seen to each other.              *)
(***************************************************************************)
EXTENDS MediatedExecutor, ExecutionLedgerProofs

\* A row was reserved with the scope and digest of its grant.
RowsMatchGrants ==
    \A n \in Nonces : Present(n) => /\ executions[n].scope = GrantScope[n]
                                    /\ executions[n].digest = GrantDigest[n]

\* The provider has seen nothing of a reservation that does not exist, or whose
\* worker has not called it yet.
Undispatched(n) == provider[n].calls = 0 /\ provider[n].applied = 0

NothingBeforeDispatch ==
    \A n \in Nonces :
        /\ ~Present(n) => Undispatched(n)
        /\ \A w \in Workers : Owns(w, n) /\ worker[w].pc \in {"recheck", "cancel", "dispatch"}
                              => Undispatched(n)

\* A foreclosed reservation has no effect; a worker about to confirm saw one.
ClosedMeansUnapplied == \A n \in Nonces : provider[n].closed => ~Applied(n)
ConfirmMeansApplied == \A w \in Workers : At(w, "confirm") => Applied(worker[w].nonce)

Unowned(n) == \A w \in Workers : ~Owns(w, n)

\* What a reviewer's volatile state still guarantees when it is used.
ReviewIsCurrent(r) ==
    /\ Present(reviewer[r].nonce)
    /\ reviewer[r].fenced \/ FenceFirst => Unowned(reviewer[r].nonce)
    /\ reviewer[r].pc = "apply" =>
          \/ reviewer[r].verdict = "succeeded" /\ Applied(reviewer[r].nonce)
          \/ /\ reviewer[r].verdict = "not_dispatched"
             /\ Foreclosing => provider[reviewer[r].nonce].closed
             /\ FenceFirst /\ ~provider[reviewer[r].nonce].closed
                => Undispatched(reviewer[r].nonce)

ReviewsAreCurrent ==
    \A r \in Reviewers : reviewer[r].pc # "idle" => ReviewIsCurrent(r)

\* The receipts are final, by the provider's doing or by fencing first.
FinalReceipts == Foreclosing \/ FenceFirst

ExecInv ==
    /\ ExecTypeOK
    /\ RowsMatchGrants
    /\ WorkerOwnsReservation
    /\ NothingBeforeDispatch
    /\ CalledAtMostOnce
    /\ ClosedMeansUnapplied
    /\ ConfirmMeansApplied
    /\ ReviewsAreCurrent
    /\ SucceededMeansApplied
    /\ FinalReceipts => NotDispatchedMeansNoEffect

-----------------------------------------------------------------------------
(* The executor's steps are ledger steps. *)

\* A worker that is busy has a nonce.
LEMMA WorkerNonce ==
    ASSUME ExecTypeOK, NEW w \in Workers, ~At(w, "idle")
    PROVE  worker[w] \in Busy /\ worker[w].nonce \in Nonces /\ worker[w].key \in Keys
<1>1. worker[w] \in Busy
  BY DEF ExecTypeOK, At, Idle
<1> QED
  BY <1>1 DEF Busy

\* A reviewer in the middle of a call has a nonce.
LEMMA ReviewerNonce ==
    ASSUME ExecTypeOK, NEW r \in Reviewers, reviewer[r].pc # "idle"
    PROVE  /\ reviewer[r] \in Reviewing /\ reviewer[r].nonce \in Nonces
           /\ reviewer[r].fenced \in BOOLEAN /\ reviewer[r].result \in BOOLEAN
<1>1. reviewer[r] \in Reviewing
  BY DEF ExecTypeOK, Idle
<1> QED
  BY <1>1 DEF Reviewing

\* What a grant is bound to is of the ledger's types.
LEMMA GrantTypes ==
    ASSUME NEW n \in Nonces
    PROVE  GrantScope[n] \in Scopes /\ GrantDigest[n] \in Digests /\ GrantPolicy[n] \in Policies
  BY ExecutorConstants

\* A finish with arguments of their types is a step of the ledger.
LEMMA FinishIsLedgerStep ==
    ASSUME NEW n \in Nonces, NEW st \in Statuses \ {"pending"}, NEW r \in BOOLEAN,
           NEW di \in Dispositions, finish(n, st, r, di)
    PROVE  LedgerNext
  BY DEF LedgerNext

\* Every step of the executor changes the tables through one ledger operation or not at all.
LEMMA ExecStepIsLedgerStep ==
    ASSUME ExecInv, [ExecNext]_execVars
    PROVE  [LedgerNext]_ledgerVars
<1> USE DEF ExecInv
<1>1. ASSUME NEW w \in Workers, Reserve(w)
      PROVE  LedgerNext
  <2>1. worker[w].nonce \in Nonces /\ worker[w].key \in Keys
    BY <1>1, WorkerNonce DEF Reserve, At
  <2>2. reserve(worker[w].nonce, GrantScope[worker[w].nonce], worker[w].key,
                GrantDigest[worker[w].nonce], GrantPolicy[worker[w].nonce])
    BY <1>1 DEF Reserve, reserve
  <2> QED
    BY <2>1, <2>2, GrantTypes DEF LedgerNext
<1>2. ASSUME NEW w \in Workers, Cancel(w) \/ Confirm(w) \/ Doubt(w)
      PROVE  LedgerNext
  <2>1. worker[w].nonce \in Nonces
    BY <1>2, WorkerNonce DEF Cancel, Confirm, Doubt, At
  <2>2. /\ {"not_dispatched", "succeeded", "unknown"} \subseteq Statuses \ {"pending"}
        /\ {"review_required", "accepted_for_agent"} \subseteq Dispositions
    BY DEF Statuses, Dispositions
  <2> QED
    BY <1>2, <2>1, <2>2, FinishIsLedgerStep DEF Cancel, Confirm, Doubt
<1>3. ASSUME NEW r \in Reviewers, Resolve(r)
      PROVE  LedgerNext \/ UNCHANGED ledgerVars
  <2> DEFINE call == reviewer[r]
             di == IF call.verdict = "succeeded" THEN "accepted_for_agent" ELSE "review_required"
  <2>1. /\ call.pc = "apply" /\ call.nonce \in Nonces
        /\ call.fenced \in BOOLEAN /\ call.result \in BOOLEAN
    BY <1>3, ReviewerNonce DEF Resolve
  <2>2. call.verdict \in {"succeeded", "not_dispatched"}
    BY <2>1 DEF ReviewsAreCurrent, ReviewIsCurrent
  <2>3. di \in Dispositions \ {"pending_review"}
    BY DEF Dispositions
  <2>4. UNCHANGED ledgerVars \/ reconcile(call.nonce, call.verdict, call.result, di, call.fenced)
    BY <1>3 DEF Resolve
  <2> QED
    BY <2>1, <2>2, <2>3, <2>4 DEF LedgerNext
<1>4. ASSUME NEW w \in Workers,
             \/ \E n \in Nonces, k \in Keys : Submit(w, n, k)
             \/ Validate(w) \/ Recheck(w) \/ Dispatch(w) \/ Await(w) \/ Crash(w)
      PROVE  UNCHANGED ledgerVars
  BY <1>4 DEF Submit, Validate, Recheck, Dispatch, Await, Crash
<1>5. ASSUME NEW n \in Nonces, Invalidate(n) \/ Apply(n) \/ Lose(n)
      PROVE  UNCHANGED ledgerVars
  BY <1>5 DEF Invalidate, Apply, Lose
<1>6. ASSUME NEW r \in Reviewers,
             Receipt(r) \/ \E n \in Nonces, fenced \in BOOLEAN : Lookup(r, n, fenced)
      PROVE  UNCHANGED ledgerVars
  BY <1>6 DEF Receipt, Lookup
<1>7. CASE UNCHANGED execVars
  BY <1>7 DEF execVars, ledgerVars
<1> QED
  BY <1>1, <1>2, <1>3, <1>4, <1>5, <1>6, <1>7 DEF ExecNext, WorkerStep, ReviewerStep

-----------------------------------------------------------------------------
(* How a worker's record changes. *)

EarlySteps == {"recheck", "cancel", "dispatch"}

\* A worker that moves on to its next step keeps its nonce, and only it moves.
LEMMA GotoEffect ==
    ASSUME ExecTypeOK, NEW w \in Workers, ~At(w, "idle"),
           NEW step \in {"validate", "reserve"} \cup OwningSteps, Goto(w, step)
    PROVE  /\ worker' \in [Workers -> Busy \cup {Idle}]
           /\ worker'[w].pc = step /\ worker'[w].nonce = worker[w].nonce
           /\ \A v \in Workers \ {w} : worker'[v] = worker[v]
<1> DEFINE rec == [worker[w] EXCEPT !.pc = step]
<1>1. worker[w] \in Busy
  BY WorkerNonce
<1>2. rec \in Busy /\ rec.pc = step /\ rec.nonce = worker[w].nonce
  BY <1>1 DEF Busy
<1>3. worker' = [worker EXCEPT ![w] = rec]
  BY DEF Goto
<1> HIDE DEF rec
<1> QED
  BY <1>2, <1>3 DEF ExecTypeOK

\* A worker that returns is idle, and only it moves.
LEMMA ReturnEffect ==
    ASSUME ExecTypeOK, NEW w \in Workers, Return(w)
    PROVE  /\ worker' \in [Workers -> Busy \cup {Idle}]
           /\ worker'[w].pc = "idle"
           /\ \A v \in Workers \ {w} : worker'[v] = worker[v]
  BY DEF Return, ExecTypeOK, Idle

\* A step that changes no status and calls no provider, and after which workers
\* own no more than before and are no less far.
LEMMA QuietStep ==
    ASSUME ExecInv, TypeOK', \A n \in Nonces : Keeps(n), UNCHANGED <<provider, reviewer>>,
           grants' \in [Nonces -> {"current", "revoked", "expired"}],
           worker' \in [Workers -> Busy \cup {Idle}],
           \A v \in Workers, n \in Nonces : Owns(v, n)' =>
               Owns(v, n) /\ (worker'[v].pc \in EarlySteps => worker[v].pc \in EarlySteps),
           \A v \in Workers : At(v, "confirm")' => provider[worker'[v].nonce].applied > 0
    PROVE  ExecInv'
<1> USE DEF ExecInv
<1>1. ExecTypeOK'
  BY DEF ExecTypeOK
<1>2. \A n \in Nonces : Present(n)' <=> Present(n)
  BY DEF Keeps, Present
<1>3. RowsMatchGrants'
  BY <1>2 DEF RowsMatchGrants, Keeps
<1>4. WorkerOwnsReservation'
  BY DEF WorkerOwnsReservation, Keeps
<1>5. NothingBeforeDispatch'
  BY <1>2 DEF NothingBeforeDispatch, Undispatched, EarlySteps
<1>6. CalledAtMostOnce' /\ ClosedMeansUnapplied'
  BY DEF CalledAtMostOnce, ClosedMeansUnapplied, Applied
<1>7. ConfirmMeansApplied'
  BY DEF ConfirmMeansApplied, Applied, At
<1>8. ReviewsAreCurrent'
  <2>1. \A n \in Nonces : Unowned(n) => Unowned(n)'
    BY DEF Unowned
  <2>2. \A r \in Reviewers : reviewer[r].pc # "idle" => reviewer[r].nonce \in Nonces
    BY ReviewerNonce
  <2> QED
    BY <1>2, <2>1, <2>2 DEF ReviewsAreCurrent, ReviewIsCurrent, Applied, Undispatched
<1>9. SucceededMeansApplied' /\ (FinalReceipts => NotDispatchedMeansNoEffect')
  BY DEF SucceededMeansApplied, NotDispatchedMeansNoEffect, Applied, InFlight, Keeps
<1> QED
  BY <1>1, <1>3, <1>4, <1>5, <1>6, <1>7, <1>8, <1>9 DEF FinalReceipts

\* A worker settles or doubts the row it owns and returns.
LEMMA FinishStep ==
    ASSUME ExecInv, TypeOK', NEW w \in Workers, NEW n \in Nonces, Owns(w, n),
           NEW st \in {"succeeded", "unknown", "not_dispatched"}, Becomes(n, st),
           \A m \in Nonces \ {n} : Keeps(m), Return(w), UNCHANGED <<grants, provider, reviewer>>,
           st = "not_dispatched" => Undispatched(n), st = "succeeded" => Applied(n)
    PROVE  ExecInv'
<1> USE DEF ExecInv
<1>1. /\ worker' \in [Workers -> Busy \cup {Idle}]
      /\ worker'[w].pc = "idle"
      /\ \A v \in Workers \ {w} : worker'[v] = worker[v]
  BY ReturnEffect DEF ExecTypeOK
<1>2. ExecTypeOK'
  BY <1>1 DEF ExecTypeOK
<1>3. Status(n) = "pending" /\ Present(n)
  BY DEF WorkerOwnsReservation, Present
<1>4. \A m \in Nonces : Present(m)' <=> Present(m)
  BY <1>3 DEF Keeps, Becomes, Present
<1>5. \A v \in Workers, m \in Nonces : Owns(v, m)' =>
         Owns(v, m) /\ worker'[v].pc = worker[v].pc /\ m # n
  BY <1>1 DEF Owns, OwningSteps, WorkerOwnsReservation
<1>6. RowsMatchGrants'
  BY <1>3, <1>4 DEF RowsMatchGrants, Keeps, Becomes
<1>7. WorkerOwnsReservation'
  BY <1>5 DEF WorkerOwnsReservation, Keeps
<1>8. NothingBeforeDispatch'
  BY <1>4, <1>5 DEF NothingBeforeDispatch, Undispatched
<1>9. CalledAtMostOnce' /\ ClosedMeansUnapplied'
  BY DEF CalledAtMostOnce, ClosedMeansUnapplied, Applied
<1>10. ConfirmMeansApplied'
  BY <1>1 DEF ConfirmMeansApplied, Applied, At
<1>11. ReviewsAreCurrent'
  <2>1. \A m \in Nonces : Unowned(m) => Unowned(m)'
    BY <1>5 DEF Unowned
  <2>2. \A r \in Reviewers : reviewer[r].pc # "idle" => reviewer[r].nonce \in Nonces
    BY ReviewerNonce
  <2> QED
    BY <1>4, <2>1, <2>2 DEF ReviewsAreCurrent, ReviewIsCurrent, Applied, Undispatched
<1>12. SucceededMeansApplied'
  BY DEF SucceededMeansApplied, Applied, Keeps, Becomes
<1>13. FinalReceipts => NotDispatchedMeansNoEffect'
  BY DEF NotDispatchedMeansNoEffect, Applied, InFlight, Keeps, Becomes, Undispatched
<1> QED
  BY <1>2, <1>6, <1>7, <1>8, <1>9, <1>10, <1>11, <1>12, <1>13 DEF FinalReceipts

\* A reservation is inserted: nothing was known of its nonce before.
LEMMA InsertedStep ==
    ASSUME ExecInv, TypeOK', NEW w \in Workers, At(w, "reserve"),
           NEW n \in Nonces, n = worker[w].nonce,
           ReserveInsert(n, GrantScope[n], worker[w].key, GrantDigest[n], GrantPolicy[n]),
           Goto(w, "recheck"), UNCHANGED <<grants, provider, reviewer>>
    PROVE  ExecInv'
<1> USE DEF ExecInv
<1>1. /\ ~Present(n) /\ Status(n)' = "pending"
      /\ executions'[n].scope = GrantScope[n] /\ executions'[n].digest = GrantDigest[n]
      /\ \A m \in Nonces \ {n} : Keeps(m)
  <2>1. ~At(w, "idle")
    BY DEF At
  <2> QED
    BY <2>1, WorkerNonce, GrantTypes, InsertEffect DEF ExecTypeOK
<1>2. /\ worker' \in [Workers -> Busy \cup {Idle}]
      /\ worker'[w].pc = "recheck" /\ worker'[w].nonce = n
      /\ \A v \in Workers \ {w} : worker'[v] = worker[v]
  BY GotoEffect DEF At, OwningSteps
<1>3. ExecTypeOK'
  BY <1>2 DEF ExecTypeOK
<1>4. \A v \in Workers : ~Owns(v, n)
  BY <1>1 DEF WorkerOwnsReservation, Present
<1>5. \A v \in Workers, m \in Nonces : Owns(v, m)' =>
         \/ v = w /\ m = n
         \/ v # w /\ m # n /\ Owns(v, m) /\ worker'[v] = worker[v]
  BY <1>2, <1>4 DEF Owns
<1>6. RowsMatchGrants'
  BY <1>1 DEF RowsMatchGrants, Keeps, Present
<1>7. WorkerOwnsReservation'
  BY <1>1, <1>5 DEF WorkerOwnsReservation, Keeps
<1>8. NothingBeforeDispatch'
  BY <1>1, <1>5 DEF NothingBeforeDispatch, Undispatched, Keeps, Present
<1>9. CalledAtMostOnce' /\ ClosedMeansUnapplied'
  BY DEF CalledAtMostOnce, ClosedMeansUnapplied, Applied
<1>10. ConfirmMeansApplied'
  BY <1>2 DEF ConfirmMeansApplied, Applied, At
<1>11. ReviewsAreCurrent'
  <2>1. \A r \in Reviewers : reviewer[r].pc # "idle" =>
           reviewer[r].nonce \in Nonces /\ reviewer[r].nonce # n
    BY <1>1, ReviewerNonce DEF ReviewsAreCurrent, ReviewIsCurrent
  <2>2. \A m \in Nonces \ {n} : (Unowned(m) => Unowned(m)') /\ (Present(m) => Present(m)')
    BY <1>1, <1>5 DEF Unowned, Keeps, Present
  <2> QED
    BY <2>1, <2>2 DEF ReviewsAreCurrent, ReviewIsCurrent, Applied, Undispatched
<1>12. SucceededMeansApplied'
  BY <1>1 DEF SucceededMeansApplied, Applied, Keeps
<1>13. FinalReceipts => NotDispatchedMeansNoEffect'
  BY <1>1 DEF NotDispatchedMeansNoEffect, Applied, InFlight, Keeps
<1> QED
  BY <1>3, <1>6, <1>7, <1>8, <1>9, <1>10, <1>11, <1>12, <1>13 DEF FinalReceipts

\* The provider is called for a row that its worker still owns; the only negative
\* receipts that may be outstanding for it have foreclosed it.
LEMMA DispatchedStep ==
    ASSUME ExecInv, NEW w \in Workers, Dispatch(w)
    PROVE  ExecInv'
<1> USE DEF ExecInv
<1> DEFINE n == worker[w].nonce
<1>1. At(w, "dispatch") /\ UNCHANGED <<ledgerVars, grants, reviewer>>
  BY DEF Dispatch
<1>2. n \in Nonces /\ Owns(w, n) /\ Undispatched(n) /\ Status(n) = "pending" /\ Present(n)
  BY <1>1, WorkerNonce DEF At, Owns, OwningSteps, NothingBeforeDispatch, WorkerOwnsReservation,
                           Present
<1>3. /\ TypeOK' /\ \A m \in Nonces : Keeps(m)
      /\ \A m \in Nonces : (Present(m)' <=> Present(m)) /\ Status(m)' = Status(m)
  BY <1>1 DEF ExecTypeOK, TypeOK, ledgerVars, Keeps, Status, Present
<1>4. CASE Goto(w, "doubt") /\ UNCHANGED provider
  <2>1. /\ worker' \in [Workers -> Busy \cup {Idle}]
        /\ worker'[w].pc = "doubt" /\ worker'[w].nonce = n
        /\ \A v \in Workers \ {w} : worker'[v] = worker[v]
    BY <1>1, <1>4, GotoEffect DEF At, OwningSteps
  <2>2. \A v \in Workers, m \in Nonces : Owns(v, m)' =>
           Owns(v, m) /\ (worker'[v].pc \in EarlySteps => worker[v].pc \in EarlySteps)
    BY <1>2, <2>1 DEF Owns, EarlySteps
  <2>3. \A v \in Workers : At(v, "confirm")' => provider[worker'[v].nonce].applied > 0
    BY <2>1 DEF At, ConfirmMeansApplied, Applied
  <2>4. grants' \in [Nonces -> {"current", "revoked", "expired"}]
    BY <1>1 DEF ExecTypeOK
  <2> QED
    BY <1>1, <1>3, <1>4, <2>1, <2>2, <2>3, <2>4, QuietStep
<1>5. CASE /\ provider' = [provider EXCEPT ![n].calls = @ + 1]
           /\ Goto(w, "await")
  <2>1. /\ worker' \in [Workers -> Busy \cup {Idle}]
        /\ worker'[w].pc = "await" /\ worker'[w].nonce = n
        /\ \A v \in Workers \ {w} : worker'[v] = worker[v]
    BY <1>1, <1>5, GotoEffect DEF At, OwningSteps
  <2>2. /\ provider' \in [Nonces -> [calls: Nat, applied: Nat, closed: BOOLEAN]]
        /\ provider'[n].calls = 1 /\ provider'[n].applied = 0
        /\ provider'[n].closed = provider[n].closed
        /\ \A m \in Nonces \ {n} : provider'[m] = provider[m]
    BY <1>2, <1>5 DEF ExecTypeOK, Undispatched
  <2>3. ExecTypeOK'
    BY <1>1, <1>3, <2>1, <2>2 DEF ExecTypeOK
  <2>4. \A v \in Workers, m \in Nonces : Owns(v, m)' =>
           Owns(v, m) /\ (worker'[v].pc \in EarlySteps => m # n /\ worker'[v] = worker[v])
    BY <1>2, <2>1 DEF Owns, EarlySteps, WorkerOwnsReservation, OwningSteps
  <2>5. RowsMatchGrants' /\ WorkerOwnsReservation'
    BY <1>3, <2>4 DEF RowsMatchGrants, WorkerOwnsReservation, Keeps
  <2>6. NothingBeforeDispatch'
    BY <1>2, <1>3, <2>2, <2>4 DEF NothingBeforeDispatch, Undispatched, EarlySteps
  <2>7. CalledAtMostOnce' /\ ClosedMeansUnapplied'
    BY <1>2, <2>2 DEF CalledAtMostOnce, ClosedMeansUnapplied, Applied, Undispatched
  <2>8. ConfirmMeansApplied'
    <3>1. \A m \in Nonces : Applied(m) => provider'[m].applied > 0
      BY <1>2, <2>2 DEF Applied, Undispatched
    <3>2. \A v \in Workers : At(v, "confirm")' => v # w /\ At(v, "confirm") /\ worker'[v] = worker[v]
      BY <2>1 DEF At
    <3>3. \A v \in Workers : At(v, "confirm") => worker[v].nonce \in Nonces
      BY WorkerNonce DEF At
    <3> QED
      BY <3>1, <3>2, <3>3 DEF ConfirmMeansApplied, Applied
  <2>9. ReviewsAreCurrent'
    <3> SUFFICES ASSUME NEW r \in Reviewers, reviewer[r].pc # "idle"
                 PROVE  LET i == reviewer[r].nonce IN
                        /\ Present(i)'
                        /\ reviewer[r].fenced \/ FenceFirst => Unowned(i)'
                        /\ reviewer[r].pc = "apply" =>
                              \/ reviewer[r].verdict = "succeeded" /\ Applied(i)'
                              \/ /\ reviewer[r].verdict = "not_dispatched"
                                 /\ Foreclosing => provider'[i].closed
                                 /\ FenceFirst /\ ~provider'[i].closed => Undispatched(i)'
      BY <1>1 DEF ReviewsAreCurrent, ReviewIsCurrent
    <3> DEFINE i == reviewer[r].nonce
    <3>1. i \in Nonces
      BY ReviewerNonce
    <3>2. /\ Present(i)
          /\ reviewer[r].fenced \/ FenceFirst => Unowned(i)
          /\ reviewer[r].pc = "apply" =>
                \/ reviewer[r].verdict = "succeeded" /\ Applied(i)
                \/ /\ reviewer[r].verdict = "not_dispatched"
                   /\ Foreclosing => provider[i].closed
                   /\ FenceFirst /\ ~provider[i].closed => Undispatched(i)
      BY DEF ReviewsAreCurrent, ReviewIsCurrent
    <3>3. Unowned(i) => i # n /\ Unowned(i)'
      BY <1>1, <1>2, <2>4, <3>1 DEF Unowned
    <3>4. Applied(i) => Applied(i)'
      BY <1>1, <1>2, <2>2, <3>1 DEF Applied, Undispatched
    <3> QED
      BY <1>1, <1>3, <2>2, <3>1, <3>2, <3>3, <3>4 DEF Undispatched
  <2>10. SucceededMeansApplied'
    BY <1>2, <1>3, <2>2 DEF SucceededMeansApplied, Applied
  <2>11. FinalReceipts => NotDispatchedMeansNoEffect'
    BY <1>2, <1>3, <2>2 DEF NotDispatchedMeansNoEffect, Applied, InFlight
  <2> QED
    BY <2>3, <2>5, <2>6, <2>7, <2>8, <2>9, <2>10, <2>11 DEF FinalReceipts
<1> QED
  BY <1>4, <1>5 DEF Dispatch

\* A call in flight is applied once, or lost.
LEMMA ProviderStep ==
    ASSUME ExecInv, NEW n \in Nonces, Apply(n) \/ Lose(n)
    PROVE  ExecInv'
<1> USE DEF ExecInv
<1>1. /\ UNCHANGED <<ledgerVars, grants, worker, reviewer>>
      /\ provider[n].calls > 0
  BY DEF Apply, Lose
<1>2. /\ provider' \in [Nonces -> [calls: Nat, applied: Nat, closed: BOOLEAN]]
      /\ provider'[n].closed = provider[n].closed
      /\ provider'[n].calls = 0 /\ provider[n].calls = 1 /\ provider[n].applied = 0
      /\ provider'[n].applied = 0 \/ (provider'[n].applied = 1 /\ ~provider[n].closed)
      /\ \A m \in Nonces \ {n} : provider'[m] = provider[m]
  <2>1. provider[n] \in [calls: Nat, applied: Nat, closed: BOOLEAN]
    BY DEF ExecTypeOK
  <2>2. provider[n].calls = 1 /\ provider[n].applied = 0
    BY <1>1, <2>1 DEF CalledAtMostOnce
  <2>3. CASE Apply(n)
    BY <2>1, <2>2, <2>3 DEF Apply, ExecTypeOK
  <2>4. CASE Lose(n)
    BY <2>1, <2>2, <2>4 DEF Lose, ExecTypeOK
  <2> QED
    BY <2>3, <2>4
<1>3. /\ \A m \in Nonces : (Present(m)' <=> Present(m)) /\ Status(m)' = Status(m)
      /\ \A m \in Nonces, w \in Workers : Owns(w, m)' <=> Owns(w, m)
  BY <1>1 DEF ledgerVars, Status, Present, Owns
<1>4. ExecTypeOK'
  BY <1>1, <1>2 DEF ExecTypeOK, TypeOK, ledgerVars
<1>5. RowsMatchGrants' /\ WorkerOwnsReservation'
  BY <1>1, <1>3 DEF RowsMatchGrants, WorkerOwnsReservation, ledgerVars
<1>6. Present(n) /\ \A w \in Workers : ~(Owns(w, n) /\ worker[w].pc \in EarlySteps)
  BY <1>1, <1>2 DEF NothingBeforeDispatch, Undispatched, EarlySteps
<1>7. NothingBeforeDispatch'
  BY <1>1, <1>2, <1>3, <1>6 DEF NothingBeforeDispatch, Undispatched, EarlySteps
<1>8. CalledAtMostOnce' /\ ClosedMeansUnapplied'
  BY <1>2 DEF CalledAtMostOnce, ClosedMeansUnapplied, Applied
<1>9. \A m \in Nonces : /\ Applied(m) => m # n /\ provider'[m].applied > 0
                        /\ Undispatched(m) => m # n /\ provider'[m] = provider[m]
                        /\ provider'[m].closed = provider[m].closed
  BY <1>2 DEF Applied, Undispatched
<1>10. ConfirmMeansApplied'
  <2>1. \A w \in Workers : At(w, "confirm") => worker[w].nonce \in Nonces
    BY WorkerNonce DEF At
  <2> QED
    BY <1>1, <1>9, <2>1 DEF ConfirmMeansApplied, Applied, At
<1>11. ReviewsAreCurrent'
  <2>1. \A r \in Reviewers : reviewer[r].pc # "idle" => reviewer[r].nonce \in Nonces
    BY ReviewerNonce
  <2>2. \A m \in Nonces : Unowned(m)' <=> Unowned(m)
    BY <1>3 DEF Unowned
  <2>3. \A m \in Nonces : (Applied(m) => Applied(m)') /\ (Undispatched(m) => Undispatched(m)')
    BY <1>9 DEF Applied, Undispatched
  <2> QED
    BY <1>1, <1>3, <1>9, <2>1, <2>2, <2>3 DEF ReviewsAreCurrent, ReviewIsCurrent
<1>12. SucceededMeansApplied'
  BY <1>3, <1>9 DEF SucceededMeansApplied, Applied
<1>13. FinalReceipts => NotDispatchedMeansNoEffect'
  BY <1>2, <1>3 DEF NotDispatchedMeansNoEffect, Applied, InFlight
<1> QED
  BY <1>4, <1>5, <1>7, <1>8, <1>10, <1>11, <1>12, <1>13 DEF FinalReceipts

\* What a reviewer learns is recorded in its own state; only the foreclosure
\* reaches the provider.
LEMMA ReceiptStep ==
    ASSUME ExecInv, NEW r \in Reviewers, Receipt(r)
    PROVE  ExecInv'
<1> USE DEF ExecInv
<1> DEFINE n == reviewer[r].nonce
<1>1. reviewer[r].pc = "receipt" /\ UNCHANGED <<ledgerVars, grants, worker>>
  BY DEF Receipt
<1>2. /\ reviewer[r] \in Reviewing /\ n \in Nonces
      /\ provider[n] \in [calls: Nat, applied: Nat, closed: BOOLEAN]
  BY <1>1, ReviewerNonce DEF ExecTypeOK
<1>3. /\ provider' \in [Nonces -> [calls: Nat, applied: Nat, closed: BOOLEAN]]
      /\ \A m \in Nonces : /\ provider'[m].calls = provider[m].calls
                           /\ provider'[m].applied = provider[m].applied
                           /\ provider[m].closed => provider'[m].closed
                           /\ provider'[m].closed => provider[m].closed \/ provider[m].applied = 0
  <2>1. CASE UNCHANGED provider
    BY <2>1 DEF ExecTypeOK
  <2>2. CASE provider[n].applied = 0
             /\ provider' = [provider EXCEPT ![n].closed = @ \/ Foreclosing]
    <3> DEFINE rec == [provider[n] EXCEPT !.closed = provider[n].closed \/ Foreclosing]
    <3>1. provider' = [provider EXCEPT ![n] = rec]
      BY <2>2
    <3>2. /\ rec \in [calls: Nat, applied: Nat, closed: BOOLEAN]
          /\ rec.calls = provider[n].calls /\ rec.applied = provider[n].applied
          /\ provider[n].closed => rec.closed
      BY <1>2, ExecutorConstants
    <3> HIDE DEF rec
    <3> QED
      BY <1>2, <2>2, <3>1, <3>2 DEF ExecTypeOK
  <2> QED
    BY <2>1, <2>2 DEF Receipt, Verdict
<1>4. /\ reviewer' \in [Reviewers -> Reviewing \cup {Idle}]
      /\ \A q \in Reviewers \ {r} : reviewer'[q] = reviewer[q]
      /\ \/ reviewer'[r].pc = "idle"
         \/ /\ reviewer'[r].pc = "apply" /\ reviewer'[r].nonce = n
            /\ reviewer'[r].fenced = reviewer[r].fenced
            /\ \/ reviewer'[r].verdict = "succeeded" /\ provider[n].applied > 0
               \/ /\ reviewer'[r].verdict = "not_dispatched" /\ provider[n].applied = 0
                  /\ provider' = [provider EXCEPT ![n].closed = @ \/ Foreclosing]
                  /\ Foreclosing \/ provider[n].calls = 0
  <2>1. CASE reviewer' = [reviewer EXCEPT ![r] = Idle]
    BY <2>1 DEF ExecTypeOK, Idle
  <2>2. ASSUME NEW v \in {"succeeded", "not_dispatched"}, NEW result \in BOOLEAN,
               Verdict(n, v, result),
               reviewer' = [reviewer EXCEPT ![r].pc = "apply", ![r].verdict = v,
                                            ![r].result = result]
        PROVE  /\ reviewer' \in [Reviewers -> Reviewing \cup {Idle}]
               /\ \A q \in Reviewers \ {r} : reviewer'[q] = reviewer[q]
               /\ reviewer'[r].pc = "apply" /\ reviewer'[r].nonce = n
               /\ reviewer'[r].fenced = reviewer[r].fenced
               /\ reviewer'[r].verdict = v
    <3> DEFINE rec == [reviewer[r] EXCEPT !.pc = "apply", !.verdict = v, !.result = result]
    <3>1. reviewer' = [reviewer EXCEPT ![r] = rec]
      BY <2>2
    <3>2. /\ rec \in Reviewing /\ rec.pc = "apply" /\ rec.nonce = n
          /\ rec.fenced = reviewer[r].fenced /\ rec.verdict = v
      BY <1>2 DEF Reviewing
    <3> HIDE DEF rec
    <3> QED
      BY <3>1, <3>2 DEF ExecTypeOK
  <2> QED
    BY <2>1, <2>2 DEF Receipt, Verdict
<1>5. ExecTypeOK'
  BY <1>1, <1>3, <1>4 DEF ExecTypeOK, TypeOK, ledgerVars
<1>6. /\ \A m \in Nonces : (Present(m)' <=> Present(m)) /\ Status(m)' = Status(m)
      /\ \A m \in Nonces, w \in Workers : Owns(w, m)' <=> Owns(w, m)
      /\ \A m \in Nonces : Unowned(m)' <=> Unowned(m)
  BY <1>1 DEF ledgerVars, Status, Present, Owns, Unowned
<1>7. \A m \in Nonces : /\ Applied(m)' <=> Applied(m)
                        /\ InFlight(m)' <=> InFlight(m)
                        /\ Undispatched(m)' <=> Undispatched(m)
                        /\ provider'[m].closed => provider[m].closed \/ ~Applied(m)
  BY <1>3 DEF Applied, InFlight, Undispatched, ExecTypeOK
<1>8. /\ RowsMatchGrants' /\ WorkerOwnsReservation' /\ NothingBeforeDispatch'
      /\ CalledAtMostOnce' /\ ClosedMeansUnapplied' /\ ConfirmMeansApplied'
  <2>1. RowsMatchGrants' /\ WorkerOwnsReservation'
    BY <1>1, <1>6 DEF RowsMatchGrants, WorkerOwnsReservation, ledgerVars
  <2>2. NothingBeforeDispatch'
    BY <1>1, <1>6, <1>7 DEF NothingBeforeDispatch
  <2>3. CalledAtMostOnce'
    BY <1>3 DEF CalledAtMostOnce
  <2>4. ClosedMeansUnapplied'
    BY <1>7 DEF ClosedMeansUnapplied
  <2>5. \A w \in Workers : At(w, "confirm") => worker[w].nonce \in Nonces
    BY WorkerNonce DEF At
  <2>6. ConfirmMeansApplied'
    BY <1>1, <1>7, <2>5 DEF ConfirmMeansApplied, At, Applied
  <2> QED
    BY <2>1, <2>2, <2>3, <2>4, <2>6
<1>10. ReviewsAreCurrent'
  <2>1. ASSUME NEW q \in Reviewers, q # r, reviewer'[q].pc # "idle"
        PROVE  ReviewIsCurrent(q)'
    <3>1. reviewer'[q] = reviewer[q] /\ reviewer[q].nonce \in Nonces /\ ReviewIsCurrent(q)
      BY <1>4, <2>1, ReviewerNonce DEF ReviewsAreCurrent
    <3>2. provider[reviewer[q].nonce].closed => provider'[reviewer[q].nonce].closed
      BY <1>3, <3>1
    <3> QED
      BY <1>6, <1>7, <3>1, <3>2 DEF ReviewIsCurrent
  <2>2. Present(n) /\ (reviewer[r].fenced \/ FenceFirst => Unowned(n))
    BY <1>1 DEF ReviewsAreCurrent, ReviewIsCurrent
  <2>3. ASSUME reviewer'[r].pc # "idle", reviewer'[r].verdict # "succeeded"
        PROVE  /\ Foreclosing => provider'[n].closed
               /\ ~provider'[n].closed => provider'[n].calls = 0 /\ provider'[n].applied = 0
    BY <1>2, <1>3, <1>4, <2>3, ExecutorConstants DEF ExecTypeOK
  <2>4. ASSUME reviewer'[r].pc # "idle"
        PROVE  ReviewIsCurrent(r)'
    <3>1. /\ reviewer'[r].pc = "apply" /\ reviewer'[r].nonce = n
          /\ reviewer'[r].fenced = reviewer[r].fenced
      BY <1>4, <2>4
    <3>2. Present(n)' /\ (reviewer'[r].fenced \/ FenceFirst => Unowned(n)')
      BY <1>2, <1>6, <2>2, <3>1
    <3>3. CASE reviewer'[r].verdict = "succeeded"
      <4>1. provider'[n].applied > 0
        BY <1>2, <1>3, <1>4, <2>4, <3>3
      <4> QED
        BY <3>1, <3>2, <3>3, <4>1 DEF ReviewIsCurrent, Applied, Present, Status, Unowned, Owns
    <3>4. CASE reviewer'[r].verdict # "succeeded"
      <4>1. reviewer'[r].verdict = "not_dispatched"
        BY <1>4, <2>4, <3>4
      <4> QED
        BY <2>3, <2>4, <3>1, <3>2, <3>4, <4>1
           DEF ReviewIsCurrent, Undispatched, Present, Status, Unowned, Owns
    <3> QED
      BY <3>3, <3>4
  <2> QED
    BY <2>1, <2>4 DEF ReviewsAreCurrent
<1>11. SucceededMeansApplied'
  BY <1>6, <1>7 DEF SucceededMeansApplied
<1>12. FinalReceipts => NotDispatchedMeansNoEffect'
  BY <1>3, <1>6, <1>7 DEF NotDispatchedMeansNoEffect
<1> QED
  BY <1>5, <1>8, <1>10, <1>11, <1>12 DEF FinalReceipts

\* A reviewer starts a call on a row that exists; it learns nothing yet.
LEMMA LookupStep ==
    ASSUME ExecInv, NEW r \in Reviewers, NEW n \in Nonces, NEW fenced \in BOOLEAN,
           Lookup(r, n, fenced)
    PROVE  ExecInv'
<1> USE DEF ExecInv
<1>1. UNCHANGED <<ledgerVars, grants, worker, provider>> /\ Present(n)
  BY DEF Lookup
<1>2. /\ reviewer' \in [Reviewers -> Reviewing \cup {Idle}]
      /\ \A q \in Reviewers \ {r} : reviewer'[q] = reviewer[q]
      /\ reviewer'[r].pc = "receipt" /\ reviewer'[r].nonce = n /\ reviewer'[r].fenced = fenced
  BY DEF Lookup, ExecTypeOK, Reviewing
<1>3. fenced \/ FenceFirst => Unowned(n)
  BY DEF Lookup, WorkerOwnsReservation, Unowned
<1>4. ExecTypeOK'
  BY <1>1, <1>2 DEF ExecTypeOK, TypeOK, ledgerVars
<1>5. /\ RowsMatchGrants' /\ WorkerOwnsReservation' /\ NothingBeforeDispatch'
      /\ CalledAtMostOnce' /\ ClosedMeansUnapplied' /\ ConfirmMeansApplied'
      /\ SucceededMeansApplied' /\ (FinalReceipts => NotDispatchedMeansNoEffect')
  BY <1>1 DEF RowsMatchGrants, WorkerOwnsReservation, NothingBeforeDispatch, CalledAtMostOnce,
              ClosedMeansUnapplied, ConfirmMeansApplied, SucceededMeansApplied,
              NotDispatchedMeansNoEffect, Applied, InFlight, Undispatched, Present, Status,
              Owns, At, ledgerVars
<1>6. \A q \in Reviewers \ {r} : reviewer'[q].pc # "idle" => ReviewIsCurrent(q)'
  BY <1>1, <1>2 DEF ReviewsAreCurrent, ReviewIsCurrent, Applied, Undispatched, Unowned, Owns,
                    Present, Status, ledgerVars
<1>7. ReviewIsCurrent(r)'
  BY <1>1, <1>2, <1>3 DEF ReviewIsCurrent, Unowned, Owns, Present, Status, ledgerVars
<1> QED
  BY <1>4, <1>5, <1>6, <1>7 DEF ReviewsAreCurrent, FinalReceipts

\* A reviewer's verdict reaches the ledger: ReviewsAreCurrent says that it is
\* still true of the provider and that no worker owns the row it settles.
LEMMA ResolveStep ==
    ASSUME ExecInv, NEW r \in Reviewers, Resolve(r)
    PROVE  ExecInv'
<1> USE DEF ExecInv
<1>1. reviewer[r].pc = "apply" /\ UNCHANGED <<grants, worker, provider>>
  BY DEF Resolve
<1>2. reviewer[r] \in Reviewing /\ reviewer[r].nonce \in Nonces /\ ReviewIsCurrent(r)
  BY <1>1, ReviewerNonce DEF ReviewsAreCurrent
<1>a. PICK call \in Reviewing : call = reviewer[r]
  BY <1>2
<1>b. PICK n \in Nonces : n = call.nonce
  BY <1>2, <1>a
<1>c. call.fenced \in BOOLEAN /\ call.result \in BOOLEAN
  BY DEF Reviewing
<1>3. /\ reviewer' \in [Reviewers -> Reviewing \cup {Idle}]
      /\ \A q \in Reviewers : reviewer'[q].pc # "idle" => q # r /\ reviewer'[q] = reviewer[q]
  BY DEF Resolve, ExecTypeOK, Idle
<1>4. /\ call.verdict \in {"succeeded", "not_dispatched"}
      /\ call.verdict = "succeeded" => Applied(n)
      /\ call.verdict = "not_dispatched" /\ FinalReceipts =>
            provider[n].closed \/ Undispatched(n)
  BY <1>1, <1>2, <1>a, <1>b DEF ReviewIsCurrent, FinalReceipts
<1>5. [LedgerNext]_ledgerVars
  <2>1. ExecNext
    BY DEF ExecNext, ReviewerStep
  <2> QED
    BY <2>1, ExecStepIsLedgerStep
<1>6. TypeOK'
  BY <1>5, TypeStep DEF ExecTypeOK
<1>7. ExecTypeOK'
  BY <1>1, <1>3, <1>6 DEF ExecTypeOK
<1>8. /\ \A m \in Nonces \ {n} : Keeps(m)
      /\ \/ Keeps(n)
         \/ /\ Becomes(n, call.verdict)
            /\ Status(n) = "unknown" \/ (Status(n) = "pending" /\ call.fenced)
  <2>1. CASE UNCHANGED ledgerVars
    BY <2>1 DEF ledgerVars, Keeps, Status
  <2>2. CASE reconcile(n, call.verdict, call.result,
                       IF call.verdict = "succeeded" THEN "accepted_for_agent"
                                                     ELSE "review_required", call.fenced)
    <3>1. /\ call.verdict \in Statuses
          /\ (IF call.verdict = "succeeded" THEN "accepted_for_agent" ELSE "review_required")
                \in Dispositions
      BY <1>4 DEF Statuses, Dispositions
    <3> QED
      BY <1>c, <2>2, <3>1, ReconcileEffect DEF ExecTypeOK
  <2> QED
    BY <1>a, <1>b, <2>1, <2>2 DEF Resolve
<1>9. Becomes(n, call.verdict) /\ ~Keeps(n) => Present(n) /\ Unowned(n)
  BY <1>2, <1>8, <1>a, <1>b DEF ReviewIsCurrent, WorkerOwnsReservation, Unowned
<1>10. \A m \in Nonces : Present(m)' <=> Present(m)
  BY <1>4, <1>8, <1>9 DEF Keeps, Becomes, Present
<1>11. RowsMatchGrants'
  BY <1>2, <1>8, <1>9, <1>10 DEF RowsMatchGrants, Keeps, Becomes
<1>12. \A w \in Workers, m \in Nonces : Owns(w, m)' => Owns(w, m) /\ Keeps(m)
  BY <1>1, <1>2, <1>8, <1>9 DEF Owns, Unowned
<1>13. WorkerOwnsReservation'
  BY <1>12 DEF WorkerOwnsReservation, Keeps
<1>14. /\ NothingBeforeDispatch' /\ CalledAtMostOnce'
       /\ ClosedMeansUnapplied' /\ ConfirmMeansApplied'
  BY <1>1, <1>10, <1>12 DEF NothingBeforeDispatch, Undispatched, CalledAtMostOnce,
                            ClosedMeansUnapplied, ConfirmMeansApplied, Applied, At, Owns
<1>15. ReviewsAreCurrent'
  <2> SUFFICES ASSUME NEW q \in Reviewers, reviewer'[q].pc # "idle"
               PROVE  ReviewIsCurrent(q)'
    BY DEF ReviewsAreCurrent
  <2>1. reviewer'[q] = reviewer[q] /\ reviewer[q].nonce \in Nonces /\ ReviewIsCurrent(q)
    BY <1>3, ReviewerNonce DEF ReviewsAreCurrent
  <2> QED
    BY <1>1, <1>10, <2>1 DEF ReviewIsCurrent, Unowned, Owns, Applied, Undispatched
<1>16. SucceededMeansApplied'
  BY <1>1, <1>2, <1>4, <1>8 DEF SucceededMeansApplied, Applied, Keeps, Becomes
<1>17. FinalReceipts => NotDispatchedMeansNoEffect'
  <2> SUFFICES ASSUME FinalReceipts, NEW m \in Nonces, Status(m)' = "not_dispatched"
               PROVE  ~Applied(m)' /\ (InFlight(m)' => provider'[m].closed)
    BY DEF NotDispatchedMeansNoEffect
  <2>1. CASE Keeps(m)
    BY <1>1, <2>1 DEF Keeps, NotDispatchedMeansNoEffect, Applied, InFlight
  <2>2. CASE ~Keeps(m)
    <3>1. m = n /\ call.verdict = "not_dispatched"
      BY <1>8, <2>2 DEF Becomes
    <3>2. provider[m].closed \/ Undispatched(m)
      BY <1>4, <3>1
    <3>3. provider[m].closed => ~Applied(m)
      BY DEF ClosedMeansUnapplied
    <3> QED
      BY <1>1, <3>2, <3>3 DEF Undispatched, Applied, InFlight
  <2> QED
    BY <2>1, <2>2
<1> QED
  BY <1>7, <1>11, <1>13, <1>14, <1>15, <1>16, <1>17 DEF FinalReceipts

\* The steps of execute() other than the call itself.
LEMMA WorkerStepKeepsInv ==
    ASSUME ExecInv, NEW w \in Workers,
           \/ \E n \in Nonces, k \in Keys : Submit(w, n, k)
           \/ WorkerStep(w)
           \/ Crash(w)
    PROVE  ExecInv'
<1> USE DEF ExecInv
<1>0. ExecNext
  BY DEF ExecNext
<1>1. TypeOK'
  BY <1>0, ExecStepIsLedgerStep, TypeStep DEF ExecTypeOK
<1>2. ASSUME UNCHANGED <<provider, reviewer>>, \A n \in Nonces : Keeps(n), UNCHANGED grants,
             worker' \in [Workers -> Busy \cup {Idle}],
             worker'[w].pc \in OwningSteps =>
                 /\ worker[w].pc \in OwningSteps /\ worker'[w].nonce = worker[w].nonce
                 /\ worker'[w].pc \in EarlySteps => worker[w].pc \in EarlySteps,
             worker'[w].pc = "confirm" => provider[worker'[w].nonce].applied > 0,
             \A v \in Workers \ {w} : worker'[v] = worker[v]
      PROVE  ExecInv'
  <2>1. \A v \in Workers, n \in Nonces : Owns(v, n)' =>
           Owns(v, n) /\ (worker'[v].pc \in EarlySteps => worker[v].pc \in EarlySteps)
    BY <1>2 DEF Owns
  <2>2. \A v \in Workers : At(v, "confirm")' => provider[worker'[v].nonce].applied > 0
    BY <1>2 DEF At, ConfirmMeansApplied, Applied
  <2>3. grants' \in [Nonces -> {"current", "revoked", "expired"}]
    BY <1>2 DEF ExecTypeOK
  <2> QED
    BY <1>1, <1>2, <2>1, <2>2, <2>3, QuietStep
<1>3. UNCHANGED ledgerVars => \A n \in Nonces : Keeps(n)
  BY DEF ledgerVars, Keeps, Status
<1>4. ASSUME NEW n \in Nonces, NEW k \in Keys, Submit(w, n, k)
      PROVE  ExecInv'
  <2>1. /\ worker' \in [Workers -> Busy \cup {Idle}] /\ worker'[w].pc = "validate"
        /\ \A v \in Workers \ {w} : worker'[v] = worker[v]
    BY <1>4 DEF Submit, ExecTypeOK, Busy
  <2> QED
    BY <1>2, <1>3, <1>4, <2>1 DEF Submit, OwningSteps
<1>5. CASE Crash(w)
  BY <1>2, <1>3, <1>5, ReturnEffect DEF Crash, OwningSteps
<1>6. CASE Validate(w)
  <2>1. CASE Goto(w, "reserve")
    BY <1>2, <1>3, <1>6, <2>1, GotoEffect DEF Validate, At, OwningSteps
  <2>2. CASE Return(w)
    BY <1>2, <1>3, <1>6, <2>2, ReturnEffect DEF Validate, OwningSteps
  <2> QED
    BY <1>6, <2>1, <2>2 DEF Validate, ValidateOnline
<1>7. CASE Reserve(w)
  <2>1. worker[w].nonce \in Nonces /\ worker[w].key \in Keys
    BY <1>7, WorkerNonce DEF Reserve, At
  <2>2. CASE Return(w)
    <3>1. \A n \in Nonces : Keeps(n)
      <4>1. worker'[w].pc = "idle"
        BY <2>2, ReturnEffect
      <4>2. ~Goto(w, "recheck")
        BY <1>7, <4>1, GotoEffect DEF Reserve, At, OwningSteps
      <4> QED
        BY <1>7, <2>1, <4>2, GrantTypes, ReplayEffect DEF Reserve, ExecTypeOK
    <3> QED
      BY <1>2, <1>7, <2>2, <3>1, ReturnEffect DEF Reserve, OwningSteps
  <2>3. CASE ~Return(w)
    BY <1>1, <1>7, <2>1, <2>3, InsertedStep DEF Reserve
  <2> QED
    BY <2>2, <2>3
<1>8. CASE Recheck(w)
  <2>1. PICK step \in {"dispatch", "cancel"} : Goto(w, step)
    BY <1>8 DEF Recheck, ValidateOnline
  <2>2. step \in OwningSteps /\ step # "confirm"
    BY DEF OwningSteps
  <2>3. worker[w].pc = "recheck" /\ UNCHANGED <<ledgerVars, grants, provider, reviewer>>
    BY <1>8 DEF Recheck, At
  <2> QED
    BY <1>2, <1>3, <2>1, <2>2, <2>3, GotoEffect DEF At, OwningSteps, EarlySteps
<1>9. CASE Await(w)
  <2>1. PICK step \in {"confirm", "doubt"} :
           Goto(w, step) /\ (step = "confirm" => provider[worker[w].nonce].applied > 0)
    BY <1>9 DEF Await
  <2>2. worker[w].pc = "await" /\ UNCHANGED <<ledgerVars, grants, provider, reviewer>>
    BY <1>9 DEF Await, At
  <2> QED
    BY <1>2, <1>3, <2>1, <2>2, GotoEffect DEF At, OwningSteps, EarlySteps
<1>10. CASE Dispatch(w)
  BY <1>10, DispatchedStep
<1>11. CASE Cancel(w) \/ Confirm(w) \/ Doubt(w)
  <2>0. PICK n \in Nonces : n = worker[w].nonce
    BY <1>11, WorkerNonce DEF Cancel, Confirm, Doubt, At
  <2>1. Owns(w, n) /\ Status(n) = "pending"
    BY <1>11, <2>0 DEF Cancel, Confirm, Doubt, At, Owns, OwningSteps, WorkerOwnsReservation
  <2>2. /\ {"not_dispatched", "succeeded", "unknown"} \subseteq Statuses
        /\ {"review_required", "accepted_for_agent"} \subseteq Dispositions
    BY DEF Statuses, Dispositions
  <2>3. CASE Cancel(w)
    <3>1. Undispatched(n)
      BY <2>1, <2>3 DEF Cancel, At, NothingBeforeDispatch
    <3>2. Becomes(n, "not_dispatched") /\ \A m \in Nonces \ {n} : Keeps(m)
      BY <2>0, <2>1, <2>2, <2>3, FinishEffect DEF Cancel, ExecTypeOK
    <3> QED
      BY <1>1, <2>1, <2>3, <3>1, <3>2, FinishStep DEF Cancel
  <2>4. CASE Confirm(w)
    <3>1. Applied(n)
      BY <2>0, <2>4 DEF Confirm, ConfirmMeansApplied
    <3>2. Becomes(n, "succeeded") /\ \A m \in Nonces \ {n} : Keeps(m)
      BY <2>0, <2>1, <2>2, <2>4, FinishEffect DEF Confirm, ExecTypeOK
    <3> QED
      BY <1>1, <2>1, <2>4, <3>1, <3>2, FinishStep DEF Confirm
  <2>5. CASE Doubt(w)
    <3>1. Becomes(n, "unknown") /\ \A m \in Nonces \ {n} : Keeps(m)
      BY <2>0, <2>1, <2>2, <2>5, FinishEffect DEF Doubt, ExecTypeOK
    <3> QED
      BY <1>1, <2>1, <2>5, <3>1, FinishStep DEF Doubt
  <2> QED
    BY <1>11, <2>3, <2>4, <2>5
<1> QED
  BY <1>4, <1>5, <1>6, <1>7, <1>8, <1>9, <1>10, <1>11 DEF WorkerStep

\* The issuer changes its mind about a grant: nothing the invariant speaks of.
LEMMA InvalidateStep ==
    ASSUME ExecInv, NEW n \in Nonces, Invalidate(n)
    PROVE  ExecInv'
<1> USE DEF ExecInv
<1>1. UNCHANGED <<ledgerVars, worker, provider, reviewer>>
  BY DEF Invalidate
<1>2. TypeOK' /\ \A m \in Nonces : Keeps(m)
  BY <1>1 DEF ExecTypeOK, TypeOK, ledgerVars, Keeps, Status
<1>3. /\ grants' \in [Nonces -> {"current", "revoked", "expired"}]
      /\ worker' \in [Workers -> Busy \cup {Idle}]
  BY <1>1 DEF Invalidate, ExecTypeOK
<1>4. /\ \A v \in Workers, m \in Nonces : Owns(v, m)' <=> Owns(v, m)
      /\ \A v \in Workers : At(v, "confirm")' => provider[worker'[v].nonce].applied > 0
  BY <1>1 DEF Owns, At, ConfirmMeansApplied, Applied
<1> QED
  BY <1>1, <1>2, <1>3, <1>4, QuietStep

-----------------------------------------------------------------------------
\* ExecInv is an invariant of the executor.
THEOREM ExecInvariant == ExecSpec => []ExecInv
<1>1. ExecInit => ExecInv
  <2> SUFFICES ASSUME ExecInit PROVE ExecInv
    OBVIOUS
  <2>1. ExecTypeOK
    BY DEF ExecInit, LedgerInit, ExecTypeOK, TypeOK
  <2>2. /\ \A n \in Nonces : ~Present(n) /\ Status(n) = "absent" /\ Undispatched(n)
        /\ \A w \in Workers : worker[w].pc = "idle"
        /\ \A r \in Reviewers : reviewer[r].pc = "idle"
    BY DEF ExecInit, LedgerInit, Present, Status, NoRow, Idle, Undispatched
  <2>3. \A n \in Nonces : ~provider[n].closed
    BY DEF ExecInit
  <2> QED
    BY <2>1, <2>2, <2>3
       DEF ExecInv, RowsMatchGrants, WorkerOwnsReservation, NothingBeforeDispatch,
           CalledAtMostOnce, ClosedMeansUnapplied, ConfirmMeansApplied, ReviewsAreCurrent,
           SucceededMeansApplied, NotDispatchedMeansNoEffect, Undispatched, Owns, OwningSteps, At
<1>2. ExecInv /\ [ExecNext]_execVars => ExecInv'
  <2> SUFFICES ASSUME ExecInv, [ExecNext]_execVars PROVE ExecInv'
    OBVIOUS
  <2>1. CASE UNCHANGED execVars
    BY <2>1 DEF execVars, ExecInv, ExecTypeOK, TypeOK, RowsMatchGrants, WorkerOwnsReservation,
                NothingBeforeDispatch, CalledAtMostOnce, ClosedMeansUnapplied,
                ConfirmMeansApplied, ReviewsAreCurrent, ReviewIsCurrent, SucceededMeansApplied,
                FinalReceipts, NotDispatchedMeansNoEffect, Undispatched, Applied, InFlight,
                Unowned, Owns, At, Present, Status
  <2> QED
    BY <2>1, WorkerStepKeepsInv, InvalidateStep, ProviderStep, LookupStep, ReceiptStep, ResolveStep
       DEF ExecNext, ReviewerStep
<1> QED
  BY <1>1, <1>2, PTL DEF ExecSpec

\* The executor is a client of the ledger: every behaviour of the executor is a
\* behaviour of LedgerSpec.
THEOREM ExecutorUsesLedger == ExecSpec => LedgerSpec
<1>1. ExecInit => LedgerInit
  BY DEF ExecInit
<1>2. ExecInv /\ [ExecNext]_execVars => [LedgerNext]_ledgerVars
  BY ExecStepIsLedgerStep
<1> QED
  BY <1>1, <1>2, ExecInvariant, PTL DEF ExecSpec, LedgerSpec

\* A worker keeps exclusive ownership of the row it reserved, for any number of
\* workers and reviewers.
THEOREM OwnershipHolds == ExecSpec => []WorkerOwnsReservation
  BY ExecInvariant, PTL DEF ExecInv

\* No reservation reaches the provider twice.
THEOREM CalledOnce == ExecSpec => []CalledAtMostOnce
  BY ExecInvariant, PTL DEF ExecInv

\* With final receipts, what the ledger calls not dispatched never happens.
THEOREM NotDispatchedIsTrue ==
    ASSUME FinalReceipts
    PROVE  ExecSpec => []NotDispatchedMeansNoEffect
<1>1. ExecInv => NotDispatchedMeansNoEffect
  BY DEF ExecInv
<1> QED
  BY <1>1, ExecInvariant, PTL

\* With final receipts, a non-repeatable effect happens at most once in its task.
THEOREM AppliedOnce ==
    ASSUME FinalReceipts
    PROVE  ExecSpec => []EffectAppliedOnce
<1>1. ExecInv /\ EffectReservedOnce => EffectAppliedOnce
  <2> SUFFICES ASSUME ExecInv, EffectReservedOnce,
                      NEW m \in Nonces, NEW n \in Nonces, Applied(m), Applied(n),
                      TaskOf[GrantScope[m]] = TaskOf[GrantScope[n]],
                      EffectOf[GrantDigest[m]] = EffectOf[GrantDigest[n]],
                      EffectOf[GrantDigest[n]] \notin Repeatable
               PROVE  m = n
    BY DEF EffectAppliedOnce
  <2>1. \A i \in Nonces : Applied(i) => Live(i)
    BY DEF ExecInv, NothingBeforeDispatch, Undispatched, NotDispatchedMeansNoEffect, Applied, Live
  <2>2. \A i \in Nonces : Live(i) => /\ executions[i].scope = GrantScope[i]
                                     /\ EffectAt(i) = EffectOf[GrantDigest[i]]
    BY DEF ExecInv, RowsMatchGrants, Live, EffectAt
  <2> QED
    BY <2>1, <2>2 DEF EffectReservedOnce
<1> QED
  BY <1>1, ExecInvariant, ExecutorUsesLedger, ReservedOnce, PTL

\* With final receipts, what the provider really did, late effects included,
\* stays within every task's budget: an applied effect belongs to a live row that
\* carries the grant's amount.
THEOREM RealSpendBounded ==
    ASSUME FinalReceipts
    PROVE  ExecSpec => []RealSpendWithinBudget
<1>1. ExecInv /\ SpentWithinBudget => RealSpendWithinBudget
  <2> SUFFICES ASSUME ExecInv, SpentWithinBudget, NEW t \in Tasks, Limit[t] # NoLimit
               PROVE  Total([n \in {m \in Nonces : Applied(m) /\ TaskOf[GrantScope[m]] = t}
                             |-> AmountOf[EffectOf[GrantDigest[n]]]]) <= Limit[t]
    BY DEF RealSpendWithinBudget
  <2>1. PICK S, w : S = LiveIn(t) /\ w = Costs(t)
    OBVIOUS
  <2>2. PICK R, v : /\ R = {m \in Nonces : Applied(m) /\ TaskOf[GrantScope[m]] = t}
                    /\ v = [n \in R |-> AmountOf[EffectOf[GrantDigest[n]]]]
    OBVIOUS
  <2>3. \A i \in Nonces : Applied(i) => Live(i)
    BY DEF ExecInv, NothingBeforeDispatch, Undispatched, NotDispatchedMeansNoEffect, Applied, Live
  <2>4. \A i \in Nonces : Live(i) => /\ executions[i].scope = GrantScope[i] /\ Present(i)
                                     /\ EffectAt(i) = EffectOf[GrantDigest[i]]
    BY DEF ExecInv, RowsMatchGrants, Live, EffectAt
  <2>5. R \subseteq S
    BY <2>1, <2>2, <2>3, <2>4 DEF LiveIn, InTask
  <2>6. IsFiniteSet(S) /\ w \in [S -> Nat] /\ Spent(t) = Total(w)
    BY <2>1, CostsAre DEF ExecInv, ExecTypeOK
  <2>7. \A n \in R : v[n] = w[n]
    <3>1. \A n \in S : n \in Nonces /\ Live(n) /\ w[n] = AmountOf[EffectAt(n)]
      BY <2>1 DEF LiveIn, Costs
    <3> QED BY <2>2, <2>4, <2>5, <3>1
  <2>8. v \in [R -> Nat]
    BY <2>2, <2>5, <2>6, <2>7
  <2>9. Total(v) <= Total(w) /\ Total(v) \in Nat /\ Total(w) \in Nat
    <3>1. IsFiniteSet(R)
      BY <2>5, <2>6, FS_Subset
    <3> QED BY <2>5, <2>6, <2>7, <2>8, <3>1, TotalPart, TotalType
  <2>10. Spent(t) <= Limit[t] /\ Limit[t] \in Nat
    BY LedgerConstants DEF SpentWithinBudget
  <2>11. Total(v) <= Limit[t]
    BY <2>6, <2>9, <2>10
  <2> QED BY <2>2, <2>11
<1> QED
  BY <1>1, ExecInvariant, ExecutorUsesLedger, BudgetHolds, PTL

\* With final receipts, a call that may still take effect holds its task: the
\* row it belongs to exists, is no success (the only call is still open) and
\* is not reported as undispatched.
LEMMA InFlightIsUncertain ==
    ASSUME ExecInv, FinalReceipts, NEW n \in Nonces, InFlight(n), ~provider[n].closed
    PROVE  Uncertain(n) /\ ~Applied(n)
<1> USE DEF ExecInv
<1>1. provider[n] \in [calls: Nat, applied: Nat, closed: BOOLEAN]
  BY DEF ExecTypeOK
<1>2. ~Applied(n)
  BY <1>1 DEF InFlight, Applied, CalledAtMostOnce
<1>3. Status(n) \notin {"succeeded", "not_dispatched"}
  BY <1>2 DEF SucceededMeansApplied, NotDispatchedMeansNoEffect
<1>4. Present(n)
  BY <1>1 DEF InFlight, NothingBeforeDispatch, Undispatched
<1>5. Status(n) \in Statuses
  BY <1>4, RowCases DEF ExecTypeOK, Row, Status
<1> QED
  BY <1>2, <1>3, <1>5 DEF Statuses, Uncertain

\* A possibly completed effect holds its task, also after its worker timed out
\* or died, for any number of workers, reviewers and grants.
THEOREM InFlightHolds ==
    ASSUME FinalReceipts
    PROVE  ExecSpec => []InFlightHoldsTask
<1>1. ExecInv => InFlightHoldsTask
  BY InFlightIsUncertain DEF InFlightHoldsTask
<1> QED
  BY <1>1, ExecInvariant, PTL

\* The check after the reservation is the only way to the dispatch step, and it
\* lets a current grant through only.
LEMMA InvalidGrantsStop ==
    ASSUME ExecTypeOK, ExecNext, NEW n \in Nonces, grants[n] # "current", NEW v \in Workers,
           worker'[v].pc = "dispatch", worker'[v].nonce = n
    PROVE  worker'[v] = worker[v]
<1>1. ASSUME NEW w \in Workers, NEW m \in Nonces, NEW k \in Keys, Submit(w, m, k)
      PROVE  worker'[v] = worker[v]
  BY <1>1 DEF Submit, ExecTypeOK
<1>2. ASSUME NEW w \in Workers, Return(w)
      PROVE  worker'[v] = worker[v]
  BY <1>2, ReturnEffect
<1>3. ASSUME NEW w \in Workers, NEW step \in OwningSteps \cup {"reserve"}, ~At(w, "idle"),
             Goto(w, step), step = "dispatch" => grants[worker[w].nonce] = "current"
      PROVE  worker'[v] = worker[v]
  <2>1. /\ worker'[w].pc = step /\ worker'[w].nonce = worker[w].nonce
        /\ \A u \in Workers \ {w} : worker'[u] = worker[u]
    BY <1>3, GotoEffect DEF OwningSteps
  <2> QED
    BY <1>3, <2>1
<1>4. ASSUME NEW w \in Workers, WorkerStep(w)
      PROVE  worker'[v] = worker[v]
  <2>1. CASE Validate(w)
    BY <1>2, <1>3, <2>1 DEF Validate, ValidateOnline, At
  <2>2. CASE Reserve(w)
    BY <1>2, <1>3, <2>2 DEF Reserve, At, OwningSteps
  <2>3. CASE Recheck(w)
    BY <1>3, <2>3 DEF Recheck, ValidateOnline, At, OwningSteps
  <2>4. CASE Dispatch(w)
    BY <1>3, <2>4 DEF Dispatch, At, OwningSteps
  <2>5. CASE Await(w)
    BY <1>3, <2>5 DEF Await, At, OwningSteps
  <2>6. CASE Cancel(w) \/ Confirm(w) \/ Doubt(w)
    BY <1>2, <2>6 DEF Cancel, Confirm, Doubt
  <2> QED
    BY <1>4, <2>1, <2>2, <2>3, <2>4, <2>5, <2>6 DEF WorkerStep
<1>5. ASSUME NEW w \in Workers, Crash(w)
      PROVE  worker'[v] = worker[v]
  BY <1>2, <1>5 DEF Crash
<1>6. ASSUME NEW m \in Nonces, Invalidate(m) \/ Apply(m) \/ Lose(m)
      PROVE  worker'[v] = worker[v]
  BY <1>6 DEF Invalidate, Apply, Lose
<1>7. ASSUME NEW r \in Reviewers,
             \/ \E m \in Nonces, fenced \in BOOLEAN : Lookup(r, m, fenced)
             \/ ReviewerStep(r)
      PROVE  worker'[v] = worker[v]
  BY <1>7 DEF Lookup, ReviewerStep, Receipt, Resolve
<1> QED
  BY <1>1, <1>4, <1>5, <1>6, <1>7 DEF ExecNext

\* A call arrives only from a worker at its dispatch step, an effect only from a call.
LEMMA WithdrawnIsStable ==
    ASSUME ExecInv, ExecNext, NEW n \in Nonces, Withdrawn(n)
    PROVE  Withdrawn(n)'
<1> USE DEF ExecInv
<1>1. grants'[n] # "current"
  <2>1. CASE UNCHANGED grants
    BY <2>1 DEF Withdrawn
  <2>2. ASSUME NEW m \in Nonces, Invalidate(m)
        PROVE  grants'[n] # "current"
    BY <2>2 DEF Withdrawn, Invalidate, ExecTypeOK
  <2> QED
    BY <2>1, <2>2 DEF ExecNext, Submit, WorkerStep, Validate, Reserve, Recheck, Cancel, Dispatch,
       Await, Confirm, Doubt, Crash, Apply, Lose, Lookup, ReviewerStep, Receipt, Resolve
<1>2. \A w \in Workers : worker'[w].pc = "dispatch" => worker'[w].nonce # n
  BY InvalidGrantsStop DEF Withdrawn, At
<1>3. ~InFlight(n)' /\ ~Applied(n)'
  <2> USE DEF InFlight, Applied
  <2>1. /\ provider[n] \in [calls: Nat, applied: Nat, closed: BOOLEAN]
        /\ provider \in [Nonces -> [calls: Nat, applied: Nat, closed: BOOLEAN]]
    BY DEF ExecTypeOK
  <2>2. CASE UNCHANGED provider
    BY <2>2 DEF Withdrawn
  <2>3. ASSUME NEW w \in Workers, Dispatch(w)
        PROVE  ~InFlight(n)' /\ ~Applied(n)'
    <3>1. worker[w].nonce \in Nonces /\ worker[w].nonce # n
      BY <2>3, WorkerNonce DEF Dispatch, At, Withdrawn
    <3> QED
      BY <2>1, <2>3, <3>1 DEF Dispatch, Withdrawn
  <2>4. ASSUME NEW m \in Nonces, Apply(m) \/ Lose(m)
        PROVE  ~InFlight(n)' /\ ~Applied(n)'
    <3>1. m # n
      BY <2>1, <2>4 DEF Apply, Lose, Withdrawn
    <3> QED
      BY <2>1, <2>4, <3>1 DEF Apply, Lose, Withdrawn
  <2>5. ASSUME NEW r \in Reviewers, Receipt(r)
        PROVE  ~InFlight(n)' /\ ~Applied(n)'
    <3>1. reviewer[r].nonce \in Nonces
      BY <2>5, ReviewerNonce DEF Receipt
    <3>2. CASE provider' = [provider EXCEPT ![reviewer[r].nonce].closed = @ \/ Foreclosing]
      BY <2>1, <3>1, <3>2 DEF Withdrawn
    <3> QED
      BY <2>2, <2>5, <3>2 DEF Receipt, Verdict
  <2> QED
    BY <2>2, <2>3, <2>4, <2>5 DEF ExecNext, Submit, WorkerStep, Validate, Reserve, Recheck, Cancel,
       Await, Confirm, Doubt, Crash, Invalidate, Lookup, ReviewerStep, Resolve
<1> QED
  BY <1>1, <1>2, <1>3 DEF Withdrawn, At

\* A grant withdrawn before its call left a worker never has an effect.
THEOREM WithdrawnGrantsAreInert == ExecSpec => WithdrawnGrantHasNoEffect
<1>1. ASSUME NEW n \in Nonces
      PROVE  ExecSpec => [](Withdrawn(n) => []~Applied(n))
  <2>1. ExecInv /\ [ExecNext]_execVars /\ Withdrawn(n) => Withdrawn(n)'
    <3>1. CASE ExecNext
      BY <3>1, WithdrawnIsStable
    <3>2. CASE UNCHANGED execVars
      BY <3>2 DEF execVars, Withdrawn, InFlight, Applied, At
    <3> QED
      BY <3>1, <3>2
  <2>2. Withdrawn(n) => ~Applied(n)
    BY DEF Withdrawn
  <2> QED
    BY <2>1, <2>2, ExecInvariant, PTL DEF ExecSpec
<1> QED
  BY <1>1 DEF WithdrawnGrantHasNoEffect

-----------------------------------------------------------------------------
(* The executor implements the contract about effects. *)

\* The mapping of the refinement, one name for each half.
PhaseOf(n) == CASE Status(n) = "absent" -> "idle"
                [] Status(n) \in {"pending", "unknown"} -> "open"
                [] Status(n) = "succeeded" -> "done"
                [] Status(n) = "not_dispatched" -> "void"

phaseMap == [n \in Nonces |-> PhaseOf(n)]
happenedMap == {n \in Nonces : Applied(n)}
taskMap == [n \in Nonces |-> TaskOf[GrantScope[n]]]
effectMap == [n \in Nonces |-> EffectOf[GrantDigest[n]]]

\* The actions of the contract, read through the mapping.
LEMMA ContractActions ==
    ASSUME NEW i \in Nonces
    PROVE  /\ /\ phaseMap[i] = "idle"
              /\ \A j \in Nonces : taskMap[j] = taskMap[i] => phaseMap[j] # "open"
              /\ effectMap[i] \notin Repeatable =>
                    \A j \in Nonces : taskMap[i] = taskMap[j] /\ effectMap[i] = effectMap[j]
                                      => phaseMap[j] # "done"
              /\ phaseMap' = [phaseMap EXCEPT ![i] = "open"]
              /\ happenedMap' = happenedMap
              => Contract!Open(i)
           /\ /\ phaseMap[i] = "open" /\ i \notin happenedMap
              /\ happenedMap' = happenedMap \cup {i}
              /\ phaseMap' = phaseMap
              => Contract!Happen(i)
           /\ /\ phaseMap[i] = "open"
              /\ phaseMap' = [phaseMap EXCEPT ![i] = IF i \in happenedMap THEN "done" ELSE "void"]
              /\ happenedMap' = happenedMap
              => Contract!Settle(i)
  BY DEF Contract!Open, Contract!Happen, Contract!Settle, Contract!SameEffect,
         phaseMap, happenedMap, taskMap, effectMap, PhaseOf

\* A row that keeps its status keeps its phase; the phase says what the status is.
LEMMA PhaseFacts ==
    ASSUME ExecTypeOK, NEW n \in Nonces
    PROVE  /\ Status(n) \in Statuses \cup {"absent"}
           /\ phaseMap[n] = "idle" <=> ~Present(n)
           /\ phaseMap[n] = "open" <=> Uncertain(n)
           /\ phaseMap[n] = "done" <=> Status(n) = "succeeded"
           /\ phaseMap[n] = "void" <=> Status(n) = "not_dispatched"
<1>1. Status(n) \in Statuses \cup {"absent"}
  BY RowCases DEF ExecTypeOK, Row, NoRow, Status
<1> QED
  BY <1>1 DEF phaseMap, PhaseOf, Statuses, Present, Uncertain

\* Only the provider's Apply makes an effect happen.
LEMMA AppliedOnlyByApply ==
    ASSUME ExecInv, ExecNext
    PROVE  \/ \E n \in Nonces : Apply(n)
           \/ \A n \in Nonces : Applied(n)' <=> Applied(n)
<1> USE DEF ExecInv, Applied
<1>1. \A n \in Nonces : provider[n] \in [calls: Nat, applied: Nat, closed: BOOLEAN]
  BY DEF ExecTypeOK
<1>2. provider \in [Nonces -> [calls: Nat, applied: Nat, closed: BOOLEAN]]
  BY DEF ExecTypeOK
<1>3. ASSUME NEW w \in Workers, Dispatch(w)
      PROVE  \A n \in Nonces : Applied(n)' <=> Applied(n)
  <2>1. worker[w].nonce \in Nonces
    BY <1>3, WorkerNonce DEF Dispatch, At
  <2> QED
    BY <1>1, <1>2, <1>3, <2>1 DEF Dispatch
<1>4. ASSUME NEW m \in Nonces, Lose(m)
      PROVE  \A n \in Nonces : Applied(n)' <=> Applied(n)
  BY <1>1, <1>2, <1>4 DEF Lose
<1>5. ASSUME NEW r \in Reviewers, Receipt(r)
      PROVE  \A n \in Nonces : Applied(n)' <=> Applied(n)
  <2>1. reviewer[r].nonce \in Nonces
    BY <1>5, ReviewerNonce DEF Receipt
  <2>2. CASE UNCHANGED provider
    BY <2>2
  <2>3. CASE provider' = [provider EXCEPT ![reviewer[r].nonce].closed = @ \/ Foreclosing]
    BY <1>1, <1>2, <2>1, <2>3
  <2> QED
    BY <1>5, <2>2, <2>3 DEF Receipt, Verdict
<1>6. UNCHANGED provider => \A n \in Nonces : Applied(n)' <=> Applied(n)
  OBVIOUS
<1>7. ASSUME NEW w \in Workers,
             \/ \E n \in Nonces, k \in Keys : Submit(w, n, k)
             \/ WorkerStep(w) /\ ~Dispatch(w)
             \/ Crash(w)
      PROVE  UNCHANGED provider
  BY <1>7 DEF Submit, WorkerStep, Validate, Reserve, Recheck, Cancel, Await, Confirm, Doubt, Crash
<1>8. ASSUME NEW r \in Reviewers,
             (\E m \in Nonces, fenced \in BOOLEAN : Lookup(r, m, fenced)) \/ Resolve(r)
      PROVE  UNCHANGED provider
  BY <1>8 DEF Lookup, Resolve
<1>9. ASSUME NEW m \in Nonces, Invalidate(m)
      PROVE  UNCHANGED provider
  BY <1>9 DEF Invalidate
<1> HIDE DEF Applied
<1> QED
  BY <1>3, <1>4, <1>5, <1>6, <1>7, <1>8, <1>9 DEF ExecNext, ReviewerStep

\* The phase of every row but one is kept, and that one's is given.
LEMMA PhaseUpdate ==
    ASSUME NEW n \in Nonces, \A m \in Nonces \ {n} : Status(m)' = Status(m)
    PROVE  phaseMap' = [phaseMap EXCEPT ![n] = PhaseOf(n)']
<1>1. \A m \in Nonces \ {n} : PhaseOf(m)' = PhaseOf(m)
  BY DEF PhaseOf
<1> QED
  BY <1>1 DEF phaseMap

\* A late or a prompt effect happens while its execution is open, once.
LEMMA ApplyHappens ==
    ASSUME ExecInv, FinalReceipts, NEW n \in Nonces, Apply(n)
    PROVE  Contract!Happen(n)
<1> USE DEF ExecInv
<1>1. InFlight(n) /\ ~provider[n].closed /\ UNCHANGED ledgerVars
  BY DEF Apply, InFlight
<1>2. Uncertain(n) /\ ~Applied(n)
  BY <1>1, InFlightIsUncertain
<1>3. phaseMap[n] = "open" /\ n \notin happenedMap
  BY <1>2, PhaseFacts DEF happenedMap
<1>4. phaseMap' = phaseMap
  BY <1>1 DEF phaseMap, PhaseOf, Status, ledgerVars
<1>5. happenedMap' = happenedMap \cup {n}
  <2>1. \A m \in Nonces : provider[m] \in [calls: Nat, applied: Nat, closed: BOOLEAN]
    BY DEF ExecTypeOK
  <2>2. /\ provider'[n].applied = provider[n].applied + 1
        /\ \A m \in Nonces \ {n} : provider'[m] = provider[m]
    BY <2>1 DEF Apply, ExecTypeOK
  <2>3. Applied(n)' /\ \A m \in Nonces \ {n} : Applied(m)' <=> Applied(m)
    BY <2>1, <2>2 DEF Applied
  <2> QED
    BY <2>3 DEF happenedMap
<1> QED
  BY <1>3, <1>4, <1>5, ContractActions

\* A reservation opens its execution: no other of its task is open, and none
\* with its effect is done when the effect may not repeat.
LEMMA InsertOpens ==
    ASSUME ExecInv, ExecInv', Inserts, happenedMap' = happenedMap
    PROVE  \E n \in Nonces : Contract!Open(n)
<1> USE DEF ExecInv
<1>1. PICK n \in Nonces, s \in Scopes, k \in Keys, d \in Digests, p \in Policies :
         ReserveInsert(n, s, k, d, p)
  BY DEF Inserts
<1>2. /\ ~Present(n) /\ Status(n)' = "pending"
      /\ executions'[n].scope = s /\ executions'[n].digest = d
      /\ \A m \in Nonces \ {n} : Keeps(m)
  BY <1>1, InsertEffect DEF ExecTypeOK
<1>3. /\ \A m \in Nonces : Uncertain(m) => TaskOf[executions[m].scope] # TaskOf[s]
      /\ \A m \in Nonces : /\ Live(m) /\ EffectOf[d] \notin Repeatable
                           /\ TaskOf[executions[m].scope] = TaskOf[s]
                           => EffectAt(m) # EffectOf[d]
  BY <1>1, InsertStep DEF ExecTypeOK
<1>4. s = GrantScope[n] /\ d = GrantDigest[n]
  BY <1>2 DEF RowsMatchGrants, Present
<1>5. \A m \in Nonces : Present(m) => /\ TaskOf[executions[m].scope] = taskMap[m]
                                      /\ EffectAt(m) = effectMap[m]
  BY DEF RowsMatchGrants, taskMap, effectMap, EffectAt
<1>6. TaskOf[s] = taskMap[n] /\ EffectOf[d] = effectMap[n]
  BY <1>4 DEF taskMap, effectMap
<1>7. \A m \in Nonces : taskMap[m] = taskMap[n] => phaseMap[m] # "open"
  BY <1>3, <1>5, <1>6, PhaseFacts DEF Uncertain, Present
<1>8. effectMap[n] \notin Repeatable =>
         \A m \in Nonces : taskMap[n] = taskMap[m] /\ effectMap[n] = effectMap[m]
                           => phaseMap[m] # "done"
  BY <1>3, <1>5, <1>6, PhaseFacts DEF Live, Present
<1>9. phaseMap[n] = "idle" /\ phaseMap' = [phaseMap EXCEPT ![n] = "open"]
  BY <1>2, PhaseFacts, PhaseUpdate DEF Keeps, PhaseOf
<1> QED
  BY <1>7, <1>8, <1>9, ContractActions

\* An update of a row settles its execution the way it went, or changes nothing
\* the contract knows of: a doubt, or a decision about a result.
LEMMA RewriteSettles ==
    ASSUME ExecInv, ExecInv', FinalReceipts, happenedMap' = happenedMap,
           NEW n \in Nonces, NEW row \in Row, Rewrites(n, row)
    PROVE  Contract!Settle(n) \/ phaseMap' = phaseMap
<1> USE DEF ExecInv
<1>1. Status(n)' = row.status /\ \A m \in Nonces \ {n} : Status(m)' = Status(m)
  BY DEF Rewrites, Status, ExecTypeOK, TypeOK
<1>2. phaseMap' = [phaseMap EXCEPT ![n] = PhaseOf(n)']
  BY <1>1, PhaseUpdate
<1>3. phaseMap = [phaseMap EXCEPT ![n] = PhaseOf(n)]
  BY DEF phaseMap
<1>4. CASE Status(n)' = Status(n) \/ Status(n)' = "unknown"
  <2>1. PhaseOf(n)' = PhaseOf(n)
    BY <1>1, <1>4 DEF PhaseOf, Rewrites, Settles, Decides
  <2> QED
    BY <1>2, <1>3, <2>1
<1>5. CASE Status(n)' # Status(n) /\ Status(n)' # "unknown"
  <2>1. Uncertain(n) /\ Status(n)' \in {"succeeded", "not_dispatched"}
    BY <1>1, <1>5 DEF Rewrites, Settles, Decides, Row, Statuses
  <2>2. Status(n)' = "succeeded" => n \in happenedMap
    BY DEF SucceededMeansApplied, happenedMap
  <2>3. Status(n)' = "not_dispatched" => n \notin happenedMap
    BY DEF NotDispatchedMeansNoEffect, FinalReceipts, happenedMap
  <2>4. PhaseOf(n)' = IF n \in happenedMap THEN "done" ELSE "void"
    BY <2>1, <2>2, <2>3 DEF PhaseOf
  <2>5. phaseMap[n] = "open"
    BY <2>1, PhaseFacts
  <2> QED
    BY <1>2, <2>4, <2>5, ContractActions
<1> QED
  BY <1>4, <1>5

\* Every step of the executor is a step of the contract or none.
LEMMA ContractStep ==
    ASSUME ExecInv, ExecInv', FinalReceipts, [ExecNext]_execVars
    PROVE  [Contract!ContractNext]_(Contract!contractVars)
<1>1. phaseMap' = phaseMap /\ happenedMap' = happenedMap => UNCHANGED Contract!contractVars
  BY DEF Contract!contractVars, phaseMap, happenedMap, PhaseOf
<1>2. CASE UNCHANGED execVars
  BY <1>1, <1>2 DEF execVars, phaseMap, happenedMap, PhaseOf, Status, Applied
<1>3. ASSUME NEW n \in Nonces, Apply(n)
      PROVE  Contract!ContractNext
  BY <1>3, ApplyHappens DEF Contract!ContractNext
<1>4. CASE ExecNext /\ \A n \in Nonces : Applied(n)' <=> Applied(n)
  <2>1. happenedMap' = happenedMap
    BY <1>4 DEF happenedMap
  <2>2. TypeOK /\ [LedgerNext]_ledgerVars
    BY ExecStepIsLedgerStep DEF ExecInv, ExecTypeOK
  <2>3. CASE UNCHANGED executions
    BY <1>1, <2>1, <2>3 DEF phaseMap, PhaseOf, Status
  <2>4. CASE Inserts
    BY <2>1, <2>4, InsertOpens DEF Contract!ContractNext
  <2>5. ASSUME NEW n \in Nonces, NEW row \in Row, Rewrites(n, row)
        PROVE  [Contract!ContractNext]_(Contract!contractVars)
    BY <1>1, <2>1, <2>5, RewriteSettles DEF Contract!ContractNext
  <2> QED
    BY <2>2, <2>3, <2>4, <2>5, StepKinds DEF ledgerVars
<1> QED
  BY <1>2, <1>3, <1>4, AppliedOnlyByApply

\* Workers, ledger, provider and reviewers, in any number, implement the
\* contract: an effect takes place at most once, while its task is held open for
\* it, and the task is released on a verdict that agrees with what happened.
THEOREM ImplementsContract ==
    ASSUME FinalReceipts
    PROVE  ExecSpec => KeepsEffectContract
<1>1. ExecInit => Contract!ContractInit
  BY DEF ExecInit, LedgerInit, Contract!ContractInit, NoRow, Status, Applied
<1>2. ExecInv /\ ExecInv' /\ [ExecNext]_execVars
      => [Contract!ContractNext]_(Contract!contractVars)
  BY ContractStep
<1> QED
  BY <1>1, <1>2, ExecInvariant, PTL DEF ExecSpec, KeepsEffectContract, Contract!ContractSpec
=============================================================================

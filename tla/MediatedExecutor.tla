-------------------------- MODULE MediatedExecutor --------------------------
(***************************************************************************)
(* MediatedExecutor.execute and .reconcile (src/traceguard/executor.py)     *)
(* run by concurrent workers and reviewers over one ExecutionLedger.        *)
(*                                                                         *)
(* A worker's call is a sequence of separate steps (two online validations, *)
(* three ledger transactions, a provider call); the process may die between *)
(* any two.  The issuer and the provider are external: the issuer may       *)
(* invalidate a grant or be unreachable at any time, the provider may apply *)
(* a call long after the worker gave up on it, or never.                    *)
(***************************************************************************)
EXTENDS ExecutionLedger

CONSTANTS
    Workers,      \* concurrent execute() calls
    Reviewers,    \* concurrent reconcile() calls
    GrantScope,   \* scope a grant (its nonce) was issued for
    GrantDigest,  \* action digest it binds; the idempotency key is not part of it
    GrantPolicy,  \* result policy: the adapter digest it binds
    Foreclosing,  \* a negative receipt also makes the provider refuse later calls
    FenceFirst    \* reviewers fence a pending reservation before they reconcile it

ASSUME ExecutorConstants ==
    /\ GrantScope \in [Nonces -> Scopes]
    /\ GrantDigest \in [Nonces -> Digests]
    /\ GrantPolicy \in [Nonces -> Policies]
    /\ Foreclosing \in BOOLEAN
    /\ FenceFirst \in BOOLEAN

VARIABLES
    grants,    \* nonce -> what the issuer would say of the grant
    worker,    \* volatile state of each execute() call
    provider,  \* nonce -> calls in flight, effects applied, foreclosed
    reviewer   \* volatile state of each reconcile() call

execVars == <<executions, reconciliations, released, grants, worker, provider, reviewer>>

Idle == [pc |-> "idle"]

\* Steps of execute() that come after its row was inserted.
OwningSteps == {"recheck", "cancel", "dispatch", "await", "confirm", "doubt"}
Busy == [pc: {"validate", "reserve"} \cup OwningSteps, nonce: Nonces, key: Keys]

Reviewing == [pc: {"receipt", "apply"}, nonce: Nonces, fenced: BOOLEAN,
              verdict: {"none", "succeeded", "not_dispatched"}, result: BOOLEAN]

ExecTypeOK ==
    /\ TypeOK
    /\ grants \in [Nonces -> {"current", "revoked", "expired"}]
    /\ worker \in [Workers -> Busy \cup {Idle}]
    /\ provider \in [Nonces -> [calls: Nat, applied: Nat, closed: BOOLEAN]]
    /\ reviewer \in [Reviewers -> Reviewing \cup {Idle}]

At(w, step) == worker[w].pc = step
Goto(w, step) == worker' = [worker EXCEPT ![w].pc = step]
Return(w) == worker' = [worker EXCEPT ![w] = Idle]
Owns(w, n) == worker[w].pc \in OwningSteps /\ worker[w].nonce = n

-----------------------------------------------------------------------------
(* MediatedExecutor.execute, one worker *)

\* The checks on the grant itself: caller, audience, adapter, domain, expiry,
\* digest and signature.  Only the expiry can change between two calls.
Submit(w, n, k) ==
    /\ At(w, "idle")
    /\ grants[n] # "expired"
    /\ worker' = [worker EXCEPT ![w] = [pc |-> "validate", nonce |-> n, key |-> k]]
    /\ UNCHANGED <<ledgerVars, grants, provider, reviewer>>

\* validate_online answers yes only for a current grant; it may always fail.
ValidateOnline(w, yes, no) ==
    \/ grants[worker[w].nonce] = "current" /\ yes
    \/ no

Validate(w) ==
    /\ At(w, "validate")
    /\ ValidateOnline(w, Goto(w, "reserve"), Return(w))
    /\ UNCHANGED <<ledgerVars, grants, provider, reviewer>>

\* Mutant of Reserve: an execution of unknown outcome is retried.
MutReserve(w) ==
    LET n == worker[w].nonce IN
    /\ At(w, "reserve")
    /\ \/ /\ ReserveInsert(n, GrantScope[n], worker[w].key, GrantDigest[n], GrantPolicy[n])
          /\ Goto(w, "recheck")
       \/ Status(n) = "unknown" /\ Goto(w, "recheck") /\ UNCHANGED ledgerVars
    /\ UNCHANGED <<grants, provider, reviewer>>

Reserve(w) ==
    LET n == worker[w].nonce
        k == worker[w].key
    IN /\ At(w, "reserve")
       /\ \/ /\ ReserveInsert(n, GrantScope[n], k, GrantDigest[n], GrantPolicy[n])
             /\ Goto(w, "recheck")
          \/ /\ \/ ReserveReplay(n, GrantScope[n], k, GrantDigest[n], GrantPolicy[n])
                \/ ReserveRefuse(n, GrantScope[n], k, GrantDigest[n])
             /\ Return(w)
       /\ UNCHANGED <<grants, provider, reviewer>>

\* Mutant of Recheck: the authority seen before the reservation is trusted.
MutRecheck(w) ==
    /\ At(w, "recheck")
    /\ Goto(w, "dispatch")
    /\ UNCHANGED <<ledgerVars, grants, provider, reviewer>>

\* Authority is checked again once the reservation is durable.
Recheck(w) ==
    /\ At(w, "recheck")
    /\ ValidateOnline(w, Goto(w, "dispatch"), Goto(w, "cancel"))
    /\ UNCHANGED <<ledgerVars, grants, provider, reviewer>>

Cancel(w) ==
    /\ At(w, "cancel")
    /\ finish(worker[w].nonce, "not_dispatched", FALSE, "review_required")
    /\ Return(w)
    /\ UNCHANGED <<grants, provider, reviewer>>

\* The adapter sends the call, or raises before it does.
Dispatch(w) ==
    /\ At(w, "dispatch")
    /\ \/ /\ provider' = [provider EXCEPT ![worker[w].nonce].calls = @ + 1]
          /\ Goto(w, "await")
       \/ Goto(w, "doubt") /\ UNCHANGED provider
    /\ UNCHANGED <<ledgerVars, grants, reviewer>>

\* A bounded text result of an applied call, or any exception.
Await(w) ==
    /\ At(w, "await")
    /\ \/ provider[worker[w].nonce].applied > 0 /\ Goto(w, "confirm")
       \/ Goto(w, "doubt")
    /\ UNCHANGED <<ledgerVars, grants, provider, reviewer>>

Confirm(w) ==
    /\ At(w, "confirm")
    /\ finish(worker[w].nonce, "succeeded", TRUE, "accepted_for_agent")
    /\ Return(w)
    /\ UNCHANGED <<grants, provider, reviewer>>

\* Mutant of Doubt: a timeout is recorded as if nothing had been dispatched.
MutDoubt(w) ==
    /\ At(w, "doubt")
    /\ finish(worker[w].nonce, "not_dispatched", FALSE, "review_required")
    /\ Return(w)
    /\ UNCHANGED <<grants, provider, reviewer>>

Doubt(w) ==
    /\ At(w, "doubt")
    /\ finish(worker[w].nonce, "unknown", FALSE, "review_required")
    /\ Return(w)
    /\ UNCHANGED <<grants, provider, reviewer>>

\* The process dies, or an operator fences it: only the ledger remembers.
Crash(w) ==
    /\ ~At(w, "idle")
    /\ Return(w)
    /\ UNCHANGED <<ledgerVars, grants, provider, reviewer>>

-----------------------------------------------------------------------------
(* External: issuer and provider *)

\* A policy, credential or suspension change, or the passing of the expiry time.
Invalidate(n) ==
    /\ \/ grants[n] = "current" /\ grants' = [grants EXCEPT ![n] = "revoked"]
       \/ grants[n] # "expired" /\ grants' = [grants EXCEPT ![n] = "expired"]
    /\ UNCHANGED <<ledgerVars, worker, provider, reviewer>>

Apply(n) ==
    /\ provider[n].calls > 0 /\ ~provider[n].closed
    /\ provider' = [provider EXCEPT ![n].calls = @ - 1, ![n].applied = @ + 1]
    /\ UNCHANGED <<ledgerVars, grants, worker, reviewer>>

Lose(n) ==
    /\ provider[n].calls > 0
    /\ provider' = [provider EXCEPT ![n].calls = @ - 1]
    /\ UNCHANGED <<ledgerVars, grants, worker, reviewer>>

-----------------------------------------------------------------------------
(* MediatedExecutor.reconcile, one reviewer *)

\* ledger.lookup and the role checks.  pending_worker_fenced is an attestation,
\* made truthfully: no worker still runs with this reservation.  The code lets a
\* call start unfenced; FenceFirst is the procedure of docs/ledger_lifecycle.md.
Lookup(r, n, fenced) ==
    /\ reviewer[r].pc = "idle"
    /\ Present(n)
    /\ FenceFirst /\ Status(n) = "pending" => fenced
    /\ fenced => \A w \in Workers : ~Owns(w, n)
    /\ reviewer' = [reviewer EXCEPT ![r] =
           [pc |-> "receipt", nonce |-> n, fenced |-> fenced, verdict |-> "none", result |-> FALSE]]
    /\ UNCHANGED <<ledgerVars, grants, worker, provider>>

\* What the provider answers when asked about n: it knows the calls it received.
\* A positive receipt may lack the result text.
Verdict(n, v, result) ==
    \/ v = "succeeded" /\ provider[n].applied > 0 /\ result \in BOOLEAN /\ UNCHANGED provider
    \/ /\ v = "not_dispatched" /\ ~result /\ provider[n].applied = 0
       /\ Foreclosing \/ provider[n].calls = 0
       /\ provider' = [provider EXCEPT ![n].closed = @ \/ Foreclosing]

\* reconcile_provider: a bound receipt, or an exception that ends the call.
Receipt(r) ==
    /\ reviewer[r].pc = "receipt"
    /\ \/ \E v \in {"succeeded", "not_dispatched"}, result \in BOOLEAN :
             /\ Verdict(reviewer[r].nonce, v, result)
             /\ reviewer' = [reviewer EXCEPT ![r].pc = "apply", ![r].verdict = v,
                                             ![r].result = result]
       \/ reviewer' = [reviewer EXCEPT ![r] = Idle] /\ UNCHANGED provider
    /\ UNCHANGED <<ledgerVars, grants, worker>>

\* ledger.reconcile; a positive receipt without a result cannot be accepted and
\* raises before the transaction.
Resolve(r) ==
    LET call == reviewer[r]
        disposition == IF call.verdict = "succeeded" THEN "accepted_for_agent"
                                                     ELSE "review_required"
    IN /\ call.pc = "apply"
       /\ IF call.verdict = "succeeded" /\ ~call.result
          THEN UNCHANGED ledgerVars
          ELSE reconcile(call.nonce, call.verdict, call.result, disposition, call.fenced)
       /\ reviewer' = [reviewer EXCEPT ![r] = Idle]
       /\ UNCHANGED <<grants, worker, provider>>

-----------------------------------------------------------------------------
ExecInit ==
    /\ LedgerInit
    /\ grants = [n \in Nonces |-> "current"]
    /\ worker = [w \in Workers |-> Idle]
    /\ provider = [n \in Nonces |-> [calls |-> 0, applied |-> 0, closed |-> FALSE]]
    /\ reviewer = [r \in Reviewers |-> Idle]

WorkerStep(w) ==
    \/ Validate(w) \/ Reserve(w) \/ Recheck(w) \/ Cancel(w)
    \/ Dispatch(w) \/ Await(w) \/ Confirm(w) \/ Doubt(w)

ReviewerStep(r) == Receipt(r) \/ Resolve(r)

ExecNext ==
    \/ \E w \in Workers : \/ \E n \in Nonces, k \in Keys : Submit(w, n, k)
                          \/ WorkerStep(w)
                          \/ Crash(w)
    \/ \E n \in Nonces : Invalidate(n) \/ Apply(n) \/ Lose(n)
    \/ \E r \in Reviewers : \/ \E n \in Nonces, fenced \in BOOLEAN : Lookup(r, n, fenced)
                            \/ ReviewerStep(r)

ExecSpec == ExecInit /\ [][ExecNext]_execVars

\* A receipt for n the ledger can act on: the provider answers, with the result text.
UsableReceipt(r, n) ==
    /\ Receipt(r) /\ reviewer[r].nonce = n /\ reviewer'[r].pc = "apply"
    /\ reviewer'[r].verdict = "succeeded" => reviewer'[r].result

\* Threads that run make progress, the provider disposes of every call it has
\* received and answers some of the enquiries about each, and reviewers do not
\* give up on any reservation.
Fairness ==
    /\ \A w \in Workers : WF_execVars(WorkerStep(w))
    /\ \A n \in Nonces : WF_execVars(Apply(n) \/ Lose(n))
    /\ \A r \in Reviewers :
           /\ WF_execVars(ReviewerStep(r))
           /\ \A n \in Nonces : SF_execVars(UsableReceipt(r, n)) /\ SF_execVars(Lookup(r, n, TRUE))

FairExecSpec == ExecSpec /\ Fairness

-----------------------------------------------------------------------------
(* Properties *)

InFlight(n) == provider[n].calls > 0
Applied(n) == provider[n].applied > 0

\* A worker that inserted a reservation still owns a pending row, alone, until
\* it finishes: no second execute(), replay or unfenced reconcile() takes it away.
WorkerOwnsReservation ==
    \A w \in Workers, n \in Nonces : Owns(w, n) =>
        /\ Status(n) = "pending"
        /\ \A v \in Workers : Owns(v, n) => v = w

\* The provider is called at most once per reservation, whatever crashes,
\* timeouts, resubmissions and reconciliations happen in between.
CalledAtMostOnce == \A n \in Nonces : provider[n].calls + provider[n].applied <= 1

\* "A possibly completed effect holds the task": while a call may still take
\* effect, also after its worker timed out or died, its row is uncertain, so
\* the whole task is held.
InFlightHoldsTask == \A n \in Nonces : InFlight(n) /\ ~provider[n].closed => Uncertain(n)

\* A reservation reported as not dispatched, whose amount and effect are thereby
\* free again, has no effect at the provider and can have none.
NotDispatchedMeansNoEffect ==
    \A n \in Nonces : Status(n) = "not_dispatched" =>
        /\ ~Applied(n)
        /\ InFlight(n) => provider[n].closed

\* A success in the ledger is a real effect.
SucceededMeansApplied == \A n \in Nonces : Status(n) = "succeeded" => Applied(n)

\* No two grants, keys or retries make a non-repeatable effect happen twice in
\* a task.
EffectAppliedOnce ==
    \A m, n \in Nonces :
        /\ Applied(m) /\ Applied(n)
        /\ TaskOf[GrantScope[m]] = TaskOf[GrantScope[n]]
        /\ EffectOf[GrantDigest[m]] = EffectOf[GrantDigest[n]]
        /\ EffectOf[GrantDigest[n]] \notin Repeatable
        => m = n

\* What really happened at the provider, late effects included, never costs a
\* task more than its budget.
RealSpendWithinBudget ==
    \A t \in Tasks : Limit[t] # NoLimit =>
        Total([n \in {m \in Nonces : Applied(m) /\ TaskOf[GrantScope[m]] = t}
               |-> AmountOf[EffectOf[GrantDigest[n]]]]) <= Limit[t]

\* The grant is revoked or expired, and no call with it has left its worker.
Withdrawn(n) ==
    /\ grants[n] # "current"
    /\ ~InFlight(n) /\ ~Applied(n)
    /\ \A w \in Workers : At(w, "dispatch") => worker[w].nonce # n

\* A grant withdrawn before its call left a worker never has an effect: neither a
\* worker that was already validating, reserving or rechecking it, nor any
\* resubmission, crash, recovery or reconciliation afterwards brings one about.
WithdrawnGrantHasNoEffect == \A n \in Nonces : [](Withdrawn(n) => []~Applied(n))

\* A crashed or timed-out execution does not hold its task for ever: reviewers
\* can always resolve it.
UncertaintyIsResolved == \A n \in Nonces : Uncertain(n) ~> ~Uncertain(n)

Contract == INSTANCE EffectContract WITH
    Ids <- Nonces,
    TaskOfId <- [n \in Nonces |-> TaskOf[GrantScope[n]]],
    EffectOfId <- [n \in Nonces |-> EffectOf[GrantDigest[n]]],
    phase <- [n \in Nonces |-> CASE Status(n) = "absent" -> "idle"
                                 [] Status(n) \in {"pending", "unknown"} -> "open"
                                 [] Status(n) = "succeeded" -> "done"
                                 [] Status(n) = "not_dispatched" -> "void"],
    happened <- {n \in Nonces : Applied(n)}

\* Workers, ledger, provider and reviewers together implement the contract.
KeepsEffectContract == Contract!ContractSpec
=============================================================================

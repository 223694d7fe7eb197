-------------------------- MODULE ExecutionLedger --------------------------
(***************************************************************************)
(* The transactional reservation ledger of src/traceguard/ledger.py: one   *)
(* SQLite table `executions`, one table `reconciliations`, and four         *)
(* operations that change them.  Every operation is one IMMEDIATE           *)
(* transaction (or one UPDATE), so each is one atomic action here.          *)
(*                                                                         *)
(* LedgerNext lets any caller invoke any operation with any arguments the  *)
(* API accepts: what holds here holds for the mediated executor, the       *)
(* embedded guard and the Inspect executor alike.                          *)
(***************************************************************************)
EXTENDS Naturals, FiniteSets, FiniteSetsExt

CONSTANTS
    Nonces,     \* grant nonces or embedded call ids: the primary key
    Scopes,     \* (tenant, principal, credential, task) tuples
    Keys,       \* idempotency keys
    Digests,    \* action digests
    Policies,   \* result-policy bindings
    Tasks,      \* (tenant, task) pairs
    Effects,    \* effect digests
    TaskOf,     \* the (tenant, task) part of a scope
    EffectOf,   \* the effect an action digest stands for
    AmountOf,   \* what an effect costs
    Repeatable, \* effects the task's authority declares repeatable
    Limit,      \* a task's budget, or NoLimit
    NoLimit

ASSUME LedgerConstants ==
    /\ TaskOf \in [Scopes -> Tasks]
    /\ EffectOf \in [Digests -> Effects]
    /\ AmountOf \in [Effects -> Nat]
    /\ Repeatable \subseteq Effects
    /\ NoLimit \notin Nat
    /\ Limit \in [Tasks -> Nat \cup {NoLimit}]

ASSUME FiniteNonces == IsFiniteSet(Nonces)

VARIABLES
    executions,      \* nonce -> its row, or NoRow
    reconciliations, \* the rows of the reconciliations table
    released         \* observed: <<nonce, policy>> of each replay that returned the result

ledgerVars == <<executions, reconciliations, released>>

Statuses == {"pending", "succeeded", "unknown", "not_dispatched"}
Dispositions == {"pending_review", "accepted_for_agent", "withheld", "review_required"}

(* The effect digest and the amount are columns too; they are functions of  *)
(* the digest (EffectOf, AmountOf).  `result` says whether bytes are stored.*)
Row == [scope: Scopes, key: Keys, digest: Digests, status: Statuses,
        result: BOOLEAN, disposition: Dispositions, policy: Policies]
NoRow == [status |-> "absent"]

Reconciliation == [nonce: Nonces, status: {"succeeded", "not_dispatched"}]

TypeOK ==
    /\ executions \in [Nonces -> Row \cup {NoRow}]
    /\ reconciliations \subseteq Reconciliation
    /\ released \subseteq Nonces \X Policies

-----------------------------------------------------------------------------
(* Queries of the operations. *)

Status(n) == executions[n].status
Present(n) == Status(n) # "absent"
Uncertain(n) == Status(n) \in {"pending", "unknown"}
Accepted(n) == Status(n) = "succeeded" /\ executions[n].disposition = "accepted_for_agent"

\* A row that may stand for a real effect: every status but not_dispatched.
Live(n) == Present(n) /\ Status(n) # "not_dispatched"

InTask(n, t) == Present(n) /\ TaskOf[executions[n].scope] = t
EffectAt(n) == EffectOf[executions[n].digest]

\* SELECT ... WHERE nonce=? OR (scope and idempotency key): possibly two rows,
\* of which fetchone returns either.
Existing(nonce, scope, key) ==
    {n \in Nonces : /\ Present(n)
                    /\ \/ n = nonce
                       \/ executions[n].scope = scope /\ executions[n].key = key}

\* Mutant of Holds: a dispatch of unknown outcome no longer holds the task.
MutHolds(n) == Status(n) = "pending"

\* A pending, unknown or unaccepted row holds its whole task.
Holds(n) == Uncertain(n) \/ (Status(n) = "succeeded" /\ ~Accepted(n))

Held(t) == \E n \in Nonces : InTask(n, t) /\ Holds(n)

\* Mutant of Duplicate: only unresolved reservations count as duplicates.
MutDuplicate(t, e) ==
    e \notin Repeatable /\ \E n \in Nonces : InTask(n, t) /\ Uncertain(n) /\ EffectAt(n) = e

Duplicate(t, e) ==
    /\ e \notin Repeatable
    /\ \E n \in Nonces : InTask(n, t) /\ Live(n) /\ EffectAt(n) = e

\* SUM over the values of a function.
Total(w) == MapThenSumSet(LAMBDA n : w[n], DOMAIN w)

LiveIn(t) == {n \in Nonces : InTask(n, t) /\ Live(n)}
Spent(t) == Total([n \in LiveIn(t) |-> AmountOf[EffectAt(n)]])

\* Mutant of OverBudget: the new amount is not added to what is spent.
MutOverBudget(t, e) == Limit[t] # NoLimit /\ Spent(t) > Limit[t]

OverBudget(t, e) == Limit[t] # NoLimit /\ Spent(t) + AmountOf[e] > Limit[t]

-----------------------------------------------------------------------------
(* reserve: the first row found decides; only an unknown nonce and key may  *)
(* insert.  It either inserts, replays a succeeded row, or raises.          *)

ReserveInsert(nonce, scope, key, digest, policy) ==
    /\ Existing(nonce, scope, key) = {}
    /\ ~Held(TaskOf[scope])
    /\ ~Duplicate(TaskOf[scope], EffectOf[digest])
    /\ ~OverBudget(TaskOf[scope], EffectOf[digest])
    /\ executions' = [executions EXCEPT ![nonce] =
           [scope |-> scope, key |-> key, digest |-> digest, status |-> "pending",
            result |-> FALSE, disposition |-> "pending_review", policy |-> policy]]
    /\ UNCHANGED <<reconciliations, released>>

\* The accepted result is returned only under the policy that accepted it; any
\* other policy turns the row into review_required, durably.
ReserveReplay(nonce, scope, key, digest, policy) ==
    \E n \in Existing(nonce, scope, key) :
        /\ executions[n].digest = digest /\ executions[n].scope = scope
        /\ Status(n) = "succeeded"
        /\ IF Accepted(n) /\ (executions[n].policy # policy \/ ~executions[n].result)
           THEN /\ executions' = [executions EXCEPT ![n].disposition = "review_required"]
                /\ UNCHANGED released
           ELSE /\ released' = IF Accepted(n) THEN released \cup {<<n, policy>>} ELSE released
                /\ UNCHANGED executions
        /\ UNCHANGED reconciliations

\* AuthorizationError or ExecutionUnknown: nothing is written.
ReserveRefuse(nonce, scope, key, digest) ==
    /\ \/ \E n \in Existing(nonce, scope, key) :
             \/ executions[n].digest # digest \/ executions[n].scope # scope
             \/ Status(n) # "succeeded"
       \/ /\ Existing(nonce, scope, key) = {}
          /\ \/ Held(TaskOf[scope])
             \/ Duplicate(TaskOf[scope], EffectOf[digest])
             \/ OverBudget(TaskOf[scope], EffectOf[digest])
    /\ UNCHANGED ledgerVars

reserve(nonce, scope, key, digest, policy) ==
    \/ ReserveInsert(nonce, scope, key, digest, policy)
    \/ ReserveReplay(nonce, scope, key, digest, policy)
    \/ ReserveRefuse(nonce, scope, key, digest)

-----------------------------------------------------------------------------
(* finish, decide_result, reconcile: each is one conditional UPDATE; when it *)
(* matches no row the caller gets an exception and nothing is written.       *)

finish(nonce, status, result, disposition) ==
    /\ disposition = "accepted_for_agent" => status = "succeeded" /\ result
    /\ executions' = IF Status(nonce) = "pending"
                     THEN [executions EXCEPT ![nonce].status = status,
                                             ![nonce].result = result,
                                             ![nonce].disposition = disposition]
                     ELSE executions
    /\ UNCHANGED <<reconciliations, released>>

decide_result(nonce, disposition, policy) ==
    /\ executions' = IF /\ Status(nonce) = "succeeded"
                        /\ executions[nonce].disposition = "pending_review"
                        /\ executions[nonce].policy = policy
                        /\ executions[nonce].result
                     THEN [executions EXCEPT ![nonce].disposition = disposition]
                     ELSE executions
    /\ UNCHANGED <<reconciliations, released>>

\* The UPDATE and INSERT of a reconciliation.
Record(nonce, status, result, disposition) ==
    /\ executions' = [executions EXCEPT ![nonce].status = status,
                                        ![nonce].result = result,
                                        ![nonce].disposition = disposition]
    /\ reconciliations' = reconciliations \cup {[nonce |-> nonce, status |-> status]}

\* Mutant of reconcile: pending rows are never reconciled.
MutOnlyUnknown(nonce, status, result, disposition, fenced) ==
    /\ IF Status(nonce) = "unknown" THEN Record(nonce, status, result, disposition)
                                    ELSE UNCHANGED <<executions, reconciliations>>
    /\ UNCHANGED released

reconcile(nonce, status, result, disposition, fenced) ==
    /\ disposition = "accepted_for_agent" => status = "succeeded" /\ result
    /\ IF Status(nonce) = "unknown" \/ (Status(nonce) = "pending" /\ fenced)
       THEN Record(nonce, status, result, disposition)
       ELSE UNCHANGED <<executions, reconciliations>>
    /\ UNCHANGED released

-----------------------------------------------------------------------------
LedgerInit ==
    /\ executions = [n \in Nonces |-> NoRow]
    /\ reconciliations = {}
    /\ released = {}

LedgerNext ==
    \E n \in Nonces :
        \/ \E s \in Scopes, k \in Keys, d \in Digests, p \in Policies : reserve(n, s, k, d, p)
        \/ \E st \in Statuses \ {"pending"}, r \in BOOLEAN, di \in Dispositions :
               finish(n, st, r, di)
        \/ \E di \in Dispositions \ {"pending_review"}, p \in Policies : decide_result(n, di, p)
        \/ \E st \in {"succeeded", "not_dispatched"}, r \in BOOLEAN,
              di \in Dispositions \ {"pending_review"}, fenced \in BOOLEAN :
               reconcile(n, st, r, di, fenced)

LedgerSpec == LedgerInit /\ [][LedgerNext]_ledgerVars

-----------------------------------------------------------------------------
(* What the ledger promises its callers. *)

\* "Reservations serialize consequential actions per tenant/task": however
\* nonces, keys, principals and digests vary, at most one row of a task has an
\* outcome that is not known.
OneUncertainPerTask ==
    \A m, n \in Nonces :
        /\ Uncertain(m) /\ Uncertain(n)
        /\ TaskOf[executions[m].scope] = TaskOf[executions[n].scope]
        => m = n

\* An effect that is not repeatable is reserved at most once in a task unless
\* the earlier reservation is known never to have been dispatched, whichever
\* key, nonce, credential or provenance the second request uses.
EffectReservedOnce ==
    \A m, n \in Nonces :
        /\ Live(m) /\ Live(n)
        /\ TaskOf[executions[m].scope] = TaskOf[executions[n].scope]
        /\ EffectAt(m) = EffectAt(n) /\ EffectAt(n) \notin Repeatable
        => m = n

\* What the live reservations of a task cost together never exceeds its budget,
\* in whatever order they are made, settled and taken back.
SpentWithinBudget == \A t \in Tasks : Limit[t] # NoLimit => Spent(t) <= Limit[t]

\* Whatever a replay returned to an agent was a stored result of a succeeded
\* execution, returned under the policy the row was reserved with.
ReleasedUnderItsPolicy ==
    \A rel \in released :
        LET row == executions[rel[1]]
        IN row.status = "succeeded" /\ row.result /\ row.policy = rel[2]

\* A settled row keeps its status, and no row ever changes what it was
\* reserved for or disappears.
SettledIsFinal ==
    [][\A n \in Nonces : Present(n) =>
          /\ Status(n) \in {"succeeded", "not_dispatched"} => Status(n)' = Status(n)
          /\ \A f \in {"scope", "key", "digest", "policy"} :
                executions'[n][f] = executions[n][f]]_ledgerVars

\* "A prior withhold cannot be overturned": once a succeeded row is withheld or
\* needs review, no operation accepts it and no replay returns its result, also
\* when the original policy is presented again.
WithheldIsFinal ==
    [][\A n \in Nonces :
          Status(n) = "succeeded" /\ executions[n].disposition \in {"withheld", "review_required"}
          => /\ executions'[n] = executions[n]
             /\ \A p \in Policies : <<n, p>> \in released' => <<n, p>> \in released]_ledgerVars
=============================================================================

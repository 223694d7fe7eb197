---------------------------- MODULE ControlPlane ----------------------------
(***************************************************************************)
(* The authority of one tenant: policies, decision receipts, reviews, tasks *)
(* and execution grants (src/traceguard/control/service.py, execution.py).  *)
(*                                                                         *)
(* Every public operation runs in one transaction, so each is one action;   *)
(* an operation that raises changes nothing and is no action.  All maps of  *)
(* the code are keyed by tenant and no operation reads two tenants.         *)
(*                                                                         *)
(* Durable selects the transaction of control/storage.py, which prunes what *)
(* has expired before every operation; otherwise state is kept in memory.   *)
(* In memory a grant request that is refused after its evaluation leaves    *)
(* that evaluation behind: it is then an evaluate step.                     *)
(***************************************************************************)
EXTENDS Naturals, FiniteSets

CONSTANTS
    Actors,        \* authenticated principals: (subject, credential) pairs
    SubjectOf, RolesOf,
    KeyOf, NoKey,  \* service credential of an actor, if any
    ScopeOf,       \* actions within an actor's allowed_operations
    Actions,       \* action digests
    TaskOfAction, Tasks,
    Permitted,     \* actions the registered task authority allows
    LegacyAgent,   \* tasks of a migrated store, without domain: task -> agent
    PolicyIds,
    Drafts,        \* policy contents: what select_rule decides for each action
    Keys,          \* idempotency keys
    ReviewIds, Nonces,
    Audiences,     \* whom agents address grants to
    ReceiptTTL, ReviewTTL, GrantTTL,
    MaxEntries,    \* quota of audit entries (in memory: a bound on the model)
    MaxTime,       \* bound on the clock
    MaxRekeyed,    \* bound on the epoch that rekeying reaches (it leaves no audit entry)
    Durable

Decisions == {"ALLOW", "BLOCK", "ESCALATE", "REWRITE"}
None == [status |-> "none"]
Credentials == {KeyOf[a] : a \in Actors} \ {NoKey}

ASSUME ControlConstants ==
    /\ RolesOf \in [Actors -> SUBSET {"ADMIN", "APPROVER", "REVIEWER", "AGENT", "EXECUTOR"}]
    /\ ScopeOf \in [Actors -> SUBSET Actions]
    /\ TaskOfAction \in [Actions -> Tasks]
    /\ Audiences \subseteq Actors
    /\ Permitted \subseteq Actions
    /\ DOMAIN LegacyAgent \subseteq Tasks
    /\ \A t \in DOMAIN LegacyAgent : LegacyAgent[t] \in Actors
    /\ Drafts \subseteq [Actions -> Decisions]
    /\ ReceiptTTL \in Nat \ {0} /\ ReviewTTL \in Nat /\ GrantTTL \in Nat
    /\ MaxEntries \in Nat /\ MaxTime \in Nat /\ MaxRekeyed \in Nat
    /\ None \notin Nonces
    /\ Durable \in BOOLEAN

VARIABLES
    policies, epoch, suspended, revoked,
    receipts,  \* _idempotent
    reviews, tasks,
    issued,    \* grants by nonce; kept here after they expire
    audit,     \* length of the audit chain
    now

controlVars == <<policies, epoch, suspended, revoked, receipts, reviews, tasks, issued, audit, now>>

Policy == [status: {"DRAFT", "PENDING_APPROVAL", "ACTIVE", "ROLLED_BACK"},
           draft: Drafts, created_by: {SubjectOf[a] : a \in Actors}]
Receipt == [status: {"receipt"}, action: Actions, epoch: Nat, expires: Nat,
            decision: Decisions, review: ReviewIds \cup {None}]
Review == [status: {"pending", "resolved", "expired"}, resolution: {"none", "ALLOW", "BLOCK"},
           agent: Actors, action: Actions, epoch: Nat, expires: Nat,
           by: {SubjectOf[a] : a \in Actors} \cup {None}, grant: Nonces \cup {None}]
Task == [status: {"registered"}, agent: Actors, domain: BOOLEAN]
Grant == [status: {"issued"}, agent: Actors, audience: Actors, action: Actions,
          policy: PolicyIds, epoch: Nat, expires: Nat]

ControlTypeOK ==
    /\ policies \in [PolicyIds -> Policy \cup {None}]
    /\ epoch \in Nat /\ suspended \in BOOLEAN /\ revoked \subseteq Credentials
    /\ receipts \in [Actors \X Keys -> Receipt \cup {None}]
    /\ reviews \in [ReviewIds -> Review \cup {None}]
    /\ tasks \in [Tasks -> Task \cup {None}]
    /\ issued \in [Nonces -> Grant \cup {None}]
    /\ audit \in 0..MaxEntries /\ now \in 0..MaxTime

-----------------------------------------------------------------------------
(* _require, active_policy, _append_audit, _prune_and_bound *)

Require(a, role) ==
    /\ role \in RolesOf[a]
    /\ role \in {"AGENT", "EXECUTOR"} => ~suspended
    /\ KeyOf[a] \notin revoked

Active == {p \in PolicyIds : policies[p].status = "ACTIVE"}

\* Each event fits the quota or the whole transaction is refused.
Audit(events) == audit + events <= MaxEntries /\ audit' = audit + events

\* An expired entry is gone from a durable store, but lingers in memory.
Retained(entry) == entry # None /\ (Durable => entry.expires > now)

NextEpoch == epoch' = epoch + 1

-----------------------------------------------------------------------------
(* Administration *)

revoke_credential(a, key) ==
    /\ Require(a, "ADMIN")
    /\ revoked' = revoked \cup {key}
    /\ NextEpoch /\ Audit(1)
    /\ UNCHANGED <<policies, suspended, receipts, reviews, tasks, issued, now>>

\* Mutant of suspend_tenant: the epoch is left alone.
MutSuspend(a, on) ==
    /\ Require(a, "ADMIN")
    /\ suspended' = on
    /\ Audit(1)
    /\ UNCHANGED <<policies, epoch, revoked, receipts, reviews, tasks, issued, now>>

suspend_tenant(a, on) ==
    /\ Require(a, "ADMIN")
    /\ suspended' = on
    /\ NextEpoch /\ Audit(1)
    /\ UNCHANGED <<policies, revoked, receipts, reviews, tasks, issued, now>>

create_draft(a, p, draft) ==
    /\ Require(a, "ADMIN")
    /\ policies[p] = None
    /\ policies' = [policies EXCEPT ![p] =
           [status |-> "DRAFT", draft |-> draft, created_by |-> SubjectOf[a]]]
    /\ Audit(1)
    /\ UNCHANGED <<epoch, suspended, revoked, receipts, reviews, tasks, issued, now>>

submit_policy(a, p) ==
    /\ Require(a, "ADMIN")
    /\ policies[p].status = "DRAFT" /\ policies[p].created_by = SubjectOf[a]
    /\ policies' = [policies EXCEPT ![p].status = "PENDING_APPROVAL"]
    /\ Audit(1)
    /\ UNCHANGED <<epoch, suspended, revoked, receipts, reviews, tasks, issued, now>>

\* Retires whatever is active and activates p.
Activate(p) ==
    policies' = [q \in PolicyIds |->
        IF q = p THEN [policies[q] EXCEPT !.status = "ACTIVE"]
        ELSE IF q \in Active THEN [policies[q] EXCEPT !.status = "ROLLED_BACK"]
        ELSE policies[q]]

approve_policy(a, p) ==
    /\ Require(a, "APPROVER")
    /\ policies[p].status = "PENDING_APPROVAL" /\ policies[p].created_by # SubjectOf[a]
    /\ Activate(p)
    /\ NextEpoch /\ Audit(1)
    /\ UNCHANGED <<suspended, revoked, receipts, reviews, tasks, issued, now>>

rollback(a, p) ==
    /\ Require(a, "APPROVER")
    /\ policies[p].status = "ROLLED_BACK"
    /\ Activate(p)
    /\ NextEpoch /\ Audit(1)
    /\ UNCHANGED <<suspended, revoked, receipts, reviews, tasks, issued, now>>

register(a, t, agent) ==
    /\ Require(a, "ADMIN")
    /\ tasks[t] = None /\ KeyOf[agent] # NoKey
    /\ tasks' = [tasks EXCEPT ![t] = [status |-> "registered", agent |-> agent, domain |-> TRUE]]
    /\ Audit(1)
    /\ UNCHANGED <<policies, epoch, suspended, revoked, receipts, reviews, issued, now>>

\* Approves the ledger of a task taken over from an older store; whatever was
\* issued for it before is withdrawn.
bind_legacy_domain(a, t) ==
    /\ Require(a, "ADMIN")
    /\ tasks[t] # None /\ ~tasks[t].domain
    /\ tasks' = [tasks EXCEPT ![t].domain = TRUE]
    /\ issued' = [n \in Nonces |->
           IF issued[n] # None /\ TaskOfAction[issued[n].action] = t THEN None ELSE issued[n]]
    /\ Audit(1)
    /\ UNCHANGED <<policies, epoch, suspended, revoked, receipts, reviews, now>>

\* New signing keys in a new database, which takes the place of the old one:
\* whatever was decided or issued is dropped, and an epoch that was in use ends.
rekey(a) ==
    /\ Durable /\ epoch < MaxRekeyed
    /\ (\E p \in PolicyIds : policies[p] # None) => Require(a, "ADMIN")
    /\ epoch' = IF epoch = 0 THEN 0 ELSE epoch + 1
    /\ receipts' = [ak \in Actors \X Keys |-> None]
    /\ reviews' = [r \in ReviewIds |-> None]
    /\ issued' = [n \in Nonces |-> None]
    /\ UNCHANGED <<policies, suspended, revoked, tasks, audit, now>>

-----------------------------------------------------------------------------
(* evaluate *)

\* What the policy in force says now.
Decide(x) == IF Active = {} THEN {"BLOCK"} ELSE {policies[p].draft[x] : p \in Active}

\* The receipt an evaluation ends with: a cached one for this very action and
\* epoch, or a new one; a stale or foreign cached one is a conflict.
Outcomes(a, x, k) ==
    LET cached == receipts[<<a, k>>]
    IN IF Retained(cached)
       THEN {rec \in {cached} : rec.action = x /\ rec.epoch = epoch /\ rec.expires > now}
       ELSE UNION {{[status |-> "receipt", action |-> x, epoch |-> epoch,
                     expires |-> now + ReceiptTTL, decision |-> d, review |-> r] :
                        r \in IF d = "ESCALATE" THEN {i \in ReviewIds : reviews[i] = None}
                                                ELSE {None}} : d \in Decide(x)}

Admitted(a, x) == Require(a, "AGENT") /\ KeyOf[a] # NoKey /\ x \in ScopeOf[a]

evaluate(a, x, k) ==
    /\ Admitted(a, x)
    /\ ~Retained(receipts[<<a, k>>])
    /\ \E rec \in Outcomes(a, x, k) :
          /\ receipts' = [receipts EXCEPT ![<<a, k>>] = rec]
          /\ IF rec.decision = "ESCALATE"
             THEN /\ reviews' = [reviews EXCEPT ![rec.review] =
                        [status |-> "pending", resolution |-> "none", agent |-> a, action |-> x,
                         epoch |-> epoch, expires |-> now + ReviewTTL, by |-> None, grant |-> None]]
                  /\ Audit(2)
             ELSE UNCHANGED reviews /\ Audit(1)
    /\ UNCHANGED <<policies, epoch, suspended, revoked, tasks, issued, now>>

resolve_review(a, r, resolution) ==
    /\ Require(a, "REVIEWER")
    /\ Retained(reviews[r])
    /\ reviews[r].status = "pending" /\ reviews[r].epoch = epoch
    /\ SubjectOf[reviews[r].agent] # SubjectOf[a]
    /\ IF reviews[r].expires < now
       THEN reviews' = [reviews EXCEPT ![r].status = "expired"] /\ UNCHANGED audit
       ELSE /\ reviews' = [reviews EXCEPT ![r].status = "resolved",
                              ![r].resolution = resolution, ![r].by = SubjectOf[a]]
            /\ Audit(1)
    /\ UNCHANGED <<policies, epoch, suspended, revoked, receipts, tasks, issued, now>>

-----------------------------------------------------------------------------
(* ExecutionAuthority.issue and .validate *)

\* _task for an agent whose role was established.
TaskAdmits(agent, x) ==
    /\ ~suspended /\ KeyOf[agent] \notin revoked
    /\ LET task == tasks[TaskOfAction[x]]
       IN task # None /\ task.agent = agent /\ task.domain
    /\ x \in Permitted

\* Mutant of Approved: a review that already issued a grant issues another.
MutApproved(r, a, x) ==
    /\ Retained(reviews[r])
    /\ reviews[r].status = "resolved" /\ reviews[r].resolution = "ALLOW"
    /\ reviews[r].expires > now /\ reviews[r].action = x
    /\ reviews[r].epoch = epoch /\ reviews[r].agent = a

Approved(r, a, x) ==
    /\ Retained(reviews[r])
    /\ reviews[r].status = "resolved" /\ reviews[r].resolution = "ALLOW"
    /\ reviews[r].grant = None
    /\ reviews[r].expires > now /\ reviews[r].action = x
    /\ reviews[r].epoch = epoch /\ reviews[r].agent = a

issue(a, x, k, audience, n) ==
    /\ Admitted(a, x) /\ TaskAdmits(a, x)
    /\ issued[n] = None
    /\ \E rec \in Outcomes(a, x, k), p \in Active :
          /\ \/ rec.decision = "ALLOW" /\ UNCHANGED reviews
             \/ /\ rec.decision = "ESCALATE" /\ Approved(rec.review, a, x)
                /\ reviews' = [reviews EXCEPT ![rec.review].grant = n]
          /\ Audit(IF receipts[<<a, k>>] = rec THEN 1 ELSE 2)
          /\ receipts' = [receipts EXCEPT ![<<a, k>>] = rec]
          /\ issued' = [issued EXCEPT ![n] =
                 [status |-> "issued", agent |-> a, audience |-> audience, action |-> x,
                  policy |-> p, epoch |-> epoch, expires |-> now + GrantTTL]]
    /\ UNCHANGED <<policies, epoch, suspended, revoked, tasks, now>>

\* Mutants of validate: a grant is good for its lifetime; the epoch is not compared.
MutValidUntilExpiry(e, n) ==
    /\ Require(e, "EXECUTOR") /\ "AGENT" \notin RolesOf[e] /\ KeyOf[e] # NoKey
    /\ issued[n] # None /\ SubjectOf[issued[n].audience] = SubjectOf[e]
    /\ issued[n].expires > now

MutValidInAnyEpoch(e, n) ==
    /\ Require(e, "EXECUTOR") /\ "AGENT" \notin RolesOf[e] /\ KeyOf[e] # NoKey
    /\ issued[n] # None /\ SubjectOf[issued[n].audience] = SubjectOf[e]
    /\ issued[n].expires > now
    /\ TaskAdmits(issued[n].agent, issued[n].action)

\* The answer validate gives executor e about grant n: it changes nothing.
validate(e, n) ==
    /\ Require(e, "EXECUTOR") /\ "AGENT" \notin RolesOf[e] /\ KeyOf[e] # NoKey
    /\ issued[n] # None /\ SubjectOf[issued[n].audience] = SubjectOf[e]
    /\ issued[n].expires > now /\ issued[n].epoch = epoch
    /\ TaskAdmits(issued[n].agent, issued[n].action)

-----------------------------------------------------------------------------
Tick == now < MaxTime /\ now' = now + 1
        /\ UNCHANGED <<policies, epoch, suspended, revoked, receipts, reviews, tasks, issued, audit>>

ControlInit ==
    /\ policies = [p \in PolicyIds |-> None]
    /\ epoch = 0 /\ suspended = FALSE /\ revoked = {}
    /\ receipts = [ak \in Actors \X Keys |-> None]
    /\ reviews = [r \in ReviewIds |-> None]
    /\ tasks = [t \in Tasks |-> IF t \in DOMAIN LegacyAgent
                                THEN [status |-> "registered", agent |-> LegacyAgent[t], domain |-> FALSE]
                                ELSE None]
    /\ issued = [n \in Nonces |-> None]
    /\ audit = 0 /\ now = 0

Administration(a) ==
    \/ \E key \in Credentials : revoke_credential(a, key)
    \/ \E on \in BOOLEAN : suspend_tenant(a, on)
    \/ \E p \in PolicyIds : \/ \E draft \in Drafts : create_draft(a, p, draft)
                            \/ submit_policy(a, p)
                            \/ approve_policy(a, p)
                            \/ rollback(a, p)
    \/ \E t \in Tasks : \/ \E agent \in Actors : register(a, t, agent)
                        \/ bind_legacy_domain(a, t)
    \/ rekey(a)

ControlNext ==
    \/ \E a \in Actors :
          \/ Administration(a)
          \/ \E x \in Actions, k \in Keys :
                \/ evaluate(a, x, k)
                \/ \E e \in Audiences, n \in Nonces : issue(a, x, k, e, n)
          \/ \E r \in ReviewIds, resolution \in {"ALLOW", "BLOCK"} : resolve_review(a, r, resolution)
    \/ Tick

ControlSpec == ControlInit /\ [][ControlNext]_controlVars

-----------------------------------------------------------------------------
(* What an agent sees of all this *)

\* A receipt without its review, and with what is left of its lifetime.
SeenReceipt(r) ==
    IF ~Retained(r) THEN [status |-> "none"]
    ELSE IF r.expires <= now THEN [status |-> "expired"]
    ELSE [status |-> "receipt", action |-> r.action, epoch |-> r.epoch, decision |-> r.decision,
          left |-> r.expires - now]

SeenBy(a) == INSTANCE AgentAuthority WITH
    Contents <- Drafts,
    Table <- [d \in Drafts |-> d],
    Scope <- ScopeOf[a],
    Lifetime <- ReceiptTTL,
    inForce <- {policies[p].draft : p \in Active},
    barred <- (suspended \/ KeyOf[a] \in revoked),
    receipts <- [k \in Keys |-> SeenReceipt(receipts[<<a, k>>])],
    durable <- Durable

Agents == {a \in Actors : "AGENT" \in RolesOf[a] /\ KeyOf[a] # NoKey}

-----------------------------------------------------------------------------
(* Properties *)

ValidNow(n) == \E e \in Actors : validate(e, n)

\* However drafts, approvals and rollbacks interleave, one policy is in force.
OneActivePolicy == \A p, q \in Active : p = q

\* Whatever an executor is told is valid is what the policy in force allows
\* now: the very policy that authorized the grant, not revoked, not suspended,
\* and allowed outright or by a review.
ValidGrantIsAuthorizedNow ==
    \A n \in Nonces : ValidNow(n) =>
        /\ issued[n].policy \in Active
        /\ policies[issued[n].policy].draft[issued[n].action] \in {"ALLOW", "ESCALATE"}
        /\ ~suspended /\ KeyOf[issued[n].agent] \notin revoked

\* "An approved review can issue one grant": a grant for an action its policy
\* escalates has a review of its own, of the same action and agent, resolved by
\* somebody else.
EscalatedGrantHasOwnReview ==
    \A n \in Nonces :
        issued[n] # None /\ policies[issued[n].policy].draft[issued[n].action] = "ESCALATE"
        => \E r \in ReviewIds :
              /\ reviews[r] # None /\ reviews[r].grant = n
              /\ reviews[r].resolution = "ALLOW" /\ reviews[r].action = issued[n].action
              /\ reviews[r].agent = issued[n].agent
              /\ reviews[r].by # SubjectOf[issued[n].agent]

\* A grant that stopped being valid (policy change or rollback, suspension,
\* revocation, expiry) is never valid again, also after the change is undone.
InvalidIsFinal ==
    [][\A n \in Nonces : issued[n] # None /\ ~ValidNow(n) => ~ValidNow(n)']_controlVars

\* What an agent's client relies on: whatever administrators, approvers and other
\* agents do, the policy it is decided by and its own admission change only with
\* the epoch, and a receipt stays what it was until it expires or is dropped.
EpochTellsChange ==
    /\ \A a \in Agents : SeenBy(a)!AuthorityInit
    /\ [][\A a \in Agents : SeenBy(a)!AuthorityNext \/ UNCHANGED SeenBy(a)!authorityVars]_controlVars
=============================================================================

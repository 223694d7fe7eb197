---------------------------- MODULE PolicyClient ----------------------------
(***************************************************************************)
(* TraceGuardClient and SignedPolicyCache (src/traceguard/sdk.py) of one     *)
(* agent, against the authority of AgentAuthority: remote evaluation, the   *)
(* signed bundle as fallback for reads, and the reconciliation of what was  *)
(* decided offline.                                                         *)
(*                                                                         *)
(* A call that fails in transit may have been handled before it failed, may *)
(* still be handled later, or never.  Bundles are fetched by the            *)
(* application, which may install them late, out of order and repeatedly.   *)
(* A client that restarts has lost its bundle and its queue.                *)
(***************************************************************************)
EXTENDS AgentAuthority, Sequences, FiniteSets

CONSTANTS
    OperationOf,        \* operation of an action
    ReadOnly,           \* HTTP reads without a body
    AllowedOperations,  \* of the credential; with "any" for one without scope
    RulesOf, DefaultOf, \* a policy content: its rules and its default decision
    ActionOf,           \* the action an idempotency key was made for
    BundleTTL,
    Lag,                \* of the client's clock behind the authority's
    Tolerance,          \* of a bundle that comes from the future
    QueueLimit,
    MaxEpoch,           \* bound on administration
    MaxSigned           \* bound on bundles on their way

VARIABLES
    signed,      \* bundles the authority has signed, until they expire
    bundle,      \* the installed bundle, if any
    queue,       \* _offline_events, by idempotency key
    call,        \* what the client waits for
    answer,
    abandoned,   \* the last request the client gave up and the authority may still get
    owed,        \* offline decisions of this process that the authority has not heard of
    superseded   \* how long ago an epoch ended, up to Window

clientVars == <<signed, bundle, queue, call, answer, abandoned>>
vars == <<authorityVars, clientVars, owed, superseded>>

Decisions == {"ALLOW", "BLOCK", "ESCALATE", "REWRITE"}
Idle == [method |-> "none"]
Methods == {"evaluate", "reconcile"}

-----------------------------------------------------------------------------
(* select_rule *)

Precedence == [ALLOW |-> 0, REWRITE |-> 1, ESCALATE |-> 2, BLOCK |-> 3]

Below(r, q) ==
    LET key(rule) == <<Precedence[rule.decision], rule.priority, rule.id>>
    IN \E i \in 1..3 : key(r)[i] < key(q)[i] /\ \A j \in 1..(i - 1) : key(r)[j] = key(q)[j]

\* The rule that decides, if one matches.
select_rule(rules, x) ==
    {r \in rules : x \in r.matches /\ \A q \in rules : x \in q.matches => ~Below(r, q)}

Evaluated(c, x) ==
    IF select_rule(RulesOf[c], x) = {} THEN {DefaultOf[c]}
    ELSE {r.decision : r \in select_rule(RulesOf[c], x)}

\* Mutant of InScope: rules about operations the credential does not have are
\* left out, whatever they decide.
MutInScope(rules) == {r \in rules : r.operation \in AllowedOperations}

\* The rules a bundle for the credential carries.
InScope(rules) == {r \in rules : r.decision # "ALLOW" \/ r.operation \in AllowedOperations}

Rule == [id: Nat, decision: Decisions, priority: Nat, matches: SUBSET Actions,
         operation: {OperationOf[x] : x \in Actions} \cup {"any"}, cache_eligible: BOOLEAN]

ASSUME ClientConstants ==
    /\ Scope = {x \in Actions : OperationOf[x] \in AllowedOperations}
    /\ "any" \in AllowedOperations => Scope = Actions
    /\ ReadOnly \subseteq Actions
    /\ \A c \in Contents : IsFiniteSet(RulesOf[c])
    /\ \A c \in Contents : \A r \in RulesOf[c] :
          r \in Rule /\ (r.operation # "any" => \A x \in r.matches : OperationOf[x] = r.operation)
    /\ \A c \in Contents, x \in Actions : Evaluated(c, x) = {Table[c][x]}
    /\ ActionOf \in [Keys -> Actions]
    /\ Lifetime \in Nat \ {0} /\ BundleTTL \in Nat \ {0} /\ Lag \in Nat /\ Tolerance \in Nat
    /\ QueueLimit \in Nat \ {0} /\ MaxEpoch \in Nat /\ MaxSigned \in Nat \ {0}

-----------------------------------------------------------------------------
(* Bundles *)

\* How long a bundle can be used, by the authority's clock.
Window == BundleTTL + Lag

Bundles == [content: Contents, epoch: 1..MaxEpoch, age: 0..Window]

ClientTypeOK ==
    /\ inForce \subseteq Contents /\ epoch \in 0..MaxEpoch /\ barred \in BOOLEAN
    /\ signed \subseteq Bundles
    /\ bundle \subseteq Bundles /\ Cardinality(bundle) <= 1
    /\ queue \in Seq(Keys) /\ Len(queue) <= QueueLimit
    /\ call = Idle \/ call \in [method: Methods, key: Keys]
    /\ answer \in {"none", "decided"}
    /\ abandoned \subseteq Keys /\ owed \subseteq Keys
    /\ superseded \in [1..MaxEpoch -> 0..Window]
    /\ durable \in BOOLEAN

signed_bundle ==
    /\ ~barred
    /\ Cardinality(signed) < MaxSigned
    /\ \E c \in inForce :
          /\ "any" \in AllowedOperations \/ InScope(RulesOf[c]) # {}
          /\ signed' = signed \cup {[content |-> c, epoch |-> epoch, age |-> 0]}
    /\ UNCHANGED <<authorityVars, bundle, queue, call, answer, abandoned, owed, superseded>>

\* Mutant of Current: only install() looks at the lifetime.
MutCurrent(b) == TRUE

\* expires_at > now, by the client's clock.
Current(b) == b.age < Window

Installable(b) ==
    /\ \A installed \in bundle : b.epoch >= installed.epoch
    /\ Current(b) /\ Lag <= b.age + Tolerance

install(b) ==
    /\ call = Idle
    /\ Installable(b)
    /\ bundle' = {b}
    /\ UNCHANGED <<authorityVars, signed, queue, call, answer, abandoned, owed, superseded>>

\* SignedPolicyCache.evaluate: the rule of the installed bundle that allows it.
CacheAllows(k) ==
    \E b \in bundle :
        /\ Current(b)
        /\ ActionOf[k] \in ReadOnly
        /\ \E r \in select_rule(InScope(RulesOf[b.content]), ActionOf[k]) :
              r.decision = "ALLOW" /\ r.cache_eligible

-----------------------------------------------------------------------------
(* TraceGuardClient *)

Send(method, k) == call' = [method |-> method, key |-> k] /\ answer' = "none"
Return == call' = Idle /\ answer' = "none"

\* A request that was not answered may still be on its way.
Abandon ==
    IF call # Idle /\ answer = "none" THEN abandoned' = {call.key} ELSE UNCHANGED abandoned

evaluate(k) ==
    /\ call = Idle
    /\ Send("evaluate", k)
    /\ UNCHANGED <<authorityVars, signed, bundle, queue, abandoned, owed, superseded>>

reconcile ==
    /\ call = Idle /\ queue # << >>
    /\ Send("reconcile", Head(queue))
    /\ UNCHANGED <<authorityVars, signed, bundle, queue, abandoned, owed, superseded>>

\* An offline decision, if the cache allows it and there is room to record it.
Fallback(k) ==
    IF CacheAllows(k) /\ Len(queue) < QueueLimit
    THEN queue' = Append(queue, k) /\ owed' = owed \cup {k}
    ELSE UNCHANGED <<queue, owed>>

\* Mutant of Answered: what was decided stays at the head of the queue.
MutAnswered ==
    /\ answer # "none"
    /\ IF call.method = "reconcile"
       THEN Send("reconcile", Head(queue))
       ELSE Return
    /\ UNCHANGED <<authorityVars, signed, bundle, queue, abandoned, owed, superseded>>

\* A decision arrives; reconcile() goes on with the next event.
Answered ==
    /\ answer # "none"
    /\ IF call.method = "reconcile"
       THEN /\ queue' = Tail(queue)
            /\ IF Tail(queue) = << >> THEN Return ELSE Send("reconcile", Head(Tail(queue)))
       ELSE Return /\ UNCHANGED queue
    /\ UNCHANGED <<authorityVars, signed, bundle, abandoned, owed, superseded>>

\* Mutant of TransportFails: an event leaves the queue when it is sent.
MutTransportFails ==
    /\ call # Idle
    /\ IF call.method = "evaluate" THEN Fallback(call.key)
       ELSE queue' = Tail(queue) /\ UNCHANGED owed
    /\ Abandon
    /\ Return
    /\ UNCHANGED <<authorityVars, signed, bundle, superseded>>

\* The connection breaks or the five seconds are over, before or after the
\* authority handled the request.
TransportFails ==
    /\ call # Idle
    /\ IF call.method = "evaluate" THEN Fallback(call.key) ELSE UNCHANGED <<queue, owed>>
    /\ Abandon
    /\ Return
    /\ UNCHANGED <<authorityVars, signed, bundle, superseded>>

\* An explicit refusal (403, 409, or 429 and 413 of admission), an answer the
\* client does not accept and a TLS failure are no outage: the call ends with an
\* error, and there is no fallback from it.
Unacceptable ==
    /\ call # Idle
    /\ Return
    /\ UNCHANGED <<authorityVars, signed, bundle, queue, abandoned, owed, superseded>>

\* The process ends and is configured anew.
Restart ==
    /\ bundle' = {} /\ queue' = << >> /\ owed' = {}
    /\ Abandon
    /\ Return
    /\ UNCHANGED <<authorityVars, signed, superseded>>

-----------------------------------------------------------------------------
(* The authority and the network *)

\* The request reaches the authority: it evaluates, or finds its receipt.
Handle(k) ==
    /\ \/ Evaluate(ActionOf[k], k)
       \/ ~barred /\ Answers(k, ActionOf[k]) /\ UNCHANGED authorityVars
    /\ owed' = owed \ {k}

HandleCall ==
    /\ call # Idle /\ answer = "none"
    /\ Handle(call.key)
    /\ answer' = "decided"
    /\ UNCHANGED <<signed, bundle, queue, call, abandoned, superseded>>

\* A request nobody waits for is handled after all, or lost.
HandleAbandoned(k) ==
    /\ k \in abandoned
    /\ abandoned' = abandoned \ {k}
    /\ Handle(k) \/ UNCHANGED <<authorityVars, owed>>
    /\ UNCHANGED <<signed, bundle, queue, call, answer, superseded>>

Administration ==
    /\ epoch < MaxEpoch
    /\ \E content \in {inForce} \cup {{c} : c \in Contents}, refused \in BOOLEAN :
          Change(content, refused)
    /\ UNCHANGED <<signed, bundle, queue, call, answer, abandoned, owed, superseded>>

Older(b) == [b EXCEPT !.age = IF @ < Window THEN @ + 1 ELSE @]

Time ==
    /\ Pass
    /\ signed' = {Older(b) : b \in {s \in signed : s.age + 1 < Window}}
    /\ bundle' = {Older(b) : b \in bundle}
    /\ superseded' = [e \in 1..MaxEpoch |->
           IF e < epoch /\ superseded[e] < Window THEN superseded[e] + 1 ELSE superseded[e]]
    /\ UNCHANGED <<queue, call, answer, abandoned, owed>>

-----------------------------------------------------------------------------
ClientInit ==
    /\ AuthorityInit
    /\ signed = {} /\ bundle = {}
    /\ queue = << >> /\ call = Idle /\ answer = "none" /\ abandoned = {}
    /\ owed = {}
    /\ superseded = [e \in 1..MaxEpoch |-> 0]

ClientNext ==
    \/ signed_bundle
    \/ \E b \in signed : install(b)
    \/ \E k \in Keys : evaluate(k) \/ HandleAbandoned(k)
    \/ reconcile \/ Answered \/ TransportFails \/ Unacceptable \/ Restart
    \/ HandleCall \/ Administration \/ Time

\* Every call ends within its timeout and time passes; the application keeps
\* reconciling, and of requests sent again and again some are admitted and their
\* answers received.
ClientSpec ==
    /\ ClientInit /\ [][ClientNext]_vars
    /\ WF_vars(Time) /\ WF_vars(Answered \/ TransportFails \/ Unacceptable)
    /\ SF_vars(reconcile)
    /\ SF_vars(HandleCall /\ call.method = "reconcile")
    /\ SF_vars(Answered /\ call.method = "reconcile")

-----------------------------------------------------------------------------
(* Properties *)

\* An offline decision is the one the authority itself takes under the policy
\* of the bundle: leaving rules out of the bundle, by the credential's scope,
\* never turns a refusal into permission or permits what is out of scope.
CacheAgreesWithAuthority ==
    \A b \in bundle, k \in Keys : CacheAllows(k) =>
        Table[b.content][ActionOf[k]] = "ALLOW" /\ ActionOf[k] \in Scope

\* Suspension, revocation and a new policy take effect on a client that cannot
\* reach the authority as well, whichever bundles reach it late or again: what it
\* allows offline, an epoch allowed that ended less than a bundle's lifetime (and
\* the client's lag) ago.
StalePolicyIsBounded ==
    \A b \in bundle : Current(b) => b.epoch = epoch \/ superseded[b.epoch] < Window

\* Every decision a client took on its own is still to be reported or has
\* reached the audit chain, however calls fail and are repeated.
OfflineIsAccounted ==
    \A k \in owed : \E i \in DOMAIN queue : queue[i] = k

\* The head of the queue has a receipt already, of an attempt whose answer was
\* lost, and the receipt has expired or its epoch ended: repeating it is a conflict.
Blocked ==
    /\ queue # << >>
    /\ receipts[Head(queue)] # NoReceipt
    /\ ~Answers(Head(queue), ActionOf[Head(queue)])

\* A queued decision is reported in the end unless the credential stays refused,
\* or, in the in-memory service alone, the queue stays blocked.  "Receipt expiry
\* or policy activation/rollback requires a new key" (docs/control_plane.md) and
\* reconcile() has only the old one: there it is refused for ever, with all that
\* is queued behind it.  The SQLite store prunes the receipt in the end and lets
\* the old key decide again, against that document.
QueuedIsReported ==
    <>[]~barred /\ ~<>[](~durable /\ Blocked) => \A k \in Keys : k \in owed ~> k \notin owed
=============================================================================

-------------------------- MODULE InspectExecutor --------------------------
(***************************************************************************)
(* Native dispatch for Inspect: GuardedInspectExecutor.execute              *)
(* (src/traceguard/integrations/inspect_executor.py) and the approval       *)
(* callback (integrations/inspect.py), both over one SupervisionGateway     *)
(* per process, and over one ledger that processes share.                   *)
(*                                                                         *)
(* A process is one asyncio thread: a coroutine gives way to the others of  *)
(* its process only while it awaits its tool.  Other processes run at any   *)
(* time, and every process may die and start again with an empty gateway.   *)
(*                                                                         *)
(* The nonce stands for the native call id, which it is derived from, and   *)
(* is the idempotency key too.  A digest is the normalized call.            *)
(***************************************************************************)
EXTENDS ExecutionLedger, Supervision, Bags

CONSTANTS
    Processes, Coroutines,
    ProcessOf,        \* the process of a coroutine
    GrantOf,          \* the approved task authority of a process
    ModeOf,           \* its supervisor mode
    ScopeOf,          \* ledger scope: task id and digest of the compiled grant
    ResultPolicyOf,   \* result policy: its version and the same digest
    Histories         \* native conversations, as the observations read from them

Cost(call) == IF call.tool \in Payments THEN Amount(call) ELSE 0

ASSUME InspectConstants ==
    /\ ProcessOf \in [Coroutines -> Processes]
    /\ \A p \in Processes :
          /\ validate_authority(GrantOf[p]) /\ ModeOf[p] \in Modes
          /\ GrantOf[p].maximum \in Nat \cup {NoMaximum}
          /\ ScopeOf[p] \in Scopes /\ ResultPolicyOf[p] \in Policies
          /\ IF GrantOf[p].maximum = NoMaximum THEN Limit[TaskOf[ScopeOf[p]]] = NoLimit
             ELSE Limit[TaskOf[ScopeOf[p]]] = GrantOf[p].maximum
          /\ \A d \in Digests : d \in Repeatable <=> d.tool \in GrantOf[p].repeatable
    /\ {normalize_read(c) : c \in Calls} \subseteq Digests
    /\ EffectOf = [d \in Digests |-> d]
    /\ AmountOf = [d \in Digests |-> Cost(d)]
    /\ Keys = Nonces
    /\ \A obs \in Histories : IsFiniteSet(obs)

VARIABLES
    gateway,   \* process -> [history, escalated]
    runner,    \* coroutine -> what its execute() is doing
    runs,      \* observed: the bag of runs of native tools
    approved   \* observed: calls with effects that the approval callback let pass

inspectVars == <<executions, reconciliations, released, gateway, runner, runs, approved>>

Idle == [pc |-> "idle"]
At(c, step) == runner[c].pc = step
Goto(c, step) == runner' = [runner EXCEPT ![c].pc = step]
Return(c) == runner' = [runner EXCEPT ![c] = Idle]
Owns(c, n) == runner[c].pc \in {"await", "ran", "raised"} /\ runner[c].nonce = n

\* The thread of the process is inside a coroutine that is not awaiting.
Busy(p) == \E c \in Coroutines : ProcessOf[c] = p /\ At(c, "reserve")

GatewayOf(p) == [grant |-> GrantOf[p], mode |-> ModeOf[p],
                 history |-> gateway[p].history, escalated |-> gateway[p].escalated]

Note(p, decision) ==
    gateway' = [gateway EXCEPT ![p].escalated = @ \/ decision = "ESCALATE"]

\* SupervisionGateway.observation
Observed(p, call) == gateway' = [gateway EXCEPT ![p].history = Append(@, call)]

-----------------------------------------------------------------------------
(* execute *)

\* The check of the current grant that comes before everything else.  It does not
\* count the calls made so far; a refusal raises and changes nothing.
Current == {proposal \in Processes \X Calls \X Histories :
               Compiled(proposal[2], proposal[3], GrantOf[proposal[1]], <<>>) = {"ALLOW"}}

\* The row will have digest d; the tool will get the arguments of `call`, which is
\* observed to be within the grant as it is meant, or not.
Reserving(c, n, d, call, obs) ==
    runner' = [runner EXCEPT ![c] =
        [pc |-> "reserve", nonce |-> n, digest |-> d, call |-> call,
         granted |-> Granted(call, obs, GrantOf[ProcessOf[c]])]]

\* Mutant of Propose: a rewrite is dispatched under the id of the original.
MutPropose(c, n, call, obs) ==
    LET p == ProcessOf[c]
        proposed == normalize_read(call)
    IN /\ At(c, "idle") /\ ~Busy(p)
       /\ <<p, call, obs>> \in Current
       /\ \/ Present(n) /\ Reserving(c, n, proposed, proposed, obs) /\ UNCHANGED gateway
          \/ /\ ~Present(n)
             /\ \E out \in evaluate(call, obs, GatewayOf(p)) :
                   /\ Note(p, out.decision)
                   /\ IF out.decision = "ALLOW" THEN Reserving(c, n, proposed, out.call, obs)
                                                ELSE UNCHANGED runner
       /\ UNCHANGED <<ledgerVars, runs, approved>>

\* An id the ledger has not seen is put before the gateway, and a rewrite of the
\* call is refused.
Propose(c, n, call, obs) ==
    LET p == ProcessOf[c]
        proposed == normalize_read(call)
    IN /\ At(c, "idle") /\ ~Busy(p)
       /\ <<p, call, obs>> \in Current
       /\ \/ Present(n) /\ Reserving(c, n, proposed, proposed, obs) /\ UNCHANGED gateway
          \/ /\ ~Present(n)
             /\ \E out \in evaluate(call, obs, GatewayOf(p)) :
                   /\ Note(p, out.decision)
                   /\ IF out.decision = "ALLOW" /\ out.call = proposed
                      THEN Reserving(c, n, proposed, proposed, obs) ELSE UNCHANGED runner
       /\ UNCHANGED <<ledgerVars, runs, approved>>

\* Other processes may have used the ledger since the lookup.  A replay returns
\* the accepted result or raises; a refusal raises.
Reserve(c) ==
    LET p == ProcessOf[c]
        n == runner[c].nonce
        d == runner[c].digest
    IN /\ At(c, "reserve")
       /\ \/ ReserveInsert(n, ScopeOf[p], n, d, ResultPolicyOf[p]) /\ Goto(c, "await")
          \/ ReserveReplay(n, ScopeOf[p], n, d, ResultPolicyOf[p]) /\ Return(c)
          \/ ReserveRefuse(n, ScopeOf[p], n, d) /\ Return(c)
       /\ UNCHANGED <<gateway, runs, approved>>

RunOf(c) == [nonce |-> runner[c].nonce, call |-> runner[c].call,
             task |-> TaskOf[ScopeOf[ProcessOf[c]]], granted |-> runner[c].granted]
Ran(c) == runs' = runs (+) SetToBag({RunOf(c)})

\* The native tool returns a usable result; or it raises, is cancelled or returns
\* something else, having run or not.
Run(c) ==
    /\ At(c, "await")
    /\ \/ Ran(c) /\ Goto(c, "ran")
       \/ (Ran(c) \/ UNCHANGED runs) /\ Goto(c, "raised")
    /\ UNCHANGED <<ledgerVars, gateway, approved>>

Doubt(c) ==
    /\ At(c, "raised") /\ ~Busy(ProcessOf[c])
    /\ finish(runner[c].nonce, "unknown", FALSE, "review_required")
    /\ Return(c)
    /\ UNCHANGED <<gateway, runs, approved>>

\* The result is stored as accepted, then the call joins the gateway's history; a
\* row somebody else settled raises instead.
RecordResult(c) ==
    LET p == ProcessOf[c] IN
    /\ At(c, "ran") /\ ~Busy(p)
    /\ finish(runner[c].nonce, "succeeded", TRUE, "accepted_for_agent")
    /\ IF Status(runner[c].nonce) = "pending" THEN Observed(p, runner[c].call) ELSE UNCHANGED gateway
    /\ Return(c)
    /\ UNCHANGED <<runs, approved>>

-----------------------------------------------------------------------------
(* The approval callback, and what happens around the executor *)

\* traceguard_inspect_approver: Inspect runs the call it asked about when the
\* answer is approve.  The kind of effect is judged by the call the gateway
\* returns.  A gateway never returns REWRITE, so nothing is ever modified.
Approve(p, call, obs) ==
    /\ ~Busy(p)
    /\ \E out \in evaluate(call, obs, GatewayOf(p)) :
          /\ Note(p, out.decision)
          /\ approved' = IF out.decision = "ALLOW" /\ Effect[out.call.tool] = "read" /\ Effect[call.tool] # "read"
                         THEN approved \cup {call} ELSE approved
    /\ UNCHANGED <<ledgerVars, runner, runs>>

\* The process dies; the application builds its gateway and executor anew.
Restart(p) ==
    /\ runner' = [c \in Coroutines |-> IF ProcessOf[c] = p THEN Idle ELSE runner[c]]
    /\ gateway' = [gateway EXCEPT ![p] = [history |-> <<>>, escalated |-> FALSE]]
    /\ UNCHANGED <<ledgerVars, runs, approved>>

RunsOf(n) == {r.call : r \in {r \in BagToSet(runs) : r.nonce = n}}

\* The application's trusted reconciliation: it knows what ran, and attests a
\* fence only when no coroutine still works on the call.
Reconcile(n, accept, fenced) ==
    LET ran == RunsOf(n) # {} IN
    /\ Uncertain(n)
    /\ accept => ran
    /\ fenced => \A c \in Coroutines : ~Owns(c, n)
    /\ reconcile(n, IF ran THEN "succeeded" ELSE "not_dispatched", accept,
                 IF accept THEN "accepted_for_agent" ELSE "review_required", fenced)
    /\ UNCHANGED <<gateway, runner, runs, approved>>

-----------------------------------------------------------------------------
InspectInit ==
    /\ LedgerInit
    /\ gateway = [p \in Processes |-> [history |-> <<>>, escalated |-> FALSE]]
    /\ runner = [c \in Coroutines |-> Idle]
    /\ runs = EmptyBag /\ approved = {}

InspectNext ==
    \/ \E c \in Coroutines :
          \/ \E n \in Nonces, call \in Calls, obs \in Histories : Propose(c, n, call, obs)
          \/ Reserve(c) \/ Run(c) \/ Doubt(c) \/ RecordResult(c)
    \/ \E p \in Processes : \/ \E call \in Calls, obs \in Histories : Approve(p, call, obs)
                            \/ Restart(p)
    \/ \E n \in Nonces, accept \in BOOLEAN, fenced \in BOOLEAN : Reconcile(n, accept, fenced)

InspectSpec == InspectInit /\ [][InspectNext]_inspectVars

-----------------------------------------------------------------------------
(* Properties *)

\* Whatever a native tool ran is within the grant of its process as the grant is
\* meant: tool, every consequential field and every value, read defaults included,
\* and delegated values from the one source that may give them.
OnlyGrantedRuns == \A r \in BagToSet(runs) : r.granted

\* "Repeated IDs return accepted receipts": one native id leads to one run, with
\* one content, and a content that is not repeatable runs once in its task,
\* whatever coroutine, process, grant or restart it comes from.
NativeCallRunsOnce ==
    /\ \A r \in BagToSet(runs) : runs[r] = 1
    /\ \A q, r \in BagToSet(runs) :
          q.nonce = r.nonce \/ (q.call = r.call /\ q.task = r.task /\ r.call \notin Repeatable) => q = r

\* "The ledger accounts for budgets and holds across concurrent wrappers and
\* restarts": what was really paid in a task stays within the grant's maximum,
\* although the history that the grant itself counts is lost with the process.
PaymentsWithinGrant ==
    \A p \in Processes :
        GrantOf[p].maximum # NoMaximum =>
            Total([r \in {q \in BagToSet(runs) : q.task = TaskOf[ScopeOf[p]]}
                   |-> Cost(r.call) * runs[r]]) <= GrantOf[p].maximum

\* The ledger tells the truth about native tools through exceptions, cancellation,
\* crashes and reconciliation, and what ran is the content of the row.
ReceiptsTellWhatRan ==
    \A n \in Nonces :
        /\ Status(n) = "not_dispatched" => RunsOf(n) = {}
        /\ Status(n) = "succeeded" => RunsOf(n) = {executions[n].digest}
        /\ RunsOf(n) # {} => Live(n)

\* "Task requires human review": from an escalation on, also one met by another
\* coroutine or by the callback, the process reserves nothing new.
EscalationStopsDispatch ==
    [][\A c \in Coroutines : gateway[ProcessOf[c]].escalated => ~(At(c, "reserve") /\ At(c, "await")')]_inspectVars

\* "In strict mode it rejects all consequential/unknown tools even when gateway
\* evaluation permits the proposal": the callback lets nothing pass but reads.
CallbackApprovesOnlyReads == approved = {}
=============================================================================

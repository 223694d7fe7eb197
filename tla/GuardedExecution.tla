-------------------------- MODULE GuardedExecution --------------------------
(***************************************************************************)
(* The embedded guard: SecuredTools / GuardedExecution.execute_call         *)
(* (src/traceguard/_enforcement.py) over one ExecutionLedger.               *)
(*                                                                         *)
(* A boundary is one running instance for the approved task.  It handles    *)
(* one call at a time (its RLock); several boundaries share the ledger, and *)
(* each may die and be reopened at any point, which empties its memory.     *)
(*                                                                         *)
(* An action digest stands for tool, arguments and resources of a call.     *)
(* Calls that only read run and end once they are planned: all they can do  *)
(* to this state is to escalate.  The supervisor is external: it may say    *)
(* anything, and something else the next time.                              *)
(***************************************************************************)
EXTENDS ExecutionLedger, Sequences

CONSTANTS
    Boundaries,
    BoundaryScope,   \* scope of its reservations: the compiled authority and the task
    BoundaryPolicy,  \* its result policy
    HasSandbox,      \* boundaries configured with a container runner
    Authority,       \* what the compiled authority says of a call, repetition aside
    Consequential,   \* calls whose tool mutates or runs a command
    Commands,        \* calls of restricted_command
    Replaces,        \* pairs <<call, rewrite>> that validate_replacement accepts
    PostRun          \* config.post_run_reevaluation

ASSUME GuardConstants ==
    /\ BoundaryScope \in [Boundaries -> Scopes]
    /\ BoundaryPolicy \in [Boundaries -> Policies]
    /\ HasSandbox \subseteq Boundaries
    /\ Authority \in [Digests -> {"ALLOW", "BLOCK", "ESCALATE"}]
    /\ Consequential \subseteq Digests
    /\ Commands \subseteq Consequential
    /\ Replaces \subseteq Digests \X Digests
    /\ Nonces \subseteq Keys
    /\ PostRun \in BOOLEAN

VARIABLES
    guard,      \* what each boundary is doing
    executed,   \* calls a boundary remembers as executed
    escalated,  \* whether its episode is escalated
    runs,       \* observed: how often a handler ran, or a container was launched, for a call id and content
    shown,      \* observed: call ids whose fresh result an agent received
    verdicts    \* observed: call ids whose result the post-run review accepted

guardVars == <<executions, reconciliations, released, guard, executed, escalated, runs, shown, verdicts>>
memoryVars == <<executed, escalated>>

Idle == [pc |-> "idle"]
OwningSteps == {"run", "cancel", "doubt", "record", "review", "decide"}
Targets == {"DEFAULT", "CONTAINER"}
Dispositioned == {"accepted_for_agent", "withheld", "review_required"}
Handling == [pc: {"reserve"} \cup OwningSteps, nonce: Nonces, digest: Digests, target: Targets,
             disposition: Dispositioned]

GuardTypeOK ==
    /\ TypeOK
    /\ guard \in [Boundaries -> Handling \cup {Idle}]
    /\ executed \in [Boundaries -> SUBSET Digests]
    /\ escalated \in [Boundaries -> BOOLEAN]
    /\ runs \in [Nonces \X Digests -> Nat]
    /\ shown \subseteq Nonces /\ verdicts \subseteq Nonces

At(b, step) == guard[b].pc = step
Goto(b, step) == guard' = [guard EXCEPT ![b].pc = step]
Return(b) == guard' = [guard EXCEPT ![b] = Idle]
Escalate(b) == escalated' = [escalated EXCEPT ![b] = TRUE]
Remember(b) == executed' = [executed EXCEPT ![b] = @ \cup {guard[b].digest}]
Owns(b, n) == guard[b].pc \in OwningSteps /\ guard[b].nonce = n

-----------------------------------------------------------------------------
(* merge_outputs (src/traceguard/supervisor/base.py) *)

Precedence == [ALLOW |-> 0, REWRITE |-> 1, ESCALATE |-> 2, BLOCK |-> 3]

Out(decision, severe, target, rewrite) ==
    [decision |-> decision, severe |-> severe, target |-> target, rewrite |-> rewrite]

\* The most restrictive opinion wins, the latest of equals; a container asked
\* for by anyone is kept; an ALLOW of high risk is escalated.
merge_outputs(outputs) ==
    LET Rank(i) == Precedence[outputs[i].decision]
        top == CHOOSE i \in DOMAIN outputs : \A j \in DOMAIN outputs :
                   Rank(j) < Rank(i) \/ (Rank(j) = Rank(i) /\ j <= i)
        winner == outputs[top]
        severe == \E i \in DOMAIN outputs : outputs[i].severe
        contained == \E i \in DOMAIN outputs : outputs[i].target = "CONTAINER"
    IN IF winner.decision = "ALLOW" /\ severe
       THEN Out("ESCALATE", TRUE, "none", winner.rewrite)
       ELSE [winner EXCEPT
               !.severe = severe,
               !.target = IF contained /\ winner.decision \in {"ALLOW", "REWRITE"}
                          THEN "CONTAINER" ELSE @]

\* What the deterministic policy and the supervisor may answer about a call the
\* compiled authority allows; only a rewrite carries a call.
Opinions ==
    LET Refusals == {Out(d, s, "none", "none") : d \in {"BLOCK", "ESCALATE"}, s \in BOOLEAN}
        Rewrites == {Out("REWRITE", FALSE, t, x) : t \in {"none", "CONTAINER"}, x \in Digests}
        Consents == {Out("ALLOW", s, t, "none") : s \in BOOLEAN, t \in {"none", "CONTAINER", "SIMULATED"}}
        any == Refusals \cup Rewrites \cup Consents
    IN {merge_outputs(<<Out("ALLOW", FALSE, "none", "none"), p, s>>) : p \in any, s \in any}

\* _evaluate: a denial by the compiled authority, which knows the calls this
\* boundary executed, is final.
Evaluations(b, d) ==
    IF Authority[d] # "ALLOW" THEN {Out(Authority[d], FALSE, "none", "none")}
    ELSE IF d \in Consequential /\ EffectOf[d] \notin Repeatable /\ d \in executed[b]
    THEN {Out("BLOCK", FALSE, "none", "none")}
    ELSE Opinions

-----------------------------------------------------------------------------
(* execute_call *)

\* The plan for call n with content d: reads and simulations do not touch the
\* ledger, and restricted_command never runs on the host.  A contained read
\* escalates without a container, and may with one: when it cannot be used, or
\* when the review of what was read fails or does not pass it.
Plan(b, n, d, target) ==
    LET real == /\ target # "SIMULATED" /\ d \in Consequential
                /\ d \in Commands => target = "CONTAINER"
        contained == d \notin Consequential /\ target = "CONTAINER"
    IN /\ guard' = [guard EXCEPT ![b] =
              IF real THEN [pc |-> "reserve", nonce |-> n, digest |-> d,
                            target |-> IF target = "CONTAINER" THEN target ELSE "DEFAULT",
                            disposition |-> "review_required"]
                      ELSE Idle]
       /\ \/ contained /\ Escalate(b)
          \/ (contained => b \in HasSandbox) /\ UNCHANGED escalated

\* Mutant of Rewritten: a rewrite is not evaluated again.
MutRewritten(b, n, d, first) == Plan(b, n, first.rewrite, first.target)

\* A rewrite that validate_replacement accepts is evaluated from the start; a
\* second rewrite escalates.
Rewritten(b, n, d, first) ==
    IF <<d, first.rewrite>> \notin Replaces THEN Escalate(b) /\ UNCHANGED guard
    ELSE \E second \in Evaluations(b, first.rewrite) :
          \/ /\ second.decision = "ALLOW"
             /\ Plan(b, n, first.rewrite,
                     IF second.target # "none" THEN second.target ELSE first.target)
          \/ second.decision \in {"ESCALATE", "REWRITE"} /\ Escalate(b) /\ UNCHANGED guard
          \/ second.decision = "BLOCK" /\ UNCHANGED <<guard, escalated>>

Evaluate(b, n, d) ==
    /\ At(b, "idle") /\ ~escalated[b]
    /\ \E first \in Evaluations(b, d) :
          \/ first.decision = "ALLOW" /\ Plan(b, n, d, first.target)
          \/ first.decision = "REWRITE" /\ Rewritten(b, n, d, first)
          \/ first.decision = "ESCALATE" /\ Escalate(b) /\ UNCHANGED guard
          \/ first.decision = "BLOCK" /\ UNCHANGED <<guard, escalated>>
    /\ UNCHANGED <<ledgerVars, executed, runs, shown, verdicts>>

\* Mutant of Reserve: a call whose outcome is unknown is tried again.
MutReserve(b) ==
    LET n == guard[b].nonce
        d == guard[b].digest
    IN /\ At(b, "reserve")
       /\ \/ ReserveInsert(n, BoundaryScope[b], n, d, BoundaryPolicy[b])
          \/ Status(n) = "unknown" /\ UNCHANGED ledgerVars
       /\ Goto(b, "run")
       /\ UNCHANGED <<memoryVars, runs, shown, verdicts>>

\* A replayed result that is not accepted escalates unless it was withheld; so
\* does every refusal of the ledger.
Reserve(b) ==
    LET n == guard[b].nonce
        d == guard[b].digest
    IN /\ At(b, "reserve")
       /\ \/ /\ ReserveInsert(n, BoundaryScope[b], n, d, BoundaryPolicy[b])
             /\ Goto(b, "run") /\ UNCHANGED escalated
          \/ /\ ReserveReplay(n, BoundaryScope[b], n, d, BoundaryPolicy[b])
             /\ Return(b)
             /\ escalated' = [escalated EXCEPT ![b] =
                    executions'[n].disposition \notin {"accepted_for_agent", "withheld"}]
          \/ ReserveRefuse(n, BoundaryScope[b], n, d) /\ Return(b) /\ Escalate(b)
       /\ UNCHANGED <<executed, runs, shown, verdicts>>

Ran(b) == runs' = [runs EXCEPT ![<<guard[b].nonce, guard[b].digest>>] = @ + 1]

\* The handler or the container runs and returns; or raises, having run or not.
\* A container that cannot be used before it starts cancels the reservation; an
\* exception the guard does not expect leaves the row pending.
Run(b) ==
    LET contained == guard[b].target = "CONTAINER" IN
    /\ At(b, "run")
    /\ IF contained /\ b \notin HasSandbox
       THEN Goto(b, "cancel") /\ UNCHANGED <<runs, executed>>
       ELSE \/ Ran(b) /\ Goto(b, "record") /\ IF contained THEN Remember(b) ELSE UNCHANGED executed
            \/ (Ran(b) \/ UNCHANGED runs) /\ Goto(b, "doubt") /\ UNCHANGED executed
            \/ contained /\ (Ran(b) \/ UNCHANGED runs) /\ Return(b) /\ UNCHANGED executed
    /\ UNCHANGED <<ledgerVars, escalated, shown, verdicts>>

Cancel(b) ==
    /\ At(b, "cancel")
    /\ finish(guard[b].nonce, "not_dispatched", FALSE, "review_required")
    /\ Return(b) /\ Escalate(b)
    /\ UNCHANGED <<executed, runs, shown, verdicts>>

\* Mutant of Doubt: an exception is taken to mean that nothing happened.
MutDoubt(b) ==
    /\ At(b, "doubt")
    /\ finish(guard[b].nonce, "not_dispatched", FALSE, "review_required")
    /\ Return(b)
    /\ UNCHANGED <<memoryVars, runs, shown, verdicts>>

\* The outcome is recorded as unknown.  A handler that raised counts as executed
\* and escalates; an interrupt (KeyboardInterrupt, SystemExit) is passed on, and
\* so is the ledger's refusal.
Doubt(b) ==
    /\ At(b, "doubt")
    /\ finish(guard[b].nonce, "unknown", FALSE, "review_required")
    /\ Return(b)
    /\ IF Status(guard[b].nonce) # "pending" THEN UNCHANGED memoryVars
       ELSE \/ Escalate(b) /\ IF guard[b].target = "DEFAULT" THEN Remember(b) ELSE UNCHANGED executed
            \/ guard[b].target = "DEFAULT" /\ UNCHANGED memoryVars
    /\ UNCHANGED <<runs, shown, verdicts>>

Reviewing(b) == guard[b].target = "CONTAINER" /\ PostRun

\* Mutant of RecordResult: the result is accepted before it is reviewed.
MutRecord(b) ==
    LET n == guard[b].nonce
    IN /\ At(b, "record") /\ Status(n) = "pending"
       /\ finish(n, "succeeded", TRUE, "accepted_for_agent")
       /\ IF Reviewing(b) THEN Goto(b, "review") /\ UNCHANGED shown
                          ELSE Return(b) /\ shown' = shown \cup {n}
       /\ Remember(b)
       /\ UNCHANGED <<escalated, runs, verdicts>>

\* The result of a container run that will be reviewed is stored as pending.
RecordResult(b) ==
    LET n == guard[b].nonce
    IN /\ At(b, "record")
       /\ finish(n, "succeeded", TRUE, IF Reviewing(b) THEN "pending_review" ELSE "accepted_for_agent")
       /\ IF Status(n) # "pending" THEN Return(b) /\ UNCHANGED <<executed, shown>>
          ELSE /\ IF Reviewing(b) THEN Goto(b, "review") /\ UNCHANGED shown
                                  ELSE Return(b) /\ shown' = shown \cup {n}
               /\ Remember(b)
       /\ UNCHANGED <<escalated, runs, verdicts>>

\* supervisor.reevaluate: it accepts, blocks, escalates, asks for a retry, or
\* fails; the last three all require a review.
PostReview(b) ==
    /\ At(b, "review")
    /\ \E disposition \in Dispositioned :
          /\ guard' = [guard EXCEPT ![b].pc = "decide", ![b].disposition = disposition]
          /\ verdicts' = IF disposition = "accepted_for_agent"
                         THEN verdicts \cup {guard[b].nonce} ELSE verdicts
    /\ UNCHANGED <<ledgerVars, memoryVars, runs, shown>>

\* Mutant of Decide: a result the review did not pass is kept back, and the
\* episode goes on.
MutDecide(b) ==
    LET n == guard[b].nonce
        disposition == guard[b].disposition
        stored == executions' # executions
    IN /\ At(b, "decide")
       /\ decide_result(n, disposition, BoundaryPolicy[b])
       /\ Return(b)
       /\ shown' = IF stored /\ disposition = "accepted_for_agent" THEN shown \cup {n} ELSE shown
       /\ UNCHANGED <<memoryVars, runs, verdicts>>

\* The disposition is stored before the result is returned; the guard never
\* returns what the ledger did not accept.  What becomes of the artifacts of a
\* blocked result (reject_artifacts) is in ArtifactStore.
Decide(b) ==
    LET n == guard[b].nonce
        disposition == guard[b].disposition
        stored == executions' # executions
    IN /\ At(b, "decide")
       /\ decide_result(n, disposition, BoundaryPolicy[b])
       /\ Return(b)
       /\ shown' = IF stored /\ disposition = "accepted_for_agent" THEN shown \cup {n} ELSE shown
       /\ IF stored /\ disposition = "review_required" THEN Escalate(b) ELSE UNCHANGED escalated
       /\ UNCHANGED <<executed, runs, verdicts>>

\* The process dies and the application opens the boundary again.
Restart(b) ==
    /\ Return(b)
    /\ executed' = [executed EXCEPT ![b] = {}]
    /\ escalated' = [escalated EXCEPT ![b] = FALSE]
    /\ UNCHANGED <<ledgerVars, runs, shown, verdicts>>

\* The application's own trusted reconciliation: it knows what ran, and attests
\* a fence only when no boundary still works on the call.
Reconcile(n, status, accept, fenced) ==
    LET ran == \E d \in Digests : runs[<<n, d>>] > 0 IN
    /\ status = IF ran THEN "succeeded" ELSE "not_dispatched"
    /\ accept => ran
    /\ fenced => \A b \in Boundaries : ~Owns(b, n)
    /\ Uncertain(n)
    /\ reconcile(n, status, accept, IF accept THEN "accepted_for_agent" ELSE "review_required", fenced)
    /\ UNCHANGED <<guard, memoryVars, runs, shown, verdicts>>

-----------------------------------------------------------------------------
GuardInit ==
    /\ LedgerInit
    /\ guard = [b \in Boundaries |-> Idle]
    /\ executed = [b \in Boundaries |-> {}]
    /\ escalated = [b \in Boundaries |-> FALSE]
    /\ runs = [nd \in Nonces \X Digests |-> 0]
    /\ shown = {} /\ verdicts = {}

BoundaryStep(b) ==
    Reserve(b) \/ Run(b) \/ Cancel(b) \/ Doubt(b) \/ RecordResult(b) \/ PostReview(b) \/ Decide(b)

GuardNext ==
    \/ \E b \in Boundaries : \/ \E n \in Nonces, d \in Digests : Evaluate(b, n, d)
                             \/ BoundaryStep(b)
                             \/ Restart(b)
    \/ \E n \in Nonces, status \in {"succeeded", "not_dispatched"}, accept \in BOOLEAN,
          fenced \in BOOLEAN : Reconcile(n, status, accept, fenced)

GuardSpec == GuardInit /\ [][GuardNext]_guardVars

-----------------------------------------------------------------------------
(* Properties *)

RunsOf(n) == {d \in Digests : runs[<<n, d>>] > 0}

\* A call id leads to at most one execution, with one content: not again after a
\* restart, not by another boundary, not with what the supervisor made of it the
\* second time.
CallRunsOnce ==
    /\ \A n \in Nonces, d \in Digests : runs[<<n, d>>] <= 1
    /\ \A n \in Nonces : Cardinality(RunsOf(n)) <= 1

\* A content that is not repeatable runs at most once in the task, under whatever
\* call ids and by whatever boundaries it is proposed.
ContentRunsOnce ==
    \A m, n \in Nonces, d \in Digests :
        /\ runs[<<m, d>>] > 0 /\ runs[<<n, d>>] > 0 /\ EffectOf[d] \notin Repeatable
        /\ \A b, c \in Boundaries : TaskOf[BoundaryScope[b]] = TaskOf[BoundaryScope[c]]
        => m = n

\* "Every proposed rewrite is checked again": nothing runs that the task's
\* authority does not allow as it is, whatever the supervisor proposed.
OnlyAuthorizedRuns ==
    \A n \in Nonces : \A d \in RunsOf(n) : Authority[d] = "ALLOW"

\* The ledger tells the truth about what ran, through exceptions, crashes and
\* reconciliation: not_dispatched rows never ran, succeeded ones did, and what
\* ran is on record.
LedgerTellsWhatRan ==
    \A n \in Nonces :
        /\ Status(n) = "not_dispatched" => RunsOf(n) = {}
        /\ Status(n) = "succeeded" => RunsOf(n) = {executions[n].digest}
        /\ RunsOf(n) # {} => Live(n)

\* With post-run review, no agent sees the result of a contained command, fresh
\* or replayed, by this or another boundary, unless the review or a reviewer
\* accepted it.
UnreviewedNeverShown ==
    \A n \in Nonces :
        /\ PostRun /\ RunsOf(n) \cap Commands # {}
        /\ n \in shown \/ \E p \in Policies : <<n, p>> \in released
        => n \in verdicts \/ [nonce |-> n, status |-> "succeeded"] \in reconciliations

\* A boundary remembers a call whose outcome is unknown, or whose result neither
\* an agent received nor the review passed.
Unresolved(b) ==
    \E n \in Nonces :
        /\ InTask(n, TaskOf[BoundaryScope[b]])
        /\ executions[n].digest \in executed[b] /\ EffectAt(n) \notin Repeatable
        /\ \/ Status(n) = "unknown"
           \/ /\ Status(n) = "succeeded" /\ executions[n].disposition = "review_required"
              /\ n \notin shown \cup verdicts

\* "Escalation is terminal for that boundary's task context": a boundary that
\* left a call behind with an unknown outcome, or with a result that failed its
\* review, begins no other until it is opened again, whatever other boundaries
\* and the application do to the row meanwhile.
EscalationIsTerminal ==
    [][\A b \in Boundaries : Unresolved(b) /\ At(b, "idle") => At(b, "idle")']_guardVars
=============================================================================

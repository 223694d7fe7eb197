----------------------- MODULE GuardedExecutionProofs -----------------------
(***************************************************************************)
(* Proofs about the embedded guard for any number of boundaries, calls and  *)
(* contents and for any supervisor: it only ever uses the ledger as the     *)
(* ledger allows, only authorized contents run, a call id runs once at most *)
(* and the ledger tells the truth about what ran.                           *)
(***************************************************************************)
EXTENDS GuardedExecution, ExecutionLedgerProofs, FiniteSetTheorems

\* A boundary that is busy with a call has a record of it.
LEMMA GuardBusy ==
    ASSUME GuardTypeOK, NEW b \in Boundaries, guard[b].pc # "idle"
    PROVE  guard[b] \in Handling /\ guard[b].nonce \in Nonces /\ guard[b].digest \in Digests
  BY DEF GuardTypeOK, Handling, Idle

\* The reservations of a boundary are requests the ledger's API accepts.
LEMMA GuardArguments ==
    ASSUME NEW b \in Boundaries, NEW n \in Nonces
    PROVE  BoundaryScope[b] \in Scopes /\ BoundaryPolicy[b] \in Policies /\ n \in Keys
  BY GuardConstants

-----------------------------------------------------------------------------
(* The guard and the ledger *)

\* Whatever a boundary, its application or a crash does is one operation of the
\* ledger or leaves the ledger alone.
LEMMA GuardStepIsLedgerStep ==
    ASSUME GuardTypeOK, [GuardNext]_guardVars
    PROVE  [LedgerNext]_ledgerVars
  <1>1. ASSUME NEW b \in Boundaries, Reserve(b) PROVE LedgerNext
    <2>1. guard[b].nonce \in Nonces /\ guard[b].digest \in Digests
      BY <1>1, GuardBusy DEF Reserve, At
    <2>2. reserve(guard[b].nonce, BoundaryScope[b], guard[b].nonce, guard[b].digest, BoundaryPolicy[b])
      BY <1>1 DEF Reserve, reserve
    <2> QED BY <2>1, <2>2, GuardArguments DEF LedgerNext
  <1>2. ASSUME NEW b \in Boundaries, Cancel(b) \/ Doubt(b) \/ RecordResult(b) PROVE LedgerNext
    <2>1. guard[b].nonce \in Nonces
      BY <1>2, GuardBusy DEF Cancel, Doubt, RecordResult, At
    <2>2. \E st \in Statuses \ {"pending"}, r \in BOOLEAN, di \in Dispositions :
              finish(guard[b].nonce, st, r, di)
      BY <1>2 DEF Cancel, Doubt, RecordResult, Statuses, Dispositions
    <2> QED BY <2>1, <2>2 DEF LedgerNext
  <1>3. ASSUME NEW b \in Boundaries, Decide(b) PROVE LedgerNext
    <2>1. guard[b] \in Handling /\ guard[b].nonce \in Nonces
      BY <1>3, GuardBusy DEF Decide, At
    <2>2. guard[b].disposition \in Dispositions \ {"pending_review"}
      BY <2>1 DEF Handling, Dispositioned, Dispositions
    <2>3. decide_result(guard[b].nonce, guard[b].disposition, BoundaryPolicy[b])
      BY <1>3 DEF Decide
    <2> QED BY <2>1, <2>2, <2>3, GuardArguments DEF LedgerNext
  <1>4. ASSUME NEW n \in Nonces, NEW status \in {"succeeded", "not_dispatched"}, NEW accept \in BOOLEAN,
               NEW fenced \in BOOLEAN, Reconcile(n, status, accept, fenced)
        PROVE  LedgerNext
    <2>1. \E di \in Dispositions \ {"pending_review"} : reconcile(n, status, accept, di, fenced)
      BY <1>4 DEF Reconcile, Dispositions
    <2> QED BY <2>1 DEF LedgerNext
  <1>5. ASSUME NEW b \in Boundaries, Run(b) \/ PostReview(b) \/ Restart(b) PROVE UNCHANGED ledgerVars
    BY <1>5 DEF Run, PostReview, Restart
  <1>6. ASSUME NEW b \in Boundaries, NEW n \in Nonces, NEW d \in Digests, Evaluate(b, n, d)
        PROVE  UNCHANGED ledgerVars
    BY <1>6 DEF Evaluate
  <1>7. CASE UNCHANGED guardVars
    BY <1>7 DEF guardVars, ledgerVars
  <1> QED
    BY <1>1, <1>2, <1>3, <1>4, <1>5, <1>6, <1>7 DEF GuardNext, BoundaryStep

-----------------------------------------------------------------------------
(* The inductive invariant *)

\* What a boundary works on is within the task's authority as it is.
Planned(r) == r # Idle => Authority[r.digest] = "ALLOW"

GuardInv ==
    /\ GuardTypeOK
    /\ \A b \in Boundaries : Planned(guard[b])
    /\ OnlyAuthorizedRuns

\* Only boundary b has a new record, of an authorized call or none.
Turns(b) == \E r \in Handling \cup {Idle} : Planned(r) /\ guard' = [guard EXCEPT ![b] = r]

\* A boundary goes on with its call.
LEMMA GuardGoto ==
    ASSUME GuardInv, NEW b \in Boundaries, guard[b].pc # "idle", NEW step \in OwningSteps,
           Goto(b, step)
    PROVE  Turns(b)
  <1> DEFINE rec == [guard[b] EXCEPT !.pc = step]
  <1>1. guard[b] \in Handling /\ Planned(guard[b])
    BY GuardBusy DEF GuardInv
  <1>2. rec \in Handling /\ rec.digest = guard[b].digest
    BY <1>1 DEF Handling
  <1>3. guard[b] # Idle
    BY DEF Idle
  <1>4. guard' = [guard EXCEPT ![b] = rec]
    BY DEF Goto
  <1> HIDE DEF rec
  <1> QED BY <1>1, <1>2, <1>3, <1>4 DEF Turns, Planned

\* A boundary ends its call.
LEMMA GuardReturn ==
    ASSUME NEW b \in Boundaries, Return(b)
    PROVE  Turns(b)
  BY DEF Return, Turns, Planned

\* A content is planned only if the authority allows it.
LEMMA GuardPlan ==
    ASSUME NEW b \in Boundaries, NEW n \in Nonces, NEW d \in Digests, NEW target,
           Authority[d] = "ALLOW", Plan(b, n, d, target)
    PROVE  Turns(b) /\ (UNCHANGED escalated \/ Escalate(b))
  <1> DEFINE rec == [pc |-> "reserve", nonce |-> n, digest |-> d,
                     target |-> IF target = "CONTAINER" THEN target ELSE "DEFAULT",
                     disposition |-> "review_required"]
  <1>1. rec \in Handling /\ Planned(rec)
    BY DEF Handling, Targets, Dispositioned, Planned
  <1>2. guard' = [guard EXCEPT ![b] = rec] \/ guard' = [guard EXCEPT ![b] = Idle]
    BY DEF Plan
  <1>3. UNCHANGED escalated \/ Escalate(b)
    BY DEF Plan
  <1> HIDE DEF rec
  <1> QED BY <1>1, <1>2, <1>3 DEF Turns, Planned

\* An ALLOW, by whomever, needs the ALLOW of the compiled authority.
LEMMA AllowNeedsAuthority ==
    ASSUME NEW b \in Boundaries, NEW d \in Digests, NEW out \in Evaluations(b, d),
           out.decision \in {"ALLOW", "REWRITE"}
    PROVE  Authority[d] = "ALLOW"
  <1>1. Authority[d] \in {"ALLOW", "BLOCK", "ESCALATE"}
    BY GuardConstants
  <1> QED BY <1>1 DEF Evaluations, Out

\* Evaluation plans an authorized call, escalates, or does nothing.
LEMMA GuardEvaluate ==
    ASSUME GuardInv, NEW b \in Boundaries, NEW n \in Nonces, NEW d \in Digests, Evaluate(b, n, d)
    PROVE  /\ UNCHANGED guard \/ Turns(b)
           /\ UNCHANGED escalated \/ Escalate(b)
  <1>1. PICK first \in Evaluations(b, d) :
           \/ first.decision = "ALLOW" /\ Plan(b, n, d, first.target)
           \/ first.decision = "REWRITE" /\ Rewritten(b, n, d, first)
           \/ first.decision = "ESCALATE" /\ Escalate(b) /\ UNCHANGED guard
           \/ first.decision = "BLOCK" /\ UNCHANGED <<guard, escalated>>
    BY DEF Evaluate
  <1>2. CASE first.decision = "ALLOW" /\ Plan(b, n, d, first.target)
    BY <1>2, AllowNeedsAuthority, GuardPlan
  <1>3. CASE first.decision = "REWRITE" /\ Rewritten(b, n, d, first)
    <2>1. CASE <<d, first.rewrite>> \notin Replaces
      BY <1>3, <2>1 DEF Rewritten
    <2>2. CASE <<d, first.rewrite>> \in Replaces
      <3>1. first.rewrite \in Digests
        BY <2>2, GuardConstants
      <3>2. PICK second \in Evaluations(b, first.rewrite) :
               \/ /\ second.decision = "ALLOW"
                  /\ Plan(b, n, first.rewrite,
                          IF second.target # "none" THEN second.target ELSE first.target)
               \/ Escalate(b) /\ UNCHANGED guard
               \/ UNCHANGED <<guard, escalated>>
        BY <1>3, <2>2 DEF Rewritten
      <3> QED BY <3>1, <3>2, AllowNeedsAuthority, GuardPlan
    <2> QED BY <2>1, <2>2
  <1> QED BY <1>1, <1>2, <1>3

\* Every step of a boundary, and its restart, turns that boundary's record.
LEMMA BoundaryTurns ==
    ASSUME GuardInv, NEW b \in Boundaries, BoundaryStep(b) \/ Restart(b)
    PROVE  Turns(b)
  <1>1. CASE Return(b)
    BY <1>1, GuardReturn
  <1>2. CASE guard[b].pc # "idle" /\ \E step \in OwningSteps : Goto(b, step)
    BY <1>2, GuardGoto
  <1>3. CASE PostReview(b)
    <2>1. PICK disposition \in Dispositioned :
             guard' = [guard EXCEPT ![b].pc = "decide", ![b].disposition = disposition]
      BY <1>3 DEF PostReview
    <2> DEFINE rec == [guard[b] EXCEPT !.pc = "decide", !.disposition = disposition]
    <2>2. guard[b] \in Handling /\ Planned(guard[b]) /\ guard[b] # Idle
      BY <1>3, GuardBusy DEF PostReview, At, GuardInv, Idle
    <2>3. rec \in Handling /\ rec.digest = guard[b].digest
      BY <2>2 DEF Handling, OwningSteps
    <2>4. guard' = [guard EXCEPT ![b] = rec]
      BY <2>1
    <2> HIDE DEF rec
    <2> QED BY <2>2, <2>3, <2>4 DEF Turns, Planned
  <1> QED
    BY <1>1, <1>2, <1>3
       DEF BoundaryStep, Reserve, Run, Cancel, Doubt, RecordResult, Decide, Restart, At, OwningSteps

\* Every step turns one boundary's record or none.
LEMMA EveryStepTurns ==
    ASSUME GuardInv, [GuardNext]_guardVars
    PROVE  UNCHANGED guard \/ \E b \in Boundaries : Turns(b)
  BY BoundaryTurns, GuardEvaluate DEF GuardNext, guardVars, Reconcile

\* A boundary's memory keeps its type.
LEMMA MemoryTyped ==
    ASSUME GuardInv, [GuardNext]_guardVars
    PROVE  /\ executed' \in [Boundaries -> SUBSET Digests]
           /\ escalated' \in [Boundaries -> BOOLEAN]
           /\ shown' \subseteq Nonces /\ verdicts' \subseteq Nonces
  <1> DEFINE Typed == /\ executed' \in [Boundaries -> SUBSET Digests]
                      /\ escalated' \in [Boundaries -> BOOLEAN]
                      /\ shown' \subseteq Nonces /\ verdicts' \subseteq Nonces
  <1>0. /\ executed \in [Boundaries -> SUBSET Digests] /\ escalated \in [Boundaries -> BOOLEAN]
        /\ shown \subseteq Nonces /\ verdicts \subseteq Nonces
    BY DEF GuardInv, GuardTypeOK
  <1>1. ASSUME NEW b \in Boundaries, BoundaryStep(b) PROVE Typed
    <2>1. guard[b].nonce \in Nonces /\ guard[b].digest \in Digests
      BY <1>1, GuardBusy
         DEF BoundaryStep, Reserve, Run, Cancel, Doubt, RecordResult, PostReview, Decide, At, GuardInv
    <2>2. UNCHANGED executed \/ Remember(b)
      BY <1>1 DEF BoundaryStep, Reserve, Run, Cancel, Doubt, RecordResult, PostReview, Decide, memoryVars
    <2>3. UNCHANGED escalated \/ Escalate(b) \/ \E e \in BOOLEAN : escalated' = [escalated EXCEPT ![b] = e]
      BY <1>1 DEF BoundaryStep, Reserve, Run, Cancel, Doubt, RecordResult, PostReview, Decide, memoryVars
    <2>4. /\ shown' = shown \/ shown' = shown \cup {guard[b].nonce}
          /\ verdicts' = verdicts \/ verdicts' = verdicts \cup {guard[b].nonce}
      BY <1>1 DEF BoundaryStep, Reserve, Run, Cancel, Doubt, RecordResult, PostReview, Decide
    <2>5. executed' \in [Boundaries -> SUBSET Digests]
      <3> DEFINE memory == executed[b] \cup {guard[b].digest}
      <3>1. memory \in SUBSET Digests
        BY <1>0, <2>1
      <3>2. executed' = executed \/ executed' = [executed EXCEPT ![b] = memory]
        BY <2>2 DEF Remember
      <3> HIDE DEF memory
      <3> QED BY <1>0, <3>1, <3>2
    <2>6. escalated' \in [Boundaries -> BOOLEAN]
      BY <1>0, <2>3 DEF Escalate
    <2> QED BY <1>0, <2>1, <2>4, <2>5, <2>6
  <1>2. ASSUME NEW b \in Boundaries, Restart(b) PROVE Typed
    BY <1>0, <1>2 DEF Restart
  <1>3. ASSUME NEW b \in Boundaries, NEW n \in Nonces, NEW d \in Digests, Evaluate(b, n, d) PROVE Typed
    BY <1>0, <1>3, GuardEvaluate DEF Evaluate, Escalate
  <1>4. ASSUME NEW n \in Nonces, NEW status, NEW accept, NEW fenced, Reconcile(n, status, accept, fenced)
        PROVE  Typed
    BY <1>0, <1>4 DEF Reconcile, memoryVars
  <1>5. CASE UNCHANGED guardVars
    BY <1>0, <1>5 DEF guardVars
  <1> QED BY <1>1, <1>2, <1>3, <1>4, <1>5 DEF GuardNext

\* Only Run counts a run, of the call its boundary planned.
LEMMA RunsChange ==
    ASSUME GuardInv, [GuardNext]_guardVars
    PROVE  UNCHANGED runs \/ \E b \in Boundaries : At(b, "run") /\ Ran(b)
  BY DEF GuardNext, BoundaryStep, Evaluate, Reserve, Run, Cancel, Doubt, RecordResult, PostReview, Decide,
         Restart, Reconcile, guardVars

\* GuardInv is inductive.
LEMMA GuardStep == GuardInv /\ [GuardNext]_guardVars => GuardInv'
  <1> SUFFICES ASSUME GuardInv, [GuardNext]_guardVars PROVE GuardInv'
    OBVIOUS
  <1>1. TypeOK'
    BY GuardStepIsLedgerStep, TypeStep DEF GuardInv, GuardTypeOK
  <1>2. /\ guard' \in [Boundaries -> Handling \cup {Idle}]
        /\ \A b \in Boundaries : Planned(guard'[b])
    <2>1. /\ guard \in [Boundaries -> Handling \cup {Idle}]
          /\ \A b \in Boundaries : Planned(guard[b])
      BY DEF GuardInv, GuardTypeOK
    <2> QED BY <2>1, EveryStepTurns DEF Turns
  <1>3. runs' \in [Nonces \X Digests -> Nat] /\ OnlyAuthorizedRuns'
    <2>1. runs \in [Nonces \X Digests -> Nat] /\ OnlyAuthorizedRuns
      BY DEF GuardInv, GuardTypeOK
    <2>2. CASE UNCHANGED runs
      BY <2>1, <2>2 DEF OnlyAuthorizedRuns, RunsOf
    <2>3. ASSUME NEW b \in Boundaries, At(b, "run"), Ran(b)
          PROVE  runs' \in [Nonces \X Digests -> Nat] /\ OnlyAuthorizedRuns'
      <3>1. guard[b].nonce \in Nonces /\ guard[b].digest \in Digests /\ Authority[guard[b].digest] = "ALLOW"
        BY <2>3, GuardBusy DEF At, GuardInv, Planned, Idle
      <3> DEFINE cell == <<guard[b].nonce, guard[b].digest>>
      <3>2. cell \in Nonces \X Digests /\ runs' = [runs EXCEPT ![cell] = @ + 1]
        BY <2>3, <3>1 DEF Ran
      <3>3. runs' \in [Nonces \X Digests -> Nat]
        BY <2>1, <3>2
      <3>4. \A n \in Nonces, d \in Digests : runs'[<<n, d>>] > 0 => runs[<<n, d>>] > 0 \/ d = guard[b].digest
        BY <2>1, <3>2
      <3> QED BY <2>1, <3>1, <3>3, <3>4 DEF OnlyAuthorizedRuns, RunsOf
    <2> QED BY <2>2, <2>3, RunsChange
  <1> QED BY <1>1, <1>2, <1>3, MemoryTyped DEF GuardInv, GuardTypeOK

-----------------------------------------------------------------------------
(* What ran, and what the ledger says of it *)

\* Between reservation and finish the row is pending and the boundary's alone.
Working == {"run", "cancel", "doubt", "record"}
Works(b, n) == guard[b].pc \in Working /\ guard[b].nonce = n

OwnsRow ==
    \A b \in Boundaries, n \in Nonces : Works(b, n) =>
        /\ Status(n) = "pending" /\ executions[n].digest = guard[b].digest
        /\ \A c \in Boundaries : Works(c, n) => c = b

Unrun(n) == \A d \in Digests : runs[<<n, d>>] = 0

\* Nothing ran yet before the run, and a result to record is one of a run.
RunsInOrder ==
    \A b \in Boundaries, n \in Nonces : Works(b, n) =>
        /\ guard[b].pc \in {"run", "cancel"} => Unrun(n)
        /\ guard[b].pc = "record" => runs[<<n, guard[b].digest>>] > 0

\* Whatever ran did so once, as the content of a row that stands.
RunsOnRecord ==
    \A n \in Nonces, d \in Digests : runs[<<n, d>>] > 0 =>
        Live(n) /\ executions[n].digest = d /\ runs[<<n, d>>] = 1

SucceededRan == \A n \in Nonces : Status(n) = "succeeded" => runs[<<n, executions[n].digest>>] > 0

RunInv == OwnsRow /\ RunsInOrder /\ RunsOnRecord /\ SucceededRan

\* Boundaries stay as they are or stop working on their row.
Leaves == \A c \in Boundaries : guard'[c] = guard[c] \/ guard'[c].pc \notin Working

\* Steps that change no status and count no run.
LEMMA QuietGuardStep ==
    ASSUME GuardInv, RunInv, \A m \in Nonces : Keeps(m), UNCHANGED runs, Leaves
    PROVE  RunInv'
  <1>1. TypeOK /\ runs \in [Nonces \X Digests -> Nat]
    BY DEF GuardInv, GuardTypeOK
  <1>2. \A n \in Nonces : /\ Status(n)' = Status(n) /\ (Live(n)' <=> Live(n))
                          /\ Present(n) => executions'[n].digest = executions[n].digest
    BY DEF Keeps, Live, Present, Status
  <1>3. \A b \in Boundaries, n \in Nonces : Works(b, n)' => Works(b, n) /\ guard'[b] = guard[b]
    BY DEF Leaves, Works
  <1>4. OwnsRow'
    BY <1>2, <1>3 DEF RunInv, OwnsRow, Present
  <1>5. RunsInOrder'
    BY <1>3 DEF RunInv, RunsInOrder, Unrun
  <1>6. RunsOnRecord'
    BY <1>2 DEF RunInv, RunsOnRecord, Live
  <1>7. SucceededRan'
    BY <1>2 DEF RunInv, SucceededRan, Present
  <1> QED BY <1>4, <1>5, <1>6, <1>7 DEF RunInv

\* A row is settled truthfully, and nobody works on it any more.
LEMMA SettleGuardStep ==
    ASSUME GuardInv, RunInv, UNCHANGED runs, Leaves,
           NEW n \in Nonces, NEW st \in {"unknown", "succeeded", "not_dispatched"}, Present(n),
           Becomes(n, st), \A m \in Nonces \ {n} : Keeps(m),
           \A c \in Boundaries : ~Works(c, n)',
           st = "not_dispatched" => Unrun(n),
           st = "succeeded" => runs[<<n, executions[n].digest>>] > 0
    PROVE  RunInv'
  <1>1. TypeOK /\ runs \in [Nonces \X Digests -> Nat]
    BY DEF GuardInv, GuardTypeOK
  <1>2. \A m \in Nonces \ {n} : /\ Status(m)' = Status(m) /\ (Live(m)' <=> Live(m))
                                /\ Present(m) => executions'[m].digest = executions[m].digest
    BY DEF Keeps, Live, Present, Status
  <1>3. /\ Status(n)' = st /\ executions'[n].digest = executions[n].digest
        /\ Live(n)' <=> st # "not_dispatched"
    BY DEF Becomes, Live, Present, Status
  <1>4. \A b \in Boundaries, m \in Nonces : Works(b, m)' => m # n /\ Works(b, m) /\ guard'[b] = guard[b]
    BY DEF Leaves, Works
  <1>5. OwnsRow'
    BY <1>2, <1>4 DEF RunInv, OwnsRow, Present
  <1>6. RunsInOrder'
    BY <1>4 DEF RunInv, RunsInOrder, Unrun
  <1>7. RunsOnRecord'
    BY <1>2, <1>3 DEF RunInv, RunsOnRecord, Live, Unrun
  <1>8. SucceededRan'
    BY <1>2, <1>3 DEF RunInv, SucceededRan, Present
  <1> QED BY <1>5, <1>6, <1>7, <1>8 DEF RunInv

\* Boundary b returns, or goes on with what is not between reservation and finish.
StepsOff(b) == guard'[b].pc \notin Working /\ \A c \in Boundaries \ {b} : guard'[c] = guard[c]

LEMMA ReturnStepsOff ==
    ASSUME GuardTypeOK, NEW b \in Boundaries, Return(b)
    PROVE  StepsOff(b)
  BY DEF GuardTypeOK, StepsOff, Return, Idle, Working

\* The new record of a boundary that goes on.
LEMMA GotoRecord ==
    ASSUME GuardTypeOK, NEW b \in Boundaries, guard[b].pc # "idle", NEW step \in OwningSteps, Goto(b, step)
    PROVE  /\ guard'[b].pc = step /\ guard'[b].nonce = guard[b].nonce /\ guard'[b].digest = guard[b].digest
           /\ \A c \in Boundaries \ {b} : guard'[c] = guard[c]
  <1> DEFINE rec == [guard[b] EXCEPT !.pc = step]
  <1>1. guard[b] \in Handling
    BY GuardBusy
  <1>2. rec.pc = step /\ rec.nonce = guard[b].nonce /\ rec.digest = guard[b].digest
    BY <1>1 DEF Handling
  <1>3. guard' = [guard EXCEPT ![b] = rec]
    BY DEF Goto
  <1> HIDE DEF rec
  <1> QED BY <1>2, <1>3 DEF GuardTypeOK

\* A reservation that is inserted has not run, and is its boundary's alone.
LEMMA InsertedGuardStep ==
    ASSUME GuardInv, RunInv, UNCHANGED runs, NEW b \in Boundaries, At(b, "reserve"), Goto(b, "run"),
           NEW n \in Nonces, NEW d \in Digests, n = guard[b].nonce, d = guard[b].digest,
           ReserveInsert(n, BoundaryScope[b], n, d, BoundaryPolicy[b])
    PROVE  RunInv'
  <1>1. GuardTypeOK /\ TypeOK /\ runs \in [Nonces \X Digests -> Nat]
    BY DEF GuardInv, GuardTypeOK
  <1>2. n \in Keys /\ BoundaryScope[b] \in Scopes /\ BoundaryPolicy[b] \in Policies
    BY GuardConstants
  <1>3. /\ ~Present(n) /\ Status(n)' = "pending" /\ executions'[n].digest = d
        /\ \A m \in Nonces \ {n} : Keeps(m)
    BY <1>1, <1>2, InsertEffect
  <1>4. /\ guard'[b].pc = "run" /\ guard'[b].nonce = n /\ guard'[b].digest = d
        /\ \A c \in Boundaries \ {b} : guard'[c] = guard[c]
    BY <1>1, GotoRecord DEF At, OwningSteps
  <1>5. \A m \in Nonces \ {n} : /\ Status(m)' = Status(m) /\ (Live(m)' <=> Live(m))
                                /\ Present(m) => executions'[m].digest = executions[m].digest
    BY <1>3 DEF Keeps, Live, Present, Status
  <1>6. \A c \in Boundaries, m \in Nonces : Works(c, m)' <=> (c = b /\ m = n) \/ (c # b /\ Works(c, m))
    BY <1>4 DEF Works, Working
  <1>7. \A c \in Boundaries : ~Works(c, n)
    BY <1>3 DEF RunInv, OwnsRow, Present
  <1>8. Unrun(n)
    BY <1>1, <1>3 DEF RunInv, RunsOnRecord, Unrun, Live
  <1>9. OwnsRow'
    <2> SUFFICES ASSUME NEW c \in Boundaries, NEW m \in Nonces, Works(c, m)'
                 PROVE  /\ Status(m)' = "pending" /\ executions'[m].digest = guard'[c].digest
                        /\ \A e \in Boundaries : Works(e, m)' => e = c
      BY DEF OwnsRow
    <2>1. CASE m = n
      BY <1>3, <1>4, <1>6, <1>7, <2>1
    <2>2. CASE m # n
      <3>1. c # b /\ Works(c, m) /\ guard'[c] = guard[c]
        BY <1>4, <1>6, <2>2
      <3>2. /\ Status(m) = "pending" /\ executions[m].digest = guard[c].digest
            /\ \A e \in Boundaries : Works(e, m) => e = c
        BY <3>1 DEF RunInv, OwnsRow
      <3> QED BY <1>5, <1>6, <2>2, <3>1, <3>2 DEF Present
    <2> QED BY <2>1, <2>2
  <1>10. RunsInOrder'
    BY <1>4, <1>6, <1>8 DEF RunInv, RunsInOrder, Unrun
  <1>11. RunsOnRecord'
    BY <1>5, <1>8 DEF RunInv, RunsOnRecord, Unrun, Live
  <1>12. SucceededRan'
    <2> SUFFICES ASSUME NEW m \in Nonces, Status(m)' = "succeeded"
                 PROVE  runs[<<m, executions'[m].digest>>] > 0
      BY DEF SucceededRan
    <2>1. m # n
      BY <1>3
    <2> QED BY <1>5, <2>1 DEF RunInv, SucceededRan, Present
  <1> QED BY <1>9, <1>10, <1>11, <1>12 DEF RunInv

\* A boundary at its run moves on with its row: having run it or not.
LEMMA RunGuardStep ==
    ASSUME GuardInv, RunInv, UNCHANGED executions, NEW b \in Boundaries, At(b, "run"),
           \A c \in Boundaries \ {b} : guard'[c] = guard[c],
           Ran(b) \/ UNCHANGED runs,
           \/ guard'[b].pc \notin Working
           \/ /\ guard'[b].nonce = guard[b].nonce /\ guard'[b].digest = guard[b].digest
              /\ \/ guard'[b].pc = "doubt"
                 \/ guard'[b].pc = "record" /\ Ran(b)
                 \/ guard'[b].pc = "cancel" /\ UNCHANGED runs
    PROVE  RunInv'
  <1>1. GuardTypeOK /\ runs \in [Nonces \X Digests -> Nat]
    BY DEF GuardInv, GuardTypeOK
  <1>2. PICK n \in Nonces, d \in Digests : n = guard[b].nonce /\ d = guard[b].digest
    BY <1>1, GuardBusy DEF At
  <1>3. Works(b, n)
    BY <1>2 DEF Works, Working, At
  <1>4. /\ Status(n) = "pending" /\ executions[n].digest = d /\ Unrun(n)
        /\ \A c \in Boundaries : Works(c, n) => c = b
    BY <1>2, <1>3 DEF RunInv, OwnsRow, RunsInOrder, At
  <1>5. \A m \in Nonces : (Status(m)' = Status(m)) /\ (Live(m)' <=> Live(m))
    BY DEF Status, Live, Present
  <1>6. \A c \in Boundaries, m \in Nonces : Works(c, m)' => Works(c, m) /\ (c = b => m = n)
    BY <1>2 DEF Works, Working, At
  <1>7. \A c \in Boundaries : c # b => guard'[c] = guard[c]
    OBVIOUS
  <1>8. \A m \in Nonces, e \in Digests : <<m, e>> # <<n, d>> => runs'[<<m, e>>] = runs[<<m, e>>]
    BY <1>1, <1>2 DEF Ran
  <1>9. runs'[<<n, d>>] = IF Ran(b) THEN 1 ELSE 0
    BY <1>1, <1>2, <1>4 DEF Ran, Unrun
  <1>10. OwnsRow'
    <2> SUFFICES ASSUME NEW c \in Boundaries, NEW m \in Nonces, Works(c, m)'
                 PROVE  /\ Status(m)' = "pending" /\ executions'[m].digest = guard'[c].digest
                        /\ \A e \in Boundaries : Works(e, m)' => e = c
      BY DEF OwnsRow
    <2>1. Works(c, m) /\ guard'[c].digest = guard[c].digest
      BY <1>6, <1>7 DEF Works
    <2> QED BY <1>5, <1>6, <2>1 DEF RunInv, OwnsRow
  <1>11. RunsInOrder'
    <2> SUFFICES ASSUME NEW c \in Boundaries, NEW m \in Nonces, Works(c, m)'
                 PROVE  /\ guard'[c].pc \in {"run", "cancel"} => Unrun(m)'
                        /\ guard'[c].pc = "record" => runs'[<<m, guard'[c].digest>>] > 0
      BY DEF RunsInOrder
    <2>1. CASE c = b
      <3>1. m = n
        BY <1>6, <2>1
      <3>2. ASSUME guard'[c].pc \in {"run", "cancel"} PROVE Unrun(m)'
        BY <1>4, <2>1, <3>1, <3>2 DEF Unrun, Works
      <3>3. ASSUME guard'[c].pc = "record" PROVE runs'[<<m, guard'[c].digest>>] > 0
        BY <1>2, <1>9, <2>1, <3>1, <3>3 DEF Working
      <3> QED BY <3>2, <3>3
    <2>2. CASE c # b
      <3>1. guard'[c] = guard[c] /\ Works(c, m) /\ m # n
        BY <1>4, <1>6, <1>7, <2>2
      <3>2. \A e \in Digests : runs'[<<m, e>>] = runs[<<m, e>>]
        BY <1>8, <3>1
      <3>3. guard[c].digest \in Digests
        BY <1>1, <3>1, GuardBusy DEF Works, Working
      <3> QED BY <3>1, <3>2, <3>3 DEF RunInv, RunsInOrder, Unrun
    <2> QED BY <2>1, <2>2
  <1>12. RunsOnRecord'
    <2> SUFFICES ASSUME NEW m \in Nonces, NEW e \in Digests, runs'[<<m, e>>] > 0
                 PROVE  Live(m)' /\ executions'[m].digest = e /\ runs'[<<m, e>>] = 1
      BY DEF RunsOnRecord
    <2>1. CASE m = n /\ e = d
      BY <1>4, <1>5, <1>9, <2>1 DEF Live, Present
    <2>2. CASE ~(m = n /\ e = d)
      <3>1. runs'[<<m, e>>] = runs[<<m, e>>]
        BY <1>8, <2>2
      <3> QED BY <1>5, <3>1 DEF RunInv, RunsOnRecord
    <2> QED BY <2>1, <2>2
  <1>13. SucceededRan'
    <2> SUFFICES ASSUME NEW m \in Nonces, Status(m)' = "succeeded"
                 PROVE  runs'[<<m, executions'[m].digest>>] > 0
      BY DEF SucceededRan
    <2>1. Status(m) = "succeeded" /\ m # n
      BY <1>4, <1>5
    <2>2. executions[m].digest \in Digests
      BY <1>1, <2>1, RowCases DEF Present, Row, GuardTypeOK
    <2>3. runs'[<<m, executions[m].digest>>] = runs[<<m, executions[m].digest>>]
      BY <1>8, <2>1, <2>2
    <2> QED BY <2>1, <2>3 DEF RunInv, SucceededRan
  <1> QED BY <1>10, <1>11, <1>12, <1>13 DEF RunInv

\* A boundary that finishes its row truthfully keeps the invariant.
LEMMA FinishGuardStep ==
    ASSUME GuardInv, RunInv, UNCHANGED runs, NEW b \in Boundaries, guard[b].pc \in Working, StepsOff(b),
           NEW n \in Nonces, n = guard[b].nonce, NEW st \in {"unknown", "succeeded", "not_dispatched"},
           NEW r \in BOOLEAN, NEW di \in Dispositions, finish(n, st, r, di),
           st = "not_dispatched" => guard[b].pc = "cancel",
           st = "succeeded" => guard[b].pc = "record"
    PROVE  RunInv'
  <1>1. TypeOK /\ st \in Statuses
    BY DEF GuardInv, GuardTypeOK, Statuses
  <1>2. Works(b, n)
    BY DEF Works
  <1>3. /\ Status(n) = "pending" /\ executions[n].digest = guard[b].digest
        /\ \A c \in Boundaries : Works(c, n) => c = b
    BY <1>2 DEF RunInv, OwnsRow
  <1>4. Becomes(n, st) /\ \A m \in Nonces \ {n} : Keeps(m)
    BY <1>1, <1>3, FinishEffect
  <1>5. Leaves /\ \A c \in Boundaries : ~Works(c, n)'
    BY <1>3 DEF Leaves, StepsOff, Works
  <1>6. Present(n)
    BY <1>3 DEF Present
  <1>7. /\ st = "not_dispatched" => Unrun(n)
        /\ st = "succeeded" => runs[<<n, executions[n].digest>>] > 0
    BY <1>2, <1>3 DEF RunInv, RunsInOrder
  <1> QED BY <1>4, <1>5, <1>6, <1>7, SettleGuardStep

\* Each step of a boundary keeps the invariant.
LEMMA BoundaryKeepsRunInv ==
    ASSUME GuardInv, RunInv, NEW b \in Boundaries, BoundaryStep(b)
    PROVE  RunInv'
  <1>1. GuardTypeOK /\ TypeOK
    BY DEF GuardInv, GuardTypeOK
  <1>2. PICK n \in Nonces, d \in Digests : n = guard[b].nonce /\ d = guard[b].digest
    BY <1>1, GuardBusy DEF BoundaryStep, Reserve, Run, Cancel, Doubt, RecordResult, PostReview, Decide, At
  <1>3. guard[b] \in Handling
    BY <1>1, GuardBusy DEF BoundaryStep, Reserve, Run, Cancel, Doubt, RecordResult, PostReview, Decide, At
  <1>4. BoundaryScope[b] \in Scopes /\ BoundaryPolicy[b] \in Policies /\ n \in Keys
    BY GuardArguments
  <1>5. ASSUME StepsOff(b) PROVE Leaves
    BY <1>5 DEF StepsOff, Leaves
  <1>6. CASE Reserve(b)
    <2>1. CASE ReserveInsert(n, BoundaryScope[b], n, d, BoundaryPolicy[b]) /\ Goto(b, "run")
      BY <1>2, <1>6, <2>1, InsertedGuardStep DEF Reserve
    <2>2. CASE /\ \/ ReserveReplay(n, BoundaryScope[b], n, d, BoundaryPolicy[b])
                  \/ ReserveRefuse(n, BoundaryScope[b], n, d)
               /\ Return(b)
      <3>1. \A m \in Nonces : Keeps(m)
        BY <1>1, <1>2, <1>4, <2>2, ReplayEffect
      <3>2. Leaves
        BY <1>1, <1>5, <2>2, ReturnStepsOff
      <3> QED BY <1>6, <3>1, <3>2, QuietGuardStep DEF Reserve
    <2> QED BY <1>2, <1>6, <2>1, <2>2 DEF Reserve
  <1>7. CASE Run(b)
    <2>1. UNCHANGED executions /\ At(b, "run")
      BY <1>7 DEF Run, ledgerVars
    <2>2. CASE Goto(b, "cancel") /\ UNCHANGED runs
      BY <1>1, <2>1, <2>2, GotoRecord, RunGuardStep DEF At, OwningSteps
    <2>3. CASE Goto(b, "record") /\ Ran(b)
      BY <1>1, <2>1, <2>3, GotoRecord, RunGuardStep DEF At, OwningSteps
    <2>4. CASE Goto(b, "doubt") /\ (Ran(b) \/ UNCHANGED runs)
      BY <1>1, <2>1, <2>4, GotoRecord, RunGuardStep DEF At, OwningSteps
    <2>5. CASE Return(b) /\ (Ran(b) \/ UNCHANGED runs)
      BY <1>1, <2>1, <2>5, ReturnStepsOff, RunGuardStep DEF StepsOff
    <2> QED BY <1>7, <2>2, <2>3, <2>4, <2>5 DEF Run
  <1>8. CASE Cancel(b)
    BY <1>1, <1>2, <1>8, ReturnStepsOff, FinishGuardStep DEF Cancel, At, Working, Dispositions
  <1>9. CASE Doubt(b)
    BY <1>1, <1>2, <1>9, ReturnStepsOff, FinishGuardStep DEF Doubt, At, Working, Dispositions
  <1>10. CASE RecordResult(b)
    <2>1. guard[b].pc = "record" /\ guard[b].pc \in Working /\ UNCHANGED runs
      BY <1>10 DEF RecordResult, At, Working
    <2>2. PICK di \in Dispositions : finish(n, "succeeded", TRUE, di)
      BY <1>2, <1>10 DEF RecordResult, Dispositions
    <2>3. CASE Return(b)
      BY <1>1, <1>2, <2>1, <2>2, <2>3, ReturnStepsOff, FinishGuardStep
    <2>4. CASE Goto(b, "review")
      <3>1. StepsOff(b)
        BY <1>1, <2>1, <2>4, GotoRecord DEF StepsOff, OwningSteps, Working
      <3> QED BY <1>2, <2>1, <2>2, <3>1, FinishGuardStep
    <2> QED BY <1>10, <2>3, <2>4 DEF RecordResult
  <1>11. CASE PostReview(b)
    <2>1. PICK disposition \in Dispositioned :
             guard' = [guard EXCEPT ![b].pc = "decide", ![b].disposition = disposition]
      BY <1>11 DEF PostReview
    <2>2. StepsOff(b)
      BY <1>1, <1>3, <2>1 DEF StepsOff, GuardTypeOK, Handling, Working
    <2>3. \A m \in Nonces : Keeps(m)
      BY <1>11 DEF PostReview, ledgerVars, Keeps, Status
    <2> QED BY <1>5, <1>11, <2>2, <2>3, QuietGuardStep DEF PostReview
  <1>12. CASE Decide(b)
    <2>1. guard[b].disposition \in Dispositions
      BY <1>3 DEF Handling, Dispositioned, Dispositions
    <2>2. \A m \in Nonces : Keeps(m)
      BY <1>1, <1>2, <1>4, <1>12, <2>1, DecideEffect DEF Decide
    <2> QED BY <1>1, <1>5, <1>12, <2>2, ReturnStepsOff, QuietGuardStep DEF Decide
  <1> QED BY <1>6, <1>7, <1>8, <1>9, <1>10, <1>11, <1>12 DEF BoundaryStep

\* A call is planned, not yet reserved, or nothing changes.
LEMMA EvaluateLeaves ==
    ASSUME GuardTypeOK, NEW b \in Boundaries, NEW n \in Nonces, NEW d \in Digests, Evaluate(b, n, d)
    PROVE  Leaves
  <1>1. ASSUME NEW e, NEW target, Plan(b, n, e, target) PROVE Leaves
    <2> DEFINE rec == [pc |-> "reserve", nonce |-> n, digest |-> e,
                       target |-> IF target = "CONTAINER" THEN target ELSE "DEFAULT",
                       disposition |-> "review_required"]
    <2>1. rec.pc \notin Working /\ Idle.pc \notin Working
      BY DEF Idle, Working
    <2>2. guard' = [guard EXCEPT ![b] = rec] \/ guard' = [guard EXCEPT ![b] = Idle]
      BY <1>1 DEF Plan
    <2> HIDE DEF rec
    <2> QED BY <2>1, <2>2 DEF GuardTypeOK, Leaves
  <1>2. CASE UNCHANGED guard
    BY <1>2 DEF Leaves
  <1>3. UNCHANGED guard \/ \E e, target : Plan(b, n, e, target)
    BY DEF Evaluate, Rewritten
  <1> QED BY <1>1, <1>2, <1>3

\* The trusted reconciliation settles truthfully and under a true fence.
LEMMA ReconcileKeepsRunInv ==
    ASSUME GuardInv, RunInv, NEW n \in Nonces, NEW st \in {"succeeded", "not_dispatched"},
           NEW accept \in BOOLEAN, NEW fenced \in BOOLEAN, Reconcile(n, st, accept, fenced)
    PROVE  RunInv'
  <1> DEFINE di == IF accept THEN "accepted_for_agent" ELSE "review_required"
  <1>1. GuardTypeOK /\ TypeOK /\ UNCHANGED <<guard, runs>> /\ st \in Statuses /\ di \in Dispositions
    BY DEF GuardInv, GuardTypeOK, Reconcile, Statuses, Dispositions
  <1>2. Leaves
    BY <1>1 DEF Leaves
  <1>3. reconcile(n, st, accept, di, fenced)
    BY DEF Reconcile
  <1> HIDE DEF di
  <1>4. /\ \A m \in Nonces \ {n} : Keeps(m)
        /\ \/ Keeps(n)
           \/ /\ Becomes(n, st)
              /\ Status(n) = "unknown" \/ (Status(n) = "pending" /\ fenced)
    BY <1>1, <1>3, ReconcileEffect
  <1>5. CASE Keeps(n)
    <2>1. \A m \in Nonces : Keeps(m)
      BY <1>4, <1>5
    <2> QED BY <1>1, <1>2, <2>1, QuietGuardStep
  <1>6. CASE Becomes(n, st) /\ (Status(n) = "unknown" \/ (Status(n) = "pending" /\ fenced))
    <2>1. Present(n)
      BY <1>6 DEF Present
    <2>2. \A c \in Boundaries : ~Works(c, n)
      <3>1. CASE Status(n) = "unknown"
        BY <3>1 DEF RunInv, OwnsRow
      <3>2. CASE fenced
        BY <3>2 DEF Reconcile, Owns, Works, Working, OwningSteps
      <3> QED BY <1>6, <3>1, <3>2
    <2>3. \A c \in Boundaries : ~Works(c, n)'
      BY <1>1, <2>2 DEF Works
    <2>4. st = "not_dispatched" => Unrun(n)
      BY DEF Reconcile, Unrun, GuardInv, GuardTypeOK
    <2>5. st = "succeeded" => runs[<<n, executions[n].digest>>] > 0
      BY DEF Reconcile, RunInv, RunsOnRecord
    <2> QED BY <1>1, <1>2, <1>4, <1>6, <2>1, <2>3, <2>4, <2>5, SettleGuardStep
  <1> QED BY <1>4, <1>5, <1>6

\* Every step keeps RunInv.
LEMMA RunInvStep ==
    ASSUME GuardInv, RunInv, [GuardNext]_guardVars
    PROVE  RunInv'
  <1>1. GuardTypeOK
    BY DEF GuardInv
  <1>2. ASSUME UNCHANGED executions PROVE \A m \in Nonces : Keeps(m)
    BY <1>2 DEF Keeps, Status
  <1>3. ASSUME NEW b \in Boundaries, NEW n \in Nonces, NEW d \in Digests, Evaluate(b, n, d) PROVE RunInv'
    <2>1. UNCHANGED <<executions, runs>>
      BY <1>3 DEF Evaluate, ledgerVars
    <2> QED BY <1>1, <1>2, <1>3, <2>1, EvaluateLeaves, QuietGuardStep
  <1>4. ASSUME NEW b \in Boundaries, Restart(b) PROVE RunInv'
    <2>1. UNCHANGED <<executions, runs>> /\ Return(b)
      BY <1>4 DEF Restart, ledgerVars
    <2>2. Leaves
      BY <1>1, <2>1, ReturnStepsOff DEF Leaves, StepsOff
    <2> QED BY <1>2, <2>1, <2>2, QuietGuardStep
  <1>5. CASE UNCHANGED guardVars
    <2>1. UNCHANGED <<executions, runs>> /\ Leaves
      BY <1>5 DEF guardVars, Leaves
    <2> QED BY <1>2, <2>1, QuietGuardStep
  <1> QED BY <1>3, <1>4, <1>5, BoundaryKeepsRunInv, ReconcileKeepsRunInv DEF GuardNext

-----------------------------------------------------------------------------
\* GuardInv holds throughout.
LEMMA GuardInvariant == GuardSpec => []GuardInv
  <1>1. GuardInit => GuardInv
    <2> SUFFICES ASSUME GuardInit PROVE GuardInv
      OBVIOUS
    <2>1. TypeOK
      BY DEF GuardInit, LedgerInit, TypeOK
    <2>2. runs = [nd \in Nonces \X Digests |-> 0]
      BY DEF GuardInit
    <2>3. \A n \in Nonces, d \in Digests : runs[<<n, d>>] = 0
      BY <2>2
    <2> QED BY <2>1, <2>2, <2>3 DEF GuardInit, GuardInv, GuardTypeOK, Planned, OnlyAuthorizedRuns, RunsOf
  <1> QED BY <1>1, GuardStep, PTL DEF GuardSpec

\* The guard's state stays well typed, whatever the supervisor answers.
THEOREM GuardTypeCorrect == GuardSpec => []GuardTypeOK
  <1>1. GuardInv => GuardTypeOK
    BY DEF GuardInv
  <1> QED BY <1>1, GuardInvariant, PTL

\* execute_call uses the ledger only as its API allows: the theorems about the
\* ledger hold for any number of boundaries that share it.
THEOREM GuardUsesLedger == GuardSpec => LedgerSpec
  <1>1. GuardInit => LedgerInit
    BY DEF GuardInit
  <1>2. GuardInv /\ [GuardNext]_guardVars => [LedgerNext]_ledgerVars
    BY GuardStepIsLedgerStep DEF GuardInv
  <1> QED BY <1>1, <1>2, GuardInvariant, PTL DEF GuardSpec, LedgerSpec

\* Nothing runs that the task's compiled authority does not allow as it is,
\* whatever rewrites the supervisor proposes.
THEOREM RunsAreAuthorized == GuardSpec => []OnlyAuthorizedRuns
  <1>1. GuardInv => OnlyAuthorizedRuns
    BY DEF GuardInv
  <1> QED BY <1>1, GuardInvariant, PTL

\* RunInv holds throughout.
LEMMA RunInvariant == GuardSpec => []RunInv
  <1>1. GuardInit => RunInv
    <2> SUFFICES ASSUME GuardInit PROVE RunInv
      OBVIOUS
    <2>1. \A n \in Nonces, d \in Digests : runs[<<n, d>>] = 0
      BY DEF GuardInit
    <2>2. \A b \in Boundaries, n \in Nonces : ~Works(b, n)
      BY DEF GuardInit, Works, Working, Idle
    <2>3. \A n \in Nonces : Status(n) = "absent"
      BY DEF GuardInit, LedgerInit, Status, NoRow
    <2> QED BY <2>1, <2>2, <2>3 DEF RunInv, OwnsRow, RunsInOrder, RunsOnRecord, SucceededRan
  <1> QED BY <1>1, RunInvStep, GuardInvariant, PTL DEF GuardSpec

\* A call id runs at most once and with one content, whatever boundaries share
\* the ledger, die, come back and propose the call again.
THEOREM CallsRunOnce == GuardSpec => []CallRunsOnce
  <1>1. GuardInv /\ RunInv => CallRunsOnce
    <2> SUFFICES ASSUME GuardInv, RunInv PROVE CallRunsOnce
      OBVIOUS
    <2>1. \A n \in Nonces, d \in Digests : runs[<<n, d>>] \in Nat /\ (runs[<<n, d>>] > 0 => runs[<<n, d>>] = 1)
      BY DEF GuardInv, GuardTypeOK, RunInv, RunsOnRecord
    <2>2. ASSUME NEW n \in Nonces PROVE Cardinality(RunsOf(n)) <= 1
      <3>1. RunsOf(n) = {} \/ RunsOf(n) = {executions[n].digest}
        BY DEF RunInv, RunsOnRecord, RunsOf
      <3>2. Cardinality({}) = 0 /\ Cardinality({executions[n].digest}) = 1
        BY FS_EmptySet, FS_Singleton, Zenon
      <3>3. Cardinality(RunsOf(n)) \in {0, 1}
        BY <3>1, <3>2, Zenon
      <3> QED BY <3>3
    <2> QED BY <2>1, <2>2 DEF CallRunsOnce
  <1> QED BY <1>1, GuardInvariant, RunInvariant, PTL

\* The ledger's rows are true of what ran, through exceptions, crashes between
\* any two steps and reconciliation.
THEOREM LedgerIsTruthful == GuardSpec => []LedgerTellsWhatRan
  <1>1. GuardInv /\ RunInv => LedgerTellsWhatRan
    <2> SUFFICES ASSUME GuardInv, RunInv, NEW n \in Nonces
                 PROVE  /\ Status(n) = "not_dispatched" => RunsOf(n) = {}
                        /\ Status(n) = "succeeded" => RunsOf(n) = {executions[n].digest}
                        /\ RunsOf(n) # {} => Live(n)
      BY DEF LedgerTellsWhatRan
    <2>1. \A d \in RunsOf(n) : Live(n) /\ executions[n].digest = d
      BY DEF RunInv, RunsOnRecord, RunsOf
    <2>2. Status(n) = "succeeded" => executions[n].digest \in RunsOf(n)
      <3> SUFFICES ASSUME Status(n) = "succeeded" PROVE executions[n].digest \in RunsOf(n)
        OBVIOUS
      <3>1. executions[n].digest \in Digests
        BY RowCases DEF GuardInv, GuardTypeOK, Present, Row
      <3> QED BY <3>1 DEF RunInv, SucceededRan, RunsOf
    <2> QED BY <2>1, <2>2 DEF Live
  <1> QED BY <1>1, GuardInvariant, RunInvariant, PTL

-----------------------------------------------------------------------------
(* A content runs once in the task. *)

\* Every row was reserved by a boundary, under its scope.
RowsOfBoundaries ==
    \A n \in Nonces : Present(n) => \E b \in Boundaries : executions[n].scope = BoundaryScope[b]

\* Only a reservation makes a row.
LEMMA NewRows ==
    ASSUME GuardInv, [GuardNext]_guardVars, NEW n \in Nonces, ~Present(n), Present(n)'
    PROVE  \E b \in Boundaries : executions'[n].scope = BoundaryScope[b]
  <1>1. GuardTypeOK /\ TypeOK
    BY DEF GuardInv, GuardTypeOK
  <1>2. ~Keeps(n) /\ ~UNCHANGED executions
    BY DEF Keeps, Present, Status
  <1>3. ASSUME NEW b \in Boundaries, Reserve(b) PROVE \E c \in Boundaries : executions'[n].scope = BoundaryScope[c]
    <2>1. PICK m \in Nonces, d \in Digests : m = guard[b].nonce /\ d = guard[b].digest
      BY <1>1, <1>3, GuardBusy DEF Reserve, At
    <2>2. BoundaryScope[b] \in Scopes /\ BoundaryPolicy[b] \in Policies /\ m \in Keys
      BY GuardArguments
    <2>3. ReserveInsert(m, BoundaryScope[b], m, d, BoundaryPolicy[b])
      BY <1>1, <1>2, <1>3, <2>1, <2>2, ReplayEffect DEF Reserve
    <2> QED BY <1>1, <1>2, <2>2, <2>3, InsertEffect
  <1>4. ASSUME NEW m \in Nonces, NEW st \in Statuses, NEW r \in BOOLEAN, NEW di \in Dispositions,
               finish(m, st, r, di)
        PROVE  FALSE
    <2>1. Status(m) = "pending"
      BY <1>2, <1>4 DEF finish
    <2>2. m # n
      BY <2>1 DEF Present
    <2> QED BY <1>1, <1>2, <1>4, <2>1, <2>2, FinishEffect
  <1>5. ASSUME NEW b \in Boundaries, Cancel(b) \/ Doubt(b) \/ RecordResult(b) PROVE FALSE
    <2>1. guard[b].nonce \in Nonces
      BY <1>1, <1>5, GuardBusy DEF Cancel, Doubt, RecordResult, At
    <2>2. \E st \in Statuses, r \in BOOLEAN, di \in Dispositions : finish(guard[b].nonce, st, r, di)
      BY <1>5 DEF Cancel, Doubt, RecordResult, Statuses, Dispositions
    <2> QED BY <1>4, <2>1, <2>2
  <1>6. ASSUME NEW b \in Boundaries, Decide(b) PROVE FALSE
    <2>1. guard[b] \in Handling /\ guard[b].nonce \in Nonces
      BY <1>1, <1>6, GuardBusy DEF Decide, At
    <2>2. guard[b].disposition \in Dispositions
      BY <2>1 DEF Handling, Dispositioned, Dispositions
    <2>3. BoundaryPolicy[b] \in Policies
      BY <2>1, GuardArguments
    <2> QED BY <1>1, <1>2, <1>6, <2>1, <2>2, <2>3, DecideEffect DEF Decide
  <1>7. ASSUME NEW m \in Nonces, NEW st \in {"succeeded", "not_dispatched"}, NEW accept \in BOOLEAN,
               NEW fenced \in BOOLEAN, Reconcile(m, st, accept, fenced)
        PROVE  FALSE
    <2>1. PICK di \in Dispositions : reconcile(m, st, accept, di, fenced)
      BY <1>7 DEF Reconcile, Dispositions
    <2>2. m # n
      BY <1>7 DEF Reconcile, Uncertain, Present
    <2>3. st \in Statuses
      BY DEF Statuses
    <2> QED BY <1>1, <1>2, <2>1, <2>2, <2>3, ReconcileEffect
  <1>8. ASSUME NEW b \in Boundaries,
               Run(b) \/ PostReview(b) \/ Restart(b) \/ \E m \in Nonces, d \in Digests : Evaluate(b, m, d)
        PROVE  FALSE
    BY <1>2, <1>8 DEF Run, PostReview, Restart, Evaluate, ledgerVars
  <1> QED BY <1>2, <1>3, <1>5, <1>6, <1>7, <1>8 DEF GuardNext, BoundaryStep, guardVars

\* RowsOfBoundaries holds throughout: a row keeps its scope.
LEMMA RowsInvariant == GuardSpec => []RowsOfBoundaries
  <1>1. GuardInit => RowsOfBoundaries
    BY DEF GuardInit, LedgerInit, RowsOfBoundaries, Present, Status, NoRow
  <1>2. GuardInv /\ RowsOfBoundaries /\ [GuardNext]_guardVars => RowsOfBoundaries'
    <2> SUFFICES ASSUME GuardInv, RowsOfBoundaries, [GuardNext]_guardVars, NEW n \in Nonces, Present(n)'
                 PROVE  \E b \in Boundaries : executions'[n].scope = BoundaryScope[b]
      BY DEF RowsOfBoundaries
    <2>1. TypeOK /\ [LedgerNext]_ledgerVars
      BY GuardStepIsLedgerStep DEF GuardInv, GuardTypeOK
    <2>2. CASE Present(n)
      BY <2>1, <2>2, RowStays DEF RowsOfBoundaries
    <2>3. CASE ~Present(n)
      BY <2>3, NewRows
    <2> QED BY <2>2, <2>3
  <1> QED BY <1>1, <1>2, GuardInvariant, PTL DEF GuardSpec

\* A non-repeatable content runs at most once in the task, under whatever call
\* ids and by however many boundaries it is proposed.
THEOREM ContentsRunOnce == GuardSpec => []ContentRunsOnce
  <1>1. RunInv /\ RowsOfBoundaries /\ EffectReservedOnce => ContentRunsOnce
    <2> SUFFICES ASSUME RunInv, RowsOfBoundaries, EffectReservedOnce,
                        NEW m \in Nonces, NEW n \in Nonces, NEW d \in Digests,
                        runs[<<m, d>>] > 0, runs[<<n, d>>] > 0, EffectOf[d] \notin Repeatable,
                        \A b, c \in Boundaries : TaskOf[BoundaryScope[b]] = TaskOf[BoundaryScope[c]]
                 PROVE  m = n
      BY DEF ContentRunsOnce
    <2>1. Live(m) /\ Live(n) /\ executions[m].digest = d /\ executions[n].digest = d
      BY DEF RunInv, RunsOnRecord
    <2>2. TaskOf[executions[m].scope] = TaskOf[executions[n].scope]
      BY <2>1 DEF RowsOfBoundaries, Live
    <2> QED BY <2>1, <2>2 DEF EffectReservedOnce, EffectAt
  <1> QED BY <1>1, RunInvariant, RowsInvariant, GuardUsesLedger, ReservedOnce, PTL

-----------------------------------------------------------------------------
(* No unreviewed result of a command reaches an agent. *)

\* What a boundary's record promises: a command runs in a container, and a
\* decision to accept is the review's.
Sound(r) ==
    r # Idle => /\ r.digest \in Commands => r.target = "CONTAINER"
                /\ r.pc = "decide" /\ r.disposition = "accepted_for_agent" => r.nonce \in verdicts

RecordsSound == \A b \in Boundaries : Sound(guard[b])

\* A call's result reached an agent, fresh or replayed.
Given(n) == n \in shown \/ \E p \in Policies : <<n, p>> \in released
Vouched(n) == n \in verdicts \/ [nonce |-> n, status |-> "succeeded"] \in reconciliations
Guaranteed(n) == PostRun /\ executions[n].digest \in Commands => Vouched(n)

GivenIsPresent == \A n \in Nonces : Given(n) => Present(n)
AcceptedIsGuaranteed == \A n \in Nonces : Accepted(n) \/ Given(n) => Guaranteed(n)

ReviewInv == RecordsSound /\ GivenIsPresent /\ AcceptedIsGuaranteed

\* The review's verdicts are never withdrawn.
LEMMA VerdictsGrow ==
    ASSUME GuardInv, [GuardNext]_guardVars
    PROVE  verdicts \subseteq verdicts'
  BY DEF GuardNext, BoundaryStep, Evaluate, Reserve, Run, Cancel, Doubt, RecordResult, PostReview, Decide,
         Restart, Reconcile, guardVars

\* A plan sends commands to a container.
LEMMA PlanIsSound ==
    ASSUME GuardTypeOK, NEW b \in Boundaries, NEW n, NEW d, NEW target, Plan(b, n, d, target)
    PROVE  Sound(guard[b])' /\ \A c \in Boundaries \ {b} : guard'[c] = guard[c]
  <1> DEFINE rec == [pc |-> "reserve", nonce |-> n, digest |-> d,
                     target |-> IF target = "CONTAINER" THEN target ELSE "DEFAULT",
                     disposition |-> "review_required"]
  <1>1. /\ guard' = [guard EXCEPT ![b] = Idle] \/ guard' = [guard EXCEPT ![b] = rec]
        /\ guard' # [guard EXCEPT ![b] = Idle] => (d \in Commands => target = "CONTAINER")
    BY DEF Plan
  <1>2. (d \in Commands => target = "CONTAINER") => (rec.digest \in Commands => rec.target = "CONTAINER")
    OBVIOUS
  <1>3. rec.pc # "decide"
    OBVIOUS
  <1> HIDE DEF rec
  <1>4. \A c \in Boundaries \ {b} : guard'[c] = guard[c]
    BY <1>1 DEF GuardTypeOK
  <1>5. guard'[b] = Idle \/ (guard'[b] = rec /\ (d \in Commands => target = "CONTAINER"))
    BY <1>1 DEF GuardTypeOK
  <1> QED BY <1>2, <1>3, <1>4, <1>5 DEF Sound

\* The records stay sound.
LEMMA RecordsStaySound ==
    ASSUME GuardInv, RecordsSound, [GuardNext]_guardVars
    PROVE  RecordsSound'
  <1>1. GuardTypeOK
    BY DEF GuardInv
  <1>2. ASSUME NEW c \in Boundaries, guard'[c] = guard[c] PROVE Sound(guard[c])'
    BY <1>2, VerdictsGrow DEF RecordsSound, Sound
  <1>3. ASSUME NEW b \in Boundaries, Sound(guard[b])', \A c \in Boundaries \ {b} : guard'[c] = guard[c]
        PROVE  RecordsSound'
    BY <1>2, <1>3 DEF RecordsSound
  <1>4. CASE UNCHANGED guard
    BY <1>2, <1>4 DEF RecordsSound
  <1>5. ASSUME NEW b \in Boundaries, Return(b) PROVE RecordsSound'
    <2>1. guard'[b] = Idle /\ \A c \in Boundaries \ {b} : guard'[c] = guard[c]
      BY <1>1, <1>5 DEF Return, GuardTypeOK
    <2> QED BY <1>3, <2>1 DEF Sound
  <1>6. ASSUME NEW b \in Boundaries, guard[b].pc # "idle", NEW step \in OwningSteps \ {"decide"}, Goto(b, step)
        PROVE  RecordsSound'
    <2> DEFINE rec == [guard[b] EXCEPT !.pc = step]
    <2>1. guard[b] \in Handling /\ guard[b] # Idle
      BY <1>1, <1>6, GuardBusy DEF Idle
    <2>2. rec.pc = step /\ rec.digest = guard[b].digest /\ rec.target = guard[b].target
      BY <2>1 DEF Handling
    <2>3. guard' = [guard EXCEPT ![b] = rec]
      BY <1>6 DEF Goto
    <2> HIDE DEF rec
    <2>4. guard'[b] = rec /\ \A c \in Boundaries \ {b} : guard'[c] = guard[c]
      BY <1>1, <2>3 DEF GuardTypeOK
    <2>5. Sound(guard[b])'
      BY <1>6, <2>1, <2>2, <2>4 DEF Sound, RecordsSound
    <2> QED BY <1>3, <2>4, <2>5
  <1>7. ASSUME NEW b \in Boundaries, PostReview(b) PROVE RecordsSound'
    <2>1. PICK disposition \in Dispositioned :
             /\ guard' = [guard EXCEPT ![b].pc = "decide", ![b].disposition = disposition]
             /\ disposition = "accepted_for_agent" => guard[b].nonce \in verdicts'
      BY <1>7 DEF PostReview
    <2> DEFINE rec == [guard[b] EXCEPT !.pc = "decide", !.disposition = disposition]
    <2>2. guard[b] \in Handling /\ guard[b] # Idle
      BY <1>1, <1>7, GuardBusy DEF PostReview, At, Idle
    <2>3. /\ rec.digest = guard[b].digest /\ rec.target = guard[b].target /\ rec.nonce = guard[b].nonce
          /\ rec.disposition = disposition
      BY <2>2 DEF Handling
    <2>4. guard' = [guard EXCEPT ![b] = rec]
      BY <2>1
    <2> HIDE DEF rec
    <2>5. guard'[b] = rec /\ \A c \in Boundaries \ {b} : guard'[c] = guard[c]
      BY <1>1, <2>4 DEF GuardTypeOK
    <2>6. Sound(guard[b])'
      BY <2>1, <2>2, <2>3, <2>5 DEF Sound, RecordsSound
    <2> QED BY <1>3, <2>5, <2>6
  <1>8. ASSUME NEW b \in Boundaries, NEW n \in Nonces, NEW d \in Digests, Evaluate(b, n, d) PROVE RecordsSound'
    <2>1. UNCHANGED guard \/ \E e, target : Plan(b, n, e, target)
      BY <1>8 DEF Evaluate, Rewritten
    <2> QED BY <1>1, <1>3, <1>4, <2>1, PlanIsSound
  <1>9. ASSUME NEW b \in Boundaries, BoundaryStep(b), ~PostReview(b)
        PROVE  Return(b) \/ (guard[b].pc # "idle" /\ \E step \in OwningSteps \ {"decide"} : Goto(b, step))
    BY <1>9 DEF BoundaryStep, Reserve, Run, Cancel, Doubt, RecordResult, Decide, At, OwningSteps
  <1>10. ASSUME NEW b \in Boundaries, Restart(b) PROVE Return(b)
    BY <1>10 DEF Restart
  <1>11. ASSUME NEW n, NEW st, NEW accept, NEW fenced, Reconcile(n, st, accept, fenced) PROVE UNCHANGED guard
    BY <1>11 DEF Reconcile
  <1>12. UNCHANGED guardVars => UNCHANGED guard
    BY DEF guardVars
  <1> QED BY <1>4, <1>5, <1>6, <1>7, <1>8, <1>9, <1>10, <1>11, <1>12 DEF GuardNext

\* A step keeps the two promises about acceptance when whatever it newly accepts
\* or hands out is guaranteed: rows keep their content and vouchers stay.
LEMMA AcceptanceStep ==
    ASSUME GuardInv, ReviewInv, [GuardNext]_guardVars,
           \A m \in Nonces : Accepted(m)' => Accepted(m) \/ Guaranteed(m)',
           \A m \in Nonces : Given(m)' => Given(m) \/ Accepted(m) \/ (Present(m)' /\ Guaranteed(m)')
    PROVE  GivenIsPresent' /\ AcceptedIsGuaranteed'
  <1>1. TypeOK /\ [LedgerNext]_ledgerVars
    BY GuardStepIsLedgerStep DEF GuardInv, GuardTypeOK
  <1>2. \A m \in Nonces : Accepted(m) => Present(m)
    BY DEF Accepted, Present
  <1>3. \A m \in Nonces : Accepted(m) \/ Given(m) => Present(m) /\ Guaranteed(m)
    BY <1>2 DEF ReviewInv, GivenIsPresent, AcceptedIsGuaranteed
  <1>4. \A m \in Nonces : Present(m) => Present(m)' /\ executions'[m].digest = executions[m].digest
    BY <1>1, RowStays
  <1>5. \A m \in Nonces : Vouched(m) => Vouched(m)'
    <2>1. reconciliations \subseteq reconciliations'
      <3>1. LedgerNext \/ UNCHANGED reconciliations
        BY <1>1 DEF ledgerVars
      <3>2. CASE UNCHANGED reconciliations
        BY <3>2
      <3>3. CASE LedgerNext
        BY <1>1, <3>3, ReconcileSteps
      <3> QED BY <3>1, <3>2, <3>3
    <2> QED BY <2>1, VerdictsGrow DEF Vouched
  <1>6. \A m \in Nonces : Present(m) /\ Guaranteed(m) => Guaranteed(m)'
    BY <1>4, <1>5 DEF Guaranteed
  <1> QED BY <1>3, <1>4, <1>6 DEF GivenIsPresent, AcceptedIsGuaranteed

\* An unchanged ledger hands out and accepts nothing new.
LEMMA QuietReview ==
    ASSUME GuardInv, ReviewInv, [GuardNext]_guardVars, UNCHANGED ledgerVars, UNCHANGED shown
    PROVE  GivenIsPresent' /\ AcceptedIsGuaranteed'
  <1>1. \A m \in Nonces : Accepted(m)' => Accepted(m)
    BY DEF Accepted, Status, ledgerVars
  <1>2. \A m \in Nonces : Given(m)' => Given(m)
    BY DEF Given, ledgerVars
  <1> QED BY <1>1, <1>2, AcceptanceStep

\* The boundary's own steps.
LEMMA BoundaryReview ==
    ASSUME GuardInv, RunInv, ReviewInv, NEW b \in Boundaries, BoundaryStep(b)
    PROVE  GivenIsPresent' /\ AcceptedIsGuaranteed'
  <1>0. [GuardNext]_guardVars
    BY DEF GuardNext
  <1>1. GuardTypeOK /\ TypeOK /\ [LedgerNext]_ledgerVars
    BY <1>0, GuardStepIsLedgerStep DEF GuardInv, GuardTypeOK
  <1>2. PICK n \in Nonces, d \in Digests : n = guard[b].nonce /\ d = guard[b].digest
    BY <1>1, GuardBusy DEF BoundaryStep, Reserve, Run, Cancel, Doubt, RecordResult, PostReview, Decide, At
  <1>3. guard[b] \in Handling /\ guard[b] # Idle /\ Sound(guard[b])
    <2>1. guard[b].pc # "idle"
      BY DEF BoundaryStep, Reserve, Run, Cancel, Doubt, RecordResult, PostReview, Decide, At
    <2> QED BY <1>1, <2>1, GuardBusy DEF ReviewInv, RecordsSound, Idle
  <1>4. BoundaryScope[b] \in Scopes /\ BoundaryPolicy[b] \in Policies /\ n \in Keys
    BY GuardArguments
  <1>5. ASSUME UNCHANGED <<released, shown>> PROVE \A m \in Nonces : Given(m)' => Given(m)
    BY <1>5 DEF Given
  <1>6. CASE Reserve(b)
    <2>1. reserve(n, BoundaryScope[b], n, d, BoundaryPolicy[b]) /\ UNCHANGED shown
      BY <1>2, <1>6 DEF Reserve, reserve
    <2>2. \A m \in Nonces : Accepted(m)' => Accepted(m)
      BY <1>1, <1>4, <2>1, ReserveAcceptsNothing
    <2>3. \A m \in Nonces : Given(m)' => Given(m) \/ Accepted(m)
      <3>1. LedgerNext
        BY <1>4, <2>1 DEF LedgerNext
      <3> QED BY <1>1, <2>1, <3>1, ReleaseSteps DEF Given
    <2> QED BY <1>0, <2>2, <2>3, AcceptanceStep
  <1>7. CASE Cancel(b) \/ Doubt(b)
    <2>1. PICK st \in Statuses, r \in BOOLEAN, di \in Dispositions \ {"accepted_for_agent"} : finish(n, st, r, di)
      BY <1>2, <1>7 DEF Cancel, Doubt, Statuses, Dispositions
    <2>2. \A m \in Nonces : Accepted(m)' => Accepted(m)
      BY <1>1, <2>1, FinishAccepts
    <2>3. UNCHANGED <<released, shown>>
      BY <1>7, <2>1 DEF Cancel, Doubt, finish
    <2> QED BY <1>0, <1>5, <2>2, <2>3, AcceptanceStep
  <1>8. CASE RecordResult(b)
    <2>0. PICK st \in Statuses, r \in BOOLEAN, di \in Dispositions :
             finish(n, st, r, di) /\ (di = "accepted_for_agent" => ~Reviewing(b))
      BY <1>2, <1>8 DEF RecordResult, Statuses, Dispositions
    <2>1. At(b, "record") /\ UNCHANGED released
      BY <1>8, <2>0 DEF RecordResult, finish
    <2>2. Present(n) /\ executions[n].digest = d
      BY <1>2, <2>1 DEF RunInv, OwnsRow, Works, Working, At, Present
    <2>3. Present(n)' /\ executions'[n].digest = d
      BY <1>1, <2>2, RowStays
    <2>4. ~Reviewing(b) => Guaranteed(n)'
      BY <1>2, <1>3, <2>3 DEF Reviewing, Sound, Guaranteed
    <2>5. \A m \in Nonces : Accepted(m)' => Accepted(m) \/ Guaranteed(m)'
      BY <1>1, <2>0, <2>4, FinishAccepts
    <2>6. \A m \in Nonces : Given(m)' => Given(m) \/ (m = n /\ ~Reviewing(b))
      BY <1>2, <1>8, <2>1 DEF RecordResult, Given
    <2> QED BY <1>0, <2>3, <2>4, <2>5, <2>6, AcceptanceStep
  <1>9. CASE Decide(b)
    <2> DEFINE di == guard[b].disposition
    <2>1. decide_result(n, di, BoundaryPolicy[b]) /\ At(b, "decide") /\ UNCHANGED <<released, verdicts>>
      BY <1>2, <1>9 DEF Decide, decide_result
    <2>2. di = "accepted_for_agent" => Guaranteed(n)'
      BY <1>2, <1>3, <2>1 DEF Sound, At, Guaranteed, Vouched
    <2>3. \A m \in Nonces : Accepted(m)' => Accepted(m) \/ Guaranteed(m)'
      BY <1>1, <2>1, <2>2, DecideAccepts
    <2>4. executions' # executions => Present(n)
      BY <2>1 DEF decide_result, Present
    <2>5. \A m \in Nonces : Given(m)' =>
             Given(m) \/ (m = n /\ di = "accepted_for_agent" /\ executions' # executions)
      BY <1>2, <1>9, <2>1 DEF Decide, Given
    <2> HIDE DEF di
    <2>6. \A m \in Nonces : Given(m)' => Given(m) \/ (Present(m)' /\ Guaranteed(m)')
      BY <1>1, <2>2, <2>4, <2>5, RowStays
    <2> QED BY <1>0, <2>3, <2>6, AcceptanceStep
  <1>10. CASE Run(b) \/ PostReview(b)
    BY <1>0, <1>10, QuietReview DEF Run, PostReview
  <1> QED BY <1>6, <1>7, <1>8, <1>9, <1>10 DEF BoundaryStep

\* The application's reconciliation vouches for what it accepts.
LEMMA ReconcileReview ==
    ASSUME GuardInv, ReviewInv, NEW n \in Nonces, NEW st \in {"succeeded", "not_dispatched"},
           NEW accept \in BOOLEAN, NEW fenced \in BOOLEAN, Reconcile(n, st, accept, fenced)
    PROVE  GivenIsPresent' /\ AcceptedIsGuaranteed'
  <1>0. [GuardNext]_guardVars
    BY DEF GuardNext
  <1>1. TypeOK
    BY DEF GuardInv, GuardTypeOK
  <1>2. PICK di : reconcile(n, st, accept, di, fenced)
    BY DEF Reconcile
  <1>3. \A m \in Nonces : Accepted(m)' => Accepted(m) \/ Guaranteed(m)'
    BY <1>1, <1>2, ReconcileAccepts DEF Guaranteed, Vouched
  <1>4. \A m \in Nonces : Given(m)' => Given(m)
    BY <1>2 DEF Reconcile, reconcile, Given
  <1> QED BY <1>0, <1>3, <1>4, AcceptanceStep

\* ReviewInv holds throughout.
LEMMA ReviewInvariant == GuardSpec => []ReviewInv
  <1>1. GuardInit => ReviewInv
    BY DEF GuardInit, LedgerInit, ReviewInv, RecordsSound, Sound, GivenIsPresent, AcceptedIsGuaranteed,
           Given, Accepted, Status, NoRow
  <1>2. GuardInv /\ RunInv /\ ReviewInv /\ [GuardNext]_guardVars => ReviewInv'
    <2> SUFFICES ASSUME GuardInv, RunInv, ReviewInv, [GuardNext]_guardVars PROVE ReviewInv'
      OBVIOUS
    <2>1. RecordsSound'
      BY RecordsStaySound DEF ReviewInv
    <2>2. UNCHANGED guardVars => UNCHANGED ledgerVars /\ UNCHANGED shown
      BY DEF guardVars, ledgerVars
    <2>3. ASSUME NEW b \in Boundaries, Restart(b) \/ \E n \in Nonces, d \in Digests : Evaluate(b, n, d)
          PROVE  UNCHANGED ledgerVars /\ UNCHANGED shown
      BY <2>3 DEF Restart, Evaluate
    <2>4. UNCHANGED ledgerVars /\ UNCHANGED shown => GivenIsPresent' /\ AcceptedIsGuaranteed'
      BY QuietReview
    <2>5. GivenIsPresent' /\ AcceptedIsGuaranteed'
      BY <2>2, <2>3, <2>4, BoundaryReview, ReconcileReview DEF GuardNext
    <2> QED BY <2>1, <2>5 DEF ReviewInv
  <1> QED BY <1>1, <1>2, GuardInvariant, RunInvariant, PTL DEF GuardSpec

\* With post-run review, no agent receives the result of a command, fresh or
\* replayed, by any boundary, unless the review or a reviewer accepted it.
THEOREM NothingUnreviewedShown == GuardSpec => []UnreviewedNeverShown
  <1>1. RunInv /\ ReviewInv => UnreviewedNeverShown
    <2> SUFFICES ASSUME RunInv, ReviewInv, NEW n \in Nonces, PostRun, NEW d \in RunsOf(n), d \in Commands,
                        Given(n)
                 PROVE  Vouched(n)
      BY DEF UnreviewedNeverShown, Given, Vouched
    <2>1. executions[n].digest = d
      BY DEF RunInv, RunsOnRecord, RunsOf
    <2> QED BY <2>1 DEF ReviewInv, AcceptedIsGuaranteed, Guaranteed
  <1> QED BY <1>1, RunInvariant, ReviewInvariant, PTL
-----------------------------------------------------------------------------
(* What a boundary remembers and did not escalate over is accounted for. *)

Reviews(b, n) == guard[b].pc \in {"review", "decide"} /\ guard[b].nonce = n

WorksInTask ==
    \A b \in Boundaries, n \in Nonces : Works(b, n) =>
        executions[n].scope = BoundaryScope[b] /\ executions[n].policy = BoundaryPolicy[b]

\* The row of a result under review waits for this boundary's decision.
ReviewsRow ==
    \A b \in Boundaries, n \in Nonces : Reviews(b, n) =>
        /\ Status(n) = "succeeded" /\ executions[n].disposition = "pending_review"
        /\ executions[n].result /\ executions[n].policy = BoundaryPolicy[b]
        /\ \A c \in Boundaries : Reviews(c, n) => c = b

BusyIsCalm == \A b \in Boundaries : ~At(b, "idle") => ~escalated[b]

Holding(c, n) == guard[c].pc \in {"record", "review", "decide"} /\ guard[c].nonce = n
Answered(n) ==
    Status(n) = "succeeded" /\ (executions[n].disposition = "withheld" \/ n \in shown \cup verdicts)

\* A remembered content stands for a row that its boundary still works on, or
\* whose result was withheld, shown or accepted.
Explains(c, d, n) == InTask(n, TaskOf[BoundaryScope[c]]) /\ Live(n) /\ executions[n].digest = d
Explained(c, d) == \E n \in Nonces : Explains(c, d, n) /\ (Holding(c, n) \/ Answered(n))

MemoryExplained ==
    \A c \in Boundaries : \A d \in executed[c] :
        EffectOf[d] \notin Repeatable => escalated[c] \/ Explained(c, d)

RowsAtWork == WorksInTask /\ ReviewsRow

\* Boundary b does something.
Acts(b) == BoundaryStep(b) \/ Restart(b) \/ \E n \in Nonces, d \in Digests : Evaluate(b, n, d)

LEMMA SomebodyActs ==
    ASSUME [GuardNext]_guardVars
    PROVE  \/ \E b \in Boundaries : Acts(b)
           \/ UNCHANGED <<guard, memoryVars, shown, verdicts>>
  BY DEF GuardNext, Acts, Reconcile, guardVars, memoryVars

\* What one boundary does leaves the records and the memory of the others alone.
LEMMA OthersStay ==
    ASSUME GuardInv, NEW b \in Boundaries, Acts(b), NEW c \in Boundaries, c # b
    PROVE  guard'[c] = guard[c] /\ executed'[c] = executed[c] /\ escalated'[c] = escalated[c]
  <1>1. /\ guard \in [Boundaries -> Handling \cup {Idle}] /\ executed \in [Boundaries -> SUBSET Digests]
        /\ escalated \in [Boundaries -> BOOLEAN]
    BY DEF GuardInv, GuardTypeOK
  <1>2. /\ UNCHANGED guard \/ Turns(b)
        /\ UNCHANGED executed \/ \E s : executed' = [executed EXCEPT ![b] = s]
        /\ UNCHANGED escalated \/ \E e : escalated' = [escalated EXCEPT ![b] = e]
    <2>1. ASSUME NEW n \in Nonces, NEW d \in Digests, Evaluate(b, n, d)
          PROVE  /\ UNCHANGED guard \/ Turns(b)
                 /\ UNCHANGED executed
                 /\ UNCHANGED escalated \/ \E e : escalated' = [escalated EXCEPT ![b] = e]
      BY <2>1, GuardEvaluate DEF Evaluate, Escalate
    <2>2. CASE Restart(b)
      BY <2>2, BoundaryTurns DEF Restart
    <2>3. CASE BoundaryStep(b)
      <3>1. Turns(b)
        BY <2>3, BoundaryTurns
      <3>2. UNCHANGED executed \/ Remember(b)
        BY <2>3 DEF BoundaryStep, Reserve, Run, Cancel, Doubt, RecordResult, PostReview, Decide, memoryVars
      <3>3. UNCHANGED escalated \/ \E e : escalated' = [escalated EXCEPT ![b] = e]
        BY <2>3 DEF BoundaryStep, Reserve, Run, Cancel, Doubt, RecordResult, PostReview, Decide, memoryVars,
                    Escalate
      <3> QED BY <3>1, <3>2, <3>3 DEF Remember
    <2> QED BY <2>1, <2>2, <2>3 DEF Acts
  <1> QED BY <1>1, <1>2 DEF Turns

\* How a boundary goes on with a call.
LEMMA OwnMoves ==
    ASSUME GuardInv, NEW b \in Boundaries, Acts(b)
    PROVE  \/ guard'[b].pc \notin OwningSteps
           \/ /\ guard'[b].nonce = guard[b].nonce /\ guard'[b].digest = guard[b].digest
              /\ \/ /\ Reserve(b) /\ guard'[b].pc = "run"
                    /\ ReserveInsert(guard[b].nonce, BoundaryScope[b], guard[b].nonce, guard[b].digest,
                                     BoundaryPolicy[b])
                 \/ Run(b) /\ guard'[b].pc \in {"cancel", "doubt", "record"}
                 \/ RecordResult(b) /\ guard'[b].pc = "review" /\ Reviewing(b)
                 \/ PostReview(b) /\ guard'[b].pc = "decide"
  <1>1. GuardTypeOK /\ Idle.pc \notin OwningSteps
    BY DEF GuardInv, Idle, OwningSteps
  <1>2. ASSUME Return(b) PROVE guard'[b].pc \notin OwningSteps
    BY <1>1, <1>2 DEF Return, GuardTypeOK
  <1>3. ASSUME NEW n, NEW e, NEW target, Plan(b, n, e, target) PROVE guard'[b].pc \notin OwningSteps
    <2> DEFINE rec == [pc |-> "reserve", nonce |-> n, digest |-> e,
                       target |-> IF target = "CONTAINER" THEN target ELSE "DEFAULT",
                       disposition |-> "review_required"]
    <2>1. rec.pc \notin OwningSteps
      BY DEF OwningSteps
    <2>2. guard' = [guard EXCEPT ![b] = rec] \/ guard' = [guard EXCEPT ![b] = Idle]
      BY <1>3 DEF Plan
    <2> HIDE DEF rec
    <2> QED BY <1>1, <2>1, <2>2 DEF GuardTypeOK
  <1>4. ASSUME NEW n \in Nonces, NEW d \in Digests, Evaluate(b, n, d) PROVE guard'[b].pc \notin OwningSteps
    <2>1. UNCHANGED guard \/ \E e, target : Plan(b, n, e, target)
      BY <1>4 DEF Evaluate, Rewritten
    <2>2. At(b, "idle")
      BY <1>4 DEF Evaluate
    <2> QED BY <1>3, <2>1, <2>2 DEF At, OwningSteps
  <1>5. ASSUME guard[b].pc # "idle", NEW step \in OwningSteps, Goto(b, step)
        PROVE  guard'[b].pc = step /\ guard'[b].nonce = guard[b].nonce /\ guard'[b].digest = guard[b].digest
    BY <1>1, <1>5, GotoRecord
  <1>6. CASE Reserve(b)
    BY <1>2, <1>5, <1>6 DEF Reserve, At, OwningSteps
  <1>7. CASE Run(b)
    BY <1>2, <1>5, <1>7 DEF Run, At, OwningSteps
  <1>8. CASE Cancel(b) \/ Doubt(b) \/ Decide(b) \/ Restart(b)
    BY <1>2, <1>8 DEF Cancel, Doubt, Decide, Restart
  <1>9. CASE RecordResult(b)
    BY <1>2, <1>5, <1>9 DEF RecordResult, At, OwningSteps
  <1>10. CASE PostReview(b)
    <2>1. PICK disposition : guard' = [guard EXCEPT ![b].pc = "decide", ![b].disposition = disposition]
      BY <1>10 DEF PostReview
    <2> DEFINE rec == [guard[b] EXCEPT !.pc = "decide", !.disposition = disposition]
    <2>2. guard[b] \in Handling
      BY <1>1, <1>10, GuardBusy DEF PostReview, At
    <2>3. rec.pc = "decide" /\ rec.nonce = guard[b].nonce /\ rec.digest = guard[b].digest
      BY <2>2 DEF Handling
    <2>4. guard' = [guard EXCEPT ![b] = rec]
      BY <2>1
    <2> HIDE DEF rec
    <2> QED BY <1>1, <1>10, <2>3, <2>4 DEF GuardTypeOK
  <1> QED BY <1>4, <1>6, <1>7, <1>8, <1>9, <1>10 DEF Acts, BoundaryStep

\* A result waiting for its review is changed by the decision about it alone.
LEMMA HeldStays ==
    ASSUME GuardInv, RunInv, [GuardNext]_guardVars, NEW n \in Nonces,
           Status(n) = "succeeded", executions[n].disposition = "pending_review"
    PROVE  \/ executions'[n] = executions[n]
           \/ \E b \in Boundaries : Decide(b) /\ guard[b].nonce = n
  <1>1. GuardTypeOK /\ TypeOK /\ executions \in [Nonces -> Row \cup {NoRow}]
    BY DEF GuardInv, GuardTypeOK, TypeOK
  <1>2. Present(n) /\ ~Accepted(n) /\ ~Uncertain(n)
    BY DEF Present, Accepted, Uncertain
  <1>3. ASSUME NEW m \in Nonces, m # n, NEW row, executions' = [executions EXCEPT ![m] = row]
        PROVE  executions'[n] = executions[n]
    BY <1>1, <1>3
  <1>4. ASSUME NEW b \in Boundaries, Reserve(b) PROVE executions'[n] = executions[n]
    <2>1. PICK m \in Nonces, d \in Digests : m = guard[b].nonce /\ d = guard[b].digest
      BY <1>1, <1>4, GuardBusy DEF Reserve, At
    <2>2. BoundaryScope[b] \in Scopes /\ BoundaryPolicy[b] \in Policies /\ m \in Keys
      BY GuardArguments
    <2>3. CASE ReserveInsert(m, BoundaryScope[b], m, d, BoundaryPolicy[b])
      BY <1>1, <1>2, <1>3, <2>2, <2>3, InsertStep
    <2>4. CASE ReserveReplay(m, BoundaryScope[b], m, d, BoundaryPolicy[b])
      <3>1. UNCHANGED executions \/ \E i \in Nonces : /\ Accepted(i)
                                                       /\ \E row : executions' = [executions EXCEPT ![i] = row]
        BY <2>4 DEF ReserveReplay, Existing
      <3> QED BY <1>2, <1>3, <3>1
    <2>5. CASE ReserveRefuse(m, BoundaryScope[b], m, d)
      BY <2>5 DEF ReserveRefuse, ledgerVars
    <2> QED BY <1>4, <2>1, <2>3, <2>4, <2>5 DEF Reserve
  <1>5. ASSUME NEW b \in Boundaries, Cancel(b) \/ Doubt(b) \/ RecordResult(b)
        PROVE  executions'[n] = executions[n]
    <2>1. guard[b].nonce \in Nonces
      BY <1>1, <1>5, GuardBusy DEF Cancel, Doubt, RecordResult, At
    <2>2. UNCHANGED executions \/ /\ Status(guard[b].nonce) = "pending"
                                  /\ \E row : executions' = [executions EXCEPT ![guard[b].nonce] = row]
      BY <1>5 DEF Cancel, Doubt, RecordResult, finish
    <2> QED BY <1>3, <2>1, <2>2
  <1>6. ASSUME NEW b \in Boundaries, Decide(b), guard[b].nonce # n PROVE executions'[n] = executions[n]
    <2>1. guard[b].nonce \in Nonces
      BY <1>1, <1>6, GuardBusy DEF Decide, At
    <2>2. UNCHANGED executions \/ \E row : executions' = [executions EXCEPT ![guard[b].nonce] = row]
      BY <1>6 DEF Decide, decide_result
    <2> QED BY <1>3, <1>6, <2>1, <2>2
  <1>7. ASSUME NEW m \in Nonces, NEW st, NEW accept, NEW fenced, Reconcile(m, st, accept, fenced)
        PROVE  executions'[n] = executions[n]
    <2>1. m # n
      BY <1>2, <1>7 DEF Reconcile
    <2> QED BY <1>1, <1>7, <2>1 DEF Reconcile, reconcile, Record
  <1>8. ASSUME NEW b \in Boundaries,
               Run(b) \/ PostReview(b) \/ Restart(b) \/ \E m \in Nonces, d \in Digests : Evaluate(b, m, d)
        PROVE  executions'[n] = executions[n]
    BY <1>8 DEF Run, PostReview, Restart, Evaluate, ledgerVars
  <1>9. UNCHANGED guardVars => executions'[n] = executions[n]
    BY DEF guardVars
  <1> QED BY <1>4, <1>5, <1>6, <1>7, <1>8, <1>9 DEF GuardNext, BoundaryStep

\* The rows boundaries work on or review stay as they left them.
LEMMA RowsAtWorkStep ==
    ASSUME GuardInv, RunInv, RowsAtWork, [GuardNext]_guardVars
    PROVE  RowsAtWork'
  <1>1. GuardTypeOK /\ TypeOK /\ [LedgerNext]_ledgerVars /\ executions \in [Nonces -> Row \cup {NoRow}]
    BY GuardStepIsLedgerStep DEF GuardInv, GuardTypeOK, TypeOK
  <1>2. \A c \in Boundaries : Acts(c) \/ guard'[c] = guard[c]
    BY SomebodyActs, OthersStay
  <1>3. WorksInTask'
    <2> SUFFICES ASSUME NEW c \in Boundaries, NEW n \in Nonces, Works(c, n)'
                 PROVE  executions'[n].scope = BoundaryScope[c] /\ executions'[n].policy = BoundaryPolicy[c]
      BY DEF WorksInTask
    <2>1. CASE Works(c, n)
      <3>1. /\ executions[n].scope = BoundaryScope[c] /\ executions[n].policy = BoundaryPolicy[c]
            /\ Present(n)
        BY <2>1 DEF RowsAtWork, WorksInTask, RunInv, OwnsRow, Present
      <3> QED BY <1>1, <3>1, RowKept DEF SameReservation
    <2>2. CASE ~Works(c, n)
      <3>1. Acts(c) /\ guard'[c].pc \in Working /\ guard'[c].nonce = n /\ guard'[c].pc \in OwningSteps
        BY <1>2, <2>2 DEF Works, Working, OwningSteps
      <3>2. guard[c].nonce = n /\ ReserveInsert(n, BoundaryScope[c], n, guard[c].digest, BoundaryPolicy[c])
            /\ At(c, "reserve")
        BY <2>2, <3>1, OwnMoves DEF Works, Working, At, Reserve, Run
      <3>3. guard[c].digest \in Digests /\ BoundaryScope[c] \in Scopes /\ BoundaryPolicy[c] \in Policies
            /\ n \in Keys
        BY <1>1, <3>2, GuardBusy, GuardArguments DEF At
      <3>4. executions'[n] = Fresh(n, BoundaryScope[c], n, guard[c].digest, BoundaryPolicy[c])
        BY <1>1, <3>2, <3>3, InsertStep
      <3> QED BY <3>4 DEF Fresh
    <2> QED BY <2>1, <2>2
  <1>4. ASSUME NEW c \in Boundaries, NEW n \in Nonces, Reviews(c, n)', ~Reviews(c, n)
        PROVE  /\ RecordResult(c) /\ Works(c, n) /\ Reviewing(c)
               /\ \A e \in Boundaries \ {c} : guard'[e] = guard[e]
    <2>1. Acts(c) /\ guard'[c].pc \in OwningSteps /\ guard'[c].pc \notin Working
      BY <1>2, <1>4 DEF Reviews, OwningSteps, Working
    <2>2. guard[c].nonce = n /\ RecordResult(c) /\ Reviewing(c)
      <3>1. guard'[c].pc \notin {"run", "cancel", "doubt", "record"} /\ guard'[c].nonce = n
        BY <1>4, <2>1 DEF Working, Reviews
      <3>2. ~(PostReview(c) /\ guard[c].nonce = n)
        BY <1>4 DEF PostReview, At, Reviews
      <3> QED BY <2>1, <3>1, <3>2, OwnMoves
    <2> QED BY <2>1, <2>2, OthersStay DEF Works, Working, RecordResult, At
  <1>5. ASSUME NEW c \in Boundaries, NEW n \in Nonces, Reviews(c, n)', Reviews(c, n)
        PROVE  executions'[n] = executions[n]
    <2>1. Status(n) = "succeeded" /\ executions[n].disposition = "pending_review"
      BY <1>5 DEF RowsAtWork, ReviewsRow
    <2>2. ASSUME NEW b \in Boundaries, Decide(b), guard[b].nonce = n PROVE FALSE
      <3>1. b = c
        BY <1>5, <2>2 DEF RowsAtWork, ReviewsRow, Reviews, Decide, At
      <3> QED BY <1>1, <1>5, <2>2, <3>1 DEF Decide, Return, GuardTypeOK, Idle, Reviews
    <2> QED BY <2>1, <2>2, HeldStays
  <1>6. ReviewsRow'
    <2> SUFFICES ASSUME NEW c \in Boundaries, NEW n \in Nonces, Reviews(c, n)'
                 PROVE  /\ Status(n)' = "succeeded" /\ executions'[n].disposition = "pending_review"
                        /\ executions'[n].result /\ executions'[n].policy = BoundaryPolicy[c]
                        /\ \A e \in Boundaries : Reviews(e, n)' => e = c
      BY DEF ReviewsRow
    <2>1. CASE Reviews(c, n)
      <3>1. executions'[n] = executions[n] /\ Status(n) = "succeeded"
        BY <1>5, <2>1 DEF RowsAtWork, ReviewsRow
      <3>2. ASSUME NEW e \in Boundaries, Reviews(e, n)' PROVE e = c
        <4>1. Reviews(e, n)
          BY <1>4, <3>1, <3>2 DEF RunInv, OwnsRow
        <4> QED BY <2>1, <4>1 DEF RowsAtWork, ReviewsRow
      <3> QED BY <2>1, <3>1, <3>2 DEF RowsAtWork, ReviewsRow, Status
    <2>2. CASE ~Reviews(c, n)
      <3>1. /\ RecordResult(c) /\ Works(c, n) /\ Reviewing(c)
            /\ \A e \in Boundaries \ {c} : guard'[e] = guard[e]
        BY <1>4, <2>2
      <3>2. Status(n) = "pending" /\ executions[n].policy = BoundaryPolicy[c] /\ guard[c].nonce = n
        BY <3>1 DEF RunInv, OwnsRow, RowsAtWork, WorksInTask, Works
      <3>3. finish(n, "succeeded", TRUE, "pending_review")
        BY <3>1, <3>2 DEF RecordResult
      <3>4. executions[n] \in Row
        BY <1>1, <3>2, RowCases DEF Present
      <3>5. executions'[n] = [executions[n] EXCEPT !.status = "succeeded", !.result = TRUE,
                                                   !.disposition = "pending_review"]
        BY <1>1, <3>2, <3>3 DEF finish
      <3>6. ASSUME NEW e \in Boundaries, Reviews(e, n)' PROVE e = c
        <4>1. Status(n) # "succeeded"
          BY <3>2
        <4> QED BY <3>1, <3>6, <4>1 DEF RowsAtWork, ReviewsRow, Reviews
      <3> QED BY <3>2, <3>4, <3>5, <3>6 DEF Row, Status
    <2> QED BY <2>1, <2>2
  <1> QED BY <1>3, <1>6 DEF RowsAtWork

\* A boundary escalates over a call only as it ends it.
LEMMA CalmStep ==
    ASSUME GuardInv, BusyIsCalm, [GuardNext]_guardVars
    PROVE  BusyIsCalm'
  <1>1. GuardTypeOK /\ Idle.pc = "idle"
    BY DEF GuardInv, Idle
  <1> SUFFICES ASSUME NEW c \in Boundaries, ~At(c, "idle")' PROVE ~escalated'[c]
    BY DEF BusyIsCalm
  <1>2. ASSUME Return(c) PROVE FALSE
    BY <1>1, <1>2 DEF Return, GuardTypeOK, At
  <1>3. ASSUME NEW n \in Nonces, NEW d \in Digests, Evaluate(c, n, d)
        PROVE  ~escalated[c] /\ UNCHANGED escalated
    <2>1. ~escalated[c] /\ At(c, "idle")
      BY <1>3 DEF Evaluate
    <2>2. ~UNCHANGED guard
      BY <2>1 DEF At
    <2>3. ASSUME NEW e, NEW target, Plan(c, n, e, target) PROVE UNCHANGED escalated
      <3>1. ~Return(c)
        BY <1>2
      <3> QED BY <2>3, <3>1 DEF Plan, Return
    <2>4. UNCHANGED escalated
      BY <1>3, <2>2, <2>3 DEF Evaluate, Rewritten
    <2> QED BY <2>1, <2>4
  <1>4. ASSUME BoundaryStep(c) PROVE ~escalated[c] /\ UNCHANGED escalated
    <2>1. ~At(c, "idle")
      BY <1>4 DEF BoundaryStep, Reserve, Run, Cancel, Doubt, RecordResult, PostReview, Decide, At
    <2>2. UNCHANGED escalated
      BY <1>2, <1>4 DEF BoundaryStep, Reserve, Run, Cancel, Doubt, RecordResult, PostReview, Decide, memoryVars
    <2> QED BY <2>1, <2>2 DEF BusyIsCalm
  <1>5. CASE Acts(c)
    BY <1>2, <1>3, <1>4, <1>5 DEF Acts, Restart
  <1>6. CASE ~Acts(c)
    <2>1. guard'[c] = guard[c] /\ escalated'[c] = escalated[c]
      BY <1>6, SomebodyActs, OthersStay DEF memoryVars
    <2> QED BY <2>1 DEF BusyIsCalm, At
  <1> QED BY <1>5, <1>6

\* What was shown or accepted stays so, and so does what was withheld.
LEMMA AnswersStay ==
    ASSUME GuardInv, [GuardNext]_guardVars, NEW n \in Nonces, Answered(n)
    PROVE  Answered(n)'
  <1>1. TypeOK /\ [LedgerNext]_ledgerVars /\ Present(n)
    BY GuardStepIsLedgerStep DEF GuardInv, GuardTypeOK, Answered, Present
  <1>2. shown \subseteq shown'
    BY DEF GuardNext, BoundaryStep, Evaluate, Reserve, Run, Cancel, Doubt, RecordResult, PostReview, Decide,
           Restart, Reconcile, guardVars
  <1>3. Status(n)' = "succeeded"
    BY <1>1, RowKept DEF Answered
  <1>4. executions[n].disposition = "withheld" => executions'[n] = executions[n]
    BY <1>1, WithheldStays DEF Answered
  <1> QED BY <1>2, <1>3, <1>4, VerdictsGrow DEF Answered

\* A row goes on explaining a content while its boundary holds it or its result
\* is answered.
LEMMA ExplanationStays ==
    ASSUME GuardInv, RunInv', ReviewsRow', [GuardNext]_guardVars, NEW c \in Boundaries, NEW d, NEW n \in Nonces,
           Explains(c, d, n), Holding(c, n)' \/ Answered(n)'
    PROVE  Explained(c, d)'
  <1>1. TypeOK /\ [LedgerNext]_ledgerVars /\ Present(n)
    BY GuardStepIsLedgerStep DEF GuardInv, GuardTypeOK, Explains, InTask
  <1>2. Present(n)' /\ executions'[n].digest = d /\ InTask(n, TaskOf[BoundaryScope[c]])'
    BY <1>1, RowStays DEF Explains, InTask
  <1>3. Status(n)' \in {"pending", "succeeded"}
    <2>1. CASE Works(c, n)'
      BY <2>1 DEF RunInv, OwnsRow
    <2>2. CASE Reviews(c, n)'
      BY <2>2 DEF ReviewsRow
    <2>3. CASE Answered(n)'
      BY <2>3 DEF Answered
    <2> QED BY <2>1, <2>2, <2>3 DEF Holding, Works, Working, Reviews
  <1>4. Explains(c, d, n)'
    BY <1>2, <1>3 DEF Explains, Live, Present
  <1> QED BY <1>4 DEF Explained

\* A boundary that neither dies nor escalates keeps hold of its row until the
\* result is answered.
LEMMA HoldGoesOn ==
    ASSUME GuardInv, RunInv, RowsAtWork, NEW b \in Boundaries, BoundaryStep(b), ~escalated'[b],
           NEW n \in Nonces, guard[b].nonce = n,
           Holding(b, n) \/ (Run(b) /\ executed' # executed)
    PROVE  Holding(b, n)' \/ Answered(n)'
  <1>1. /\ GuardTypeOK /\ TypeOK /\ executions \in [Nonces -> Row \cup {NoRow}]
        /\ escalated \in [Boundaries -> BOOLEAN]
    BY DEF GuardInv, GuardTypeOK, TypeOK
  <1>2. ASSUME guard[b].pc # "idle", NEW step \in {"record", "review", "decide"}, Goto(b, step)
        PROVE  Holding(b, n)'
    <2>1. step \in OwningSteps
      BY DEF OwningSteps
    <2> QED BY <1>1, <1>2, <2>1, GotoRecord DEF Holding
  <1>3. CASE Run(b) /\ executed' # executed
    BY <1>2, <1>3 DEF Run, At
  <1>4. CASE RecordResult(b) /\ Goto(b, "review")
    BY <1>2, <1>4 DEF RecordResult, At
  <1>5. CASE RecordResult(b) /\ ~Goto(b, "review")
    <2>1. Status(n) = "pending"
      BY <1>5 DEF RecordResult, At, RunInv, OwnsRow, Works, Working
    <2>2. shown' = shown \cup {n}
      BY <1>5, <2>1 DEF RecordResult
    <2>3. \E di \in Dispositions : finish(n, "succeeded", TRUE, di)
      BY <1>5 DEF RecordResult, Dispositions
    <2>4. Status(n)' = "succeeded"
      BY <1>1, <2>1, <2>3, FinishEffect DEF Statuses, Becomes
    <2> QED BY <2>2, <2>4 DEF Answered
  <1>6. CASE PostReview(b)
    <2>1. PICK disposition : guard' = [guard EXCEPT ![b].pc = "decide", ![b].disposition = disposition]
      BY <1>6 DEF PostReview
    <2> DEFINE rec == [guard[b] EXCEPT !.pc = "decide", !.disposition = disposition]
    <2>2. guard[b] \in Handling
      BY <1>1, <1>6, GuardBusy DEF PostReview, At
    <2>3. rec.pc = "decide" /\ rec.nonce = guard[b].nonce
      BY <2>2 DEF Handling
    <2>4. guard' = [guard EXCEPT ![b] = rec]
      BY <2>1
    <2> HIDE DEF rec
    <2> QED BY <1>1, <2>3, <2>4 DEF GuardTypeOK, Holding
  <1>7. CASE Decide(b)
    <2> DEFINE di == guard[b].disposition
    <2>1. /\ Status(n) = "succeeded" /\ executions[n].disposition = "pending_review"
          /\ executions[n].result /\ executions[n].policy = BoundaryPolicy[b]
      BY <1>7 DEF Decide, At, RowsAtWork, ReviewsRow, Reviews
    <2>2. di \in Dispositioned
      BY <1>1, <1>7, GuardBusy DEF Decide, At, Handling
    <2>3. executions[n] \in Row
      BY <1>1, <2>1, RowCases DEF Present
    <2>4. decide_result(n, di, BoundaryPolicy[b])
      BY <1>7 DEF Decide
    <2>5. executions'[n] = [executions[n] EXCEPT !.disposition = di]
      BY <1>1, <2>1, <2>4 DEF decide_result
    <2> HIDE DEF di
    <2>6. Status(n)' = "succeeded" /\ executions'[n].disposition = di
      BY <2>1, <2>3, <2>5 DEF Status, Row
    <2>7. executions' # executions
      BY <2>1, <2>2, <2>6 DEF Dispositioned
    <2>8. di # "review_required"
      BY <1>1, <1>7, <2>7 DEF Decide, Escalate, di
    <2>9. di = "accepted_for_agent" => n \in shown'
      BY <1>7, <2>7 DEF Decide, di
    <2> QED BY <2>2, <2>6, <2>8, <2>9 DEF Dispositioned, Answered
  <1>8. CASE Reserve(b) \/ Cancel(b) \/ Doubt(b)
    BY <1>8 DEF Reserve, Cancel, Doubt, Run, At, Holding
  <1>9. CASE Run(b) /\ Holding(b, n)
    BY <1>9 DEF Run, At, Holding
  <1> QED BY <1>3, <1>4, <1>5, <1>6, <1>7, <1>8, <1>9 DEF BoundaryStep, Run, RecordResult, PostReview, Decide,
                                                           At, Holding

\* What a boundary remembers stays explained.
LEMMA MemoryStep ==
    ASSUME GuardInv, RunInv, RowsAtWork, BusyIsCalm, MemoryExplained, RunInv', RowsAtWork',
           [GuardNext]_guardVars
    PROVE  MemoryExplained'
  <1>1. ReviewsRow' /\ GuardTypeOK /\ executed \in [Boundaries -> SUBSET Digests]
    BY DEF RowsAtWork, GuardInv, GuardTypeOK
  <1> SUFFICES ASSUME NEW c \in Boundaries, NEW d \in executed'[c], EffectOf[d] \notin Repeatable,
                      ~escalated'[c]
               PROVE  Explained(c, d)'
    BY DEF MemoryExplained
  <1>2. ASSUME d \in executed[c], ~escalated[c],
               \A n \in Nonces : Holding(c, n) => Holding(c, n)' \/ Answered(n)'
        PROVE  Explained(c, d)'
    <2>1. PICK n \in Nonces : Explains(c, d, n) /\ (Holding(c, n) \/ Answered(n))
      BY <1>2 DEF MemoryExplained, Explained
    <2>2. Holding(c, n)' \/ Answered(n)'
      BY <1>2, <2>1, AnswersStay
    <2> QED BY <1>1, <2>1, <2>2, ExplanationStays
  <1>3. CASE ~Acts(c)
    <2>1. guard'[c] = guard[c] /\ executed'[c] = executed[c] /\ escalated'[c] = escalated[c]
      BY <1>3, SomebodyActs, OthersStay DEF memoryVars
    <2> QED BY <1>2, <2>1 DEF Holding
  <1>4. CASE Restart(c)
    BY <1>1, <1>4 DEF Restart
  <1>5. ASSUME NEW n \in Nonces, NEW e \in Digests, Evaluate(c, n, e) PROVE Explained(c, d)'
    <2>1. executed' = executed /\ ~escalated[c] /\ At(c, "idle")
      BY <1>5 DEF Evaluate
    <2> QED BY <1>2, <2>1 DEF Holding, At
  <1>6. CASE BoundaryStep(c)
    <2>1. ~escalated[c] /\ guard[c].pc # "idle"
      BY <1>6 DEF BoundaryStep, Reserve, Run, Cancel, Doubt, RecordResult, PostReview, Decide, At, BusyIsCalm
    <2>2. CASE d \in executed[c]
      <3>1. \A n \in Nonces : Holding(c, n) => Holding(c, n)' \/ Answered(n)'
        BY <1>6, HoldGoesOn DEF Holding
      <3> QED BY <1>2, <2>1, <2>2, <3>1
    <2>3. CASE d \notin executed[c]
      <3>1. PICK n \in Nonces : n = guard[c].nonce
        BY <1>1, <2>1, GuardBusy
      <3>2. executed' # executed
        BY <2>3
      <3>3. /\ Remember(c) /\ Works(c, n)
            /\ Holding(c, n) \/ (Run(c) /\ executed' # executed)
        <4>1. CASE Run(c)
          BY <3>1, <3>2, <4>1 DEF Run, At, Works, Working
        <4>2. CASE RecordResult(c)
          BY <3>1, <3>2, <4>2 DEF RecordResult, At, Works, Working, Holding
        <4>3. CASE Doubt(c)
          <5>1. escalated' # [escalated EXCEPT ![c] = TRUE]
            BY DEF GuardInv, GuardTypeOK
          <5> QED BY <3>2, <4>3, <5>1 DEF Doubt, Escalate, memoryVars
        <4> QED BY <1>6, <3>2, <4>1, <4>2, <4>3
                DEF BoundaryStep, Reserve, Cancel, PostReview, Decide, memoryVars
      <3>4. d = guard[c].digest
        BY <1>1, <2>3, <3>3 DEF Remember
      <3>5. Explains(c, d, n)
        BY <3>3, <3>4 DEF RunInv, OwnsRow, RowsAtWork, WorksInTask, Explains, InTask, Live, Present
      <3>6. Holding(c, n)' \/ Answered(n)'
        BY <1>6, <3>1, <3>3, HoldGoesOn
      <3> QED BY <1>1, <3>5, <3>6, ExplanationStays
    <2> QED BY <2>2, <2>3
  <1> QED BY <1>3, <1>4, <1>5, <1>6 DEF Acts

EscalationInv == RowsAtWork /\ BusyIsCalm /\ MemoryExplained

\* EscalationInv holds throughout.
LEMMA EscalationInvariant == GuardSpec => []EscalationInv
  <1>1. GuardInit => EscalationInv
    BY DEF GuardInit, EscalationInv, RowsAtWork, WorksInTask, ReviewsRow, BusyIsCalm, MemoryExplained,
           Works, Working, Reviews, Idle, At
  <1>2. GuardInv /\ RunInv /\ RunInv' /\ EscalationInv /\ [GuardNext]_guardVars => EscalationInv'
    BY RowsAtWorkStep, CalmStep, MemoryStep DEF EscalationInv
  <1> QED BY <1>1, <1>2, GuardInvariant, RunInvariant, PTL DEF GuardSpec

\* An escalated boundary starts nothing until it is opened again.
LEMMA EscalatedIsIdle ==
    ASSUME GuardInv, [GuardNext]_guardVars, NEW b \in Boundaries, escalated[b], At(b, "idle")
    PROVE  At(b, "idle")'
  <1>1. guard \in [Boundaries -> Handling \cup {Idle}]
    BY DEF GuardInv, GuardTypeOK
  <1>2. CASE ~Acts(b)
    BY <1>2, SomebodyActs, OthersStay DEF At
  <1>3. CASE Restart(b)
    BY <1>1, <1>3 DEF Restart, Return, At, Idle
  <1>4. ~BoundaryStep(b)
    BY DEF BoundaryStep, Reserve, Run, Cancel, Doubt, RecordResult, PostReview, Decide, At
  <1>5. \A n \in Nonces, d \in Digests : ~Evaluate(b, n, d)
    BY DEF Evaluate
  <1> QED BY <1>2, <1>3, <1>4, <1>5 DEF Acts

\* Between calls, a boundary that remembers an unresolved call has escalated: an
\* unexplained memory is an escalated one, and the row that would explain it is
\* the unresolved one, as an effect is reserved once.
LEMMA UnresolvedEscalated ==
    ASSUME EffectReservedOnce, EscalationInv, NEW b \in Boundaries, Unresolved(b), At(b, "idle")
    PROVE  escalated[b]
  <1>1. PICK n \in Nonces :
           /\ InTask(n, TaskOf[BoundaryScope[b]])
           /\ executions[n].digest \in executed[b] /\ EffectAt(n) \notin Repeatable
           /\ \/ Status(n) = "unknown"
              \/ /\ Status(n) = "succeeded" /\ executions[n].disposition = "review_required"
                 /\ n \notin shown \cup verdicts
    BY DEF Unresolved
  <1> SUFFICES ASSUME ~escalated[b] PROVE FALSE
    OBVIOUS
  <1>2. PICK m \in Nonces : /\ Explains(b, executions[n].digest, m)
                            /\ Holding(b, m) \/ Answered(m)
    BY <1>1 DEF EscalationInv, MemoryExplained, Explained, EffectAt
  <1>3. Answered(m)
    BY <1>2 DEF At, Holding
  <1>4. m = n
    BY <1>1, <1>2 DEF EffectReservedOnce, Explains, InTask, Live, EffectAt
  <1> QED BY <1>1, <1>3, <1>4 DEF Answered

\* A boundary that left a call behind with an unknown outcome, or with a result
\* that failed its review, begins no other until it is opened again.
THEOREM EscalationHolds == GuardSpec => EscalationIsTerminal
  <1> DEFINE Stays == \A b \in Boundaries : Unresolved(b) /\ At(b, "idle") => At(b, "idle")'
  <1>1. GuardInv /\ EffectReservedOnce /\ EscalationInv /\ [GuardNext]_guardVars => [Stays]_guardVars
    BY UnresolvedEscalated, EscalatedIsIdle
  <1> QED BY <1>1, GuardInvariant, GuardUsesLedger, ReservedOnce, EscalationInvariant, PTL
          DEF GuardSpec, EscalationIsTerminal
=============================================================================

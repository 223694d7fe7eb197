# TraceGuard: a TLA+ verification project

TraceGuard stands between an agent and its tools. It decides whether a proposed
call is within the task a person approved, runs what is allowed (in the process,
in a container, or through a provider behind an executor), remembers durably what
may already have happened, and keeps results and artifacts back until they may be
released. This directory holds TLA+ modules of the parts of the program that keep
state, the TLC configurations that check them on small instances, and TLAPS proofs
of the central properties for every instance. Source paths below are relative to
`src/traceguard/`.

To repeat everything: `tlc -config X.cfg M` for each run in the table of section 4, and
`tlapm M.tla` for the eight `*Proofs` modules.

## 1. Inventory

| Component | State it keeps | Operations | Modelled |
|---|---|---|---|
| Execution ledger (`ledger.py`) | SQLite tables `executions`, `reconciliations` | `reserve`, `finish`, `decide_result`, `reconcile`, `lookup`, offline migrations | `ExecutionLedger` |
| Mediated executor (`executor.py`) | none but the ledger; local variables of running calls | `execute`, `reconcile` | `MediatedExecutor` |
| Control plane (`control/service.py`), grants (`control/execution.py`) | policies, epoch, suspension, revoked credentials, receipts, reviews, tasks, grants, audit chain | draft, submit, approve, roll back, evaluate, resolve review, register, bind, issue, validate, revoke, suspend | `ControlPlane`; `AgentAuthority` is what one agent sees of it |
| Durable storage (`control/storage.py`) | the above, in one signed SQLite row | load, prune, bound, save; backup, rekey | transactions, pruning, quota and rekey in `ControlPlane` |
| Artifact store (`release_gate.py`), report adapter (`isolated.py`) | private manifests, public bundles, a lock file | ingest, manifest, committed, reject, release, migration; dispatch, reconcile | `ArtifactStore` |
| Embedded guard (`_enforcement.py`, `security.py`), decision merge (`supervisor/base.py`) | executed calls, escalated tasks; the ledger | `execute_call` | `GuardedExecution` |
| Task authority (`policy/authorization.py`, `kernel.py`, `effects.py`, `read_resources.py`) | none | decision functions of a call and its history | `TaskAuthority` (strict mode) |
| Deterministic policy (`policy/engine.py`, `network.py`), control-plane matching (`policy/matching.py`) | none | pattern matching over arguments | nondeterministic opinions; rule precedence in `PolicyClient` |
| mTLS boundary (`mtls.py`) | connection slots, handshake permits, peer counts, rate windows, sessions | accept, handshake, admit, time out, dispatch | `BoundaryServer` |
| HTTP admission (`control/admission.py`) | requests in flight, rate buckets | admit, read, forward | a nondeterministic refusal in `PolicyClient` |
| Container runner (`sandbox/runner.py`), exporter (`data/sandbox/export.py`) | a container, docker CLIs, staging directories | check, stage, launch, execute, collect, clean up, quarantine | `ContainerRunner`; a launch in `GuardedExecution` |
| Inspect integrations (`integrations/`) | the gateway's history and escalation; the ledger | `evaluate`, `observation`, the approval callback, `execute` | `InspectExecutor` |
| SDK cache and client (`sdk.py`) | signed bundle, lowest epoch, queued decisions | install, evaluate, decide offline, reconcile | `PolicyClient` |
| LLM supervisor (`supervisor/llm.py`, `contracts.py`), deterministic supervisor | none | evaluate, validate a rewrite; reevaluate | `Supervision`; the provider is arbitrary |
| HTTP API, CLI, signing, tool handlers, validation scripts | none | | no |

How they interact. An agent asks the control plane for a decision and, for allowed
or reviewed actions, a signed grant bound to one action digest, one executor and one
nonce. The executor validates the grant online, reserves the nonce in the ledger,
validates again, calls the provider and records the outcome. What it cannot know it
leaves pending or unknown; a reviewer later asks the provider for a receipt and
reconciles. The report adapter is such a provider: it publishes artifacts. The embedded
guard does the same inside the application, with the application itself as reviewer:
authority, policy and supervisor are merged to a decision, the call is reserved, run,
and a container's output is reviewed after the run. The Inspect integration does it again for
native tools that are coroutines: a gateway evaluates calls for the executor and for the approval
callback of one process, and the executor reserves, awaits the tool and records.
Commands run in containers of their own, whose output is exported, checked and put in quarantine.
A client of the control plane may hold a signed bundle of the policy and decide reads from it while
the control plane cannot be reached; it reports those decisions later under their own keys.

What is hard in it: several processes share the ledger and the artifact directory
and may die between any two steps; the provider acts after the caller has given up;
authority is withdrawn while its consequences are on their way; results are stored
before they are reviewed; receipts, reviews, grants and bundles expire at different times; power
failures reorder what reached the disk; the docker daemon finishes what a killed CLI asked for. `PROJECT.json` lists these hazards line by line
with the property that would show each one going wrong.

## 2. Modules

### ExecutionLedger
`executions` is the table of that name: one row per nonce with scope, key, digest,
status, disposition, policy and whether a result is stored. `reconciliations` is its
audit table, `released` observes which results a replay returned and under which policy.
Each SQLite transaction is atomic and is one action: `reserve` (with its outcomes
`ReserveInsert`, `ReserveReplay`, `ReserveRefuse`), `finish`, `decide_result`,
`reconcile`. A transaction that raises changes nothing. A digest determines its effect
(`EffectOf`), an effect its amount; a scope determines its task. Several nonces, keys,
credentials and digests of one effect are what the ledger has to see through.

### MediatedExecutor, EffectContract
`worker` holds where each running `execute` is (validate, reserve, recheck, dispatch,
await, confirm; cancel and doubt on failure), `reviewer` the same for `reconcile` between
the lookup, the receipt and the ledger transaction. `grants` is what the issuer would
answer, `provider` how many calls with a nonce are under way or applied: both are
external and act at any time. `Crash` ends a worker between any two steps.
`Foreclosing` and `FenceFirst` are the two ways a negative receipt can be made final:
the provider promises to refuse the call from then on, or reviewers stop the worker
before they ask.

`EffectContract` is the abstract specification of ledger, executor, provider and
reviewers together. It knows requests that are idle, open, done or void and the set of
effects that happened: a request is opened while no other of its task is open and its
effect is not done; the effect happens at most once, while the request is open; the
request is closed as what it really was. `KeepsEffectContract` says that the executor
implements it under the mapping from row status to phase.

### ControlPlane
One tenant's authority. Every public operation is one transaction and one action,
guarded by roles, suspension, revocation and expiry exactly where the code checks them.
Rule matching is abstracted: a draft is the function from actions to decisions it
stands for. `Durable` selects `SQLiteControlPlane`, whose transaction drops expired
receipts, reviews and grants first and refuses any operation that would exceed the audit
quota. Grants stay in the model after they expire, so that properties can speak of them. `rekey`
is the offline rotation into a new database, taken as one step: the old services are stopped, the
copy loses receipts, reviews and grants, and every epoch in use ends.

### AgentAuthority, PolicyClient
`AgentAuthority` is the abstract specification of the authority as one agent credential sees it:
the content in force, the epoch, whether the credential is refused, and the receipts of its keys with
what is left of their lifetime; `durable` says which store it keeps them in, the SQLite one, which prunes an
expired receipt, or the in-memory one, where its key is spent. Whatever changes what the agent may do is one `Change`, and it ends
the epoch. `SeenBy(a)` in `ControlPlane` is the refinement mapping for agent `a`, and
`EpochTellsChange` says that the control plane implements the specification for each agent.

`PolicyClient` is built on that specification: `TraceGuardClient` with its cache. `call` and
`answer` are the request it waits for; `TransportFails` ends it before or after the authority handled
it, `abandoned` is a request that may still arrive. `signed` are bundles on their way, which the
application may install late, repeatedly and out of order. A bundle's age is counted by the authority's
clock; the client's clock is `Lag` behind it, `Tolerance` is what `install` lets a bundle come from the future.
Rules are kept: `select_rule` with its precedence is applied to the whole policy by the authority
and to what `InScope` leaves of it by the client, and `ClientConstants` ties `Table`, the authority's
decisions, to the rules. `owed` and `superseded` observe unreported decisions and how long ago
an epoch ended. The keys of the client do not change while it runs: after `rekey` it is
configured anew, which is `Restart`. `Blocked` says that the head of the queue meets the receipt of an earlier attempt
that does not answer it any more.

### ContainerRunner
One call of `execute`. `host` is the thread with its timeouts, `cli` what the docker CLI of launch,
command or export waits for, `removal` the one of `docker rm --force`. `daemon` holds requests the daemon
has received and not yet processed: killing a CLI does not take its request back, but a killed
`docker run` does not go on from create to start. The container, the command (which may leave
children behind, run for ever and make the exporter report anything) and the daemon (which may fail
anything) are external. An unallowlisted profile runs the command in the foreground, an
allowlisted one starts a detached container whose only process sleeps. Time is in units of ten
seconds. An exported file is its path and its size. `outcome` is how the call ended: `unverified`
covers every failure of the removal, whichever exception reports it.

### ArtifactStore
Processes run `dispatch`, `release`, `reject` and the receipt check one system call at a time
(`ingest`, `fill`, `stage`, `flush`, `rename`, `sync`, `mirror`). `manifest` and `bundle` are what a
process sees, `disk` what would survive a power loss; `WriteBack` lets the operating system
write any change early, `PowerLoss` takes the rest back. `Settled` says what a rename
leaves on disk depending on whether the files were flushed before it.

### GuardedExecution
Several boundaries (`SecuredTools` instances) of one task over one ledger. `guard` is what
each one is doing, `executed` and `escalated` its memory, which `Restart` loses. `Evaluate`
covers the call from the lock to the plan: the compiled authority first and finally, then
every opinion the deterministic policy and the supervisor may have, combined by
`merge_outputs`; a rewrite is validated and evaluated again. Then `Reserve`, `Run`, `RecordResult`,
`PostReview`, `Decide` follow the code, with `Cancel` and `Doubt` for its failure branches.
A contained read plans no row; it may still escalate, without a container, when the sandbox is unavailable, or
when the review of what was read fails. The supervisor may say anything; `Authority` is what the compiled task authority says of a
call. `runs`, `shown` and `verdicts` observe what really ran, what an agent received and
what the review accepted.

### BoundaryServer
One thread and one timer per accepted connection (`conn`), with the server's semaphores
(`slots`, `handshakes`), peer counts and the two tables of `_budget`. Actions follow the thread from
one lock, semaphore or blocking call to the next. `StartTimer` is the start of the timer thread, and `TimerFails` its failure: that is before
the `try` block, so the connection's thread ends `Stranded`, with its slot and session. `Expire` is the timer, `Fail` the end of a blocking
call by an exception, `Unwind` and `FreeSlot` the finally block. A socket is only known by whether it
was shut down: between `Wrap` and `Attach` the timer still has the raw socket, whose descriptor is
gone. `Reregister` is the application rewriting the registry at any time. `admitted` observes
admissions over time.

### TaskAuthority, Supervision, InspectExecutor
`TaskAuthority` holds the decision functions of a strict task authority: a call is a tool and a
function from fields to sets of atoms, and the checks of `check_authority` and of the compiled kernel are
listed in the order of the code, the first refusal deciding (`FirstRefusal`). `Granted` says
independently, and without order, what an authority is meant to permit (a field the grant
gives a value, leaves to an observation or confines to resources is `Fixed` by it; a generated field, an
amount up to the maximum and an empty optional field are governed too);
`OnlyGrantedRuns` compares the two. `Supervision` adds `validate_replacement`, the runtime's reading of a provider's response, and
the gateway's `evaluate` with its single re-evaluated rewrite; the provider may answer anything,
with any confidence, or fail. `InspectExecutor` is the state: `gateway` (history and escalation,
lost by `Restart`), `runner` (what each `execute` coroutine is doing) and the shared ledger.
Coroutines of one process give way to each other only at the await of their tool (`Busy`); other
processes interleave anywhere. `Doubt` covers exceptions and cancellation, before or after the tool took effect.
`Approve` is the approval callback.

### Proof modules
`ExecutionLedgerProofs`, `MediatedExecutorProofs`, `ControlPlaneProofs`, `GuardedExecutionProofs`,
`BoundaryServerProofs`, `PolicyClientProofs` and `InspectExecutorProofs`, each on the module it is named
after; `SandboxProofs` on `ArtifactStore` and `ContainerRunner`. The modules of the three callers of the
ledger use its theorems and the lemmas on what its transactions do.

## 3. Properties

Each definition carries its own comment. In short:

* Ledger: one uncertain row per task (checked through the guard, proved for every caller); proved
  only: a non-repeatable effect reserved once; the live reservations of a task within its budget; replay only under the policy of the row; settled rows,
  reconciled ones included, and withheld results stay so.
* Executor: one provider call per reservation; a call in flight
  holds its task; `not_dispatched` means no effect, ever; effects applied once; a grant withdrawn before its call left a worker never has an effect; real spending within budget;
  every uncertain row can be resolved; refinement of `EffectContract`; a worker keeps its row (proved only).
* Control plane: a valid grant is authorized by the policy in force now; an escalated
  grant has a review of its own by somebody else; invalid grants stay invalid; each agent
  sees a behaviour of `AgentAuthority`; one policy in force (proved only).
* Client: what a bundle allows offline the authority itself allows under that policy, although the
  bundle leaves rules out; a policy, suspension or revocation reaches a client that is cut off within a
  bundle's lifetime and its clock's lag; every offline decision is queued or has reached the audit
  chain; a queued one is reported in the end, unless the credential stays refused or, in the in-memory service,
  the queue stays blocked (section 7).
* Container: what `execute` returns, or reports as unavailable, is of a container that neither runs
  nor can start; what reaches quarantine is a whole export within every limit; the keep-alive outlasts
  launch, command and export; a detached container ends by itself.
* Artifacts: rejection excludes release; an acknowledged publication survives; nothing torn
  is visible.
* Guard: a call id and a content run once; only what is authorized runs, rewrites
  included; the ledger tells what ran; unreviewed results are not shown; a boundary that
  left a call with an unknown outcome, or a result that failed its review, begins no other.
* Boundary: permits and counts are conserved, whatever clients do, and no slot is lost but that of a connection
  whose timer could not be started; of timer and dispatch one wins; every connection ends; fixed windows stay
  below twice the limit (proved only).
* Inspect: what runs is within the grant; a native call id and a content run once; payments
  stay within the grant over processes and restarts; receipts tell what ran; an escalation
  stops dispatch in its process; the callback approves only reads (refuted).

Type invariants take no place in the runs: every one of them is proved (section 5).

## 4. Runs

| Run | Instance | Shows |
|---|---|---|
| `executor` | 2 grants for the same effect, 2 keys, 2 workers, 1 reviewer, foreclosing provider | all safety properties and the refinement |
| `fence_first` | as above with 1 worker, point-in-time receipts, reviewers that fence first, effect repeatable, limit 1; fair | the promises without the provider's cooperation, real spending, withdrawn grants, and progress |
| `stale_receipt` | neither of the two | violation, see section 7 |
| `control_durable` | 5 actors, 2 policies, 2 grants, 1 review, a migrated task to bind and one to register, grants for 2 audiences, clock 0..1, 9 audit entries, rotation of keys up to epoch 2 | the authority's properties with SQLite, and that it implements `AgentAuthority` for its agent |
| `artifact_power` | 2 processes, a new and a legacy artifact | publication under process and power failure |
| `rejection_lost` | 2 processes, 1 artifact | violation, see section 7 |
| `container` | either output mode, command timeout 2, exports of up to 3 files of up to 3 bytes under 3 names, one of them too deep; limits 2 files, 2 bytes each, 3 in all; fair | the container's properties, whatever command and daemon do |
| `client` | 2 policies, 3 actions (2 reads), 2 keys, bundle and receipt lifetime 1, clock lag 1, queue of 2, 2 epochs, 2 bundles on their way, either store; fair | the client's properties against an authority that changes |
| `guard` | 2 boundaries with different result policies (one without a container runner), 2 call ids, an allowed write, a denied one, a command and a read | the guard's properties, and that the ledger serializes its task |
| `boundary` | 2 connections, 2 slots, 1 handshake permit, peer cap 1, a certificate bound to either of 2 identities or none, rate 2 in a window of 2, 1 tracked key, clock 0..2; fair | permits, caps, deadline, and that every connection ends |
| `inspect` | 2 processes (one with an LLM supervisor), 3 coroutines, 2 native ids, 7 calls: payments to one or two payees with either memo and an extra field, a listing with and without its default, an unknown tool; maximum 1 | the Inspect properties |
| `approval` | the same | violation, see section 7 |

Why the bounds are enough to be interesting. Every property relates at most two rows,
grants, artifacts or calls, so two of each show any violation that a pair can show;
two workers or boundaries are needed for races and a third adds only another contender
for the same row. (`fence_first` has one worker, whose crashes leave calls behind that race with its
next one and with the reviewer; two would take the liveness check past its time.) The two keys and scopes make the ledger's "nonce or key" lookup find a
different row than the request's own. Budgets are chosen so that two effects fit and
three do not, or one fits and two do not. The control plane's clock is
long enough for receipts and grants to expire before their review and policy; `MaxRekeyed` bounds
rotations, which are not audited, by the epoch up to which they happen, and `Audiences` restricts whom
grants are requested for to an executor and to somebody who is none. With receipts that live for one
unit, dropping them at a rotation looks to an agent like their expiry, so that the new epoch of `rekey` is
established by the proof, for every lifetime, rather than by this run. The
audit bound is at once a bound on the number of operations in a run and the quota of the
code. The observed counters (`runs`, `provider`) need no bound: the properties keep them at
most one. In `container` each limit can be met and be exceeded by one, and the
timeout of two units lets command and export use up their time separately. In `client` an epoch, a
receipt and a bundle can each end before or after the others: `MaxEpoch` = 2 lets the second policy
replace the first while bundles of both are on their way (`MaxSigned`), and with `Lag` = 1 and
`Tolerance` = 0 a fresh bundle is refused until the client's clock has caught up, and then outlives its lifetime.
Symmetry is used for interchangeable names only, and not in the runs that
check liveness.

Deadlock checking is off in the executor, control-plane and container runs: there a behaviour may end,
when all grants are used or expired, the clock's bound is reached or the quota is full, or the call is
over and its container gone.

Fairness. In `boundary`: time passes, thread and timer of a connection are
scheduled, a call on a socket that was shut down returns, and the dispatched service returns. Nothing
is assumed of clients. In `fence_first`: a worker or reviewer thread that can take its next step
eventually does (weak fairness): these are ordinary threads with timeouts on every wait.
The provider eventually applies or drops a call it has received. Reviewers do not give up:
the operator repeats the fenced lookup of every reservation, and the provider answers some of the
enquiries about each with a usable receipt (strong fairness). No fairness is assumed of agents, issuer or crashes.
In `container`: the host's thread takes its next step (every docker call has a timeout), time passes,
and the sleeping process of a detached container ends when its sleep is over; nothing is assumed of the command,
of the daemon or of the removal, so that `DetachedContainerEnds` rests on the sleep alone. In `client`:
time passes and every call ends within its timeout; the application keeps calling `reconcile`, and of
the requests it repeats the authority admits some and some of the answers arrive (strong fairness).
A credential that stays suspended or revoked is not promised anything (`<>[]~barred`), nor is
a queue that stays blocked in the in-memory service.

## 5. What is proved

The proofs hold for every choice of the constants that satisfies the named assumptions, which TLC evaluates on
the instances above. Most give types (`LedgerConstants`, `ExecutorConstants`, `ControlConstants`,
`GuardConstants`, `StoreConstants`, `RunnerConstants`, `AuthorityConstants`, `SupervisionConstants`). What they say beyond that:
`FiniteNonces`, that a table has finitely many possible rows, without which a sum of amounts means nothing;
`BoundaryConstants`, that the peer cap is below the number of connections, as `mtls.py` demands;
`ClientConstants`, that the authority decides by the rules it puts in bundles and a scope is a set of operations;
`InspectConstants`, that the ledger is told of a call's digest, amount, budget and repeatability what the call
and the grant of its process say, and that each grant passed `validate_authority`.

* `ExecutionLedgerProofs`. `StepKinds` shows that every ledger transaction either inserts a
  pending row, settles or decides one row, or changes none, whoever calls it. From this
  follow `LedgerTypeCorrect`, `Serialized` (`OneUncertainPerTask` is inductive with the type
  invariant, because an insertion finds the task not held), `ReservedOnce` (likewise from the
  duplicate test), `ReleasesAreBound` (a replay returns a stored result under the policy of its row, and
  no step takes a succeeded row or its policy back), and the action properties `WithholdingHolds` and
  `SettlementHolds`, which follow from `RowKept`: an operation on a row keeps what it was reserved for.

  `BudgetHolds` is about the sum that `reserve` computes in SQL, for any number of rows. `Total` is a
  recursive function on finite sets, and what it computes is derived from scratch: `LeastNatural`, from the
  library's well-foundedness of the natural numbers; `Induction`, over a *set* of naturals in place of a predicate,
  which is what makes induction usable here; `SubsetInduction`, over finite sets; `TotalAdds`, that whatever element the
  function chooses first, each one is counted once (`AddsAny`, by exchanging two); and from it `TotalPart`, `TotalMore` and
  `TotalInjected` (a finite set that maps one to one, at no higher cost, into another has no higher total). A step
  then adds an amount that `reserve` found to fit, or takes rows away.
* `MediatedExecutorProofs`. `ExecutorUsesLedger`: every behaviour of the executor is one of the
  ledger specification, so the theorems above hold of it. `ExecInvariant`: the inductive
  invariant `ExecInv` adds to the checked properties that rows carry what their grant binds
  (`RowsMatchGrants`), that `succeeded` means applied (`SucceededMeansApplied`), that nothing was called before the dispatch step
  (`NothingBeforeDispatch`), that a foreclosed nonce was not applied (`ClosedMeansUnapplied`),
  that a worker about to confirm saw the effect (`ConfirmMeansApplied`), and that what a
  reviewer holds is still true when it is applied (`ReviewsAreCurrent`). The last is the
  point where `FinalReceipts == Foreclosing \/ FenceFirst` is needed; without it `stale_receipt`
  shows the step that breaks the invariant. Consequences: `OwnershipHolds`, `CalledOnce`,
  `NotDispatchedIsTrue`, `AppliedOnce`, `InFlightHolds`, `RealSpendBounded` (what was applied is among the live rows, and
  those are within budget by `BudgetHolds`), and
  `WithdrawnGrantsAreInert`: by `InvalidGrantsStop` no worker enters the dispatch step with a grant that is not current, so that
  to be withdrawn, without a call under way or a worker at dispatch, is a state no step leaves (`WithdrawnIsStable`).
  `ImplementsContract` is the refinement of `EffectContract`, `ExecSpec => KeepsEffectContract`: only `Apply` makes an
  effect happen, and the row is then open; an insertion opens a request, which `Serialized` and `ReservedOnce` allow;
  every other ledger step settles one as what it was, by `ExecInv`, or is a stutter.
* `ControlPlaneProofs`. `ControlInv` adds to the type invariant and `OneActivePolicy` that every
  grant of the current epoch was issued under the active policy for an action it
  allows or escalates, and that the receipts and reviews a grant may rest on agree with
  the policy of their epoch. Every change of policy, suspension or revocation increments the
  epoch, which is why nothing stale passes `validate`. `control_durable`
  fixes `Durable`; the theorems hold for both values, so for the in-memory service too. Consequences: `ControlTypeCorrect`,
  `SinglePolicy`, `ValidMeansAuthorized`, `ReviewsGrantOnce`, `InvalidStaysInvalid`.

  `AgentsSeeAuthority`: the control plane implements `AgentAuthority` for each of
  its agents, `ControlSpec => EpochTellsChange`. Initial states map to initial states; under `ControlInv`, which supplies
  that one policy at most is in force, every action maps to a step of the abstract specification
  (an evaluation, also the one inside `issue`, to `Evaluate`; approval, rollback, suspension and
  revocation to `Change`; `rekey` to `Rotate`; time to `Pass`) or leaves the agent's view alone. This is what allows
  `PolicyClient` to be checked against the small specification in place of the large one.
* `GuardedExecutionProofs`. `GuardUsesLedger`: the guard, its crashes and its reconciliation are
  behaviours of the ledger specification. `GuardInv` adds to the type invariant that what a
  boundary works on is authorized as it is (`Planned`), which rests on `AllowNeedsAuthority`: no
  opinion turns the authority's refusal into an ALLOW, and a rewrite is evaluated from the
  start. `RunInv` is the second invariant: between reservation and finish a boundary owns a pending row alone
  (`OwnsRow`), nothing ran before its run and a result to record is one of a run
  (`RunsInOrder`), whatever ran did so once as the content of a row that stands
  (`RunsOnRecord`), and succeeded rows ran (`SucceededRan`). Each step is an insertion, a run, a truthful
  settlement or quiet. Consequences: `GuardTypeCorrect`, `RunsAreAuthorized`, `CallsRunOnce`,
  `LedgerIsTruthful`. `EscalationHolds` rests on `EscalationInv`: a boundary at work owns the row that its step says
  (`RowsAtWork`), one that is busy is not escalated (`BusyIsCalm`), and whatever it remembers is accounted for by its row, by
  what it is doing or by its escalation (`MemoryExplained`); an unresolved call is then explained by nothing but the escalation
  (`UnresolvedEscalated`), which `WithheldStays` and the other boundaries cannot change. `ContentsRunOnce` adds that every row belongs to the one
  task of the boundaries (`RowsOfBoundaries`) and follows from `ReservedOnce`. `NothingUnreviewedShown` has an invariant of
  its own, `ReviewInv`: an accepted disposition, and whatever was shown or replayed, rests on a verdict of the review or
  on a reviewer's reconciliation; a boundary that is about to accept holds a verdict, and commands are planned for a container (`Sound`).
* `BoundaryServerProofs`. `BoundaryInv` adds to the type invariant that expired and complete exclude
  each other, that a thread past its read is complete and not shut down, and that only an expired
  timer shuts a socket down; the lock around both tests is what makes it inductive. Consequences:
  `BoundaryTypeCorrect`, `OneWins`. `PermitsAccounted`: each counter
  equals its maximum less the cardinality of those that hold it, or that cardinality (`ConservedInv`); a step moves one
  connection from one record to another and each counter by the difference (`Balanced`), from `Accept` to the last statement
  of the `finally` block, and to the record of a thread that ended before it. `RatesBounded`: `RateInv` relates the recorded admissions of an identity to its window (`Paced`): the
  window in force began with the first of the admissions it counts, a whole window after the one `RateLimit` before; without a window
  in force the last `RateLimit` admissions began a whole window ago. Hence 2 * `RateLimit` admissions never fit in one.
  Entries that `_budget` drops from the table are of windows that are over, so dropping them keeps it.
* `SandboxProofs`, the store. `StoreInv`: a process holds the lock from check to mirror, so the manifest it checked is
  still the manifest (`ProcInv`), one process fills a new artifact (`OneFiller`), bundles are complete whether
  visible or on disk (`CleanBundles`), what was acknowledged is on disk (`AcknowledgedIsDurable`) and a rejection that
  no power loss took back is in the manifest (`RejectionIsRecorded`). Consequences: `StoreTypes`, `RejectedStaysPrivate`,
  `AcknowledgedStays`, `NothingTorn`. The runner. `RunnerInv`: `HostInv` ties the thread to its flags and to the removal,
  `DockerInv` the CLI to what the daemon still has to do, `StoppedInv` is the consequence of a verified removal,
  `AgeInv` bounds a container's age by the time its host waited and `ListingInv` says that what is stored was validated.
  Consequences: `ReturnsStopped`, `KeepAliveSuffices`, `QuarantineBounded`.
* `PolicyClientProofs`. `ClientInv`: an old epoch's bundles are at least as old as the end of that epoch (`EpochInv`), a call under
  way reports the head of the queue and a decided one is not owed any more (`CallInv`). `ScopedSelection` is the argument for the
  cache: when a rule of the bundle is selected and allows, every matching rule of the policy allows (those left out are ALLOW rules, the
  others are not above it), and the whole policy selects one of them, since a finite set of rules has a highest one (`MaximumExists`,
  by the strict order `Below`). Consequences: `ClientTypes`, `CacheNeverPermitsMore`, `StalePolicyExpires`,
  `NoDecisionForgotten`.
* `InspectExecutorProofs`. `AllowedIsGranted`: whatever passes the ordered checks of the compiled authority (`FirstRefusalPasses`,
  `CompiledPasses`) is `Granted`, for every grant, call and history; a rewrite that the gateway accepts was checked in the same way.
  `InspectUsesLedger` and `InspectInvariant` follow the guard: `InspectInv` has the type of each coroutine's call with its
  grant (`RunnerOK`) and the `RunInv` of this executor, in which `OwnsAlone` keeps two coroutines off one row. Consequences:
  `RunsAreGranted`, `ReceiptsAreTrue`, `NativeCallsRunOnce`, the action property `EscalationHoldsDispatch`, and `PaymentsBounded`: the
  runs of a task map one to one to its live rows, so that `TotalInjected` and `BudgetHolds` bound what was really paid.

Only model-checked: the four liveness properties `UncertaintyIsResolved`, `SlotsComeBack`, `DetachedContainerEnds` and
`QueuedIsReported`, since fairness is outside this prover. Every other property of the passing
runs has its theorem. The properties of the three violating runs are refuted, and are stated by no theorem.

## 6. Assumptions and what is left out

SQLite transactions are atomic and durable, `flock` excludes, `fsync` of files and
directories does what it says, a rename is atomic. Digests do not collide and signatures
cannot be forged. `reconcile` is called by trusted code that tells the truth about fencing. The
text of tool arguments, paths, URLs, prompts and traces is abstracted to digests.
A native tool's result is an arbitrary string: only the observations in `Histories` carry data.
Two tenants never share state, so one tenant is modelled. The research mode of the authorization
module, which reads rules out of a task's words, is not modelled. A time limit of ten seconds or more separates
the host's steps in `ContainerRunner`; the host itself is assumed to act well within one unit. The
client's clock lags and never runs ahead.

Simplifications of single definitions. `InspectC` of `InspectExecutor` gives a task one maximum and one repeatability of its
contents in all processes, where the code takes both per call from the gateway of the process
(`integrations/inspect_executor.py:147-150`): processes of one task are assumed to be configured with the same grant.
`Verdict` of `MediatedExecutor` lets a provider that does not foreclose answer `not_dispatched` only while it has received no
call with that nonce. `Checks` of `TaskAuthority` are the refusals; the BLOCK of an effect whose address is invalid
(`policy/authorization.py:312-313`) and the ESCALATE of an authority that fails `validate_authority` (171-179) are left out,
the latter because `InspectConstants` takes valid authorities. `unverified` of `ContainerRunner` covers the error of the
cleanup although its class is a subclass of `SandboxUnavailable`, so `ReturnedMeansStopped` says nothing of it. `TimedOut`
there kills a CLI that may have answered already (`process.wait` at `sandbox/runner.py:506`); what it leaves behind at the
daemon is the same. `Decide` leaves `reject_artifacts` to `ArtifactStore`. The session of a `Stranded` connection is only its slot in
the model.

Not modelled: database migrations and backup, path
confinement, audit chain hashing, the accounting of the HTTP admission (its refusals are
nondeterministic; it counts on one event loop, between awaits), HTTP routing, CLI, TLS, the tool handlers and validation
scripts, which keep no state of their own.

## 7. What the runs found

* `stale_receipt`: `MediatedExecutor.reconcile` fetches the provider's receipt before the
  ledger transaction. If the row was pending when the receipt said `not_dispatched`, and the
  worker then dispatched and timed out, the transaction sees an `unknown` row, demands no
  fence, and frees the task while the call can still take effect.
* `rejection_lost`: `reject` flushes the manifest but not the directory of the rename; after a
  power loss the artifact may be quarantined again and be released.
* `approval`: the approval callback judges the effect of the call the gateway returns and answers
  for the call it was asked about. The gateway returns an accepted rewrite as an ALLOW, so the callback's
  `modify` branch is never taken, and a payment rewritten to a listing is approved as the payment.

Observed while modelling, without a run of their own: a repeated `dispatch` answers
`released` from `manifest()` without establishing durability (`isolated.py:57`), which the ledger
keeps the mediated executor from doing; a review approved after its five-minute receipt
has expired cannot issue its grant (`control/execution.py:165`), although reviews live for 24
hours; a container exception other than `SandboxUnavailable` leaves the guard's row pending and
the episode not escalated (`_enforcement.py:284`), which is safe and holds the task; the rate limits of
`mtls.py:249` use fixed windows, so that up to 239 admissions fall into one minute across a window's
end where `docs/isolated_executor.md:41` says "120/minute": `RatesBounded` proves less than twice the limit, and that is
all that holds.

If the timer thread of a connection cannot be started (`mtls.py:187-189`, before the `try`), its slot and session are
never returned, where `docs/isolated_executor.md:42` says "All paths release slots": `TimerFails` is that path, and
`PermitsConserved` and `SlotsComeBack` except the connections it leaves `Stranded` by name. With that exception removed TLC
finds `SlotsComeBack` violated: a connection is accepted, `TimerFails`, and nothing ever frees its slot.

With SQLite an expired receipt is pruned before each operation (`control/storage.py:140`), so its
idempotency key decides again, where the in-memory service and `docs/control_plane.md:51-52` require a new
key; the SDK depends on the pruning: with the in-memory service an event whose first
attempt was handled and whose receipt became stale is refused for ever (409) and blocks the queue of
`reconcile` behind it. `PolicyClient` has both stores (`durable`), and `QueuedIsReported` excepts the blocked queue of the
in-memory one by name; without the exception TLC finds it violated there.

A client clock that lags extends the life of an installed bundle by
the lag. A refusal that is lost on its way is an outage to the client, which then decides from its bundle.
When the rule that decides is an ALLOW that is not cache-eligible and out of the credential's
scope, the bundle leaves it out and a lower cache-eligible ALLOW decides offline: the decision
is the same, the eligibility is not. `rekey` opens the destination before it copies: a crash in between
leaves a blank, initialized authority there. At the audit quota every operation is refused,
revocation and suspension included. A `docker run` whose CLI was killed may still create its container
after the removal; it never runs, but it stays.

## 8. Plan

Done: ledger, executor with its contract, control plane with the view of its agents, SDK client,
artifact store, guard, container runner, boundary, strict task authority, supervision and the Inspect
executor; proofs of every safety property of each of them and of both refinements.

Next: the proof that the client's view composes with the control plane (`PolicyClient` over `SeenBy`) in place of two
separate theorems; what a rewrite may change, as a lemma on `validate_replacement`; the pattern rules of
`policy/engine.py`, which are a nondeterministic opinion so far.

The runs are kept to one per question: the ledger's operations are exercised through its three
callers.

--------------------------- MODULE ArtifactStore ---------------------------
(***************************************************************************)
(* Quarantine and publication of artifacts (src/traceguard/release_gate.py) *)
(* with the report adapter that drives it (src/traceguard/isolated.py).     *)
(*                                                                         *)
(* Processes interleave between system calls; release and reject hold the   *)
(* publisher lock, ingest and the readers do not.  A process may die at any *)
(* point, and a power loss takes back every change that was not synced or   *)
(* written back by then: `manifest` and `bundle` are what a process sees,   *)
(* `disk` is what would survive.                                            *)
(***************************************************************************)
EXTENDS Naturals, FiniteSets

CONSTANTS
    Artifacts,
    Procs,
    Legacy  \* artifacts published by an older version, without a commit

ASSUME StoreConstants == Legacy \subseteq Artifacts

VARIABLES
    manifest,  \* private manifest of an artifact, "partial" before it is written
    bundle,    \* its directory under released/
    disk,      \* the durable counterpart of both
    proc,      \* what each process is doing
    lock,      \* the processes that hold the publisher lock
    answers,   \* observed: <<operation, artifact>> of each call that succeeded
    blackout   \* observed: the power failed at least once

storeVars == <<manifest, bundle, disk, proc, lock, answers, blackout>>

Manifests == {"absent", "partial", "quarantined", "rejected", "released"}
\* "unsynced": complete, but its files were not flushed before the rename;
\* "torn": what a power loss makes of that; "uncommitted": no commit manifest.
Bundles == {"absent", "committed", "unsynced", "torn", "uncommitted"}

Idle == [pc |-> "idle"]
Steps == {"look", "ingest", "fill", "inspect", "read", "acquire", "check", "stage", "flush", "rename",
          "sync", "mirror", "confirm"}
Working == [pc: Steps, op: {"dispatch", "release", "reject", "receipt"}, id: Artifacts,
            flushed: BOOLEAN]

StoreTypeOK ==
    /\ manifest \in [Artifacts -> Manifests]
    /\ bundle \in [Artifacts -> Bundles]
    /\ disk \in [Artifacts -> [manifest: Manifests, bundle: Bundles]]
    /\ proc \in [Procs -> Working \cup {Idle}]
    /\ lock \subseteq Procs
    /\ answers \subseteq {"release", "dispatch", "reject", "receipt"} \X Artifacts
    /\ blackout \in BOOLEAN

At(p, step) == proc[p].pc = step
Goto(p, step) == proc' = [proc EXCEPT ![p].pc = step]
Raise(p) == proc' = [proc EXCEPT ![p] = Idle] /\ lock' = lock \ {p}
Answer(p) == Raise(p) /\ answers' = answers \cup {<<proc[p].op, proc[p].id>>}

Published(i) == bundle[i] # "absent"
\* committed(): the commit manifest is there and every listed file matches it.
Verified(i) == bundle[i] \in {"committed", "unsynced"}

-----------------------------------------------------------------------------
(* Calls and the lock *)

Begin(p, op, i) ==
    /\ At(p, "idle")
    /\ proc' = [proc EXCEPT ![p] =
           [pc |-> CASE op = "dispatch" -> "look"
                     [] op = "receipt" -> "confirm"
                     [] OTHER -> "acquire",
            op |-> op, id |-> i, flushed |-> FALSE]]
    /\ UNCHANGED <<manifest, bundle, disk, lock, answers, blackout>>

\* Mutant of Acquire: publishers do not exclude each other.
MutAcquire(p) ==
    /\ At(p, "acquire")
    /\ lock' = lock \cup {p} /\ Goto(p, "check")
    /\ UNCHANGED <<manifest, bundle, disk, answers, blackout>>

\* flock; the descriptor is closed, and the lock gone, however the call ends.
Acquire(p) ==
    /\ At(p, "acquire")
    /\ lock = {} /\ lock' = {p} /\ Goto(p, "check")
    /\ UNCHANGED <<manifest, bundle, disk, answers, blackout>>

-----------------------------------------------------------------------------
(* ReportAdapter.dispatch up to release; ArtifactStore.ingest *)

Look(p) ==
    LET i == proc[p].id IN
    /\ At(p, "look")
    /\ Goto(p, IF manifest[i] = "absent" /\ ~Published(i) THEN "ingest" ELSE "inspect")
    /\ UNCHANGED <<manifest, bundle, disk, lock, answers, blackout>>

\* mkdir fails if another process was faster.
Ingest(p) ==
    LET i == proc[p].id IN
    /\ At(p, "ingest")
    /\ IF manifest[i] = "absent"
       THEN /\ manifest' = [manifest EXCEPT ![i] = "partial"]
            /\ Goto(p, "fill") /\ UNCHANGED lock
       ELSE Raise(p) /\ UNCHANGED manifest
    /\ UNCHANGED <<bundle, disk, answers, blackout>>

\* Copy the files and write the manifest; on failure remove the directory, as
\* far as that succeeds.
Fill(p) ==
    LET i == proc[p].id IN
    /\ At(p, "fill")
    /\ \/ /\ manifest' = [manifest EXCEPT ![i] = "quarantined"]
          /\ Goto(p, "inspect") /\ UNCHANGED lock
       \/ /\ manifest' \in {manifest, [manifest EXCEPT ![i] = "absent"]}
          /\ Raise(p)
    /\ UNCHANGED <<bundle, disk, answers, blackout>>

\* manifest(), without the lock: a committed bundle answers the dispatch at once.
Inspect(p) ==
    LET i == proc[p].id IN
    /\ At(p, "inspect")
    /\ \/ ~Published(i) /\ Goto(p, "read") /\ UNCHANGED <<lock, answers>>
       \/ Published(i) /\ Verified(i) /\ Answer(p)
       \/ Published(i) /\ ~Verified(i) /\ Raise(p) /\ UNCHANGED answers
    /\ UNCHANGED <<manifest, bundle, disk, blackout>>

\* Then the private manifest: a quarantined artifact is released, one that was
\* rejected, is incomplete or was published in the meantime raises.
ReadManifest(p) ==
    /\ At(p, "read")
    /\ IF manifest[proc[p].id] = "quarantined" THEN Goto(p, "acquire") /\ UNCHANGED lock
                                               ELSE Raise(p)
    /\ UNCHANGED <<manifest, bundle, disk, answers, blackout>>

-----------------------------------------------------------------------------
(* release and reject, under the lock *)

\* A published artifact is verified and synced again; a quarantined one goes on
\* to staging; anything else raises.
CheckRelease(p) ==
    LET i == proc[p].id IN
    /\ At(p, "check") /\ proc[p].op # "reject"
    /\ IF Published(i) THEN Goto(p, "confirm") /\ UNCHANGED lock
       ELSE IF manifest[i] = "quarantined" THEN Goto(p, "stage") /\ UNCHANGED lock
       ELSE Raise(p)
    /\ UNCHANGED <<manifest, bundle, disk, answers, blackout>>

reject(p) ==
    LET i == proc[p].id IN
    /\ At(p, "check") /\ proc[p].op = "reject"
    /\ IF ~Published(i) /\ manifest[i] = "quarantined"
       THEN manifest' = [manifest EXCEPT ![i] = "rejected"] /\ Answer(p)
       ELSE Raise(p) /\ UNCHANGED <<manifest, answers>>
    /\ UNCHANGED <<bundle, disk, blackout>>

\* Every file is read, hashed again, authorized by the gate and copied, and the
\* commit manifest is written, all in a private directory.
Stage(p) ==
    /\ At(p, "stage")
    /\ \/ Goto(p, "flush") /\ UNCHANGED lock
       \/ Raise(p)
    /\ UNCHANGED <<manifest, bundle, disk, answers, blackout>>

\* Mutant of Flush: the staged files are not flushed.
MutFlush(p) ==
    /\ At(p, "flush") /\ Goto(p, "rename")
    /\ UNCHANGED <<manifest, bundle, disk, lock, answers, blackout>>

Flush(p) ==
    /\ At(p, "flush")
    /\ \/ proc' = [proc EXCEPT ![p].pc = "rename", ![p].flushed = TRUE] /\ UNCHANGED lock
       \/ Raise(p)
    /\ UNCHANGED <<manifest, bundle, disk, answers, blackout>>

\* The rename may succeed, fail, or succeed and report an error.
Rename(p) ==
    LET i == proc[p].id
        publish == bundle' = [bundle EXCEPT ![i] = IF proc[p].flushed THEN "committed" ELSE "unsynced"]
    IN /\ At(p, "rename")
       /\ \/ ~Published(i) /\ publish /\ Goto(p, "sync") /\ UNCHANGED lock
          \/ ~Published(i) /\ publish /\ Raise(p)
          \/ Raise(p) /\ UNCHANGED bundle
       /\ UNCHANGED <<manifest, disk, answers, blackout>>

\* What a synced directory entry leads to after a power loss.
Settled(b) == IF b = "unsynced" THEN "torn" ELSE b

\* fsync of released/ and of quarantine/.
SyncDirectories(i) == disk' = [disk EXCEPT ![i].bundle = Settled(bundle[i])]

Sync(p) ==
    /\ At(p, "sync")
    /\ \/ SyncDirectories(proc[p].id) /\ Goto(p, "mirror") /\ UNCHANGED lock
       \/ Raise(p) /\ UNCHANGED disk
    /\ UNCHANGED <<manifest, bundle, answers, blackout>>

\* Failure to update the private mirror is ignored.
Mirror(p) ==
    /\ At(p, "mirror")
    /\ manifest' \in {manifest, [manifest EXCEPT ![proc[p].id] = "released"]}
    /\ Answer(p)
    /\ UNCHANGED <<bundle, disk, blackout>>

\* Mutant of Confirm: a repeated release does not sync.
MutConfirm(p) ==
    /\ At(p, "confirm")
    /\ IF Verified(proc[p].id) THEN Answer(p) ELSE Raise(p) /\ UNCHANGED answers
    /\ UNCHANGED <<manifest, bundle, disk, blackout>>

\* committed(ensure_durable=True), for a repeated release or a provider receipt.
Confirm(p) ==
    /\ At(p, "confirm")
    /\ \/ Verified(proc[p].id) /\ SyncDirectories(proc[p].id) /\ Answer(p)
       \/ Raise(p) /\ UNCHANGED <<disk, answers>>
    /\ UNCHANGED <<manifest, bundle, blackout>>

-----------------------------------------------------------------------------
(* Migration, failures and write-back *)

\* With publishers and consumers fenced, what does not verify is moved away and
\* both directories are synced; the operator's process may die on the way.
quarantine_legacy_publications ==
    LET stale == {i \in Artifacts : Published(i) /\ ~Verified(i)}
        Without(moved) == [i \in Artifacts |-> IF i \in moved THEN "absent" ELSE bundle[i]]
    IN /\ \A p \in Procs : At(p, "idle")
       /\ \/ /\ bundle' = Without(stale)
             /\ disk' = [i \in Artifacts |-> [disk[i] EXCEPT !.bundle = Settled(bundle'[i])]]
          \/ \E moved \in SUBSET stale : bundle' = Without(moved) /\ UNCHANGED disk
       /\ UNCHANGED <<manifest, proc, lock, answers, blackout>>

Crash(p) ==
    /\ ~At(p, "idle") /\ Raise(p)
    /\ UNCHANGED <<manifest, bundle, disk, answers, blackout>>

\* The operating system may write any change back at any time.
WriteBack(i) ==
    /\ disk' \in {[disk EXCEPT ![i].manifest = manifest[i]],
                  [disk EXCEPT ![i].bundle = Settled(bundle[i])]}
    /\ UNCHANGED <<manifest, bundle, proc, lock, answers, blackout>>

PowerLoss ==
    /\ manifest' = [i \in Artifacts |-> disk[i].manifest]
    /\ bundle' = [i \in Artifacts |-> disk[i].bundle]
    /\ proc' = [p \in Procs |-> Idle] /\ lock' = {} /\ blackout' = TRUE
    /\ UNCHANGED <<disk, answers>>

-----------------------------------------------------------------------------
StoreInit ==
    /\ manifest = [i \in Artifacts |-> IF i \in Legacy THEN "released" ELSE "absent"]
    /\ bundle = [i \in Artifacts |-> IF i \in Legacy THEN "uncommitted" ELSE "absent"]
    /\ disk = [i \in Artifacts |-> [manifest |-> manifest[i], bundle |-> bundle[i]]]
    /\ proc = [p \in Procs |-> Idle]
    /\ lock = {} /\ answers = {} /\ blackout = FALSE

ProcStep(p) ==
    \/ Look(p) \/ Ingest(p) \/ Fill(p) \/ Inspect(p) \/ ReadManifest(p)
    \/ Acquire(p) \/ CheckRelease(p) \/ reject(p)
    \/ Stage(p) \/ Flush(p) \/ Rename(p) \/ Sync(p) \/ Mirror(p) \/ Confirm(p)

StoreNext ==
    \/ \E p \in Procs :
          \/ \E op \in {"dispatch", "release", "reject", "receipt"}, i \in Artifacts : Begin(p, op, i)
          \/ ProcStep(p)
          \/ Crash(p)
    \/ \E i \in Artifacts : WriteBack(i)
    \/ quarantine_legacy_publications
    \/ PowerLoss

StoreSpec == StoreInit /\ [][StoreNext]_storeVars

-----------------------------------------------------------------------------
(* Properties *)

Answered(ops, i) == \E op \in ops : <<op, i>> \in answers

\* "Post-run BLOCK_RESULT rejects the bundle": what was rejected is never
\* published, whatever fails in between.
RejectedNeverPublished == \A i \in Artifacts : Answered({"reject"}, i) => ~Published(i)

\* Rejection and publication exclude each other: unless a power loss takes the
\* rejection back, no release that was on its way when reject() returned, and
\* no later one, publishes the artifact.
RejectionExcludesRelease == ~blackout => RejectedNeverPublished

\* A publication that release() returned, or that a provider receipt confirmed,
\* stays published through crashes and power loss.
AcknowledgedSurvives ==
    \A i \in Artifacts : Answered({"release", "receipt"}, i) => Verified(i) /\ Published(i)

\* What is visible under released/ is never a bundle with missing content.
NeverTorn == \A i \in Artifacts : bundle[i] # "torn"
=============================================================================

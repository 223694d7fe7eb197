--------------------------- MODULE SandboxProofs ---------------------------
(***************************************************************************)
(* What a container does and what becomes of its artifacts.                 *)
(*                                                                         *)
(* About the artifact store, for any number of artifacts and processes,     *)
(* legacy publications, crashes and power losses: rejection and publication *)
(* exclude each other, an acknowledged publication survives, and nothing    *)
(* torn is ever visible.                                                    *)
(*                                                                         *)
(* About ContainerRunner.execute, for every timeout, every limit and every  *)
(* set of names: what it returns means that the container is stopped, the   *)
(* keep-alive outlasts the collection, and quarantine is bounded.           *)
(***************************************************************************)
EXTENDS ArtifactStore, ContainerRunner, TLAPS

-----------------------------------------------------------------------------
(* The inductive invariant of the artifact store *)

Locked == {"check", "stage", "flush", "rename", "sync", "mirror"}
Publishing == {"stage", "flush", "rename", "sync", "mirror"}
Dispatching == {"look", "ingest", "fill", "inspect", "read"}

\* What a process may rely on at each step: the lock is its own between the
\* check and the answer, the manifest it checked is still the same, the bundle
\* it renames was flushed and the one it mirrors is durable.
ProcInv(p) ==
    LET i == proc[p].id IN
    /\ proc[p].pc \in Locked => lock = {p}
    /\ proc[p].pc \in Dispatching => proc[p].op = "dispatch"
    /\ proc[p].pc = "fill" => manifest[i] = "partial"
    /\ proc[p].pc \in Publishing => manifest[i] = "quarantined"
    /\ proc[p].pc \in Publishing \cup {"confirm"} => proc[p].op # "reject"
    /\ proc[p].pc = "rename" => proc[p].flushed
    /\ proc[p].pc \in {"sync", "mirror"} => bundle[i] = "committed"
    /\ proc[p].pc = "mirror" => disk[i].bundle = "committed"

\* A directory is filled by the process that made it.
OneFiller ==
    \A p, q \in Procs : At(p, "fill") /\ At(q, "fill") /\ proc[p].id = proc[q].id => p = q

\* Every bundle, visible or durable, is complete or from before the commits.
Clean == {"absent", "committed", "uncommitted"}
CleanBundles == \A i \in Artifacts : bundle[i] \in Clean /\ disk[i].bundle \in Clean

\* What was acknowledged is durable, not only visible.
AcknowledgedIsDurable ==
    \A i \in Artifacts : Answered({"release", "receipt"}, i) =>
        bundle[i] = "committed" /\ disk[i].bundle = "committed"

\* A rejection is on the manifest.
RejectionIsRecorded ==
    ~blackout => \A i \in Artifacts : Answered({"reject"}, i) =>
                     manifest[i] = "rejected" /\ bundle[i] = "absent"

StoreInv ==
    /\ StoreTypeOK
    /\ \A p \in Procs : ProcInv(p)
    /\ OneFiller
    /\ CleanBundles
    /\ AcknowledgedIsDurable
    /\ RejectionIsRecorded

-----------------------------------------------------------------------------
(* Process records *)

\* A process in the middle of a call has a record of it.
LEMMA ProcBusy ==
    ASSUME StoreTypeOK, NEW p \in Procs, proc[p].pc # "idle"
    PROVE  /\ proc[p] \in Working /\ proc[p].id \in Artifacts
           /\ proc[p].op \in {"dispatch", "release", "reject", "receipt"}
           /\ proc[p].flushed \in BOOLEAN
<1>1. proc[p] \in Working
  BY DEF StoreTypeOK, Idle
<1> QED
  BY <1>1 DEF Working

\* A process goes on with its call, and only it moves.
LEMMA GotoEffect ==
    ASSUME StoreTypeOK, NEW p \in Procs, proc[p].pc # "idle", NEW step \in Steps, Goto(p, step)
    PROVE  /\ proc' \in [Procs -> Working \cup {Idle}]
           /\ proc'[p].pc = step /\ proc'[p].id = proc[p].id /\ proc'[p].op = proc[p].op
           /\ proc'[p].flushed = proc[p].flushed
           /\ \A q \in Procs \ {p} : proc'[q] = proc[q]
<1> DEFINE rec == [proc[p] EXCEPT !.pc = step]
<1>1. proc[p] \in Working
  BY ProcBusy
<1>2. /\ rec \in Working /\ rec.pc = step /\ rec.id = proc[p].id /\ rec.op = proc[p].op
      /\ rec.flushed = proc[p].flushed
  BY <1>1 DEF Working
<1>3. proc' = [proc EXCEPT ![p] = rec]
  BY DEF Goto
<1> HIDE DEF rec
<1> QED
  BY <1>2, <1>3 DEF StoreTypeOK

\* A process ends its call and gives the lock back, if it was its own.
LEMMA RaiseEffect ==
    ASSUME StoreTypeOK, NEW p \in Procs, Raise(p)
    PROVE  /\ proc' \in [Procs -> Working \cup {Idle}]
           /\ proc'[p].pc = "idle" /\ ProcInv(p)'
           /\ \A q \in Procs \ {p} : proc'[q] = proc[q]
           /\ lock' = lock \ {p}
<1>1. /\ proc' \in [Procs -> Working \cup {Idle}]
      /\ proc'[p] = Idle /\ \A q \in Procs \ {p} : proc'[q] = proc[q]
      /\ lock' = lock \ {p}
  BY DEF Raise, StoreTypeOK
<1>2. proc'[p].pc = "idle"
  BY <1>1 DEF Idle
<1> QED
  BY <1>1, <1>2 DEF ProcInv, Locked, Dispatching, Publishing

\* How the lock may change while only p moves.
LockMoves(p) == lock' = lock \/ lock' = lock \ {p} \/ (lock = {} /\ lock' = {p})

\* A step of p leaves another process's guarantees alone as long as it keeps the
\* manifest and the bundle that process relies on.
LEMMA OthersKept ==
    ASSUME StoreInv, NEW p \in Procs, NEW q \in Procs \ {p}, proc'[q] = proc[q], LockMoves(p),
           proc[q].pc \in Publishing \cup {"fill"} => manifest'[proc[q].id] = manifest[proc[q].id],
           proc[q].pc \in {"sync", "mirror"} => bundle'[proc[q].id] = bundle[proc[q].id],
           proc[q].pc = "mirror" => disk'[proc[q].id].bundle = disk[proc[q].id].bundle
    PROVE  ProcInv(q)'
<1>1. ProcInv(q)
  BY DEF StoreInv
<1>2. proc[q].pc \in Locked => lock' = {q}
  BY <1>1 DEF ProcInv, LockMoves
<1> QED
  BY <1>1, <1>2 DEF ProcInv, Publishing

\* A step of p that touches its record and the lock only.
LEMMA MoveStep ==
    ASSUME StoreInv, NEW p \in Procs, UNCHANGED <<manifest, bundle, disk, answers, blackout>>,
           proc' \in [Procs -> Working \cup {Idle}], \A q \in Procs \ {p} : proc'[q] = proc[q],
           LockMoves(p), ProcInv(p)', ~At(p, "fill")'
    PROVE  StoreInv'
<1>1. StoreTypeOK'
  BY DEF StoreInv, StoreTypeOK, LockMoves
<1>2. \A q \in Procs : ProcInv(q)'
  BY OthersKept
<1>3. OneFiller'
  BY DEF StoreInv, OneFiller, At
<1>4. CleanBundles' /\ AcknowledgedIsDurable' /\ RejectionIsRecorded'
  BY DEF StoreInv, CleanBundles, AcknowledgedIsDurable, RejectionIsRecorded, Answered
<1> QED
  BY <1>1, <1>2, <1>3, <1>4 DEF StoreInv

-----------------------------------------------------------------------------
(* One lemma per group of actions *)

\* A call that begins has no lock and has read nothing.
LEMMA BeginStep ==
    ASSUME StoreInv, NEW p \in Procs, NEW op \in {"dispatch", "release", "reject", "receipt"},
           NEW i \in Artifacts, Begin(p, op, i)
    PROVE  StoreInv'
<1> DEFINE step == CASE op = "dispatch" -> "look" [] op = "receipt" -> "confirm" [] OTHER -> "acquire"
           rec == [pc |-> step, op |-> op, id |-> i, flushed |-> FALSE]
<1>1. /\ step \in {"look", "confirm", "acquire"}
      /\ step = "look" => op = "dispatch"
      /\ step = "confirm" => op = "receipt"
  OBVIOUS
<1>2. proc' = [proc EXCEPT ![p] = rec]
      /\ UNCHANGED <<manifest, bundle, disk, lock, answers, blackout>>
  BY DEF Begin
<1> HIDE DEF step
<1>3. rec \in Working /\ rec.pc = step /\ rec.op = op
  BY <1>1 DEF Working, Steps
<1> HIDE DEF rec
<1>4. /\ proc' \in [Procs -> Working \cup {Idle}] /\ proc'[p] = rec
      /\ \A q \in Procs \ {p} : proc'[q] = proc[q]
  BY <1>2, <1>3 DEF StoreInv, StoreTypeOK
<1>5. ProcInv(p)' /\ ~At(p, "fill")'
  BY <1>1, <1>3, <1>4 DEF ProcInv, Locked, Dispatching, Publishing, At
<1> QED
  BY <1>2, <1>4, <1>5, MoveStep DEF LockMoves

\* A call that raises, or a process that dies, leaves the store as it is.
LEMMA RaiseStep ==
    ASSUME StoreInv, NEW p \in Procs, Raise(p), UNCHANGED <<manifest, bundle, disk, answers, blackout>>
    PROVE  StoreInv'
<1>1. StoreTypeOK
  BY DEF StoreInv
<1> QED
  BY <1>1, RaiseEffect, MoveStep DEF LockMoves, At

\* Looking, reading, taking the lock, checking, staging and flushing.
LEMMA QuietSteps ==
    ASSUME StoreInv, NEW p \in Procs,
           \/ Look(p) \/ ReadManifest(p) \/ Acquire(p) \/ CheckRelease(p) \/ Stage(p) \/ Flush(p)
    PROVE  StoreInv'
<1>1. StoreTypeOK /\ ProcInv(p)
  BY DEF StoreInv
<1>2. UNCHANGED <<manifest, bundle, disk, answers, blackout>> /\ proc[p].pc # "idle"
  BY DEF Look, ReadManifest, Acquire, CheckRelease, Stage, Flush, At
<1>3. CASE Raise(p)
  BY <1>2, <1>3, RaiseStep
<1>4. ASSUME NEW step \in Steps \ {"fill"}, Goto(p, step), LockMoves(p), ProcInv(p)'
      PROVE  StoreInv'
  BY <1>1, <1>2, <1>4, GotoEffect, MoveStep DEF At
<1>5. ASSUME NEW step \in Steps, Goto(p, step)
      PROVE  /\ proc'[p].pc = step /\ proc'[p].id = proc[p].id /\ proc'[p].op = proc[p].op
             /\ proc'[p].flushed = proc[p].flushed
  BY <1>1, <1>2, <1>5, GotoEffect
<1>6. CASE Look(p)
  <2>1. PICK step \in {"ingest", "inspect"} : Goto(p, step)
    BY <1>6 DEF Look
  <2>2. step \in Steps \ {"fill"} /\ LockMoves(p)
    BY <1>6 DEF Steps, Look, LockMoves
  <2>3. proc'[p].pc = step /\ proc'[p].op = "dispatch"
    BY <1>1, <1>5, <1>6, <2>1, <2>2 DEF Look, At, ProcInv, Dispatching
  <2>4. ProcInv(p)'
    BY <2>3 DEF ProcInv, Locked, Dispatching, Publishing
  <2> QED
    BY <1>4, <2>1, <2>2, <2>4
<1>7. CASE ReadManifest(p) /\ ~Raise(p)
  <2>1. Goto(p, "acquire") /\ "acquire" \in Steps /\ LockMoves(p)
    BY <1>7 DEF ReadManifest, Steps, LockMoves
  <2>2. ProcInv(p)'
    BY <1>5, <2>1 DEF ProcInv, Locked, Dispatching, Publishing
  <2> QED
    BY <1>4, <2>1, <2>2
<1>8. CASE Acquire(p)
  <2>1. Goto(p, "check") /\ "check" \in Steps /\ LockMoves(p) /\ lock' = {p}
    BY <1>8 DEF Acquire, Steps, LockMoves
  <2>2. ProcInv(p)'
    BY <1>5, <2>1 DEF ProcInv, Locked, Dispatching, Publishing
  <2> QED
    BY <1>4, <2>1, <2>2
<1>9. CASE CheckRelease(p) /\ ~Raise(p)
  <2>1. /\ proc[p].pc = "check" /\ proc[p].op # "reject" /\ lock' = lock /\ lock = {p}
        /\ \/ Goto(p, "confirm")
           \/ Goto(p, "stage") /\ manifest[proc[p].id] = "quarantined"
    BY <1>1, <1>9 DEF CheckRelease, At, ProcInv, Locked
  <2>2. {"confirm", "stage"} \subseteq Steps \ {"fill"} /\ LockMoves(p)
    BY <2>1 DEF Steps, LockMoves
  <2>3. CASE Goto(p, "confirm")
    <3>1. ProcInv(p)'
      BY <1>5, <2>1, <2>2, <2>3 DEF ProcInv, Locked, Dispatching, Publishing
    <3> QED
      BY <1>4, <2>2, <2>3, <3>1
  <2>4. CASE Goto(p, "stage") /\ manifest[proc[p].id] = "quarantined"
    <3>1. ProcInv(p)'
      BY <1>2, <1>5, <2>1, <2>2, <2>4 DEF ProcInv, Locked, Dispatching, Publishing
    <3> QED
      BY <1>4, <2>2, <2>4, <3>1
  <2> QED
    BY <2>1, <2>3, <2>4
<1>10. CASE Stage(p) /\ ~Raise(p)
  <2>1. proc[p].pc = "stage" /\ Goto(p, "flush") /\ lock' = lock /\ "flush" \in Steps
    BY <1>10 DEF Stage, At, Steps
  <2>2. ProcInv(p)'
    BY <1>1, <1>2, <1>5, <2>1 DEF ProcInv, Locked, Dispatching, Publishing
  <2> QED
    BY <1>4, <2>1, <2>2 DEF LockMoves
<1>11. CASE Flush(p) /\ ~Raise(p)
  <2> DEFINE rec == [proc[p] EXCEPT !.pc = "rename", !.flushed = TRUE]
  <2>1. proc[p].pc = "flush" /\ proc' = [proc EXCEPT ![p] = rec] /\ lock' = lock
    BY <1>11 DEF Flush, At
  <2>2. /\ rec \in Working /\ rec.pc = "rename" /\ rec.id = proc[p].id /\ rec.op = proc[p].op
        /\ rec.flushed
    BY <1>1, <1>2, ProcBusy DEF Working, Steps
  <2> HIDE DEF rec
  <2>3. /\ proc' \in [Procs -> Working \cup {Idle}] /\ proc'[p] = rec
        /\ \A q \in Procs \ {p} : proc'[q] = proc[q]
    BY <1>1, <2>1, <2>2 DEF StoreTypeOK
  <2>4. ProcInv(p)' /\ ~At(p, "fill")'
    BY <1>1, <1>2, <2>1, <2>2, <2>3 DEF ProcInv, Locked, Dispatching, Publishing, At
  <2> QED
    BY <1>2, <2>1, <2>3, <2>4, MoveStep DEF LockMoves
<1> QED
  BY <1>3, <1>6, <1>7, <1>8, <1>9, <1>10, <1>11

\* Only the process that fills a directory changes an unfinished manifest.
LEMMA ManifestStep ==
    ASSUME StoreInv, NEW p \in Procs, NEW i \in Artifacts, NEW v \in Manifests,
           manifest' = [manifest EXCEPT ![i] = v], UNCHANGED <<bundle, disk, answers, blackout>>,
           \/ manifest[i] = "absent"
           \/ At(p, "fill") /\ proc[p].id = i /\ ~At(p, "fill")',
           proc' \in [Procs -> Working \cup {Idle}], \A q \in Procs \ {p} : proc'[q] = proc[q],
           LockMoves(p), ProcInv(p)', At(p, "fill")' => proc'[p].id = i
    PROVE  StoreInv'
<1>0. StoreTypeOK /\ \A q \in Procs : ProcInv(q)
  BY DEF StoreInv
<1>1. StoreTypeOK'
  BY <1>0 DEF StoreTypeOK, LockMoves
<1>2. manifest[i] \in {"absent", "partial"} /\ \A j \in Artifacts \ {i} : manifest'[j] = manifest[j]
  BY <1>0 DEF ProcInv, At, StoreTypeOK
<1>3. ASSUME NEW q \in Procs \ {p}
      PROVE  ProcInv(q)' /\ (At(q, "fill") => proc[q].id # i)
  <2>1. ProcInv(q) /\ (proc[q].pc # "idle" => proc[q].id \in Artifacts)
    BY <1>0, ProcBusy
  <2>2. At(q, "fill") => proc[q].id # i
    BY <2>1, <1>2 DEF StoreInv, OneFiller, At, ProcInv
  <2>3. proc[q].pc \in Publishing => proc[q].id # i
    BY <1>2, <2>1 DEF ProcInv
  <2>4. proc[q].pc \in Publishing \cup {"fill"} => manifest'[proc[q].id] = manifest[proc[q].id]
    BY <1>2, <2>1, <2>2, <2>3 DEF At, Publishing
  <2> QED
    BY <2>2, <2>4, OthersKept
<1>4. OneFiller'
  BY <1>3 DEF StoreInv, OneFiller, At
<1>5. CleanBundles' /\ AcknowledgedIsDurable'
  BY DEF StoreInv, CleanBundles, AcknowledgedIsDurable, Answered
<1>6. RejectionIsRecorded'
  BY <1>2 DEF StoreInv, RejectionIsRecorded, Answered
<1> QED
  BY <1>1, <1>3, <1>4, <1>5, <1>6 DEF StoreInv

\* ingest: the directory is made, filled, or removed again.
LEMMA IngestSteps ==
    ASSUME StoreInv, NEW p \in Procs, Ingest(p) \/ Fill(p)
    PROVE  StoreInv'
<1>1. StoreTypeOK /\ ProcInv(p)
  BY DEF StoreInv
<1>2. proc[p].pc # "idle" /\ UNCHANGED <<bundle, disk, answers, blackout>>
  BY DEF Ingest, Fill, At
<1>3. proc[p].id \in Artifacts /\ proc[p].op = "dispatch"
  BY <1>1, <1>2, ProcBusy DEF Ingest, Fill, At, ProcInv, Dispatching
<1>4. CASE UNCHANGED manifest /\ Raise(p)
  BY <1>2, <1>4, RaiseStep
<1>5. CASE /\ At(p, "ingest") /\ manifest[proc[p].id] = "absent" /\ UNCHANGED lock /\ Goto(p, "fill")
           /\ manifest' = [manifest EXCEPT ![proc[p].id] = "partial"]
  <2>1. "fill" \in Steps /\ "partial" \in Manifests
    BY DEF Steps, Manifests
  <2>2. /\ proc' \in [Procs -> Working \cup {Idle}]
        /\ proc'[p].pc = "fill" /\ proc'[p].id = proc[p].id /\ proc'[p].op = "dispatch"
        /\ \A q \in Procs \ {p} : proc'[q] = proc[q]
    BY <1>1, <1>2, <1>3, <1>5, <2>1, GotoEffect
  <2>3. manifest'[proc[p].id] = "partial"
    BY <1>1, <1>3, <1>5 DEF StoreTypeOK
  <2>4. ProcInv(p)'
    BY <2>2, <2>3 DEF ProcInv, Locked, Dispatching, Publishing
  <2> QED
    BY <1>2, <1>3, <1>5, <2>1, <2>2, <2>4, ManifestStep DEF LockMoves
<1>6. CASE /\ At(p, "fill") /\ UNCHANGED lock /\ Goto(p, "inspect")
           /\ manifest' = [manifest EXCEPT ![proc[p].id] = "quarantined"]
  <2>1. "inspect" \in Steps /\ "quarantined" \in Manifests
    BY DEF Steps, Manifests
  <2>2. /\ proc' \in [Procs -> Working \cup {Idle}]
        /\ proc'[p].pc = "inspect" /\ proc'[p].id = proc[p].id /\ proc'[p].op = "dispatch"
        /\ \A q \in Procs \ {p} : proc'[q] = proc[q]
    BY <1>1, <1>2, <1>3, <1>6, <2>1, GotoEffect
  <2>3. ProcInv(p)' /\ ~At(p, "fill")'
    BY <2>2 DEF ProcInv, Locked, Dispatching, Publishing, At
  <2> QED
    BY <1>2, <1>3, <1>6, <2>1, <2>2, <2>3, ManifestStep DEF LockMoves
<1>7. CASE /\ At(p, "fill") /\ Raise(p)
           /\ manifest' = [manifest EXCEPT ![proc[p].id] = "absent"]
  <2>1. "absent" \in Manifests
    BY DEF Manifests
  <2>2. /\ proc' \in [Procs -> Working \cup {Idle}] /\ LockMoves(p)
        /\ ProcInv(p)' /\ ~At(p, "fill")' /\ \A q \in Procs \ {p} : proc'[q] = proc[q]
    BY <1>1, <1>7, RaiseEffect DEF LockMoves, At
  <2> QED
    BY <1>2, <1>3, <1>7, <2>1, <2>2, ManifestStep
<1> QED
  BY <1>4, <1>5, <1>6, <1>7 DEF Ingest, Fill

\* An answer keeps the invariant when it is true and durable as it is given.
LEMMA AnswerStep ==
    ASSUME StoreInv, NEW p \in Procs, proc[p].pc # "idle", Answer(p), UNCHANGED <<bundle, blackout>>,
           manifest' \in [Artifacts -> Manifests],
           disk' \in [Artifacts -> [manifest: Manifests, bundle: Bundles]],
           \A j \in Artifacts : /\ disk'[j].bundle \in Clean
                                /\ bundle[j] = "committed" /\ disk[j].bundle = "committed"
                                   => disk'[j].bundle = "committed"
                                /\ manifest[j] = "rejected" => manifest'[j] = "rejected",
           \A q \in Procs \ {p} : proc[q].pc \in Publishing \cup {"fill"} =>
                                     manifest'[proc[q].id] = manifest[proc[q].id],
           proc[p].op \in {"release", "receipt"} =>
               bundle[proc[p].id] = "committed" /\ disk'[proc[p].id].bundle = "committed",
           proc[p].op = "reject" => manifest'[proc[p].id] = "rejected" /\ bundle[proc[p].id] = "absent"
    PROVE  StoreInv'
<1>0. StoreTypeOK /\ \A q \in Procs : ProcInv(q)
  BY DEF StoreInv
<1>1. /\ proc' \in [Procs -> Working \cup {Idle}]
      /\ proc'[p].pc = "idle" /\ ProcInv(p)' /\ LockMoves(p) /\ lock' \subseteq Procs
      /\ \A q \in Procs \ {p} : proc'[q] = proc[q]
  BY <1>0, RaiseEffect DEF Answer, LockMoves, StoreTypeOK
<1>2. /\ proc[p].id \in Artifacts /\ proc[p].op \in {"dispatch", "release", "reject", "receipt"}
      /\ answers' = answers \cup {<<proc[p].op, proc[p].id>>}
  BY <1>0, ProcBusy DEF Answer
<1>3. StoreTypeOK'
  BY <1>0, <1>1, <1>2 DEF StoreTypeOK
<1>4. ASSUME NEW q \in Procs \ {p} PROVE ProcInv(q)'
  <2>1. proc[q].pc = "mirror" => disk'[proc[q].id].bundle = disk[proc[q].id].bundle
    BY <1>0, ProcBusy DEF ProcInv
  <2> QED
    BY <1>1, <2>1, OthersKept
<1>5. OneFiller'
  BY <1>1 DEF StoreInv, OneFiller, At
<1>6. CleanBundles'
  BY DEF StoreInv, CleanBundles
<1>7. AcknowledgedIsDurable'
  BY <1>2 DEF StoreInv, AcknowledgedIsDurable, Answered
<1>8. RejectionIsRecorded'
  BY <1>2 DEF StoreInv, RejectionIsRecorded, Answered
<1> QED
  BY <1>1, <1>3, <1>4, <1>5, <1>6, <1>7, <1>8 DEF StoreInv

\* A synced directory entry of a clean bundle is that bundle.
LEMMA SyncEffect ==
    ASSUME StoreInv, NEW i \in Artifacts, SyncDirectories(i)
    PROVE  /\ disk' \in [Artifacts -> [manifest: Manifests, bundle: Bundles]]
           /\ disk'[i].bundle = bundle[i]
           /\ \A j \in Artifacts \ {i} : disk'[j] = disk[j]
<1> DEFINE entry == [disk[i] EXCEPT !.bundle = bundle[i]]
<1>1. Settled(bundle[i]) = bundle[i] /\ bundle[i] \in Bundles
  BY DEF StoreInv, CleanBundles, Clean, Settled, Bundles
<1>2. disk' = [disk EXCEPT ![i] = entry]
  BY <1>1 DEF SyncDirectories
<1>3. disk \in [Artifacts -> [manifest: Manifests, bundle: Bundles]]
  BY DEF StoreInv, StoreTypeOK
<1>4. entry \in [manifest: Manifests, bundle: Bundles] /\ entry.bundle = bundle[i]
  BY <1>1, <1>3
<1> HIDE DEF entry
<1> QED
  BY <1>2, <1>3, <1>4

\* While p holds the lock no other process publishes, and a complete manifest
\* has no filler.
LEMMA LockExcludes ==
    ASSUME StoreInv, NEW p \in Procs, lock = {p}, NEW i \in Artifacts, manifest[i] = "quarantined",
           NEW v \in Manifests, manifest' = [manifest EXCEPT ![i] = v]
    PROVE  /\ manifest' \in [Artifacts -> Manifests] /\ manifest'[i] = v
           /\ \A j \in Artifacts : manifest[j] = "rejected" => manifest'[j] = "rejected"
           /\ \A q \in Procs \ {p} : proc[q].pc \in Publishing \cup {"fill"} =>
                                        manifest'[proc[q].id] = manifest[proc[q].id]
<1>1. /\ manifest' \in [Artifacts -> Manifests] /\ manifest'[i] = v
      /\ \A j \in Artifacts \ {i} : manifest'[j] = manifest[j]
  BY DEF StoreInv, StoreTypeOK
<1>2. ASSUME NEW q \in Procs \ {p}, proc[q].pc \in Publishing \cup {"fill"}
      PROVE  manifest'[proc[q].id] = manifest[proc[q].id]
  <2>1. StoreTypeOK /\ ProcInv(q)
    BY DEF StoreInv
  <2>2. proc[q].pc = "fill" /\ manifest[proc[q].id] = "partial"
    BY <1>2, <2>1 DEF ProcInv, Publishing, Locked
  <2>3. proc[q].id \in Artifacts
    BY <2>1, <2>2, ProcBusy
  <2> QED
    BY <1>1, <2>2, <2>3
<1> QED
  BY <1>1, <1>2

\* The disk keeps what it had.
LEMMA DiskStays ==
    ASSUME StoreInv, UNCHANGED disk
    PROVE  /\ disk' \in [Artifacts -> [manifest: Manifests, bundle: Bundles]]
           /\ \A j \in Artifacts : /\ disk'[j].bundle \in Clean
                                   /\ disk[j].bundle = "committed" => disk'[j].bundle = "committed"
BY DEF StoreInv, StoreTypeOK, CleanBundles

\* A dispatch answers from the commit, goes on to the private manifest or raises.
LEMMA InspectStep ==
    ASSUME StoreInv, NEW p \in Procs, Inspect(p)
    PROVE  StoreInv'
<1>1. /\ StoreTypeOK /\ ProcInv(p) /\ proc[p].pc = "inspect"
      /\ UNCHANGED <<manifest, bundle, disk, blackout>>
  BY DEF StoreInv, Inspect, At
<1>2. proc[p].op = "dispatch" /\ proc[p].pc # "idle"
  BY <1>1 DEF ProcInv, Dispatching
<1>3. CASE Raise(p) /\ UNCHANGED answers
  BY <1>1, <1>3, RaiseStep
<1>4. CASE Goto(p, "read") /\ UNCHANGED <<lock, answers>>
  <2>1. "read" \in Steps
    BY DEF Steps
  <2>2. /\ proc' \in [Procs -> Working \cup {Idle}]
        /\ proc'[p].pc = "read" /\ proc'[p].op = "dispatch"
        /\ \A q \in Procs \ {p} : proc'[q] = proc[q]
    BY <1>1, <1>2, <1>4, <2>1, GotoEffect
  <2>3. ProcInv(p)' /\ ~At(p, "fill")'
    BY <2>2 DEF ProcInv, Locked, Dispatching, Publishing, At
  <2> QED
    BY <1>1, <1>4, <2>2, <2>3, MoveStep DEF LockMoves
<1>5. CASE Answer(p)
  <2>1. manifest' \in [Artifacts -> Manifests]
    BY <1>1 DEF StoreTypeOK
  <2> QED
    BY <1>1, <1>2, <1>5, <2>1, DiskStays, AnswerStep
<1> QED
  BY <1>3, <1>4, <1>5 DEF Inspect

\* reject() writes the manifest under the lock, or raises.
LEMMA RejectStep ==
    ASSUME StoreInv, NEW p \in Procs, reject(p)
    PROVE  StoreInv'
<1>1. /\ StoreTypeOK /\ ProcInv(p) /\ proc[p].pc = "check" /\ proc[p].op = "reject"
      /\ UNCHANGED <<bundle, disk, blackout>>
  BY DEF StoreInv, reject, At
<1>2. lock = {p} /\ proc[p].pc # "idle" /\ proc[p].id \in Artifacts
  BY <1>1, ProcBusy DEF ProcInv, Locked
<1>3. CASE Raise(p) /\ UNCHANGED <<manifest, answers>>
  BY <1>1, <1>3, RaiseStep
<1>4. CASE /\ ~Published(proc[p].id) /\ manifest[proc[p].id] = "quarantined" /\ Answer(p)
           /\ manifest' = [manifest EXCEPT ![proc[p].id] = "rejected"]
  <2>1. "rejected" \in Manifests
    BY DEF Manifests
  <2>2. /\ manifest' \in [Artifacts -> Manifests] /\ manifest'[proc[p].id] = "rejected"
        /\ \A j \in Artifacts : manifest[j] = "rejected" => manifest'[j] = "rejected"
        /\ \A q \in Procs \ {p} : proc[q].pc \in Publishing \cup {"fill"} =>
                                     manifest'[proc[q].id] = manifest[proc[q].id]
    BY <1>2, <1>4, <2>1, LockExcludes
  <2>3. bundle[proc[p].id] = "absent"
    BY <1>4 DEF Published
  <2> QED
    BY <1>1, <1>2, <1>4, <2>2, <2>3, DiskStays, AnswerStep
<1> QED
  BY <1>3, <1>4 DEF reject

\* The rename makes a flushed bundle visible where there was none.
LEMMA RenameStep ==
    ASSUME StoreInv, NEW p \in Procs, Rename(p)
    PROVE  StoreInv'
<1>1. /\ StoreTypeOK /\ \A q \in Procs : ProcInv(q)
      /\ proc[p].pc = "rename" /\ UNCHANGED <<manifest, disk, answers, blackout>>
  BY DEF StoreInv, Rename, At
<1>2. /\ lock = {p} /\ proc[p].pc # "idle" /\ proc[p].id \in Artifacts /\ proc[p].flushed
      /\ manifest[proc[p].id] = "quarantined" /\ proc[p].op # "reject"
  BY <1>1, ProcBusy DEF ProcInv, Locked, Publishing
<1>3. CASE Raise(p) /\ UNCHANGED bundle
  BY <1>1, <1>3, RaiseStep
<1>4. CASE /\ bundle[proc[p].id] = "absent"
           /\ bundle' = [bundle EXCEPT ![proc[p].id] = "committed"]
           /\ \/ Goto(p, "sync") /\ UNCHANGED lock
              \/ Raise(p)
  <2>1. /\ "sync" \in Steps /\ "committed" \in Bundles
        /\ bundle'[proc[p].id] = "committed"
        /\ bundle' \in [Artifacts -> Bundles]
        /\ \A j \in Artifacts \ {proc[p].id} : bundle'[j] = bundle[j]
    BY <1>1, <1>2, <1>4 DEF Steps, StoreTypeOK, Bundles
  <2>2. /\ proc' \in [Procs -> Working \cup {Idle}] /\ LockMoves(p)
        /\ ProcInv(p)' /\ ~At(p, "fill")' /\ \A q \in Procs \ {p} : proc'[q] = proc[q]
    <3>1. CASE Raise(p)
      BY <1>1, <3>1, RaiseEffect DEF LockMoves, At
    <3>2. CASE Goto(p, "sync") /\ UNCHANGED lock
      <4>1. /\ proc' \in [Procs -> Working \cup {Idle}]
            /\ proc'[p].pc = "sync" /\ proc'[p].id = proc[p].id /\ proc'[p].op = proc[p].op
            /\ \A q \in Procs \ {p} : proc'[q] = proc[q]
        BY <1>1, <1>2, <2>1, <3>2, GotoEffect
      <4>2. ProcInv(p)'
        BY <1>1, <1>2, <2>1, <3>2, <4>1 DEF ProcInv, Locked, Dispatching, Publishing
      <4> QED
        BY <3>2, <4>1, <4>2 DEF LockMoves, At
    <3> QED
      BY <1>4, <3>1, <3>2
  <2>3. ASSUME NEW q \in Procs \ {p} PROVE ProcInv(q)'
    <3>1. ~(proc[q].pc \in {"sync", "mirror"})
      BY <1>1, <1>2 DEF ProcInv, Locked
    <3> QED
      BY <1>1, <2>2, <3>1, OthersKept
  <2>4. StoreTypeOK' /\ OneFiller'
    BY <1>1, <2>1, <2>2 DEF StoreInv, StoreTypeOK, OneFiller, At, LockMoves
  <2>5. CleanBundles' /\ AcknowledgedIsDurable'
    BY <1>1, <1>2, <2>1 DEF StoreInv, CleanBundles, Clean, AcknowledgedIsDurable, Answered
  <2>6. RejectionIsRecorded'
    BY <1>1, <1>2, <2>1 DEF StoreInv, RejectionIsRecorded, Answered
  <2> QED
    BY <2>2, <2>3, <2>4, <2>5, <2>6 DEF StoreInv
<1> QED
  BY <1>2, <1>3, <1>4 DEF Rename, Published

\* A publication is synced before it is mirrored and answered.
LEMMA SyncStep ==
    ASSUME StoreInv, NEW p \in Procs, Sync(p)
    PROVE  StoreInv'
<1>1. /\ StoreTypeOK /\ \A q \in Procs : ProcInv(q)
      /\ proc[p].pc = "sync" /\ UNCHANGED <<manifest, bundle, answers, blackout>>
  BY DEF StoreInv, Sync, At
<1>2. /\ lock = {p} /\ proc[p].pc # "idle" /\ proc[p].id \in Artifacts
      /\ manifest[proc[p].id] = "quarantined" /\ proc[p].op # "reject"
      /\ bundle[proc[p].id] = "committed"
  BY <1>1, ProcBusy DEF ProcInv, Locked, Publishing
<1>3. CASE Raise(p) /\ UNCHANGED disk
  BY <1>1, <1>3, RaiseStep
<1>4. CASE SyncDirectories(proc[p].id) /\ Goto(p, "mirror") /\ UNCHANGED lock
  <2>1. "mirror" \in Steps
    BY DEF Steps
  <2>2. /\ proc' \in [Procs -> Working \cup {Idle}]
        /\ proc'[p].pc = "mirror" /\ proc'[p].id = proc[p].id /\ proc'[p].op = proc[p].op
        /\ \A q \in Procs \ {p} : proc'[q] = proc[q]
    BY <1>1, <1>2, <1>4, <2>1, GotoEffect
  <2>3. /\ disk' \in [Artifacts -> [manifest: Manifests, bundle: Bundles]]
        /\ disk'[proc[p].id].bundle = "committed"
        /\ \A j \in Artifacts \ {proc[p].id} : disk'[j] = disk[j]
    BY <1>2, <1>4, SyncEffect
  <2>4. ProcInv(p)'
    BY <1>1, <1>2, <1>4, <2>2, <2>3 DEF ProcInv, Locked, Dispatching, Publishing
  <2>5. ASSUME NEW q \in Procs \ {p} PROVE ProcInv(q)'
    <3>1. proc[q].pc # "mirror"
      BY <1>1, <1>2 DEF ProcInv, Locked
    <3> QED
      BY <1>1, <1>4, <2>2, <3>1, OthersKept DEF LockMoves
  <2>6. StoreTypeOK' /\ OneFiller'
    BY <1>1, <1>4, <2>2, <2>3 DEF StoreInv, StoreTypeOK, OneFiller, At
  <2>7. CleanBundles' /\ AcknowledgedIsDurable' /\ RejectionIsRecorded'
    BY <1>1, <1>2, <2>3 DEF StoreInv, CleanBundles, Clean, AcknowledgedIsDurable,
       RejectionIsRecorded, Answered
  <2> QED
    BY <2>4, <2>5, <2>6, <2>7 DEF StoreInv
<1> QED
  BY <1>3, <1>4 DEF Sync

\* The mirror is written, or not, and release() answers.
LEMMA MirrorStep ==
    ASSUME StoreInv, NEW p \in Procs, Mirror(p)
    PROVE  StoreInv'
<1>1. /\ StoreTypeOK /\ ProcInv(p) /\ Answer(p)
      /\ proc[p].pc = "mirror" /\ UNCHANGED <<bundle, disk, blackout>>
  BY DEF StoreInv, Mirror, At
<1>2. /\ lock = {p} /\ proc[p].pc # "idle" /\ proc[p].id \in Artifacts
      /\ manifest[proc[p].id] = "quarantined" /\ proc[p].op # "reject"
      /\ bundle[proc[p].id] = "committed" /\ disk[proc[p].id].bundle = "committed"
  BY <1>1, ProcBusy DEF ProcInv, Locked, Publishing
<1>3. PICK v \in {"quarantined", "released"} : manifest' = [manifest EXCEPT ![proc[p].id] = v]
  BY <1>1, <1>2 DEF Mirror, StoreTypeOK
<1>4. v \in Manifests
  BY DEF Manifests
<1>5. /\ manifest' \in [Artifacts -> Manifests]
      /\ \A j \in Artifacts : manifest[j] = "rejected" => manifest'[j] = "rejected"
      /\ \A q \in Procs \ {p} : proc[q].pc \in Publishing \cup {"fill"} =>
                                   manifest'[proc[q].id] = manifest[proc[q].id]
  BY <1>2, <1>3, <1>4, LockExcludes
<1> QED
  BY <1>1, <1>2, <1>5, DiskStays, AnswerStep

\* A repeated release and a provider receipt verify and sync before they answer.
LEMMA ConfirmStep ==
    ASSUME StoreInv, NEW p \in Procs, Confirm(p)
    PROVE  StoreInv'
<1>1. /\ StoreTypeOK /\ ProcInv(p)
      /\ proc[p].pc = "confirm" /\ UNCHANGED <<manifest, bundle, blackout>>
  BY DEF StoreInv, Confirm, At
<1>2. proc[p].pc # "idle" /\ proc[p].id \in Artifacts /\ proc[p].op # "reject"
  BY <1>1, ProcBusy DEF ProcInv
<1>3. CASE Raise(p) /\ UNCHANGED <<disk, answers>>
  BY <1>1, <1>3, RaiseStep
<1>4. CASE Verified(proc[p].id) /\ SyncDirectories(proc[p].id) /\ Answer(p)
  <2>1. bundle[proc[p].id] = "committed"
    BY <1>2, <1>4 DEF StoreInv, CleanBundles, Clean, Verified
  <2>2. /\ disk' \in [Artifacts -> [manifest: Manifests, bundle: Bundles]]
        /\ disk'[proc[p].id].bundle = "committed"
        /\ \A j \in Artifacts \ {proc[p].id} : disk'[j] = disk[j]
    BY <1>2, <1>4, <2>1, SyncEffect
  <2>3. \A j \in Artifacts : /\ disk'[j].bundle \in Clean
                             /\ disk[j].bundle = "committed" => disk'[j].bundle = "committed"
    BY <2>2 DEF StoreInv, CleanBundles, Clean
  <2>4. manifest' \in [Artifacts -> Manifests]
    BY <1>1 DEF StoreTypeOK
  <2> QED
    BY <1>1, <1>2, <1>4, <2>1, <2>2, <2>3, <2>4, AnswerStep
<1> QED
  BY <1>3, <1>4 DEF Confirm

\* What is written back is what was visible: clean, and committed where that was.
LEMMA WriteBackStep ==
    ASSUME StoreInv, NEW i \in Artifacts, WriteBack(i)
    PROVE  StoreInv'
<1>1. /\ StoreTypeOK /\ CleanBundles
      /\ UNCHANGED <<manifest, bundle, proc, lock, answers, blackout>>
  BY DEF StoreInv, WriteBack
<1>2. /\ disk' \in [Artifacts -> [manifest: Manifests, bundle: Bundles]]
      /\ disk'[i].bundle \in {disk[i].bundle, bundle[i]}
      /\ \A j \in Artifacts \ {i} : disk'[j] = disk[j]
  <2>1. CASE SyncDirectories(i)
    BY <2>1, SyncEffect
  <2>2. CASE disk' = [disk EXCEPT ![i].manifest = manifest[i]]
    <3> DEFINE entry == [disk[i] EXCEPT !.manifest = manifest[i]]
    <3>1. disk' = [disk EXCEPT ![i] = entry]
      BY <2>2
    <3>2. entry \in [manifest: Manifests, bundle: Bundles] /\ entry.bundle = disk[i].bundle
      BY <1>1 DEF StoreTypeOK
    <3> HIDE DEF entry
    <3> QED
      BY <1>1, <3>1, <3>2 DEF StoreTypeOK
  <2> QED
    BY <2>1, <2>2 DEF WriteBack, SyncDirectories
<1>3. StoreTypeOK' /\ OneFiller' /\ CleanBundles'
  BY <1>1, <1>2 DEF StoreInv, StoreTypeOK, OneFiller, At, CleanBundles
<1>4. ASSUME NEW q \in Procs PROVE ProcInv(q)'
  <2>1. ProcInv(q) /\ (proc[q].pc = "mirror" => proc[q].id \in Artifacts)
    BY <1>1, ProcBusy DEF StoreInv
  <2>2. proc[q].pc = "mirror" => disk'[proc[q].id].bundle = "committed"
    BY <1>2, <2>1 DEF ProcInv
  <2> QED
    BY <1>1, <2>1, <2>2 DEF ProcInv
<1>5. AcknowledgedIsDurable' /\ RejectionIsRecorded'
  BY <1>1, <1>2 DEF StoreInv, AcknowledgedIsDurable, RejectionIsRecorded, Answered
<1> QED
  BY <1>3, <1>4, <1>5 DEF StoreInv

\* The migration moves away what does not verify, which was never acknowledged.
LEMMA MigrationStep ==
    ASSUME StoreInv, quarantine_legacy_publications
    PROVE  StoreInv'
<1> DEFINE stale == {i \in Artifacts : Published(i) /\ ~Verified(i)}
           Without(moved) == [i \in Artifacts |-> IF i \in moved THEN "absent" ELSE bundle[i]]
<1>1. /\ StoreTypeOK /\ CleanBundles /\ \A p \in Procs : proc[p].pc = "idle"
      /\ UNCHANGED <<manifest, proc, lock, answers, blackout>>
  BY DEF StoreInv, quarantine_legacy_publications, At
<1>2. PICK moved \in SUBSET stale :
        /\ bundle' = Without(moved)
        /\ \/ disk' = [i \in Artifacts |-> [disk[i] EXCEPT !.bundle = Settled(bundle'[i])]]
           \/ UNCHANGED disk
  BY Zenon DEF quarantine_legacy_publications
<1>3. /\ bundle' \in [Artifacts -> Bundles]
      /\ \A i \in Artifacts : bundle'[i] \in {"absent", bundle[i]} /\ bundle'[i] \in Clean
      /\ \A i \in Artifacts : bundle[i] = "committed" => bundle'[i] = "committed"
  BY <1>1, <1>2 DEF StoreTypeOK, CleanBundles, Clean, Bundles, Verified
<1>4. /\ disk' \in [Artifacts -> [manifest: Manifests, bundle: Bundles]]
      /\ \A i \in Artifacts : disk'[i].bundle \in {disk[i].bundle, bundle'[i]}
  <2>1. CASE UNCHANGED disk
    BY <1>1, <2>1 DEF StoreTypeOK
  <2>2. CASE disk' = [i \in Artifacts |-> [disk[i] EXCEPT !.bundle = Settled(bundle'[i])]]
    <3>1. \A i \in Artifacts : Settled(bundle'[i]) = bundle'[i] /\ bundle'[i] \in Bundles
      BY <1>3 DEF Clean, Settled
    <3>2. \A i \in Artifacts : disk'[i] = [disk[i] EXCEPT !.bundle = bundle'[i]]
      BY <2>2, <3>1
    <3>3. ASSUME NEW i \in Artifacts
          PROVE  disk'[i] \in [manifest: Manifests, bundle: Bundles] /\ disk'[i].bundle = bundle'[i]
      BY <1>1, <3>1, <3>2 DEF StoreTypeOK
    <3>4. disk' = [i \in Artifacts |-> disk'[i]]
      BY <2>2
    <3> QED
      BY <3>3, <3>4
  <2> QED
    BY <1>2, <2>1, <2>2
<1> HIDE DEF stale, Without
<1>5. StoreTypeOK'
  BY <1>1, <1>3, <1>4 DEF StoreTypeOK
<1>6. OneFiller' /\ CleanBundles'
  BY <1>1, <1>3, <1>4 DEF OneFiller, At, CleanBundles
<1>7. \A p \in Procs : ProcInv(p)'
  BY <1>1 DEF ProcInv, Locked, Dispatching, Publishing
<1>8. AcknowledgedIsDurable' /\ RejectionIsRecorded'
  BY <1>1, <1>3, <1>4 DEF StoreInv, AcknowledgedIsDurable, RejectionIsRecorded, Answered
<1> QED
  BY <1>5, <1>6, <1>7, <1>8 DEF StoreInv

\* After a power loss nothing runs and what is visible is what was durable.
LEMMA PowerLossStep ==
    ASSUME StoreInv, PowerLoss
    PROVE  StoreInv'
<1>1. /\ proc' \in [Procs -> Working \cup {Idle}] /\ \A p \in Procs : proc'[p].pc = "idle"
  BY DEF PowerLoss, Idle
<1>2. /\ manifest' \in [Artifacts -> Manifests] /\ bundle' \in [Artifacts -> Bundles]
      /\ \A i \in Artifacts : bundle'[i] = disk[i].bundle
      /\ UNCHANGED <<disk, answers>> /\ lock' = {} /\ blackout' = TRUE
  BY DEF PowerLoss, StoreInv, StoreTypeOK
<1>3. StoreTypeOK'
  BY <1>1, <1>2 DEF StoreInv, StoreTypeOK
<1>4. OneFiller' /\ CleanBundles'
  BY <1>1, <1>2 DEF StoreInv, OneFiller, At, CleanBundles
<1>5. \A p \in Procs : ProcInv(p)'
  BY <1>1 DEF ProcInv, Locked, Dispatching, Publishing
<1>6. AcknowledgedIsDurable' /\ RejectionIsRecorded'
  BY <1>2 DEF StoreInv, AcknowledgedIsDurable, RejectionIsRecorded, Answered
<1> QED
  BY <1>3, <1>4, <1>5, <1>6 DEF StoreInv

-----------------------------------------------------------------------------
(* Theorems *)

\* Whatever processes, crashes, write-back, migrations and power losses do,
\* the guarantees of every step of release_gate.py hold together.
THEOREM StoreInvariant == StoreSpec => []StoreInv
<1>1. StoreInit => StoreInv
  <2> SUFFICES ASSUME StoreInit PROVE StoreInv
    OBVIOUS
  <2>1. /\ manifest \in [Artifacts -> Manifests] /\ bundle \in [Artifacts -> Bundles]
        /\ \A i \in Artifacts : bundle[i] \in Clean
    BY DEF StoreInit, Manifests, Bundles, Clean
  <2>2. /\ disk = [i \in Artifacts |-> [manifest |-> manifest[i], bundle |-> bundle[i]]]
        /\ lock = {} /\ answers = {} /\ blackout = FALSE
    BY DEF StoreInit
  <2>3. proc \in [Procs -> Working \cup {Idle}] /\ \A p \in Procs : proc[p].pc = "idle"
    BY DEF StoreInit, Idle
  <2>4. /\ disk \in [Artifacts -> [manifest: Manifests, bundle: Bundles]]
        /\ \A i \in Artifacts : disk[i].bundle = bundle[i]
    BY <2>1, <2>2
  <2>5. StoreTypeOK
    BY <2>1, <2>2, <2>3, <2>4 DEF StoreTypeOK
  <2>6. OneFiller /\ CleanBundles /\ \A p \in Procs : ProcInv(p)
    BY <2>1, <2>3, <2>4 DEF OneFiller, At, CleanBundles, ProcInv, Locked, Dispatching, Publishing
  <2>7. AcknowledgedIsDurable /\ RejectionIsRecorded
    BY <2>2 DEF AcknowledgedIsDurable, RejectionIsRecorded, Answered
  <2> QED
    BY <2>5, <2>6, <2>7 DEF StoreInv
<1>2. StoreInv /\ [StoreNext]_storeVars => StoreInv'
  <2> SUFFICES ASSUME StoreInv, [StoreNext]_storeVars PROVE StoreInv'
    OBVIOUS
  <2>1. ASSUME NEW p \in Procs, NEW op \in {"dispatch", "release", "reject", "receipt"},
               NEW i \in Artifacts, Begin(p, op, i)
        PROVE  StoreInv'
    BY <2>1, BeginStep
  <2>2. ASSUME NEW p \in Procs, ProcStep(p)
        PROVE  StoreInv'
    BY <2>2, QuietSteps, IngestSteps, InspectStep, RejectStep, RenameStep, SyncStep, MirrorStep,
       ConfirmStep DEF ProcStep
  <2>3. ASSUME NEW p \in Procs, Crash(p)
        PROVE  StoreInv'
    BY <2>3, RaiseStep DEF Crash
  <2>4. CASE UNCHANGED storeVars
    BY <2>4 DEF storeVars, StoreInv, StoreTypeOK, ProcInv, OneFiller, At, CleanBundles,
       AcknowledgedIsDurable, RejectionIsRecorded, Answered
  <2> QED
    BY <2>1, <2>2, <2>3, <2>4, WriteBackStep, MigrationStep, PowerLossStep DEF StoreNext
<1> QED
  BY <1>1, <1>2, PTL DEF StoreSpec

\* Every manifest, bundle, process and answer keeps its type.
THEOREM StoreTypes == StoreSpec => []StoreTypeOK
<1>1. StoreInv => StoreTypeOK
  BY DEF StoreInv
<1> QED
  BY <1>1, StoreInvariant, PTL

\* No release that was on its way when reject() returned, and no later one,
\* publishes the artifact, unless a power loss took the rejection back.
THEOREM RejectedStaysPrivate == StoreSpec => []RejectionExcludesRelease
<1>1. StoreInv => RejectionExcludesRelease
  BY DEF StoreInv, RejectionIsRecorded, RejectionExcludesRelease, RejectedNeverPublished, Published
<1> QED
  BY <1>1, StoreInvariant, PTL

\* A publication that release() or a provider receipt acknowledged stays through
\* every crash, migration and power loss.
THEOREM AcknowledgedStays == StoreSpec => []AcknowledgedSurvives
<1>1. StoreInv => AcknowledgedSurvives
  BY DEF StoreInv, AcknowledgedIsDurable, AcknowledgedSurvives, Published, Verified
<1> QED
  BY <1>1, StoreInvariant, PTL

\* No power loss leaves a bundle with missing content under released/.
THEOREM NothingTorn == StoreSpec => []NeverTorn
<1>1. StoreInv => NeverTorn
  BY DEF StoreInv, CleanBundles, Clean, NeverTorn
<1> QED
  BY <1>1, StoreInvariant, PTL

-----------------------------------------------------------------------------
(* The inductive invariant of the container runner *)

Before == {"environment", "stage"}
Calls == {"launch", "command", "collect"}
After == {"cleanup", "removing", "persist", "report"}

\* Nothing of the container runs or can start any more, and no CLI is left that
\* would ask for it.
Quiet ==
    /\ cli = "none" /\ container # "running"
    /\ Requested("start") => container # "created"

\* Before the first docker call there is nothing to stop.
Fresh ==
    host.pc \in Before =>
        /\ container = "absent" /\ daemon = {} /\ cli = "none" /\ age = 0 /\ command = "unstarted"

\* What the thread knows at each stage of execute().
HostInv ==
    /\ host.pc \in Before \cup Calls => ~host.timed_out /\ ~host.failed /\ ~host.interrupted
    /\ host.pc \in Before \cup Calls => listing = NoFiles
    /\ host.pc \in Before \cup Calls \cup {"cleanup"} => removal = "none" /\ ~Requested("remove")
    /\ host.pc \in {"persist", "report"} => removal = "ok" /\ ~host.interrupted /\ ~host.failed
    /\ host.pc \notin {"report", "returned"} => artifact = NoFiles
    /\ Requested("remove") => removal = "none"
    /\ outcome # "none" => host.pc = "returned"

\* A container is created once, a CLI that answered has ended, and a command runs
\* in a running container only.
DockerInv ==
    /\ Requested("create") => container = "absent" /\ ~Requested("start")
    /\ command \in {"running", "children"} => container = "running"
    /\ reply.status # "none" => cli = "none"
    /\ host.pc \in After /\ ~host.interrupted => cli = "none"

\* When the removal was verified or a result returned, the container is stopped.
Verdict ==
    \/ host.pc \in After /\ removal = "ok" /\ ~host.interrupted
    \/ outcome \in {"evidence", "unavailable"}
    \/ artifact # NoFiles

StoppedInv == Verdict => Quiet

\* The age a detached container can have when the host turns to a docker call.
AgeAt(pc) == IF pc = "launch" THEN 0 ELSE IF pc = "command" THEN 1 ELSE Timeout + 1

AgeInv ==
    host.pc \in Calls => age <= elapsed + AgeAt(host.pc) /\ elapsed <= TimeoutOf(host.pc)

\* The host has validated what it stores.
ListingInv ==
    /\ listing # NoFiles => Acceptable(listing) /\ ~host.timed_out /\ ~host.failed
    /\ artifact # NoFiles => artifact = listing

RunnerInv ==
    RunnerTypeOK /\ Fresh /\ HostInv /\ DockerInv /\ StoppedInv /\ AgeInv /\ ListingInv

-----------------------------------------------------------------------------
(* Parts of a step *)

Stages == Waiting \cup {"environment", "stage", "cleanup", "persist", "report", "returned"}
Hosts == [pc: Stages, timed_out: BOOLEAN, failed: BOOLEAN, interrupted: BOOLEAN]

\* The thread goes on and its flags stay.
LEMMA HostGoesEffect ==
    ASSUME RunnerTypeOK, NEW pc \in Stages, HostGoes(pc)
    PROVE  /\ host' \in Hosts /\ host'.pc = pc
           /\ host'.timed_out = host.timed_out /\ host'.failed = host.failed
           /\ host'.interrupted = host.interrupted
<1>1. host \in Hosts
  BY DEF RunnerTypeOK, Hosts, Stages
<1> QED
  BY <1>1 DEF Hosts, HostGoes

\* The thread turns to cleanup with a failure.
LEMMA FailEffect ==
    ASSUME RunnerTypeOK, Fail
    PROVE  /\ host' \in Hosts /\ host'.pc = "cleanup"
           /\ host'.timed_out = host.timed_out /\ host'.failed
           /\ host'.interrupted = host.interrupted
<1>1. host \in Hosts /\ "cleanup" \in Stages
  BY DEF RunnerTypeOK, Hosts, Stages
<1> QED
  BY <1>1 DEF Hosts, Fail

\* A CLI that is answered has ended; another one hears nothing.
LEMMA AnswerEffect ==
    ASSUME RunnerTypeOK, NEW waiting, NEW status \in {"ok", "failed"}, NEW files \in Seq(File),
           Respond(waiting, status, files)
    PROVE  /\ reply' \in Reply
           /\ cli' = "none" \/ UNCHANGED <<cli, reply>>
<1>1. CASE cli = waiting
  <2>1. reply' = [status |-> status, files |-> files] /\ cli' = "none"
    BY <1>1 DEF Respond
  <2> QED
    BY <2>1 DEF Reply
<1>2. CASE cli # waiting
  BY <1>2 DEF Respond, RunnerTypeOK
<1> QED
  BY <1>1, <1>2

\* An empty listing is a listing.
LEMMA NoFilesType == NoFiles \in Seq(File) /\ NoReply \in Reply /\ NoReply.status = "none"
<1>1. NoFiles \in Seq(File)
  BY DEF NoFiles
<1> QED
  BY <1>1 DEF NoReply, Reply

\* Each listing the exporter can report is a sequence of files.
LEMMA ListingsType == ASSUME NEW files \in Listings PROVE files \in Seq(File)
<1>1. PICK m \in 0..(MaxFiles + 1) : files \in [1..m -> File]
  BY DEF Listings, SeqOf
<1> QED
  BY <1>1

-----------------------------------------------------------------------------
(* External steps *)

\* A step of the daemon, the CLI or the container keeps the invariant when it
\* keeps what it says of them; before the first docker call there is none.
LEMMA OutsideStep ==
    ASSUME RunnerInv, host.pc \notin Before,
           UNCHANGED <<allowlisted, host, elapsed, age, listing, artifact, outcome>>,
           cli' \in {"none", "create", "start", "exec", "exit", "export"}, reply' \in Reply,
           daemon' \subseteq daemon \cup {"start"},
           container' \in {"absent", "created", "running", "gone"},
           command' \in {"unstarted", "running", "children", "ended"},
           removal' \in {"none", "ok", "failed"},
           removal' # removal => Requested("remove") /\ ~Requested("remove")',
           cli = "none" => cli' = "none",
           Requested("create")' => container' = "absent" /\ ~Requested("start")',
           command' \in {"running", "children"} => container' = "running",
           cli' = "none" \/ UNCHANGED reply,
           Quiet => Quiet',
           removal' # removal /\ removal' = "ok" /\ cli' = "none" => Quiet'
    PROVE  RunnerInv'
<1>1. RunnerTypeOK'
  BY DEF RunnerInv, RunnerTypeOK
<1>2. Fresh' /\ AgeInv' /\ ListingInv'
  BY DEF RunnerInv, Fresh, AgeInv, ListingInv
<1>3. HostInv'
  BY DEF RunnerInv, HostInv, Requested
<1>4. DockerInv'
  BY DEF RunnerInv, DockerInv
<1>5. StoppedInv'
  BY DEF RunnerInv, StoppedInv, Verdict, DockerInv
<1> QED
  BY <1>1, <1>2, <1>3, <1>4, <1>5 DEF RunnerInv

\* What the parts of the invariant say of the daemon's side.
LEMMA DockerFacts ==
    ASSUME RunnerInv
    PROVE  /\ RunnerTypeOK /\ DockerInv
           /\ cli \in {"none", "create", "start", "exec", "exit", "export"}
           /\ daemon \subseteq {"create", "start", "exec", "export", "remove"}
           /\ container \in {"absent", "created", "running", "gone"}
           /\ command \in {"unstarted", "running", "children", "ended"}
           /\ removal \in {"none", "ok", "failed"} /\ reply \in Reply
           /\ host.pc \in Before =>
                 daemon = {} /\ cli = "none" /\ command = "unstarted" /\ container = "absent"
BY DEF RunnerInv, RunnerTypeOK, Fresh

\* The daemon creates the container, or fails to.
LEMMA CreateStep ==
    ASSUME RunnerInv, Create
    PROVE  RunnerInv'
<1>1. /\ Requested("create") /\ container = "absent" /\ ~Requested("start")
      /\ host.pc \notin Before
  BY DockerFacts DEF Create, DockerInv, Requested
<1>2. UNCHANGED <<allowlisted, host, elapsed, removal, age, command, listing, artifact, outcome>>
  BY DEF Create, resultVars
<1>3. CASE /\ container' = "created" /\ UNCHANGED reply
           /\ IF cli = "create"
              THEN cli' = "start" /\ daemon' = (daemon \ {"create"}) \cup {"start"}
              ELSE Done("create") /\ UNCHANGED cli
  BY <1>1, <1>2, <1>3, DockerFacts, OutsideStep DEF Done, Requested, Quiet, DockerInv
<1>4. CASE Done("create") /\ Respond("create", "failed", NoFiles) /\ UNCHANGED container
  <2>1. reply' \in Reply /\ (cli' = "none" \/ UNCHANGED <<cli, reply>>)
    BY <1>4, DockerFacts, NoFilesType, AnswerEffect
  <2> QED
    BY <1>1, <1>2, <1>4, <2>1, DockerFacts, OutsideStep DEF Done, Requested, Quiet, DockerInv
<1> QED
  BY <1>3, <1>4 DEF Create

\* The daemon starts the container, or fails to.
LEMMA StartStep ==
    ASSUME RunnerInv, Start
    PROVE  RunnerInv'
<1>1. Requested("start") /\ ~Requested("create") /\ host.pc \notin Before /\ Done("start")
  BY DockerFacts DEF Start, DockerInv, Requested
<1>2. UNCHANGED <<allowlisted, host, elapsed, removal, age, listing, artifact, outcome>>
  BY DEF Start, resultVars
<1>3. CASE container = "created" /\ container' = "running"
  <2>1. /\ reply' \in Reply /\ (cli' = "none" \/ UNCHANGED reply)
        /\ cli' \in {cli, "none", "exit"} /\ (cli = "none" => cli' = "none")
        /\ command' \in {command, "running"}
    <3>1. CASE allowlisted
      <4>1. Respond("start", "ok", NoFiles) /\ UNCHANGED command
        BY <1>3, <3>1 DEF Start
      <4> QED
        BY <4>1, DockerFacts, NoFilesType, AnswerEffect
    <3>2. CASE ~allowlisted
      BY <1>3, <3>2, DockerFacts DEF Start
    <3> QED
      BY <3>1, <3>2
  <2>2. ~Quiet
    BY <1>1, <1>3 DEF Quiet
  <2> QED
    BY <1>1, <1>2, <1>3, <2>1, <2>2, DockerFacts, OutsideStep DEF Done, Requested
<1>4. CASE Respond("start", "failed", NoFiles) /\ UNCHANGED <<container, command>>
  <2>1. reply' \in Reply /\ (cli' = "none" \/ UNCHANGED <<cli, reply>>)
    BY <1>4, DockerFacts, NoFilesType, AnswerEffect
  <2> QED
    BY <1>1, <1>2, <1>4, <2>1, DockerFacts, OutsideStep DEF Done, Requested, Quiet, DockerInv
<1> QED
  BY <1>3, <1>4 DEF Start

\* The command is started in the detached container, or that fails.
LEMMA ExecStep ==
    ASSUME RunnerInv, Exec
    PROVE  RunnerInv'
<1>1. Requested("exec") /\ host.pc \notin Before /\ Done("exec")
  BY DockerFacts DEF Exec, Requested
<1>2. UNCHANGED <<allowlisted, host, elapsed, removal, container, age, listing, artifact, outcome>>
  BY DEF Exec, resultVars
<1>3. CASE /\ container = "running" /\ command' = "running" /\ UNCHANGED reply
           /\ cli' = IF cli = "exec" THEN "exit" ELSE cli
  BY <1>1, <1>2, <1>3, DockerFacts, OutsideStep DEF Done, Requested, Quiet, DockerInv
<1>4. CASE Respond("exec", "failed", NoFiles) /\ UNCHANGED command
  <2>1. reply' \in Reply /\ (cli' = "none" \/ UNCHANGED <<cli, reply>>)
    BY <1>4, DockerFacts, NoFilesType, AnswerEffect
  <2> QED
    BY <1>1, <1>2, <1>4, <2>1, DockerFacts, OutsideStep DEF Done, Requested, Quiet, DockerInv
<1> QED
  BY <1>3, <1>4 DEF Exec

\* The command ends, with its container when that is not detached.
LEMMA CommandEndsStep ==
    ASSUME RunnerInv, CommandEnds
    PROVE  RunnerInv'
<1>1. container = "running" /\ ~Requested("create") /\ host.pc \notin Before
  BY DockerFacts DEF CommandEnds, DockerInv
<1>2. UNCHANGED <<allowlisted, host, elapsed, removal, daemon, age, listing, artifact, outcome>>
  BY DEF CommandEnds, resultVars
<1>3. /\ command' \in {"children", "ended"} /\ container' \in {"running", "gone"}
      /\ command' = "children" => container' = "running"
  BY <1>1 DEF CommandEnds
<1>4. reply' \in Reply /\ (cli' = "none" \/ UNCHANGED <<cli, reply>>)
  BY DockerFacts, NoFilesType, AnswerEffect DEF CommandEnds
<1>5. ~Quiet
  BY <1>1 DEF Quiet
<1> QED
  BY <1>1, <1>2, <1>3, <1>4, <1>5, DockerFacts, OutsideStep DEF Requested

\* The exporter answers, truthfully or not.
LEMMA ExportStep ==
    ASSUME RunnerInv, Export
    PROVE  RunnerInv'
<1>1. Requested("export") /\ host.pc \notin Before /\ Done("export")
  BY DockerFacts DEF Export, Requested
<1>2. UNCHANGED <<allowlisted, host, elapsed, removal, container, age, command, listing, artifact, outcome>>
  BY DEF Export, resultVars, insideVars
<1>3. reply' \in Reply /\ (cli' = "none" \/ UNCHANGED <<cli, reply>>)
  <2>1. CASE Respond("export", "failed", NoFiles)
    BY <2>1, DockerFacts, NoFilesType, AnswerEffect
  <2>2. ASSUME NEW files \in Listings, Respond("export", "ok", files)
        PROVE  reply' \in Reply /\ (cli' = "none" \/ UNCHANGED <<cli, reply>>)
    BY <2>2, DockerFacts, ListingsType, AnswerEffect
  <2> QED
    BY <2>1, <2>2 DEF Export
<1> QED
  BY <1>1, <1>2, <1>3, DockerFacts, OutsideStep DEF Done, Requested, Quiet, DockerInv

\* A container that is killed does not come back.
LEMMA KillEffect ==
    ASSUME RunnerInv, Kill
    PROVE  /\ container' \in {"absent", "gone"} /\ (container = "absent" => container' = "absent")
           /\ command' \in {"unstarted", "ended"}
BY DEF Kill

\* The daemon removes the container, or fails to.
LEMMA RemoveStep ==
    ASSUME RunnerInv, RemoveForced
    PROVE  RunnerInv'
<1>1. Requested("remove") /\ host.pc \notin Before /\ Done("remove")
  BY DockerFacts DEF RemoveForced, Requested
<1>2. UNCHANGED <<allowlisted, host, elapsed, age, listing, artifact, outcome>>
  BY DEF RemoveForced, resultVars
<1>3. CASE Kill /\ removal' = "ok" /\ Respond("exit", "failed", NoFiles)
  <2>1. reply' \in Reply /\ (cli' = "none" \/ UNCHANGED <<cli, reply>>)
    BY <1>3, DockerFacts, NoFilesType, AnswerEffect
  <2> QED
    BY <1>1, <1>2, <1>3, <2>1, DockerFacts, KillEffect, OutsideStep
    DEF Done, Requested, Quiet, DockerInv
<1>4. CASE removal' = "failed" /\ UNCHANGED <<container, command, cli, reply>>
  BY <1>1, <1>2, <1>4, DockerFacts, OutsideStep DEF Done, Requested, Quiet, DockerInv
<1> QED
  BY <1>3, <1>4 DEF RemoveForced

\* A lost connection and the end of the keep-alive.
LEMMA DisconnectExpireStep ==
    ASSUME RunnerInv, Disconnect \/ Expire
    PROVE  RunnerInv'
<1>1. host.pc \notin Before
  BY DockerFacts DEF Disconnect, Expire
<1>2. /\ UNCHANGED <<allowlisted, host, elapsed, removal, daemon, age, listing, artifact, outcome>>
      /\ reply' \in Reply /\ (cli' = "none" \/ UNCHANGED <<cli, reply>>)
  <2>1. CASE Expire
    BY <2>1, DockerFacts, NoFilesType, AnswerEffect DEF Expire, resultVars
  <2>2. CASE Disconnect
    BY <2>2, NoFilesType DEF Disconnect, Respond, Reply, resultVars, insideVars
  <2> QED
    BY <2>1, <2>2
<1>3. CASE Disconnect
  <2>1. UNCHANGED <<container, command>>
    BY <1>3 DEF Disconnect, insideVars
  <2> QED
    BY <1>1, <1>2, <2>1, DockerFacts, OutsideStep DEF Requested, Quiet, DockerInv
<1>4. CASE Expire
  BY <1>1, <1>2, <1>4, DockerFacts, KillEffect, OutsideStep DEF Expire, Requested, Quiet, DockerInv
<1> QED
  BY <1>3, <1>4

-----------------------------------------------------------------------------
(* Steps of the thread *)

\* Where the thread only moves on, the daemon's side and the listing stay.
LEMMA ThreadStep ==
    ASSUME RunnerInv, NEW pc \in Stages, HostGoes(pc),
           UNCHANGED <<allowlisted, elapsed, cli, reply, removal, daemon, container, age, command, listing>>,
           artifact' \in {artifact, listing},
           outcome' \in {"none", "evidence", "unavailable", "unverified", "interrupted", "dead"},
           pc \notin Calls,
           host.pc # "returned",
           pc \in Before => host.pc \in Before,
           pc = "cleanup" => host.pc \in Calls,
           pc \in After => cli = "none" \/ host.interrupted,
           pc \in {"persist", "report"} => removal = "ok" /\ ~host.interrupted /\ ~host.failed,
           artifact' # artifact => removal = "ok" /\ ~host.interrupted /\ host.pc \in After /\ pc = "report",
           artifact' # NoFiles => pc \in {"report", "returned"},
           outcome' # "none" => pc = "returned",
           outcome' \in {"evidence", "unavailable"} =>
               \/ host.pc \in Before
               \/ host.pc \in After /\ removal = "ok" /\ ~host.interrupted
    PROVE  RunnerInv'
<1>0. RunnerTypeOK /\ Fresh /\ HostInv /\ DockerInv /\ StoppedInv /\ AgeInv /\ ListingInv
  BY DEF RunnerInv
<1>1. /\ host' \in Hosts /\ host'.pc = pc
      /\ host'.timed_out = host.timed_out /\ host'.failed = host.failed
      /\ host'.interrupted = host.interrupted
  BY <1>0, HostGoesEffect
<1>2. RunnerTypeOK'
  BY <1>0, <1>1 DEF RunnerTypeOK, Hosts, Stages
<1>3. Fresh' /\ AgeInv'
  BY <1>0, <1>1 DEF Fresh, AgeInv
<1>4. HostInv'
  BY <1>0, <1>1 DEF HostInv, Requested, Before, Calls, After
<1>5. DockerInv' /\ ListingInv'
  BY <1>0, <1>1 DEF DockerInv, ListingInv, Requested
<1>6. StoppedInv'
  <2>1. Fresh /\ host.pc \in Before => Quiet
    BY DEF Fresh, Quiet, Requested
  <2>2. Quiet => Quiet'
    BY DEF Quiet, Requested
  <2>3. host.pc \in Before \cup Calls \cup After
    BY <1>0 DEF RunnerTypeOK, Before, Calls, After, Waiting
  <2>4. Verdict' => Quiet
    BY <1>0, <1>1, <2>1, <2>3 DEF StoppedInv, Verdict, HostInv, After, Before, Calls
  <2> QED
    BY <2>2, <2>4 DEF StoppedInv
<1> QED
  BY <1>2, <1>3, <1>4, <1>5, <1>6 DEF RunnerInv

\* A new docker call starts its own clock and CLI; it is never made once a
\* removal was asked for.
LEMMA CallStep ==
    ASSUME RunnerInv, NEW pc \in Calls, NEW request \in {"create", "exec", "export"}, Docker(pc, request),
           UNCHANGED <<allowlisted, removal, container, age, command, listing, artifact, outcome>>,
           host.pc \in Before \cup Calls,
           request = "create" => host.pc \in Before,
           age <= AgeAt(pc)
    PROVE  RunnerInv'
<1>0. RunnerTypeOK /\ Fresh /\ HostInv /\ DockerInv /\ StoppedInv /\ ListingInv
  BY DEF RunnerInv
<1>1. /\ HostGoes(pc) /\ elapsed' = 0 /\ cli' = request /\ reply' = NoReply
      /\ daemon' = daemon \cup {request} /\ pc \in Stages
  BY DEF Docker, Calls, Stages, Waiting
<1>2. /\ host' \in Hosts /\ host'.pc = pc
      /\ host'.timed_out = host.timed_out /\ host'.failed = host.failed
      /\ host'.interrupted = host.interrupted
  BY <1>0, <1>1, HostGoesEffect
<1>3. RunnerTypeOK'
  BY <1>0, <1>1, <1>2, NoFilesType DEF RunnerTypeOK, Hosts, Stages
<1>4. Fresh' /\ HostInv' /\ ListingInv'
  BY <1>0, <1>1, <1>2 DEF Fresh, HostInv, ListingInv, Requested, Before, Calls
<1>5. DockerInv'
  BY <1>0, <1>1, <1>2, NoFilesType DEF DockerInv, Fresh, Requested, Calls, After
<1>6. StoppedInv'
  BY <1>0, <1>2 DEF StoppedInv, Verdict, HostInv, Before, Calls, After
<1>7. AgeInv'
  <2>1. TimeoutOf(pc) \in Nat /\ AgeAt(pc) \in Nat /\ age \in Nat
    BY <1>0, RunnerConstants DEF TimeoutOf, AgeAt, RunnerTypeOK
  <2> QED
    BY <1>1, <1>2, <2>1 DEF AgeInv
<1> QED
  BY <1>3, <1>4, <1>5, <1>6, <1>7 DEF RunnerInv

\* The thread turns to cleanup and keeps its flags but one.
LEMMA CleanupStep ==
    ASSUME RunnerInv, host.pc \in Calls, host' \in Hosts, host'.pc = "cleanup",
           UNCHANGED <<allowlisted, elapsed, removal, daemon, container, age, command, artifact, outcome>>,
           cli' \in {cli, "none"}, cli' = "none" \/ host'.interrupted,
           reply' = NoReply \/ UNCHANGED reply,
           listing' \in Seq(File),
           listing' # NoFiles => Acceptable(listing') /\ ~host'.timed_out /\ ~host'.failed
    PROVE  RunnerInv'
<1>0. RunnerTypeOK /\ HostInv /\ DockerInv /\ StoppedInv
  BY DEF RunnerInv
<1>1. RunnerTypeOK'
  BY <1>0, NoFilesType DEF RunnerTypeOK, Hosts, Stages
<1>2. Fresh' /\ HostInv' /\ AgeInv' /\ ListingInv'
  BY <1>0 DEF Fresh, HostInv, AgeInv, ListingInv, Requested, Before, Calls
<1>3. DockerInv' /\ StoppedInv'
  BY <1>0, NoFilesType DEF DockerInv, StoppedInv, Verdict, HostInv, Requested, Calls, After
<1> QED
  BY <1>1, <1>2, <1>3 DEF RunnerInv

\* The checks and the staging of inputs, up to the first docker call.
LEMMA StagingSteps ==
    ASSUME RunnerInv, CheckEnvironment \/ StageInputs
    PROVE  RunnerInv'
<1>0. RunnerTypeOK /\ Fresh /\ HostInv
  BY DEF RunnerInv
<1>1. /\ host.pc \in Before
      /\ UNCHANGED <<allowlisted, removal, container, age, command, listing, artifact>>
  BY DEF CheckEnvironment, StageInputs, HostAt, Before, dockerVars, insideVars
<1>2. outcome = "none" /\ artifact = NoFiles /\ age = 0 /\ host.pc \notin Calls \cup After
  BY <1>0, <1>1 DEF HostInv, Before, Fresh, Calls, After
<1>3. CASE UNCHANGED <<elapsed, cli, reply, daemon>> /\ Leave("unavailable")
  BY <1>1, <1>2, <1>3, ThreadStep DEF Leave, Stages, Before, Calls, After
<1>4. CASE UNCHANGED <<elapsed, cli, reply, daemon, outcome>> /\ HostGoes("stage")
  BY <1>1, <1>2, <1>4, ThreadStep DEF Stages, Before, Calls, After
<1>5. CASE StageInputs /\ UNCHANGED outcome
  <2>1. PICK pc \in {"launch", "command"} : Docker(pc, "create")
    BY <1>2, <1>5 DEF StageInputs, Leave
  <2>2. age <= AgeAt(pc) /\ pc \in Calls
    BY <1>2 DEF AgeAt, Calls
  <2> QED
    BY <1>1, <1>5, <2>1, <2>2, CallStep
<1> QED
  BY <1>1, <1>3, <1>4, <1>5 DEF CheckEnvironment, StageInputs, dockerVars, HostAt

\* The detached container is up, or was not launched; the command returned.
LEMMA LaunchSteps ==
    ASSUME RunnerInv, Launched \/ CommandReturned
    PROVE  RunnerInv'
<1>0. RunnerTypeOK /\ HostInv /\ DockerInv /\ AgeInv
  BY DEF RunnerInv
<1>1. /\ host.pc \in {"launch", "command"} /\ host.pc \in Calls /\ reply.status # "none"
      /\ UNCHANGED <<allowlisted, removal, container, age, command, listing, artifact, outcome>>
  BY DEF Launched, CommandReturned, HostAt, insideVars, resultVars, Calls
<1>2. /\ cli = "none" /\ listing = NoFiles /\ listing \in Seq(File) /\ host \in Hosts
      /\ age \in Nat /\ elapsed \in Nat
  BY <1>0, <1>1 DEF DockerInv, HostInv, RunnerTypeOK, Hosts, Stages
<1>3. CASE UNCHANGED <<elapsed, cli, reply, daemon>> /\ Fail
  BY <1>0, <1>1, <1>2, <1>3, FailEffect, CleanupStep
<1>4. CASE UNCHANGED <<elapsed, cli, reply, daemon>> /\ HostGoes("cleanup")
  <2>1. "cleanup" \in Stages
    BY DEF Stages
  <2> QED
    BY <1>0, <1>1, <1>2, <1>4, <2>1, HostGoesEffect, CleanupStep
<1>5. CASE HostAt("launch") /\ Docker("command", "exec")
  <2>1. age <= AgeAt("command") /\ "command" \in Calls
    BY <1>0, <1>1, <1>2, <1>5 DEF AgeAt, AgeInv, TimeoutOf, Calls, HostAt
  <2> QED
    BY <1>1, <1>5, <2>1, CallStep
<1>6. CASE HostAt("command") /\ Docker("collect", "export")
  <2>1. age <= AgeAt("collect") /\ "collect" \in Calls
    BY <1>0, <1>1, <1>2, <1>6, RunnerConstants DEF AgeAt, AgeInv, TimeoutOf, Calls, HostAt
  <2> QED
    BY <1>1, <1>6, <2>1, CallStep
<1> QED
  BY <1>3, <1>4, <1>5, <1>6 DEF Launched, CommandReturned, insideVars, resultVars

\* The host validates what was exported, or fails.
LEMMA CollectStep ==
    ASSUME RunnerInv, collect_output
    PROVE  RunnerInv'
<1>0. RunnerTypeOK /\ HostInv /\ DockerInv
  BY DEF RunnerInv
<1>1. /\ host.pc \in Calls /\ reply.status # "none" /\ reply' = NoReply
      /\ UNCHANGED <<allowlisted, elapsed, cli, removal, daemon, container, age, command, artifact, outcome>>
  BY DEF collect_output, HostAt, insideVars, Calls
<1>2. /\ cli = "none" /\ ~host.timed_out /\ ~host.failed /\ listing = NoFiles
      /\ reply.files \in Seq(File) /\ listing \in Seq(File) /\ "cleanup" \in Stages
  BY <1>0, <1>1 DEF DockerInv, HostInv, RunnerTypeOK, Reply, Stages
<1>3. CASE Fail /\ UNCHANGED listing
  BY <1>0, <1>1, <1>2, <1>3, FailEffect, CleanupStep
<1>4. CASE HostGoes("cleanup") /\ listing' = reply.files /\ Acceptable(reply.files)
  <2>1. /\ host' \in Hosts /\ host'.pc = "cleanup"
        /\ host'.timed_out = host.timed_out /\ host'.failed = host.failed
    BY <1>0, <1>2, <1>4, HostGoesEffect
  <2>2. Acceptable(listing')
    BY <1>4
  <2> QED
    BY <1>1, <1>2, <1>4, <2>1, <2>2, CleanupStep
<1> QED
  BY <1>3, <1>4 DEF collect_output

\* A docker call times out or the thread is interrupted in one.
LEMMA CutShortSteps ==
    ASSUME RunnerInv, TimedOut \/ (Interrupt /\ host.pc \in Calls)
    PROVE  RunnerInv'
<1>0. RunnerTypeOK /\ HostInv
  BY DEF RunnerInv
<1>1. /\ host.pc \in Calls
      /\ UNCHANGED <<allowlisted, elapsed, reply, removal, daemon, container, age, command,
                     listing, artifact, outcome>>
  BY DEF TimedOut, Interrupt, Calls, dockerVars, insideVars, resultVars, Leave
<1>2. host \in Hosts /\ "cleanup" \in Stages /\ listing = NoFiles /\ listing \in Seq(File)
  BY <1>0, <1>1 DEF RunnerTypeOK, Hosts, Stages, HostInv
<1>3. CASE host' = [host EXCEPT !.pc = "cleanup", !.timed_out = TRUE] /\ cli' = "none"
  <2>1. host' \in Hosts /\ host'.pc = "cleanup"
    BY <1>2, <1>3 DEF Hosts
  <2> QED
    BY <1>1, <1>2, <1>3, <2>1, CleanupStep
<1>4. CASE host' = [host EXCEPT !.pc = "cleanup", !.interrupted = TRUE] /\ UNCHANGED cli
  <2>1. host' \in Hosts /\ host'.pc = "cleanup" /\ host'.interrupted
    BY <1>2, <1>4 DEF Hosts
  <2> QED
    BY <1>1, <1>2, <1>4, <2>1, CleanupStep
<1> QED
  BY <1>3, <1>4 DEF TimedOut, Interrupt, Calls, dockerVars

\* docker rm --force is sent.
LEMMA RemovalSent ==
    ASSUME RunnerInv, Cleanup
    PROVE  RunnerInv'
<1>0. RunnerTypeOK /\ HostInv /\ DockerInv /\ StoppedInv /\ ListingInv
  BY DEF RunnerInv
<1>1. /\ host.pc = "cleanup" /\ HostGoes("removing") /\ elapsed' = 0 /\ daemon' = daemon \cup {"remove"}
      /\ UNCHANGED <<allowlisted, cli, reply, removal, container, age, command, listing, artifact, outcome>>
      /\ "removing" \in Stages
  BY DEF Cleanup, HostAt, insideVars, resultVars, Stages, Waiting
<1>2. /\ host' \in Hosts /\ host'.pc = "removing"
      /\ host'.timed_out = host.timed_out /\ host'.failed = host.failed
      /\ host'.interrupted = host.interrupted
  BY <1>0, <1>1, HostGoesEffect
<1>3. RunnerTypeOK'
  BY <1>0, <1>1, <1>2 DEF RunnerTypeOK, Hosts, Stages
<1>4. Fresh' /\ HostInv' /\ AgeInv' /\ ListingInv'
  BY <1>0, <1>1, <1>2 DEF Fresh, HostInv, AgeInv, ListingInv, Requested, Before, Calls
<1>5. DockerInv' /\ StoppedInv'
  BY <1>0, <1>1, <1>2 DEF DockerInv, StoppedInv, Verdict, HostInv, Requested, Calls, After, Before
<1> QED
  BY <1>3, <1>4, <1>5 DEF RunnerInv

\* A removal that was verified lets the thread go on; anything else is reported
\* and the result withheld.
LEMMA RemovalSeen ==
    ASSUME RunnerInv, cleanup_container
    PROVE  RunnerInv'
<1>0. RunnerTypeOK /\ HostInv /\ DockerInv
  BY DEF RunnerInv
<1>1. /\ host.pc = "removing" /\ artifact = NoFiles /\ outcome = "none"
      /\ ~host.interrupted => cli = "none"
      /\ UNCHANGED <<allowlisted, elapsed, cli, reply, removal, daemon, container, age, command,
                     listing, artifact>>
  BY <1>0 DEF cleanup_container, HostAt, HostInv, DockerInv, After, dockerVars
<1>2. CASE Leave("unverified") \/ Leave("interrupted")
  BY <1>1, <1>2, ThreadStep DEF Leave, Stages, Before, Calls, After
<1>3. CASE removal = "ok" /\ Conclude /\ ~host.interrupted
  <2>1. CASE Leave("unavailable")
    BY <1>1, <1>3, <2>1, ThreadStep DEF Leave, Stages, Before, Calls, After
  <2>2. CASE ~host.failed /\ UNCHANGED outcome
    <3>1. PICK pc \in {"persist", "report"} : HostGoes(pc)
      BY <1>1, <1>3, <2>2 DEF Conclude
    <3> QED
      BY <1>1, <1>3, <2>2, <3>1, ThreadStep DEF Stages, Before, Calls, After
  <2> QED
    BY <1>3, <2>1, <2>2 DEF Conclude
<1> QED
  BY <1>2, <1>3 DEF cleanup_container, Conclude

\* The artifact is stored and the evidence returned.
LEMMA ResultSteps ==
    ASSUME RunnerInv, persist_artifacts \/ Report
    PROVE  RunnerInv'
<1>0. RunnerTypeOK /\ HostInv /\ DockerInv
  BY DEF RunnerInv
<1>1. /\ host.pc \in {"persist", "report"} /\ outcome = "none" /\ removal = "ok"
      /\ ~host.interrupted /\ ~host.failed /\ cli = "none"
      /\ UNCHANGED <<allowlisted, elapsed, cli, reply, removal, daemon, container, age, command, listing>>
  BY <1>0 DEF persist_artifacts, Report, HostAt, HostInv, DockerInv, After, dockerVars
<1>2. CASE artifact' = listing /\ HostGoes("report") /\ UNCHANGED outcome
  BY <1>1, <1>2, ThreadStep DEF Stages, Before, Calls, After
<1>3. CASE UNCHANGED artifact /\ (Leave("unavailable") \/ Leave("evidence"))
  BY <1>1, <1>3, ThreadStep DEF Leave, Stages, Before, Calls, After
<1> QED
  BY <1>2, <1>3 DEF persist_artifacts, Report

\* The thread or its process ends before its time.
LEMMA AbortSteps ==
    ASSUME RunnerInv, Die \/ (Interrupt /\ host.pc \notin Calls)
    PROVE  RunnerInv'
<1>0. HostInv
  BY DEF RunnerInv
<1>1. /\ host.pc # "returned" /\ HostGoes("returned") /\ outcome' \in {"interrupted", "dead"}
      /\ UNCHANGED <<allowlisted, elapsed, cli, reply, removal, daemon, container, age, command,
                     listing, artifact>>
  BY DEF Die, Interrupt, Leave, HostAt, dockerVars, Calls
<1> QED
  BY <1>0, <1>1, ThreadStep DEF Stages, Before, Calls, After

\* Time passes while the host waits for docker, or after it has returned.
LEMMA TickStep ==
    ASSUME RunnerInv, Tick
    PROVE  RunnerInv'
<1>0. RunnerTypeOK /\ Fresh /\ HostInv /\ DockerInv /\ StoppedInv /\ AgeInv /\ ListingInv
  BY DEF RunnerInv
<1>1. /\ UNCHANGED <<allowlisted, host, cli, reply, removal, daemon, container, command,
                     listing, artifact, outcome>>
      /\ elapsed \in Nat /\ age \in Nat
      /\ host.pc \in Waiting \cup {"returned"}
  BY <1>0 DEF Tick, resultVars, RunnerTypeOK, HostAt
<1>2. /\ elapsed' \in {elapsed, elapsed + 1} /\ age' \in {age, age + 1}
      /\ host.pc \in Calls => elapsed' = elapsed + 1 /\ elapsed < TimeoutOf(host.pc)
  BY DEF Tick, Calls, Waiting
<1>3. RunnerTypeOK'
  BY <1>0, <1>1, <1>2 DEF RunnerTypeOK
<1>4. Fresh' /\ HostInv' /\ DockerInv' /\ ListingInv'
  BY <1>0, <1>1 DEF Fresh, HostInv, DockerInv, ListingInv, Requested, Before, Waiting
<1>5. StoppedInv'
  BY <1>0, <1>1 DEF StoppedInv, Verdict, Quiet, Requested
<1>6. AgeInv'
  <2>1. TimeoutOf(host.pc) \in Nat /\ AgeAt(host.pc) \in Nat
    BY RunnerConstants DEF TimeoutOf, AgeAt
  <2>2. UNCHANGED host
    BY <1>1
  <2> QED
    BY <1>0, <1>1, <1>2, <2>1, <2>2 DEF AgeInv
<1> QED
  BY <1>3, <1>4, <1>5, <1>6 DEF RunnerInv

-----------------------------------------------------------------------------
(* Theorems *)

\* Every step of the thread, the CLI, the daemon and the command keeps what
\* execute() relies on.
THEOREM RunnerInvariant == RunnerSpec => []RunnerInv
<1>1. RunnerInit => RunnerInv
  <2> SUFFICES ASSUME RunnerInit PROVE RunnerInv
    OBVIOUS
  <2>1. /\ host \in Hosts /\ host.pc = "environment"
        /\ ~host.timed_out /\ ~host.failed /\ ~host.interrupted
    BY DEF RunnerInit, Hosts, Stages
  <2>2. RunnerTypeOK
    BY <2>1, NoFilesType DEF RunnerInit, RunnerTypeOK, Hosts, Stages
  <2>3. Fresh /\ HostInv /\ AgeInv /\ ListingInv
    BY <2>1 DEF RunnerInit, Fresh, HostInv, AgeInv, ListingInv, Requested, Calls
  <2>4. DockerInv /\ StoppedInv
    BY <2>1, NoFilesType DEF RunnerInit, DockerInv, StoppedInv, Verdict, Requested, After
  <2> QED
    BY <2>2, <2>3, <2>4 DEF RunnerInv
<1>2. RunnerInv /\ [RunnerNext]_runnerVars => RunnerInv'
  <2> SUFFICES ASSUME RunnerInv, [RunnerNext]_runnerVars PROVE RunnerInv'
    OBVIOUS
  <2>1. CASE execute
    BY <2>1, StagingSteps, LaunchSteps, CollectStep, CutShortSteps, RemovalSent, RemovalSeen,
       ResultSteps DEF execute
  <2>2. CASE Interrupt \/ Die
    BY <2>2, CutShortSteps, AbortSteps
  <2>3. CASE Outside
    BY <2>3, CreateStep, StartStep, ExecStep, CommandEndsStep, ExportStep, RemoveStep,
       DisconnectExpireStep DEF Outside
  <2>4. CASE UNCHANGED runnerVars
    BY <2>4 DEF runnerVars, RunnerInv, RunnerTypeOK, Fresh, HostInv, DockerInv, StoppedInv, Verdict,
       Quiet, AgeInv, ListingInv, Requested
  <2> QED
    BY <2>1, <2>2, <2>3, <2>4, TickStep DEF RunnerNext
<1> QED
  BY <1>1, <1>2, PTL DEF RunnerSpec

\* A stopped container cannot run.
LEMMA QuietIsStopped == ASSUME Quiet PROVE ~MayRun
BY DEF Quiet, MayRun

\* When execute() returns evidence or reports the sandbox unavailable, nothing of
\* the container runs or can start later, however its docker calls ended.
THEOREM ReturnsStopped == RunnerSpec => []ReturnedMeansStopped
<1>1. RunnerInv => ReturnedMeansStopped
  BY QuietIsStopped DEF RunnerInv, StoppedInv, Verdict, ReturnedMeansStopped
<1> QED
  BY <1>1, RunnerInvariant, PTL

\* The keep-alive of a detached container outlasts the launch, the command and
\* the collection, whatever the timeout of the profile.
THEOREM KeepAliveSuffices == RunnerSpec => []KeepAliveOutlastsCollection
<1>1. RunnerInv => KeepAliveOutlastsCollection
  <2> SUFFICES ASSUME RunnerInv, host.pc \in Calls PROVE age < KeepAlive
    BY DEF KeepAliveOutlastsCollection, Calls
  <2>1. /\ age \in Nat /\ elapsed \in Nat /\ Timeout \in Nat \ {0}
        /\ age <= elapsed + AgeAt(host.pc) /\ elapsed <= TimeoutOf(host.pc)
    BY RunnerConstants DEF RunnerInv, RunnerTypeOK, AgeInv
  <2> QED
    BY <2>1 DEF Calls, AgeAt, TimeoutOf, KeepAlive
<1> QED
  BY <1>1, RunnerInvariant, PTL

\* What reaches quarantine is within every limit and comes from a stopped
\* container, whatever the untrusted command made the exporter report.
THEOREM QuarantineBounded == RunnerSpec => []QuarantineIsBounded
<1>1. RunnerInv => QuarantineIsBounded
  <2> SUFFICES ASSUME RunnerInv, artifact # NoFiles
               PROVE  /\ collect(artifact) /\ artifact = listing
                      /\ \A i, j \in DOMAIN artifact : artifact[i].path = artifact[j].path => i = j
                      /\ ~MayRun /\ ~host.timed_out /\ ~host.failed
    BY DEF QuarantineIsBounded
  <2>1. ~MayRun
    BY QuietIsStopped DEF RunnerInv, StoppedInv, Verdict
  <2>2. artifact = listing /\ Acceptable(artifact) /\ ~host.timed_out /\ ~host.failed
    BY DEF RunnerInv, ListingInv
  <2> QED
    BY <2>1, <2>2, Zenon DEF Acceptable, collect
<1> QED
  BY <1>1, RunnerInvariant, PTL
=============================================================================

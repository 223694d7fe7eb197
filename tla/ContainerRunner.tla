--------------------------- MODULE ContainerRunner ---------------------------
(***************************************************************************)
(* ContainerRunner.execute (src/traceguard/sandbox/runner.py): one command  *)
(* in one container of its own, from the environment check to the evidence. *)
(*                                                                         *)
(* Three parties interleave: the host thread, the docker CLI process it     *)
(* waits for, and the daemon, which works off the requests it received also *)
(* after the CLI that sent them was killed.  The command is untrusted: it   *)
(* may run for ever, leave children behind, and forge what the exporter     *)
(* reports.  The daemon and the container are external.                     *)
(*                                                                         *)
(* One unit of time is ten seconds, the timeout of every docker call but    *)
(* the command's own.  The resource monitor only reads and is left out.     *)
(***************************************************************************)
EXTENDS Naturals, Sequences, SequencesExt

CONSTANTS
    Timeout,        \* limits.timeout_seconds of the profile
    Paths,          \* names of artifacts
    TooDeep,        \* those below artifact_limits.max_depth
    MaxFiles, MaxFileBytes, MaxTotalBytes

ASSUME RunnerConstants ==
    /\ Timeout \in Nat \ {0}
    /\ TooDeep \subseteq Paths
    /\ MaxFiles \in Nat \ {0} /\ MaxFileBytes \in Nat \ {0} /\ MaxTotalBytes \in Nat \ {0}

VARIABLES
    allowlisted,  \* output_mode of the profile
    host,         \* the thread in execute()
    elapsed,      \* time the host has waited for the current docker call
    cli,          \* what the docker CLI of launch, command or export waits for
    reply,        \* how it ended, until the host takes notice
    removal,      \* docker rm --force, a CLI of its own
    daemon,       \* requests the daemon has received and not processed
    container,    \* absent, created, running, gone
    age,          \* how long the detached container has been running
    command,      \* whether the untrusted command was started
    listing,      \* the exported files, once the host has validated them
    artifact,     \* the bundle put in quarantine
    outcome

runnerVars == <<allowlisted, host, elapsed, cli, reply, removal, daemon, container, age, command,
                listing, artifact, outcome>>
insideVars == <<container, age, command>>
dockerVars == <<cli, reply, removal, daemon, container, age, command>>
resultVars == <<listing, artifact, outcome>>

NoFiles == << >>
File == [path: Paths, size: 1..(MaxFileBytes + 1)]
Listings == SeqOf(File, MaxFiles + 1)
NoReply == [status |-> "none", files |-> NoFiles]
Reply == [status: {"none", "ok", "failed"}, files: Seq(File)]

Waiting == {"launch", "command", "collect", "removing"}

RunnerTypeOK ==
    /\ allowlisted \in BOOLEAN
    /\ host \in [pc: Waiting \cup {"environment", "stage", "cleanup", "persist", "report", "returned"},
                 timed_out: BOOLEAN, failed: BOOLEAN, interrupted: BOOLEAN]
    /\ elapsed \in Nat /\ age \in Nat
    /\ cli \in {"none", "create", "start", "exec", "exit", "export"}
    /\ reply \in Reply /\ removal \in {"none", "ok", "failed"}
    /\ daemon \subseteq {"create", "start", "exec", "export", "remove"}
    /\ container \in {"absent", "created", "running", "gone"}
    /\ command \in {"unstarted", "running", "children", "ended"}
    /\ listing \in Seq(File) /\ artifact \in Seq(File)
    /\ outcome \in {"none", "evidence", "unavailable", "unverified", "interrupted", "dead"}

-----------------------------------------------------------------------------
(* Limits *)

\* Mutant of KeepAlive: the container lives as long as the command may run.
MutKeepAlive == Timeout

\* The sleep that keeps a detached container and its tmpfs alive.
KeepAlive == Timeout + 3

\* Mutant of SleepOver: the container is kept alive until it is removed.
MutSleepOver == FALSE

SleepOver == age = KeepAlive

TimeoutOf(pc) == IF pc = "command" THEN Timeout ELSE 1

Total(files) == FoldSeq(LAMBDA f, sum : f.size + sum, 0, files)

\* What the exporter inside the container lets through.
collect(files) ==
    /\ Len(files) <= MaxFiles
    /\ Total(files) <= MaxTotalBytes
    /\ \A i \in DOMAIN files : files[i].size <= MaxFileBytes /\ files[i].path \notin TooDeep

\* Mutant of Acceptable: the host leaves the depth to the exporter.
MutAcceptable(files) ==
    /\ Len(files) <= MaxFiles
    /\ Total(files) <= MaxTotalBytes
    /\ \A i \in DOMAIN files : files[i].size <= MaxFileBytes
    /\ \A i, j \in DOMAIN files : files[i].path = files[j].path => i = j

\* What the host takes over of it.
Acceptable(files) ==
    /\ Len(files) <= MaxFiles
    /\ Total(files) <= MaxTotalBytes
    /\ \A i \in DOMAIN files : files[i].size <= MaxFileBytes /\ files[i].path \notin TooDeep
    /\ \A i, j \in DOMAIN files : files[i].path = files[j].path => i = j

\* What it looks at again in the staging directory.
Inspected(files) ==
    /\ Len(files) <= MaxFiles
    /\ Total(files) <= MaxTotalBytes
    /\ \A i \in DOMAIN files : files[i].size <= MaxFileBytes

-----------------------------------------------------------------------------
(* The host thread *)

HostAt(pc) == host.pc = pc
HostGoes(pc) == host' = [host EXCEPT !.pc = pc]
Fail == host' = [host EXCEPT !.pc = "cleanup", !.failed = TRUE]
Leave(result) == HostGoes("returned") /\ outcome' = result

\* A docker CLI is started and sends its first request.
Docker(pc, request) ==
    /\ HostGoes(pc)
    /\ elapsed' = 0
    /\ cli' = request /\ reply' = NoReply
    /\ daemon' = daemon \cup {request}

\* Plan, profile, daemon and image are checked, then inputs are copied: whatever
\* is refused there, nothing was launched.
CheckEnvironment ==
    /\ HostAt("environment")
    /\ \/ HostGoes("stage") /\ UNCHANGED outcome
       \/ Leave("unavailable")
    /\ UNCHANGED <<allowlisted, elapsed, dockerVars, listing, artifact>>

StageInputs ==
    /\ HostAt("stage")
    /\ \/ /\ Docker(IF allowlisted THEN "launch" ELSE "command", "create")
          /\ UNCHANGED outcome
       \/ Leave("unavailable") /\ UNCHANGED <<elapsed, cli, reply, daemon>>
    /\ UNCHANGED <<allowlisted, removal, insideVars, listing, artifact>>

Launched ==
    /\ HostAt("launch")
    /\ \/ reply.status = "ok" /\ Docker("command", "exec")
       \/ reply.status = "failed" /\ Fail /\ UNCHANGED <<elapsed, cli, reply, daemon>>
    /\ UNCHANGED <<allowlisted, removal, insideVars, resultVars>>

\* Any exit code is a result, docker's own included.
CommandReturned ==
    /\ HostAt("command") /\ reply.status # "none"
    /\ IF allowlisted
       THEN Docker("collect", "export")
       ELSE HostGoes("cleanup") /\ UNCHANGED <<elapsed, cli, reply, daemon>>
    /\ UNCHANGED <<allowlisted, removal, insideVars, resultVars>>

collect_output ==
    /\ HostAt("collect") /\ reply.status # "none"
    /\ IF reply.status = "ok" /\ Acceptable(reply.files)
       THEN HostGoes("cleanup") /\ listing' = reply.files
       ELSE Fail /\ UNCHANGED listing
    /\ reply' = NoReply
    /\ UNCHANGED <<allowlisted, elapsed, cli, removal, daemon, insideVars, artifact, outcome>>

\* The CLI is killed; what it asked for is still at the daemon.  One that has
\* answered and closed its pipes in time may be late all the same: its last
\* output is not read after the deadline, nor is it waited for.
TimedOut ==
    /\ host.pc \in {"launch", "command", "collect"}
    /\ elapsed = TimeoutOf(host.pc)
    /\ host' = [host EXCEPT !.pc = "cleanup", !.timed_out = TRUE]
    /\ cli' = "none"
    /\ UNCHANGED <<allowlisted, elapsed, reply, removal, daemon, insideVars, resultVars>>

\* An exception in the thread (KeyboardInterrupt): the CLI is not killed.  Inside
\* the try block cleanup still runs, afterwards it is cut short.
Interrupt ==
    /\ \/ /\ host.pc \in {"launch", "command", "collect"}
          /\ host' = [host EXCEPT !.pc = "cleanup", !.interrupted = TRUE]
          /\ UNCHANGED outcome
       \/ host.pc \notin {"launch", "command", "collect", "returned"} /\ Leave("interrupted")
    /\ UNCHANGED <<allowlisted, elapsed, dockerVars, listing, artifact>>

Cleanup ==
    /\ HostAt("cleanup")
    /\ HostGoes("removing")
    /\ elapsed' = 0
    /\ daemon' = daemon \cup {"remove"}
    /\ UNCHANGED <<allowlisted, cli, reply, removal, insideVars, resultVars>>

\* How execute() goes on once cleanup is verified.
Conclude ==
    IF host.interrupted THEN Leave("interrupted")
    ELSE IF host.failed THEN Leave("unavailable")
    ELSE HostGoes(IF allowlisted THEN "persist" ELSE "report") /\ UNCHANGED outcome

\* Mutant of cleanup_container: a removal that timed out is taken for done.
MutCleanup ==
    /\ HostAt("removing")
    /\ \/ removal = "ok" /\ Conclude
       \/ removal = "failed" /\ Leave("unverified")
       \/ removal = "none" /\ elapsed = TimeoutOf("removing") /\ Conclude
    /\ UNCHANGED <<allowlisted, elapsed, dockerVars, listing, artifact>>

\* Whatever keeps the removal from being verified, an error of the host's own
\* included, is reported as such and hides every other outcome.
cleanup_container ==
    /\ HostAt("removing")
    /\ \/ removal = "ok" /\ Conclude
       \/ removal = "failed" /\ Leave("unverified")
       \/ removal = "none" /\ elapsed = TimeoutOf("removing") /\ Leave("unverified")
    /\ UNCHANGED <<allowlisted, elapsed, dockerVars, listing, artifact>>

\* After a timeout the staging directory is empty and there is no artifact.
persist_artifacts ==
    /\ HostAt("persist")
    /\ \/ Inspected(listing) /\ artifact' = listing /\ HostGoes("report") /\ UNCHANGED outcome
       \/ Leave("unavailable") /\ UNCHANGED artifact
    /\ UNCHANGED <<allowlisted, elapsed, dockerVars, listing>>

Report ==
    /\ HostAt("report")
    /\ Leave("evidence")
    /\ UNCHANGED <<allowlisted, elapsed, dockerVars, listing, artifact>>

\* The process dies: nobody removes the container.
Die ==
    /\ ~HostAt("returned")
    /\ Leave("dead")
    /\ UNCHANGED <<allowlisted, elapsed, dockerVars, listing, artifact>>

-----------------------------------------------------------------------------
(* External: CLI, daemon, container *)

Requested(request) == request \in daemon
Done(request) == daemon' = daemon \ {request}

\* The CLI that sent the request ends; one that was killed does not care.
Respond(waiting, status, files) ==
    IF cli = waiting
    THEN cli' = "none" /\ reply' = [status |-> status, files |-> files]
    ELSE UNCHANGED <<cli, reply>>

\* docker run goes on from create to start while its CLI lives.
Create ==
    /\ Requested("create")
    /\ \/ /\ container' = "created"
          /\ IF cli = "create"
             THEN cli' = "start" /\ daemon' = (daemon \ {"create"}) \cup {"start"}
             ELSE Done("create") /\ UNCHANGED cli
          /\ UNCHANGED reply
       \/ Done("create") /\ Respond("create", "failed", NoFiles) /\ UNCHANGED container
    /\ UNCHANGED <<allowlisted, host, elapsed, removal, age, command, resultVars>>

Start ==
    /\ Requested("start") /\ Done("start")
    /\ \/ /\ container = "created"
          /\ container' = "running"
          /\ IF allowlisted
             THEN Respond("start", "ok", NoFiles) /\ UNCHANGED command
             ELSE /\ command' = "running"
                  /\ cli' = IF cli = "start" THEN "exit" ELSE cli
                  /\ UNCHANGED reply
       \/ Respond("start", "failed", NoFiles) /\ UNCHANGED <<container, command>>
    /\ UNCHANGED <<allowlisted, host, elapsed, removal, age, resultVars>>

Exec ==
    /\ Requested("exec") /\ Done("exec")
    /\ \/ /\ container = "running"
          /\ command' = "running"
          /\ cli' = IF cli = "exec" THEN "exit" ELSE cli
          /\ UNCHANGED reply
       \/ Respond("exec", "failed", NoFiles) /\ UNCHANGED command
    /\ UNCHANGED <<allowlisted, host, elapsed, removal, container, age, resultVars>>

\* In a detached container the command may leave children behind; otherwise the
\* container ends, and --rm removes it, with the command.
CommandEnds ==
    /\ command = "running"
    /\ IF allowlisted
       THEN command' \in {"children", "ended"} /\ UNCHANGED container
       ELSE command' = "ended" /\ container' = "gone"
    /\ Respond("exit", "ok", NoFiles)
    /\ UNCHANGED <<allowlisted, host, elapsed, removal, daemon, age, resultVars>>

\* The exporter reports what it found, or what processes of the command make it
\* report, or fails.
Export ==
    /\ Requested("export") /\ Done("export")
    /\ \/ /\ container = "running"
          /\ \E files \in Listings :
                /\ \/ collect(files) /\ (command = "unstarted" => files = NoFiles)
                   \/ command \in {"running", "children"}
                /\ Respond("export", "ok", files)
       \/ Respond("export", "failed", NoFiles)
    /\ UNCHANGED <<allowlisted, host, elapsed, removal, insideVars, resultVars>>

\* Everything in the container ends with it.
Kill ==
    /\ container' = IF container = "absent" THEN "absent" ELSE "gone"
    /\ command' = IF command = "unstarted" THEN command ELSE "ended"

\* "No such container" is as good as removed.
RemoveForced ==
    /\ Requested("remove") /\ Done("remove")
    /\ \/ Kill /\ removal' = "ok" /\ Respond("exit", "failed", NoFiles)
       \/ removal' = "failed" /\ UNCHANGED <<container, command, cli, reply>>
    /\ UNCHANGED <<allowlisted, host, elapsed, age, resultVars>>

\* The CLI loses its connection; the daemon carries on.
Disconnect ==
    /\ cli # "none"
    /\ Respond(cli, "failed", NoFiles)
    /\ UNCHANGED <<allowlisted, host, elapsed, removal, daemon, insideVars, resultVars>>

\* The keep-alive process of a detached container ends.
Expire ==
    /\ allowlisted /\ container = "running" /\ SleepOver
    /\ Kill
    /\ Respond("exit", "failed", NoFiles)
    /\ UNCHANGED <<allowlisted, host, elapsed, removal, daemon, age, resultVars>>

\* Ten seconds.  The host acts on a reply or a timeout well within the ten
\* seconds that KeepAlive leaves it.
Tick ==
    LET ageing == allowlisted /\ container = "running" /\ age < KeepAlive
        waits == host.pc \in Waiting
    IN /\ waits \/ HostAt("returned")
       /\ waits => /\ elapsed < TimeoutOf(host.pc)
                   /\ IF HostAt("removing") THEN removal = "none" ELSE reply.status = "none"
       /\ waits \/ ageing
       /\ elapsed' = IF waits THEN elapsed + 1 ELSE elapsed
       /\ age' = IF ageing THEN age + 1 ELSE age
       /\ UNCHANGED <<allowlisted, host, cli, reply, removal, daemon, container, command, resultVars>>

-----------------------------------------------------------------------------
RunnerInit ==
    /\ allowlisted \in BOOLEAN
    /\ host = [pc |-> "environment", timed_out |-> FALSE, failed |-> FALSE, interrupted |-> FALSE]
    /\ elapsed = 0 /\ age = 0
    /\ cli = "none" /\ reply = NoReply /\ removal = "none" /\ daemon = {}
    /\ container = "absent" /\ command = "unstarted"
    /\ listing = NoFiles /\ artifact = NoFiles /\ outcome = "none"

execute ==
    \/ CheckEnvironment \/ StageInputs \/ Launched \/ CommandReturned \/ collect_output
    \/ TimedOut \/ Cleanup \/ cleanup_container \/ persist_artifacts \/ Report

Outside == Create \/ Start \/ Exec \/ CommandEnds \/ Export \/ RemoveForced \/ Disconnect \/ Expire

RunnerNext == execute \/ Interrupt \/ Die \/ Outside \/ Tick

\* The thread runs, time passes, and a container's own process ends when its sleep
\* is over.  Nothing is assumed of the command, the daemon or cleanup.
RunnerSpec ==
    /\ RunnerInit /\ [][RunnerNext]_runnerVars
    /\ WF_runnerVars(execute) /\ WF_runnerVars(Tick) /\ WF_runnerVars(Expire)

-----------------------------------------------------------------------------
(* Properties *)

\* A process of the container runs, or may still be started.
MayRun ==
    \/ container = "running"
    \/ Requested("start") /\ container = "created"
    \/ Requested("create") /\ cli = "create"

\* "The host always removes the container and all remaining children": whether
\* the command ended, timed out at any stage or failed to launch, when execute()
\* returns evidence or reports the sandbox unavailable nothing of the container
\* runs or can start later.
ReturnedMeansStopped == outcome \in {"evidence", "unavailable"} => ~MayRun

\* "Both exporter and host enforce budgets; collection failure withholds
\* artifacts": whatever the untrusted command makes the exporter report, what
\* reaches quarantine is a whole export within every limit, of a container that
\* has been stopped, of a call that neither failed nor timed out.
QuarantineIsBounded ==
    artifact # NoFiles =>
        /\ collect(artifact) /\ artifact = listing
        /\ \A i, j \in DOMAIN artifact : artifact[i].path = artifact[j].path => i = j
        /\ ~MayRun /\ ~host.timed_out /\ ~host.failed

\* The keep-alive of a detached container never runs out while the command or
\* the export still has time of its own left.
KeepAliveOutlastsCollection ==
    allowlisted /\ container = "running" /\ host.pc \in {"launch", "command", "collect"}
    => age < KeepAlive

\* "A detached bounded-lifetime container": it ends by itself, also when the host
\* process died, was interrupted or could not verify the cleanup, and whatever
\* the command does.
DetachedContainerEnds == allowlisted /\ container = "running" ~> container # "running"
=============================================================================

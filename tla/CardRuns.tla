------------------------------ MODULE CardRuns ------------------------------
(***************************************************************************)
(* The life of a card's container, from POST /trigger to its removal:      *)
(*   - the trigger, kill and stop-all webhooks (internal/webhook),         *)
(*   - Manager.Run's goroutine, its idle watchdog, its asynchronous        *)
(*     "running" callback and its panic recovery (internal/container),     *)
(*   - the maintenance sweep of orphans and the graceful shutdown (cmd),   *)
(*   - the runner crashing and booting again,                              *)
(* around the shared registry (Tracker) and dockerd.                       *)
(*                                                                         *)
(* A run is one accepted trigger.  Its goroutine is pc[r]; box[r] is its   *)
(* container, which survives the runner.  dockerd and ContextMatrix are    *)
(* external: a Docker call may fail (MaxFaults of them do); whether a      *)
(* status callback arrives is nothing the runner acts upon.                *)
(***************************************************************************)
EXTENDS Tracker, Sequences

CONSTANTS
    Handlers,      \* concurrent /kill and /stop-all requests
    IdleWatchdog,  \* idle_output_timeout > 0
    MaxFaults,     \* bound: Docker calls that fail
    MaxPanics,     \* bound: panics inside Run's goroutine
    MaxCrashes     \* bound: times the process stops, by shutdown or crash

ASSUME CardRunsAssumption ==
    /\ IdleWatchdog \in BOOLEAN
    /\ MaxFaults \in Nat /\ MaxPanics \in Nat /\ MaxCrashes \in Nat

VARIABLES
    pc,       \* where the goroutine of a run is
    card,     \* the card a run works on
    idOut,    \* Run's local containerID is set (*containerIDOut)
    verdict,  \* what waitAndCleanup decided
    box,      \* Docker's view of the run's container
    wd,       \* the idle watchdog goroutine
    cb,       \* the asynchronous running-status callback
    told,     \* statuses reported to ContextMatrix for the run, in order
    handlers, \* /kill and /stop-all requests in flight
    sweep,    \* CleanupOrphans in flight
    proc,     \* the process and its shutdown sequence
    targets,  \* snapshot the current shutdown step loops over
    faults, faulted, \* Docker calls that failed, and on whose container
    panics, crashes

cardVars  == <<pc, card, idOut, verdict>>
boxVars   == <<box, faults, faulted>>
sideVars  == <<wd, cb>>
procVars  == <<proc, targets, crashes>>
vars == <<trackerVars, cardVars, boxVars, sideVars, told, handlers, sweep, procVars, panics>>

Runs     == Owners
Cards    == Keys

\* From AddIfUnderLimit to tracker.Remove the goroutine answers for an entry.
Starting == {"start", "created", "started", "publish"}
Waiting  == {"wait", "stop", "report", "untrack"}
Failing  == {"sfreport", "sfuntrack"}
Owning   == Starting \cup Waiting \cup Failing \cup {"unwind"}
Recover  == {"recover", "recuntrack"}
Ended    == {"remove", "done", "dead"}
PCs      == {"idle", "admit", "unwindrm", "recreport"}
                \cup Owning \cup Recover \cup Ended

Verdicts == {"none", "completed", "failed", "timeout", "waiterror", "killed", "idle"}
Boxes    == {"none", "created", "running", "exited", "gone"}
Exists   == {"created", "running", "exited"}     \* docker ps -a shows it
Statuses == {"running", "completed", "failed"}
Terminal == {"completed", "failed"}

HandlerIdle == [pc |-> "idle", keys |-> {}, boxes |-> {}, code |-> "none"]
HandlerState ==
    [pc : {"idle", "kill", "list", "rm", "loop", "reply"}, keys : SUBSET Keys,
     boxes : SUBSET Owners, code : {"none", "ok", "error"}]
SweepIdle  == [pc |-> "idle", seen |-> {}, orphans |-> {}]
SweepState == [pc : {"idle", "filter", "remove"}, seen : SUBSET Owners,
               orphans : SUBSET Owners]
Procs == {"up", "draining", "killing", "waiting", "forcing", "down", "boot"}

TypeOK ==
    /\ TrackerTypeOK
    /\ pc \in [Runs -> PCs]
    /\ card \in [Runs -> Cards \cup {None}]
    /\ idOut \in [Runs -> BOOLEAN]
    /\ verdict \in [Runs -> Verdicts]
    /\ box \in [Runs -> Boxes]
    /\ wd \in [Runs -> {"off", "armed", "firing"}]
    /\ cb \in [Runs -> {"off", "pending"}]
    /\ told \in [Runs -> Seq(Statuses)]
    /\ handlers \in [Handlers -> HandlerState]
    /\ sweep \in SweepState
    /\ proc \in Procs
    /\ targets \in SUBSET Owners
    /\ faults \in Nat /\ faulted \in SUBSET Owners
    /\ panics \in Nat /\ crashes \in Nat

Init ==
    /\ TrackerInit
    /\ pc = [r \in Runs |-> "idle"]
    /\ card = [r \in Runs |-> None]
    /\ idOut = [r \in Runs |-> FALSE]
    /\ verdict = [r \in Runs |-> "none"]
    /\ box = [r \in Runs |-> "none"]
    /\ wd = [r \in Runs |-> "off"]
    /\ cb = [r \in Runs |-> "off"]
    /\ told = [r \in Runs |-> <<>>]
    /\ handlers = [h \in Handlers |-> HandlerIdle]
    /\ sweep = SweepIdle
    /\ proc = "up"
    /\ targets = {}
    /\ faults = 0 /\ faulted = {}
    /\ panics = 0 /\ crashes = 0
------------------------------------------------------------------------------
(* dockerd and ContextMatrix, as the runner's calls see them.              *)

DockerOK == UNCHANGED <<faults, faulted>>
DockerFault(r) ==
    /\ faults < MaxFaults
    /\ faults' = faults + 1
    /\ faulted' = faulted \cup {r}

\* ContainerStop: SIGTERM, then SIGKILL after the grace period.
Stop(r) ==
    \/ /\ box' = [box EXCEPT ![r] = IF @ = "running" THEN "exited" ELSE @]
       /\ DockerOK
    \/ UNCHANGED box /\ DockerFault(r)

\* ContainerRemove with Force.
ForceRemove(r) ==
    \/ box' = [box EXCEPT ![r] = "gone"] /\ DockerOK
    \/ UNCHANGED box /\ DockerFault(r)

\* A container name is derived from the card, so Docker admits one at a time.
NameTaken(c) == \E r \in Runs : card[r] = c /\ box[r] \in Exists

\* ReportStatus; a delivery that fails after its retries is only logged.
Report(r, status) == told' = [told EXCEPT ![r] = Append(@, status)]

Goto(r, l) == pc' = [pc EXCEPT ![r] = l]
------------------------------------------------------------------------------
(* POST /trigger.  The drain flag is read first; the slot is taken later.  *)

TriggerCheck(r, c) ==
    /\ proc = "up"
    /\ pc[r] = "idle"
    /\ Goto(r, "admit")
    /\ card' = [card EXCEPT ![r] = c]
    /\ UNCHANGED <<trackerVars, idOut, verdict, boxVars, sideVars, told, handlers, sweep, procVars, panics>>

\* The slot is taken and manager.Run starts the goroutine.
TriggerAccept(r) ==
    /\ pc[r] = "admit"
    /\ AddIfUnderLimit(card[r], r)
    /\ Goto(r, "start")
    /\ UNCHANGED <<card, idOut, verdict, boxVars, sideVars, told, handlers, sweep, procVars, panics>>

\* 429 or 409: nothing was started, the request id is free again.
TriggerReject(r) ==
    /\ pc[r] = "admit"
    /\ AddRefused(card[r])
    /\ Goto(r, "idle")
    /\ card' = [card EXCEPT ![r] = None]
    /\ UNCHANGED <<trackerVars, idOut, verdict, boxVars, sideVars, told, handlers, sweep, procVars, panics>>
------------------------------------------------------------------------------
(* startContainer.                                                         *)

RunUnchanged == UNCHANGED <<trackerVars, card, handlers, sweep, procVars, panics>>

\* Image allowlist, pull, token, mounts, secrets, a cancelled ctx, or a
\* failing ContainerCreate (the name conflict included).
StartFails(r) ==
    /\ pc[r] = "start"
    /\ Goto(r, "sfreport")
    /\ UNCHANGED <<idOut, verdict, boxVars, sideVars, told>> /\ RunUnchanged

ContainerCreate(r) ==
    /\ pc[r] = "start"
    /\ ~NameTaken(card[r])
    /\ box' = [box EXCEPT ![r] = "created"]
    /\ DockerOK
    /\ Goto(r, "created")
    /\ UNCHANGED <<idOut, verdict, sideVars, told>> /\ RunUnchanged

ContainerStart(r) ==
    /\ pc[r] = "created"
    /\ box[r] = "created"
    /\ box' = [box EXCEPT ![r] = "running"]
    /\ DockerOK
    /\ Goto(r, "started")
    /\ UNCHANGED <<idOut, verdict, sideVars, told>> /\ RunUnchanged

\* Mutant: the half-started container is not cleaned up.
StartOrAttachFailsLeak(r) ==
    /\ pc[r] \in {"created", "started"}
    /\ Goto(r, "sfreport")
    /\ UNCHANGED <<idOut, verdict, boxVars, sideVars, told>> /\ RunUnchanged

\* ContainerStart or, for an interactive card, ContainerAttach fails: the
\* container is force-removed on a detached ctx.
StartOrAttachFails(r) ==
    /\ pc[r] \in {"created", "started"}
    /\ ForceRemove(r)
    /\ Goto(r, "sfreport")
    /\ UNCHANGED <<idOut, verdict, sideVars, told>> /\ RunUnchanged

\* startContainer returned; the id is captured for the panic recovery.
CaptureID(r) ==
    /\ pc[r] = "started"
    /\ idOut' = [idOut EXCEPT ![r] = TRUE]
    /\ Goto(r, "publish")
    /\ UNCHANGED <<verdict, boxVars, sideVars, told>> /\ RunUnchanged

\* UpdateContainerID, runningCallbackAsync, then waitAndCleanup's streamLogs
\* (which arms the watchdog unless attaching to the logs failed).
Publish(r) ==
    /\ pc[r] = "publish"
    /\ UpdateContainerID(card[r], r)
    /\ cb' = [cb EXCEPT ![r] = "pending"]
    /\ \/ IdleWatchdog /\ wd' = [wd EXCEPT ![r] = "armed"]
       \/ UNCHANGED wd
    /\ Goto(r, "wait")
    /\ UNCHANGED <<card, idOut, verdict, boxVars, told, handlers, sweep, procVars, panics>>

ReportStartFailure(r) ==
    /\ pc[r] = "sfreport"
    /\ Report(r, "failed")
    /\ Goto(r, "sfuntrack")
    /\ UNCHANGED <<idOut, verdict, boxVars, sideVars>> /\ RunUnchanged

\* Mutant: the failure path forgets tracker.Remove.
UntrackStartFailureMissing(r) ==
    /\ pc[r] = "sfuntrack"
    /\ Goto(r, "done")
    /\ UNCHANGED <<idOut, verdict, boxVars, sideVars, told>> /\ RunUnchanged

UntrackStartFailure(r) ==
    /\ pc[r] = "sfuntrack"
    /\ Remove(card[r], r)
    /\ Goto(r, "done")
    /\ UNCHANGED <<card, idOut, verdict, boxVars, sideVars, told, handlers, sweep, procVars, panics>>
------------------------------------------------------------------------------
(* waitAndCleanup.                                                         *)

\* The container's own process ends.
ContainerExits(r) ==
    /\ box[r] = "running"
    /\ box' = [box EXCEPT ![r] = "exited"]
    /\ DockerOK
    /\ UNCHANGED <<trackerVars, cardVars, sideVars, told, handlers, sweep, procVars, panics>>

Decide(r, v, l) ==
    /\ pc[r] = "wait"
    /\ verdict' = [verdict EXCEPT ![r] = v]
    /\ Goto(r, l)
    /\ UNCHANGED <<idOut, box, sideVars, told>> /\ RunUnchanged

\* waitCh wins the select: exit status 0 or not.
WaitExit(r) ==
    /\ box[r] \in {"exited", "gone"}
    /\ \E v \in {"completed", "failed"} : Decide(r, v, "report")
    /\ DockerOK

\* errCh: the deadline passed while the run's ctx is alive.
WaitTimeout(r) ==
    /\ ~Done(r)
    /\ Decide(r, "timeout", "stop")
    /\ DockerOK

\* errCh: an SDK error while the run's ctx is alive.
WaitError(r) ==
    /\ ~Done(r)
    /\ Decide(r, "waiterror", "stop")
    /\ faults < MaxFaults
    /\ faults' = faults + 1
    /\ UNCHANGED faulted

\* ctx.Done(), or errCh with the ctx already cancelled: handleCanceled.
WaitCanceled(r) ==
    /\ Done(r)
    /\ Decide(r, IF Reason(card[r]) = "idle" THEN "idle" ELSE "killed", "stop")
    /\ DockerOK

\* Mutant: the stop inherits the run's ctx and is a no-op once cancelled.
StopBoxOnRunCtx(r) ==
    /\ pc[r] = "stop"
    /\ IF Done(r) THEN UNCHANGED boxVars ELSE Stop(r)
    /\ Goto(r, "report")
    /\ UNCHANGED <<idOut, verdict, sideVars, told>> /\ RunUnchanged

\* killContainer, best effort, and drainLogs.
StopBox(r) ==
    /\ pc[r] = "stop"
    /\ Stop(r)
    /\ Goto(r, "report")
    /\ UNCHANGED <<idOut, verdict, sideVars, told>> /\ RunUnchanged

ReportOutcome(r) ==
    /\ pc[r] = "report"
    /\ Report(r, IF verdict[r] = "completed" THEN "completed" ELSE "failed")
    /\ verdict' = [verdict EXCEPT ![r] = "none"]
    /\ Goto(r, "untrack")
    /\ UNCHANGED <<idOut, boxVars, sideVars>> /\ RunUnchanged

\* Deferred, in this order: tracker.Remove, then removeContainer.
Untrack(r) ==
    /\ pc[r] = "untrack"
    /\ Remove(card[r], r)
    /\ Goto(r, "remove")
    /\ UNCHANGED <<card, idOut, verdict, boxVars, sideVars, told, handlers, sweep, procVars, panics>>

\* Mutant: a second tracker.Remove once the container is gone.
RemoveBoxAndUntrack(r) ==
    /\ pc[r] = "remove"
    /\ ForceRemove(r)
    /\ Remove(card[r], r)
    /\ Goto(r, "done")
    /\ UNCHANGED <<card, idOut, verdict, sideVars, told, handlers, sweep, procVars, panics>>

RemoveBox(r) ==
    /\ pc[r] = "remove"
    /\ ForceRemove(r)
    /\ Goto(r, "done")
    /\ UNCHANGED <<idOut, verdict, sideVars, told>> /\ RunUnchanged

\* The detached "running" callback, at its own pace.
RunningCallback(r) ==
    /\ cb[r] = "pending"
    /\ cb' = [cb EXCEPT ![r] = "off"]
    /\ Report(r, "running")
    /\ UNCHANGED <<cardVars, wd, boxVars>> /\ RunUnchanged
------------------------------------------------------------------------------
(* Panics: Run's deferred recovery, after waitAndCleanup's own defers.     *)

Panic(r) ==
    /\ panics < MaxPanics
    /\ panics' = panics + 1
    /\ \/ pc[r] \in Starting \cup {"sfreport"} /\ Goto(r, "recover")
       \/ pc[r] \in {"wait", "stop", "report"} /\ Goto(r, "unwind")
    /\ UNCHANGED <<trackerVars, card, idOut, verdict, boxVars, sideVars, told, handlers, sweep, procVars>>

UnwindUntrack(r) ==
    /\ pc[r] = "unwind"
    /\ Remove(card[r], r)
    /\ Goto(r, "unwindrm")
    /\ UNCHANGED <<card, idOut, verdict, boxVars, sideVars, told, handlers, sweep, procVars, panics>>

UnwindRemove(r) ==
    /\ pc[r] = "unwindrm"
    /\ ForceRemove(r)
    /\ Goto(r, "recover")
    /\ UNCHANGED <<idOut, verdict, sideVars, told>> /\ RunUnchanged

\* Mutant: an unset id is not skipped.
RecoverRemoveAny(r) ==
    /\ pc[r] = "recover"
    /\ ForceRemove(IF idOut[r] THEN r ELSE entries[card[r]].cid)
    /\ Goto(r, "recuntrack")
    /\ UNCHANGED <<idOut, verdict, sideVars, told>> /\ RunUnchanged

\* The captured id, else the id the registry holds for the card.
RecoverRemove(r) ==
    LET id == IF idOut[r] THEN r ELSE entries[card[r]].cid
    IN  /\ pc[r] = "recover"
        /\ IF id = None THEN UNCHANGED boxVars ELSE ForceRemove(id)
        /\ Goto(r, "recuntrack")
        /\ UNCHANGED <<idOut, verdict, sideVars, told>> /\ RunUnchanged

RecoverUntrack(r) ==
    /\ pc[r] = "recuntrack"
    /\ Remove(card[r], r)
    /\ Goto(r, "recreport")
    /\ UNCHANGED <<card, idOut, verdict, boxVars, sideVars, told, handlers, sweep, procVars, panics>>

\* Mutant: the recovery frees the slot and tells nobody.
RecoverReportSilent(r) ==
    /\ pc[r] = "recreport"
    /\ Goto(r, "done")
    /\ UNCHANGED <<idOut, verdict, boxVars, sideVars, told>> /\ RunUnchanged

RecoverReport(r) ==
    /\ pc[r] = "recreport"
    /\ Report(r, "failed")
    /\ Goto(r, "done")
    /\ UNCHANGED <<idOut, verdict, boxVars, sideVars>> /\ RunUnchanged
------------------------------------------------------------------------------
(* The idle watchdog.  Its select may take a tick although ctx or done is  *)
(* ready too, and it acts on the registry in a later step.                 *)

WatchdogTick(r) ==
    /\ wd[r] = "armed"
    /\ wd' = [wd EXCEPT ![r] = "firing"]
    /\ UNCHANGED <<trackerVars, cardVars, boxVars, cb, told, handlers, sweep, procVars, panics>>

WatchdogExit(r) ==
    /\ wd[r] = "armed"
    /\ Done(r) \/ box[r] # "running"
    /\ wd' = [wd EXCEPT ![r] = "off"]
    /\ UNCHANGED <<trackerVars, cardVars, boxVars, cb, told, handlers, sweep, procVars, panics>>

WatchdogFire(r) ==
    /\ wd[r] = "firing"
    /\ wd' = [wd EXCEPT ![r] = "off"]
    /\ IF Has(card[r])
       THEN CancelWithReason(card[r], "idle", r) /\ UNCHANGED boxVars
       ELSE Stop(r) /\ UNCHANGED trackerVars
    /\ UNCHANGED <<cardVars, cb, told, handlers, sweep, procVars, panics>>
------------------------------------------------------------------------------
(* POST /kill and POST /stop-all.                                          *)

HandlerUnchanged == UNCHANGED <<cardVars, sideVars, told, sweep, procVars, panics>>

\* The listener accepts until shutdown closes it; /kill ignores the drain flag.
KillCheck(h, k) ==
    /\ proc \in {"up", "draining"}
    /\ handlers[h].pc = "idle"
    /\ handlers' = [handlers EXCEPT ![h] =
           [HandlerIdle EXCEPT !.keys = {k}, !.pc = IF Has(k) THEN "kill" ELSE "list"]]
    /\ UNCHANGED <<trackerVars, boxVars>> /\ HandlerUnchanged

\* manager.Kill: 200, or 500 when the entry has gone since the check.
KillCancel(h, k) ==
    /\ handlers[h].pc = "kill" /\ k \in handlers[h].keys
    /\ handlers' = [handlers EXCEPT ![h] =
           [HandlerIdle EXCEPT !.pc = "reply", !.code = IF Has(k) THEN "ok" ELSE "error"]]
    /\ IF Has(k) THEN Cancel(k, Operator) ELSE UNCHANGED trackerVars
    /\ UNCHANGED boxVars /\ HandlerUnchanged

\* ForceRemoveByLabels: list, then remove one by one.
ForceRemoveList(h, k) ==
    /\ handlers[h].pc = "list" /\ k \in handlers[h].keys
    /\ handlers' = [handlers EXCEPT ![h] = [handlers[h] EXCEPT !.pc = "rm", !.code = "ok",
           !.boxes = {r \in Runs : card[r] = k /\ box[r] \in Exists}]]
    /\ UNCHANGED <<trackerVars, boxVars>> /\ HandlerUnchanged

ForceRemoveListFails(h) ==
    /\ handlers[h].pc = "list"
    /\ faults < MaxFaults /\ faults' = faults + 1
    /\ handlers' = [handlers EXCEPT ![h] = [HandlerIdle EXCEPT !.pc = "reply", !.code = "error"]]
    /\ UNCHANGED <<trackerVars, box, faulted>> /\ HandlerUnchanged

\* Removing a container that has gone meanwhile is an error to Docker.
ForceRemoveOne(h, r) ==
    /\ handlers[h].pc = "rm" /\ r \in handlers[h].boxes
    /\ ForceRemove(r)
    /\ handlers' = [handlers EXCEPT ![h] = [handlers[h] EXCEPT !.boxes = @ \ {r},
           !.code = IF box[r] = "gone" \/ faults' # faults THEN "error" ELSE @]]
    /\ UNCHANGED trackerVars /\ HandlerUnchanged

\* The snapshot covers every card, or the cards of one project.
StopAllSnapshot(h) ==
    /\ proc \in {"up", "draining"}
    /\ handlers[h].pc = "idle"
    /\ \E project \in SUBSET Cards :
           handlers' = [handlers EXCEPT ![h] = [HandlerIdle EXCEPT
               !.pc = "loop", !.keys = AllSnapshots \cap project, !.code = "ok"]]
    /\ UNCHANGED <<trackerVars, boxVars>> /\ HandlerUnchanged

StopAllKill(h, k) ==
    /\ handlers[h].pc = "loop" /\ k \in handlers[h].keys
    /\ handlers' = [handlers EXCEPT ![h] = [handlers[h] EXCEPT !.keys = @ \ {k},
           !.code = IF Has(k) THEN @ ELSE "error"]]
    /\ IF Has(k) THEN Cancel(k, Operator) ELSE UNCHANGED trackerVars
    /\ UNCHANGED boxVars /\ HandlerUnchanged

\* The loops are through: the answer is written and the request is over.
Reply(h) ==
    /\ \/ handlers[h].pc = "rm" /\ handlers[h].boxes = {}
       \/ handlers[h].pc = "loop" /\ handlers[h].keys = {}
       \/ handlers[h].pc = "reply"
    /\ handlers' = [handlers EXCEPT ![h] = HandlerIdle]
    /\ UNCHANGED <<trackerVars, boxVars>> /\ HandlerUnchanged
------------------------------------------------------------------------------
(* CleanupOrphans: at boot before the listener opens, then on every tick   *)
(* of the maintenance loop.                                                *)

SweepUnchanged == UNCHANGED <<trackerVars, cardVars, sideVars, told, handlers, targets, crashes, panics>>

\* Mutant: the list leaves out stopped containers.
SweepListRunning ==
    /\ proc \in {"up", "boot"}
    /\ sweep.pc = "idle"
    /\ sweep' = [pc |-> "filter", seen |-> {r \in Runs : box[r] = "running"}, orphans |-> {}]
    /\ UNCHANGED <<boxVars, proc>> /\ SweepUnchanged

SweepList ==
    /\ proc \in {"up", "boot"}
    /\ sweep.pc = "idle"
    /\ sweep' = [pc |-> "filter", seen |-> {r \in Runs : box[r] \in Exists}, orphans |-> {}]
    /\ UNCHANGED <<boxVars, proc>> /\ SweepUnchanged

\* ContainerList fails: the sweep is over, and at boot the listener opens on
\* whatever the previous process left.
SweepListFails ==
    /\ proc \in {"up", "boot"}
    /\ sweep.pc = "idle"
    /\ faults < MaxFaults /\ faults' = faults + 1
    /\ faulted' = faulted \cup {r \in Runs : pc[r] = "dead" /\ box[r] \in Exists}
    /\ proc' = "up"
    /\ UNCHANGED <<box, sweep>> /\ SweepUnchanged

\* Mutant: the registry is not consulted.
SweepFilterAll(r) ==
    /\ sweep.pc = "filter" /\ r \in sweep.seen
    /\ sweep' = [sweep EXCEPT !.seen = @ \ {r}, !.orphans = @ \cup {r}]
    /\ UNCHANGED <<boxVars, proc>> /\ SweepUnchanged

SweepFilter(r) ==
    /\ sweep.pc = "filter" /\ r \in sweep.seen
    /\ sweep' = [sweep EXCEPT !.seen = @ \ {r},
                              !.orphans = IF Has(card[r]) THEN @ ELSE @ \cup {r}]
    /\ UNCHANGED <<boxVars, proc>> /\ SweepUnchanged

SweepFiltered ==
    /\ sweep.pc = "filter" /\ sweep.seen = {}
    /\ sweep' = [sweep EXCEPT !.pc = "remove"]
    /\ UNCHANGED <<boxVars, proc>> /\ SweepUnchanged

\* Stop, then force-remove, by container id.
SweepRemove(r) ==
    /\ sweep.pc = "remove" /\ r \in sweep.orphans
    /\ sweep' = [sweep EXCEPT !.orphans = @ \ {r}]
    /\ ForceRemove(r)
    /\ UNCHANGED proc /\ SweepUnchanged

\* At boot the listener opens next, whether or not the sweep succeeded.
SweepEnd ==
    /\ sweep.pc = "remove" /\ sweep.orphans = {}
    /\ sweep' = SweepIdle
    /\ proc' = IF proc = "boot" THEN "up" ELSE proc
    /\ UNCHANGED boxVars /\ SweepUnchanged
------------------------------------------------------------------------------
(* shutdown().                                                             *)

ShutdownUnchanged == UNCHANGED <<cardVars, sideVars, handlers, sweep, panics>>

\* Steps 1 and 2: flip the flag; then the listener is closed, its handlers
\* done or abandoned at the deadline, and step 4 takes its snapshot.
StartDraining ==
    /\ proc = "up" /\ crashes < MaxCrashes
    /\ proc' = "draining"
    /\ UNCHANGED <<trackerVars, boxVars, told, targets, crashes>> /\ ShutdownUnchanged

SnapshotToKill ==
    /\ proc = "draining"
    /\ proc' = "killing"
    /\ targets' = {entries[k].owner : k \in AllSnapshots}
    /\ UNCHANGED <<trackerVars, boxVars, told, crashes>> /\ ShutdownUnchanged

\* Step 4, one card: Kill, and report "runner shutting down" in any case.
ShutdownKill(r) ==
    /\ proc = "killing" /\ r \in targets
    /\ targets' = targets \ {r}
    /\ IF Has(card[r]) THEN Cancel(card[r], Operator) ELSE UNCHANGED trackerVars
    /\ Report(r, "failed")
    /\ UNCHANGED <<boxVars, proc, crashes>> /\ ShutdownUnchanged

\* Step 5: manager.Wait, or its deadline.
WaitManager ==
    /\ proc = "killing" /\ targets = {}
    /\ proc' = "waiting"
    /\ UNCHANGED <<trackerVars, boxVars, told, targets, crashes>> /\ ShutdownUnchanged

SnapshotToForce ==
    /\ proc = "waiting"
    /\ proc' = "forcing"
    /\ targets' = {entries[k].cid : k \in AllSnapshots} \ {None}
    /\ UNCHANGED <<trackerVars, boxVars, told, crashes>> /\ ShutdownUnchanged

\* Step 6, one container: ForceKillContainer.
ForceKill(r) ==
    /\ proc = "forcing" /\ r \in targets
    /\ targets' = targets \ {r}
    /\ ForceRemove(r)
    /\ UNCHANGED <<trackerVars, told, proc, crashes>> /\ ShutdownUnchanged

\* The process ends: every goroutine and the registry are gone, Docker's
\* containers are not.
Halt ==
    /\ proc' = "down"
    /\ crashes' = crashes + 1
    /\ pc' = [r \in Runs |-> IF pc[r] \in {"idle", "done"} THEN pc[r]
                             ELSE IF pc[r] = "admit" THEN "idle" ELSE "dead"]
    /\ card' = [r \in Runs |-> IF pc[r] = "admit" THEN None ELSE card[r]]
    /\ entries' = [k \in Keys |-> NoEntry]
    /\ wd' = [r \in Runs |-> "off"]
    /\ cb' = [r \in Runs |-> "off"]
    /\ handlers' = [h \in Handlers |-> HandlerIdle]
    /\ sweep' = SweepIdle
    /\ targets' = {}
    /\ verdict' = [r \in Runs |-> "none"]
    /\ UNCHANGED <<ctx, idOut, boxVars, told, panics>>

Exit  == proc = "forcing" /\ targets = {} /\ Halt
Crash == proc # "down" /\ crashes < MaxCrashes /\ Halt

\* Mutant: the listener opens without the boot-time sweep.
BootUnswept ==
    /\ proc = "down"
    /\ proc' = "up"
    /\ UNCHANGED <<trackerVars, boxVars, told, targets, crashes>> /\ ShutdownUnchanged

\* systemd starts the runner again.
Boot ==
    /\ proc = "down"
    /\ proc' = "boot"
    /\ UNCHANGED <<trackerVars, boxVars, told, targets, crashes>> /\ ShutdownUnchanged
------------------------------------------------------------------------------
Trigger(r) == (\E c \in Cards : TriggerCheck(r, c)) \/ TriggerAccept(r) \/ TriggerReject(r)

Starts(r) ==
    \/ StartFails(r) \/ ContainerCreate(r) \/ ContainerStart(r)
    \/ StartOrAttachFails(r) \/ CaptureID(r) \/ Publish(r)
    \/ ReportStartFailure(r) \/ UntrackStartFailure(r)

WaitsAndCleansUp(r) ==
    \/ WaitExit(r) \/ WaitTimeout(r) \/ WaitError(r) \/ WaitCanceled(r)
    \/ StopBox(r) \/ ReportOutcome(r) \/ Untrack(r) \/ RemoveBox(r)

Recovers(r) ==
    \/ UnwindUntrack(r) \/ UnwindRemove(r)
    \/ RecoverRemove(r) \/ RecoverUntrack(r) \/ RecoverReport(r)

RunStep(r) == Starts(r) \/ WaitsAndCleansUp(r) \/ Recovers(r)

Watchdog(r) == WatchdogTick(r) \/ WatchdogExit(r) \/ WatchdogFire(r)

Handle(h) ==
    \/ \E k \in Keys : KillCheck(h, k) \/ KillCancel(h, k) \/ ForceRemoveList(h, k)
    \/ \E r \in Runs : ForceRemoveOne(h, r)
    \/ ForceRemoveListFails(h) \/ StopAllSnapshot(h)
    \/ \E k \in Keys : StopAllKill(h, k)
    \/ Reply(h)

Sweep ==
    \/ SweepList \/ SweepListFails \/ SweepFiltered \/ SweepEnd
    \/ \E r \in Runs : SweepFilter(r) \/ SweepRemove(r)

Shutdown ==
    \/ SnapshotToKill \/ WaitManager \/ SnapshotToForce \/ Exit
    \/ \E r \in Runs : ShutdownKill(r) \/ ForceKill(r)

Next ==
    \/ \E r \in Runs : \/ Trigger(r) \/ RunStep(r) \/ Watchdog(r)
                       \/ RunningCallback(r) \/ ContainerExits(r) \/ Panic(r)
    \/ \E h \in Handlers : Handle(h)
    \/ Sweep
    \/ StartDraining \/ Shutdown \/ Crash \/ Boot

Spec == Init /\ [][Next]_vars

\* The scheduler runs every goroutine that can move.  ContainerWait, the stops,
\* the removals and the callbacks have deadlines; create, start and attach run
\* on the run's ctx without one, and are assumed to return.  The maintenance
\* ticker keeps ticking and systemd restarts the runner.  Clients, containers
\* and failures owe us nothing.
Fairness ==
    /\ \A r \in Runs : /\ WF_vars(TriggerAccept(r) \/ TriggerReject(r))
                       /\ WF_vars(RunStep(r))
                       /\ WF_vars(WatchdogFire(r) \/ WatchdogExit(r))
                       /\ WF_vars(RunningCallback(r))
    /\ WF_vars(Sweep)
    /\ WF_vars(Shutdown)
    /\ WF_vars(Boot)

FairSpec == Spec /\ Fairness
------------------------------------------------------------------------------
(* Safety.                                                                 *)

\* A registry entry always belongs to a goroutine of that card that has yet
\* to call tracker.Remove: no path of Run leaves an entry behind, which would
\* answer 409 to the card and hold a slot for ever.
EntryHasLiveRun ==
    \A k \in Cards : Has(k) =>
        LET r == entries[k].owner
        IN  card[r] = k /\ pc[r] \in Owning \cup Recover

\* Until it calls tracker.Remove a run finds its own entry under its card:
\* nobody else removed or replaced it, so /kill, the watchdog and the sweep
\* all act on the right run.
RunHoldsItsEntry ==
    panics = 0 => \A r \in Runs : pc[r] \in Owning => entries[card[r]].owner = r

\* A running container is one the registry knows, the leftover of a failed
\* Docker call, or the leftover of a process that ended: what README's
\* /containers row calls an orphan never comes from an orderly run.
RunningIsTracked ==
    panics = 0 => \A r \in Runs :
        box[r] = "running" => \/ entries[card[r]].owner = r
                              \/ r \in faulted \/ pc[r] = "dead"

\* No more containers run than max_concurrent allows, leftovers aside.
RunningWithinCap ==
    (panics = 0 /\ faulted = {} /\ crashes = 0) =>
        Cardinality({r \in Runs : box[r] = "running"}) <= MaxConcurrent

\* CleanupOrphans never condemns the container of a run that is still at
\* work, although it lists Docker first and asks the registry later.
SweepSparesLiveWork ==
    panics = 0 => \A r \in sweep.orphans : pc[r] \in Ended

\* A run's context is cancelled by an operator, by shutdown or by the run's
\* own goroutines, never by another run of the same card.
OnlyOwnCancels ==
    \A r \in Runs : ctx[r] # "hijacked"

\* The positions of terminal statuses among what was reported for a run.
Terminals(r) == {i \in DOMAIN told[r] : told[r][i] \in Terminal}

\* Until a shutdown begins ContextMatrix hears at most one terminal status
\* for a run, and by then the run's container has stopped.
OneTerminalAfterStop ==
    (panics = 0 /\ crashes = 0 /\ proc = "up") => \A r \in Runs :
        /\ \A i, j \in Terminals(r) : i = j
        /\ Terminals(r) # {} => box[r] # "running" \/ r \in faulted

\* Once the runner serves again, nothing of the previous process still runs,
\* unless Docker refused to list or remove it (README, "Orphan containers after
\* runner crash").
BootClean ==
    proc \in {"up", "draining"} =>
        \A r \in Runs : pc[r] = "dead" => box[r] \notin Exists \/ r \in faulted

------------------------------------------------------------------------------
(* Liveness.                                                               *)

\* A container outlives its run only until some later sweep.
EveryContainerIsReaped ==
    \A r \in Runs : (pc[r] \in Ended /\ box[r] \in Exists) ~> box[r] = "gone"
==============================================================================

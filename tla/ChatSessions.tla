---------------------------- MODULE ChatSessions -----------------------------
(***************************************************************************)
(* Chat containers, from POST /chat/start to the removal of everything the *)
(* session left on the host: the webhooks (internal/webhook/chat.go), the  *)
(* manager's StartChat, WaitAndCleanupChat, KillChat and DeleteChatCleanup,*)
(* the maintenance sweep, and the process ending and booting again.        *)
(*                                                                         *)
(* A key of the registry is a session, an owner one /chat/start.  Unlike a *)
(* card, a chat is registered after its container runs, and whoever removes*)
(* an entry knows only the session id.  What happens on the attached stdin *)
(* is module Stdin's.                                                      *)
(***************************************************************************)
EXTENDS Tracker

CONSTANTS
    Enders,      \* concurrent /chat/end requests and KillChat calls
    MaxFaults,   \* bound: Docker calls that fail
    MaxCrashes   \* bound: times the process ends

ASSUME ChatAssumption == MaxFaults \in Nat /\ MaxCrashes \in Nat

VARIABLES
    pc,       \* where a /chat/start handler is
    session,  \* the session it starts
    cleaner,  \* its WaitAndCleanupChat goroutine
    box,      \* Docker's view of its container
    dir,      \* its resume directory exists on the host
    stash,    \* who holds the handle of that directory
    secrets,  \* its redaction inputs are in chatSecrets
    enders,   \* /chat/end and KillChat in flight
    sweep,    \* CleanupOrphans in flight
    proc,
    faults, crashes

chatVars  == <<pc, session>>
hostVars  == <<dir, stash, secrets>>
boxVars   == <<box, faults>>
procVars  == <<proc, crashes>>
vars == <<trackerVars, chatVars, cleaner, boxVars, hostVars, enders, sweep, procVars>>

Chats  == Owners
Exists == {"created", "running", "exited"}

Before   == {"idle", "create"}                        \* nothing on the host yet
Starting == {"start", "register", "rollback", "discard"}
Answered == {"ok", "rejected", "failed"}
PCs      == Before \cup Starting \cup Answered
                \cup {"spawn", "attach", "stream", "unreg", "unstop", "dead"}
Cleaners == {"off", "start", "wait", "remove", "reap", "tidy", "done"}

EnderIdle  == [pc |-> "idle", kind |-> "none", key |-> None, cid |-> None]
EnderState == [pc : {"idle", "close", "stop", "remove"}, kind : {"none", "end", "kill"},
               key : Keys \cup {None}, cid : Owners \cup {None}]
SweepIdle  == [pc |-> "idle", seen |-> {}, orphans |-> {}]
SweepState == [pc : {"idle", "filter", "remove"}, seen : SUBSET Owners, orphans : SUBSET Owners]

TypeOK ==
    /\ TrackerTypeOK
    /\ pc \in [Chats -> PCs]
    /\ session \in [Chats -> Keys \cup {None}]
    /\ cleaner \in [Chats -> Cleaners]
    /\ box \in [Chats -> {"none", "gone"} \cup Exists]
    /\ dir \in [Chats -> BOOLEAN] /\ secrets \in [Chats -> BOOLEAN]
    /\ stash \in [Chats -> {"none", "map", "cleaner"}]
    /\ enders \in [Enders -> EnderState]
    /\ sweep \in SweepState
    /\ proc \in {"up", "draining", "down", "boot"}
    /\ faults \in Nat /\ crashes \in Nat

Init ==
    /\ TrackerInit
    /\ pc = [l \in Chats |-> "idle"]
    /\ session = [l \in Chats |-> None]
    /\ cleaner = [l \in Chats |-> "off"]
    /\ box = [l \in Chats |-> "none"]
    /\ dir = [l \in Chats |-> FALSE] /\ secrets = [l \in Chats |-> FALSE]
    /\ stash = [l \in Chats |-> "none"]
    /\ enders = [e \in Enders |-> EnderIdle]
    /\ sweep = SweepIdle
    /\ proc = "up"
    /\ faults = 0 /\ crashes = 0
------------------------------------------------------------------------------
Goto(l, x) == pc' = [pc EXCEPT ![l] = x]

DockerOK    == UNCHANGED faults
DockerFault == faults < MaxFaults /\ faults' = faults + 1

\* removeContainer, and Stop: ContainerStop followed by a forced removal.
ForceRemove(l) ==
    \/ box' = [box EXCEPT ![l] = "gone"] /\ DockerOK
    \/ UNCHANGED box /\ DockerFault

\* The container name is derived from the session id.
NameTaken(k) == \E l \in Chats : session[l] = k /\ box[l] \in Exists

HandlerUnchanged == UNCHANGED <<session, enders, sweep, procVars>>
------------------------------------------------------------------------------
(* POST /chat/start.                                                       *)

\* The drain flag, HasChat and the fail-fast capacity check.
ChatStart(l, k) ==
    /\ proc = "up"
    /\ pc[l] = "idle"
    /\ session' = [session EXCEPT ![l] = k]
    /\ Goto(l, IF AddRefused(k) THEN "rejected" ELSE "create")
    /\ UNCHANGED <<trackerVars, cleaner, boxVars, hostVars, enders, sweep, procVars>>

\* The directory exists when the chat is resumed and every file could be written.
PrepareChatResume(l) == \E resume \in BOOLEAN : dir' = [dir EXCEPT ![l] = resume]

RemoveChatResume(l) == dir' = [dir EXCEPT ![l] = FALSE]

\* StartChat: the resume directory and the container.
ContainerCreate(l) ==
    /\ pc[l] = "create"
    /\ ~NameTaken(session[l])
    /\ PrepareChatResume(l)
    /\ box' = [box EXCEPT ![l] = "created"]
    /\ DockerOK
    /\ Goto(l, "start")
    /\ UNCHANGED <<trackerVars, cleaner, stash, secrets>> /\ HandlerUnchanged

\* The image, the secrets or the create failed; the directory is removed.
CreateFails(l) ==
    /\ pc[l] = "create"
    /\ Goto(l, "failed")
    /\ UNCHANGED <<trackerVars, cleaner, boxVars, hostVars>> /\ HandlerUnchanged

\* The container runs; StartChat stashes what its cleanup will need.
ContainerStart(l) ==
    /\ pc[l] = "start"
    /\ box[l] = "created"
    /\ box' = [box EXCEPT ![l] = "running"]
    /\ DockerOK
    /\ stash' = [stash EXCEPT ![l] = "map"]
    /\ secrets' = [secrets EXCEPT ![l] = TRUE]
    /\ Goto(l, "register")
    /\ UNCHANGED <<trackerVars, cleaner, dir>> /\ HandlerUnchanged

StartFails(l) ==
    /\ pc[l] = "start"
    /\ ForceRemove(l)
    /\ RemoveChatResume(l)
    /\ Goto(l, "failed")
    /\ UNCHANGED <<trackerVars, cleaner, stash, secrets>> /\ HandlerUnchanged

Register(l) ==
    /\ pc[l] = "register"
    /\ AddChatIfUnderLimit(session[l], l)
    /\ Goto(l, "spawn")
    /\ UNCHANGED <<cleaner, boxVars, hostVars>> /\ HandlerUnchanged

\* Another start won the session or the last slot: stop, discard, refuse.
RegisterRefused(l) ==
    /\ pc[l] = "register"
    /\ AddRefused(session[l])
    /\ Goto(l, "rollback")
    /\ UNCHANGED <<trackerVars, cleaner, boxVars, hostVars>> /\ HandlerUnchanged

RollbackStop(l) ==
    /\ pc[l] = "rollback"
    /\ ForceRemove(l)
    /\ Goto(l, "discard")
    /\ UNCHANGED <<trackerVars, cleaner, hostVars>> /\ HandlerUnchanged

\* Mutant: the stashed handles are forgotten.
DeleteChatCleanupMissing(l) ==
    /\ pc[l] = "discard"
    /\ Goto(l, "rejected")
    /\ UNCHANGED <<trackerVars, cleaner, boxVars, hostVars>> /\ HandlerUnchanged

DeleteChatCleanup(l) ==
    /\ pc[l] = "discard"
    /\ stash' = [stash EXCEPT ![l] = "none"]
    /\ secrets' = [secrets EXCEPT ![l] = FALSE]
    /\ RemoveChatResume(l)
    /\ Goto(l, "rejected")
    /\ UNCHANGED <<trackerVars, cleaner, boxVars>> /\ HandlerUnchanged

\* Mutant: the cleanup goroutine is not started.
SpawnCleanerMissing(l) ==
    /\ pc[l] = "spawn"
    /\ Goto(l, "attach")
    /\ UNCHANGED <<trackerVars, cleaner, boxVars, hostVars>> /\ HandlerUnchanged

SpawnCleaner(l) ==
    /\ pc[l] = "spawn"
    /\ cleaner' = [cleaner EXCEPT ![l] = "start"]
    /\ Goto(l, "attach")
    /\ UNCHANGED <<trackerVars, boxVars, hostVars>> /\ HandlerUnchanged

\* AttachChatStdin and the priming messages (module Stdin).
Attach(l) ==
    /\ pc[l] = "attach"
    /\ box[l] = "running"
    /\ Goto(l, "stream")
    /\ UNCHANGED <<trackerVars, cleaner, boxVars, hostVars>> /\ HandlerUnchanged

AttachFails(l) ==
    /\ pc[l] = "attach"
    /\ Goto(l, "unreg")
    /\ UNCHANGED <<trackerVars, cleaner, boxVars, hostVars>> /\ HandlerUnchanged

AttachRemove(l) ==
    /\ pc[l] = "unreg"
    /\ Remove(session[l], l)
    /\ Goto(l, "unstop")
    /\ UNCHANGED <<cleaner, boxVars, hostVars>> /\ HandlerUnchanged

AttachStop(l) ==
    /\ pc[l] = "unstop"
    /\ ForceRemove(l)
    /\ Goto(l, "failed")
    /\ UNCHANGED <<trackerVars, cleaner, hostVars>> /\ HandlerUnchanged

\* StreamChatLogs takes the redaction inputs; 202.
StreamChatLogs(l) ==
    /\ pc[l] = "stream"
    /\ secrets' = [secrets EXCEPT ![l] = FALSE]
    /\ Goto(l, "ok")
    /\ UNCHANGED <<trackerVars, cleaner, boxVars, dir, stash>> /\ HandlerUnchanged
------------------------------------------------------------------------------
(* WaitAndCleanupChat.                                                     *)

CleanerUnchanged == UNCHANGED <<chatVars, enders, sweep, procVars>>
CleanerGoto(l, x) == cleaner' = [cleaner EXCEPT ![l] = x]

CleanerStart(l) ==
    /\ cleaner[l] = "start"
    /\ stash' = [stash EXCEPT ![l] = "cleaner"]
    /\ CleanerGoto(l, "wait")
    /\ UNCHANGED <<trackerVars, boxVars, dir, secrets>> /\ CleanerUnchanged

CleanerSeesExit(l) ==
    /\ cleaner[l] = "wait"
    /\ box[l] # "running"
    /\ CleanerGoto(l, "remove")
    /\ UNCHANGED <<trackerVars, boxVars, hostVars>> /\ CleanerUnchanged

\* ContainerWait fails.
CleanerWaitError(l) ==
    /\ cleaner[l] = "wait"
    /\ UNCHANGED box /\ DockerFault
    /\ CleanerGoto(l, "remove")
    /\ UNCHANGED <<trackerVars, hostVars>> /\ CleanerUnchanged

\* The opt-in chat_container_timeout: ContainerStop, then the same cleanup.
CleanerLifetime(l) ==
    /\ cleaner[l] = "wait"
    /\ \/ box' = [box EXCEPT ![l] = IF @ = "running" THEN "exited" ELSE @] /\ DockerOK
       \/ UNCHANGED box /\ DockerFault
    /\ CleanerGoto(l, "remove")
    /\ UNCHANGED <<trackerVars, hostVars>> /\ CleanerUnchanged

\* Mutant: the entry is left to /chat/end.
CleanerRemoveSkipped(l) ==
    /\ cleaner[l] = "remove"
    /\ CleanerGoto(l, "reap")
    /\ UNCHANGED <<trackerVars, boxVars, hostVars>> /\ CleanerUnchanged

\* RemoveChat by session id, whoever holds it by now.
CleanerRemove(l) ==
    /\ cleaner[l] = "remove"
    /\ Remove(session[l], l)
    /\ CleanerGoto(l, "reap")
    /\ UNCHANGED <<boxVars, hostVars>> /\ CleanerUnchanged

CleanerReap(l) ==
    /\ cleaner[l] = "reap"
    /\ ForceRemove(l)
    /\ CleanerGoto(l, "tidy")
    /\ UNCHANGED <<trackerVars, hostVars>> /\ CleanerUnchanged

CleanerTidy(l) ==
    /\ cleaner[l] = "tidy"
    /\ RemoveChatResume(l)
    /\ stash' = [stash EXCEPT ![l] = "none"]
    /\ secrets' = [secrets EXCEPT ![l] = FALSE]
    /\ CleanerGoto(l, "done")
    /\ UNCHANGED <<trackerVars, boxVars>> /\ CleanerUnchanged

ContainerExits(l) ==
    /\ box[l] = "running"
    /\ box' = [box EXCEPT ![l] = "exited"]
    /\ UNCHANGED <<trackerVars, chatVars, cleaner, faults, hostVars, enders, sweep, procVars>>
------------------------------------------------------------------------------
(* POST /chat/end, and KillChat on behalf of /stop-all and shutdown.       *)

EnderUnchanged == UNCHANGED <<chatVars, cleaner, hostVars, sweep, procVars>>

\* SnapshotChat; a session that is not tracked is answered 404.
EndSnapshot(e, k, kind) ==
    /\ proc = "up" \/ (kind = "kill" /\ proc = "draining")
    /\ enders[e].pc = "idle"
    /\ Has(k)
    /\ enders' = [enders EXCEPT ![e] =
           [pc |-> "close", kind |-> kind, key |-> k, cid |-> entries[k].cid]]
    /\ UNCHANGED <<trackerVars, boxVars>> /\ EnderUnchanged

\* CloseStdinChat: /chat/end gives up when the entry has gone (404) and when
\* the close fails (500); KillChat goes on either way.
EndClose(e) ==
    /\ enders[e].pc = "close"
    /\ \/ /\ enders[e].kind = "end"
          /\ enders' = [enders EXCEPT ![e] = EnderIdle]
       \/ /\ enders[e].kind = "kill" \/ Has(enders[e].key)
          /\ enders' = [enders EXCEPT ![e].pc = "stop"]
    /\ UNCHANGED <<trackerVars, boxVars>> /\ EnderUnchanged

EndStop(e) ==
    /\ enders[e].pc = "stop"
    /\ ForceRemove(enders[e].cid)
    /\ enders' = [enders EXCEPT ![e] =
           IF enders[e].kind = "end" THEN [enders[e] EXCEPT !.pc = "remove"] ELSE EnderIdle]
    /\ UNCHANGED trackerVars /\ EnderUnchanged

\* RemoveChat by session id: meant for the container that was stopped.
EndRemove(e) ==
    /\ enders[e].pc = "remove"
    /\ Remove(enders[e].key, enders[e].cid)
    /\ enders' = [enders EXCEPT ![e] = EnderIdle]
    /\ UNCHANGED boxVars /\ EnderUnchanged
------------------------------------------------------------------------------
(* The maintenance tick: CleanupOrphans and SweepStaleChatResumeDirs.      *)

SweepUnchanged == UNCHANGED <<trackerVars, chatVars, cleaner, hostVars, enders, crashes>>

\* Mutant: stopped containers are not listed.
SweepListRunning ==
    /\ proc \in {"up", "boot"}
    /\ sweep.pc = "idle"
    /\ sweep' = [sweep EXCEPT !.pc = "filter", !.seen = {l \in Chats : box[l] = "running"}]
    /\ UNCHANGED <<boxVars, proc>> /\ SweepUnchanged

SweepList ==
    /\ proc \in {"up", "boot"}
    /\ sweep.pc = "idle"
    /\ sweep' = [sweep EXCEPT !.pc = "filter", !.seen = {l \in Chats : box[l] \in Exists}]
    /\ UNCHANGED <<boxVars, proc>> /\ SweepUnchanged

\* An error is logged; a boot goes on.
SweepListFails ==
    /\ proc \in {"up", "boot"}
    /\ sweep.pc = "idle"
    /\ DockerFault
    /\ proc' = "up"
    /\ UNCHANGED <<box, sweep>> /\ SweepUnchanged

SweepFilter(l) ==
    /\ sweep.pc = "filter" /\ l \in sweep.seen
    /\ sweep' = [sweep EXCEPT !.seen = @ \ {l},
                              !.orphans = IF Has(session[l]) THEN @ ELSE @ \cup {l}]
    /\ UNCHANGED <<boxVars, proc>> /\ SweepUnchanged

SweepFiltered ==
    /\ sweep.pc = "filter" /\ sweep.seen = {}
    /\ sweep' = [sweep EXCEPT !.pc = "remove"]
    /\ UNCHANGED <<boxVars, proc>> /\ SweepUnchanged

SweepRemove(l) ==
    /\ sweep.pc = "remove" /\ l \in sweep.orphans
    /\ ForceRemove(l)
    /\ sweep' = [sweep EXCEPT !.orphans = @ \ {l}]
    /\ UNCHANGED proc /\ SweepUnchanged

SweepEnd ==
    /\ sweep.pc = "remove" /\ sweep.orphans = {}
    /\ sweep' = SweepIdle
    /\ proc' = IF proc = "boot" THEN "up" ELSE proc
    /\ UNCHANGED boxVars /\ SweepUnchanged

\* Mutant: directories of an earlier process are not looked at.
SweepResumeDirKnown(l) ==
    /\ proc = "up"
    /\ dir[l] /\ stash[l] # "none"
    /\ RemoveChatResume(l)
    /\ UNCHANGED <<trackerVars, chatVars, cleaner, boxVars, stash, secrets, enders, sweep, procVars>>

\* A directory older than an hour, whether or not its chat is still alive; a
\* start in progress is not that old.
SweepResumeDir(l) ==
    /\ proc = "up"
    /\ dir[l] /\ pc[l] \notin Starting
    /\ RemoveChatResume(l)
    /\ UNCHANGED <<trackerVars, chatVars, cleaner, boxVars, stash, secrets, enders, sweep, procVars>>
------------------------------------------------------------------------------
(* The process.                                                            *)

StartDraining ==
    /\ proc = "up" /\ crashes < MaxCrashes
    /\ proc' = "draining"
    /\ UNCHANGED <<trackerVars, chatVars, cleaner, boxVars, hostVars, enders, sweep, crashes>>

\* The process ends, at the end of its shutdown or at any other moment.
Halt ==
    /\ proc # "down" /\ crashes < MaxCrashes
    /\ crashes' = crashes + 1
    /\ proc' = "down"
    /\ entries' = [k \in Keys |-> NoEntry]
    /\ pc' = [l \in Chats |-> IF pc[l] = "idle" THEN "idle" ELSE "dead"]
    /\ cleaner' = [l \in Chats |-> "off"]
    /\ stash' = [l \in Chats |-> "none"]
    /\ secrets' = [l \in Chats |-> FALSE]
    /\ enders' = [e \in Enders |-> EnderIdle]
    /\ sweep' = SweepIdle
    /\ UNCHANGED <<ctx, session, boxVars, dir>>

Boot ==
    /\ proc = "down"
    /\ proc' = "boot"
    /\ UNCHANGED <<trackerVars, chatVars, cleaner, boxVars, hostVars, enders, sweep, crashes>>
------------------------------------------------------------------------------
HandlerStep(l) ==
    \/ ContainerCreate(l) \/ CreateFails(l) \/ ContainerStart(l) \/ StartFails(l)
    \/ Register(l) \/ RegisterRefused(l) \/ RollbackStop(l) \/ DeleteChatCleanup(l)
    \/ SpawnCleaner(l) \/ Attach(l) \/ AttachFails(l) \/ AttachRemove(l) \/ AttachStop(l)
    \/ StreamChatLogs(l)

CleanerStep(l) ==
    \/ CleanerStart(l) \/ CleanerSeesExit(l) \/ CleanerRemove(l) \/ CleanerReap(l)
    \/ CleanerTidy(l)

EndStep(e) == EndClose(e) \/ EndStop(e) \/ EndRemove(e)

Sweep ==
    \/ SweepList \/ SweepListFails \/ SweepFiltered \/ SweepEnd
    \/ \E l \in Chats : SweepFilter(l) \/ SweepRemove(l)

Next ==
    \/ \E l \in Chats : \/ \E k \in Keys : ChatStart(l, k)
                        \/ HandlerStep(l) \/ CleanerStep(l) \/ CleanerWaitError(l) \/ CleanerLifetime(l)
                        \/ ContainerExits(l) \/ SweepResumeDir(l)
    \/ \E e \in Enders : EndStep(e) \/ \E k \in Keys, kind \in {"end", "kill"} : EndSnapshot(e, k, kind)
    \/ Sweep
    \/ StartDraining \/ Halt \/ Boot

Spec == Init /\ [][Next]_vars

\* Goroutines that can move do, every Docker call returns, the maintenance
\* ticker goes on and systemd restarts the runner.  A shutdown comes to its
\* end.  Clients, workers and failures owe nothing.
Fairness ==
    /\ \A l \in Chats : /\ WF_vars(HandlerStep(l)) /\ WF_vars(CleanerStep(l))
                        /\ WF_vars(SweepResumeDir(l))
    /\ \A e \in Enders : WF_vars(EndStep(e))
    /\ WF_vars(Sweep)
    /\ WF_vars(proc = "draining" /\ Halt) /\ WF_vars(Boot)

FairSpec == Spec /\ Fairness
------------------------------------------------------------------------------
\* An entry always has a cleanup goroutine ahead of its own RemoveChat, or a
\* handler about to start it: no path leaks a slot.
EntryHasCleaner ==
    \A k \in Keys : Has(k) =>
        LET l == entries[k].owner
        IN  session[l] = k /\ (pc[l] = "spawn" \/ cleaner[l] \in {"start", "wait", "remove"})

\* Once a start has been answered and its cleanup has run, no resume directory,
\* no stashed handle and no secret of it is left, whichever of the five ways
\* out it took and whoever raced it.
NothingLeftBehind ==
    \A l \in Chats : (pc[l] \in Answered /\ cleaner[l] \in {"off", "done"}) =>
        ~dir[l] /\ ~secrets[l] /\ stash[l] = "none"

Tracked(l) == \E k \in Keys : entries[k].owner = l
Over(l) == pc[l] \in {"rejected", "failed", "dead"} \/ (pc[l] = "ok" /\ ~Tracked(l))

\* A container whose session is over is removed: its start was refused, failed
\* or died with the process, or it was answered 202 and has been untracked by
\* its cleanup or by /chat/end, whichever stop or removal failed on the way.
EveryChatIsReaped == \A l \in Chats : (Over(l) /\ box[l] \in Exists) ~> box[l] = "gone"

\* When a chat's container stops, its session id and its slot become free.
SlotIsFreed ==
    \A l \in Chats : (pc[l] = "ok" /\ box[l] # "running") ~> ~Tracked(l)

\* A resume directory does not outlive a crash for ever.
DirsAreReclaimed == \A l \in Chats : (pc[l] = "dead" /\ dir[l]) ~> ~dir[l]
==============================================================================

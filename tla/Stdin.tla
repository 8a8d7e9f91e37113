-------------------------------- MODULE Stdin --------------------------------
(***************************************************************************)
(* The attached stdin of one container: the stdinState of a registry entry *)
(* (internal/tracker), its mutex, and everyone who uses it:                *)
(*   - the starter (Run's goroutine, or the /chat/start handler), which    *)
(*     attaches the connection and primes the agent under a deadline,      *)
(*   - /message, which writes; /promote, which writes and then closes;     *)
(*     /end-session, /chat/end and KillChat, which close,                  *)
(*   - the cleaner (waitAndCleanup, WaitAndCleanupChat), which removes the *)
(*     entry, and the goroutine Remove leaves behind to close the writer.  *)
(*                                                                         *)
(* tracker.mu is never held across a step, except by SetStdin, which takes *)
(* stdin.mu inside it.  stdin.mu is held across steps only by a Write,     *)
(* which blocks while the worker does not read and ends with an error once *)
(* the connection is closed on either side.  Close does not block.         *)
(***************************************************************************)
EXTENDS Naturals

CONSTANTS
    Modes,         \* the modes to consider: "card", "chat"
    ChatLifetime,  \* chat_container_timeout > 0
    Starter, Cleaner,
    Primers,       \* the priming writes the starter may spawn
    Writers,       \* /message and /promote requests
    Enders,        \* /end-session, /chat/end and KillChat requests
    None,
    MaxFaults      \* bound: Docker calls that fail

Senders == Primers \cup Writers
Threads == Senders \cup Enders \cup {Starter, Cleaner}

ASSUME StdinAssumption ==
    /\ Modes \subseteq {"card", "chat"}
    /\ ChatLifetime \in BOOLEAN
    /\ Starter # Cleaner
    /\ Primers \cap (Writers \cup Enders) = {} /\ Writers \cap Enders = {}
    /\ {Starter, Cleaner} \cap (Senders \cup Enders) = {}
    /\ None \notin Threads
    /\ MaxFaults \in Nat

VARIABLES
    mode,     \* what the entry is; fixed
    pc,       \* where each thread is
    kind,     \* what a request asks for
    tracked,  \* the entry is in the map
    stdin,    \* info.stdin: allocated, writer non-nil, onClose non-nil
    mu,       \* the holder of stdin.mu
    conn,     \* the hijacked connection
    primer,   \* the priming write the starter waits for
    closer,   \* the goroutine of closeStdinAsync
    running,  \* the container runs
    faults,
    gone,     \* a close of the writer has been reported to its caller
    late      \* the requests that began after that

vars == <<mode, pc, kind, tracked, stdin, mu, conn, primer, closer, running,
          faults, gone, late>>
requestVars == <<kind, late>>
dockerVars  == <<running, faults>>

Labels  == {"idle", "attach", "set", "prime", "wait", "force", "mark", "snap", "lookup",
            "lock", "write", "hung", "eof", "close", "stop", "remove", "rmwait"}
\* How a thread ends: with success; refused, since the entry or its writer is
\* missing (404, 409, 410); or with an I/O error (500).
Done    == {"ok", "refused", "failed"}
Writing == {"write", "hung"}     \* inside Write; hung: the worker does not read
NoStdin == [alloc |-> FALSE, writer |-> FALSE, onClose |-> FALSE]

TypeOK ==
    /\ mode \in Modes
    /\ pc \in [Threads -> Labels \cup Done]
    /\ kind \in [Writers \cup Enders -> {"none", "message", "promote", "end", "kill"}]
    /\ tracked \in BOOLEAN /\ gone \in BOOLEAN
    /\ stdin \in [alloc : BOOLEAN, writer : BOOLEAN, onClose : BOOLEAN]
    /\ mu \in Senders \cup {None}
    /\ conn \in {"none", "open", "closed"}
    /\ primer \in Primers \cup {None}
    /\ closer \in {"off", "lock", "onclose", "done"}
    /\ running \in BOOLEAN
    /\ faults \in Nat
    /\ late \in SUBSET (Senders \cup Enders)

\* The container runs and its entry is in the registry; a chat's cleaner is
\* started before the attach, a card's runs in the starter's own goroutine.
Init ==
    /\ mode \in Modes
    /\ pc = [t \in Threads |->
                IF t = Starter THEN "attach"
                ELSE IF t = Cleaner /\ mode = "chat" THEN "wait" ELSE "idle"]
    /\ kind = [t \in Writers \cup Enders |-> "none"]
    /\ tracked = TRUE
    /\ stdin = NoStdin
    /\ mu = None
    /\ conn = "none"
    /\ primer = None
    /\ closer = "off"
    /\ running = TRUE
    /\ faults = 0
    /\ gone = FALSE
    /\ late = {}
------------------------------------------------------------------------------
Goto(t, l) == pc' = [pc EXCEPT ![t] = l]

DockerFault == faults < MaxFaults /\ faults' = faults + 1 /\ UNCHANGED running
------------------------------------------------------------------------------
(* The starter.                                                            *)

ContainerAttach ==
    /\ pc[Starter] = "attach"
    /\ conn' = "open"
    /\ Goto(Starter, "set")
    /\ UNCHANGED <<mode, requestVars, tracked, stdin, mu, primer, closer, dockerVars, gone>>

\* A card's container is force-removed and its run reports and removes the
\* entry; /chat/start removes the entry and stops the container.
AttachFails ==
    /\ pc[Starter] = "attach"
    /\ pc' = [pc EXCEPT ![Starter] = IF mode = "card" THEN "failed" ELSE "remove",
                        ![Cleaner] = IF mode = "card" THEN "remove" ELSE @]
    /\ \/ mode = "card" /\ running' = FALSE /\ UNCHANGED faults
       \/ mode = "card" /\ DockerFault
       \/ mode = "chat" /\ UNCHANGED dockerVars
    /\ UNCHANGED <<mode, requestVars, tracked, stdin, mu, conn, primer, closer, gone>>

\* SetStdin and SetStdinChat on a present entry: stdin.mu inside tracker.mu.
SetStdin ==
    /\ pc[Starter] = "set"
    /\ tracked
    /\ mu = None
    /\ stdin' = [alloc |-> TRUE, writer |-> TRUE, onClose |-> TRUE]
    /\ Goto(Starter, "prime")
    /\ UNCHANGED <<mode, requestVars, tracked, mu, conn, primer, closer, dockerVars, gone>>

\* Mutant: the late connection is dropped without closing it.
SetStdinLateLeaks ==
    /\ pc[Starter] = "set"
    /\ ~tracked
    /\ Goto(Starter, "prime")
    /\ UNCHANGED <<mode, requestVars, tracked, stdin, mu, conn, primer, closer, dockerVars, gone>>

\* The entry has been removed meanwhile: closeWriterAsync.
SetStdinLate ==
    /\ pc[Starter] = "set"
    /\ ~tracked
    /\ conn' = "closed"
    /\ Goto(Starter, "prime")
    /\ UNCHANGED <<mode, requestVars, tracked, stdin, mu, primer, closer, dockerVars, gone>>

\* A card is primed once, a chat with a primer and a rehydration message.
StartPriming(p) ==
    /\ pc[Starter] = "prime"
    /\ pc[p] = "idle"
    /\ mode = "card" => primer = None
    /\ pc' = [pc EXCEPT ![Starter] = "wait", ![p] = "lookup"]
    /\ primer' = p
    /\ late' = IF gone THEN late \cup {p} ELSE late
    /\ UNCHANGED <<mode, kind, tracked, stdin, mu, conn, closer, dockerVars, gone>>

\* No (further) message to send, or it could not be built.
SkipPriming ==
    /\ pc[Starter] = "prime"
    /\ pc' = [pc EXCEPT ![Starter] = "ok", ![Cleaner] = IF mode = "card" THEN "wait" ELSE @]
    /\ UNCHANGED <<mode, requestVars, tracked, stdin, mu, conn, primer, closer, dockerVars, gone>>

PrimingDone ==
    /\ pc[Starter] = "wait"
    /\ pc[primer] \in Done
    /\ Goto(Starter, "prime")
    /\ UNCHANGED <<mode, requestVars, tracked, stdin, mu, conn, primer, closer, dockerVars, gone>>

\* Mutant: card mode also closes through the registry.
PrimingTimeoutViaTracker ==
    /\ pc[Starter] = "wait"
    /\ pc[primer] \notin Done
    /\ Goto(Starter, "eof")
    /\ UNCHANGED <<mode, requestVars, tracked, stdin, mu, conn, primer, closer, dockerVars, gone>>

\* Card mode closes the raw connection; chat mode calls CloseStdinChat.
PrimingTimeout ==
    /\ pc[Starter] = "wait"
    /\ pc[primer] \notin Done
    /\ Goto(Starter, IF mode = "card" THEN "force" ELSE "eof")
    /\ UNCHANGED <<mode, requestVars, tracked, stdin, mu, conn, primer, closer, dockerVars, gone>>

ForceClose ==
    /\ pc[Starter] = "force"
    /\ conn' = "closed"
    /\ Goto(Starter, "mark")
    /\ UNCHANGED <<mode, requestVars, tracked, stdin, mu, primer, closer, dockerVars, gone>>

\* Mutant: the registry is not told.
MarkStdinClosedMissing ==
    /\ pc[Starter] = "mark"
    /\ gone' = TRUE
    /\ Goto(Starter, "prime")
    /\ UNCHANGED <<mode, requestVars, tracked, stdin, mu, conn, primer, closer, dockerVars>>

\* The run's own goroutine is the only one to remove the entry of a card.
MarkStdinClosed ==
    /\ pc[Starter] = "mark"
    /\ mu = None
    /\ stdin' = [stdin EXCEPT !.writer = FALSE]
    /\ gone' = TRUE
    /\ Goto(Starter, "prime")
    /\ UNCHANGED <<mode, requestVars, tracked, mu, conn, primer, closer, dockerVars>>

\* CloseStdinChat after a priming timeout, CloseStdin after a promotion:
\* whatever it returns, the caller goes on.
AfterEOF(t) == IF t = Starter THEN "prime" ELSE "ok"

EOFLookup(t) ==
    /\ pc[t] = "eof"
    /\ Goto(t, IF tracked /\ stdin.alloc THEN "close" ELSE AfterEOF(t))
    /\ UNCHANGED <<mode, requestVars, tracked, stdin, mu, conn, primer, closer, dockerVars, gone>>

EOFClose(t) ==
    /\ pc[t] = "close"
    /\ mu = None
    /\ conn' = IF stdin.writer THEN "closed" ELSE conn
    /\ stdin' = [stdin EXCEPT !.writer = FALSE]
    /\ gone' = TRUE
    /\ Goto(t, AfterEOF(t))
    /\ UNCHANGED <<mode, requestVars, tracked, mu, primer, closer, dockerVars>>
------------------------------------------------------------------------------
(* WriteStdin and WriteStdinChat, by a request or a priming goroutine.     *)

\* Only a card can be promoted, and only once ContextMatrix confirms the flag.
SendRequest(t, k) ==
    /\ pc[t] = "idle"
    /\ mode = "chat" => k = "message"
    /\ kind' = [kind EXCEPT ![t] = k]
    /\ Goto(t, "lookup")
    /\ late' = IF gone THEN late \cup {t} ELSE late
    /\ UNCHANGED <<mode, tracked, stdin, mu, conn, primer, closer, dockerVars, gone>>

SendLookup(t) ==
    /\ pc[t] = "lookup"
    /\ \/ ~tracked /\ Goto(t, "refused")
       \/ tracked /\ ~stdin.alloc /\ Goto(t, "refused")
       \/ tracked /\ stdin.alloc /\ Goto(t, "lock")
    /\ UNCHANGED <<mode, kind, late, tracked, stdin, mu, conn, primer, closer, dockerVars, gone>>

\* Mutant: stdin.mu is not taken.
SendLockSkipped(t) ==
    /\ pc[t] = "lock"
    /\ \/ ~stdin.writer /\ Goto(t, "refused")
       \/ stdin.writer /\ (Goto(t, "write") \/ Goto(t, "hung"))
    /\ UNCHANGED <<mode, kind, late, tracked, stdin, mu, conn, primer, closer, dockerVars, gone>>

SendLock(t) ==
    /\ pc[t] = "lock"
    /\ mu = None
    /\ \/ ~stdin.writer /\ Goto(t, "refused") /\ UNCHANGED mu
       \/ stdin.writer /\ (Goto(t, "write") \/ Goto(t, "hung")) /\ mu' = t
    /\ UNCHANGED <<mode, kind, late, tracked, stdin, conn, primer, closer, dockerVars, gone>>

\* A promotion closes stdin once its message is written.
AfterWrite(t) == IF t \in Writers /\ kind[t] = "promote" THEN "eof" ELSE "ok"

\* Mutant: the mutex stays locked when the write fails.
SendWriteKeepsLock(t) ==
    /\ pc[t] \in Writing
    /\ \/ pc[t] = "write" /\ conn = "open" /\ running /\ Goto(t, AfterWrite(t)) /\ mu' = None
       \/ (conn # "open" \/ ~running) /\ Goto(t, "failed") /\ UNCHANGED mu
    /\ UNCHANGED <<mode, kind, late, tracked, stdin, conn, primer, closer, dockerVars, gone>>

\* Write returns when the worker reads; a hung one when either side is closed.
SendWrite(t) ==
    /\ pc[t] \in Writing
    /\ \/ pc[t] = "write" /\ conn = "open" /\ running /\ Goto(t, AfterWrite(t))
       \/ (conn # "open" \/ ~running) /\ Goto(t, "failed")
    /\ mu' = None
    /\ UNCHANGED <<mode, kind, late, tracked, stdin, conn, primer, closer, dockerVars, gone>>
------------------------------------------------------------------------------
(* /end-session on a card; /chat/end and KillChat (/stop-all, shutdown).   *)

EndRequest(t, k) ==
    /\ pc[t] = "idle"
    /\ mode = "card" => k = "end"
    /\ kind' = [kind EXCEPT ![t] = k]
    /\ Goto(t, IF mode = "card" THEN "lookup" ELSE "snap")
    /\ late' = IF gone THEN late \cup {t} ELSE late
    /\ UNCHANGED <<mode, tracked, stdin, mu, conn, primer, closer, dockerVars, gone>>

SnapshotChat(t) ==
    /\ pc[t] = "snap"
    /\ \/ ~tracked /\ Goto(t, "refused")
       \/ tracked /\ Goto(t, "lookup")
    /\ UNCHANGED <<mode, kind, late, tracked, stdin, mu, conn, primer, closer, dockerVars, gone>>

\* /chat/end and /end-session answer 404 when the entry has gone; KillChat
\* stops the container all the same.
EndLookup(t) ==
    /\ pc[t] = "lookup"
    /\ \/ ~tracked /\ kind[t] = "end" /\ Goto(t, "refused")
       \/ ~tracked /\ kind[t] = "kill" /\ Goto(t, "stop")
       \/ tracked /\ ~stdin.alloc /\ mode = "card" /\ Goto(t, "refused")
       \/ tracked /\ ~stdin.alloc /\ mode = "chat" /\ Goto(t, "stop")
       \/ tracked /\ stdin.alloc /\ Goto(t, "close")
    /\ UNCHANGED <<mode, kind, late, tracked, stdin, mu, conn, primer, closer, dockerVars, gone>>

\* Closing twice is refused; closing what priming has force-closed is an error.
CloseResult == IF ~stdin.writer THEN "refused" ELSE IF conn = "open" THEN "ok" ELSE "failed"
AfterClose(t) ==
    IF mode = "card" \/ (kind[t] = "end" /\ CloseResult = "failed") THEN CloseResult ELSE "stop"

\* Mutant: the writer is closed and kept.
CloseStdinKeepsWriter(t) ==
    /\ pc[t] = "close"
    /\ mu = None
    /\ conn' = IF stdin.writer THEN "closed" ELSE conn
    /\ gone' = TRUE
    /\ Goto(t, AfterClose(t))
    /\ UNCHANGED <<mode, kind, late, tracked, stdin, mu, primer, closer, dockerVars>>

\* Under stdin.mu; an I/O error ends /chat/end before it stops the container.
CloseStdin(t) ==
    /\ pc[t] = "close"
    /\ mu = None
    /\ conn' = IF stdin.writer THEN "closed" ELSE conn
    /\ stdin' = [stdin EXCEPT !.writer = FALSE]
    /\ gone' = TRUE
    /\ Goto(t, AfterClose(t))
    /\ UNCHANGED <<mode, kind, late, tracked, mu, primer, closer, dockerVars>>
------------------------------------------------------------------------------
(* Stopping the container and removing the entry.                          *)

\* Manager.Stop and removeContainer; an error is logged.
AfterStop(t) == IF t \in Enders /\ kind[t] = "end" THEN "remove" ELSE "ok"
StopBox(t) ==
    /\ pc[t] = "stop"
    /\ \/ running' = FALSE /\ UNCHANGED faults
       \/ DockerFault
    /\ Goto(t, AfterStop(t))
    /\ UNCHANGED <<mode, requestVars, tracked, stdin, mu, conn, primer, closer, gone>>

\* A run whose start failed has already tried to remove its container.
AfterRemove(t) ==
    IF t \in Enders \/ (t = Cleaner /\ pc[Starter] = "failed") THEN "ok" ELSE "stop"

\* Remove and RemoveChat: whoever deletes the entry starts closeStdinAsync.
Remove(t) ==
    /\ pc[t] = "remove"
    /\ tracked' = FALSE
    /\ IF tracked /\ stdin.alloc
       THEN closer' = "lock" /\ Goto(t, "rmwait")
       ELSE UNCHANGED closer /\ Goto(t, AfterRemove(t))
    /\ UNCHANGED <<mode, requestVars, stdin, mu, conn, primer, dockerVars, gone>>

RemoveClosed(t) ==
    /\ pc[t] = "rmwait"
    /\ closer = "done"
    /\ Goto(t, AfterRemove(t))
    /\ UNCHANGED <<mode, requestVars, tracked, stdin, mu, conn, primer, closer, dockerVars, gone>>

\* stdinCloseTimeout: the close goes on in the background.
RemoveTimeout(t) ==
    /\ pc[t] = "rmwait"
    /\ closer # "done"
    /\ Goto(t, AfterRemove(t))
    /\ UNCHANGED <<mode, requestVars, tracked, stdin, mu, conn, primer, closer, dockerVars, gone>>

CloserLock ==
    /\ closer = "lock"
    /\ mu = None
    /\ conn' = IF stdin.writer THEN "closed" ELSE conn
    /\ closer' = IF stdin.onClose THEN "onclose" ELSE "done"
    /\ stdin' = [stdin EXCEPT !.writer = FALSE, !.onClose = FALSE]
    /\ UNCHANGED <<mode, pc, requestVars, tracked, mu, primer, dockerVars, gone>>

CloserOnClose ==
    /\ closer = "onclose"
    /\ conn' = "closed"
    /\ closer' = "done"
    /\ UNCHANGED <<mode, pc, requestVars, tracked, stdin, mu, primer, dockerVars, gone>>
------------------------------------------------------------------------------
(* The cleaner and the world outside.                                      *)

CleanerSeesExit ==
    /\ pc[Cleaner] = "wait"
    /\ ~running
    /\ Goto(Cleaner, "remove")
    /\ UNCHANGED <<mode, requestVars, tracked, stdin, mu, conn, primer, closer, dockerVars, gone>>

\* A card's run is cancelled or times out, a chat reaches its lifetime.
CleanerStops ==
    /\ pc[Cleaner] = "wait"
    /\ mode = "card" \/ ChatLifetime
    /\ \/ running' = FALSE /\ UNCHANGED faults
       \/ DockerFault
    /\ Goto(Cleaner, "remove")
    /\ UNCHANGED <<mode, requestVars, tracked, stdin, mu, conn, primer, closer, gone>>

\* ContainerWait fails: a chat is removed without being stopped first.
CleanerWaitError ==
    /\ pc[Cleaner] = "wait"
    /\ mode = "chat"
    /\ DockerFault
    /\ Goto(Cleaner, "remove")
    /\ UNCHANGED <<mode, requestVars, tracked, stdin, mu, conn, primer, closer, gone>>

ContainerExits ==
    /\ running
    /\ running' = FALSE
    /\ UNCHANGED <<mode, pc, requestVars, tracked, stdin, mu, conn, primer, closer, faults, gone>>

\* The maintenance sweep removes a container that has no entry.
CleanupOrphans ==
    /\ ~tracked
    /\ running
    /\ running' = FALSE
    /\ UNCHANGED <<mode, pc, requestVars, tracked, stdin, mu, conn, primer, closer, faults, gone>>
------------------------------------------------------------------------------
StarterStep ==
    \/ ContainerAttach \/ AttachFails \/ SetStdin \/ SetStdinLate
    \/ SkipPriming \/ PrimingDone \/ PrimingTimeout \/ ForceClose \/ MarkStdinClosed
    \/ EOFLookup(Starter) \/ EOFClose(Starter)
    \/ \E p \in Primers : StartPriming(p)

SendStep(t) == SendLookup(t) \/ SendLock(t) \/ SendWrite(t)
PromoteStep(t) == EOFLookup(t) \/ EOFClose(t)
EndStep(t)  == SnapshotChat(t) \/ EndLookup(t) \/ CloseStdin(t)
TearDown(t) == StopBox(t) \/ Remove(t) \/ RemoveClosed(t) \/ RemoveTimeout(t)
CloserStep  == CloserLock \/ CloserOnClose
CleanerStep == CleanerSeesExit \/ CleanerStops

Next ==
    \/ StarterStep
    \/ \E t \in Writers : PromoteStep(t) \/ \E k \in {"message", "promote"} : SendRequest(t, k)
    \/ \E t \in Senders : SendStep(t)
    \/ \E t \in Enders : EndStep(t) \/ \E k \in {"end", "kill"} : EndRequest(t, k)
    \/ \E t \in Enders \cup {Starter, Cleaner} : TearDown(t)
    \/ CloserStep
    \/ CleanerStep \/ CleanerWaitError
    \/ ContainerExits \/ CleanupOrphans

Spec == Init /\ [][Next]_vars

\* Every goroutine that can move does, timers fire, the maintenance loop goes
\* on.  Clients need not call, the worker need not read or exit.
Fairness ==
    /\ WF_vars(StarterStep) /\ WF_vars(CloserStep) /\ WF_vars(CleanerStep)
    /\ WF_vars(CleanupOrphans)
    /\ \A t \in Senders : WF_vars(SendStep(t))
    /\ \A t \in Writers : WF_vars(PromoteStep(t))
    /\ \A t \in Enders : WF_vars(EndStep(t))
    /\ \A t \in Enders \cup {Starter, Cleaner} : WF_vars(TearDown(t))

FairSpec == Spec /\ Fairness
------------------------------------------------------------------------------
\* Two messages never share the wire: a stream-json line is written whole or
\* cut short by an error, never mixed with another one.
FramesDontInterleave ==
    \A s, t \in Senders : pc[s] \in Writing /\ pc[t] \in Writing => s = t

\* The registry offers a writer only while its connection is open, except for
\* the moment between the forced close of a card's priming and the mark.
WriterIsLive ==
    stdin.writer => conn = "open" \/ pc[Starter] = "mark"

\* Once a close has been reported, a request that begins later is told so
\* (410 Gone, 404): it neither succeeds nor sees the I/O error of a closed
\* connection (MarkStdinClosed's comment).
ClosedMeansGone ==
    \A t \in late : ~(mode = "chat" /\ t \in Enders) => pc[t] \notin {"ok", "failed"}

\* A priming write that hangs does not hang the starter.
PrimingReturns == pc[Starter] \in {"wait", "eof"} ~> pc[Starter] = "prime"

\* Whatever the worker does with its stdin, a request is answered.
RequestsAnswered ==
    \A t \in Writers \cup Enders : pc[t] # "idle" ~> pc[t] \in Done

\* The hijacked connection is closed in the end, also when the entry is
\* removed before SetStdin reaches it.
ConnReleased == conn = "open" ~> conn = "closed"
==============================================================================

------------------------- MODULE ChatSessionsProofs --------------------------
(***************************************************************************)
(* Proofs about ChatSessions: type correctness, no entry without a cleanup *)
(* ahead of it, and nothing of an answered and cleaned up start left on    *)
(* the host or in the manager's maps.                                      *)
(*                                                                         *)
(* What a start has left behind depends on how far its handler and its     *)
(* cleaner came, so the invariant says it for every pair of the two, and   *)
(* says which pairs there are: the cleaner runs from "spawn" on and not    *)
(* before.                                                                 *)
(***************************************************************************)
EXTENDS ChatSessions, TrackerProofs

USE DEF Chats, trackerVars, chatVars, hostVars, boxVars, procVars

Attended == {"attach", "stream", "unreg", "unstop", "ok"}
Ahead    == {"start", "wait", "remove"}

\* Nothing of the start l is on the host or in the manager's maps.
Clear(l) == dir[l] = FALSE /\ secrets[l] = FALSE /\ stash[l] = "none"

\* Somebody will still remove the entry of l.
Holding(l) == pc[l] = "spawn" \/ cleaner[l] \in Ahead

ChatOK(l) ==
    /\ pc[l] # "idle" => session[l] \in Keys
    /\ cleaner[l] # "off" => pc[l] \in Attended \cup {"failed"}
    /\ pc[l] \in Attended => cleaner[l] # "off"
    /\ \/ pc[l] \in Before
       \/ cleaner[l] = "done"
       \/ pc[l] \in {"rejected", "failed"} /\ cleaner[l] = "off"
       => Clear(l)
    /\ pc[l] = "start" => secrets[l] = FALSE /\ stash[l] = "none"

ChatInv  == \A l \in Chats : ChatOK(l)
EnderInv == \A e \in Enders : enders[e].pc # "idle" => enders[e].key \in Keys

Inv == TypeOK /\ ChatInv /\ EnderInv /\ EntryHasCleaner
------------------------------------------------------------------------------
(* The pieces.                                                             *)

ChatTypeOK ==
    /\ pc \in [Chats -> PCs]
    /\ session \in [Chats -> Keys \cup {None}]
    /\ cleaner \in [Chats -> Cleaners]
HostTypeOK ==
    /\ dir \in [Chats -> BOOLEAN] /\ secrets \in [Chats -> BOOLEAN]
    /\ stash \in [Chats -> {"none", "map", "cleaner"}]
BoxTypeOK == box \in [Chats -> {"none", "gone"} \cup Exists] /\ faults \in Nat
RestTypeOK ==
    /\ enders \in [Enders -> EnderState]
    /\ sweep \in SweepState
    /\ proc \in {"up", "draining", "down", "boot"}
    /\ crashes \in Nat

LEMMA TypeParts ==
    /\ TypeOK <=> TrackerTypeOK /\ ChatTypeOK /\ HostTypeOK /\ BoxTypeOK /\ RestTypeOK
    /\ TypeOK' <=> TrackerTypeOK' /\ ChatTypeOK' /\ HostTypeOK' /\ BoxTypeOK' /\ RestTypeOK'
BY DEF TypeOK, ChatTypeOK, HostTypeOK, BoxTypeOK, RestTypeOK

\* ForceRemove removes a container unless Docker fails.
LEMMA ForceRemoveType == ASSUME BoxTypeOK, NEW l, ForceRemove(l) PROVE BoxTypeOK'
BY DEF BoxTypeOK, ForceRemove, DockerOK, DockerFault

\* A step of the start l, of its cleaner, or of the sweep of its directory.
Focus(l) ==
    \A m \in Chats : m # l =>
        /\ pc'[m] = pc[m] /\ session'[m] = session[m] /\ cleaner'[m] = cleaner[m]
        /\ dir'[m] = dir[m] /\ secrets'[m] = secrets[m] /\ stash'[m] = stash[m]

LEMMA FocusChat ==
    ASSUME ChatInv, NEW l \in Chats, Focus(l), ChatOK(l)'
    PROVE  ChatInv'
<1> SUFFICES ASSUME NEW m \in Chats PROVE ChatOK(m)'
  BY DEF ChatInv
<1>1. CASE m = l
  BY <1>1
<1>2. CASE m # l
  <2>1. ChatOK(m)
    BY DEF ChatInv
  <2>2. /\ pc'[m] = pc[m] /\ session'[m] = session[m] /\ cleaner'[m] = cleaner[m]
        /\ dir'[m] = dir[m] /\ secrets'[m] = secrets[m] /\ stash'[m] = stash[m]
    BY <1>2 DEF Focus
  <2> QED
    BY <2>1, <2>2 DEF ChatOK, Clear
<1> QED
  BY <1>1, <1>2

LEMMA OwnerType ==
    ASSUME TrackerTypeOK
    PROVE  \A k \in Keys : entries[k].owner \in Owners \cup {None} /\ entries[k].cid \in Owners \cup {None}
BY DEF TrackerTypeOK, Entry

\* No entry appears but that of l, and whoever holds one is still ahead of its
\* removal.
LEMMA FocusEntry ==
    ASSUME Inv, TrackerTypeOK', NEW l \in Chats, Focus(l),
           \A k \in Keys : entries'[k].owner \in {entries[k].owner, None, l},
           \A k \in Keys : entries'[k].owner = l => session'[l] = k /\ Holding(l)'
    PROVE  EntryHasCleaner'
<1> SUFFICES ASSUME NEW k \in Keys, entries'[k].owner # None
             PROVE  LET m == entries'[k].owner
                    IN  session'[m] = k /\ (pc'[m] = "spawn" \/ cleaner'[m] \in {"start", "wait", "remove"})
  BY DEF EntryHasCleaner, Has
<1> DEFINE m == entries'[k].owner
<1>1. m \in Owners
  BY OwnerType DEF TrackerTypeOK, Entry
<1>2. CASE m = l
  BY <1>2 DEF Holding, Ahead
<1>3. CASE m # l
  <2>1. m = entries[k].owner
    BY <1>3
  <2>2. session[m] = k /\ (pc[m] = "spawn" \/ cleaner[m] \in {"start", "wait", "remove"})
    BY <2>1 DEF Inv, EntryHasCleaner, Has
  <2> QED
    BY <1>1, <1>3, <2>2 DEF Focus
<1> QED
  BY <1>2, <1>3

\* The same for a step that leaves the registry alone.
LEMMA FocusKeeps ==
    ASSUME Inv, NEW l \in Chats, Focus(l), UNCHANGED trackerVars,
           Holding(l) => session'[l] = session[l] /\ Holding(l)'
    PROVE  EntryHasCleaner'
<1>1. TrackerTypeOK' /\ \A k \in Keys : entries'[k].owner = entries[k].owner
  BY DEF Inv, TypeOK, TrackerTypeOK
<1>2. ASSUME NEW k \in Keys, entries[k].owner = l PROVE session[l] = k /\ Holding(l)
  <2>1. l # None
    BY TrackerAssumption
  <2> QED
    BY <1>2, <2>1 DEF Inv, EntryHasCleaner, Has, Holding, Ahead
<1> QED
  BY <1>1, <1>2, FocusEntry
------------------------------------------------------------------------------
(* The handler of /chat/start.                                             *)

\* A step of a start or its cleaner, put together.
LEMMA Moves ==
    ASSUME Inv, NEW l \in Chats, TrackerTypeOK', ChatTypeOK', HostTypeOK', BoxTypeOK',
           UNCHANGED <<enders, sweep, proc, crashes>>, Focus(l), ChatOK(l)', EntryHasCleaner'
    PROVE  Inv'
<1>1. RestTypeOK'
  BY TypeParts DEF Inv, RestTypeOK
<1>2. TypeOK' /\ ChatInv'
  BY <1>1, TypeParts, FocusChat DEF Inv
<1>3. EnderInv'
  BY DEF Inv, EnderInv
<1> QED
  BY <1>2, <1>3 DEF Inv

LEMMA Known ==
    ASSUME Inv, NEW l \in Chats
    PROVE  TrackerTypeOK /\ ChatTypeOK /\ HostTypeOK /\ BoxTypeOK /\ ChatOK(l)
BY TypeParts DEF Inv, ChatInv

\* The handler goes on, and neither the registry nor the host changes.
LEMMA HandlerMoves ==
    ASSUME Inv, NEW l \in Chats, NEW x, Goto(l, x),
           \/ pc[l] = "create" /\ x = "failed"
           \/ pc[l] = "register" /\ x = "rollback"
           \/ pc[l] = "rollback" /\ x = "discard"
           \/ pc[l] = "attach" /\ x \in {"stream", "unreg"}
           \/ pc[l] = "unstop" /\ x = "failed",
           BoxTypeOK', UNCHANGED <<trackerVars, cleaner, hostVars>>, HandlerUnchanged
    PROVE  Inv'
<1>1. TrackerTypeOK /\ ChatTypeOK /\ HostTypeOK /\ ChatOK(l)
  BY Known
<1>2. /\ pc' = [pc EXCEPT ![l] = x]
      /\ UNCHANGED <<entries, ctx, session, cleaner, dir, stash, secrets, enders, sweep, proc, crashes>>
  BY DEF Goto, HandlerUnchanged
<1>3. TrackerTypeOK' /\ HostTypeOK'
  BY <1>1, <1>2 DEF TrackerTypeOK, HostTypeOK
<1>4. ChatTypeOK' /\ pc'[l] = x /\ Focus(l)
  BY <1>1, <1>2 DEF ChatTypeOK, Focus, PCs, Before, Starting, Answered
<1>5. ChatOK(l)'
  BY <1>1, <1>2, <1>4 DEF ChatOK, Clear, Before, Attended
<1>6. EntryHasCleaner'
  BY <1>2, <1>4, FocusKeeps DEF Holding
<1> QED
  BY <1>2, <1>3, <1>4, <1>5, <1>6, Moves

LEMMA ChatStartStep == ASSUME Inv, NEW l \in Chats, NEW k \in Keys, ChatStart(l, k) PROVE Inv'
<1>1. /\ pc[l] = "idle" /\ pc' = [pc EXCEPT ![l] = IF AddRefused(k) THEN "rejected" ELSE "create"]
      /\ session' = [session EXCEPT ![l] = k]
      /\ UNCHANGED <<entries, ctx, cleaner, box, faults, dir, stash, secrets, enders, sweep, proc, crashes>>
  BY DEF ChatStart, Goto
<1>2. ChatTypeOK /\ ChatOK(l) /\ EnderInv
  BY DEF Inv, TypeOK, ChatTypeOK, ChatInv
<1>3. ChatTypeOK' /\ pc'[l] \in {"rejected", "create"} /\ session'[l] = k /\ Focus(l)
  BY <1>1, <1>2 DEF ChatTypeOK, Focus, PCs, Before, Answered
<1>4. TrackerTypeOK' /\ HostTypeOK' /\ BoxTypeOK'
  BY <1>1, Known DEF TrackerTypeOK, HostTypeOK, BoxTypeOK
<1>5. ChatOK(l)'
  BY <1>1, <1>2, <1>3 DEF ChatOK, Clear, Before, Attended
<1>6. EntryHasCleaner'
  <2>1. ~Holding(l)
    BY <1>1, <1>2 DEF ChatOK, Holding, Ahead, Attended
  <2> QED
    BY <1>1, <1>3, <2>1, FocusKeeps
<1> QED
  BY <1>1, <1>3, <1>4, <1>5, <1>6, Moves

\* The handler goes on and changes what is on the host or in the manager's maps,
\* but neither the registry nor the cleaner.
LEMMA HostMoves ==
    ASSUME Inv, NEW l \in Chats,
           ContainerCreate(l) \/ ContainerStart(l) \/ StartFails(l) \/ DeleteChatCleanup(l)
             \/ StreamChatLogs(l)
    PROVE  Inv'
<1>1. TrackerTypeOK /\ ChatTypeOK /\ HostTypeOK /\ BoxTypeOK /\ ChatOK(l)
  BY Known
<1>2. UNCHANGED <<entries, ctx, session, cleaner, enders, sweep, proc, crashes>>
  BY DEF ContainerCreate, ContainerStart, StartFails, DeleteChatCleanup, StreamChatLogs,
         HandlerUnchanged
<1>3. TrackerTypeOK'
  BY <1>1, <1>2 DEF TrackerTypeOK
<1>4. BoxTypeOK'
  <2>1. CASE ContainerCreate(l) \/ ContainerStart(l)
    BY <1>1, <2>1 DEF ContainerCreate, ContainerStart, BoxTypeOK, DockerOK, Exists
  <2>2. CASE StartFails(l)
    BY <1>1, <2>2, ForceRemoveType DEF StartFails
  <2>3. CASE DeleteChatCleanup(l) \/ StreamChatLogs(l)
    BY <1>1, <2>3 DEF DeleteChatCleanup, StreamChatLogs, BoxTypeOK
  <2> QED
    BY <2>1, <2>2, <2>3
<1>5. CASE ContainerCreate(l)
  <2>1. PICK b \in BOOLEAN : dir' = [dir EXCEPT ![l] = b]
    BY <1>5 DEF ContainerCreate, PrepareChatResume
  <2>2. /\ pc[l] = "create" /\ pc' = [pc EXCEPT ![l] = "start"] /\ UNCHANGED <<stash, secrets>>
    BY <1>5 DEF ContainerCreate, Goto
  <2>3. HostTypeOK'
    BY <1>1, <2>1, <2>2 DEF HostTypeOK
  <2>4. ChatTypeOK' /\ pc'[l] = "start" /\ Focus(l)
    BY <1>1, <1>2, <2>1, <2>2 DEF ChatTypeOK, HostTypeOK, Focus, PCs, Starting
  <2>5. ChatOK(l)'
    BY <1>1, <1>2, <2>2, <2>4 DEF ChatOK, Clear, Before, Attended
  <2>6. EntryHasCleaner'
    BY <1>2, <2>2, <2>4, FocusKeeps DEF Holding
  <2> QED
    BY <1>2, <1>3, <1>4, <2>3, <2>4, <2>5, <2>6, Moves
<1>6. CASE ContainerStart(l)
  <2>1. /\ pc[l] = "start" /\ pc' = [pc EXCEPT ![l] = "register"] /\ UNCHANGED dir
        /\ stash' = [stash EXCEPT ![l] = "map"] /\ secrets' = [secrets EXCEPT ![l] = TRUE]
    BY <1>6 DEF ContainerStart, Goto
  <2>2. HostTypeOK'
    BY <1>1, <2>1 DEF HostTypeOK
  <2>3. ChatTypeOK' /\ pc'[l] = "register" /\ Focus(l)
    BY <1>1, <1>2, <2>1 DEF ChatTypeOK, HostTypeOK, Focus, PCs, Starting
  <2>4. ChatOK(l)'
    BY <1>1, <1>2, <2>1, <2>3 DEF ChatOK, Before, Attended
  <2>5. EntryHasCleaner'
    BY <1>2, <2>1, <2>3, FocusKeeps DEF Holding
  <2> QED
    BY <1>2, <1>3, <1>4, <2>2, <2>3, <2>4, <2>5, Moves
<1>7. CASE StartFails(l)
  <2>1. /\ pc[l] = "start" /\ pc' = [pc EXCEPT ![l] = "failed"]
        /\ dir' = [dir EXCEPT ![l] = FALSE] /\ UNCHANGED <<stash, secrets>>
    BY <1>7 DEF StartFails, Goto, RemoveChatResume
  <2>2. HostTypeOK' /\ dir'[l] = FALSE
    BY <1>1, <2>1 DEF HostTypeOK
  <2>3. ChatTypeOK' /\ pc'[l] = "failed" /\ Focus(l)
    BY <1>1, <1>2, <2>1 DEF ChatTypeOK, HostTypeOK, Focus, PCs, Answered
  <2>4. ChatOK(l)'
    BY <1>1, <1>2, <2>1, <2>2, <2>3 DEF ChatOK, Clear, Before, Attended
  <2>5. EntryHasCleaner'
    BY <1>2, <2>1, <2>3, FocusKeeps DEF Holding
  <2> QED
    BY <1>2, <1>3, <1>4, <2>2, <2>3, <2>4, <2>5, Moves
<1>8. CASE DeleteChatCleanup(l)
  <2>1. /\ pc[l] = "discard" /\ pc' = [pc EXCEPT ![l] = "rejected"]
        /\ dir' = [dir EXCEPT ![l] = FALSE] /\ stash' = [stash EXCEPT ![l] = "none"]
        /\ secrets' = [secrets EXCEPT ![l] = FALSE]
    BY <1>8 DEF DeleteChatCleanup, Goto, RemoveChatResume
  <2>2. HostTypeOK' /\ Clear(l)'
    BY <1>1, <2>1 DEF HostTypeOK, Clear
  <2>3. ChatTypeOK' /\ pc'[l] = "rejected" /\ Focus(l)
    BY <1>1, <1>2, <2>1 DEF ChatTypeOK, HostTypeOK, Focus, PCs, Answered
  <2>4. ChatOK(l)'
    BY <1>1, <1>2, <2>1, <2>2, <2>3 DEF ChatOK, Before, Attended
  <2>5. EntryHasCleaner'
    BY <1>2, <2>1, <2>3, FocusKeeps DEF Holding
  <2> QED
    BY <1>2, <1>3, <1>4, <2>2, <2>3, <2>4, <2>5, Moves
<1>9. CASE StreamChatLogs(l)
  <2>1. /\ pc[l] = "stream" /\ pc' = [pc EXCEPT ![l] = "ok"] /\ UNCHANGED <<dir, stash>>
        /\ secrets' = [secrets EXCEPT ![l] = FALSE]
    BY <1>9 DEF StreamChatLogs, Goto
  <2>2. HostTypeOK' /\ secrets'[l] = FALSE
    BY <1>1, <2>1 DEF HostTypeOK
  <2>3. ChatTypeOK' /\ pc'[l] = "ok" /\ Focus(l)
    BY <1>1, <1>2, <2>1 DEF ChatTypeOK, HostTypeOK, Focus, PCs, Answered
  <2>4. ChatOK(l)'
    BY <1>1, <1>2, <2>1, <2>2, <2>3 DEF ChatOK, Clear, Before, Attended
  <2>5. EntryHasCleaner'
    BY <1>2, <2>1, <2>3, FocusKeeps DEF Holding
  <2> QED
    BY <1>2, <1>3, <1>4, <2>2, <2>3, <2>4, <2>5, Moves
<1> QED
  BY <1>5, <1>6, <1>7, <1>8, <1>9

LEMMA RegisterStep == ASSUME Inv, NEW l \in Chats, Register(l) PROVE Inv'
<1>1. TrackerTypeOK /\ ChatTypeOK /\ HostTypeOK /\ BoxTypeOK /\ ChatOK(l)
  BY Known
<1>2. /\ pc[l] = "register" /\ pc' = [pc EXCEPT ![l] = "spawn"] /\ AddChatIfUnderLimit(session[l], l)
      /\ UNCHANGED <<session, cleaner, box, faults, dir, stash, secrets, enders, sweep, proc, crashes>>
  BY DEF Register, Goto, HandlerUnchanged
<1>3. session[l] \in Keys
  BY <1>1, <1>2 DEF ChatOK
<1>4. TrackerTypeOK' /\ OthersKept(session[l]) /\ entries'[session[l]].owner = l
  BY <1>1, <1>2, <1>3, AddChatEffect
<1>5. HostTypeOK' /\ BoxTypeOK'
  BY <1>1, <1>2 DEF HostTypeOK, BoxTypeOK
<1>6. ChatTypeOK' /\ pc'[l] = "spawn" /\ Focus(l)
  BY <1>1, <1>2 DEF ChatTypeOK, Focus, PCs
<1>7. ChatOK(l)'
  BY <1>1, <1>2, <1>6 DEF ChatOK, Before, Attended
<1>8. EntryHasCleaner'
  <2>1. ~Holding(l)
    BY <1>1, <1>2 DEF ChatOK, Holding, Ahead, Attended
  <2>2. \A k \in Keys : entries[k].owner # l
    <3>1. l # None
      BY TrackerAssumption
    <3> QED
      BY <2>1, <3>1 DEF Inv, EntryHasCleaner, Has, Holding, Ahead
  <2>3. \A k \in Keys : entries'[k].owner \in {entries[k].owner, None, l}
    BY <1>4 DEF OthersKept
  <2>4. \A k \in Keys : entries'[k].owner = l => session'[l] = k /\ Holding(l)'
    BY <1>2, <1>4, <1>6, <2>2 DEF OthersKept, Holding
  <2> QED
    BY <1>4, <1>6, <2>3, <2>4, FocusEntry
<1> QED
  BY <1>2, <1>4, <1>5, <1>6, <1>7, <1>8, Moves

\* The removal by session id, by the handler after a failed attach or by the
\* cleaner: afterwards no entry is that of l.
LEMMA RemovalEntries ==
    ASSUME Inv, NEW l \in Chats, session[l] \in Keys, Remove(session[l], l), Focus(l)
    PROVE  TrackerTypeOK' /\ EntryHasCleaner'
<1>1. /\ TrackerTypeOK' /\ OthersKept(session[l]) /\ entries'[session[l]].owner = None
  BY Known, RemoveEffect
<1>2. l # None
  BY TrackerAssumption
<1>3. \A k \in Keys : entries'[k].owner \in {entries[k].owner, None, l}
  BY <1>1 DEF OthersKept
<1>4. \A k \in Keys : entries'[k].owner # l
  <2> SUFFICES ASSUME NEW k \in Keys, entries'[k].owner = l PROVE FALSE
    OBVIOUS
  <2>1. k # session[l] /\ entries[k].owner = l
    BY <1>1, <1>2 DEF OthersKept
  <2> QED
    BY <1>2, <2>1 DEF Inv, EntryHasCleaner, Has
<1> QED
  BY <1>1, <1>3, <1>4, FocusEntry

LEMMA AttachRemoveStep == ASSUME Inv, NEW l \in Chats, AttachRemove(l) PROVE Inv'
<1>1. TrackerTypeOK /\ ChatTypeOK /\ HostTypeOK /\ BoxTypeOK /\ ChatOK(l)
  BY Known
<1>2. /\ pc[l] = "unreg" /\ pc' = [pc EXCEPT ![l] = "unstop"] /\ Remove(session[l], l)
      /\ UNCHANGED <<session, cleaner, box, faults, dir, stash, secrets, enders, sweep, proc, crashes>>
  BY DEF AttachRemove, Goto, HandlerUnchanged
<1>3. ChatTypeOK' /\ pc'[l] = "unstop" /\ Focus(l)
  BY <1>1, <1>2 DEF ChatTypeOK, Focus, PCs
<1>4. TrackerTypeOK' /\ EntryHasCleaner'
  BY <1>1, <1>2, <1>3, RemovalEntries DEF ChatOK
<1>5. HostTypeOK' /\ BoxTypeOK'
  BY <1>1, <1>2 DEF HostTypeOK, BoxTypeOK
<1>6. ChatOK(l)'
  BY <1>1, <1>2, <1>3 DEF ChatOK, Clear, Before, Attended
<1> QED
  BY <1>2, <1>3, <1>4, <1>5, <1>6, Moves

LEMMA SpawnStep == ASSUME Inv, NEW l \in Chats, SpawnCleaner(l) PROVE Inv'
<1>1. TrackerTypeOK /\ ChatTypeOK /\ HostTypeOK /\ BoxTypeOK /\ ChatOK(l)
  BY Known
<1>2. /\ pc[l] = "spawn" /\ pc' = [pc EXCEPT ![l] = "attach"]
      /\ cleaner' = [cleaner EXCEPT ![l] = "start"]
      /\ UNCHANGED <<entries, ctx, session, box, faults, dir, stash, secrets, enders, sweep, proc, crashes>>
  BY DEF SpawnCleaner, Goto, HandlerUnchanged
<1>3. ChatTypeOK' /\ pc'[l] = "attach" /\ cleaner'[l] = "start" /\ Focus(l)
  BY <1>1, <1>2 DEF ChatTypeOK, Focus, PCs, Cleaners
<1>4. TrackerTypeOK' /\ HostTypeOK' /\ BoxTypeOK'
  BY <1>1, <1>2 DEF TrackerTypeOK, HostTypeOK, BoxTypeOK
<1>5. ChatOK(l)'
  BY <1>1, <1>2, <1>3 DEF ChatOK, Before, Attended
<1>6. EntryHasCleaner'
  BY <1>2, <1>3, FocusKeeps DEF Holding, Ahead
<1> QED
  BY <1>2, <1>3, <1>4, <1>5, <1>6, Moves

LEMMA HandlerStepInv == ASSUME Inv, NEW l \in Chats, HandlerStep(l) PROVE Inv'
<1>1. BoxTypeOK
  BY Known
<1>2. CASE CreateFails(l) \/ RegisterRefused(l) \/ Attach(l) \/ AttachFails(l)
  <2>1. BoxTypeOK'
    BY <1>1, <1>2 DEF CreateFails, RegisterRefused, Attach, AttachFails, BoxTypeOK
  <2> QED
    BY <1>2, <2>1, HandlerMoves DEF CreateFails, RegisterRefused, Attach, AttachFails
<1>3. CASE RollbackStop(l) \/ AttachStop(l)
  <2>1. BoxTypeOK'
    BY <1>1, <1>3, ForceRemoveType DEF RollbackStop, AttachStop
  <2> QED
    BY <1>3, <2>1, HandlerMoves DEF RollbackStop, AttachStop
<1> QED
  BY <1>2, <1>3, HostMoves, RegisterStep, AttachRemoveStep, SpawnStep DEF HandlerStep
------------------------------------------------------------------------------
(* The cleaner.                                                            *)

LEMMA CleanerStepInv ==
    ASSUME Inv, NEW l \in Chats, CleanerStep(l) \/ CleanerWaitError(l) \/ CleanerLifetime(l)
    PROVE  Inv'
<1>1. TrackerTypeOK /\ ChatTypeOK /\ HostTypeOK /\ BoxTypeOK /\ ChatOK(l)
  BY Known
<1>2. UNCHANGED <<pc, session, enders, sweep, proc, crashes>>
  BY DEF CleanerStep, CleanerStart, CleanerSeesExit, CleanerRemove, CleanerReap, CleanerTidy,
         CleanerWaitError, CleanerLifetime, CleanerUnchanged
<1>3. CASE CleanerSeesExit(l) \/ CleanerWaitError(l) \/ CleanerLifetime(l)
  <2>1. /\ cleaner[l] = "wait" /\ cleaner' = [cleaner EXCEPT ![l] = "remove"]
        /\ UNCHANGED <<entries, ctx, dir, stash, secrets>>
    BY <1>3 DEF CleanerSeesExit, CleanerWaitError, CleanerLifetime, CleanerGoto
  <2>2. ChatTypeOK' /\ cleaner'[l] = "remove" /\ Focus(l)
    BY <1>1, <1>2, <2>1 DEF ChatTypeOK, Focus, Cleaners
  <2>3. TrackerTypeOK' /\ HostTypeOK'
    BY <1>1, <2>1 DEF TrackerTypeOK, HostTypeOK
  <2>4. BoxTypeOK'
    BY <1>1, <1>3 DEF CleanerSeesExit, CleanerWaitError, CleanerLifetime, DockerOK, DockerFault,
       BoxTypeOK, Exists
  <2>5. ChatOK(l)'
    BY <1>1, <1>2, <2>1, <2>2 DEF ChatOK, Clear
  <2>6. EntryHasCleaner'
    BY <1>2, <2>1, <2>2, FocusKeeps DEF Holding, Ahead
  <2> QED
    BY <1>2, <2>2, <2>3, <2>4, <2>5, <2>6, Moves
<1>4. CASE CleanerStart(l)
  <2>1. /\ cleaner[l] = "start" /\ cleaner' = [cleaner EXCEPT ![l] = "wait"]
        /\ stash' = [stash EXCEPT ![l] = "cleaner"]
        /\ UNCHANGED <<entries, ctx, box, faults, dir, secrets>>
    BY <1>4 DEF CleanerStart, CleanerGoto
  <2>2. ChatTypeOK' /\ cleaner'[l] = "wait" /\ Focus(l)
    BY <1>1, <1>2, <2>1 DEF ChatTypeOK, HostTypeOK, Focus, Cleaners
  <2>3. TrackerTypeOK' /\ HostTypeOK' /\ BoxTypeOK'
    BY <1>1, <2>1 DEF TrackerTypeOK, HostTypeOK, BoxTypeOK
  <2>4. ChatOK(l)'
    BY <1>1, <1>2, <2>1, <2>2 DEF ChatOK, Before, Attended
  <2>5. EntryHasCleaner'
    BY <1>2, <2>1, <2>2, FocusKeeps DEF Holding, Ahead
  <2> QED
    BY <1>2, <2>2, <2>3, <2>4, <2>5, Moves
<1>5. CASE CleanerRemove(l)
  <2>1. /\ cleaner[l] = "remove" /\ cleaner' = [cleaner EXCEPT ![l] = "reap"]
        /\ Remove(session[l], l) /\ UNCHANGED <<box, faults, dir, stash, secrets>>
    BY <1>5 DEF CleanerRemove, CleanerGoto
  <2>2. ChatTypeOK' /\ cleaner'[l] = "reap" /\ Focus(l)
    BY <1>1, <1>2, <2>1 DEF ChatTypeOK, Focus, Cleaners
  <2>3. session[l] \in Keys
    BY <1>1, <2>1 DEF ChatOK, Attended
  <2>4. TrackerTypeOK' /\ EntryHasCleaner'
    BY <2>1, <2>2, <2>3, RemovalEntries
  <2>5. HostTypeOK' /\ BoxTypeOK'
    BY <1>1, <2>1 DEF HostTypeOK, BoxTypeOK
  <2>6. ChatOK(l)'
    BY <1>1, <1>2, <2>1, <2>2 DEF ChatOK, Clear
  <2> QED
    BY <1>2, <2>2, <2>4, <2>5, <2>6, Moves
<1>6. CASE CleanerReap(l)
  <2>1. /\ cleaner[l] = "reap" /\ cleaner' = [cleaner EXCEPT ![l] = "tidy"] /\ ForceRemove(l)
        /\ UNCHANGED <<entries, ctx, dir, stash, secrets>>
    BY <1>6 DEF CleanerReap, CleanerGoto
  <2>2. ChatTypeOK' /\ cleaner'[l] = "tidy" /\ Focus(l)
    BY <1>1, <1>2, <2>1 DEF ChatTypeOK, Focus, Cleaners
  <2>3. TrackerTypeOK' /\ HostTypeOK' /\ BoxTypeOK'
    BY <1>1, <2>1, ForceRemoveType DEF TrackerTypeOK, HostTypeOK
  <2>4. ChatOK(l)'
    BY <1>1, <1>2, <2>1, <2>2 DEF ChatOK, Clear
  <2>5. EntryHasCleaner'
    <3>1. ~Holding(l)
      BY <1>1, <2>1 DEF ChatOK, Holding, Ahead, Attended
    <3> QED
      BY <2>1, <2>2, <3>1, FocusKeeps
  <2> QED
    BY <1>2, <2>2, <2>3, <2>4, <2>5, Moves
<1>7. CASE CleanerTidy(l)
  <2>1. /\ cleaner[l] = "tidy" /\ cleaner' = [cleaner EXCEPT ![l] = "done"]
        /\ dir' = [dir EXCEPT ![l] = FALSE] /\ stash' = [stash EXCEPT ![l] = "none"]
        /\ secrets' = [secrets EXCEPT ![l] = FALSE] /\ UNCHANGED <<entries, ctx, box, faults>>
    BY <1>7 DEF CleanerTidy, CleanerGoto, RemoveChatResume
  <2>2. ChatTypeOK' /\ cleaner'[l] = "done" /\ Focus(l)
    BY <1>1, <1>2, <2>1 DEF ChatTypeOK, HostTypeOK, Focus, Cleaners
  <2>3. TrackerTypeOK' /\ HostTypeOK' /\ BoxTypeOK' /\ Clear(l)'
    BY <1>1, <2>1 DEF TrackerTypeOK, HostTypeOK, BoxTypeOK, Clear
  <2>4. ChatOK(l)'
    BY <1>1, <1>2, <2>1, <2>2, <2>3 DEF ChatOK, Clear
  <2>5. EntryHasCleaner'
    <3>1. ~Holding(l)
      BY <1>1, <2>1 DEF ChatOK, Holding, Ahead, Attended
    <3> QED
      BY <2>1, <2>2, <3>1, FocusKeeps
  <2> QED
    BY <1>2, <2>2, <2>3, <2>4, <2>5, Moves
<1> QED
  BY <1>3, <1>4, <1>5, <1>6, <1>7 DEF CleanerStep
------------------------------------------------------------------------------
(* The world around a start.                                               *)

\* The sweep of a resume directory, and a container that exits by itself.
LEMMA BesideStep == ASSUME Inv, NEW l \in Chats, SweepResumeDir(l) \/ ContainerExits(l) PROVE Inv'
<1>1. TrackerTypeOK /\ ChatTypeOK /\ HostTypeOK /\ BoxTypeOK /\ ChatOK(l)
  BY Known
<1>2. /\ UNCHANGED <<entries, ctx, pc, session, cleaner, stash, secrets, enders, sweep, proc, crashes>>
      /\ dir' = dir \/ dir' = [dir EXCEPT ![l] = FALSE]
  BY DEF SweepResumeDir, ContainerExits, RemoveChatResume
<1>3. BoxTypeOK'
  BY <1>1 DEF SweepResumeDir, ContainerExits, BoxTypeOK, Exists
<1>4. TrackerTypeOK' /\ ChatTypeOK' /\ HostTypeOK' /\ Focus(l) /\ dir'[l] \in {dir[l], FALSE}
  BY <1>1, <1>2 DEF TrackerTypeOK, ChatTypeOK, HostTypeOK, Focus
<1>5. ChatOK(l)'
  BY <1>1, <1>2, <1>4 DEF ChatOK, Clear
<1>6. EntryHasCleaner'
  BY <1>2, <1>4, FocusKeeps DEF Holding
<1> QED
  BY <1>2, <1>3, <1>4, <1>5, <1>6, Moves

\* A step that neither a start nor its cleaner takes; it may remove an entry.
LEMMA Aside ==
    ASSUME Inv, TrackerTypeOK', BoxTypeOK', RestTypeOK', EnderInv',
           \A k \in Keys : entries'[k].owner \in {entries[k].owner, None},
           UNCHANGED <<pc, session, cleaner, dir, stash, secrets>>
    PROVE  Inv'
<1>1. TypeOK'
  BY TypeParts DEF Inv, ChatTypeOK, HostTypeOK
<1>2. ChatInv'
  BY DEF Inv, ChatInv, ChatOK, Clear
<1>3. EntryHasCleaner'
  BY DEF Inv, EntryHasCleaner, Has
<1> QED
  BY <1>1, <1>2, <1>3 DEF Inv

LEMMA EnderStepInv ==
    ASSUME Inv, NEW e \in Enders,
           EndStep(e) \/ \E k \in Keys, kind \in {"end", "kill"} : EndSnapshot(e, k, kind)
    PROVE  Inv'
<1>1. TrackerTypeOK /\ BoxTypeOK /\ RestTypeOK /\ EnderInv
  BY TypeParts DEF Inv
<1>2. UNCHANGED <<pc, session, cleaner, dir, stash, secrets, sweep, proc, crashes>>
  BY DEF EndStep, EndClose, EndStop, EndRemove, EndSnapshot, EnderUnchanged
<1>3. enders[e] \in EnderState /\ EnderIdle \in EnderState /\ EnderIdle.pc = "idle"
  BY <1>1 DEF RestTypeOK, EnderState, EnderIdle
<1>4. \E x \in EnderState : /\ enders' = [enders EXCEPT ![e] = x]
                            /\ x.pc # "idle" => x.key \in Keys
  <2>1. ASSUME NEW k \in Keys, NEW kind \in {"end", "kill"}, EndSnapshot(e, k, kind)
        PROVE  \E x \in EnderState : /\ enders' = [enders EXCEPT ![e] = x]
                                     /\ x.pc # "idle" => x.key \in Keys
    <3> DEFINE x == [pc |-> "close", kind |-> kind, key |-> k, cid |-> entries[k].cid]
    <3>1. x \in EnderState /\ x.key = k
      BY <1>1, OwnerType DEF EnderState
    <3>2. enders' = [enders EXCEPT ![e] = x]
      BY <2>1 DEF EndSnapshot
    <3> HIDE DEF x
    <3> QED
      BY <3>1, <3>2
  <2>2. ASSUME EndStep(e)
        PROVE  \E x \in EnderState : /\ enders' = [enders EXCEPT ![e] = x]
                                     /\ x.pc # "idle" => x.key \in Keys
    <3>1. enders[e].pc # "idle"
      BY <2>2 DEF EndStep, EndClose, EndStop, EndRemove
    <3>2. enders[e].key \in Keys
      BY <1>1, <3>1 DEF EnderInv
    <3>3. \A p \in {"stop", "remove"} : [enders[e] EXCEPT !.pc = p] \in EnderState
                                       /\ [enders[e] EXCEPT !.pc = p].key = enders[e].key
      BY <1>3 DEF EnderState
    <3>4. \E x \in {EnderIdle, [enders[e] EXCEPT !.pc = "stop"], [enders[e] EXCEPT !.pc = "remove"]} :
             enders' = [enders EXCEPT ![e] = x]
      BY <2>2 DEF EndStep, EndClose, EndStop, EndRemove
    <3> QED
      BY <1>3, <3>2, <3>3, <3>4
  <2> QED
    BY <2>1, <2>2
<1>5. RestTypeOK' /\ EnderInv'
  BY <1>1, <1>2, <1>4 DEF RestTypeOK, EnderInv
<1>6. BoxTypeOK'
  <2>1. CASE EndStop(e)
    BY <1>1, <2>1, ForceRemoveType DEF EndStop
  <2>2. CASE EndClose(e) \/ EndRemove(e) \/ \E k \in Keys, kind \in {"end", "kill"} : EndSnapshot(e, k, kind)
    BY <1>1, <2>2 DEF EndClose, EndRemove, EndSnapshot, BoxTypeOK
  <2> QED
    BY <2>1, <2>2 DEF EndStep
<1>7. TrackerTypeOK' /\ \A k \in Keys : entries'[k].owner \in {entries[k].owner, None}
  <2>1. CASE EndRemove(e)
    <3>1. enders[e].key \in Keys /\ Remove(enders[e].key, enders[e].cid)
      BY <1>1, <2>1 DEF EndRemove, EnderInv
    <3> QED
      BY <1>1, <3>1, RemoveEffect DEF OthersKept
  <2>2. CASE EndClose(e) \/ EndStop(e) \/ \E k \in Keys, kind \in {"end", "kill"} : EndSnapshot(e, k, kind)
    BY <1>1, <2>2 DEF EndClose, EndStop, EndSnapshot, TrackerTypeOK
  <2> QED
    BY <2>1, <2>2 DEF EndStep
<1> QED
  BY <1>2, <1>5, <1>6, <1>7, Aside

LEMMA SweepInv == ASSUME Inv, Sweep \/ StartDraining \/ Boot \/ UNCHANGED vars PROVE Inv'
<1>1. TrackerTypeOK /\ BoxTypeOK /\ RestTypeOK /\ EnderInv
  BY TypeParts DEF Inv
<1>2. UNCHANGED <<entries, ctx, pc, session, cleaner, dir, stash, secrets, enders, crashes>>
  BY DEF Sweep, SweepList, SweepListFails, SweepFiltered, SweepEnd, SweepFilter, SweepRemove,
         SweepUnchanged, StartDraining, Boot, vars
<1>3. TrackerTypeOK' /\ EnderInv' /\ \A k \in Keys : entries'[k].owner \in {entries[k].owner, None}
  BY <1>1, <1>2 DEF TrackerTypeOK, EnderInv
<1>4. BoxTypeOK'
  <2>1. CASE \E l \in Chats : SweepRemove(l)
    BY <1>1, <2>1, ForceRemoveType DEF SweepRemove
  <2>2. CASE SweepListFails
    BY <1>1, <2>2 DEF SweepListFails, DockerFault, BoxTypeOK
  <2>3. CASE SweepList \/ SweepFiltered \/ SweepEnd \/ (\E l \in Chats : SweepFilter(l))
               \/ StartDraining \/ Boot \/ UNCHANGED vars
    <3>1. UNCHANGED boxVars
      BY <2>3 DEF SweepList, SweepFiltered, SweepEnd, SweepFilter, StartDraining, Boot, vars
    <3> QED
      BY <1>1, <3>1 DEF BoxTypeOK
  <2> QED
    BY <2>1, <2>2, <2>3 DEF Sweep
<1>5. RestTypeOK'
  <2>1. proc' \in {"up", "draining", "down", "boot"}
    BY <1>1 DEF Sweep, SweepList, SweepListFails, SweepFiltered, SweepEnd, SweepFilter,
       SweepRemove, StartDraining, Boot, vars, RestTypeOK
  <2>2. sweep' \in SweepState
    <3>1. sweep \in SweepState
      BY <1>1 DEF RestTypeOK
    <3>2. CASE SweepList \/ SweepFiltered \/ SweepEnd
      <4>1. CASE SweepList
        BY <3>1, <4>1 DEF SweepList, SweepState
      <4>2. CASE SweepFiltered
        BY <3>1, <4>2 DEF SweepFiltered, SweepState
      <4>3. CASE SweepEnd
        BY <4>3 DEF SweepEnd, SweepState, SweepIdle
      <4> QED
        BY <3>2, <4>1, <4>2, <4>3
    <3>3. CASE \E l \in Chats : SweepFilter(l) \/ SweepRemove(l)
      <4>1. PICK l \in Chats : SweepFilter(l) \/ SweepRemove(l)
        BY <3>3
      <4>2. CASE SweepFilter(l)
        BY <3>1, <4>2 DEF SweepFilter, SweepState
      <4>3. CASE SweepRemove(l)
        BY <3>1, <4>3 DEF SweepRemove, SweepState
      <4> QED
        BY <4>1, <4>2, <4>3
    <3>4. CASE SweepListFails \/ StartDraining \/ Boot \/ UNCHANGED vars
      BY <3>1, <3>4 DEF SweepListFails, StartDraining, Boot, vars
    <3> QED
      BY <3>2, <3>3, <3>4 DEF Sweep
  <2> QED
    BY <1>1, <1>2, <2>1, <2>2 DEF RestTypeOK
<1> QED
  BY <1>2, <1>3, <1>4, <1>5, Aside

\* The process ends: nothing is registered any more, and what the host keeps is
\* that of a start that will never be answered.
LEMMA HaltStep == ASSUME Inv, Halt PROVE Inv'
<1>1. TrackerTypeOK /\ ChatTypeOK /\ HostTypeOK /\ BoxTypeOK /\ RestTypeOK
  BY TypeParts DEF Inv
<1>2. /\ entries' = [k \in Keys |-> NoEntry]
      /\ pc' = [l \in Chats |-> IF pc[l] = "idle" THEN "idle" ELSE "dead"]
      /\ cleaner' = [l \in Chats |-> "off"]
      /\ stash' = [l \in Chats |-> "none"] /\ secrets' = [l \in Chats |-> FALSE]
      /\ enders' = [e \in Enders |-> EnderIdle] /\ sweep' = SweepIdle
      /\ crashes' = crashes + 1 /\ proc' = "down"
      /\ UNCHANGED <<ctx, session, box, faults, dir>>
  BY DEF Halt
<1>3. TrackerTypeOK' /\ \A k \in Keys : entries'[k].owner = None
  BY <1>1, <1>2 DEF TrackerTypeOK, Entry, NoEntry, Reasons
<1>4. HostTypeOK' /\ BoxTypeOK' /\ ChatTypeOK'
  BY <1>1, <1>2 DEF HostTypeOK, BoxTypeOK, ChatTypeOK, PCs, Before, Cleaners
<1>5. EnderIdle \in EnderState /\ EnderIdle.pc = "idle" /\ SweepIdle \in SweepState
  BY DEF EnderIdle, EnderState, SweepIdle, SweepState
<1>6. RestTypeOK' /\ EnderInv'
  BY <1>1, <1>2, <1>5 DEF RestTypeOK, EnderInv
<1>7. ChatInv'
  <2> SUFFICES ASSUME NEW l \in Chats PROVE ChatOK(l)'
    BY DEF ChatInv
  <2>1. /\ pc'[l] = (IF pc[l] = "idle" THEN "idle" ELSE "dead") /\ cleaner'[l] = "off"
        /\ stash'[l] = "none" /\ secrets'[l] = FALSE /\ dir'[l] = dir[l] /\ session'[l] = session[l]
    BY <1>2
  <2>2. ChatOK(l)
    BY DEF Inv, ChatInv
  <2> QED
    BY <2>1, <2>2 DEF ChatOK, Clear, Before, Attended
<1>8. EntryHasCleaner'
  BY <1>3 DEF EntryHasCleaner, Has
<1>9. TypeOK'
  BY <1>3, <1>4, <1>6, TypeParts
<1> QED
  BY <1>6, <1>7, <1>8, <1>9 DEF Inv

LEMMA InitInv == Init => Inv
<1> SUFFICES ASSUME Init PROVE Inv
  OBVIOUS
<1>1. TrackerTypeOK /\ \A k \in Keys : entries[k].owner = None
  BY DEF Init, TrackerInit, TrackerTypeOK, Entry, NoEntry, Reasons
<1>2. HostTypeOK /\ BoxTypeOK /\ ChatTypeOK
  BY DEF Init, HostTypeOK, BoxTypeOK, ChatTypeOK, PCs, Before, Cleaners
<1>3. EnderIdle \in EnderState /\ EnderIdle.pc = "idle" /\ SweepIdle \in SweepState
  BY DEF EnderIdle, EnderState, SweepIdle, SweepState
<1>4. RestTypeOK /\ EnderInv
  BY <1>3 DEF Init, RestTypeOK, EnderInv
<1>5. ChatInv
  BY DEF Init, ChatInv, ChatOK, Clear, Before, Attended
<1>6. EntryHasCleaner
  BY <1>1 DEF EntryHasCleaner, Has
<1> QED
  BY <1>1, <1>2, <1>4, <1>5, <1>6, TypeParts DEF Inv

LEMMA StepInv == Inv /\ [Next]_vars => Inv'
BY ChatStartStep, HandlerStepInv, CleanerStepInv, BesideStep, EnderStepInv, SweepInv, HaltStep
   DEF Next
------------------------------------------------------------------------------
\* Types, and what every start has left where, at each point of its life.
THEOREM Invariance == Spec => []Inv
BY InitInv, StepInv, PTL DEF Spec

\* Every entry of the registry has a removal ahead of it.
THEOREM EntriesAreFreed == Spec => []EntryHasCleaner
<1>1. Inv => EntryHasCleaner
  BY DEF Inv
<1> QED
  BY <1>1, Invariance, PTL

\* An answered and cleaned up start leaves no directory, handle or secret.
THEOREM StartsCleanUp == Spec => []NothingLeftBehind
<1>1. ASSUME Inv, NEW l \in Chats, pc[l] \in Answered, cleaner[l] \in {"off", "done"}
      PROVE  Clear(l)
  BY <1>1 DEF Inv, ChatInv, ChatOK, Answered, Attended
<1>2. Inv => NothingLeftBehind
  BY <1>1 DEF NothingLeftBehind, Clear
<1> QED
  BY <1>2, Invariance, PTL
==============================================================================

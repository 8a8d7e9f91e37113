----------------------------- MODULE StdinProofs -----------------------------
(***************************************************************************)
(* Safety of Stdin for any number of priming writes, requests and enders,  *)
(* in both modes and with any number of Docker failures.                   *)
(*                                                                         *)
(* The three safety properties need to know who may be where: a writing    *)
(* thread holds stdin.mu (Exclusive); the starter has not set the stdin    *)
(* yet, or whoever closes it clears the writer in the same critical        *)
(* section (Attached, CloserInv); and a request that begins after a close  *)
(* never gets past the check of the writer (LateInv).                      *)
(***************************************************************************)
EXTENDS Stdin, TLAPS

USE DEF Labels, Done, Writing, NoStdin, requestVars, dockerVars, Goto

\* The lock is what excludes: whoever is inside Write holds stdin.mu.
Exclusive == \A t \in Senders : pc[t] \in Writing => mu = t

\* Before SetStdin nothing is attached, and the new connection is the
\* starter's alone.
Attached ==
    /\ pc[Starter] \in {"attach", "set"} => stdin = NoStdin
    /\ pc[Starter] = "set" => conn = "open"

\* closeStdinAsync runs for an entry that is gone, on a stdin that was set.
CloserInv ==
    /\ closer # "off" => ~tracked /\ stdin.alloc
    /\ closer = "onclose" => ~stdin.writer

\* A reported close is of a stdin that was set, and it stays closed.
ClosedInv ==
    /\ gone => ~stdin.writer /\ pc[Starter] \notin {"attach", "set"}
    /\ \A t \in Writers \cup Enders : pc[t] = "close" => stdin.alloc

\* How far a request can get that begins after a reported close.
LateInv ==
    \A t \in late :
        /\ gone
        /\ t \in Senders => pc[t] \in {"lookup", "lock", "refused"}
        /\ t \in Enders /\ mode = "card" =>
              pc[t] \in {"lookup", "close", "refused"} /\ kind[t] = "end"

SafetyInv ==
    /\ TypeOK
    /\ Exclusive
    /\ WriterIsLive /\ Attached /\ CloserInv
    /\ ClosedInv /\ LateInv
------------------------------------------------------------------------------
\* No thread plays two parts.
LEMMA Roles ==
    /\ Starter \in Threads /\ Cleaner \in Threads /\ Starter # Cleaner
    /\ None \notin Senders
    /\ \A t \in Senders : t \in Threads /\ t \notin Enders /\ t # Starter /\ t # Cleaner
    /\ \A t \in Enders : t \in Threads /\ t \notin Senders /\ t # Starter /\ t # Cleaner
    /\ Primers \subseteq Senders /\ Writers \subseteq Senders
BY StdinAssumption DEF Threads, Senders

\* The first state: running, tracked, nothing attached.
LEMMA InitSafe == Init => SafetyInv
<1> SUFFICES ASSUME Init PROVE SafetyInv
  OBVIOUS
<1>1. TypeOK
  BY Roles DEF Init, TypeOK
<1>2. Exclusive /\ LateInv /\ CloserInv /\ WriterIsLive
  BY Roles DEF Init, Exclusive, LateInv, CloserInv, WriterIsLive
<1>3. Attached /\ ClosedInv
  BY Roles DEF Init, Attached, ClosedInv
<1> QED BY <1>1, <1>2, <1>3 DEF SafetyInv
------------------------------------------------------------------------------
\* Every step keeps every variable in its type.
LEMMA TypeStep ==
    ASSUME TypeOK, Next
    PROVE  TypeOK'
<1> USE Roles DEF TypeOK
<1>1. CASE ContainerAttach
  BY <1>1 DEF ContainerAttach
<1>2. CASE AttachFails
  <2>1. pc' \in [Threads -> Labels \cup Done]
    BY <1>2 DEF AttachFails
  <2>2. running' \in BOOLEAN
    BY <1>2, Zenon DEF AttachFails, DockerFault
  <2>3. faults' \in Nat
    BY <1>2 DEF AttachFails, DockerFault
  <2> QED BY <1>2, <2>1, <2>2, <2>3 DEF AttachFails
<1>3. CASE SetStdin
  BY <1>3 DEF SetStdin
<1>4. CASE SetStdinLate
  BY <1>4 DEF SetStdinLate
<1>5. CASE SkipPriming
  BY <1>5 DEF SkipPriming
<1>6. CASE PrimingDone
  BY <1>6 DEF PrimingDone
<1>7. CASE PrimingTimeout
  BY <1>7 DEF PrimingTimeout
<1>8. CASE ForceClose
  BY <1>8 DEF ForceClose
<1>9. CASE MarkStdinClosed
  BY <1>9 DEF MarkStdinClosed
<1>10. ASSUME NEW p \in Primers, StartPriming(p) PROVE TypeOK'
  BY <1>10 DEF StartPriming
<1>11. ASSUME NEW t \in Writers \cup {Starter}, EOFLookup(t) PROVE TypeOK'
  BY <1>11 DEF EOFLookup, AfterEOF
<1>12. ASSUME NEW t \in Writers \cup {Starter}, EOFClose(t) PROVE TypeOK'
  BY <1>12 DEF EOFClose, AfterEOF
<1>13. ASSUME NEW t \in Writers, NEW k \in {"message", "promote"}, SendRequest(t, k) PROVE TypeOK'
  BY <1>13 DEF SendRequest
<1>14. ASSUME NEW t \in Senders, SendLookup(t) PROVE TypeOK'
  BY <1>14 DEF SendLookup
<1>15. ASSUME NEW t \in Senders, SendLock(t) PROVE TypeOK'
  BY <1>15 DEF SendLock
<1>16. ASSUME NEW t \in Senders, SendWrite(t) PROVE TypeOK'
  BY <1>16 DEF SendWrite, AfterWrite
<1>17. ASSUME NEW t \in Enders, NEW k \in {"end", "kill"}, EndRequest(t, k) PROVE TypeOK'
  BY <1>17 DEF EndRequest
<1>18. ASSUME NEW t \in Enders, SnapshotChat(t) PROVE TypeOK'
  BY <1>18 DEF SnapshotChat
<1>19. ASSUME NEW t \in Enders, EndLookup(t) PROVE TypeOK'
  BY <1>19 DEF EndLookup
<1>20. ASSUME NEW t \in Enders, CloseStdin(t) PROVE TypeOK'
  BY <1>20 DEF CloseStdin, CloseResult, AfterClose
<1>21. ASSUME NEW t \in Enders \cup {Starter, Cleaner}, StopBox(t) PROVE TypeOK'
  <2>1. pc' \in [Threads -> Labels \cup Done]
    BY <1>21 DEF StopBox, AfterStop
  <2>2. running' \in BOOLEAN
    BY <1>21, Zenon DEF StopBox, DockerFault
  <2>3. faults' \in Nat
    BY <1>21 DEF StopBox, DockerFault
  <2> QED BY <1>21, <2>1, <2>2, <2>3 DEF StopBox
<1>22. ASSUME NEW t \in Enders \cup {Starter, Cleaner}, Remove(t) PROVE TypeOK'
  <2>1. pc' \in [Threads -> Labels \cup Done]
    BY <1>22 DEF Remove, AfterRemove
  <2>2. closer' \in {"off", "lock", "onclose", "done"}
    BY <1>22 DEF Remove
  <2> QED BY <1>22, <2>1, <2>2 DEF Remove
<1>23. ASSUME NEW t \in Enders \cup {Starter, Cleaner}, RemoveClosed(t) PROVE TypeOK'
  BY <1>23 DEF RemoveClosed, AfterRemove
<1>24. ASSUME NEW t \in Enders \cup {Starter, Cleaner}, RemoveTimeout(t) PROVE TypeOK'
  BY <1>24 DEF RemoveTimeout, AfterRemove
<1>25. CASE CloserLock
  BY <1>25 DEF CloserLock
<1>26. CASE CloserOnClose
  BY <1>26 DEF CloserOnClose
<1>27. CASE CleanerSeesExit
  BY <1>27 DEF CleanerSeesExit
<1>28. CASE CleanerStops
  <2>1. pc' \in [Threads -> Labels \cup Done]
    BY <1>28 DEF CleanerStops
  <2>2. running' \in BOOLEAN
    BY <1>28, Zenon DEF CleanerStops, DockerFault
  <2>3. faults' \in Nat
    BY <1>28 DEF CleanerStops, DockerFault
  <2> QED BY <1>28, <2>1, <2>2, <2>3 DEF CleanerStops
<1>29. CASE CleanerWaitError
  BY <1>29 DEF CleanerWaitError, DockerFault
<1>30. CASE ContainerExits
  BY <1>30 DEF ContainerExits
<1>31. CASE CleanupOrphans
  BY <1>31 DEF CleanupOrphans
<1> QED BY <1>1, <1>2, <1>3, <1>4, <1>5, <1>6, <1>7, <1>8, <1>9, <1>10, <1>11, <1>12,
            <1>13, <1>14, <1>15, <1>16, <1>17, <1>18, <1>19, <1>20, <1>21, <1>22, <1>23,
            <1>24, <1>25, <1>26, <1>27, <1>28, <1>29, <1>30, <1>31
         DEF Next, StarterStep, PromoteStep, SendStep, EndStep, TearDown, CloserStep, CleanerStep
------------------------------------------------------------------------------
\* A thread enters Write by taking the lock, and only it gives it back.
LEMMA ExclusiveStep ==
    ASSUME TypeOK, Exclusive, Next
    PROVE  Exclusive'
<1> USE Roles DEF Exclusive, TypeOK
<1>1. CASE ContainerAttach
  BY <1>1 DEF ContainerAttach
<1>2. CASE AttachFails
  BY <1>2 DEF AttachFails
<1>3. CASE SetStdin
  BY <1>3 DEF SetStdin
<1>4. CASE SetStdinLate
  BY <1>4 DEF SetStdinLate
<1>5. CASE SkipPriming
  BY <1>5 DEF SkipPriming
<1>6. CASE PrimingDone
  BY <1>6 DEF PrimingDone
<1>7. CASE PrimingTimeout
  BY <1>7 DEF PrimingTimeout
<1>8. CASE ForceClose
  BY <1>8 DEF ForceClose
<1>9. CASE MarkStdinClosed
  BY <1>9 DEF MarkStdinClosed
<1>10. ASSUME NEW p \in Primers, StartPriming(p) PROVE Exclusive'
  BY <1>10 DEF StartPriming
<1>11. ASSUME NEW t \in Writers \cup {Starter}, EOFLookup(t) PROVE Exclusive'
  BY <1>11 DEF EOFLookup, AfterEOF
<1>12. ASSUME NEW t \in Writers \cup {Starter}, EOFClose(t) PROVE Exclusive'
  BY <1>12 DEF EOFClose, AfterEOF
<1>13. ASSUME NEW t \in Writers, NEW k \in {"message", "promote"}, SendRequest(t, k) PROVE Exclusive'
  BY <1>13 DEF SendRequest
<1>14. ASSUME NEW t \in Senders, SendLookup(t) PROVE Exclusive'
  BY <1>14 DEF SendLookup
<1>15. ASSUME NEW t \in Senders, SendLock(t) PROVE Exclusive'
  BY <1>15 DEF SendLock
<1>16. ASSUME NEW t \in Senders, SendWrite(t) PROVE Exclusive'
  BY <1>16 DEF SendWrite, AfterWrite
<1>17. ASSUME NEW t \in Enders, NEW k \in {"end", "kill"}, EndRequest(t, k) PROVE Exclusive'
  BY <1>17 DEF EndRequest
<1>18. ASSUME NEW t \in Enders, SnapshotChat(t) PROVE Exclusive'
  BY <1>18 DEF SnapshotChat
<1>19. ASSUME NEW t \in Enders, EndLookup(t) PROVE Exclusive'
  BY <1>19 DEF EndLookup
<1>20. ASSUME NEW t \in Enders, CloseStdin(t) PROVE Exclusive'
  BY <1>20 DEF CloseStdin
<1>21. ASSUME NEW t \in Enders \cup {Starter, Cleaner}, StopBox(t) PROVE Exclusive'
  BY <1>21 DEF StopBox
<1>22. ASSUME NEW t \in Enders \cup {Starter, Cleaner}, Remove(t) PROVE Exclusive'
  BY <1>22 DEF Remove
<1>23. ASSUME NEW t \in Enders \cup {Starter, Cleaner}, RemoveClosed(t) PROVE Exclusive'
  BY <1>23 DEF RemoveClosed
<1>24. ASSUME NEW t \in Enders \cup {Starter, Cleaner}, RemoveTimeout(t) PROVE Exclusive'
  BY <1>24 DEF RemoveTimeout
<1>25. CASE CloserLock
  BY <1>25 DEF CloserLock
<1>26. CASE CloserOnClose
  BY <1>26 DEF CloserOnClose
<1>27. CASE CleanerSeesExit
  BY <1>27 DEF CleanerSeesExit
<1>28. CASE CleanerStops
  BY <1>28 DEF CleanerStops
<1>29. CASE CleanerWaitError
  BY <1>29 DEF CleanerWaitError
<1>30. CASE ContainerExits
  BY <1>30 DEF ContainerExits
<1>31. CASE CleanupOrphans
  BY <1>31 DEF CleanupOrphans
<1> QED BY <1>1, <1>2, <1>3, <1>4, <1>5, <1>6, <1>7, <1>8, <1>9, <1>10, <1>11, <1>12,
            <1>13, <1>14, <1>15, <1>16, <1>17, <1>18, <1>19, <1>20, <1>21, <1>22, <1>23,
            <1>24, <1>25, <1>26, <1>27, <1>28, <1>29, <1>30, <1>31
         DEF Next, StarterStep, PromoteStep, SendStep, EndStep, TearDown, CloserStep, CleanerStep
------------------------------------------------------------------------------
\* A step that closes the connection clears the writer, or is the forced close
\* of priming, which goes on to mark it.
LEMMA WriterStep ==
    ASSUME TypeOK, WriterIsLive, Attached, CloserInv, Next
    PROVE  WriterIsLive' /\ Attached' /\ CloserInv'
<1> USE Roles DEF WriterIsLive, Attached, CloserInv, TypeOK
<1>1. CASE ContainerAttach
  BY <1>1 DEF ContainerAttach
<1>2. CASE AttachFails
  BY <1>2 DEF AttachFails, DockerFault
<1>3. CASE SetStdin
  BY <1>3 DEF SetStdin
<1>4. CASE SetStdinLate
  BY <1>4 DEF SetStdinLate
<1>5. CASE SkipPriming
  BY <1>5 DEF SkipPriming
<1>6. CASE PrimingDone
  BY <1>6 DEF PrimingDone
<1>7. CASE PrimingTimeout
  BY <1>7 DEF PrimingTimeout
<1>8. CASE ForceClose
  BY <1>8 DEF ForceClose
<1>9. CASE MarkStdinClosed
  BY <1>9 DEF MarkStdinClosed
<1>10. ASSUME NEW p \in Primers, StartPriming(p) PROVE WriterIsLive' /\ Attached' /\ CloserInv'
  BY <1>10 DEF StartPriming
<1>11. ASSUME NEW t \in Writers \cup {Starter}, EOFLookup(t) PROVE WriterIsLive' /\ Attached' /\ CloserInv'
  BY <1>11 DEF EOFLookup, AfterEOF
<1>12. ASSUME NEW t \in Writers \cup {Starter}, EOFClose(t) PROVE WriterIsLive' /\ Attached' /\ CloserInv'
  <2>1. ~stdin'.writer /\ stdin'.alloc = stdin.alloc
    BY <1>12 DEF EOFClose
  <2>2. tracked' = tracked /\ closer' = closer
    BY <1>12 DEF EOFClose
  <2>3. pc'[Starter] \in {pc[Starter], "prime"}
    BY <1>12 DEF EOFClose, AfterEOF
  <2>4. stdin = NoStdin => conn' = conn
    BY <1>12 DEF EOFClose
  <2>5. ASSUME stdin = NoStdin PROVE stdin' = NoStdin
    <3>1. stdin' = [NoStdin EXCEPT !.writer = FALSE]
      BY <1>12, <2>5 DEF EOFClose
    <3> QED BY <3>1, Zenon
  <2> QED BY <2>1, <2>2, <2>3, <2>4, <2>5
<1>13. ASSUME NEW t \in Writers, NEW k \in {"message", "promote"}, SendRequest(t, k) PROVE WriterIsLive' /\ Attached' /\ CloserInv'
  BY <1>13 DEF SendRequest
<1>14. ASSUME NEW t \in Senders, SendLookup(t) PROVE WriterIsLive' /\ Attached' /\ CloserInv'
  BY <1>14 DEF SendLookup
<1>15. ASSUME NEW t \in Senders, SendLock(t) PROVE WriterIsLive' /\ Attached' /\ CloserInv'
  BY <1>15 DEF SendLock
<1>16. ASSUME NEW t \in Senders, SendWrite(t) PROVE WriterIsLive' /\ Attached' /\ CloserInv'
  BY <1>16 DEF SendWrite, AfterWrite
<1>17. ASSUME NEW t \in Enders, NEW k \in {"end", "kill"}, EndRequest(t, k) PROVE WriterIsLive' /\ Attached' /\ CloserInv'
  BY <1>17 DEF EndRequest
<1>18. ASSUME NEW t \in Enders, SnapshotChat(t) PROVE WriterIsLive' /\ Attached' /\ CloserInv'
  BY <1>18 DEF SnapshotChat
<1>19. ASSUME NEW t \in Enders, EndLookup(t) PROVE WriterIsLive' /\ Attached' /\ CloserInv'
  BY <1>19 DEF EndLookup
<1>20. ASSUME NEW t \in Enders, CloseStdin(t) PROVE WriterIsLive' /\ Attached' /\ CloserInv'
  <2>1. ~stdin'.writer /\ stdin'.alloc = stdin.alloc
    BY <1>20 DEF CloseStdin
  <2>2. tracked' = tracked /\ closer' = closer
    BY <1>20 DEF CloseStdin
  <2>3. pc'[Starter] = pc[Starter]
    BY <1>20 DEF CloseStdin
  <2>4. stdin = NoStdin => conn' = conn
    BY <1>20 DEF CloseStdin
  <2>5. ASSUME stdin = NoStdin PROVE stdin' = NoStdin
    <3>1. stdin' = [NoStdin EXCEPT !.writer = FALSE]
      BY <1>20, <2>5 DEF CloseStdin
    <3> QED BY <3>1, Zenon
  <2> QED BY <2>1, <2>2, <2>3, <2>4, <2>5
<1>21. ASSUME NEW t \in Enders \cup {Starter, Cleaner}, StopBox(t) PROVE WriterIsLive' /\ Attached' /\ CloserInv'
  BY <1>21 DEF StopBox, AfterStop, DockerFault
<1>22. ASSUME NEW t \in Enders \cup {Starter, Cleaner}, Remove(t) PROVE WriterIsLive' /\ Attached' /\ CloserInv'
  BY <1>22 DEF Remove, AfterRemove
<1>23. ASSUME NEW t \in Enders \cup {Starter, Cleaner}, RemoveClosed(t) PROVE WriterIsLive' /\ Attached' /\ CloserInv'
  BY <1>23 DEF RemoveClosed, AfterRemove
<1>24. ASSUME NEW t \in Enders \cup {Starter, Cleaner}, RemoveTimeout(t) PROVE WriterIsLive' /\ Attached' /\ CloserInv'
  BY <1>24 DEF RemoveTimeout, AfterRemove
<1>25. CASE CloserLock
  BY <1>25 DEF CloserLock
<1>26. CASE CloserOnClose
  BY <1>26 DEF CloserOnClose
<1>27. CASE CleanerSeesExit
  BY <1>27 DEF CleanerSeesExit
<1>28. CASE CleanerStops
  BY <1>28 DEF CleanerStops, DockerFault
<1>29. CASE CleanerWaitError
  BY <1>29 DEF CleanerWaitError, DockerFault
<1>30. CASE ContainerExits
  BY <1>30 DEF ContainerExits
<1>31. CASE CleanupOrphans
  BY <1>31 DEF CleanupOrphans
<1> QED BY <1>1, <1>2, <1>3, <1>4, <1>5, <1>6, <1>7, <1>8, <1>9, <1>10, <1>11, <1>12,
            <1>13, <1>14, <1>15, <1>16, <1>17, <1>18, <1>19, <1>20, <1>21, <1>22, <1>23,
            <1>24, <1>25, <1>26, <1>27, <1>28, <1>29, <1>30, <1>31
         DEF Next, StarterStep, PromoteStep, SendStep, EndStep, TearDown, CloserStep, CleanerStep
------------------------------------------------------------------------------
\* A late request meets the cleared writer or the missing entry.
LEMMA LateStep ==
    ASSUME TypeOK, Attached, ClosedInv, LateInv, Next
    PROVE  ClosedInv' /\ LateInv'
<1> USE Roles DEF Attached, ClosedInv, LateInv, TypeOK
<1>1. CASE ContainerAttach
  BY <1>1 DEF ContainerAttach
<1>2. CASE AttachFails
  BY <1>2 DEF AttachFails, DockerFault
<1>3. CASE SetStdin
  BY <1>3 DEF SetStdin
<1>4. CASE SetStdinLate
  BY <1>4 DEF SetStdinLate
<1>5. CASE SkipPriming
  BY <1>5 DEF SkipPriming
<1>6. CASE PrimingDone
  BY <1>6 DEF PrimingDone
<1>7. CASE PrimingTimeout
  BY <1>7 DEF PrimingTimeout
<1>8. CASE ForceClose
  BY <1>8 DEF ForceClose
<1>9. CASE MarkStdinClosed
  BY <1>9 DEF MarkStdinClosed
<1>10. ASSUME NEW p \in Primers, StartPriming(p) PROVE ClosedInv' /\ LateInv'
  BY <1>10 DEF StartPriming
<1>11. ASSUME NEW t \in Writers \cup {Starter}, EOFLookup(t) PROVE ClosedInv' /\ LateInv'
  BY <1>11 DEF EOFLookup, AfterEOF
<1>12. ASSUME NEW t \in Writers \cup {Starter}, EOFClose(t) PROVE ClosedInv' /\ LateInv'
  BY <1>12 DEF EOFClose, AfterEOF
<1>13. ASSUME NEW t \in Writers, NEW k \in {"message", "promote"}, SendRequest(t, k) PROVE ClosedInv' /\ LateInv'
  BY <1>13 DEF SendRequest
<1>14. ASSUME NEW t \in Senders, SendLookup(t) PROVE ClosedInv' /\ LateInv'
  BY <1>14 DEF SendLookup
<1>15. ASSUME NEW t \in Senders, SendLock(t) PROVE ClosedInv' /\ LateInv'
  BY <1>15 DEF SendLock
<1>16. ASSUME NEW t \in Senders, SendWrite(t) PROVE ClosedInv' /\ LateInv'
  BY <1>16 DEF SendWrite, AfterWrite
<1>17. ASSUME NEW t \in Enders, NEW k \in {"end", "kill"}, EndRequest(t, k) PROVE ClosedInv' /\ LateInv'
  BY <1>17 DEF EndRequest
<1>18. ASSUME NEW t \in Enders, SnapshotChat(t) PROVE ClosedInv' /\ LateInv'
  BY <1>18 DEF SnapshotChat
<1>19. ASSUME NEW t \in Enders, EndLookup(t) PROVE ClosedInv' /\ LateInv'
  BY <1>19 DEF EndLookup
<1>20. ASSUME NEW t \in Enders, CloseStdin(t) PROVE ClosedInv' /\ LateInv'
  BY <1>20 DEF CloseStdin, CloseResult, AfterClose
<1>21. ASSUME NEW t \in Enders \cup {Starter, Cleaner}, StopBox(t) PROVE ClosedInv' /\ LateInv'
  BY <1>21 DEF StopBox, AfterStop, DockerFault
<1>22. ASSUME NEW t \in Enders \cup {Starter, Cleaner}, Remove(t) PROVE ClosedInv' /\ LateInv'
  BY <1>22 DEF Remove, AfterRemove
<1>23. ASSUME NEW t \in Enders \cup {Starter, Cleaner}, RemoveClosed(t) PROVE ClosedInv' /\ LateInv'
  BY <1>23 DEF RemoveClosed, AfterRemove
<1>24. ASSUME NEW t \in Enders \cup {Starter, Cleaner}, RemoveTimeout(t) PROVE ClosedInv' /\ LateInv'
  BY <1>24 DEF RemoveTimeout, AfterRemove
<1>25. CASE CloserLock
  BY <1>25 DEF CloserLock
<1>26. CASE CloserOnClose
  BY <1>26 DEF CloserOnClose
<1>27. CASE CleanerSeesExit
  BY <1>27 DEF CleanerSeesExit
<1>28. CASE CleanerStops
  BY <1>28 DEF CleanerStops, DockerFault
<1>29. CASE CleanerWaitError
  BY <1>29 DEF CleanerWaitError, DockerFault
<1>30. CASE ContainerExits
  BY <1>30 DEF ContainerExits
<1>31. CASE CleanupOrphans
  BY <1>31 DEF CleanupOrphans
<1> QED BY <1>1, <1>2, <1>3, <1>4, <1>5, <1>6, <1>7, <1>8, <1>9, <1>10, <1>11, <1>12,
            <1>13, <1>14, <1>15, <1>16, <1>17, <1>18, <1>19, <1>20, <1>21, <1>22, <1>23,
            <1>24, <1>25, <1>26, <1>27, <1>28, <1>29, <1>30, <1>31
         DEF Next, StarterStep, PromoteStep, SendStep, EndStep, TearDown, CloserStep, CleanerStep
------------------------------------------------------------------------------
\* The invariant the three properties rest on.
THEOREM Safety == Spec => []SafetyInv
<1>1. SafetyInv /\ [Next]_vars => SafetyInv'
  <2> SUFFICES ASSUME SafetyInv, [Next]_vars PROVE SafetyInv'
    OBVIOUS
  <2>1. CASE UNCHANGED vars
    BY <2>1 DEF vars, SafetyInv, TypeOK, Exclusive, WriterIsLive, Attached, CloserInv,
       ClosedInv, LateInv
  <2>2. CASE Next
    <3>1. TypeOK'
      BY <2>2, TypeStep DEF SafetyInv
    <3>2. Exclusive'
      BY <2>2, ExclusiveStep DEF SafetyInv
    <3>3. WriterIsLive' /\ Attached' /\ CloserInv'
      BY <2>2, WriterStep DEF SafetyInv
    <3>4. ClosedInv' /\ LateInv'
      BY <2>2, LateStep DEF SafetyInv
    <3> QED BY <3>1, <3>2, <3>3, <3>4 DEF SafetyInv
  <2> QED BY <2>1, <2>2
<1> QED BY InitSafe, <1>1, PTL DEF Spec

\* Frames of two messages never mix on the wire (tracker.WriteStdin).
THEOREM FramesAreWhole == Spec => []FramesDontInterleave
<1>1. SafetyInv => FramesDontInterleave
  BY DEF SafetyInv, Exclusive, FramesDontInterleave
<1> QED BY Safety, <1>1, PTL

\* The registry's writer is never one that somebody has closed
\* (tracker.CloseStdin, closeStdinAsync, writePrimingWithTimeout).
THEOREM WritersAreLive == Spec => []WriterIsLive
<1>1. SafetyInv => WriterIsLive
  BY DEF SafetyInv
<1> QED BY Safety, <1>1, PTL

\* After a close has been reported every later request is refused
\* (tracker.MarkStdinClosed: 410 rather than the error of a closed socket).
THEOREM ClosedStaysClosed == Spec => []ClosedMeansGone
<1>1. SafetyInv => ClosedMeansGone
  BY StdinAssumption DEF SafetyInv, TypeOK, LateInv, ClosedMeansGone
<1> QED BY Safety, <1>1, PTL
==============================================================================

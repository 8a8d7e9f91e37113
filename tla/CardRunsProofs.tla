--------------------------- MODULE CardRunsProofs ---------------------------
(***************************************************************************)
(* Type correctness and safety of CardRuns, and that it implements         *)
(* RunLifecycle, for every set of cards, runs and requests, every limit    *)
(* and every bound on failures, panics and crashes.                        *)
(*                                                                         *)
(* The steps are first sorted into a few kinds (how a run moves through    *)
(* the registry, what everything beside the runs may do, who is told); each *)
(* conjunct of the inductive invariant SafetyInv is then shown to survive  *)
(* each kind.                                                              *)
(***************************************************************************)
EXTENDS CardRunsRefinement, TrackerProofs

USE DEF Runs, Cards, PCs, Owning, Starting, Waiting, Failing, Recover, Ended,
        Verdicts, Boxes, Exists, Statuses, Reasons
USE DEF cardVars, boxVars, sideVars, procVars, trackerVars, Goto, DockerOK,
        Report, RunUnchanged, HandlerUnchanged, SweepUnchanged, ShutdownUnchanged
------------------------------------------------------------------------------
(* dockerd.                                                                *)

BoxTypeOK == box \in [Runs -> Boxes] /\ faults \in Nat /\ faulted \in SUBSET Owners

\* ContainerStop stops the container unless Docker fails; no other is touched.
LEMMA StopEffect ==
    ASSUME BoxTypeOK, NEW r \in Runs, Stop(r)
    PROVE  /\ BoxTypeOK'
           /\ \A s \in Runs : s # r => box'[s] = box[s]
           /\ box'[r] = box[r] \/ (box[r] = "running" /\ box'[r] = "exited")
           /\ box'[r] = "running" => r \in faulted'
           /\ faulted \subseteq faulted'
BY DEF BoxTypeOK, Stop, DockerFault

\* ContainerRemove removes the container unless Docker fails.
LEMMA ForceRemoveEffect ==
    ASSUME BoxTypeOK, NEW r \in Runs, ForceRemove(r)
    PROVE  /\ BoxTypeOK'
           /\ \A s \in Runs : s # r => box'[s] = box[s]
           /\ box'[r] \in {box[r], "gone"}
           /\ box'[r] = "gone" \/ r \in faulted'
           /\ faulted \subseteq faulted'
BY DEF BoxTypeOK, ForceRemove, DockerFault
------------------------------------------------------------------------------
(* Type correctness.  The registry, the sweep, the handlers and shutdown   *)
(* all hold names of runs and look up their cards: that such a run has a   *)
(* card at all is part of the induction.                                   *)

Launched(r) == pc[r] \notin {"idle", "admit"}

CardsKnown == \A r \in Runs : pc[r] # "idle" => card[r] \in Cards

NothingEarly == \A r \in Runs : ~Launched(r) => box[r] = "none" /\ wd[r] = "off"

EntriesLaunched ==
    \A k \in Keys : /\ entries[k].owner # None => Launched(entries[k].owner)
                    /\ entries[k].cid # None => Launched(entries[k].cid)

ListsLaunched ==
    /\ \A r \in targets \cup sweep.seen \cup sweep.orphans : Launched(r)
    /\ \A h \in Handlers : \A r \in handlers[h].boxes : Launched(r)

Grounded == CardsKnown /\ NothingEarly /\ EntriesLaunched /\ ListsLaunched

\* An entry names the run that wrote it or runs it named before.
LEMMA EntriesStayLaunched ==
    ASSUME TypeOK, EntriesLaunched, NEW r \in Runs, NEW k \in Keys,
           OthersKept(k),
           entries'[k].owner \in {None, entries[k].owner, r},
           entries'[k].cid \in {None, entries[k].cid, r},
           Launched(r)',
           \A s \in Runs : Launched(s) => Launched(s)'
    PROVE  EntriesLaunched'
<1>1. SUFFICES ASSUME NEW j \in Keys
               PROVE /\ entries'[j].owner # None => pc'[entries'[j].owner] \notin {"idle", "admit"}
                     /\ entries'[j].cid # None => pc'[entries'[j].cid] \notin {"idle", "admit"}
  BY DEF EntriesLaunched, Launched
<1>2. entries[j].owner \in Owners \cup {None} /\ entries[j].cid \in Owners \cup {None}
  BY DEF TypeOK, TrackerTypeOK, Entry
<1>3. CASE j = k
  BY <1>2, <1>3 DEF EntriesLaunched, Launched
<1>4. CASE j # k
  BY <1>2, <1>4 DEF OthersKept, EntriesLaunched, Launched
<1> QED
  BY <1>3, <1>4

\* A request's record after a step.
LEMMA HandlerType ==
    ASSUME handlers \in [Handlers -> HandlerState], NEW h \in Handlers,
           NEW u \in HandlerState, handlers' = [handlers EXCEPT ![h] = u]
    PROVE  handlers' \in [Handlers -> HandlerState]
OBVIOUS

\* POST /trigger keeps the types.
LEMMA TriggerTypes ==
    ASSUME TypeOK, Grounded, NEW r \in Runs, Trigger(r)
    PROVE  TypeOK' /\ Grounded'
<1>1. ASSUME NEW c \in Cards, TriggerCheck(r, c)
      PROVE  TypeOK' /\ Grounded'
  <2>1. TypeOK'
    BY <1>1 DEF TypeOK, TrackerTypeOK, TriggerCheck
  <2>2. Grounded'
    BY <1>1, <2>1 DEF TypeOK, Grounded, CardsKnown, NothingEarly, EntriesLaunched,
       ListsLaunched, Launched, HandlerState, SweepState, TriggerCheck
  <2> QED BY <2>1, <2>2
<1>2. ASSUME TriggerAccept(r)
      PROVE  TypeOK' /\ Grounded'
  <2>1. card[r] \in Keys /\ TrackerTypeOK
    BY <1>2 DEF TriggerAccept, Grounded, CardsKnown, TypeOK
  <2>2. /\ TrackerTypeOK'
        /\ OthersKept(card[r])
        /\ entries'[card[r]].owner \in {None, entries[card[r]].owner, r}
        /\ entries'[card[r]].cid \in {None, entries[card[r]].cid, r}
    BY <1>2, <2>1, AddEffect DEF TriggerAccept
  <2>3. pc' = [pc EXCEPT ![r] = "start"]
    BY <1>2 DEF TriggerAccept
  <2>4. TypeOK'
    BY <1>2, <2>2, <2>3 DEF TypeOK, TriggerAccept
  <2>5. EntriesLaunched'
    BY <2>1, <2>2, <2>3, EntriesStayLaunched DEF TypeOK, Grounded, Launched
  <2>6. CardsKnown' /\ NothingEarly'
    BY <1>2, <2>3 DEF TriggerAccept, Grounded, CardsKnown, NothingEarly, Launched, TypeOK
  <2>7. ListsLaunched'
    BY <1>2, <2>3 DEF TriggerAccept, Grounded, ListsLaunched, Launched, TypeOK,
       SweepState, HandlerState
  <2> QED BY <2>4, <2>5, <2>6, <2>7 DEF Grounded
<1>3. ASSUME TriggerReject(r)
      PROVE  TypeOK' /\ Grounded'
  <2>1. TypeOK'
    BY <1>3 DEF TypeOK, TrackerTypeOK, TriggerReject
  <2>2. Grounded'
    BY <1>3, <2>1 DEF TypeOK, Grounded, CardsKnown, NothingEarly, EntriesLaunched,
       ListsLaunched, Launched, HandlerState, SweepState, TriggerReject
  <2> QED BY <2>1, <2>2
<1> QED
  BY <1>1, <1>2, <1>3 DEF Trigger

\* startContainer keeps the types.
LEMMA StartsTypes ==
    ASSUME TypeOK, Grounded, NEW r \in Runs, Starts(r)
    PROVE  TypeOK' /\ Grounded'
<1>1. ASSUME StartFails(r)
      PROVE  TypeOK' /\ Grounded'
  <2>1. TypeOK'
    BY <1>1 DEF TypeOK, TrackerTypeOK, StartFails
  <2>2. Grounded'
    BY <1>1, <2>1 DEF TypeOK, Grounded, CardsKnown, NothingEarly, EntriesLaunched,
       ListsLaunched, Launched, HandlerState, SweepState, StartFails
  <2> QED BY <2>1, <2>2
<1>2. ASSUME ContainerCreate(r)
      PROVE  TypeOK' /\ Grounded'
  <2>1. TypeOK'
    BY <1>2 DEF TypeOK, TrackerTypeOK, ContainerCreate
  <2>2. Grounded'
    BY <1>2, <2>1 DEF TypeOK, Grounded, CardsKnown, NothingEarly, EntriesLaunched,
       ListsLaunched, Launched, HandlerState, SweepState, ContainerCreate
  <2> QED BY <2>1, <2>2
<1>3. ASSUME ContainerStart(r)
      PROVE  TypeOK' /\ Grounded'
  <2>1. TypeOK'
    BY <1>3 DEF TypeOK, TrackerTypeOK, ContainerStart
  <2>2. Grounded'
    BY <1>3, <2>1 DEF TypeOK, Grounded, CardsKnown, NothingEarly, EntriesLaunched,
       ListsLaunched, Launched, HandlerState, SweepState, ContainerStart
  <2> QED BY <2>1, <2>2
<1>4. ASSUME StartOrAttachFails(r)
      PROVE  TypeOK' /\ Grounded'
  <2>1. TypeOK'
    BY <1>4, ForceRemoveEffect DEF TypeOK, TrackerTypeOK, BoxTypeOK, StartOrAttachFails
  <2>2. Grounded'
    BY <1>4, ForceRemoveEffect, <2>1 DEF TypeOK, BoxTypeOK, Grounded, CardsKnown,
       NothingEarly, EntriesLaunched, ListsLaunched, Launched, HandlerState, SweepState,
       StartOrAttachFails
  <2> QED BY <2>1, <2>2
<1>5. ASSUME CaptureID(r)
      PROVE  TypeOK' /\ Grounded'
  <2>1. TypeOK'
    BY <1>5 DEF TypeOK, TrackerTypeOK, CaptureID
  <2>2. Grounded'
    BY <1>5, <2>1 DEF TypeOK, Grounded, CardsKnown, NothingEarly, EntriesLaunched,
       ListsLaunched, Launched, HandlerState, SweepState, CaptureID
  <2> QED BY <2>1, <2>2
<1>6. ASSUME Publish(r)
      PROVE  TypeOK' /\ Grounded'
  <2>1. card[r] \in Keys /\ TrackerTypeOK
    BY <1>6 DEF Publish, Grounded, CardsKnown, TypeOK
  <2>2. /\ TrackerTypeOK'
        /\ OthersKept(card[r])
        /\ entries'[card[r]].owner \in {None, entries[card[r]].owner, r}
        /\ entries'[card[r]].cid \in {None, entries[card[r]].cid, r}
    BY <1>6, <2>1, UpdateEffect DEF Publish
  <2>3. pc' = [pc EXCEPT ![r] = "wait"]
    BY <1>6 DEF Publish
  <2>8. /\ pc' \in [Runs -> PCs]
        /\ cb' \in [Runs -> {"off", "pending"}]
        /\ wd' \in [Runs -> {"off", "armed", "firing"}]
    BY <1>6, <2>3 DEF TypeOK, Publish
  <2>9. UNCHANGED <<card, idOut, verdict, box, faults, faulted, told, handlers, sweep,
                    proc, targets, crashes, panics>>
    BY <1>6 DEF Publish
  <2>4. TypeOK'
    BY <2>2, <2>8, <2>9 DEF TypeOK
  <2>5. EntriesLaunched'
    BY <2>1, <2>2, <2>3, EntriesStayLaunched DEF TypeOK, Grounded, Launched
  <2>6. CardsKnown' /\ NothingEarly'
    BY <1>6, <2>3 DEF Publish, Grounded, CardsKnown, NothingEarly, Launched, TypeOK
  <2>7. ListsLaunched'
    BY <1>6, <2>3 DEF Publish, Grounded, ListsLaunched, Launched, TypeOK, SweepState,
       HandlerState
  <2> QED BY <2>4, <2>5, <2>6, <2>7 DEF Grounded
<1>7. ASSUME ReportStartFailure(r)
      PROVE  TypeOK' /\ Grounded'
  <2>1. TypeOK'
    BY <1>7 DEF TypeOK, TrackerTypeOK, ReportStartFailure
  <2>2. Grounded'
    BY <1>7, <2>1 DEF TypeOK, Grounded, CardsKnown, NothingEarly, EntriesLaunched,
       ListsLaunched, Launched, HandlerState, SweepState, ReportStartFailure
  <2> QED BY <2>1, <2>2
<1>8. ASSUME UntrackStartFailure(r)
      PROVE  TypeOK' /\ Grounded'
  <2>1. card[r] \in Keys /\ TrackerTypeOK
    BY <1>8 DEF UntrackStartFailure, Grounded, CardsKnown, TypeOK
  <2>2. /\ TrackerTypeOK'
        /\ OthersKept(card[r])
        /\ entries'[card[r]].owner \in {None, entries[card[r]].owner, r}
        /\ entries'[card[r]].cid \in {None, entries[card[r]].cid, r}
    BY <1>8, <2>1, RemoveEffect DEF UntrackStartFailure
  <2>3. pc' = [pc EXCEPT ![r] = "done"]
    BY <1>8 DEF UntrackStartFailure
  <2>4. TypeOK'
    BY <1>8, <2>2, <2>3 DEF TypeOK, UntrackStartFailure
  <2>5. EntriesLaunched'
    BY <2>1, <2>2, <2>3, EntriesStayLaunched DEF TypeOK, Grounded, Launched
  <2>6. CardsKnown' /\ NothingEarly'
    BY <1>8, <2>3 DEF UntrackStartFailure, Grounded, CardsKnown, NothingEarly, Launched,
       TypeOK
  <2>7. ListsLaunched'
    BY <1>8, <2>3 DEF UntrackStartFailure, Grounded, ListsLaunched, Launched, TypeOK,
       SweepState, HandlerState
  <2> QED BY <2>4, <2>5, <2>6, <2>7 DEF Grounded
<1> QED
  BY <1>1, <1>2, <1>3, <1>4, <1>5, <1>6, <1>7, <1>8 DEF Starts

\* waitAndCleanup keeps the types.
LEMMA WaitsTypes ==
    ASSUME TypeOK, Grounded, NEW r \in Runs, WaitsAndCleansUp(r)
    PROVE  TypeOK' /\ Grounded'
<1>1. ASSUME WaitExit(r)
      PROVE  TypeOK' /\ Grounded'
  <2>1. TypeOK'
    BY <1>1 DEF TypeOK, TrackerTypeOK, WaitExit, Decide
  <2>2. Grounded'
    BY <1>1, <2>1 DEF TypeOK, Grounded, CardsKnown, NothingEarly, EntriesLaunched,
       ListsLaunched, Launched, HandlerState, SweepState, WaitExit, Decide
  <2> QED BY <2>1, <2>2
<1>2. ASSUME WaitTimeout(r)
      PROVE  TypeOK' /\ Grounded'
  <2>1. TypeOK'
    BY <1>2 DEF TypeOK, TrackerTypeOK, WaitTimeout, Decide
  <2>2. Grounded'
    BY <1>2, <2>1 DEF TypeOK, Grounded, CardsKnown, NothingEarly, EntriesLaunched,
       ListsLaunched, Launched, HandlerState, SweepState, WaitTimeout, Decide
  <2> QED BY <2>1, <2>2
<1>3. ASSUME WaitError(r)
      PROVE  TypeOK' /\ Grounded'
  <2>1. TypeOK'
    BY <1>3 DEF TypeOK, TrackerTypeOK, WaitError, Decide
  <2>2. Grounded'
    BY <1>3, <2>1 DEF TypeOK, Grounded, CardsKnown, NothingEarly, EntriesLaunched,
       ListsLaunched, Launched, HandlerState, SweepState, WaitError, Decide
  <2> QED BY <2>1, <2>2
<1>4. ASSUME WaitCanceled(r)
      PROVE  TypeOK' /\ Grounded'
  <2>1. TypeOK'
    BY <1>4 DEF TypeOK, TrackerTypeOK, WaitCanceled, Decide
  <2>2. Grounded'
    BY <1>4, <2>1 DEF TypeOK, Grounded, CardsKnown, NothingEarly, EntriesLaunched,
       ListsLaunched, Launched, HandlerState, SweepState, WaitCanceled, Decide
  <2> QED BY <2>1, <2>2
<1>5. ASSUME StopBox(r)
      PROVE  TypeOK' /\ Grounded'
  <2>1. TypeOK'
    BY <1>5, StopEffect DEF TypeOK, TrackerTypeOK, BoxTypeOK, StopBox
  <2>2. Grounded'
    BY <1>5, StopEffect, <2>1 DEF TypeOK, BoxTypeOK, Grounded, CardsKnown, NothingEarly,
       EntriesLaunched, ListsLaunched, Launched, HandlerState, SweepState, StopBox
  <2> QED BY <2>1, <2>2
<1>6. ASSUME ReportOutcome(r)
      PROVE  TypeOK' /\ Grounded'
  <2>1. TypeOK'
    BY <1>6 DEF TypeOK, TrackerTypeOK, ReportOutcome
  <2>2. Grounded'
    BY <1>6, <2>1 DEF TypeOK, Grounded, CardsKnown, NothingEarly, EntriesLaunched,
       ListsLaunched, Launched, HandlerState, SweepState, ReportOutcome
  <2> QED BY <2>1, <2>2
<1>7. ASSUME Untrack(r)
      PROVE  TypeOK' /\ Grounded'
  <2>1. card[r] \in Keys /\ TrackerTypeOK
    BY <1>7 DEF Untrack, Grounded, CardsKnown, TypeOK
  <2>2. /\ TrackerTypeOK'
        /\ OthersKept(card[r])
        /\ entries'[card[r]].owner \in {None, entries[card[r]].owner, r}
        /\ entries'[card[r]].cid \in {None, entries[card[r]].cid, r}
    BY <1>7, <2>1, RemoveEffect DEF Untrack
  <2>3. pc' = [pc EXCEPT ![r] = "remove"]
    BY <1>7 DEF Untrack
  <2>4. TypeOK'
    BY <1>7, <2>2, <2>3 DEF TypeOK, Untrack
  <2>5. EntriesLaunched'
    BY <2>1, <2>2, <2>3, EntriesStayLaunched DEF TypeOK, Grounded, Launched
  <2>6. CardsKnown' /\ NothingEarly'
    BY <1>7, <2>3 DEF Untrack, Grounded, CardsKnown, NothingEarly, Launched, TypeOK
  <2>7. ListsLaunched'
    BY <1>7, <2>3 DEF Untrack, Grounded, ListsLaunched, Launched, TypeOK, SweepState,
       HandlerState
  <2> QED BY <2>4, <2>5, <2>6, <2>7 DEF Grounded
<1>8. ASSUME RemoveBox(r)
      PROVE  TypeOK' /\ Grounded'
  <2>1. TypeOK'
    BY <1>8, ForceRemoveEffect DEF TypeOK, TrackerTypeOK, BoxTypeOK, RemoveBox
  <2>2. Grounded'
    BY <1>8, ForceRemoveEffect, <2>1 DEF TypeOK, BoxTypeOK, Grounded, CardsKnown,
       NothingEarly, EntriesLaunched, ListsLaunched, Launched, HandlerState, SweepState,
       RemoveBox
  <2> QED BY <2>1, <2>2
<1> QED
  BY <1>1, <1>2, <1>3, <1>4, <1>5, <1>6, <1>7, <1>8 DEF WaitsAndCleansUp

\* The panic recovery keeps the types.
LEMMA RecoversTypes ==
    ASSUME TypeOK, Grounded, NEW r \in Runs, Recovers(r) \/ Panic(r)
    PROVE  TypeOK' /\ Grounded'
<1>1. ASSUME UnwindUntrack(r)
      PROVE  TypeOK' /\ Grounded'
  <2>1. card[r] \in Keys /\ TrackerTypeOK
    BY <1>1 DEF UnwindUntrack, Grounded, CardsKnown, TypeOK
  <2>2. /\ TrackerTypeOK'
        /\ OthersKept(card[r])
        /\ entries'[card[r]].owner \in {None, entries[card[r]].owner, r}
        /\ entries'[card[r]].cid \in {None, entries[card[r]].cid, r}
    BY <1>1, <2>1, RemoveEffect DEF UnwindUntrack
  <2>3. pc' = [pc EXCEPT ![r] = "unwindrm"]
    BY <1>1 DEF UnwindUntrack
  <2>4. TypeOK'
    BY <1>1, <2>2, <2>3 DEF TypeOK, UnwindUntrack
  <2>5. EntriesLaunched'
    BY <2>1, <2>2, <2>3, EntriesStayLaunched DEF TypeOK, Grounded, Launched
  <2>6. CardsKnown' /\ NothingEarly'
    BY <1>1, <2>3 DEF UnwindUntrack, Grounded, CardsKnown, NothingEarly, Launched, TypeOK
  <2>7. ListsLaunched'
    BY <1>1, <2>3 DEF UnwindUntrack, Grounded, ListsLaunched, Launched, TypeOK,
       SweepState, HandlerState
  <2> QED BY <2>4, <2>5, <2>6, <2>7 DEF Grounded
<1>2. ASSUME UnwindRemove(r)
      PROVE  TypeOK' /\ Grounded'
  <2>1. TypeOK'
    BY <1>2, ForceRemoveEffect DEF TypeOK, TrackerTypeOK, BoxTypeOK, UnwindRemove
  <2>2. Grounded'
    BY <1>2, ForceRemoveEffect, <2>1 DEF TypeOK, BoxTypeOK, Grounded, CardsKnown,
       NothingEarly, EntriesLaunched, ListsLaunched, Launched, HandlerState, SweepState,
       UnwindRemove
  <2> QED BY <2>1, <2>2
<1>3. ASSUME RecoverRemove(r)
      PROVE  TypeOK' /\ Grounded'
  <2>1. TypeOK'
    BY <1>3, ForceRemoveEffect DEF TypeOK, TrackerTypeOK, BoxTypeOK, HandlerState,
       SweepState, Entry, RecoverRemove, Grounded, CardsKnown, NothingEarly,
       ListsLaunched, Launched
  <2>2. Grounded'
    BY <1>3, ForceRemoveEffect, <2>1 DEF TypeOK, TrackerTypeOK, BoxTypeOK, Grounded,
       CardsKnown, NothingEarly, EntriesLaunched, ListsLaunched, Launched, HandlerState,
       SweepState, Entry, RecoverRemove
  <2> QED BY <2>1, <2>2
<1>4. ASSUME RecoverUntrack(r)
      PROVE  TypeOK' /\ Grounded'
  <2>1. card[r] \in Keys /\ TrackerTypeOK
    BY <1>4 DEF RecoverUntrack, Grounded, CardsKnown, TypeOK
  <2>2. /\ TrackerTypeOK'
        /\ OthersKept(card[r])
        /\ entries'[card[r]].owner \in {None, entries[card[r]].owner, r}
        /\ entries'[card[r]].cid \in {None, entries[card[r]].cid, r}
    BY <1>4, <2>1, RemoveEffect DEF RecoverUntrack
  <2>3. pc' = [pc EXCEPT ![r] = "recreport"]
    BY <1>4 DEF RecoverUntrack
  <2>4. TypeOK'
    BY <1>4, <2>2, <2>3 DEF TypeOK, RecoverUntrack
  <2>5. EntriesLaunched'
    BY <2>1, <2>2, <2>3, EntriesStayLaunched DEF TypeOK, Grounded, Launched
  <2>6. CardsKnown' /\ NothingEarly'
    BY <1>4, <2>3 DEF RecoverUntrack, Grounded, CardsKnown, NothingEarly, Launched, TypeOK
  <2>7. ListsLaunched'
    BY <1>4, <2>3 DEF RecoverUntrack, Grounded, ListsLaunched, Launched, TypeOK,
       SweepState, HandlerState
  <2> QED BY <2>4, <2>5, <2>6, <2>7 DEF Grounded
<1>5. ASSUME RecoverReport(r)
      PROVE  TypeOK' /\ Grounded'
  <2>1. TypeOK'
    BY <1>5 DEF TypeOK, TrackerTypeOK, RecoverReport
  <2>2. Grounded'
    BY <1>5, <2>1 DEF TypeOK, Grounded, CardsKnown, NothingEarly, EntriesLaunched,
       ListsLaunched, Launched, HandlerState, SweepState, RecoverReport
  <2> QED BY <2>1, <2>2
<1>6. ASSUME Panic(r)
      PROVE  TypeOK' /\ Grounded'
  <2>1. pc' \in {[pc EXCEPT ![r] = "recover"], [pc EXCEPT ![r] = "unwind"]}
    BY <1>6 DEF Panic
  <2>2. TypeOK'
    <3>1. pc' \in [Runs -> PCs]
      BY <2>1 DEF TypeOK
    <3>2. panics' \in Nat
      BY <1>6 DEF Panic, TypeOK
    <3> QED BY <1>6, <3>1, <3>2 DEF TypeOK, TrackerTypeOK, Panic
  <2>3. Grounded'
    BY <1>6, <2>1 DEF TypeOK, TrackerTypeOK, Entry, SweepState, HandlerState, Panic,
       Grounded, CardsKnown, NothingEarly, EntriesLaunched, ListsLaunched, Launched
  <2> QED BY <2>2, <2>3
<1> QED
  BY <1>1, <1>2, <1>3, <1>4, <1>5, <1>6 DEF Recovers

\* The goroutines beside a run, and its container, keep the types.
LEMMA SideTypes ==
    ASSUME TypeOK, Grounded, NEW r \in Runs, Watchdog(r) \/ RunningCallback(r) \/ ContainerExits(r)
    PROVE  TypeOK' /\ Grounded'
<1>1. ASSUME WatchdogTick(r)
      PROVE  TypeOK' /\ Grounded'
  <2>1. TypeOK'
    BY <1>1 DEF TypeOK, TrackerTypeOK, WatchdogTick
  <2>2. Grounded'
    BY <1>1, <2>1 DEF TypeOK, Grounded, CardsKnown, NothingEarly, EntriesLaunched,
       ListsLaunched, Launched, HandlerState, SweepState, WatchdogTick
  <2> QED BY <2>1, <2>2
<1>2. ASSUME WatchdogExit(r)
      PROVE  TypeOK' /\ Grounded'
  <2>1. TypeOK'
    BY <1>2 DEF TypeOK, TrackerTypeOK, WatchdogExit
  <2>2. Grounded'
    BY <1>2, <2>1 DEF TypeOK, Grounded, CardsKnown, NothingEarly, EntriesLaunched,
       ListsLaunched, Launched, HandlerState, SweepState, WatchdogExit
  <2> QED BY <2>1, <2>2
<1>3. ASSUME WatchdogFire(r)
      PROVE  TypeOK' /\ Grounded'
  <2>1. card[r] \in Keys /\ TrackerTypeOK /\ BoxTypeOK /\ "idle" \in Reasons
    BY <1>3 DEF WatchdogFire, Grounded, CardsKnown, NothingEarly, TypeOK, BoxTypeOK,
       Launched
  <2>2. UNCHANGED <<pc, card, sweep, handlers, targets>>
    BY <1>3 DEF WatchdogFire
  <2>3. CASE Has(card[r])
    <3>1. /\ TrackerTypeOK' /\ OthersKept(card[r])
          /\ entries'[card[r]].owner = entries[card[r]].owner
          /\ entries'[card[r]].cid = entries[card[r]].cid
          /\ UNCHANGED boxVars
      BY <1>3, <2>1, <2>3, CancelWithReasonEffect DEF WatchdogFire
    <3>2. TypeOK'
      BY <1>3, <3>1 DEF TypeOK, WatchdogFire
    <3>3. EntriesLaunched'
      BY <2>1, <2>2, <3>1 DEF EntriesLaunched, OthersKept, Launched, Grounded
    <3>4. CardsKnown' /\ NothingEarly' /\ ListsLaunched'
      BY <1>3, <2>2, <3>1 DEF TypeOK, WatchdogFire, Grounded, CardsKnown, NothingEarly,
         ListsLaunched, Launched
    <3> QED BY <3>2, <3>3, <3>4 DEF Grounded
  <2>4. CASE ~Has(card[r])
    <3>1. Stop(r) /\ UNCHANGED trackerVars
      BY <1>3, <2>4 DEF WatchdogFire
    <3>2. TypeOK'
      BY <1>3, <2>1, <3>1, StopEffect DEF TypeOK, TrackerTypeOK, BoxTypeOK, WatchdogFire
    <3>3. EntriesLaunched'
      BY <2>2, <3>1 DEF EntriesLaunched, Launched, Grounded
    <3>4. CardsKnown' /\ NothingEarly' /\ ListsLaunched'
      BY <1>3, <2>1, <2>2, <3>1, StopEffect DEF TypeOK, WatchdogFire, Grounded,
         CardsKnown, NothingEarly, ListsLaunched, Launched
    <3> QED BY <3>2, <3>3, <3>4 DEF Grounded
  <2> QED BY <2>3, <2>4
<1>4. ASSUME RunningCallback(r)
      PROVE  TypeOK' /\ Grounded'
  <2>1. TypeOK'
    BY <1>4 DEF TypeOK, TrackerTypeOK, RunningCallback
  <2>2. Grounded'
    BY <1>4, <2>1 DEF TypeOK, Grounded, CardsKnown, NothingEarly, EntriesLaunched,
       ListsLaunched, Launched, HandlerState, SweepState, RunningCallback
  <2> QED BY <2>1, <2>2
<1>5. ASSUME ContainerExits(r)
      PROVE  TypeOK' /\ Grounded'
  <2>1. TypeOK'
    BY <1>5 DEF TypeOK, TrackerTypeOK, ContainerExits
  <2>2. Grounded'
    BY <1>5, <2>1 DEF TypeOK, Grounded, CardsKnown, NothingEarly, EntriesLaunched,
       ListsLaunched, Launched, HandlerState, SweepState, ContainerExits
  <2> QED BY <2>1, <2>2
<1> QED
  BY <1>1, <1>2, <1>3, <1>4, <1>5 DEF Watchdog

\* POST /kill and POST /stop-all keep the types.
LEMMA HandleTypes ==
    ASSUME TypeOK, Grounded, NEW h \in Handlers, Handle(h)
    PROVE  TypeOK' /\ Grounded'
<1>1. ASSUME NEW k \in Keys, KillCheck(h, k)
      PROVE  TypeOK' /\ Grounded'
  <2>1. handlers[h] \in HandlerState
    BY DEF TypeOK
  <2>2. [HandlerIdle EXCEPT !.keys = {k}, !.pc = IF Has(k) THEN "kill" ELSE "list"] \in HandlerState
    BY <2>1 DEF HandlerState, HandlerIdle, AllSnapshots
  <2>3. handlers' \in [Handlers -> HandlerState]
    BY <1>1, <2>2, HandlerType DEF KillCheck, TypeOK
  <2>4. TypeOK'
    BY <1>1, <2>3 DEF TypeOK, TrackerTypeOK, KillCheck
  <2>5. CardsKnown' /\ NothingEarly' /\ EntriesLaunched'
    BY <1>1 DEF TypeOK, TrackerTypeOK, KillCheck, Grounded, CardsKnown, NothingEarly,
       EntriesLaunched, ListsLaunched, Launched
  <2>6. ListsLaunched'
    BY <1>1, <2>1 DEF TypeOK, HandlerState, SweepState, HandlerIdle, KillCheck, Grounded,
       ListsLaunched, NothingEarly, Launched
  <2> QED BY <2>4, <2>5, <2>6 DEF Grounded
<1>2. ASSUME NEW k \in Keys, KillCancel(h, k)
      PROVE  TypeOK' /\ Grounded'
  <2>1. handlers[h] \in HandlerState
    BY DEF TypeOK
  <2>2. [HandlerIdle EXCEPT !.pc = "reply", !.code = IF Has(k) THEN "ok" ELSE "error"] \in HandlerState
    BY <2>1 DEF HandlerState, HandlerIdle, AllSnapshots
  <2>3. handlers' \in [Handlers -> HandlerState]
    BY <1>2, <2>2, HandlerType DEF KillCancel, TypeOK
  <2>4. TypeOK'
    BY <1>2, <2>3, CancelEffect DEF TypeOK, TrackerTypeOK, BoxTypeOK, KillCancel
  <2>5. CardsKnown' /\ NothingEarly' /\ EntriesLaunched'
    BY <1>2, CancelEffect DEF TypeOK, TrackerTypeOK, BoxTypeOK, KillCancel, Grounded,
       CardsKnown, NothingEarly, EntriesLaunched, ListsLaunched, Launched
  <2>6. ListsLaunched'
    BY <1>2, <2>1 DEF TypeOK, HandlerState, SweepState, HandlerIdle, KillCancel, Grounded,
       ListsLaunched, NothingEarly, Launched
  <2> QED BY <2>4, <2>5, <2>6 DEF Grounded
<1>3. ASSUME NEW k \in Keys, ForceRemoveList(h, k)
      PROVE  TypeOK' /\ Grounded'
  <2>1. handlers[h] \in HandlerState
    BY DEF TypeOK
  <2>2. [handlers[h] EXCEPT !.pc = "rm", !.code = "ok",
            !.boxes = {r \in Runs : card[r] = k /\ box[r] \in Exists}] \in HandlerState
    BY <2>1 DEF HandlerState, HandlerIdle, AllSnapshots
  <2>3. handlers' \in [Handlers -> HandlerState]
    BY <1>3, <2>2, HandlerType DEF ForceRemoveList, TypeOK
  <2>4. TypeOK'
    BY <1>3, <2>3 DEF TypeOK, TrackerTypeOK, ForceRemoveList
  <2>5. CardsKnown' /\ NothingEarly' /\ EntriesLaunched'
    BY <1>3 DEF TypeOK, TrackerTypeOK, ForceRemoveList, Grounded, CardsKnown,
       NothingEarly, EntriesLaunched, ListsLaunched, Launched
  <2>6. ListsLaunched'
    BY <1>3, <2>1 DEF TypeOK, HandlerState, SweepState, HandlerIdle, ForceRemoveList,
       Grounded, ListsLaunched, NothingEarly, Launched
  <2> QED BY <2>4, <2>5, <2>6 DEF Grounded
<1>4. ASSUME NEW r \in Runs, ForceRemoveOne(h, r)
      PROVE  TypeOK' /\ Grounded'
  <2>1. handlers[h] \in HandlerState
    BY DEF TypeOK
  <2>2. [handlers[h] EXCEPT !.boxes = @ \ {r},
            !.code = IF box[r] = "gone" \/ faults' # faults THEN "error" ELSE @] \in HandlerState
    BY <2>1 DEF HandlerState, HandlerIdle, AllSnapshots
  <2>3. handlers' \in [Handlers -> HandlerState]
    BY <1>4, <2>2, HandlerType DEF ForceRemoveOne, TypeOK
  <2>4. TypeOK'
    BY <1>4, <2>3, ForceRemoveEffect DEF TypeOK, TrackerTypeOK, BoxTypeOK, ForceRemoveOne
  <2>5. CardsKnown' /\ NothingEarly' /\ EntriesLaunched'
    BY <1>4, ForceRemoveEffect DEF TypeOK, TrackerTypeOK, BoxTypeOK, ForceRemoveOne,
       Grounded, CardsKnown, NothingEarly, EntriesLaunched, ListsLaunched, Launched
  <2>6. ListsLaunched'
    BY <1>4, <2>1 DEF TypeOK, HandlerState, SweepState, HandlerIdle, ForceRemoveOne,
       Grounded, ListsLaunched, NothingEarly, Launched
  <2> QED BY <2>4, <2>5, <2>6 DEF Grounded
<1>5. ASSUME StopAllSnapshot(h)
      PROVE  TypeOK' /\ Grounded'
  <2>1. handlers[h] \in HandlerState
    BY DEF TypeOK
  <2>0. PICK project \in SUBSET Cards : handlers' = [handlers EXCEPT ![h] =
            [HandlerIdle EXCEPT !.pc = "loop", !.keys = AllSnapshots \cap project, !.code = "ok"]]
    BY <1>5 DEF StopAllSnapshot
  <2>2. [HandlerIdle EXCEPT !.pc = "loop", !.keys = AllSnapshots \cap project, !.code = "ok"] \in HandlerState
    BY <2>1 DEF HandlerState, HandlerIdle, AllSnapshots
  <2>3. handlers' \in [Handlers -> HandlerState]
    BY <1>5, <2>2, HandlerType, <2>0 DEF StopAllSnapshot, TypeOK
  <2>4. TypeOK'
    BY <1>5, <2>3 DEF TypeOK, TrackerTypeOK, StopAllSnapshot
  <2>5. CardsKnown' /\ NothingEarly' /\ EntriesLaunched'
    BY <1>5 DEF TypeOK, TrackerTypeOK, StopAllSnapshot, Grounded, CardsKnown,
       NothingEarly, EntriesLaunched, ListsLaunched, Launched
  <2>6. ListsLaunched'
    BY <1>5, <2>1, <2>0 DEF TypeOK, HandlerState, SweepState, HandlerIdle,
       StopAllSnapshot, Grounded, ListsLaunched, NothingEarly, Launched
  <2> QED BY <2>4, <2>5, <2>6 DEF Grounded
<1>6. ASSUME NEW k \in Keys, StopAllKill(h, k)
      PROVE  TypeOK' /\ Grounded'
  <2>1. handlers[h] \in HandlerState
    BY DEF TypeOK
  <2>2. [handlers[h] EXCEPT !.keys = @ \ {k},
            !.code = IF Has(k) THEN @ ELSE "error"] \in HandlerState
    BY <2>1 DEF HandlerState, HandlerIdle, AllSnapshots
  <2>3. handlers' \in [Handlers -> HandlerState]
    BY <1>6, <2>2, HandlerType DEF StopAllKill, TypeOK
  <2>4. TypeOK'
    BY <1>6, <2>3, CancelEffect DEF TypeOK, TrackerTypeOK, BoxTypeOK, StopAllKill
  <2>5. CardsKnown' /\ NothingEarly' /\ EntriesLaunched'
    BY <1>6, CancelEffect DEF TypeOK, TrackerTypeOK, BoxTypeOK, StopAllKill, Grounded,
       CardsKnown, NothingEarly, EntriesLaunched, ListsLaunched, Launched
  <2>6. ListsLaunched'
    BY <1>6, <2>1 DEF TypeOK, HandlerState, SweepState, HandlerIdle, StopAllKill,
       Grounded, ListsLaunched, NothingEarly, Launched
  <2> QED BY <2>4, <2>5, <2>6 DEF Grounded
<1>7. ASSUME Reply(h)
      PROVE  TypeOK' /\ Grounded'
  <2>1. handlers[h] \in HandlerState
    BY DEF TypeOK
  <2>2. HandlerIdle \in HandlerState
    BY <2>1 DEF HandlerState, HandlerIdle, AllSnapshots
  <2>3. handlers' \in [Handlers -> HandlerState]
    BY <1>7, <2>2, HandlerType DEF Reply, TypeOK
  <2>4. TypeOK'
    BY <1>7, <2>3 DEF TypeOK, TrackerTypeOK, Reply
  <2>5. CardsKnown' /\ NothingEarly' /\ EntriesLaunched'
    BY <1>7 DEF TypeOK, TrackerTypeOK, Reply, Grounded, CardsKnown, NothingEarly,
       EntriesLaunched, ListsLaunched, Launched
  <2>6. ListsLaunched'
    BY <1>7, <2>1 DEF TypeOK, HandlerState, SweepState, HandlerIdle, Reply, Grounded,
       ListsLaunched, NothingEarly, Launched
  <2> QED BY <2>4, <2>5, <2>6 DEF Grounded
<1>8. ASSUME ForceRemoveListFails(h)
      PROVE  TypeOK' /\ Grounded'
  <2>1. handlers[h] \in HandlerState
    BY DEF TypeOK
  <2>2. [HandlerIdle EXCEPT !.pc = "reply", !.code = "error"] \in HandlerState
    BY <2>1 DEF HandlerState, HandlerIdle
  <2>3. handlers' \in [Handlers -> HandlerState]
    BY <1>8, <2>2, HandlerType DEF ForceRemoveListFails, TypeOK
  <2>4. TypeOK'
    BY <1>8, <2>3 DEF TypeOK, TrackerTypeOK, ForceRemoveListFails
  <2>5. CardsKnown' /\ NothingEarly' /\ EntriesLaunched'
    BY <1>8 DEF TypeOK, TrackerTypeOK, ForceRemoveListFails, Grounded, CardsKnown,
       NothingEarly, EntriesLaunched, ListsLaunched, Launched
  <2>6. ListsLaunched'
    BY <1>8, <2>1 DEF TypeOK, HandlerState, SweepState, HandlerIdle, ForceRemoveListFails,
       Grounded, ListsLaunched, Launched
  <2> QED BY <2>4, <2>5, <2>6 DEF Grounded
<1> QED
  BY <1>1, <1>2, <1>3, <1>4, <1>5, <1>6, <1>7, <1>8 DEF Handle

\* CleanupOrphans keeps the types.
LEMMA SweepTypes ==
    ASSUME TypeOK, Grounded, Sweep
    PROVE  TypeOK' /\ Grounded'
<1>1. ASSUME SweepList
      PROVE  TypeOK' /\ Grounded'
  <2>1. TypeOK'
    BY <1>1 DEF TypeOK, TrackerTypeOK, BoxTypeOK, HandlerState, SweepState, SweepIdle,
       SweepList
  <2>2. Grounded'
    BY <1>1, <2>1 DEF TypeOK, Grounded, CardsKnown, NothingEarly, EntriesLaunched,
       ListsLaunched, Launched, HandlerState, SweepState, SweepIdle, SweepList
  <2> QED BY <2>1, <2>2
<1>2. ASSUME NEW r \in Runs, SweepFilter(r)
      PROVE  TypeOK' /\ Grounded'
  <2>1. sweep' \in SweepState
    BY <1>2 DEF SweepFilter, TypeOK, SweepState
  <2>2. TypeOK'
    BY <1>2, <2>1 DEF SweepFilter, TypeOK, TrackerTypeOK
  <2>3. Grounded'
    BY <1>2 DEF SweepFilter, TypeOK, SweepState, Grounded, CardsKnown, NothingEarly,
       EntriesLaunched, ListsLaunched, Launched
  <2> QED BY <2>2, <2>3
<1>3. ASSUME SweepFiltered
      PROVE  TypeOK' /\ Grounded'
  <2>1. TypeOK'
    BY <1>3 DEF TypeOK, TrackerTypeOK, BoxTypeOK, HandlerState, SweepState, SweepIdle,
       SweepFiltered
  <2>2. Grounded'
    BY <1>3, <2>1 DEF TypeOK, Grounded, CardsKnown, NothingEarly, EntriesLaunched,
       ListsLaunched, Launched, HandlerState, SweepState, SweepIdle, SweepFiltered
  <2> QED BY <2>1, <2>2
<1>4. ASSUME NEW r \in Runs, SweepRemove(r)
      PROVE  TypeOK' /\ Grounded'
  <2>1. TypeOK'
    BY <1>4, ForceRemoveEffect DEF TypeOK, TrackerTypeOK, BoxTypeOK, HandlerState,
       SweepState, SweepIdle, SweepRemove
  <2>2. Grounded'
    BY <1>4, ForceRemoveEffect, <2>1 DEF TypeOK, BoxTypeOK, Grounded, CardsKnown,
       NothingEarly, EntriesLaunched, ListsLaunched, Launched, HandlerState, SweepState,
       SweepIdle, SweepRemove
  <2> QED BY <2>1, <2>2
<1>5. ASSUME SweepEnd
      PROVE  TypeOK' /\ Grounded'
  <2>1. TypeOK'
    BY <1>5 DEF TypeOK, TrackerTypeOK, BoxTypeOK, HandlerState, SweepState, SweepIdle,
       Procs, SweepEnd
  <2>2. Grounded'
    BY <1>5, <2>1 DEF TypeOK, Grounded, CardsKnown, NothingEarly, EntriesLaunched,
       ListsLaunched, Launched, HandlerState, SweepState, SweepIdle, Procs, SweepEnd
  <2> QED BY <2>1, <2>2
<1>6. ASSUME SweepListFails
      PROVE  TypeOK' /\ Grounded'
  <2>1. TypeOK'
    BY <1>6 DEF TypeOK, TrackerTypeOK, SweepListFails, Procs
  <2>2. Grounded'
    BY <1>6, <2>1 DEF TypeOK, Grounded, CardsKnown, NothingEarly, EntriesLaunched,
       ListsLaunched, Launched, HandlerState, SweepState, SweepListFails
  <2> QED BY <2>1, <2>2
<1> QED
  BY <1>1, <1>2, <1>3, <1>4, <1>5, <1>6 DEF Sweep

\* shutdown(), a crash and the next boot keep the types.
LEMMA ProcTypes ==
    ASSUME TypeOK, Grounded, StartDraining \/ Shutdown \/ Crash \/ Boot
    PROVE  TypeOK' /\ Grounded'
<1>1. ASSUME StartDraining
      PROVE  TypeOK' /\ Grounded'
  <2>1. TypeOK'
    BY <1>1 DEF TypeOK, TrackerTypeOK, Procs, StartDraining
  <2>2. Grounded'
    BY <1>1, <2>1 DEF TypeOK, Grounded, CardsKnown, NothingEarly, EntriesLaunched,
       ListsLaunched, Launched, HandlerState, SweepState, Procs, StartDraining
  <2> QED BY <2>1, <2>2
<1>2. ASSUME SnapshotToKill
      PROVE  TypeOK' /\ Grounded'
  <2>1. TypeOK'
    BY <1>2 DEF TypeOK, TrackerTypeOK, Procs, AllSnapshots, Has, Entry, SnapshotToKill
  <2>2. Grounded'
    BY <1>2, <2>1 DEF TypeOK, TrackerTypeOK, Grounded, CardsKnown, NothingEarly,
       EntriesLaunched, ListsLaunched, Launched, HandlerState, SweepState, Procs,
       AllSnapshots, Has, Entry, SnapshotToKill
  <2> QED BY <2>1, <2>2
<1>3. ASSUME NEW r \in Runs, ShutdownKill(r)
      PROVE  TypeOK' /\ Grounded'
  <2>1. TypeOK'
    BY <1>3, CancelEffect DEF TypeOK, TrackerTypeOK, BoxTypeOK, HandlerState, SweepState,
       Has, ShutdownKill, Grounded, CardsKnown, NothingEarly, ListsLaunched, Launched
  <2>2. Grounded'
    BY <1>3, CancelEffect, <2>1 DEF TypeOK, BoxTypeOK, Grounded, CardsKnown, NothingEarly,
       EntriesLaunched, ListsLaunched, Launched, HandlerState, SweepState, Has,
       ShutdownKill
  <2> QED BY <2>1, <2>2
<1>4. ASSUME WaitManager
      PROVE  TypeOK' /\ Grounded'
  <2>1. TypeOK'
    BY <1>4 DEF TypeOK, TrackerTypeOK, Procs, WaitManager
  <2>2. Grounded'
    BY <1>4, <2>1 DEF TypeOK, Grounded, CardsKnown, NothingEarly, EntriesLaunched,
       ListsLaunched, Launched, HandlerState, SweepState, Procs, WaitManager
  <2> QED BY <2>1, <2>2
<1>5. ASSUME SnapshotToForce
      PROVE  TypeOK' /\ Grounded'
  <2>1. TypeOK'
    BY <1>5 DEF TypeOK, TrackerTypeOK, Procs, AllSnapshots, Has, Entry, SnapshotToForce
  <2>2. Grounded'
    BY <1>5, <2>1 DEF TypeOK, TrackerTypeOK, Grounded, CardsKnown, NothingEarly,
       EntriesLaunched, ListsLaunched, Launched, HandlerState, SweepState, Procs,
       AllSnapshots, Has, Entry, SnapshotToForce
  <2> QED BY <2>1, <2>2
<1>6. ASSUME NEW r \in Runs, ForceKill(r)
      PROVE  TypeOK' /\ Grounded'
  <2>1. TypeOK'
    BY <1>6, ForceRemoveEffect DEF TypeOK, TrackerTypeOK, BoxTypeOK, ForceKill
  <2>2. Grounded'
    BY <1>6, ForceRemoveEffect, <2>1 DEF TypeOK, BoxTypeOK, Grounded, CardsKnown,
       NothingEarly, EntriesLaunched, ListsLaunched, Launched, HandlerState, SweepState,
       ForceKill
  <2> QED BY <2>1, <2>2
<1>7. ASSUME Halt
      PROVE  TypeOK' /\ Grounded'
  <2>1. TypeOK'
    BY <1>7 DEF TypeOK, TrackerTypeOK, BoxTypeOK, HandlerState, HandlerIdle, SweepState,
       SweepIdle, Procs, NoEntry, Entry, Halt
  <2>2. Grounded'
    BY <1>7, <2>1 DEF TypeOK, TrackerTypeOK, Grounded, CardsKnown, NothingEarly,
       EntriesLaunched, ListsLaunched, Launched, HandlerState, HandlerIdle, SweepState,
       SweepIdle, Procs, NoEntry, Entry, Halt
  <2> QED BY <2>1, <2>2
<1>8. ASSUME Boot
      PROVE  TypeOK' /\ Grounded'
  <2>1. TypeOK'
    BY <1>8 DEF TypeOK, TrackerTypeOK, Procs, Boot
  <2>2. Grounded'
    BY <1>8, <2>1 DEF TypeOK, Grounded, CardsKnown, NothingEarly, EntriesLaunched,
       ListsLaunched, Launched, HandlerState, SweepState, Procs, Boot
  <2> QED BY <2>1, <2>2
<1> QED
  BY <1>1, <1>2, <1>3, <1>4, <1>5, <1>6, <1>7, <1>8 DEF Shutdown, Exit, Crash

\* Every step of the system keeps the types.
LEMMA NextTypes ==
    ASSUME TypeOK, Grounded, [Next]_vars
    PROVE  TypeOK' /\ Grounded'
<1>1. CASE Next
  BY <1>1, TriggerTypes, StartsTypes, WaitsTypes, RecoversTypes, SideTypes, HandleTypes,
     SweepTypes, ProcTypes DEF Next, RunStep
<1>2. CASE UNCHANGED vars
  BY <1>2 DEF vars, TypeOK, TrackerTypeOK, Grounded, CardsKnown, NothingEarly,
     EntriesLaunched, ListsLaunched, Launched
<1> QED BY <1>1, <1>2

\* Initially nothing is launched.
LEMMA InitTypes ==
    ASSUME Init
    PROVE  TypeOK /\ Grounded
BY DEF Init, TrackerInit, TypeOK, TrackerTypeOK, Entry, NoEntry, HandlerState,
   HandlerIdle, SweepState, SweepIdle,
       Procs, Grounded, CardsKnown, NothingEarly, EntriesLaunched, ListsLaunched, Launched

\* Every variable keeps its type, and a run that the registry, a request, the
\* sweep or shutdown names has a card: their lookups are never of a missing key.
THEOREM TypeCorrect == Spec => [](TypeOK /\ Grounded)
<1>1. Init => TypeOK /\ Grounded
  BY InitTypes
<1>2. TypeOK /\ Grounded /\ [Next]_vars => (TypeOK /\ Grounded)'
  BY NextTypes
<1> QED
  BY <1>1, <1>2, PTL DEF Spec
------------------------------------------------------------------------------
(* How a step moves the runs through the registry.                         *)

Panicking == {"unwind", "unwindrm", "recover", "recuntrack", "recreport"}
BoxAlive  == {"started", "publish", "wait", "stop", "dead"}
Orderly   == Owning \ {"unwind"}

OwnersKept == \A k \in Keys : entries'[k].owner = entries[k].owner

\* Containers are created and started by startContainer only.
NoNewBox(r) ==
    /\ box'[r] \in Exists => box[r] \in Exists
    /\ box'[r] = "running" => box[r] = "running"

\* The run goes on holding what it holds in the registry ...
Advance(r) ==
    /\ OwnersKept
    /\ \/ pc[r] \in Orderly /\ pc'[r] \in Orderly
       \/ pc[r] = "remove" /\ pc'[r] = "done"
       \/ pc[r] \in {"unwindrm", "recover"} /\ pc'[r] \in Recover
       \/ pc[r] = "recreport" /\ pc'[r] = "done"

\* ... or gives up its card.
Release(r) ==
    /\ OthersKept(card[r])
    /\ entries'[card[r]].owner = None
    /\ \/ pc[r] \in Orderly /\ pc'[r] \in {"remove", "done"}
       \/ pc[r] \in {"unwind", "recuntrack"} /\ pc'[r] \in {"unwindrm", "recreport"}

OneMoves(r) ==
    /\ UNCHANGED <<card, sweep, proc, panics, crashes>>
    /\ \A s \in Runs : s # r => pc'[s] = pc[s]
    /\ faulted \subseteq faulted'

\* A step of Run's goroutine moves that run alone, and either keeps every
\* entry of the registry with its owner or gives up its own card's.
LEMMA RunStepKind ==
    ASSUME TypeOK, Grounded, NEW r \in Runs, RunStep(r)
    PROVE  OneMoves(r) /\ (Advance(r) \/ Release(r))
<1> USE DEF OneMoves, Advance, Release, OwnersKept, Orderly, Panicking
<1>1. CASE StartFails(r)
  BY <1>1 DEF TypeOK, TrackerTypeOK, BoxTypeOK, StartFails
<1>2. CASE ContainerCreate(r)
  BY <1>2 DEF TypeOK, TrackerTypeOK, BoxTypeOK, ContainerCreate
<1>3. CASE ContainerStart(r)
  BY <1>3 DEF TypeOK, TrackerTypeOK, BoxTypeOK, ContainerStart
<1>4. CASE StartOrAttachFails(r)
  BY <1>4, ForceRemoveEffect DEF TypeOK, TrackerTypeOK, BoxTypeOK, StartOrAttachFails
<1>5. CASE CaptureID(r)
  BY <1>5 DEF TypeOK, TrackerTypeOK, BoxTypeOK, CaptureID
<1>6. CASE ReportStartFailure(r)
  BY <1>6 DEF TypeOK, TrackerTypeOK, BoxTypeOK, ReportStartFailure
<1>7. CASE WaitExit(r)
  BY <1>7 DEF TypeOK, TrackerTypeOK, BoxTypeOK, WaitExit, Decide
<1>8. CASE WaitTimeout(r)
  BY <1>8 DEF TypeOK, TrackerTypeOK, BoxTypeOK, WaitTimeout, Decide
<1>9. CASE WaitError(r)
  BY <1>9 DEF TypeOK, TrackerTypeOK, BoxTypeOK, WaitError, Decide
<1>10. CASE WaitCanceled(r)
  BY <1>10 DEF TypeOK, TrackerTypeOK, BoxTypeOK, WaitCanceled, Decide
<1>11. CASE StopBox(r)
  BY <1>11, StopEffect DEF TypeOK, TrackerTypeOK, BoxTypeOK, StopBox
<1>12. CASE ReportOutcome(r)
  BY <1>12 DEF TypeOK, TrackerTypeOK, BoxTypeOK, ReportOutcome
<1>13. CASE RemoveBox(r)
  BY <1>13, ForceRemoveEffect DEF TypeOK, TrackerTypeOK, BoxTypeOK, RemoveBox
<1>14. CASE UnwindRemove(r)
  BY <1>14, ForceRemoveEffect DEF TypeOK, TrackerTypeOK, BoxTypeOK, UnwindRemove
<1>15. CASE RecoverRemove(r)
  BY <1>15, ForceRemoveEffect DEF TypeOK, TrackerTypeOK, BoxTypeOK, RecoverRemove, Entry,
     Grounded, CardsKnown
<1>16. CASE RecoverReport(r)
  BY <1>16 DEF TypeOK, TrackerTypeOK, BoxTypeOK, RecoverReport
<1>17. CASE Publish(r)
  <2>1. card[r] \in Keys
    BY <1>17 DEF Publish, Grounded, CardsKnown
  <2>2. OwnersKept
    BY <1>17, <2>1, UpdateEffect DEF Publish, TypeOK, OthersKept
  <2> QED BY <1>17, <2>2 DEF Publish, TypeOK
<1>18. CASE UntrackStartFailure(r)
  <2>1. card[r] \in Keys
    BY <1>18 DEF UntrackStartFailure, Grounded, CardsKnown
  <2>2. OthersKept(card[r]) /\ entries'[card[r]].owner = None
    BY <1>18, <2>1, RemoveEffect DEF UntrackStartFailure, TypeOK
  <2> QED BY <1>18, <2>2 DEF UntrackStartFailure, TypeOK
<1>19. CASE Untrack(r)
  <2>1. card[r] \in Keys
    BY <1>19 DEF Untrack, Grounded, CardsKnown
  <2>2. OthersKept(card[r]) /\ entries'[card[r]].owner = None
    BY <1>19, <2>1, RemoveEffect DEF Untrack, TypeOK
  <2> QED BY <1>19, <2>2 DEF Untrack, TypeOK
<1>20. CASE UnwindUntrack(r)
  <2>1. card[r] \in Keys
    BY <1>20 DEF UnwindUntrack, Grounded, CardsKnown
  <2>2. OthersKept(card[r]) /\ entries'[card[r]].owner = None
    BY <1>20, <2>1, RemoveEffect DEF UnwindUntrack, TypeOK
  <2> QED BY <1>20, <2>2 DEF UnwindUntrack, TypeOK
<1>21. CASE RecoverUntrack(r)
  <2>1. card[r] \in Keys
    BY <1>21 DEF RecoverUntrack, Grounded, CardsKnown
  <2>2. OthersKept(card[r]) /\ entries'[card[r]].owner = None
    BY <1>21, <2>1, RemoveEffect DEF RecoverUntrack, TypeOK
  <2> QED BY <1>21, <2>2 DEF RecoverUntrack, TypeOK
<1> QED
  BY <1>1, <1>2, <1>3, <1>4, <1>5, <1>6, <1>7, <1>8, <1>9, <1>10, <1>11, <1>12, <1>13,
     <1>14, <1>15, <1>16, <1>17, <1>18, <1>19, <1>20, <1>21 DEF RunStep, Starts,
     WaitsAndCleansUp, Recovers

\* Everything but /trigger, Run's goroutine, a panic and the end of the
\* process: it may cancel contexts and remove containers, and that is all.
Beside ==
    \/ \E h \in Handlers : Handle(h)
    \/ Sweep \/ StartDraining \/ Boot
    \/ SnapshotToKill \/ WaitManager \/ SnapshotToForce
    \/ \E r \in Runs : \/ ShutdownKill(r) \/ ForceKill(r)
                       \/ Watchdog(r) \/ RunningCallback(r) \/ ContainerExits(r)


DrainOn ==
    /\ UNCHANGED sweep
    /\ proc \in {"up", "draining", "killing", "waiting"}
    /\ proc' \in {"draining", "killing", "waiting", "forcing"}
    /\ proc' = "draining" => proc = "up"

KeepsRuns ==
    /\ UNCHANGED <<pc, card, panics, crashes>>
    /\ OwnersKept
    /\ \A r \in Runs : NoNewBox(r)
    /\ faulted \subseteq faulted'
    /\ UNCHANGED <<sweep, proc>> \/ Sweep \/ Boot \/ DrainOn

\* The steps beside the runs move no run and take nobody's card.
LEMMA BesideKeeps ==
    ASSUME TypeOK, Grounded, Beside
    PROVE  KeepsRuns
<1> USE DEF OwnersKept, NoNewBox, KeepsRuns
<1>1. ASSUME NEW h \in Handlers, NEW k \in Keys, KillCheck(h, k) PROVE KeepsRuns
  BY <1>1 DEF TypeOK, TrackerTypeOK, BoxTypeOK, KillCheck
<1>2. ASSUME NEW h \in Handlers, NEW k \in Keys, KillCancel(h, k) PROVE KeepsRuns
  BY <1>2, CancelEffect DEF TypeOK, TrackerTypeOK, BoxTypeOK, KillCancel
<1>3. ASSUME NEW h \in Handlers, NEW k \in Keys, ForceRemoveList(h, k) PROVE KeepsRuns
  BY <1>3 DEF TypeOK, TrackerTypeOK, BoxTypeOK, ForceRemoveList
<1>4. ASSUME NEW h \in Handlers, NEW r \in Runs, ForceRemoveOne(h, r) PROVE KeepsRuns
  BY <1>4, ForceRemoveEffect DEF TypeOK, TrackerTypeOK, BoxTypeOK, ForceRemoveOne
<1>5. ASSUME NEW h \in Handlers, StopAllSnapshot(h) PROVE KeepsRuns
  BY <1>5 DEF TypeOK, TrackerTypeOK, BoxTypeOK, StopAllSnapshot
<1>6. ASSUME NEW h \in Handlers, NEW k \in Keys, StopAllKill(h, k) PROVE KeepsRuns
  BY <1>6, CancelEffect DEF TypeOK, TrackerTypeOK, BoxTypeOK, StopAllKill
<1>7. ASSUME NEW h \in Handlers, Reply(h) PROVE KeepsRuns
  BY <1>7 DEF TypeOK, TrackerTypeOK, BoxTypeOK, Reply
<1>8. ASSUME SweepList PROVE KeepsRuns
  BY <1>8 DEF TypeOK, TrackerTypeOK, BoxTypeOK, SweepList, Sweep
<1>9. ASSUME NEW r \in Runs, SweepFilter(r) PROVE KeepsRuns
  BY <1>9 DEF TypeOK, TrackerTypeOK, BoxTypeOK, SweepFilter, Sweep
<1>10. ASSUME SweepFiltered PROVE KeepsRuns
  BY <1>10 DEF TypeOK, TrackerTypeOK, BoxTypeOK, SweepFiltered, Sweep
<1>11. ASSUME NEW r \in Runs, SweepRemove(r) PROVE KeepsRuns
  BY <1>11, ForceRemoveEffect DEF TypeOK, TrackerTypeOK, BoxTypeOK, SweepRemove, Sweep
<1>12. ASSUME SweepEnd PROVE KeepsRuns
  BY <1>12 DEF TypeOK, TrackerTypeOK, BoxTypeOK, SweepEnd, Sweep
<1>13. ASSUME StartDraining PROVE KeepsRuns
  BY <1>13 DEF TypeOK, TrackerTypeOK, BoxTypeOK, StartDraining, DrainOn
<1>14. ASSUME SnapshotToKill PROVE KeepsRuns
  BY <1>14 DEF TypeOK, TrackerTypeOK, BoxTypeOK, SnapshotToKill, DrainOn
<1>15. ASSUME NEW r \in Runs, ShutdownKill(r) PROVE KeepsRuns
  BY <1>15, CancelEffect DEF TypeOK, TrackerTypeOK, BoxTypeOK, ShutdownKill, OthersKept,
     Grounded, CardsKnown, NothingEarly, ListsLaunched, Launched
<1>16. ASSUME WaitManager PROVE KeepsRuns
  BY <1>16 DEF TypeOK, TrackerTypeOK, BoxTypeOK, WaitManager, DrainOn
<1>17. ASSUME SnapshotToForce PROVE KeepsRuns
  BY <1>17 DEF TypeOK, TrackerTypeOK, BoxTypeOK, SnapshotToForce, DrainOn
<1>18. ASSUME NEW r \in Runs, ForceKill(r) PROVE KeepsRuns
  BY <1>18, ForceRemoveEffect DEF TypeOK, TrackerTypeOK, BoxTypeOK, ForceKill
<1>19. ASSUME Boot PROVE KeepsRuns
  BY <1>19 DEF TypeOK, TrackerTypeOK, BoxTypeOK, Boot
<1>20. ASSUME NEW r \in Runs, WatchdogTick(r) PROVE KeepsRuns
  BY <1>20 DEF TypeOK, TrackerTypeOK, BoxTypeOK, WatchdogTick
<1>21. ASSUME NEW r \in Runs, WatchdogExit(r) PROVE KeepsRuns
  BY <1>21 DEF TypeOK, TrackerTypeOK, BoxTypeOK, WatchdogExit
<1>22. ASSUME NEW r \in Runs, WatchdogFire(r) PROVE KeepsRuns
  <2>1. card[r] \in Keys /\ TrackerTypeOK /\ BoxTypeOK /\ "idle" \in Reasons
    BY <1>22 DEF WatchdogFire, Grounded, CardsKnown, NothingEarly, TypeOK, BoxTypeOK,
       Launched
  <2>2. CASE Has(card[r])
    <3>1. OwnersKept /\ UNCHANGED boxVars
      BY <1>22, <2>1, <2>2, CancelWithReasonEffect DEF WatchdogFire, OthersKept
    <3> QED BY <1>22, <3>1 DEF WatchdogFire
  <2>3. CASE ~Has(card[r])
    <3>1. Stop(r) /\ UNCHANGED entries
      BY <1>22, <2>3 DEF WatchdogFire
    <3> QED BY <1>22, <2>1, <3>1, StopEffect DEF WatchdogFire
  <2> QED BY <2>2, <2>3
<1>23. ASSUME NEW r \in Runs, RunningCallback(r) PROVE KeepsRuns
  BY <1>23 DEF TypeOK, TrackerTypeOK, BoxTypeOK, RunningCallback
<1>24. ASSUME NEW r \in Runs, ContainerExits(r) PROVE KeepsRuns
  BY <1>24 DEF TypeOK, TrackerTypeOK, BoxTypeOK, ContainerExits
<1>25. ASSUME NEW h \in Handlers, ForceRemoveListFails(h) PROVE KeepsRuns
  BY <1>25 DEF TypeOK, TrackerTypeOK, ForceRemoveListFails
<1>26. ASSUME SweepListFails PROVE KeepsRuns
  BY <1>26 DEF TypeOK, TrackerTypeOK, SweepListFails, Sweep
<1> QED
  BY <1>1, <1>2, <1>3, <1>4, <1>5, <1>6, <1>7, <1>8, <1>9, <1>10, <1>11, <1>12, <1>13,
     <1>14, <1>15, <1>16, <1>17, <1>18, <1>19, <1>20, <1>21, <1>22, <1>23, <1>24, <1>25,
     <1>26 DEF Beside, Handle, Sweep, Watchdog

\* The cases of a step that the proofs below distinguish.
LEMMA StepCases ==
    ASSUME [Next]_vars
    PROVE  \/ \E r \in Runs : (\E c \in Cards : TriggerCheck(r, c)) \/ TriggerReject(r)
           \/ \E r \in Runs : TriggerAccept(r)
           \/ \E r \in Runs : RunStep(r)
           \/ \E r \in Runs : Panic(r)
           \/ Beside
           \/ Halt
           \/ UNCHANGED vars
<1>1. CASE Next
  BY <1>1 DEF Next, Trigger, Shutdown, Exit, Crash, Beside
<1> QED BY <1>1

\* What TriggerAccept does to the registry.
LEMMA AcceptKind ==
    ASSUME TypeOK, Grounded, NEW r \in Runs, TriggerAccept(r)
    PROVE  /\ card[r] \in Keys
           /\ OthersKept(card[r])
           /\ entries[card[r]].owner = None
           /\ entries'[card[r]].owner = r
           /\ pc[r] = "admit"
           /\ pc'[r] = "start"
           /\ \A s \in Runs : s # r => pc'[s] = pc[s]
           /\ UNCHANGED <<card, box, faulted, panics, sweep, proc, crashes>>
<1>1. card[r] \in Keys
  BY DEF TriggerAccept, Grounded, CardsKnown
<1>2. OthersKept(card[r]) /\ entries[card[r]].owner = None /\ entries'[card[r]].owner = r
  BY <1>1, AddEffect DEF TriggerAccept, TypeOK
<1> QED
  BY <1>1, <1>2 DEF TriggerAccept, TypeOK

\* What the refusals and the first check do.
LEMMA CheckKind ==
    ASSUME TypeOK, NEW r \in Runs, (\E c \in Cards : TriggerCheck(r, c)) \/ TriggerReject(r)
    PROVE  /\ pc[r] \in {"idle", "admit"} /\ pc'[r] \in {"idle", "admit"}
           /\ \A s \in Runs : s # r => pc'[s] = pc[s] /\ card'[s] = card[s]
           /\ UNCHANGED <<entries, box, faulted, panics, sweep, crashes, proc>>
BY DEF TypeOK, TriggerCheck, TriggerReject

\* A panic starts the recovery and changes nothing else.
LEMMA PanicKind ==
    ASSUME TypeOK, NEW r \in Runs, Panic(r)
    PROVE  /\ pc[r] \in Orderly /\ pc'[r] \in {"recover", "unwind"}
           /\ \A s \in Runs : s # r => pc'[s] = pc[s]
           /\ panics' # 0
           /\ UNCHANGED <<entries, card, box, faulted, sweep, crashes, proc>>
<1>1. /\ pc[r] \in Orderly
      /\ pc' = [pc EXCEPT ![r] = "recover"] \/ pc' = [pc EXCEPT ![r] = "unwind"]
  BY DEF Panic, Orderly
<1>2. pc'[r] \in {"recover", "unwind"} /\ \A s \in Runs : s # r => pc'[s] = pc[s]
  BY <1>1 DEF TypeOK
<1>3. panics' # 0
  BY DEF Panic, TypeOK
<1> QED
  BY <1>1, <1>2, <1>3 DEF Panic

\* The end of the process empties the registry and every goroutine.
LEMMA HaltKind ==
    ASSUME TypeOK, Halt
    PROVE  /\ \A k \in Keys : entries'[k].owner = None
           /\ \A s \in Runs : /\ pc[s] \in {"idle", "admit"} => pc'[s] = "idle"
                              /\ pc[s] = "done" => pc'[s] = "done"
                              /\ pc[s] \notin {"idle", "admit", "done"} => pc'[s] = "dead"
           /\ sweep'.pc = "idle" /\ sweep'.seen = {} /\ sweep'.orphans = {}
           /\ proc' = "down"
           /\ UNCHANGED <<box, faulted, panics>>
BY DEF Halt, TypeOK, NoEntry, SweepIdle
------------------------------------------------------------------------------
(* The registry holds exactly the runs that have to answer for an entry.   *)

\* No step leaves an entry without a goroutine that will remove it.
LEMMA EntryStep ==
    ASSUME TypeOK, Grounded, EntryHasLiveRun, [Next]_vars
    PROVE  EntryHasLiveRun'
<1> USE DEF EntryHasLiveRun, Has
<1>0. \A k \in Keys : entries[k].owner \in Owners \cup {None}
  BY DEF TypeOK, TrackerTypeOK, Entry
<1>1. ASSUME NEW r \in Runs, (\E c \in Cards : TriggerCheck(r, c)) \/ TriggerReject(r)
      PROVE  EntryHasLiveRun'
  BY <1>0, <1>1, CheckKind
<1>2. ASSUME NEW r \in Runs, TriggerAccept(r)
      PROVE  EntryHasLiveRun'
  <2> SUFFICES ASSUME NEW k \in Keys, entries'[k].owner # None
               PROVE  card'[entries'[k].owner] = k /\ pc'[entries'[k].owner] \in Owning \cup Recover
    OBVIOUS
  <2>1. CASE k = card[r]
    BY <1>2, <2>1, AcceptKind DEF TypeOK
  <2>2. CASE k # card[r]
    <3>1. entries'[k] = entries[k] /\ entries[k].owner \in Owners
      BY <1>0, <1>2, <2>2, AcceptKind DEF OthersKept
    <3>2. card[entries[k].owner] = k /\ pc[entries[k].owner] \in Owning \cup Recover
      BY <3>1
    <3>3. entries[k].owner # r
      BY <1>2, <3>2, AcceptKind
    <3> QED BY <1>2, <3>1, <3>2, <3>3, AcceptKind DEF TypeOK
  <2> QED BY <2>1, <2>2
<1>3. ASSUME NEW r \in Runs, RunStep(r)
      PROVE  EntryHasLiveRun'
  <2>1. OneMoves(r) /\ (Advance(r) \/ Release(r))
    BY <1>3, RunStepKind
  <2>2. CASE Advance(r)
    BY <1>0, <2>1, <2>2 DEF OneMoves, Advance, OwnersKept, Orderly, Panicking
  <2>3. CASE Release(r)
    BY <1>0, <2>1, <2>3 DEF OneMoves, Release, OthersKept, Orderly
  <2> QED BY <2>1, <2>2, <2>3
<1>4. ASSUME NEW r \in Runs, Panic(r)
      PROVE  EntryHasLiveRun'
  BY <1>0, <1>4, PanicKind DEF Orderly
<1>5. CASE Beside
  BY <1>0, <1>5, BesideKeeps DEF KeepsRuns, OwnersKept
<1>6. CASE Halt
  BY <1>6, HaltKind
<1>7. CASE UNCHANGED vars
  BY <1>7 DEF vars
<1> QED
  BY <1>1, <1>2, <1>3, <1>4, <1>5, <1>6, <1>7, StepCases

\* Without a panic no run is in the recovery.
NoRecovery == panics = 0 => \A r \in Runs : pc[r] \notin Panicking

\* No step takes an entry from the run it belongs to.
LEMMA HoldsStep ==
    ASSUME TypeOK, Grounded, NoRecovery, RunHoldsItsEntry, [Next]_vars
    PROVE  NoRecovery' /\ RunHoldsItsEntry'
<1> USE DEF NoRecovery, RunHoldsItsEntry
<1> SUFFICES ASSUME panics' = 0
             PROVE  /\ \A s \in Runs : pc'[s] \notin Panicking
                    /\ \A s \in Runs : pc'[s] \in Owning => entries'[card'[s]].owner = s
  OBVIOUS
<1>1. ASSUME NEW r \in Runs, (\E c \in Cards : TriggerCheck(r, c)) \/ TriggerReject(r)
      PROVE  NoRecovery' /\ RunHoldsItsEntry'
  BY <1>1, CheckKind DEF Panicking
<1>2. ASSUME NEW r \in Runs, TriggerAccept(r)
      PROVE  NoRecovery' /\ RunHoldsItsEntry'
  <2> SUFFICES ASSUME NEW s \in Runs
               PROVE  /\ pc'[s] \notin Panicking
                      /\ pc'[s] \in Owning => entries'[card'[s]].owner = s
    OBVIOUS
  <2>1. CASE s = r
    BY <1>2, <2>1, AcceptKind DEF TypeOK, Panicking
  <2>2. CASE s # r
    <3>1. pc'[s] = pc[s] /\ card'[s] = card[s] /\ panics = 0
      BY <1>2, <2>2, AcceptKind DEF TypeOK
    <3>2. pc[s] \in Owning => card[s] # card[r] /\ card[s] \in Keys
      BY <1>2, <2>2, <3>1, AcceptKind, TrackerAssumption DEF Grounded, CardsKnown
    <3> QED BY <1>2, <3>1, <3>2, AcceptKind DEF OthersKept
  <2> QED BY <2>1, <2>2
<1>3. ASSUME NEW r \in Runs, RunStep(r)
      PROVE  NoRecovery' /\ RunHoldsItsEntry'
  <2>1. OneMoves(r) /\ (Advance(r) \/ Release(r))
    BY <1>3, RunStepKind
  <2>2. CASE Advance(r)
    BY <2>1, <2>2 DEF OneMoves, Advance, OwnersKept, Orderly, Panicking, Grounded,
       CardsKnown
  <2>3. CASE Release(r)
    BY <2>1, <2>3 DEF OneMoves, Release, OthersKept, Orderly, Panicking, Grounded,
       CardsKnown
  <2> QED BY <2>1, <2>2, <2>3
<1>4. ASSUME NEW r \in Runs, Panic(r)
      PROVE  FALSE
  BY <1>4, PanicKind
<1>5. CASE Beside
  BY <1>5, BesideKeeps DEF KeepsRuns, OwnersKept, Grounded, CardsKnown, Panicking
<1>6. CASE Halt
  BY <1>6, HaltKind DEF TypeOK, Panicking
<1>7. CASE UNCHANGED vars
  BY <1>7 DEF vars
<1> QED
  BY <1>1, <1>2, <1>3, <1>4, <1>5, <1>6, <1>7, StepCases
------------------------------------------------------------------------------
(* Where a running container can be.                                       *)

\* The goroutine is between ContainerStart and the ContainerStop that ends
\* it, or gone with its process; otherwise Docker refused something.
RunningWhere ==
    panics = 0 => \A r \in Runs : box[r] = "running" => pc[r] \in BoxAlive \/ r \in faulted

\* No path of Run's goroutine walks away from a running container.
LEMMA RunStepBoxes ==
    ASSUME TypeOK, Grounded, RunningWhere, NoRecovery, panics = 0, NEW r \in Runs, RunStep(r)
    PROVE  RunningWhere'
<1> USE DEF RunningWhere, BoxAlive
<1>0. OneMoves(r)
  BY RunStepKind
<1>1. CASE StartFails(r)
  BY <1>1 DEF TypeOK, BoxTypeOK, StartFails
<1>2. CASE ContainerCreate(r)
  BY <1>2 DEF TypeOK, BoxTypeOK, ContainerCreate
<1>3. CASE ContainerStart(r)
  BY <1>3 DEF TypeOK, BoxTypeOK, ContainerStart
<1>4. CASE StartOrAttachFails(r)
  BY <1>4, ForceRemoveEffect DEF TypeOK, BoxTypeOK, StartOrAttachFails
<1>5. CASE CaptureID(r)
  BY <1>5 DEF TypeOK, BoxTypeOK, CaptureID
<1>6. CASE Publish(r)
  BY <1>6 DEF TypeOK, BoxTypeOK, Publish
<1>7. CASE ReportStartFailure(r)
  BY <1>7 DEF TypeOK, BoxTypeOK, ReportStartFailure
<1>8. CASE UntrackStartFailure(r)
  BY <1>8 DEF TypeOK, BoxTypeOK, UntrackStartFailure
<1>9. CASE WaitExit(r)
  BY <1>9 DEF TypeOK, BoxTypeOK, WaitExit, Decide
<1>10. CASE WaitTimeout(r)
  BY <1>10 DEF TypeOK, BoxTypeOK, WaitTimeout, Decide
<1>11. CASE WaitError(r)
  BY <1>11 DEF TypeOK, BoxTypeOK, WaitError, Decide
<1>12. CASE WaitCanceled(r)
  BY <1>12 DEF TypeOK, BoxTypeOK, WaitCanceled, Decide
<1>13. CASE StopBox(r)
  BY <1>13, StopEffect DEF TypeOK, BoxTypeOK, StopBox
<1>14. CASE ReportOutcome(r)
  BY <1>14 DEF TypeOK, BoxTypeOK, ReportOutcome
<1>15. CASE Untrack(r)
  BY <1>15 DEF TypeOK, BoxTypeOK, Untrack
<1>16. CASE RemoveBox(r)
  BY <1>16, ForceRemoveEffect DEF TypeOK, BoxTypeOK, RemoveBox
<1>17. CASE Recovers(r)
  BY <1>17 DEF Recovers, NoRecovery, Panicking, UnwindUntrack, UnwindRemove,
     RecoverRemove, RecoverUntrack, RecoverReport
<1> QED
  BY <1>1, <1>2, <1>3, <1>4, <1>5, <1>6, <1>7, <1>8, <1>9, <1>10, <1>11, <1>12, <1>13,
     <1>14, <1>15, <1>16, <1>17 DEF RunStep, Starts, WaitsAndCleansUp

\* No step at all does.
LEMMA RunningStep ==
    ASSUME TypeOK, Grounded, RunningWhere, NoRecovery, [Next]_vars
    PROVE  RunningWhere'
<1> USE DEF RunningWhere
<1> SUFFICES ASSUME panics' = 0
             PROVE  \A s \in Runs : box'[s] = "running" => pc'[s] \in BoxAlive \/ s \in faulted'
  OBVIOUS
<1>1. ASSUME NEW r \in Runs, (\E c \in Cards : TriggerCheck(r, c)) \/ TriggerReject(r)
      PROVE  RunningWhere'
  BY <1>1, CheckKind DEF BoxAlive, Grounded, NothingEarly, Launched
<1>2. ASSUME NEW r \in Runs, TriggerAccept(r)
      PROVE  RunningWhere'
  BY <1>2, AcceptKind DEF BoxAlive, TypeOK, Grounded, NothingEarly, Launched
<1>3. ASSUME NEW r \in Runs, RunStep(r)
      PROVE  RunningWhere'
  BY <1>3, RunStepBoxes, RunStepKind DEF OneMoves
<1>4. ASSUME NEW r \in Runs, Panic(r)
      PROVE  FALSE
  BY <1>4, PanicKind
<1>5. CASE Beside
  BY <1>5, BesideKeeps DEF KeepsRuns, NoNewBox
<1>6. CASE Halt
  BY <1>6, HaltKind DEF BoxAlive, Grounded, NothingEarly, Launched
<1>7. CASE UNCHANGED vars
  BY <1>7 DEF vars
<1> QED
  BY <1>1, <1>2, <1>3, <1>4, <1>5, <1>6, <1>7, StepCases

\* The registry and the containers agree.
LEMMA TrackedFromParts ==
    ASSUME TypeOK, RunningWhere, RunHoldsItsEntry
    PROVE  RunningIsTracked
BY DEF RunningWhere, RunHoldsItsEntry, RunningIsTracked, BoxAlive
------------------------------------------------------------------------------
(* The sweep.                                                              *)

\* The registry is asked after Docker's list was taken, so a listed container
\* without an entry belongs to a run that has ended, and stays that way.
LEMMA SweepStep ==
    ASSUME TypeOK, Grounded, NoRecovery, RunHoldsItsEntry, SweepSparesLiveWork, [Next]_vars
    PROVE  SweepSparesLiveWork'
<1> USE DEF SweepSparesLiveWork
<1> SUFFICES ASSUME panics' = 0
             PROVE  \A s \in sweep'.orphans : pc'[s] \in Ended
  OBVIOUS
<1>0. sweep.orphans \subseteq Runs /\ sweep.seen \subseteq Runs
  BY DEF TypeOK, SweepState
<1>1. ASSUME NEW r \in Runs, (\E c \in Cards : TriggerCheck(r, c)) \/ TriggerReject(r)
      PROVE  SweepSparesLiveWork'
  BY <1>0, <1>1, CheckKind
<1>2. ASSUME NEW r \in Runs, TriggerAccept(r)
      PROVE  SweepSparesLiveWork'
  BY <1>0, <1>2, AcceptKind DEF TypeOK
<1>3. ASSUME NEW r \in Runs, RunStep(r)
      PROVE  SweepSparesLiveWork'
  BY <1>0, <1>3, RunStepKind DEF OneMoves, Advance, Release, Orderly
<1>4. ASSUME NEW r \in Runs, Panic(r)
      PROVE  FALSE
  BY <1>4, PanicKind
<1>5. CASE Beside
  <2>1. UNCHANGED <<pc, panics>>
    BY <1>5, BesideKeeps DEF KeepsRuns
  <2>2. ASSUME NEW r \in Runs, SweepFilter(r)
        PROVE  sweep'.orphans \subseteq sweep.orphans \/ (~Has(card[r]) /\ sweep'.orphans = sweep.orphans \cup {r} /\ Launched(r))
    BY <2>2 DEF SweepFilter, TypeOK, SweepState, Grounded, ListsLaunched
  <2>3. ASSUME NEW r \in Runs, SweepFilter(r)
        PROVE  SweepSparesLiveWork'
    <3>1. ~Has(card[r]) => pc[r] \notin Owning
      BY <2>1, TrackerAssumption DEF Has, RunHoldsItsEntry
    <3>2. ~Has(card[r]) /\ Launched(r) => pc[r] \in Ended
      BY <2>1, <3>1 DEF TypeOK, NoRecovery, Panicking, Launched
    <3> QED BY <2>1, <2>2, <2>3, <3>2
  <2>4. CASE \A r \in Runs : ~SweepFilter(r)
    <3>1. sweep'.orphans \subseteq sweep.orphans
      <4>1. CASE UNCHANGED sweep \/ SweepListFails
        BY <4>1 DEF SweepListFails
      <4>2. CASE SweepList \/ SweepEnd
        BY <4>2 DEF SweepList, SweepEnd, SweepIdle
      <4>3. CASE SweepFiltered \/ \E r \in Runs : SweepRemove(r)
        BY <4>3 DEF SweepFiltered, SweepRemove, TypeOK, SweepState
      <4>4. Sweep \/ UNCHANGED sweep
        BY <1>5, BesideKeeps DEF KeepsRuns, DrainOn, Boot
      <4> QED BY <2>4, <4>1, <4>2, <4>3, <4>4 DEF Sweep
    <3> QED BY <2>1, <3>1
  <2> QED BY <2>3, <2>4
<1>6. CASE Halt
  BY <1>6, HaltKind
<1>7. CASE UNCHANGED vars
  BY <1>7 DEF vars
<1> QED
  BY <1>1, <1>2, <1>3, <1>4, <1>5, <1>6, <1>7, StepCases

\* The goroutine of one run creates no container for another.
LEMMA RunStepShrinks ==
    ASSUME TypeOK, Grounded, NEW r \in Runs, RunStep(r)
    PROVE  \A s \in Runs : pc[s] = "dead" /\ box'[s] \in Exists => box[s] \in Exists
<1>1. CASE ContainerCreate(r)
  BY <1>1 DEF TypeOK, BoxTypeOK, ContainerCreate
<1>2. CASE ContainerStart(r)
  BY <1>2 DEF TypeOK, BoxTypeOK, ContainerStart
<1>3. CASE StartOrAttachFails(r)
  BY <1>3, ForceRemoveEffect DEF TypeOK, BoxTypeOK, StartOrAttachFails
<1>4. CASE StopBox(r)
  BY <1>4, StopEffect DEF TypeOK, BoxTypeOK, StopBox
<1>5. CASE RemoveBox(r)
  BY <1>5, ForceRemoveEffect DEF TypeOK, BoxTypeOK, RemoveBox
<1>6. CASE UnwindRemove(r)
  BY <1>6, ForceRemoveEffect DEF TypeOK, BoxTypeOK, UnwindRemove
<1>7. CASE RecoverRemove(r)
  BY <1>7, ForceRemoveEffect DEF TypeOK, BoxTypeOK, RecoverRemove, TrackerTypeOK, Entry,
     Grounded, CardsKnown
<1>8. CASE UNCHANGED box
  BY <1>8
<1> QED
  BY <1>1, <1>2, <1>3, <1>4, <1>5, <1>6, <1>7, <1>8 DEF RunStep, Starts, WaitsAndCleansUp,
     Recovers,
     StartFails, CaptureID, Publish, ReportStartFailure, UntrackStartFailure,
     WaitExit, WaitTimeout, WaitError, WaitCanceled, Decide, ReportOutcome, Untrack,
     UnwindUntrack, RecoverUntrack, RecoverReport
------------------------------------------------------------------------------
(* The boot.                                                               *)

\* While the process is down and until its first sweep is over the registry
\* is empty and no goroutine of a run exists.
DownIsEmpty ==
    proc \in {"down", "boot"} =>
        /\ \A k \in Keys : entries[k].owner = None
        /\ \A r \in Runs : pc[r] \in {"idle", "done", "dead"}

\* A leftover container the first sweep has not removed is still on its list.
Leftover(r) == pc[r] = "dead" /\ box[r] \in Exists /\ r \notin faulted
BootSweeps ==
    /\ proc = "down" => sweep.pc = "idle"
    /\ proc = "boot" => \A r \in Runs : Leftover(r) =>
           CASE sweep.pc = "idle"   -> TRUE
             [] sweep.pc = "filter" -> r \in sweep.seen \cup sweep.orphans
             [] sweep.pc = "remove" -> r \in sweep.orphans

BootInv == DownIsEmpty /\ BootSweeps /\ BootClean

\* A step beside the runs leaves no container over that was not before.
LEMMA LeftoverShrinks ==
    ASSUME TypeOK, Grounded, Beside, NEW r \in Runs, Leftover(r)'
    PROVE  Leftover(r)
BY BesideKeeps DEF KeepsRuns, NoNewBox, Leftover

\* The sweep loses no leftover.
LEMMA SweepBoots ==
    ASSUME TypeOK, Grounded, BootInv, Sweep, Beside
    PROVE  BootInv'
<1> USE DEF BootInv
<1>0. UNCHANGED pc /\ OwnersKept /\ \A r \in Runs : Leftover(r)' => Leftover(r)
  BY BesideKeeps, LeftoverShrinks DEF KeepsRuns
<1>1. CASE SweepList
  <2>1. BootSweeps'
    BY <1>0, <1>1 DEF SweepList, BootSweeps, Leftover, TypeOK
  <2> QED BY <1>0, <1>1, <2>1 DEF SweepList, DownIsEmpty, BootClean, OwnersKept, Leftover
<1>2. CASE \E r \in Runs : SweepFilter(r)
  <2> PICK r \in Runs : SweepFilter(r)
    BY <1>2
  <2>1. BootSweeps'
    <3>1. proc = "boot" => ~Has(card[r])
      BY DEF DownIsEmpty, Has, SweepFilter, Grounded, ListsLaunched, CardsKnown, Launched
    <3> QED BY <1>0, <3>1 DEF SweepFilter, BootSweeps, TypeOK, SweepState
  <2> QED BY <1>0, <2>1 DEF SweepFilter, DownIsEmpty, BootClean, OwnersKept, Leftover
<1>3. CASE SweepFiltered
  <2>1. BootSweeps'
    BY <1>0, <1>3 DEF SweepFiltered, BootSweeps, TypeOK, SweepState
  <2> QED BY <1>0, <1>3, <2>1 DEF SweepFiltered, DownIsEmpty, BootClean, OwnersKept,
             Leftover
<1>4. CASE \E r \in Runs : SweepRemove(r)
  <2> PICK r \in Runs : SweepRemove(r)
    BY <1>4
  <2>1. BootSweeps'
    <3>1. ~Leftover(r)'
      BY ForceRemoveEffect DEF SweepRemove, TypeOK, BoxTypeOK, Leftover
    <3> QED BY <1>0, <3>1 DEF SweepRemove, BootSweeps, TypeOK, SweepState
  <2>2. BootClean'
    BY <1>0 DEF SweepRemove, BootClean, Leftover
  <2> QED BY <1>0, <2>1, <2>2 DEF SweepRemove, DownIsEmpty, OwnersKept
<1>5. CASE SweepEnd
  <2>1. BootSweeps' /\ DownIsEmpty'
    BY <1>0, <1>5 DEF SweepEnd, SweepIdle, BootSweeps, DownIsEmpty, OwnersKept, TypeOK,
       SweepState
  <2>2. proc = "boot" => \A r \in Runs : ~Leftover(r)
    BY <1>5 DEF SweepEnd, BootSweeps
  <2>3. BootClean'
    BY <1>0, <1>5, <2>2 DEF SweepEnd, BootClean, Leftover
  <2> QED BY <2>1, <2>3
<1>6. CASE SweepListFails
  <2>1. BootSweeps' /\ DownIsEmpty'
    BY <1>0, <1>6 DEF SweepListFails, BootSweeps, DownIsEmpty
  <2>2. \A r \in Runs : ~Leftover(r)'
    BY <1>6 DEF SweepListFails, Leftover
  <2>3. BootClean'
    BY <2>2 DEF BootClean, Leftover
  <2> QED BY <2>1, <2>3
<1> QED
  BY <1>1, <1>2, <1>3, <1>4, <1>5, <1>6 DEF Sweep

\* No step makes a leftover the first sweep would miss.
LEMMA BootStep ==
    ASSUME TypeOK, Grounded, BootInv, [Next]_vars
    PROVE  BootInv'
<1> USE DEF BootInv, BootSweeps, BootClean, DownIsEmpty
<1>1. ASSUME NEW r \in Runs, (\E c \in Cards : TriggerCheck(r, c)) \/ TriggerReject(r)
      PROVE  BootInv'
  <2>1. proc \notin {"down", "boot"}
    BY <1>1 DEF TriggerCheck, TriggerReject, TypeOK
  <2>2. \A s \in Runs : Leftover(s)' => Leftover(s)
    BY <1>1, CheckKind DEF Leftover
  <2> QED BY <1>1, <2>1, <2>2, CheckKind DEF Leftover
<1>2. ASSUME NEW r \in Runs, TriggerAccept(r)
      PROVE  BootInv'
  <2>1. proc \notin {"down", "boot"}
    BY <1>2, AcceptKind
  <2> QED BY <1>2, <2>1, AcceptKind
<1>3. ASSUME NEW r \in Runs, RunStep(r)
      PROVE  BootInv'
  <2>1. OneMoves(r) /\ pc[r] \notin {"idle", "done", "dead"} /\ pc'[r] # "dead"
    BY <1>3, RunStepKind DEF Advance, Release, Orderly
  <2>2. proc \notin {"down", "boot"}
    BY <2>1
  <2>3. \A s \in Runs : pc[s] = "dead" /\ box'[s] \in Exists => box[s] \in Exists
    BY <1>3, RunStepShrinks
  <2> QED BY <2>1, <2>2, <2>3 DEF OneMoves
<1>4. ASSUME NEW r \in Runs, Panic(r)
      PROVE  BootInv'
  <2>1. pc[r] \notin {"idle", "done", "dead"} /\ proc \notin {"down", "boot"}
    BY <1>4, PanicKind DEF Orderly
  <2> QED BY <1>4, <2>1, PanicKind
<1>5. CASE Beside
  <2>0. UNCHANGED pc /\ OwnersKept /\ \A r \in Runs : Leftover(r)' => Leftover(r)
    BY <1>5, BesideKeeps, LeftoverShrinks DEF KeepsRuns
  <2>1. CASE Sweep
    BY <1>5, <2>1, SweepBoots
  <2>2. CASE Boot
    BY <2>0, <2>2 DEF Boot, OwnersKept, Leftover
  <2>3. CASE UNCHANGED <<sweep, proc>>
    BY <2>0, <2>3 DEF OwnersKept, Leftover
  <2>4. CASE DrainOn
    BY <2>0, <2>4 DEF DrainOn, OwnersKept, Leftover
  <2> QED BY <1>5, <2>1, <2>2, <2>3, <2>4, BesideKeeps DEF KeepsRuns
<1>6. CASE Halt
  BY <1>6, HaltKind DEF TypeOK
<1>7. CASE UNCHANGED vars
  BY <1>7 DEF vars, Leftover
<1> QED
  BY <1>1, <1>2, <1>3, <1>4, <1>5, <1>6, <1>7, StepCases
------------------------------------------------------------------------------
(* The limit.                                                              *)

\* The registry never holds more entries than max_concurrent.
WithinLimit == Count <= MaxConcurrent

\* The registry is finite, so its size is a number.
LEMMA CountType ==
    /\ IsFiniteSet(AllSnapshots) /\ Count \in Nat
BY TrackerAssumption, FS_Subset, FS_CardinalityType DEF AllSnapshots, Count

\* A step that adds no key keeps the limit.
LEMMA FewerKept ==
    ASSUME WithinLimit, \A k \in Keys : entries'[k].owner # None => entries[k].owner # None
    PROVE  WithinLimit'
<1>1. AllSnapshots' \subseteq AllSnapshots
  BY DEF AllSnapshots, Has
<1>2. Count' <= Count /\ Count' \in Nat
  BY <1>1, CountType, FS_Subset, FS_CardinalityType DEF Count
<1> QED
  BY <1>2, CountType, TrackerAssumption DEF WithinLimit

\* AddIfUnderLimit is the only one that adds a key, below the limit.
LEMMA LimitStep ==
    ASSUME TypeOK, Grounded, WithinLimit, [Next]_vars
    PROVE  WithinLimit'
<1>1. ASSUME NEW r \in Runs, (\E c \in Cards : TriggerCheck(r, c)) \/ TriggerReject(r)
      PROVE  WithinLimit'
  BY <1>1, CheckKind, FewerKept
<1>2. ASSUME NEW r \in Runs, TriggerAccept(r)
      PROVE  WithinLimit'
  <2>1. AllSnapshots' = AllSnapshots \cup {card[r]}
    BY <1>2, AcceptKind, TrackerAssumption DEF AllSnapshots, Has, OthersKept
  <2>2. Count' <= Count + 1
    <3>1. Cardinality(AllSnapshots \cup {card[r]}) \in {Count, Count + 1}
      BY CountType, FS_AddElement DEF Count
    <3> QED BY <2>1, <3>1, CountType DEF Count
  <2>3. Count < MaxConcurrent
    BY <1>2, CountType, TrackerAssumption DEF TriggerAccept, AddIfUnderLimit, AddRefused,
       LimitReached
  <2>4. Count' \in Nat
    BY <2>1, CountType, FS_AddElement, FS_CardinalityType DEF Count
  <2> QED BY <2>2, <2>3, <2>4, CountType, TrackerAssumption DEF WithinLimit
<1>3. ASSUME NEW r \in Runs, RunStep(r)
      PROVE  WithinLimit'
  BY <1>3, RunStepKind, FewerKept DEF Advance, Release, OwnersKept, OthersKept
<1>4. ASSUME NEW r \in Runs, Panic(r)
      PROVE  WithinLimit'
  BY <1>4, PanicKind, FewerKept
<1>5. CASE Beside
  BY <1>5, BesideKeeps, FewerKept DEF KeepsRuns, OwnersKept
<1>6. CASE Halt
  BY <1>6, HaltKind, FewerKept
<1>7. CASE UNCHANGED vars
  BY <1>7, FewerKept DEF vars
<1> QED
  BY <1>1, <1>2, <1>3, <1>4, <1>5, <1>6, <1>7, StepCases

\* In the first life of the process no run is dead.
FirstLife == crashes = 0 => \A r \in Runs : pc[r] # "dead"

\* Only the end of the process leaves dead runs.
LEMMA FirstLifeStep ==
    ASSUME TypeOK, Grounded, FirstLife, [Next]_vars
    PROVE  FirstLife'
<1> USE DEF FirstLife
<1>1. ASSUME NEW r \in Runs, (\E c \in Cards : TriggerCheck(r, c)) \/ TriggerReject(r)
      PROVE  FirstLife'
  BY <1>1, CheckKind
<1>2. ASSUME NEW r \in Runs, TriggerAccept(r)
      PROVE  FirstLife'
  BY <1>2, AcceptKind
<1>3. ASSUME NEW r \in Runs, RunStep(r)
      PROVE  FirstLife'
  BY <1>3, RunStepKind DEF OneMoves, Advance, Release, Orderly
<1>4. ASSUME NEW r \in Runs, Panic(r)
      PROVE  FirstLife'
  BY <1>4, PanicKind
<1>5. CASE Beside
  BY <1>5, BesideKeeps DEF KeepsRuns
<1>6. CASE Halt
  BY <1>6 DEF Halt, TypeOK
<1>7. CASE UNCHANGED vars
  BY <1>7 DEF vars
<1> QED
  BY <1>1, <1>2, <1>3, <1>4, <1>5, <1>6, <1>7, StepCases

\* Running containers have distinct cards in the registry, so they are no
\* more than its entries.
LEMMA CapFromParts ==
    ASSUME TypeOK, Grounded, RunningWhere, RunHoldsItsEntry, WithinLimit, FirstLife
    PROVE  RunningWithinCap
<1> SUFFICES ASSUME panics = 0, faulted = {}, crashes = 0
             PROVE  Cardinality({r \in Runs : box[r] = "running"}) <= MaxConcurrent
  BY DEF RunningWithinCap
<1> DEFINE S == {r \in Runs : box[r] = "running"}
           f == [r \in S |-> card[r]]
<1>1. \A r \in S : card[r] \in Keys /\ entries[card[r]].owner = r
  BY DEF RunningWhere, BoxAlive, FirstLife, RunHoldsItsEntry, Grounded, CardsKnown, TypeOK
<1>2. f \in [S -> AllSnapshots]
  BY <1>1, TrackerAssumption DEF AllSnapshots, Has
<1>3. \A r, s \in S : f[r] = f[s] => r = s
  BY <1>1
<1>4. f \in Injection(S, AllSnapshots)
  BY <1>2, <1>3 DEF Injection, IsInjective
<1>5. Cardinality(S) <= Count /\ Cardinality(S) \in Nat
  BY <1>4, CountType, FS_Injection, FS_CardinalityType DEF Count
<1> QED
  BY <1>5, CountType, TrackerAssumption DEF WithinLimit
------------------------------------------------------------------------------
(* Who cancels a context.                                                  *)

\* The owner and the operator are entitled to.
LEMMA EntitledCancel ==
    ASSUME TypeOK, NEW k \in Keys, NEW by, CancelCtx(k, by),
           by \in {Operator, entries[k].owner}
    PROVE  \A o \in Owners : ctx'[o] = "hijacked" => ctx[o] = "hijacked"
BY DEF CancelCtx, TypeOK, TrackerTypeOK

\* Without a watchdog and without a panic, whoever cancels is entitled to.
NobodyStrays == panics = 0 /\ \A r \in Runs : wd[r] = "off"

\* Run's goroutine arms no watchdog when it is configured off.
LEMMA StraysStep ==
    ASSUME IdleWatchdog = FALSE, MaxPanics = 0, TypeOK, NobodyStrays, [Next]_vars
    PROVE  NobodyStrays'
<1> USE DEF NobodyStrays
<1>1. ASSUME NEW r \in Runs, Trigger(r) PROVE NobodyStrays'
  BY <1>1 DEF Trigger, TriggerCheck, TriggerAccept, TriggerReject
<1>2. ASSUME NEW r \in Runs, Starts(r) PROVE NobodyStrays'
  BY <1>2 DEF Starts, StartFails, ContainerCreate, ContainerStart, StartOrAttachFails,
     CaptureID, Publish,
     ReportStartFailure, UntrackStartFailure, TypeOK
<1>3. ASSUME NEW r \in Runs, WaitsAndCleansUp(r) PROVE NobodyStrays'
  BY <1>3 DEF WaitsAndCleansUp, WaitExit, WaitTimeout, WaitError, WaitCanceled, Decide,
     StopBox, ReportOutcome,
     Untrack, RemoveBox
<1>4. ASSUME NEW r \in Runs, Recovers(r) PROVE NobodyStrays'
  BY <1>4 DEF Recovers, UnwindUntrack, UnwindRemove, RecoverRemove, RecoverUntrack,
     RecoverReport
<1>5. ASSUME NEW r \in Runs, Watchdog(r) \/ RunningCallback(r) \/ ContainerExits(r) PROVE NobodyStrays'
  BY <1>5 DEF Watchdog, WatchdogTick, WatchdogExit, WatchdogFire, RunningCallback,
     ContainerExits
<1>6. ASSUME NEW r \in Runs, Panic(r) PROVE FALSE
  BY <1>6 DEF Panic, TypeOK
<1>7. ASSUME NEW h \in Handlers, Handle(h) PROVE NobodyStrays'
  BY <1>7 DEF Handle, KillCheck, KillCancel, ForceRemoveList, ForceRemoveListFails,
     ForceRemoveOne, StopAllSnapshot, StopAllKill, Reply
<1>8. CASE Sweep
  BY <1>8 DEF Sweep, SweepList, SweepListFails, SweepFilter, SweepFiltered, SweepRemove,
     SweepEnd
<1>9. CASE StartDraining \/ Shutdown \/ Crash \/ Boot
  BY <1>9 DEF StartDraining, Shutdown, SnapshotToKill, ShutdownKill, WaitManager,
     SnapshotToForce, ForceKill,
     Exit, Crash, Halt, Boot
<1>10. CASE UNCHANGED vars
  BY <1>10 DEF vars
<1> QED
  BY <1>1, <1>2, <1>3, <1>4, <1>5, <1>6, <1>7, <1>8, <1>9, <1>10 DEF Next, RunStep

\* A run that still holds its entry removes nobody else's.
LEMMA OwnRemove ==
    ASSUME TypeOK, Grounded, RunHoldsItsEntry, OnlyOwnCancels, panics = 0,
           NEW r \in Runs, pc[r] \in Owning, Remove(card[r], r)
    PROVE  OnlyOwnCancels'
<1>1. card[r] \in Keys /\ entries[card[r]].owner = r
  BY DEF Grounded, CardsKnown, RunHoldsItsEntry
<1>2. CancelCtx(card[r], r)
  BY <1>1, TrackerAssumption DEF Remove, Has
<1> QED
  BY <1>1, <1>2, EntitledCancel DEF OnlyOwnCancels, TypeOK, TrackerTypeOK

\* An operator's cancel is always entitled.
LEMMA OperatorCancel ==
    ASSUME TypeOK, OnlyOwnCancels, NEW k \in Keys, Cancel(k, Operator)
    PROVE  OnlyOwnCancels'
BY EntitledCancel DEF OnlyOwnCancels, TypeOK, TrackerTypeOK, Cancel

\* Every other step cancels nothing, or cancels with a right to.
LEMMA OnlyOwnStep ==
    ASSUME TypeOK, Grounded, RunHoldsItsEntry, NoRecovery, NobodyStrays, NobodyStrays',
           OnlyOwnCancels, [Next]_vars
    PROVE  OnlyOwnCancels'
<1> USE DEF NobodyStrays
<1>0. CASE UNCHANGED ctx
  BY <1>0 DEF OnlyOwnCancels
<1>1. ASSUME NEW r \in Runs, Trigger(r) PROVE OnlyOwnCancels'
  BY <1>0, <1>1 DEF Trigger, TriggerCheck, TriggerAccept, AddIfUnderLimit, TriggerReject
<1>2. ASSUME NEW r \in Runs, Starts(r) PROVE OnlyOwnCancels'
  BY <1>0, <1>2, OwnRemove DEF Starts, StartFails, ContainerCreate, ContainerStart,
     StartOrAttachFails, CaptureID,
     Publish, UpdateContainerID, ReportStartFailure, UntrackStartFailure
<1>3. ASSUME NEW r \in Runs, WaitsAndCleansUp(r) PROVE OnlyOwnCancels'
  BY <1>0, <1>3, OwnRemove DEF WaitsAndCleansUp, WaitExit, WaitTimeout, WaitError,
     WaitCanceled, Decide, StopBox,
     ReportOutcome, Untrack, RemoveBox
<1>4. ASSUME NEW r \in Runs, Recovers(r) PROVE FALSE
  BY <1>4 DEF Recovers, UnwindUntrack, UnwindRemove, RecoverRemove, RecoverUntrack,
     RecoverReport, NoRecovery, Panicking
<1>5. ASSUME NEW r \in Runs, Watchdog(r) \/ RunningCallback(r) \/ ContainerExits(r) PROVE OnlyOwnCancels'
  BY <1>0, <1>5 DEF Watchdog, WatchdogTick, WatchdogExit, WatchdogFire, RunningCallback,
     ContainerExits
<1>6. ASSUME NEW r \in Runs, Panic(r) PROVE OnlyOwnCancels'
  BY <1>0, <1>6 DEF Panic
<1>7. ASSUME NEW h \in Handlers, Handle(h) PROVE OnlyOwnCancels'
  BY <1>0, <1>7, OperatorCancel DEF Handle, KillCheck, KillCancel, ForceRemoveList,
     ForceRemoveListFails,
     ForceRemoveOne, StopAllSnapshot,
     StopAllKill, Reply
<1>8. CASE Sweep
  BY <1>0, <1>8 DEF Sweep, SweepList, SweepListFails, SweepFilter, SweepFiltered,
     SweepRemove, SweepEnd
<1>9. CASE StartDraining \/ Shutdown \/ Crash \/ Boot
  <2>1. ASSUME NEW r \in Runs, ShutdownKill(r) PROVE OnlyOwnCancels'
    BY <1>0, <2>1, OperatorCancel DEF ShutdownKill, Grounded, ListsLaunched, CardsKnown,
       Launched
  <2> QED
    BY <1>0, <1>9, <2>1 DEF StartDraining, Shutdown, SnapshotToKill, WaitManager,
       SnapshotToForce, ForceKill,
       Exit, Crash, Halt, Boot
<1>10. CASE UNCHANGED vars
  BY <1>0, <1>10 DEF vars
<1> QED
  BY <1>1, <1>2, <1>3, <1>4, <1>5, <1>6, <1>7, <1>8, <1>9, <1>10 DEF Next, RunStep
------------------------------------------------------------------------------
(* What ContextMatrix is told.                                             *)

\* Where a run that did not panic has reported its outcome, and where not yet.
Spoken   == {"sfuntrack", "untrack", "remove", "done"}
Unspoken == PCs \ (Spoken \cup Panicking \cup {"dead"})

\* A report adds its position to the run's terminal statuses, or nothing.
LEMMA ReportEffect ==
    ASSUME TypeOK, NEW r \in Runs, NEW status \in Statuses, Report(r, status)
    PROVE  /\ \A s \in Runs : s # r => Terminals(s)' = Terminals(s)
           /\ Terminals(r)' = Terminals(r) \cup
                                 (IF status \in Terminal THEN {Len(told[r]) + 1} ELSE {})
<1>1. told \in [Runs -> Seq(Statuses)] /\ told' = [told EXCEPT ![r] = Append(@, status)]
  BY DEF TypeOK
<1>2. \A s \in Runs : s # r => Terminals(s)' = Terminals(s)
  BY <1>1 DEF Terminals
<1>3. /\ told'[r] = Append(told[r], status) /\ told[r] \in Seq(Statuses)
  BY <1>1
<1>4. /\ DOMAIN told'[r] = DOMAIN told[r] \cup {Len(told[r]) + 1}
      /\ told'[r][Len(told[r]) + 1] = status
      /\ \A i \in DOMAIN told[r] : told'[r][i] = told[r][i]
  BY <1>3
<1>5. Terminals(r)' = {i \in DOMAIN told'[r] : told'[r][i] \in Terminal}
  BY DEF Terminals
<1>6. Terminals(r)' = Terminals(r) \cup
                                 (IF status \in Terminal THEN {Len(told[r]) + 1} ELSE {})
  BY <1>4, <1>5 DEF Terminals
<1> QED
  BY <1>2, <1>6

SilentRun(r) ==
    /\ \A s \in Runs : Terminals(s)' = Terminals(s)
    /\ pc[r] \in Unspoken => pc'[r] \in Unspoken
    /\ pc[r] \in Spoken => pc'[r] \in Spoken

SpeakingRun(r) ==
    /\ \A s \in Runs : s # r => Terminals(s)' = Terminals(s)
    /\ Terminals(r)' = Terminals(r) \cup {Len(told[r]) + 1}
    /\ pc[r] \in Unspoken /\ pc'[r] \in {"untrack", "sfuntrack"}

\* Without a panic Run's goroutine reports a terminal status in one step, and
\* that step takes it from where it has not to where it has.
LEMMA RunStepSays ==
    ASSUME TypeOK, NEW r \in Runs, RunStep(r), pc[r] \notin Panicking
    PROVE  SilentRun(r) \/ SpeakingRun(r)
<1>1. CASE ReportStartFailure(r)
  BY <1>1, ReportEffect DEF ReportStartFailure, TypeOK, SpeakingRun, Spoken, Unspoken,
     Panicking, Terminal
<1>2. CASE ReportOutcome(r)
  <2>1. PICK status \in Terminal : Report(r, status)
    BY <1>2 DEF ReportOutcome, Terminal
  <2> QED BY <1>2, <2>1, ReportEffect DEF ReportOutcome, TypeOK, SpeakingRun, Spoken,
             Unspoken, Panicking, Terminal
<1>3. CASE UNCHANGED told /\ ~ReportStartFailure(r) /\ ~ReportOutcome(r)
  <2>1. \A s \in Runs : Terminals(s)' = Terminals(s)
    BY <1>3 DEF Terminals
  <2>2. (pc[r] \in Unspoken /\ pc'[r] \in Unspoken) \/ (pc[r] \in Spoken /\ pc'[r] \in Spoken)
    <3>1. CASE Starts(r)
      BY <1>3, <3>1 DEF Starts, StartFails, ContainerCreate, ContainerStart,
         StartOrAttachFails, CaptureID, Publish, UntrackStartFailure,
         TypeOK, Spoken, Unspoken, Panicking
    <3>2. CASE WaitsAndCleansUp(r)
      BY <1>3, <3>2 DEF WaitsAndCleansUp, WaitExit, WaitTimeout, WaitError, WaitCanceled,
         Decide, StopBox, Untrack, RemoveBox, TypeOK, Spoken, Unspoken, Panicking
    <3>3. CASE Recovers(r)
      BY <3>3 DEF Recovers, UnwindUntrack, UnwindRemove, RecoverRemove, RecoverUntrack,
         RecoverReport, Panicking
    <3> QED BY <3>1, <3>2, <3>3 DEF RunStep
  <2> QED BY <2>1, <2>2 DEF SilentRun, Spoken, Unspoken
<1>4. CASE Recovers(r)
  BY <1>4 DEF Recovers, UnwindUntrack, UnwindRemove, RecoverRemove, RecoverUntrack,
     RecoverReport, Panicking
<1> QED
  BY <1>1, <1>2, <1>3, <1>4 DEF RunStep, Starts, StartFails, ContainerCreate,
     ContainerStart, StartOrAttachFails, CaptureID, Publish, UntrackStartFailure,
     WaitsAndCleansUp, WaitExit, WaitTimeout, WaitError, WaitCanceled, Decide, StopBox,
     Untrack, RemoveBox

\* Beside the runs only shutdown's fourth step reports an outcome.
LEMMA BesideSays ==
    ASSUME TypeOK, Beside
    PROVE  \/ \A s \in Runs : Terminals(s)' = Terminals(s)
           \/ \E r \in Runs :
                  /\ ShutdownKill(r)
                  /\ Terminals(r)' = Terminals(r) \cup {Len(told[r]) + 1}
                  /\ \A s \in Runs : s # r => Terminals(s)' = Terminals(s)
<1>0. CASE UNCHANGED told
  BY <1>0 DEF Terminals
<1>1. ASSUME NEW r \in Runs, ShutdownKill(r)
      PROVE  /\ Terminals(r)' = Terminals(r) \cup {Len(told[r]) + 1}
             /\ \A s \in Runs : s # r => Terminals(s)' = Terminals(s)
  BY <1>1, ReportEffect DEF ShutdownKill, Terminal
<1>2. ASSUME NEW r \in Runs, RunningCallback(r)
      PROVE  \A s \in Runs : Terminals(s)' = Terminals(s)
  BY <1>2, ReportEffect DEF RunningCallback, Terminal
<1>3. ASSUME NEW h \in Handlers, Handle(h) PROVE UNCHANGED told
  BY <1>3 DEF Handle, KillCheck, KillCancel, ForceRemoveList, ForceRemoveListFails,
     ForceRemoveOne, StopAllSnapshot, StopAllKill, Reply
<1>4. ASSUME Sweep PROVE UNCHANGED told
  BY <1>4 DEF Sweep, SweepList, SweepListFails, SweepFilter, SweepFiltered, SweepRemove,
     SweepEnd
<1>5. ASSUME StartDraining \/ Boot \/ SnapshotToKill \/ WaitManager \/ SnapshotToForce
      PROVE  UNCHANGED told
  BY <1>5 DEF StartDraining, Boot, SnapshotToKill, WaitManager, SnapshotToForce
<1>6. ASSUME NEW r \in Runs, ForceKill(r) \/ Watchdog(r) \/ ContainerExits(r)
      PROVE  UNCHANGED told
  BY <1>6 DEF ForceKill, Watchdog, WatchdogTick, WatchdogExit, WatchdogFire, ContainerExits
<1> QED
  BY <1>0, <1>1, <1>2, <1>3, <1>4, <1>5, <1>6 DEF Beside

\* Triggers, panics and the end of the process report nothing.
LEMMA OthersSayNothing ==
    ASSUME \/ \E r \in Runs : Trigger(r) \/ Panic(r)
           \/ Halt \/ UNCHANGED vars
    PROVE  \A s \in Runs : Terminals(s)' = Terminals(s)
<1>1. UNCHANGED told
  BY DEF Trigger, TriggerCheck, TriggerAccept, TriggerReject, Panic, Halt, vars
<1> QED BY <1>1 DEF Terminals

\* A run that has nothing left but its slot or its container has reported.
SpokenIsHeard == panics = 0 => \A r \in Runs : pc[r] \in Spoken => Terminals(r) # {}

\* Until a shutdown begins nobody but the run itself reports its outcome.
SpeaksOnce ==
    (panics = 0 /\ crashes = 0 /\ proc = "up") => \A r \in Runs :
        /\ pc[r] \in Unspoken => Terminals(r) = {}
        /\ \A i, j \in Terminals(r) : i = j

\* Only a process that ended before can be down or booting.
DownIsLater == proc \in {"down", "boot"} => crashes # 0

\* Shutdown reports for runs of its own process only.
KillsTheLiving == proc = "killing" => \A r \in targets : pc[r] # "dead"

ToldInv == SpokenIsHeard /\ SpeaksOnce /\ DownIsLater /\ KillsTheLiving

\* The list of the fourth shutdown step comes from the registry and shrinks.
LEMMA TargetsStep ==
    ASSUME TypeOK, Grounded, EntryHasLiveRun, KillsTheLiving, [Next]_vars
    PROVE  KillsTheLiving'
<1> USE DEF KillsTheLiving
<1>0. targets \subseteq Runs
  BY DEF TypeOK
<1>1. CASE UNCHANGED <<proc, targets>> /\ \A s \in Runs : pc[s] # "dead" => pc'[s] # "dead"
  BY <1>0, <1>1
<1>2. ASSUME NEW r \in Runs, Trigger(r) PROVE KillsTheLiving'
  BY <1>1, <1>2, CheckKind, AcceptKind DEF Trigger, TriggerCheck, TriggerAccept,
     TriggerReject
<1>3. ASSUME NEW r \in Runs, RunStep(r) PROVE KillsTheLiving'
  <2>1. UNCHANGED <<proc, targets>>
    BY <1>3 DEF RunStep, Starts, StartFails, ContainerCreate,
     ContainerStart, StartOrAttachFails, CaptureID, Publish, UntrackStartFailure,
     ReportStartFailure, WaitsAndCleansUp, WaitExit, WaitTimeout, WaitError, WaitCanceled,
     Decide, StopBox, ReportOutcome, Untrack, RemoveBox, Recovers, UnwindUntrack,
     UnwindRemove, RecoverRemove, RecoverUntrack, RecoverReport
  <2> QED BY <1>1, <1>3, <2>1, RunStepKind DEF OneMoves, Advance, Release, Orderly
<1>4. ASSUME NEW r \in Runs, Panic(r) PROVE KillsTheLiving'
  BY <1>1, <1>4, PanicKind DEF Panic
<1>5. CASE Beside
  <2>0. UNCHANGED pc
    BY <1>5, BesideKeeps DEF KeepsRuns
  <2>1. CASE SnapshotToKill
    <3>1. \A k \in AllSnapshots : pc[entries[k].owner] # "dead"
      BY DEF AllSnapshots, EntryHasLiveRun
    <3> QED BY <2>0, <2>1, <3>1 DEF SnapshotToKill
  <2>2. CASE ~SnapshotToKill
    <3>1. proc' = "killing" => proc = "killing" /\ targets' \subseteq targets
      <4>1. ASSUME NEW h \in Handlers, Handle(h) PROVE UNCHANGED <<proc, targets>>
        BY <4>1 DEF Handle, KillCheck, KillCancel, ForceRemoveList, ForceRemoveListFails,
           ForceRemoveOne, StopAllSnapshot, StopAllKill, Reply
      <4>2. ASSUME Sweep PROVE UNCHANGED targets /\ (proc' = proc \/ proc' = "up")
        BY <4>2 DEF Sweep, SweepList, SweepListFails, SweepFilter, SweepFiltered, SweepRemove,
           SweepEnd
      <4>3. ASSUME StartDraining \/ Boot \/ WaitManager \/ SnapshotToForce
            PROVE  proc' # "killing"
        BY <4>3 DEF StartDraining, Boot, WaitManager, SnapshotToForce
      <4>4. ASSUME NEW r \in Runs, \/ ForceKill(r) \/ ShutdownKill(r) \/ Watchdog(r)
                                   \/ ContainerExits(r) \/ RunningCallback(r)
            PROVE  proc' = proc /\ targets' \subseteq targets
        BY <4>4 DEF ForceKill, ShutdownKill, Watchdog, WatchdogTick, WatchdogExit,
           WatchdogFire, ContainerExits, RunningCallback
      <4> QED BY <1>5, <2>2, <4>1, <4>2, <4>3, <4>4 DEF Beside
    <3> QED BY <1>0, <2>0, <3>1
  <2> QED BY <2>1, <2>2
<1>6. CASE Halt
  BY <1>6 DEF Halt
<1>7. CASE UNCHANGED vars
  BY <1>7 DEF vars
<1> QED
  BY <1>2, <1>3, <1>4, <1>5, <1>6, <1>7, StepCases DEF Trigger

\* A process is down or booting only after an end.
LEMMA DownStep ==
    ASSUME TypeOK, Grounded, DownIsLater, [Next]_vars
    PROVE  DownIsLater'
<1> USE DEF DownIsLater
<1>1. ASSUME NEW r \in Runs, (\E c \in Cards : TriggerCheck(r, c)) \/ TriggerReject(r)
      PROVE  DownIsLater'
  BY <1>1, CheckKind
<1>2. ASSUME NEW r \in Runs, TriggerAccept(r) PROVE DownIsLater'
  BY <1>2, AcceptKind
<1>3. ASSUME NEW r \in Runs, RunStep(r) PROVE DownIsLater'
  BY <1>3, RunStepKind DEF OneMoves
<1>4. ASSUME NEW r \in Runs, Panic(r) PROVE DownIsLater'
  BY <1>4, PanicKind
<1>5. CASE Beside
  <2>1. CASE Sweep
    BY <1>5, <2>1, BesideKeeps DEF KeepsRuns, Sweep, SweepList, SweepListFails, SweepFilter,
       SweepFiltered, SweepRemove, SweepEnd
  <2> QED BY <1>5, <2>1, BesideKeeps DEF KeepsRuns, DrainOn, Boot
<1>6. CASE Halt
  BY <1>6 DEF Halt, TypeOK
<1>7. CASE UNCHANGED vars
  BY <1>7 DEF vars
<1> QED
  BY <1>1, <1>2, <1>3, <1>4, <1>5, <1>6, <1>7, StepCases

\* A run speaks in one step, and nobody speaks for it before a shutdown.
LEMMA ToldStep ==
    ASSUME TypeOK, Grounded, EntryHasLiveRun, NoRecovery, ToldInv, [Next]_vars
    PROVE  ToldInv'
<1>0. KillsTheLiving' /\ DownIsLater'
  BY TargetsStep, DownStep DEF ToldInv
<1> SUFFICES SpokenIsHeard' /\ SpeaksOnce'
  BY <1>0 DEF ToldInv
<1> USE DEF SpokenIsHeard, SpeaksOnce
<1>1. ASSUME NEW r \in Runs, (\E c \in Cards : TriggerCheck(r, c)) \/ TriggerReject(r)
      PROVE  SpokenIsHeard' /\ SpeaksOnce'
  BY <1>1, CheckKind, OthersSayNothing DEF ToldInv, Trigger, Spoken, Unspoken, Panicking
<1>2. ASSUME NEW r \in Runs, TriggerAccept(r)
      PROVE  SpokenIsHeard' /\ SpeaksOnce'
  BY <1>2, AcceptKind, OthersSayNothing DEF ToldInv, Trigger, Spoken, Unspoken, Panicking
<1>3. ASSUME NEW r \in Runs, RunStep(r)
      PROVE  SpokenIsHeard' /\ SpeaksOnce'
  <2>1. OneMoves(r)
    BY <1>3, RunStepKind
  <2> SUFFICES ASSUME panics = 0
               PROVE  SpokenIsHeard' /\ SpeaksOnce'
    BY <2>1 DEF OneMoves
  <2>2. SilentRun(r) \/ SpeakingRun(r)
    BY <1>3, RunStepSays DEF NoRecovery
  <2>3. CASE SilentRun(r)
    <3>1. pc[r] \in Unspoken \/ pc[r] \in Spoken
      BY <1>3, RunStepKind DEF NoRecovery, Advance, Release, Orderly, Spoken, Unspoken,
         Panicking
    <3> QED BY <2>1, <2>3, <3>1 DEF ToldInv, OneMoves, SilentRun, Spoken, Unspoken
  <2>4. CASE SpeakingRun(r)
    <3>1. PICK n : Terminals(r)' = Terminals(r) \cup {n}
      BY <2>4 DEF SpeakingRun
    <3>2. SpokenIsHeard'
      BY <2>1, <2>4, <3>1 DEF ToldInv, OneMoves, SpeakingRun
    <3>3. \A s \in Runs : s # r => pc'[s] = pc[s] /\ Terminals(s)' = Terminals(s)
      BY <2>1, <2>4 DEF OneMoves, SpeakingRun
    <3>4. crashes = 0 /\ proc = "up" => Terminals(r)' = {n} /\ pc'[r] \notin Unspoken
      BY <2>4, <3>1 DEF ToldInv, SpeakingRun, Unspoken, Spoken
    <3>5. SpeaksOnce'
      BY <2>1, <3>3, <3>4 DEF ToldInv, OneMoves
    <3> QED BY <3>2, <3>5
  <2> QED BY <2>2, <2>3, <2>4
<1>4. ASSUME NEW r \in Runs, Panic(r)
      PROVE  SpokenIsHeard' /\ SpeaksOnce'
  BY <1>4, PanicKind
<1>5. CASE Beside
  <2>1. UNCHANGED <<pc, panics, crashes>>
    BY <1>5, BesideKeeps DEF KeepsRuns
  <2>2. proc' = "up" => proc = "up" \/ crashes # 0
    <3>1. CASE Sweep
      BY <3>1 DEF ToldInv, DownIsLater, Sweep, SweepList, SweepListFails, SweepFilter,
         SweepFiltered, SweepRemove, SweepEnd
    <3> QED BY <1>5, <3>1, BesideKeeps DEF KeepsRuns, DrainOn, Boot
  <2>3. CASE \A s \in Runs : Terminals(s)' = Terminals(s)
    BY <2>1, <2>2, <2>3 DEF ToldInv
  <2>4. CASE \E r \in Runs :
               /\ ShutdownKill(r)
               /\ Terminals(r)' = Terminals(r) \cup {Len(told[r]) + 1}
               /\ \A s \in Runs : s # r => Terminals(s)' = Terminals(s)
    BY <2>1, <2>4 DEF ToldInv, ShutdownKill
  <2> QED BY <1>5, <2>3, <2>4, BesideSays
<1>6. CASE Halt
  BY <1>6, HaltKind, OthersSayNothing DEF ToldInv, Spoken
<1>7. CASE UNCHANGED vars
  BY <1>7, OthersSayNothing DEF ToldInv, vars
<1> QED
  BY <1>1, <1>2, <1>3, <1>4, <1>5, <1>6, <1>7, StepCases

\* A run that has reported is past the stop of its container.
LEMMA OneTerminalFromParts ==
    ASSUME TypeOK, NoRecovery, RunningWhere, FirstLife, ToldInv
    PROVE  OneTerminalAfterStop
BY DEF OneTerminalAfterStop, ToldInv, SpeaksOnce, NoRecovery, RunningWhere, FirstLife,
   BoxAlive, TypeOK, Unspoken, Spoken, Panicking

\* Nothing was said when the process starts.
LEMMA ToldInit ==
    ASSUME Init
    PROVE  ToldInv
BY DEF Init, ToldInv, SpokenIsHeard, SpeaksOnce, DownIsLater, KillsTheLiving, Terminals, Spoken
------------------------------------------------------------------------------
(* The theorems.                                                           *)

SafetyInv ==
    /\ TypeOK /\ Grounded
    /\ EntryHasLiveRun /\ NoRecovery /\ RunHoldsItsEntry
    /\ RunningWhere /\ SweepSparesLiveWork /\ BootInv
    /\ WithinLimit /\ FirstLife /\ ToldInv

\* The conjunction of the above is inductive: it holds initially and every
\* step of triggers, runs, watchdogs, requests, sweeps, shutdown, crash and
\* boot preserves it.
THEOREM Safety == Spec => []SafetyInv
<1>1. Init => SafetyInv
  <2> SUFFICES ASSUME Init PROVE SafetyInv
    OBVIOUS
  <2>1. TypeOK /\ Grounded
    BY InitTypes
  <2>2. EntryHasLiveRun /\ NoRecovery /\ RunHoldsItsEntry /\ RunningWhere
    BY DEF Init, TrackerInit, NoEntry, EntryHasLiveRun, Has, NoRecovery, RunHoldsItsEntry,
       RunningWhere, Panicking
  <2>3. SweepSparesLiveWork /\ BootInv /\ FirstLife
    BY DEF Init, SweepIdle, SweepSparesLiveWork, BootInv, DownIsEmpty, BootSweeps,
       BootClean, FirstLife
  <2>4. WithinLimit
    <3>1. AllSnapshots = {}
      BY DEF Init, TrackerInit, NoEntry, AllSnapshots, Has
    <3> QED BY <3>1, FS_EmptySet, TrackerAssumption DEF WithinLimit, Count
  <2>5. ToldInv
    BY ToldInit
  <2> QED BY <2>1, <2>2, <2>3, <2>4, <2>5 DEF SafetyInv
<1>2. SafetyInv /\ [Next]_vars => SafetyInv'
  BY NextTypes, EntryStep, HoldsStep, RunningStep, SweepStep, BootStep, LimitStep,
     FirstLifeStep, ToldStep DEF SafetyInv
<1> QED
  BY <1>1, <1>2, PTL DEF Spec

\* No path of Run's goroutine, panics included, leaves a registry entry
\* without a goroutine that will call tracker.Remove for it.
THEOREM EntriesAreOwned == Spec => []EntryHasLiveRun
<1>1. SafetyInv => EntryHasLiveRun
  BY DEF SafetyInv
<1> QED BY <1>1, Safety, PTL

\* Without a panic, a run finds its own entry under its card until it removes
\* it itself.
THEOREM RunsHoldTheirEntries == Spec => []RunHoldsItsEntry
<1>1. SafetyInv => RunHoldsItsEntry
  BY DEF SafetyInv
<1> QED BY <1>1, Safety, PTL

\* A running container is tracked, or a Docker call on it failed, or its
\* process ended.
THEOREM RunningContainersAreTracked == Spec => []RunningIsTracked
<1>1. SafetyInv => RunningIsTracked
  BY TrackedFromParts DEF SafetyInv
<1> QED BY <1>1, Safety, PTL

\* The maintenance sweep condemns only containers of runs that have ended,
\* however triggers and exits interleave with its two reads.
THEOREM SweepIsSafe == Spec => []SweepSparesLiveWork
<1>1. SafetyInv => SweepSparesLiveWork
  BY DEF SafetyInv
<1> QED BY <1>1, Safety, PTL

\* No more than max_concurrent containers run at a time, whatever the cards,
\* the requests and the limit.
THEOREM CapHolds == Spec => []RunningWithinCap
<1>1. SafetyInv => RunningWithinCap
  BY CapFromParts DEF SafetyInv
<1> QED BY <1>1, Safety, PTL

\* When the listener opens after a restart, every container of the previous
\* process is gone or Docker failed on it.
THEOREM BootLeavesNothing == Spec => []BootClean
<1>1. SafetyInv => BootClean
  BY DEF SafetyInv, BootInv
<1> QED BY <1>1, Safety, PTL

\* Until a shutdown begins, a run that does not panic is reported once, and not
\* before its container has stopped or Docker failed to stop it.
THEOREM OutcomesAreToldOnce == Spec => []OneTerminalAfterStop
<1>1. SafetyInv => OneTerminalAfterStop
  BY OneTerminalFromParts DEF SafetyInv
<1> QED BY <1>1, Safety, PTL

\* With the idle watchdog off and no panic, no run's context is cancelled by
\* another run of its card: those two are the only ways (run card_watchdog
\* exhibits the first).
THEOREM NoHijack ==
    ASSUME IdleWatchdog = FALSE, MaxPanics = 0
    PROVE  Spec => []OnlyOwnCancels
<1>1. Init => NobodyStrays /\ OnlyOwnCancels
  BY DEF Init, TrackerInit, NobodyStrays, OnlyOwnCancels
<1>2. SafetyInv /\ NobodyStrays /\ OnlyOwnCancels /\ [Next]_vars => (NobodyStrays /\ OnlyOwnCancels)'
  BY StraysStep, OnlyOwnStep DEF SafetyInv
<1> QED
  BY <1>1, <1>2, Safety, PTL DEF Spec
------------------------------------------------------------------------------
(* CardRuns implements RunLifecycle.                                       *)

\* Without a panic a run works exactly while it owns its entry.
LEMMA WorkingIsOwning ==
    ASSUME NoRecovery, panics = 0
    PROVE  Working = {r \in Runs : pc[r] \in Owning}
BY DEF Working, NoRecovery, Panicking

\* The same after a step.
LEMMA WorkingIsOwningNext ==
    ASSUME NoRecovery', panics' = 0
    PROVE  Working' = {r \in Runs : pc'[r] \in Owning}
BY DEF Working, NoRecovery, Panicking

\* The registry's limit is the limit on slots.
LEMMA SlotsAreEntries == Lifecycle!Taken = AllSnapshots
BY DEF Lifecycle!Taken, Holder, AllSnapshots, Has

\* RunLifecycle counts as Tracker does: each brings in its own FiniteSets.
LEMMA SameCardinality == \A S : Lifecycle!Cardinality(S) = Cardinality(S)
BY DEF Lifecycle!Cardinality, Cardinality

\* TriggerAccept admits.
LEMMA AcceptAdmits ==
    ASSUME SafetyInv, SafetyInv', panics = 0, panics' = 0, NEW r \in Runs, TriggerAccept(r)
    PROVE  Lifecycle!Admit(r, card[r])
<1> USE DEF SafetyInv
<1>1. /\ card[r] \in Keys /\ OthersKept(card[r])
      /\ entries[card[r]].owner = None /\ entries'[card[r]].owner = r
      /\ pc[r] = "admit" /\ pc'[r] = "start" /\ \A s \in Runs : s # r => pc'[s] = pc[s]
  BY AcceptKind
<1>2. r \notin Admitted /\ Admitted' = Admitted \cup {r} /\ Lost' = Lost
  BY <1>1 DEF Admitted, Lost
<1>3. Working' = Working \cup {r}
  BY <1>1, WorkingIsOwning, WorkingIsOwningNext
<1>4. Holder[card[r]] = None /\ Holder' = [Holder EXCEPT ![card[r]] = r]
  BY <1>1 DEF Holder, OthersKept
<1>5. Heard' = Heard
  BY OthersSayNothing DEF Heard, Trigger
<1>6. Lifecycle!Cardinality(Lifecycle!Taken) < MaxConcurrent
  <2>1. Count < MaxConcurrent
    BY CountType, TrackerAssumption DEF TriggerAccept, AddIfUnderLimit, AddRefused,
       LimitReached
  <2>2. Lifecycle!Cardinality(AllSnapshots) = Count
    BY SameCardinality DEF Count
  <2> QED BY <2>1, <2>2, SlotsAreEntries
<1> QED
  BY <1>2, <1>3, <1>4, <1>5, <1>6 DEF Lifecycle!Admit

\* Run's goroutine reports, releases, or does nothing the promise speaks of.
LEMMA RunStepMaps ==
    ASSUME SafetyInv, SafetyInv', panics = 0, panics' = 0, NEW r \in Runs, RunStep(r)
    PROVE  Lifecycle!Tell(r) \/ Lifecycle!Release(r, card[r]) \/ UNCHANGED Lifecycle!vars
<1> USE DEF SafetyInv
<1>1. /\ OneMoves(r) /\ (Advance(r) \/ Release(r)) /\ (SilentRun(r) \/ SpeakingRun(r))
      /\ pc[r] \notin Panicking
  BY RunStepKind, RunStepSays DEF NoRecovery
<1>2. r \in Admitted \ Lost /\ Admitted' = Admitted /\ Lost' = Lost
  BY <1>1 DEF Admitted, Lost, OneMoves, Advance, Release, Orderly
<1>3. CASE Advance(r)
  <2>1. Working' = Working
    BY <1>1, <1>3, WorkingIsOwning, WorkingIsOwningNext DEF OneMoves, Advance, Orderly, Panicking
  <2>2. Holder' = Holder
    BY <1>3 DEF Advance, OwnersKept, Holder
  <2>3. CASE SilentRun(r)
    BY <1>2, <2>1, <2>2, <2>3 DEF SilentRun, Heard, Lifecycle!vars
  <2>4. CASE SpeakingRun(r)
    <3>1. Heard' = Heard \cup {r}
      BY <2>4 DEF SpeakingRun, Heard
    <3> QED BY <1>2, <2>1, <2>2, <3>1 DEF Lifecycle!Tell, Lifecycle!Active
  <2> QED BY <1>1, <2>3, <2>4
<1>4. CASE Release(r)
  <2>1. pc[r] \in Owning /\ pc'[r] \notin Owning /\ pc[r] \in Orderly
    BY <1>1, <1>4 DEF Release, Orderly, Panicking
  <2>2. r \in Working /\ Working' = Working \ {r}
    BY <1>1, <2>1, WorkingIsOwning, WorkingIsOwningNext DEF OneMoves
  <2>3. card[r] \in Keys /\ entries[card[r]].owner = r
    BY <2>1 DEF RunHoldsItsEntry, Grounded, CardsKnown
  <2>4. Holder[card[r]] = r /\ Holder' = [Holder EXCEPT ![card[r]] = None]
    BY <1>4, <2>3 DEF Release, OthersKept, Holder
  <2>5. Heard' = Heard
    <3>1. CASE SilentRun(r)
      BY <3>1 DEF SilentRun, Heard
    <3>2. ~SpeakingRun(r)
      BY <2>1 DEF SpeakingRun
    <3> QED BY <1>1, <3>1, <3>2
  <2> QED BY <1>2, <2>2, <2>4, <2>5 DEF Lifecycle!Release
<1> QED BY <1>1, <1>3, <1>4

\* Requests, watchdogs, callbacks, the sweep and the boot do nothing the promise
\* speaks of; shutdown reports.
LEMMA BesideMaps ==
    ASSUME SafetyInv, SafetyInv', panics = 0, panics' = 0, Beside
    PROVE  (\E r \in Runs : Lifecycle!Tell(r)) \/ UNCHANGED Lifecycle!vars
<1> USE DEF SafetyInv
<1>1. KeepsRuns
  BY BesideKeeps
<1>2. UNCHANGED <<Admitted, Lost, Working, Holder>>
  BY <1>1, WorkingIsOwning, WorkingIsOwningNext DEF KeepsRuns, OwnersKept, Admitted, Lost, Holder
<1>3. CASE \A s \in Runs : Terminals(s)' = Terminals(s)
  BY <1>2, <1>3 DEF Heard, Lifecycle!vars
<1>4. CASE \E r \in Runs :
             /\ ShutdownKill(r)
             /\ Terminals(r)' = Terminals(r) \cup {Len(told[r]) + 1}
             /\ \A s \in Runs : s # r => Terminals(s)' = Terminals(s)
  <2> PICK r \in Runs :
             /\ ShutdownKill(r)
             /\ Terminals(r)' = Terminals(r) \cup {Len(told[r]) + 1}
             /\ \A s \in Runs : s # r => Terminals(s)' = Terminals(s)
    BY <1>4
  <2>1. Heard' = Heard \cup {r}
    BY DEF Heard
  <2>2. r \in Admitted \ Lost
    BY DEF ShutdownKill, ToldInv, KillsTheLiving, Grounded, ListsLaunched, Launched,
       Admitted, Lost
  <2> QED BY <1>2, <2>1, <2>2 DEF Lifecycle!Tell, Lifecycle!Active
<1> QED BY <1>3, <1>4, BesideSays

\* The end of the process loses the runs that have not settled, and those still
\* removing their container.
LEMMA HaltEnds ==
    ASSUME SafetyInv, SafetyInv', panics = 0, panics' = 0, Halt
    PROVE  Lifecycle!ProcessEnds
<1> USE DEF SafetyInv
<1>1. /\ \A k \in Keys : entries'[k].owner = None
      /\ \A s \in Runs : /\ pc[s] \in {"idle", "admit"} => pc'[s] = "idle"
                         /\ pc[s] = "done" => pc'[s] = "done"
                         /\ pc[s] \notin {"idle", "admit", "done"} => pc'[s] = "dead"
  BY HaltKind
<1> DEFINE gone == Lost' \ Lost
<1>2. gone \in SUBSET (Admitted \ Lost) /\ Lost' = Lost \cup gone
  BY <1>1 DEF Admitted, Lost
<1>3. \A s \in Admitted \ Lost : ~(s \in Heard /\ s \notin Working) => s \in gone
  <2> SUFFICES ASSUME NEW s \in Admitted \ Lost, s \notin gone
               PROVE  s \in Heard /\ s \notin Working
    OBVIOUS
  <2>1. s \in Runs /\ pc[s] = "done"
    BY <1>1 DEF Admitted, Lost
  <2> QED BY <2>1, WorkingIsOwning DEF ToldInv, SpokenIsHeard, Spoken, Heard
<1>4. Working' = {} /\ Admitted' = Admitted
  BY <1>1, WorkingIsOwningNext DEF Admitted
<1>5. Holder' = [c \in Cards |-> None] /\ Heard' = Heard
  BY <1>1, OthersSayNothing DEF Holder, Heard
<1> QED
  BY <1>2, <1>3, <1>4, <1>5 DEF Lifecycle!ProcessEnds, Lifecycle!Active, Lifecycle!Settled

\* Every step of a run without a panic is a step of the promise or none.
LEMMA LifecycleStep ==
    ASSUME SafetyInv, SafetyInv', panics = 0, panics' = 0, [Next]_vars
    PROVE  [Lifecycle!Next]_(Lifecycle!vars)
<1> USE DEF SafetyInv
<1>1. ASSUME NEW r \in Runs, (\E c \in Cards : TriggerCheck(r, c)) \/ TriggerReject(r)
      PROVE  UNCHANGED Lifecycle!vars
  <2>1. UNCHANGED <<Admitted, Lost, Working, Holder>>
    BY <1>1, CheckKind, WorkingIsOwning, WorkingIsOwningNext DEF Admitted, Lost, Holder
  <2>2. UNCHANGED Heard
    BY <1>1, OthersSayNothing DEF Heard, Trigger
  <2> QED BY <2>1, <2>2 DEF Lifecycle!vars
<1>2. ASSUME NEW r \in Runs, TriggerAccept(r)
      PROVE  Lifecycle!Next
  BY <1>2, AcceptAdmits, AcceptKind DEF Lifecycle!Next
<1>3. ASSUME NEW r \in Runs, RunStep(r)
      PROVE  Lifecycle!Next \/ UNCHANGED Lifecycle!vars
  <2>1. card[r] \in Cards
    BY <1>3, RunStepKind DEF Advance, Release, Orderly, Grounded, CardsKnown
  <2> QED BY <1>3, <2>1, RunStepMaps DEF Lifecycle!Next
<1>4. ASSUME NEW r \in Runs, Panic(r)
      PROVE  FALSE
  BY <1>4, PanicKind
<1>5. CASE Beside
  BY <1>5, BesideMaps DEF Lifecycle!Next
<1>6. CASE Halt
  BY <1>6, HaltEnds DEF Lifecycle!Next
<1>7. CASE UNCHANGED vars
  <2>1. UNCHANGED <<Admitted, Lost, Working, Holder>>
    BY <1>7 DEF vars, Admitted, Lost, Holder, Working
  <2>2. UNCHANGED Heard
    BY <1>7, OthersSayNothing DEF Heard
  <2> QED BY <2>1, <2>2 DEF Lifecycle!vars
<1> QED
  BY <1>1, <1>2, <1>3, <1>4, <1>5, <1>6, <1>7, StepCases

\* Nothing is admitted before the first trigger.
LEMMA LifecycleInit ==
    ASSUME Init
    PROVE  Lifecycle!Init
<1>1. Admitted = {} /\ Working = {} /\ Lost = {}
  BY DEF Init, Admitted, Working, Lost
<1>2. Heard = {}
  BY DEF Init, Heard, Terminals
<1>3. Holder = [c \in Cards |-> None]
  BY DEF Init, TrackerInit, NoEntry, Holder
<1> QED BY <1>1, <1>2, <1>3 DEF Lifecycle!Init

\* As long as nothing panics, the runner keeps the safety part of its promise
\* to ContextMatrix: a slot is taken within the limit, held by one run and given
\* back by that run only; only accepted runs are reported, and a run whose process
\* ends before it has settled is lost, whatever webhooks, watchdogs, sweeps,
\* Docker failures, shutdowns and crashes come in between.
THEOREM LifecycleIsImplemented == Spec /\ [](panics = 0) => ImplementsLifecycle
<1>1. Init => Lifecycle!Init
  BY LifecycleInit
<1>2. SafetyInv /\ SafetyInv' /\ panics = 0 /\ (panics = 0)' /\ [Next]_vars
          => [Lifecycle!Next]_(Lifecycle!vars)
  BY LifecycleStep
<1> QED
  BY <1>1, <1>2, Safety, PTL DEF Spec, ImplementsLifecycle, Lifecycle!Spec
==============================================================================

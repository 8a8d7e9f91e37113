------------------------- MODULE LogBroadcastProofs --------------------------
(***************************************************************************)
(* For any publishers, subscribers, buffer and number of panics: nobody    *)
(* sends on a closed channel, every entry offered is accounted for once,   *)
(* and Close flushes.  A publisher works on a snapshot, so the first       *)
(* invariant follows a subscriber from the map into the snapshots; the     *)
(* accounts need that no snapshot offers an entry to a subscriber that has *)
(* it already, and the flush that the reporter ends only after Close.      *)
(***************************************************************************)
EXTENDS LogBroadcast, FiniteSetTheorems, TLAPS

PubState == [pc : {"idle", "snap", "loop", "send", "drop"}, n : Nat,
             todo : SUBSET Subs, cur : Subs \cup {None}]

Types ==
    /\ members \in SUBSET Subs /\ chClosed \in SUBSET Subs
    /\ sub \in [Subs -> {"off", "live", "closing", "ended"}]
    /\ pub \in [Publishers -> PubState]

\* A subscriber that has not subscribed is in no map and in no snapshot, so its
\* channel can come back closed without anyone being about to send on it.
Known ==
    /\ \A s \in members : sub[s] = "live"
    /\ \A p \in Publishers :
          /\ \A s \in pub[p].todo : sub[s] # "off"
          /\ pub[p].pc = "send" => pub[p].cur \in Subs /\ sub[pub[p].cur] # "off"

SendInv == Types /\ Known /\ NoSendOnClosed

\* What the steps that move one publisher leave alone.
LEMMA PublisherStep ==
    ASSUME SendInv, NEW p \in Publishers, UNCHANGED subVars,
           NEW q \in PubState, pub' = [pub EXCEPT ![p] = q],
           \A s \in q.todo : sub[s] # "off",
           q.pc = "send" => q.cur \in Subs /\ sub[q.cur] # "off" /\ q.cur \notin chClosed
    PROVE  SendInv'
BY DEF SendInv, Types, Known, NoSendOnClosed, subVars

LEMMA InitSend == Init => SendInv
BY DEF Init, SendInv, Types, Known, NoSendOnClosed, PubIdle, PubState

LEMMA StepSend == SendInv /\ [Next]_vars => SendInv'
<1> SUFFICES ASSUME SendInv, [Next]_vars PROVE SendInv'
  OBVIOUS
<1> USE DEF SendInv
<1>1. ASSUME NEW p \in Publishers, Publish(p) PROVE SendInv'
  <2> DEFINE q == [pub[p] EXCEPT !.pc = IF closed THEN "idle" ELSE "snap", !.n = @ + 1]
  <2>1. q \in PubState /\ pub' = [pub EXCEPT ![p] = q] /\ UNCHANGED subVars
    BY <1>1 DEF Publish, Types, PubState
  <2>2. q.todo = pub[p].todo /\ q.pc # "send"
    BY <1>1 DEF Types, PubState
  <2>3. \A s \in q.todo : sub[s] # "off"
    BY <2>2 DEF Known
  <2> QED
    BY <2>1, <2>2, <2>3, PublisherStep
<1>2. ASSUME NEW p \in Publishers, Snapshot(p) PROVE SendInv'
  <2> DEFINE q == [pub[p] EXCEPT !.pc = "loop", !.todo = members]
  <2>1. q \in PubState /\ pub' = [pub EXCEPT ![p] = q] /\ UNCHANGED subVars
    BY <1>2 DEF Snapshot, Types, PubState
  <2>2. q.todo = members /\ q.pc # "send"
    BY <1>2 DEF Types, PubState
  <2>3. \A s \in q.todo : sub[s] # "off"
    BY <2>2 DEF Known
  <2> QED
    BY <2>1, <2>2, <2>3, PublisherStep
<1>3. ASSUME NEW p \in Publishers, NEW s \in Subs, Skip(p, s) PROVE SendInv'
  <2> DEFINE q == [pub[p] EXCEPT !.todo = @ \ {s}]
  <2>1. q \in PubState /\ pub' = [pub EXCEPT ![p] = q] /\ UNCHANGED subVars
    BY <1>3 DEF Skip, Types, PubState
  <2>2. q.todo = pub[p].todo \ {s} /\ q.pc # "send"
    BY <1>3 DEF Skip, Types, PubState
  <2>3. \A r \in q.todo : sub[r] # "off"
    BY <2>2 DEF Known
  <2> QED
    BY <2>1, <2>2, <2>3, PublisherStep
<1>4. ASSUME NEW p \in Publishers, NEW s \in Subs, TrySend(p, s) PROVE SendInv'
  <2> DEFINE q == [pub[p] EXCEPT !.pc = IF s \in chClosed THEN "drop" ELSE "send",
                                 !.todo = @ \ {s}, !.cur = s]
  <2>1. q \in PubState /\ pub' = [pub EXCEPT ![p] = q] /\ UNCHANGED subVars
    BY <1>4 DEF TrySend, Types, PubState
  <2>2. /\ q.todo = pub[p].todo \ {s} /\ q.cur = s
        /\ q.pc = "send" => s \notin chClosed
    BY <1>4 DEF Types, PubState
  <2>3. sub[s] # "off" /\ \A r \in q.todo : sub[r] # "off"
    BY <1>4, <2>2 DEF TrySend, Known
  <2> QED
    BY <2>1, <2>2, <2>3, PublisherStep
<1>5. ASSUME NEW p \in Publishers, NEW l \in {"loop", "drop"}, PubGoto(p, l),
             UNCHANGED subVars
      PROVE  SendInv'
  <2> DEFINE q == [pub[p] EXCEPT !.pc = l]
  <2>1. q \in PubState /\ pub' = [pub EXCEPT ![p] = q]
    BY <1>5 DEF PubGoto, Types, PubState
  <2>2. q.todo = pub[p].todo /\ q.pc # "send"
    BY DEF Types, PubState
  <2>3. \A s \in q.todo : sub[s] # "off"
    BY <2>2 DEF Known
  <2> QED
    BY <1>5, <2>1, <2>2, <2>3, PublisherStep
<1>6. ASSUME NEW p \in Publishers, Send(p) \/ CountDrop(p) PROVE SendInv'
  BY <1>5, <1>6 DEF Send, CountDrop
<1>7. ASSUME NEW p \in Publishers, PublishEnd(p) PROVE SendInv'
  <2> DEFINE q == [pub[p] EXCEPT !.pc = "idle", !.cur = None]
  <2>1. q \in PubState /\ pub' = [pub EXCEPT ![p] = q] /\ UNCHANGED subVars
    BY <1>7 DEF PublishEnd, Types, PubState
  <2>2. q.todo = pub[p].todo /\ q.pc # "send"
    BY DEF Types, PubState
  <2>3. \A s \in q.todo : sub[s] # "off"
    BY <2>2 DEF Known
  <2> QED
    BY <2>1, <2>2, <2>3, PublisherStep
<1>8. ASSUME NEW s \in Subs, NEW f \in Publishers \cup {All}, Subscribe(s, f) PROVE SendInv'
  <2>1. UNCHANGED pub /\ sub[s] = "off"
    BY <1>8 DEF Subscribe
  <2>2. /\ sub' = [sub EXCEPT ![s] = IF closed THEN "ended" ELSE "live"]
        /\ members' = IF closed THEN members ELSE members \cup {s}
        /\ chClosed' = IF closed THEN chClosed \cup {s} ELSE chClosed
    BY <1>8 DEF Subscribe
  <2>3. Types'
    BY <2>1, <2>2 DEF Types
  <2>4. Known'
    BY <2>1, <2>2 DEF Known, Types, PubState
  <2>5. NoSendOnClosed'
    BY <2>1, <2>2 DEF Known, Types, NoSendOnClosed
  <2> QED
    BY <2>3, <2>4, <2>5
<1>9. ASSUME NEW s \in Subs, Unsubscribe(s) PROVE SendInv'
  <2>1. Types'
    BY <1>9 DEF Unsubscribe, Types
  <2>2. Known'
    BY <1>9 DEF Unsubscribe, Known, Types, PubState
  <2>3. NoSendOnClosed'
    BY <1>9 DEF Unsubscribe, NoSendOnClosed
  <2> QED
    BY <2>1, <2>2, <2>3
<1>10. ASSUME NEW s \in Subs, CloseChannel(s) PROVE SendInv'
  <2>1. Types'
    BY <1>10 DEF CloseChannel, Types
  <2>2. Known'
    BY <1>10 DEF CloseChannel, Known, Types, PubState
  <2>3. NoSendOnClosed'
    BY <1>10 DEF CloseChannel, HoldsRLock, NoSendOnClosed
  <2> QED
    BY <2>1, <2>2, <2>3
<1>11. ASSUME UNCHANGED <<subVars, pub>> PROVE SendInv'
  BY <1>11 DEF Types, Known, NoSendOnClosed, subVars
<1>12. ASSUME NEW s \in Subs, Receive(s) PROVE UNCHANGED <<subVars, pub>>
  BY <1>12 DEF Receive
<1>13. ASSUME Close \/ CloseReturns \/ CloseTimeout \/ Reporting \/ ReporterPanics
       PROVE  UNCHANGED <<subVars, pub>>
  BY <1>13 DEF Close, CloseReturns, CloseTimeout, Reporting, ReporterPanics, Tick,
               ReporterStops, Respawn, ReporterUnchanged
<1>14. CASE UNCHANGED vars
  BY <1>11, <1>14 DEF vars
<1> QED
  BY <1>1, <1>2, <1>3, <1>4, <1>6, <1>7, <1>8, <1>9, <1>10, <1>11, <1>12, <1>13, <1>14
  DEF Next, PublishStep

\* Whatever the publishers, /logs requests, Close and the reporter do, no
\* publisher is about to send on a channel that an unsubscribe has closed.
THEOREM NobodySendsOnClosed == Spec => []NoSendOnClosed
<1>1. SendInv => NoSendOnClosed
  BY DEF SendInv
<1> QED
  BY <1>1, InitSend, StepSend, PTL DEF Spec
------------------------------------------------------------------------------
(* The accounts.                                                           *)

Counters ==
    /\ attempts \in Nat /\ dropCount \in Nat /\ reported \in Nat /\ unlogged \in Nat
    /\ panics \in Nat /\ due \in Nat
    /\ log \in SUBSET [to : Subs, from : Publishers, n : Nat] /\ IsFiniteSet(log)

\* The publisher in the state q is not about to offer its entry to a subscriber
\* that has it.
Fresh(p, q) ==
    /\ \A e \in log : e.from = p =>
          /\ e.n <= q.n
          /\ e.n = q.n => /\ q.pc # "snap" /\ e.to \notin q.todo
                          /\ q.pc = "send" => e.to # q.cur
    /\ q.pc = "send" => q.cur \notin q.todo

Busy == {p \in Publishers : pub[p].pc \in {"send", "drop"}}

CountInv == Counters /\ (\A p \in Publishers : Fresh(p, pub[p])) /\ NothingLostSilently

FlushInv ==
    /\ closed => closer # "idle"
    /\ reporter = "done" => closer # "idle"
    /\ reporter = "backoff" => panics # 0
    /\ panics = 0 => /\ due <= reported + dropCount
                     /\ reporter = "done" => due <= reported
    /\ closer = "flushed" => reporter = "done"

Inv == SendInv /\ CountInv /\ FlushInv

LEMMA Accounts ==
    NothingLostSilently <=> attempts = Cardinality(log) + dropCount + reported + unlogged + Cardinality(Busy)
BY DEF NothingLostSilently, Busy

LEMMA AccountsNext ==
    NothingLostSilently' <=>
        attempts' = Cardinality(log') + dropCount' + reported' + unlogged' + Cardinality(Busy')
BY DEF NothingLostSilently, Busy

LEMMA Finite ==
    ASSUME Counters
    PROVE  /\ IsFiniteSet(Busy) /\ Cardinality(Busy) \in Nat
           /\ Cardinality(log) \in Nat
<1>1. IsFiniteSet(Busy)
  BY BroadcastAssumption, FS_Subset DEF Busy
<1> QED
  BY <1>1, FS_CardinalityType DEF Counters

\* A step of one publisher that leaves the log and the counters alone.
LEMMA QuietStep ==
    ASSUME SendInv, CountInv, FlushInv, NEW p \in Publishers, NEW q \in PubState, pub' = [pub EXCEPT ![p] = q],
           UNCHANGED <<log, attempts, dropCount, closeVars, flushVars>>, Fresh(p, q),
           q.pc \in {"send", "drop"} <=> pub[p].pc \in {"send", "drop"}
    PROVE  CountInv' /\ FlushInv'
<1>1. pub'[p] = q /\ \A r \in Publishers : r # p => pub'[r] = pub[r]
  BY DEF SendInv, Types
<1>2. Counters'
  BY DEF CountInv, Counters, closeVars, flushVars
<1>3. \A r \in Publishers : Fresh(r, pub[r])'
  <2> SUFFICES ASSUME NEW r \in Publishers PROVE Fresh(r, pub'[r])
    BY DEF Fresh
  <2> QED
    BY <1>1 DEF CountInv
<1>4. Busy' = Busy
  BY <1>1 DEF Busy
<1>5. NothingLostSilently'
  BY <1>4, Accounts, AccountsNext DEF CountInv, flushVars
<1> QED
  BY <1>2, <1>3, <1>5 DEF CountInv, FlushInv, closeVars, flushVars

\* The publisher starts or ends a send: it joins or leaves the busy ones.
LEMMA BusyChange ==
    ASSUME Counters, SendInv, NEW p \in Publishers, NEW q \in PubState, pub' = [pub EXCEPT ![p] = q]
    PROVE  /\ (q.pc \in {"send", "drop"} /\ pub[p].pc \notin {"send", "drop"})
                => Cardinality(Busy') = Cardinality(Busy) + 1
           /\ (q.pc \notin {"send", "drop"} /\ pub[p].pc \in {"send", "drop"})
                => Cardinality(Busy') = Cardinality(Busy) - 1
<1>1. pub'[p] = q /\ \A r \in Publishers : r # p => pub'[r] = pub[r]
  BY DEF SendInv, Types
<1>2. IsFiniteSet(Busy)
  BY Finite
<1>3. CASE q.pc \in {"send", "drop"} /\ pub[p].pc \notin {"send", "drop"}
  <2>1. Busy' = Busy \cup {p} /\ p \notin Busy
    BY <1>1, <1>3 DEF Busy
  <2> QED
    BY <1>2, <1>3, <2>1, FS_AddElement
<1>4. CASE q.pc \notin {"send", "drop"} /\ pub[p].pc \in {"send", "drop"}
  <2>1. Busy' = Busy \ {p} /\ p \in Busy
    BY <1>1, <1>4 DEF Busy
  <2> QED
    BY <1>2, <1>4, <2>1, FS_RemoveElement
<1> QED
  BY <1>3, <1>4

LEMMA PublishCount ==
    ASSUME Inv, NEW p \in Publishers, Publish(p) \/ PublishStep(p)
    PROVE  CountInv' /\ FlushInv'
<1> USE DEF Inv
<1>1. pub[p] \in PubState /\ pub[p].n \in Nat /\ Counters /\ Fresh(p, pub[p])
  BY DEF SendInv, Types, PubState, CountInv
<1>2. CASE Publish(p)
  <2> DEFINE q == [pub[p] EXCEPT !.pc = IF closed THEN "idle" ELSE "snap", !.n = @ + 1]
  <2>1. /\ q \in PubState /\ q.todo = pub[p].todo /\ q.n = pub[p].n + 1
        /\ q.pc \in {"idle", "snap"} /\ pub[p].pc = "idle"
    <3> DEFINE l == IF closed THEN "idle" ELSE "snap"
    <3>1. l \in {"idle", "snap"}
      OBVIOUS
    <3> HIDE DEF l
    <3>2. q = [pub[p] EXCEPT !.pc = l, !.n = pub[p].n + 1] /\ pub[p].n + 1 \in Nat
      BY <1>1 DEF l, PubState
    <3> HIDE DEF q
    <3>3. pub[p].pc = "idle"
      BY <1>2 DEF Publish
    <3> QED
      BY <1>1, <3>1, <3>2, <3>3 DEF PubState
  <2>2. pub' = [pub EXCEPT ![p] = q] /\ UNCHANGED <<log, attempts, dropCount, closeVars, flushVars>>
    BY <1>2 DEF Publish
  <2> HIDE DEF q
  <2>3. Fresh(p, q)
    <3>1. \A e \in log : e.n \in Nat
      BY <1>1 DEF Counters
    <3> QED
      BY <1>1, <2>1, <3>1 DEF Fresh
  <2> QED
    BY <2>1, <2>2, <2>3, QuietStep
<1>3. CASE Snapshot(p)
  <2> DEFINE q == [pub[p] EXCEPT !.pc = "loop", !.todo = members]
  <2>1. q \in PubState /\ q.n = pub[p].n /\ q.pc = "loop" /\ pub[p].pc = "snap"
    BY <1>1, <1>3 DEF PubState, Snapshot, SendInv, Types
  <2>2. pub' = [pub EXCEPT ![p] = q] /\ UNCHANGED <<log, attempts, dropCount, closeVars, flushVars>>
    BY <1>3 DEF Snapshot
  <2> HIDE DEF q
  <2>3. Fresh(p, q)
    BY <1>1, <2>1 DEF Fresh
  <2> QED
    BY <2>1, <2>2, <2>3, QuietStep
<1>4. ASSUME NEW s \in Subs, Skip(p, s) PROVE CountInv' /\ FlushInv'
  <2> DEFINE q == [pub[p] EXCEPT !.todo = @ \ {s}]
  <2>1. /\ q \in PubState /\ q.n = pub[p].n /\ q.pc = pub[p].pc /\ q.cur = pub[p].cur
        /\ q.todo = pub[p].todo \ {s}
    BY <1>1, <1>4 DEF PubState
  <2>2. pub' = [pub EXCEPT ![p] = q] /\ UNCHANGED <<log, attempts, dropCount, closeVars, flushVars>>
    BY <1>4 DEF Skip
  <2> HIDE DEF q
  <2>3. Fresh(p, q)
    BY <1>1, <2>1 DEF Fresh
  <2> QED
    BY <2>1, <2>2, <2>3, QuietStep
<1>5. CASE PublishEnd(p)
  <2> DEFINE q == [pub[p] EXCEPT !.pc = "idle", !.cur = None]
  <2>1. /\ q \in PubState /\ q.n = pub[p].n /\ q.pc = "idle" /\ pub[p].pc = "loop"
        /\ q.todo = pub[p].todo
    BY <1>1, <1>5 DEF PubState, PublishEnd
  <2>2. pub' = [pub EXCEPT ![p] = q] /\ UNCHANGED <<log, attempts, dropCount, closeVars, flushVars>>
    BY <1>5 DEF PublishEnd
  <2> HIDE DEF q
  <2>3. Fresh(p, q)
    BY <1>1, <2>1 DEF Fresh
  <2> QED
    BY <2>1, <2>2, <2>3, QuietStep
<1>6. ASSUME NEW s \in Subs, TrySend(p, s) PROVE CountInv' /\ FlushInv'
  <2> DEFINE q == [pub[p] EXCEPT !.pc = IF s \in chClosed THEN "drop" ELSE "send",
                                 !.todo = @ \ {s}, !.cur = s]
  <2>1. /\ q \in PubState /\ q.n = pub[p].n /\ q.pc \in {"send", "drop"} /\ q.cur = s
        /\ q.todo = pub[p].todo \ {s} /\ s \in pub[p].todo /\ pub[p].pc = "loop"
    BY <1>1, <1>6 DEF PubState, TrySend
  <2>2. /\ pub' = [pub EXCEPT ![p] = q] /\ attempts' = attempts + 1
        /\ UNCHANGED <<log, dropCount, closeVars, flushVars>>
    BY <1>6 DEF TrySend
  <2> HIDE DEF q
  <2>3. Fresh(p, q)
    BY <1>1, <2>1 DEF Fresh
  <2>4. pub'[p] = q /\ \A r \in Publishers : r # p => pub'[r] = pub[r]
    BY <2>2 DEF SendInv, Types
  <2>5. \A r \in Publishers : Fresh(r, pub[r])'
    <3> SUFFICES ASSUME NEW r \in Publishers PROVE Fresh(r, pub'[r])
      BY <2>2 DEF Fresh
    <3> QED
      BY <2>3, <2>4 DEF CountInv
  <2>6. Counters'
    BY <1>1, <2>2 DEF Counters, closeVars, flushVars
  <2>7. NothingLostSilently'
    <3>1. Cardinality(Busy') = Cardinality(Busy) + 1
      BY <1>1, <2>1, <2>2, BusyChange
    <3>2. /\ attempts = Cardinality(log) + dropCount + reported + unlogged + Cardinality(Busy)
          /\ UNCHANGED <<log, dropCount, reported, unlogged>> /\ attempts' = attempts + 1
      BY <2>2, Accounts DEF CountInv, flushVars
    <3>3. attempts' = Cardinality(log') + dropCount' + reported' + unlogged' + Cardinality(Busy')
      BY <1>1, <3>1, <3>2, Finite DEF Counters
    <3> QED
      BY <3>3, AccountsNext
  <2>8. FlushInv'
    BY <2>2 DEF FlushInv, closeVars, flushVars
  <2> QED
    BY <2>5, <2>6, <2>7, <2>8 DEF CountInv
<1>7. CASE Send(p) /\ log' = log
  <2> DEFINE q == [pub[p] EXCEPT !.pc = "drop"]
  <2>1. /\ q \in PubState /\ q.n = pub[p].n /\ q.pc = "drop" /\ pub[p].pc = "send"
        /\ q.todo = pub[p].todo
    BY <1>1, <1>7 DEF PubState, Send
  <2>2. DeliveryOf(pub[p].cur, EntryNow(p)) \notin log
    BY <1>1, <2>1 DEF Fresh, DeliveryOf, EntryNow
  <2>3. pub' = [pub EXCEPT ![p] = q] /\ UNCHANGED <<log, attempts, dropCount, closeVars, flushVars>>
    BY <1>7, <2>2 DEF Send, PubGoto
  <2> HIDE DEF q
  <2>4. Fresh(p, q)
    BY <1>1, <2>1 DEF Fresh
  <2> QED
    BY <2>1, <2>3, <2>4, QuietStep
<1>8. CASE Send(p) /\ log' # log
  <2> DEFINE q == [pub[p] EXCEPT !.pc = "loop"]
             d == DeliveryOf(pub[p].cur, EntryNow(p))
  <2>1. /\ q \in PubState /\ q.n = pub[p].n /\ q.pc = "loop" /\ pub[p].pc = "send"
        /\ q.todo = pub[p].todo
    BY <1>1, <1>8 DEF PubState, Send
  <2>2. d.to = pub[p].cur /\ d.from = p /\ d.n = pub[p].n /\ d \in [to : Subs, from : Publishers, n : Nat]
    BY <1>1, <2>1 DEF DeliveryOf, EntryNow, SendInv, Known
  <2>3. /\ pub' = [pub EXCEPT ![p] = q] /\ log' = log \cup {d}
        /\ UNCHANGED <<attempts, dropCount, closeVars, flushVars>>
    BY <1>8 DEF Send, PubGoto
  <2> HIDE DEF q, d
  <2>4. d \notin log
    BY <1>1, <2>1, <2>2 DEF Fresh
  <2>5. pub'[p] = q /\ \A r \in Publishers : r # p => pub'[r] = pub[r]
    BY <2>3 DEF SendInv, Types
  <2>6. \A r \in Publishers : Fresh(r, pub[r])'
    <3>1. ASSUME NEW r \in Publishers, r # p PROVE Fresh(r, pub[r])'
      BY <2>2, <2>3, <2>5, <3>1 DEF CountInv, Fresh
    <3>2. Fresh(p, pub[p])'
      BY <1>1, <2>1, <2>2, <2>3, <2>5 DEF Fresh
    <3> QED
      BY <3>1, <3>2
  <2>7. IsFiniteSet(log') /\ Cardinality(log') = Cardinality(log) + 1
    BY <1>1, <2>3, <2>4, FS_AddElement DEF Counters
  <2>8. Counters'
    BY <1>1, <2>2, <2>3, <2>7 DEF Counters, closeVars, flushVars
  <2>9. NothingLostSilently'
    <3>1. Cardinality(Busy') = Cardinality(Busy) - 1
      BY <1>1, <2>1, <2>3, BusyChange
    <3>2. /\ attempts = Cardinality(log) + dropCount + reported + unlogged + Cardinality(Busy)
          /\ UNCHANGED <<attempts, dropCount, reported, unlogged>>
      BY <2>3, Accounts DEF CountInv, flushVars
    <3>3. attempts' = Cardinality(log') + dropCount' + reported' + unlogged' + Cardinality(Busy')
      BY <1>1, <2>7, <3>1, <3>2, Finite DEF Counters
    <3> QED
      BY <3>3, AccountsNext
  <2>10. FlushInv'
    BY <2>3 DEF FlushInv, closeVars, flushVars
  <2> QED
    BY <2>6, <2>8, <2>9, <2>10 DEF CountInv
<1>9. CASE CountDrop(p)
  <2> DEFINE q == [pub[p] EXCEPT !.pc = "loop"]
  <2>1. /\ q \in PubState /\ q.n = pub[p].n /\ q.pc = "loop" /\ pub[p].pc = "drop"
        /\ q.todo = pub[p].todo
    BY <1>1, <1>9 DEF PubState, CountDrop
  <2>2. /\ pub' = [pub EXCEPT ![p] = q] /\ dropCount' = dropCount + 1
        /\ UNCHANGED <<log, attempts, closeVars, flushVars>>
    BY <1>9 DEF CountDrop, PubGoto
  <2> HIDE DEF q
  <2>3. Fresh(p, q)
    BY <1>1, <2>1 DEF Fresh
  <2>4. pub'[p] = q /\ \A r \in Publishers : r # p => pub'[r] = pub[r]
    BY <2>2 DEF SendInv, Types
  <2>5. \A r \in Publishers : Fresh(r, pub[r])'
    <3> SUFFICES ASSUME NEW r \in Publishers PROVE Fresh(r, pub'[r])
      BY <2>2 DEF Fresh
    <3> QED
      BY <2>3, <2>4 DEF CountInv
  <2>6. Counters'
    BY <1>1, <2>2 DEF Counters, closeVars, flushVars
  <2>7. NothingLostSilently'
    <3>1. Cardinality(Busy') = Cardinality(Busy) - 1
      BY <1>1, <2>1, <2>2, BusyChange
    <3>2. /\ attempts = Cardinality(log) + dropCount + reported + unlogged + Cardinality(Busy)
          /\ UNCHANGED <<log, attempts, reported, unlogged>> /\ dropCount' = dropCount + 1
      BY <2>2, Accounts DEF CountInv, flushVars
    <3>3. attempts' = Cardinality(log') + dropCount' + reported' + unlogged' + Cardinality(Busy')
      BY <1>1, <3>1, <3>2, Finite DEF Counters
    <3> QED
      BY <3>3, AccountsNext
  <2>8. FlushInv'
    BY <1>1, <2>2 DEF FlushInv, closeVars, flushVars, Counters
  <2> QED
    BY <2>5, <2>6, <2>7, <2>8 DEF CountInv
<1> QED
  BY <1>2, <1>3, <1>4, <1>5, <1>6, <1>7, <1>8, <1>9 DEF PublishStep

LEMMA FlushCount ==
    ASSUME Inv, Reporting \/ ReporterPanics
    PROVE  CountInv' /\ FlushInv'
<1> USE DEF Inv
<1>1. Counters /\ FlushInv
  BY DEF CountInv
<1>2. UNCHANGED <<pub, log, attempts, closed, closer, due>>
  BY DEF Reporting, Tick, ReporterStops, Respawn, ReporterPanics, ReporterUnchanged, closeVars
<1>3. \A r \in Publishers : Fresh(r, pub[r])'
  BY <1>2 DEF CountInv, Fresh
<1>4. Busy' = Busy
  BY <1>2 DEF Busy
<1>5. /\ dropCount' \in Nat /\ reported' \in Nat /\ unlogged' \in Nat /\ panics' \in Nat
      /\ dropCount' + reported' + unlogged' = dropCount + reported + unlogged
  BY <1>1 DEF Reporting, Tick, ReporterStops, Respawn, ReporterPanics, FlushDrops, Counters
<1>6. Counters'
  BY <1>1, <1>2, <1>5 DEF Counters
<1>7. NothingLostSilently'
  <2>1. attempts = Cardinality(log) + dropCount + reported + unlogged + Cardinality(Busy)
    BY Accounts DEF CountInv
  <2>2. attempts' = Cardinality(log') + dropCount' + reported' + unlogged' + Cardinality(Busy')
    <3>1. /\ Cardinality(log') = Cardinality(log) /\ Cardinality(Busy') = Cardinality(Busy)
          /\ attempts' = attempts
      BY <1>2, <1>4
    <3>2. /\ Cardinality(log) \in Nat /\ Cardinality(Busy) \in Nat
          /\ dropCount \in Nat /\ reported \in Nat /\ unlogged \in Nat
      BY <1>1, Finite DEF Counters
    <3> DEFINE c == Cardinality(log)
               b == Cardinality(Busy)
               d == dropCount'
               e == reported'
               f == unlogged'
    <3>3. c \in Nat /\ b \in Nat /\ d \in Nat /\ e \in Nat /\ f \in Nat
      BY <1>5, <3>2
    <3>4. attempts = c + dropCount + reported + unlogged + b /\ d + e + f = dropCount + reported + unlogged
      BY <1>5, <2>1
    <3> HIDE DEF c, b, d, e, f
    <3>5. attempts = c + d + e + f + b
      BY <3>2, <3>3, <3>4
    <3> QED
      BY <3>1, <3>5 DEF c, b, d, e, f
  <2> QED
    BY <2>2, AccountsNext
<1>8. FlushInv'
  <2>1. CASE Tick
    BY <1>1, <1>2, <2>1 DEF Tick, FlushDrops, FlushInv, Counters
  <2>2. CASE ReporterStops
    BY <1>1, <1>2, <2>2 DEF ReporterStops, FlushDrops, FlushInv, Counters
  <2>3. CASE Respawn
    BY <1>1, <1>2, <2>3 DEF Respawn, FlushInv, Counters
  <2>4. CASE ReporterPanics
    BY <1>1, <1>2, <2>4 DEF ReporterPanics, FlushInv, Counters
  <2> QED
    BY <2>1, <2>2, <2>3, <2>4 DEF Reporting
<1> QED
  BY <1>2, <1>3, <1>6, <1>7, <1>8 DEF CountInv

LEMMA OtherCount ==
    ASSUME Inv,
           \/ \E s \in Subs : \/ \E f \in Publishers \cup {All} : Subscribe(s, f)
                              \/ Receive(s) \/ Unsubscribe(s) \/ CloseChannel(s)
           \/ Close \/ CloseReturns \/ CloseTimeout \/ UNCHANGED vars
    PROVE  CountInv' /\ FlushInv'
<1> USE DEF Inv
<1>1. Counters /\ FlushInv
  BY DEF CountInv
<1>2. UNCHANGED <<pub, log, attempts, dropCount, reporter, reported, unlogged, panics>>
  BY DEF Subscribe, Receive, Unsubscribe, CloseChannel, Close, CloseReturns, CloseTimeout,
         flushVars, vars
<1>3. \A r \in Publishers : Fresh(r, pub[r])'
  BY <1>2 DEF CountInv, Fresh
<1>4. Busy' = Busy
  BY <1>2 DEF Busy
<1>5. NothingLostSilently'
  BY <1>2, <1>4, Accounts, AccountsNext DEF CountInv
<1>6. CASE UNCHANGED closeVars
  BY <1>1, <1>2, <1>3, <1>5, <1>6 DEF CountInv, Counters, FlushInv, closeVars
<1>7. CASE Close
  <2>1. due' = reported + dropCount /\ closer' = "wait" /\ closer = "idle"
    BY <1>7 DEF Close
  <2>2. reporter # "done"
    BY <1>1, <2>1 DEF FlushInv
  <2> QED
    BY <1>1, <1>2, <1>3, <1>5, <2>1, <2>2 DEF CountInv, Counters, FlushInv
<1>8. CASE CloseReturns \/ CloseTimeout
  <2>1. UNCHANGED <<closed, due>> /\ closer' # "idle" /\ (closer' = "flushed" => reporter = "done")
    BY <1>8 DEF CloseReturns, CloseTimeout
  <2> QED
    BY <1>1, <1>2, <1>3, <1>5, <2>1 DEF CountInv, Counters, FlushInv
<1> QED
  BY <1>6, <1>7, <1>8 DEF Subscribe, Receive, Unsubscribe, CloseChannel, vars

LEMMA InitInv == Init => Inv
<1> SUFFICES ASSUME Init PROVE Inv
  OBVIOUS
<1>1. Counters
  BY FS_EmptySet DEF Init, Counters
<1>2. Busy = {} /\ Cardinality({}) = 0
  BY FS_EmptySet DEF Init, Busy, PubIdle
<1>3. NothingLostSilently
  BY <1>2, Accounts DEF Init
<1>4. \A p \in Publishers : Fresh(p, pub[p])
  BY DEF Init, Fresh, PubIdle
<1>5. FlushInv
  BY DEF Init, FlushInv
<1> QED
  BY <1>1, <1>3, <1>4, <1>5, InitSend DEF Inv, CountInv

LEMMA StepInv == Inv /\ [Next]_vars => Inv'
<1> SUFFICES ASSUME Inv, [Next]_vars PROVE Inv'
  OBVIOUS
<1>1. SendInv'
  BY StepSend DEF Inv
<1>2. CountInv' /\ FlushInv'
  BY PublishCount, FlushCount, OtherCount DEF Next
<1> QED
  BY <1>1, <1>2 DEF Inv

\* Publishers, subscribers and reporter keep the accounts.
THEOREM Invariance == Spec => []Inv
BY InitInv, StepInv, PTL DEF Spec

\* Every entry offered to a subscriber is delivered, counted or in flight, and
\* only one of them.
THEOREM AccountsBalance == Spec => []NothingLostSilently
<1>1. Inv => NothingLostSilently
  BY DEF Inv, CountInv
<1> QED
  BY <1>1, Invariance, PTL

\* A Close that returns without an error has logged what was dropped before it.
THEOREM CloseFlushes == Spec => []FlushedAtClose
<1>1. Inv => FlushedAtClose
  BY DEF Inv, CountInv, Counters, FlushInv, FlushedAtClose
<1> QED
  BY <1>1, Invariance, PTL
==============================================================================

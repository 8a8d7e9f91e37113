---------------------------- MODULE LogBroadcast -----------------------------
(***************************************************************************)
(* internal/logbroadcast: log entries fanned out to /logs subscribers, and *)
(* the goroutine that reports how many were dropped.                       *)
(*                                                                         *)
(* Publish takes a snapshot of the subscribers under the broadcaster's     *)
(* lock and sends without it; only closeMu of each subscriber, read-locked *)
(* from the check of `closed` to the send, keeps unsubscribe from closing  *)
(* the channel in between.  What an entry says is left out: an entry is    *)
(* its publisher and its number there.  A publisher stands for the project *)
(* or the chat session its entries carry, so a filter names a publisher.   *)
(***************************************************************************)
EXTENDS Naturals, Sequences, FiniteSets

CONSTANTS
    Publishers,  \* goroutines that publish: log streams, handlers
    Subs,        \* /logs requests
    All, None,   \* no filter, no subscriber
    Buffer,      \* subscriberBufferSize
    MaxEntries,  \* bound: entries of one publisher
    MaxPanics    \* bound: panics of the logger under flushDrops

ASSUME BroadcastAssumption ==
    /\ All \notin Publishers /\ None \notin Subs
    /\ IsFiniteSet(Publishers)
    /\ Buffer \in Nat \ {0} /\ MaxEntries \in Nat /\ MaxPanics \in Nat

VARIABLES
    members,   \* b.subscribers
    sub,       \* where a /logs request is
    filter,    \* what it asked for
    chan,      \* its channel
    chClosed,  \* the subscribers whose channel is closed
    pub,       \* Publish, one call at a time per publisher
    closed,    \* b.closed
    closer,    \* the caller of Close
    reporter,  \* the drop reporter
    dropCount,
    panics,
    log,       \* what a channel holds or has handed to its reader
    attempts,  \* sends begun
    reported,  \* drops logged
    unlogged,  \* drops taken by a flush that panicked
    due        \* drops counted when Close was called

subVars   == <<members, sub, filter, chClosed>>
closeVars == <<closed, closer, due>>
flushVars == <<reporter, reported, unlogged, panics>>
vars == <<subVars, chan, log, pub, attempts, dropCount, closeVars, flushVars>>

EntryOf == [from : Publishers, n : 1..MaxEntries]
Delivery == [to : Subs, from : Publishers, n : 1..MaxEntries]
PubIdle == [pc |-> "idle", n |-> 0, todo |-> {}, cur |-> None]

TypeOK ==
    /\ members \in SUBSET Subs /\ chClosed \in SUBSET Subs
    /\ sub \in [Subs -> {"off", "live", "closing", "ended"}]
    /\ filter \in [Subs -> Publishers \cup {All}]
    /\ chan \in [Subs -> Seq(EntryOf)] /\ log \in SUBSET Delivery
    /\ pub \in [Publishers -> [pc : {"idle", "snap", "loop", "send", "drop"}, n : Nat,
                               todo : SUBSET Subs, cur : Subs \cup {None}]]
    /\ closed \in BOOLEAN
    /\ closer \in {"idle", "wait", "flushed", "timeout"}
    /\ reporter \in {"run", "backoff", "done"}
    /\ dropCount \in Nat /\ panics \in Nat /\ attempts \in Nat
    /\ reported \in Nat /\ unlogged \in Nat /\ due \in Nat

Init ==
    /\ members = {} /\ chClosed = {}
    /\ sub = [s \in Subs |-> "off"]
    /\ filter = [s \in Subs |-> All]
    /\ chan = [s \in Subs |-> <<>>] /\ log = {}
    /\ pub = [p \in Publishers |-> PubIdle]
    /\ closed = FALSE
    /\ closer = "idle"
    /\ reporter = "run"
    /\ dropCount = 0 /\ panics = 0 /\ attempts = 0
    /\ reported = 0 /\ unlogged = 0 /\ due = 0
------------------------------------------------------------------------------
(* Publish.                                                                *)

EntryNow(p) == [from |-> p, n |-> pub[p].n]
DeliveryOf(s, e) == [to |-> s, from |-> e.from, n |-> e.n]
Matches(s, p) == filter[s] \in {All, p}
HoldsRLock(p, s) == pub[p].pc = "send" /\ pub[p].cur = s

PubGoto(p, l) == pub' = [pub EXCEPT ![p].pc = l]

\* After Close an entry is discarded at once.
Publish(p) ==
    /\ pub[p].pc = "idle" /\ pub[p].n < MaxEntries
    /\ pub' = [pub EXCEPT ![p].pc = IF closed THEN "idle" ELSE "snap",
                          ![p].n = @ + 1]
    /\ UNCHANGED <<subVars, chan, log, attempts, dropCount, closeVars, flushVars>>

Snapshot(p) ==
    /\ pub[p].pc = "snap"
    /\ pub' = [pub EXCEPT ![p].pc = "loop", ![p].todo = members]
    /\ UNCHANGED <<subVars, chan, log, attempts, dropCount, closeVars, flushVars>>

Skip(p, s) ==
    /\ pub[p].pc = "loop" /\ s \in pub[p].todo
    /\ ~Matches(s, p)
    /\ pub' = [pub EXCEPT ![p].todo = @ \ {s}]
    /\ UNCHANGED <<subVars, chan, log, attempts, dropCount, closeVars, flushVars>>

\* trySend: closeMu.RLock, and the check of sub.closed.
TrySend(p, s) ==
    /\ pub[p].pc = "loop" /\ s \in pub[p].todo
    /\ Matches(s, p)
    /\ pub' = [pub EXCEPT ![p].pc = IF s \in chClosed THEN "drop" ELSE "send",
                          ![p].todo = @ \ {s}, ![p].cur = s]
    /\ attempts' = attempts + 1
    /\ UNCHANGED <<subVars, chan, log, dropCount, closeVars, flushVars>>

\* Mutant: a full buffer pushes its oldest entry out, uncounted.
SendEvicts(p) ==
    /\ pub[p].pc = "send"
    /\ LET s == pub[p].cur
       IN  /\ chan' = [chan EXCEPT ![s] = Append(IF Len(@) < Buffer THEN @ ELSE Tail(@), EntryNow(p))]
           /\ log' = (IF Len(chan[s]) < Buffer THEN log ELSE log \ {DeliveryOf(s, Head(chan[s]))})
                        \cup {DeliveryOf(s, EntryNow(p))}
    /\ PubGoto(p, "loop")
    /\ UNCHANGED <<subVars, attempts, dropCount, closeVars, flushVars>>

\* Mutant: the send waits for room, closeMu held.
SendBlocks(p) ==
    /\ pub[p].pc = "send"
    /\ LET s == pub[p].cur
       IN  /\ Len(chan[s]) < Buffer
           /\ chan' = [chan EXCEPT ![s] = Append(@, EntryNow(p))]
           /\ log' = log \cup {DeliveryOf(s, EntryNow(p))}
    /\ PubGoto(p, "loop")
    /\ UNCHANGED <<subVars, attempts, dropCount, closeVars, flushVars>>

\* The non-blocking send; RUnlock.
Send(p) ==
    /\ pub[p].pc = "send"
    /\ LET s == pub[p].cur
       IN  IF Len(chan[s]) < Buffer
           THEN /\ chan' = [chan EXCEPT ![s] = Append(@, EntryNow(p))]
                /\ log' = log \cup {DeliveryOf(s, EntryNow(p))}
                /\ PubGoto(p, "loop")
           ELSE PubGoto(p, "drop") /\ UNCHANGED <<chan, log>>
    /\ UNCHANGED <<subVars, attempts, dropCount, closeVars, flushVars>>

CountDrop(p) ==
    /\ pub[p].pc = "drop"
    /\ dropCount' = dropCount + 1
    /\ PubGoto(p, "loop")
    /\ UNCHANGED <<subVars, chan, log, attempts, closeVars, flushVars>>

PublishEnd(p) ==
    /\ pub[p].pc = "loop" /\ pub[p].todo = {}
    /\ pub' = [pub EXCEPT ![p].pc = "idle", ![p].cur = None]
    /\ UNCHANGED <<subVars, chan, log, attempts, dropCount, closeVars, flushVars>>
------------------------------------------------------------------------------
(* A /logs request: subscribe, stream, unsubscribe.                        *)

\* After Close the channel comes back closed.
Subscribe(s, f) ==
    /\ sub[s] = "off"
    /\ filter' = [filter EXCEPT ![s] = f]
    /\ IF closed
       THEN /\ chClosed' = chClosed \cup {s}
            /\ sub' = [sub EXCEPT ![s] = "ended"]
            /\ UNCHANGED members
       ELSE /\ members' = members \cup {s}
            /\ sub' = [sub EXCEPT ![s] = "live"]
            /\ UNCHANGED chClosed
    /\ UNCHANGED <<chan, log, pub, attempts, dropCount, closeVars, flushVars>>

Receive(s) ==
    /\ sub[s] = "live" /\ chan[s] # <<>>
    /\ chan' = [chan EXCEPT ![s] = Tail(@)]
    /\ UNCHANGED <<subVars, log, pub, attempts, dropCount, closeVars, flushVars>>

\* The client disconnects, a write fails or the runner drains.
Unsubscribe(s) ==
    /\ sub[s] = "live"
    /\ members' = members \ {s}
    /\ sub' = [sub EXCEPT ![s] = "closing"]
    /\ UNCHANGED <<filter, chClosed, chan, log, pub, attempts, dropCount, closeVars, flushVars>>

\* Mutant: the channel is closed without closeMu.
CloseChannelUnlocked(s) ==
    /\ sub[s] = "closing"
    /\ chClosed' = chClosed \cup {s}
    /\ sub' = [sub EXCEPT ![s] = "ended"]
    /\ UNCHANGED <<members, filter, chan, log, pub, attempts, dropCount, closeVars, flushVars>>

\* closeMu.Lock waits for the readers.
CloseChannel(s) ==
    /\ sub[s] = "closing"
    /\ \A p \in Publishers : ~HoldsRLock(p, s)
    /\ chClosed' = chClosed \cup {s}
    /\ sub' = [sub EXCEPT ![s] = "ended"]
    /\ UNCHANGED <<members, filter, chan, log, pub, attempts, dropCount, closeVars, flushVars>>
------------------------------------------------------------------------------
(* Close and the drop reporter.                                            *)

Close ==
    /\ closer = "idle"
    /\ closed' = TRUE
    /\ closer' = "wait"
    /\ due' = reported + dropCount
    /\ UNCHANGED <<subVars, chan, log, pub, attempts, dropCount, flushVars>>

CloseReturns ==
    /\ closer = "wait"
    /\ reporter = "done"
    /\ closer' = "flushed"
    /\ UNCHANGED <<subVars, chan, log, pub, attempts, dropCount, closed, due, flushVars>>

\* Its ctx expires first.
CloseTimeout ==
    /\ closer = "wait"
    /\ reporter # "done"
    /\ closer' = "timeout"
    /\ UNCHANGED <<subVars, chan, log, pub, attempts, dropCount, closed, due, flushVars>>

ReporterUnchanged == UNCHANGED <<subVars, chan, log, pub, attempts, closeVars>>

\* flushDrops: the counter is swapped for 0, then logged.
FlushDrops ==
    /\ dropCount' = 0
    /\ reported' = reported + dropCount
    /\ UNCHANGED <<unlogged, panics>>

Tick ==
    /\ reporter = "run"
    /\ FlushDrops
    /\ UNCHANGED reporter /\ ReporterUnchanged

\* Mutant: the last flush is forgotten.
ReporterStopsUnflushed ==
    /\ reporter = "run" /\ closed
    /\ reporter' = "done"
    /\ UNCHANGED <<dropCount, reported, unlogged, panics>> /\ ReporterUnchanged

ReporterStops ==
    /\ reporter = "run" /\ closed
    /\ FlushDrops
    /\ reporter' = "done"
    /\ ReporterUnchanged

\* The logger panics under a flush that has something to say; the count is lost.
ReporterPanics ==
    /\ reporter = "run" /\ dropCount > 0 /\ panics < MaxPanics
    /\ panics' = panics + 1
    /\ dropCount' = 0
    /\ unlogged' = unlogged + dropCount
    /\ reporter' = "backoff"
    /\ UNCHANGED reported /\ ReporterUnchanged

\* Mutant: the reporter is not started again.
RespawnNever ==
    /\ reporter = "backoff" /\ ~closed
    /\ UNCHANGED <<reporter, dropCount, reported, unlogged, panics>> /\ ReporterUnchanged

\* After a panic: wait, then start again, or end without a flush when closed.
Respawn ==
    /\ reporter = "backoff"
    /\ \/ reporter' = "run"
       \/ closed /\ reporter' = "done"
    /\ UNCHANGED <<dropCount, reported, unlogged, panics>> /\ ReporterUnchanged
------------------------------------------------------------------------------
PublishStep(p) ==
    \/ Snapshot(p) \/ Send(p) \/ CountDrop(p) \/ PublishEnd(p)
    \/ \E s \in Subs : Skip(p, s) \/ TrySend(p, s)

Reporting == Tick \/ ReporterStops \/ Respawn

Next ==
    \/ \E p \in Publishers : Publish(p) \/ PublishStep(p)
    \/ \E s \in Subs : \/ \E f \in Publishers \cup {All} : Subscribe(s, f)
                       \/ Receive(s) \/ Unsubscribe(s) \/ CloseChannel(s)
    \/ Close \/ CloseReturns \/ CloseTimeout
    \/ Reporting \/ ReporterPanics

Spec == Init /\ [][Next]_vars

\* Goroutines that can move do.  The reporter's select picks any ready case, so
\* a closed channel is picked eventually (strong fairness).  Clients need not
\* read, nor publishers publish.
Fairness ==
    /\ \A p \in Publishers : WF_vars(PublishStep(p))
    /\ \A s \in Subs : WF_vars(CloseChannel(s))
    /\ WF_vars(Reporting) /\ SF_vars(ReporterStops)

FairSpec == Spec /\ Fairness
------------------------------------------------------------------------------
\* No publisher is past its check of a channel that has been closed: sending
\* would panic the goroutine that publishes (trySend, unsubscribe).
NoSendOnClosed ==
    \A p \in Publishers : pub[p].pc = "send" => pub[p].cur \notin chClosed

\* Every entry offered to a subscriber is in its channel or has been read from
\* it, is counted as a drop (pending, logged, or lost with a panicking logger),
\* or is in flight; none is counted twice.
NothingLostSilently ==
    attempts = Cardinality(log) + dropCount + reported + unlogged
                 + Cardinality({p \in Publishers : pub[p].pc \in {"send", "drop"}})

\* "Close ... flushes any pending counts": when it returns without an error,
\* everything dropped before the call has been logged.
FlushedAtClose ==
    (closer = "flushed" /\ panics = 0) => reported >= due

\* An unsubscribed channel is closed in the end: publishers hold closeMu for a
\* send that never blocks.
ChannelCloses == \A s \in Subs : sub[s] = "closing" ~> sub[s] = "ended"

\* A drop is reported, or lost with a panicking logger, as long as the
\* broadcaster is open: the reporter survives its panics.
DropsAreReported == (dropCount > 0) ~> (dropCount = 0 \/ closed)
==============================================================================

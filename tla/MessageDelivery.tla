--------------------------- MODULE MessageDelivery ---------------------------
(***************************************************************************)
(* How a /message request that arrives more than once is handled: the      *)
(* signature cache of hmacAuth (replay_cache.go), the acknowledgement      *)
(* cache of handleMessage (message_dedup_cache.go), and the write to stdin *)
(* between the two, which no lock joins to them.                           *)
(*                                                                         *)
(* A signature is its message and the time it was signed: a client that    *)
(* retries signs again, a network that duplicates does not.  A message     *)
(* stands for its card or chat session and its message_id; one without an  *)
(* id is in Anonymous.  Module Stdin looks inside the write.               *)
(***************************************************************************)
EXTENDS Integers, Sequences, FiniteSetsExt

CONSTANTS
    Requests,     \* handler goroutines
    Msgs,
    Anonymous,    \* the messages without a message_id
    Skew,         \* webhook_replay_skew_seconds: oldest timestamp and replay TTL
    Ahead,        \* how far in the future the protocol library takes a timestamp
    DedupTTL,     \* message_dedup_ttl_seconds
    ReplayCap, DedupCap,
    MaxTime,      \* bound: the clock
    MaxRequests   \* bound: requests delivered

ASSUME DeliveryAssumption ==
    /\ Anonymous \subseteq Msgs /\ Msgs # {}
    /\ Skew \in Nat \ {0} /\ Ahead \in Nat /\ DedupTTL \in Nat \ {0}
    /\ ReplayCap \in Nat \ {0} /\ DedupCap \in Nat \ {0}
    /\ MaxTime \in Nat /\ MaxRequests \in Nat

VARIABLES
    now,
    replay, dedup,  \* the caches, oldest first
    req,            \* where a handler is, and the signature it serves
    draining,
    delivered,      \* requests delivered so far
    written,        \* the messages stdin has taken
    acked,          \* the messages answered with 202
    ackedAt,        \* when the answer was last stored
    honouredAt,     \* when a signature was last let through
    sigsOut,        \* signatures a full cache has pushed out since they were stored
    msgsOut         \* and messages

ghostVars == <<written, acked, ackedAt, honouredAt, sigsOut, msgsOut>>
vars == <<now, replay, dedup, req, draining, delivered, ghostVars>>

Never == -1
Time == 0..MaxTime
Sigs == [msg : Msgs, ts : 0..(MaxTime + Ahead)]

\* Any message will do for a handler that serves none; an anonymous one keeps
\* the others interchangeable.
NoMsg == CHOOSE m \in Msgs : Anonymous = {} \/ m \in Anonymous
Idle  == [pc |-> "idle", sig |-> [msg |-> NoMsg, ts |-> 0]]

TypeOK ==
    /\ now \in Time
    /\ replay \in Seq([key : Sigs, at : Time])
    /\ dedup \in Seq([key : Msgs, at : Time])
    /\ req \in [Requests -> [pc : {"idle", "seen", "get", "write", "put"}, sig : Sigs]]
    /\ draining \in BOOLEAN
    /\ delivered \in 0..MaxRequests
    /\ written \in SUBSET Msgs /\ acked \in SUBSET Msgs
    /\ ackedAt \in [Msgs -> Time \cup {Never}]
    /\ honouredAt \in [Sigs -> Time \cup {Never}]
    /\ sigsOut \in SUBSET Sigs /\ msgsOut \in SUBSET Msgs

Init ==
    /\ now = 0
    /\ replay = <<>> /\ dedup = <<>>
    /\ req = [r \in Requests |-> Idle]
    /\ draining = FALSE
    /\ delivered = 0
    /\ written = {} /\ acked = {}
    /\ ackedAt = [m \in Msgs |-> Never]
    /\ honouredAt = [s \in Sigs |-> Never]
    /\ sigsOut = {} /\ msgsOut = {}
------------------------------------------------------------------------------
(* The caches: a list, oldest first, with an index by key.                 *)

Keys(c) == {c[i].key : i \in DOMAIN c}
Holds(c, k, ttl) == \E i \in DOMAIN c : c[i].key = k /\ now - c[i].at <= ttl
Without(c, k) ==
    IF k \notin Keys(c) THEN c
    ELSE LET el == CHOOSE i \in DOMAIN c : c[i].key = k
         IN  [i \in 1..(Len(c) - 1) |-> IF i < el THEN c[i] ELSE c[i + 1]]
PushBack(c, k) == Append(c, [key |-> k, at |-> now])
Bounded(c, cap) == IF Len(c) > cap THEN Tail(c) ELSE c

\* sweep stops at the first entry that is younger than the TTL.
Swept(c, ttl) ==
    SubSeq(c, Min({i \in DOMAIN c : c[i].at > now - ttl} \cup {Len(c) + 1}), Len(c))

Goto(r, l) == req' = [req EXCEPT ![r].pc = l]
Answered(r) == req' = [req EXCEPT ![r] = Idle]
------------------------------------------------------------------------------
(* hmacAuth.                                                               *)

\* VerifySignatureWithTimestamp: the window of timestamps it takes.
InWindow(s) == s.ts - now <= Ahead /\ now - s.ts <= Skew

\* A request signed at ts, by the client's clock, arrives.  One with a timestamp
\* outside the window is a 401 and changes nothing.
Deliver(r, s) ==
    /\ req[r].pc = "idle" /\ delivered < MaxRequests
    /\ InWindow(s)
    /\ delivered' = delivered + 1
    /\ req' = [req EXCEPT ![r] = [pc |-> "seen", sig |-> s]]
    /\ UNCHANGED <<now, replay, dedup, draining, ghostVars>>

\* Mutant: the entry carries the time of signing, not of first sight.
SeenAtSigning(r) ==
    LET s == req[r].sig
        c == Append(Without(replay, s), [key |-> s, at |-> s.ts])
    IN  /\ req[r].pc = "seen"
        /\ IF Holds(replay, s, Skew)
           THEN Answered(r) /\ UNCHANGED <<replay, honouredAt, sigsOut>>
           ELSE /\ replay' = Bounded(c, ReplayCap)
                /\ sigsOut' = (sigsOut \ {s}) \cup (Keys(c) \ Keys(replay'))
                /\ honouredAt' = [honouredAt EXCEPT ![s] = now]
                /\ Goto(r, "get")
        /\ UNCHANGED <<now, dedup, draining, delivered, written, acked, ackedAt, msgsOut>>

\* ReplayCache.Seen: a hit is a 409, a new or an expired signature is recorded.
Seen(r) ==
    LET s == req[r].sig
        c == PushBack(Without(replay, s), s)
    IN  /\ req[r].pc = "seen"
        /\ IF Holds(replay, s, Skew)
           THEN Answered(r) /\ UNCHANGED <<replay, honouredAt, sigsOut>>
           ELSE /\ replay' = Bounded(c, ReplayCap)
                /\ sigsOut' = (sigsOut \ {s}) \cup (Keys(c) \ Keys(replay'))
                /\ honouredAt' = [honouredAt EXCEPT ![s] = now]
                /\ Goto(r, "get")
        /\ UNCHANGED <<now, dedup, draining, delivered, written, acked, ackedAt, msgsOut>>
------------------------------------------------------------------------------
(* handleMessage.                                                          *)

\* 503 while draining; a stored answer is given again; an expired one goes.
Get(r) ==
    LET m == req[r].sig.msg
    IN  /\ req[r].pc = "get"
        /\ IF draining
           THEN Answered(r) /\ UNCHANGED <<dedup, acked>>
           ELSE IF Holds(dedup, m, DedupTTL)
           THEN Answered(r) /\ acked' = acked \cup {m} /\ UNCHANGED dedup
           ELSE Goto(r, "write") /\ dedup' = Without(dedup, m) /\ UNCHANGED acked
        /\ UNCHANGED <<now, replay, draining, delivered, written, ackedAt, honouredAt, sigsOut, msgsOut>>

WriteUnchanged == UNCHANGED <<now, replay, dedup, draining, delivered, acked, ackedAt, honouredAt, sigsOut, msgsOut>>

\* Mutant: an error of the write falls through to the acknowledgement.
WriteFailsAcked(r) ==
    /\ req[r].pc = "write"
    /\ Goto(r, "put")
    /\ UNCHANGED written /\ WriteUnchanged

\* 404 (Has, or ErrNotTracked), 409 without stdin, 410 when it is closed, 500
\* when the write fails.  Which of them, and when, is for module Stdin.
WriteFails(r) ==
    /\ req[r].pc = "write"
    /\ Answered(r)
    /\ UNCHANGED written /\ WriteUnchanged

Write(r) ==
    /\ req[r].pc = "write"
    /\ written' = written \cup {req[r].sig.msg}
    /\ Goto(r, "put")
    /\ WriteUnchanged

\* Mutants of putByKey: an overwritten entry keeps its old time, or its place.
PutByKeyKeepsTime(c, k) ==
    IF k \in Keys(c) THEN c ELSE PushBack(c, k)

PutByKeyInPlace(c, k) ==
    IF k \in Keys(c)
    THEN [i \in DOMAIN c |-> IF c[i].key = k THEN [key |-> k, at |-> now] ELSE c[i]]
    ELSE PushBack(c, k)

\* An existing entry is overwritten and moved to the back.
PutByKey(c, k) == PushBack(Without(c, k), k)

\* The acknowledgement is stored and given.
Put(r) ==
    LET m == req[r].sig.msg
        c == IF m \in Anonymous THEN dedup ELSE PutByKey(dedup, m)
    IN  /\ req[r].pc = "put"
        /\ dedup' = Bounded(c, DedupCap)
        /\ msgsOut' = (msgsOut \ {m}) \cup (Keys(c) \ Keys(dedup'))
        /\ ackedAt' = [ackedAt EXCEPT ![m] = now]
        /\ acked' = acked \cup {m}
        /\ Answered(r)
        /\ UNCHANGED <<now, replay, draining, delivered, written, honouredAt, sigsOut>>
------------------------------------------------------------------------------
(* The sweepers main starts, the clock, and shutdown.                      *)

SweepReplay ==
    /\ replay' = Swept(replay, Skew)
    /\ UNCHANGED <<now, dedup, req, draining, delivered, ghostVars>>

SweepDedup ==
    /\ dedup' = Swept(dedup, DedupTTL)
    /\ UNCHANGED <<now, replay, req, draining, delivered, ghostVars>>

Tick ==
    /\ now < MaxTime
    /\ now' = now + 1
    /\ UNCHANGED <<replay, dedup, req, draining, delivered, ghostVars>>

Drain ==
    /\ ~draining
    /\ draining' = TRUE
    /\ UNCHANGED <<now, replay, dedup, req, delivered, ghostVars>>

Next ==
    \/ \E r \in Requests : \/ \E s \in Sigs : Deliver(r, s)
                           \/ Seen(r) \/ Get(r) \/ WriteFails(r) \/ Write(r) \/ Put(r)
    \/ SweepReplay \/ SweepDedup \/ Tick \/ Drain

Spec == Init /\ [][Next]_vars
------------------------------------------------------------------------------
\* A message with an id whose acknowledgement was stored less than the TTL ago
\* is not written again, unless a full cache pushed the entry out: only
\* overlapping deliveries of one message reach stdin twice (Get, Put, sweep).
RetryIsNotWritten ==
    [][\A r \in Requests :
          LET m == req[r].sig.msg
          IN  (req[r].pc = "get" /\ req'[r].pc = "write") =>
                 \/ m \in Anonymous \cup msgsOut
                 \/ ackedAt[m] = Never
                 \/ now - ackedAt[m] >= DedupTTL]_vars

Honoured(r) == req[r].pc = "seen" /\ req'[r].pc = "get"
Repeated(s) == s \notin sigsOut /\ honouredAt[s] # Never

\* A signature that no full cache pushed out is let through again only when the
\* skew has passed since the first time, and so only in the last Ahead of its
\* window (Seen, sweep).  The window itself may still be open: next property.
HonouredOnce ==
    [][\A r \in Requests :
          LET s == req[r].sig
          IN  (Honoured(r) /\ Repeated(s)) =>
                 now - honouredAt[s] >= Skew /\ now - s.ts >= Skew - Ahead]_vars

\* What config.yaml.example says of webhook_replay_skew_seconds: "a signature
\* never expires while still within the window".  So one that no full cache
\* pushed out is not let through again before its timestamp is Skew old.
NeverExpiresInWindow ==
    [][\A r \in Requests :
          LET s == req[r].sig
          IN  (Honoured(r) /\ Repeated(s)) => now - s.ts >= Skew]_vars

\* A message answered with 202, from the handler or from the cache, is one that
\* stdin has taken: a refusal is never remembered as a success.
AckedWasWritten == acked \subseteq written

\* A sweep leaves nothing expired behind: the lists stay ordered by time, which
\* its early return relies on, whatever is overwritten or looked up in between.
SweepIsComplete ==
    /\ \A i \in DOMAIN Swept(dedup, DedupTTL) : Swept(dedup, DedupTTL)[i].at > now - DedupTTL
    /\ \A i \in DOMAIN Swept(replay, Skew) : Swept(replay, Skew)[i].at > now - Skew
==============================================================================

------------------------------ MODULE Callbacks ------------------------------
(***************************************************************************)
(* internal/callback: the requests the runner makes to ContextMatrix, and  *)
(* /promote, which acts on the answer of one.  Every call goes through     *)
(* retryWithBackoff: one attempt at a time, each with the http.Client's    *)
(* timeout and a fresh timestamp, a doubling backoff in between, a 4xx and *)
(* an expired context final.                                               *)
(*                                                                         *)
(* Time counts seconds, the resolution of the timestamp that is signed.    *)
(* What is due happens before the clock moves on.  The network and         *)
(* ContextMatrix are external: a request is on the wire until it is taken, *)
(* possibly long after its sender gave up, or for ever; ContextMatrix      *)
(* refuses a signature it has seen, as the runner's own hmacAuth does.     *)
(***************************************************************************)
EXTENDS Naturals, FiniteSets

CONSTANTS
    Cleanup,         \* status and skill callbacks under callbackTimeout
    Running,         \* "running" callbacks, detached under their own timeout
    Verify,          \* /promote requests and the VerifyAutonomous of each
    RequestTimeout,  \* the http.Client's
    CallbackTimeout, RunningTimeout,
    MaxCalls,        \* bound: calls made
    MaxStart,        \* bound: calls begin by then
    MaxTime          \* bound: the clock

ASSUME CallbacksAssumption ==
    /\ Cleanup \cap Running = {} /\ (Cleanup \cup Running) \cap Verify = {}
    /\ RequestTimeout \in Nat \ {0}
    /\ CallbackTimeout \in Nat \ {0} /\ RunningTimeout \in Nat \ {0}
    /\ MaxCalls \in Nat /\ MaxStart \in Nat /\ MaxTime \in Nat

VARIABLES
    now,
    call,      \* the goroutine of a call
    wire,      \* requests on their way
    seen,      \* the signatures in ContextMatrix's replay cache
    flag,      \* the card's autonomous flag at ContextMatrix
    canceled,  \* /promote requests whose client has gone
    promoted,  \* /promote requests that wrote to stdin
    shown      \* /promote requests during which the flag was set

cmVars == <<wire, seen, flag>>
promoteVars == <<canceled, promoted, shown>>
vars == <<now, call, cmVars, promoteVars>>

MaxRetries == 3
Posts == Cleanup \cup Running
Calls == Posts \cup Verify

Answers == {"none", "ok", "yes", "no", "clienterror", "servererror"}
NotCalled == [pc |-> "idle", n |-> 0, start |-> 0, timer |-> 0, ans |-> "none", result |-> "none"]

TypeOK ==
    /\ now \in 0..MaxTime
    /\ call \in [Calls -> [pc : {"idle", "send", "wait", "backoff", "returned", "done"},
                           n : 0..(MaxRetries - 1), start : Nat, timer : Nat, ans : Answers,
                           result : {"none", "ok", "yes", "no", "error"}]]
    /\ wire \in SUBSET [call : Calls, n : 0..(MaxRetries - 1), ts : 0..MaxTime]
    /\ seen \in SUBSET (Calls \X (0..MaxTime))
    /\ flag \in BOOLEAN
    /\ canceled \in SUBSET Verify /\ promoted \in SUBSET Verify /\ shown \in SUBSET Verify

Init ==
    /\ now = 0
    /\ call = [c \in Calls |-> NotCalled]
    /\ wire = {} /\ seen = {}
    /\ flag \in BOOLEAN
    /\ canceled = {} /\ promoted = {} /\ shown = {}

Under(c)     == call[c].pc \in {"send", "wait", "backoff"}
Budget(c)    == IF c \in Cleanup THEN CallbackTimeout ELSE RunningTimeout
Backoff(n)   == 2^n
------------------------------------------------------------------------------
(* What the call's select and the transport wait for.                      *)

Expired(c) == IF c \in Verify THEN c \in canceled ELSE now >= call[c].start + Budget(c)

\* Mutant: the backoff does not select on the context.
CtxDoneInFlight(c) == call[c].pc \in {"send", "wait"} /\ Expired(c)

CtxDone(c)  == Under(c) /\ Expired(c)
TimedOut(c) == call[c].pc = "wait" /\ now >= call[c].timer
Rested(c)   == call[c].pc = "backoff" /\ now >= call[c].timer
Due(c)      == call[c].pc \in {"send", "returned"} \/ CtxDone(c) \/ TimedOut(c) \/ Rested(c)

Tick ==
    /\ now < MaxTime
    /\ \A c \in Calls : ~Due(c)
    /\ now' = now + 1
    /\ UNCHANGED <<call, cmVars, promoteVars>>
------------------------------------------------------------------------------
(* A call.                                                                 *)

\* The caller; for /promote, the checks before VerifyAutonomous have passed.
Begin(c) ==
    /\ call[c].pc = "idle" /\ now <= MaxStart
    /\ Cardinality({d \in Calls : call[d].pc # "idle"}) < MaxCalls
    /\ call' = [call EXCEPT ![c] = [NotCalled EXCEPT !.pc = "send", !.start = now]]
    /\ shown' = IF flag /\ c \in Verify THEN shown \cup {c} ELSE shown
    /\ UNCHANGED <<now, cmVars, canceled, promoted>>

Return(c, result) == call' = [call EXCEPT ![c].pc = "returned", ![c].result = result,
                                          ![c].ans = "none"]

\* Mutant: the first backoff is 0 s.
AttemptFailedZero(c) ==
    IF call[c].n = MaxRetries - 1 THEN Return(c, "error")
    ELSE call' = [call EXCEPT ![c].pc = "backoff", ![c].timer = now + call[c].n,
                              ![c].ans = "none"]

\* An error that isClientError does not call final.
AttemptFailed(c) ==
    IF call[c].n = MaxRetries - 1 THEN Return(c, "error")
    ELSE call' = [call EXCEPT ![c].pc = "backoff", ![c].timer = now + Backoff(call[c].n),
                              ![c].ans = "none"]

CallUnchanged == UNCHANGED <<now, seen, flag, promoteVars>>

\* doRequest, doSkillEngaged, doVerifyAutonomous: sign with the current second
\* and send.
Send(c) ==
    /\ call[c].pc = "send" /\ ~CtxDone(c)
    /\ wire' = wire \cup {[call |-> c, n |-> call[c].n, ts |-> now]}
    /\ call' = [call EXCEPT ![c].pc = "wait", ![c].timer = now + RequestTimeout]
    /\ CallUnchanged

\* The answer and its body arrive.
Receive(c) ==
    LET ans == call[c].ans
    IN  /\ call[c].pc = "wait" /\ ans # "none"
        /\ CASE ans \in {"ok", "yes", "no"} -> Return(c, ans)
             [] ans = "clienterror"         -> Return(c, "error")
             [] ans = "servererror"         -> AttemptFailed(c)
        /\ UNCHANGED wire /\ CallUnchanged

\* No connection, a reset, a body that does not parse.
TransportFails(c) ==
    /\ call[c].pc \in {"send", "wait"} /\ ~CtxDone(c)
    /\ AttemptFailed(c)
    /\ UNCHANGED wire /\ CallUnchanged

\* The http.Client's timeout and the context both are deadline errors, which
\* isClientError calls final.
GiveUp(c) ==
    /\ CtxDone(c) \/ TimedOut(c)
    /\ Return(c, "error")
    /\ UNCHANGED wire /\ CallUnchanged

\* The select of the backoff may take the timer although the context is done.
Retry(c) ==
    /\ Rested(c)
    /\ call' = [call EXCEPT ![c].pc = "send", ![c].n = @ + 1]
    /\ UNCHANGED wire /\ CallUnchanged
------------------------------------------------------------------------------
(* The callers.                                                            *)

Finish(c) == call' = [call EXCEPT ![c] = [NotCalled EXCEPT !.pc = "done"]]

\* A status or skill callback that failed is logged and no more.
LogOutcome(c) ==
    /\ c \in Posts /\ call[c].pc = "returned"
    /\ Finish(c)
    /\ UNCHANGED wire /\ CallUnchanged

\* Mutant: an error of the verification lets the promotion pass.
PromoteUnlessDenied(c) ==
    /\ c \in Verify /\ call[c].pc = "returned" /\ call[c].result # "no"
    /\ promoted' = promoted \cup {c}
    /\ Finish(c)
    /\ UNCHANGED <<now, cmVars, canceled, shown>>

\* handlePromote: the canned message is written.
Promote(c) ==
    /\ c \in Verify /\ call[c].pc = "returned" /\ call[c].result = "yes"
    /\ promoted' = promoted \cup {c}
    /\ Finish(c)
    /\ UNCHANGED <<now, cmVars, canceled, shown>>

\* 502, 403, or one of the errors of WriteStdin, which module Stdin tells apart.
PromoteRefused(c) ==
    /\ c \in Verify /\ call[c].pc = "returned"
    /\ Finish(c)
    /\ UNCHANGED <<now, cmVars, promoteVars>>

\* The client of /promote hangs up: r.Context() is cancelled.
HangUp(c) ==
    /\ c \in Verify /\ Under(c)
    /\ canceled' = canceled \cup {c}
    /\ UNCHANGED <<now, call, cmVars, promoted, shown>>
------------------------------------------------------------------------------
(* ContextMatrix and the network.                                          *)

Take(q) ==
    LET c       == q.call
        sig     == <<c, q.ts>>
        waiting == call[c].pc = "wait" /\ call[c].n = q.n
        good    == IF c \in Verify THEN (IF flag THEN "yes" ELSE "no") ELSE "ok"
    IN  /\ q \in wire
        /\ wire' = wire \ {q} /\ seen' = seen \cup {sig}
        /\ \E ans \in IF sig \in seen THEN {"clienterror"}
                      ELSE {good, "clienterror", "servererror"} :
               call' = IF waiting THEN [call EXCEPT ![c].ans = ans] ELSE call
        /\ UNCHANGED <<now, flag, promoteVars>>

SetFlag ==
    /\ flag' = ~flag
    /\ shown' = IF flag' THEN shown \cup {c \in Verify : Under(c)} ELSE shown
    /\ UNCHANGED <<now, call, wire, seen, canceled, promoted>>
------------------------------------------------------------------------------
CallStep(c) ==
    \/ Begin(c) \/ Send(c) \/ Receive(c) \/ TransportFails(c) \/ GiveUp(c) \/ Retry(c)
    \/ LogOutcome(c) \/ Promote(c) \/ PromoteRefused(c)

Next ==
    \/ \E c \in Calls : CallStep(c) \/ HangUp(c)
    \/ \E q \in wire : Take(q)
    \/ SetFlag \/ Tick

Spec == Init /\ [][Next]_vars
------------------------------------------------------------------------------
\* No attempt carries a signature its own call used before, whatever became of
\* the earlier attempt: ContextMatrix's replay cache, which answers 409 and so
\* ends the call, never mistakes a retry for a replay (client.go, "will not
\* self-409 the retry").
FreshSignatures ==
    \A q \in wire :
        /\ <<q.call, q.ts>> \notin seen
        /\ \A p \in wire : (p.call = q.call /\ p.ts = q.ts) => p = q

WorstCase == MaxRetries * RequestTimeout + 2^(MaxRetries - 1) - 1

\* Whatever ContextMatrix does, a status callback holds its goroutine no longer
\* than its context allows, in flight or between attempts, and VerifyAutonomous,
\* whose context has no deadline, no longer than all attempts and backoffs.
ReturnsInTime ==
    \A c \in Calls : Under(c) =>
        now <= call[c].start + IF c \in Verify THEN WorstCase ELSE Budget(c)

\* /promote fails closed: it writes to stdin only when ContextMatrix had the
\* autonomous flag set at some moment of this very request, whatever was lost,
\* retried or answered late.
PromotedWasAutonomous == promoted \subseteq shown
==============================================================================

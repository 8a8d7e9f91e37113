--------------------------- MODULE CallbacksProofs ---------------------------
(***************************************************************************)
(* Proofs about Callbacks: the signatures of a call's attempts are         *)
(* distinct, a call returns within its context or the sum of its attempts, *)
(* and a promotion follows a moment at which the flag was set.             *)
(*                                                                         *)
(* The bound on a call accumulates over its attempts, so the invariant     *)
(* says where each attempt may begin (Lag); and a signature is fresh       *)
(* because every backoff is at least a second, so it says that what a call *)
(* has signed lies before the second at which it will sign next.           *)
(***************************************************************************)
EXTENDS Callbacks, TLAPS

PCs == {"idle", "send", "wait", "backoff", "returned", "done"}
Results == {"none", "ok", "yes", "no", "error"}
CallRec == [pc : PCs, n : 0..(MaxRetries - 1), start : Nat, timer : Nat, ans : Answers,
            result : Results]
Request == [call : Calls, n : 0..(MaxRetries - 1), ts : 0..MaxTime]
Active(r) == r.pc \in {"send", "wait", "backoff"}

\* The latest an attempt begins, in seconds after the call did.
Lag(n) == n * RequestTimeout + 2^n - 1

\* A call in the state r is on schedule at the time t.
Timely(r, t) ==
    /\ r.pc = "send" => t <= r.start + Lag(r.n)
    /\ r.pc = "wait" => t <= r.timer /\ r.timer <= r.start + Lag(r.n) + RequestTimeout
    /\ r.pc = "backoff" => /\ r.n < MaxRetries - 1
                           /\ t <= r.timer /\ r.timer <= r.start + Lag(r.n + 1)

\* The call c has signed at the time ts.
Signed(c, ts) == (\E q \in wire : q.call = c /\ q.ts = ts) \/ <<c, ts>> \in seen

TimeInv ==
    \A c \in Calls : /\ Timely(call[c], now)
                     /\ (c \in Posts /\ Under(c)) => now <= call[c].start + Budget(c)
SigInv ==
    \A c \in Calls, ts \in 0..MaxTime : Signed(c, ts) =>
        /\ call[c].pc # "idle"
        /\ ts <= now
        /\ call[c].pc = "send" => ts < now
        /\ call[c].pc = "backoff" => ts < call[c].timer
FlagInv ==
    /\ \A c \in Verify : (flag /\ Under(c)) => c \in shown
    /\ \A c \in Calls : (call[c].ans = "yes" \/ call[c].result = "yes") => c \in shown
    /\ promoted \subseteq shown

Inv == TypeOK /\ TimeInv /\ SigInv /\ FreshSignatures /\ FlagInv
------------------------------------------------------------------------------
(* The pieces.                                                             *)

LEMMA Lags ==
    /\ \A n \in 0..(MaxRetries - 1) : n \in Nat /\ Lag(n) \in Nat
    /\ Lag(0) = 0
    /\ \A n \in 0..(MaxRetries - 1) : n < MaxRetries - 1 =>
          /\ n + 1 \in 0..(MaxRetries - 1)
          /\ Backoff(n) \in Nat \ {0}
          /\ Lag(n) + RequestTimeout + Backoff(n) = Lag(n + 1)
    /\ \A n \in 0..(MaxRetries - 1) : Lag(n) + RequestTimeout <= WorstCase
<1>1. RequestTimeout \in Nat /\ MaxRetries = 3
  BY CallbacksAssumption DEF MaxRetries
<1>2. Lag(0) = 0 /\ Lag(1) = RequestTimeout + 1 /\ Lag(2) = 2 * RequestTimeout + 3
  BY <1>1 DEF Lag
<1>3. Backoff(0) = 1 /\ Backoff(1) = 2
  BY DEF Backoff
<1>4. WorstCase = 3 * RequestTimeout + 3
  BY <1>1 DEF WorstCase
<1>5. \A n \in 0..(MaxRetries - 1) : n = 0 \/ n = 1 \/ n = 2
  BY <1>1
<1> QED
  BY <1>1, <1>2, <1>3, <1>4, <1>5

LEMMA Types ==
    ASSUME TypeOK
    PROVE  /\ now \in 0..MaxTime /\ now \in Nat
           /\ call \in [Calls -> CallRec] /\ wire \in SUBSET Request
           /\ \A c \in Calls : /\ call[c] \in CallRec
                               /\ call[c].pc \in PCs /\ call[c].n \in 0..(MaxRetries - 1)
                               /\ call[c].start \in Nat /\ call[c].timer \in Nat
                               /\ call[c].ans \in Answers /\ call[c].result \in Results
           /\ \A c \in Calls : Budget(c) \in Nat
           /\ RequestTimeout \in Nat \ {0}
<1>1. now \in 0..MaxTime /\ now \in Nat
  BY CallbacksAssumption DEF TypeOK
<1>2. call \in [Calls -> CallRec] /\ wire \in SUBSET Request
  BY DEF TypeOK, CallRec, PCs, Results, Request
<1>3. \A r \in CallRec : /\ r.pc \in PCs /\ r.n \in 0..(MaxRetries - 1)
                         /\ r.start \in Nat /\ r.timer \in Nat
                         /\ r.ans \in Answers /\ r.result \in Results
  BY DEF CallRec
<1> QED
  BY <1>1, <1>2, <1>3, CallbacksAssumption DEF Budget

\* What a step of the call c must make of its record.
Fits(c, r) ==
    /\ r \in CallRec
    /\ r.pc # "idle"
    /\ Timely(r, now)
    /\ (c \in Posts /\ Active(r)) => now <= r.start + Budget(c)
    /\ \A ts \in 0..MaxTime : Signed(c, ts) =>
          (r.pc = "send" => ts < now) /\ (r.pc = "backoff" => ts < r.timer)
    /\ (c \in Verify /\ flag /\ Active(r)) => c \in shown'
    /\ (r.ans = "yes" \/ r.result = "yes") => c \in shown'

\* A step of one call that leaves the wire alone.
LEMMA CallMoves ==
    ASSUME Inv, NEW c \in Calls, NEW r, Fits(c, r), call' = [call EXCEPT ![c] = r],
           UNCHANGED <<now, wire, seen, flag, canceled>>,
           shown \subseteq shown', shown' \subseteq Verify, promoted' \subseteq shown'
    PROVE  Inv'
<1>1. /\ call' \in [Calls -> CallRec] /\ call'[c] = r
      /\ \A d \in Calls : d # c => call'[d] = call[d]
  BY Types DEF Inv, Fits
<1>2. TypeOK'
  <2>1. flag' \in BOOLEAN
    BY Zenon DEF Inv, TypeOK
  <2> QED
    BY <1>1, <2>1 DEF Inv, TypeOK, CallRec, PCs, Results
<1>3. TimeInv'
  <2> SUFFICES ASSUME NEW d \in Calls
               PROVE  /\ Timely(call'[d], now)
                      /\ (d \in Posts /\ Under(d)') => now <= call'[d].start + Budget(d)
    BY DEF TimeInv, Timely, Budget
  <2>1. CASE d = c
    BY <1>1, <2>1 DEF Fits, Active, Under
  <2>2. CASE d # c
    BY <1>1, <2>2 DEF Inv, TimeInv, Under
  <2> QED
    BY <2>1, <2>2
<1>4. SigInv'
  <2> SUFFICES ASSUME NEW d \in Calls, NEW ts \in 0..MaxTime, Signed(d, ts)
               PROVE  /\ call'[d].pc # "idle" /\ ts <= now
                      /\ call'[d].pc = "send" => ts < now
                      /\ call'[d].pc = "backoff" => ts < call'[d].timer
    BY DEF SigInv, Signed
  <2>1. CASE d = c
    BY <1>1, <2>1 DEF Fits, Inv, SigInv
  <2>2. CASE d # c
    BY <1>1, <2>2 DEF Inv, SigInv
  <2> QED
    BY <2>1, <2>2
<1>5. FreshSignatures'
  BY DEF Inv, FreshSignatures
<1>6. FlagInv'
  <2>1. ASSUME NEW d \in Verify, flag, Under(d)' PROVE d \in shown'
    <3>1. d \in Calls
      BY DEF Calls
    <3> QED
      BY <1>1, <2>1, <3>1 DEF Inv, FlagInv, Fits, Under, Active
  <2>2. ASSUME NEW d \in Calls, call'[d].ans = "yes" \/ call'[d].result = "yes"
        PROVE  d \in shown'
    BY <1>1, <2>2 DEF Inv, FlagInv, Fits
  <2> QED
    BY <2>1, <2>2 DEF FlagInv
<1> QED
  BY <1>2, <1>3, <1>4, <1>5, <1>6 DEF Inv

LEMMA CallLeaves ==
    ASSUME Inv, NEW c \in Calls, NEW r \in CallRec, ~Active(r), r.pc # "idle", r.ans = "none",
           r.result = "yes" => c \in shown
    PROVE  shown' = shown => Fits(c, r)
<1>1. r.pc # "send" /\ r.pc # "wait" /\ r.pc # "backoff"
  BY DEF Active
<1> QED
  BY <1>1 DEF Fits, Timely
------------------------------------------------------------------------------
(* The steps of a call.                                                    *)

LEMMA BeginStep == ASSUME Inv, NEW c \in Calls, Begin(c) PROVE Inv'
<1> DEFINE r == [NotCalled EXCEPT !.pc = "send", !.start = now]
<1>1. now \in Nat /\ (c \in Posts => Budget(c) \in Nat)
  BY Types DEF Inv
<1>2. /\ r \in CallRec /\ r.pc = "send" /\ r.n = 0 /\ r.start = now
      /\ r.ans = "none" /\ r.result = "none"
  <2>1. NotCalled \in CallRec /\ NotCalled.n = 0 /\ NotCalled.ans = "none" /\ NotCalled.result = "none"
    BY DEF NotCalled, CallRec, PCs, Answers, Results, MaxRetries
  <2> QED
    BY <1>1, <2>1 DEF CallRec, PCs
<1>3. call' = [call EXCEPT ![c] = r] /\ UNCHANGED <<now, wire, seen, flag, canceled, promoted>>
      /\ call[c].pc = "idle"
  BY DEF Begin, cmVars
<1>4. /\ shown \subseteq shown' /\ shown' \subseteq Verify
      /\ (flag /\ c \in Verify) => c \in shown'
  BY DEF Begin, Inv, TypeOK
<1>5. \A ts \in 0..MaxTime : ~Signed(c, ts)
  BY <1>3 DEF Inv, SigInv
<1> HIDE DEF r
<1>6. Timely(r, now) /\ now <= r.start + Budget(c)
  <2>1. Lag(0) = 0 /\ Budget(c) \in Nat
    BY Lags, Types DEF Inv
  <2> QED
    BY <1>1, <1>2, <2>1 DEF Timely
<1>7. Fits(c, r)
  BY <1>2, <1>4, <1>5, <1>6 DEF Fits
<1>8. promoted' \subseteq shown'
  BY <1>3, <1>4 DEF Inv, FlagInv
<1> QED
  BY <1>3, <1>4, <1>7, <1>8, CallMoves

LEMMA ReturnStep ==
    ASSUME Inv, NEW c \in Calls, NEW x \in {"ok", "yes", "no", "error"}, Return(c, x),
           x = "yes" => call[c].ans = "yes",
           UNCHANGED <<wire, now, seen, flag, promoteVars>>
    PROVE  Inv'
<1> DEFINE r == [call[c] EXCEPT !.pc = "returned", !.result = x, !.ans = "none"]
<1>1. r \in CallRec /\ r.pc = "returned" /\ r.ans = "none" /\ r.result = x
  <2>1. call[c] \in CallRec
    BY Types DEF Inv
  <2> QED
    BY <2>1 DEF CallRec, PCs, Answers, Results
<1>2. call' = [call EXCEPT ![c] = r]
  BY DEF Return
<1> HIDE DEF r
<1>3. r.result = "yes" => c \in shown
  BY <1>1 DEF Inv, FlagInv
<1>4. Fits(c, r)
  BY <1>1, <1>3, CallLeaves DEF Active, promoteVars
<1> QED
  BY <1>2, <1>4, CallMoves DEF promoteVars, Inv, TypeOK, FlagInv

LEMMA FailStep ==
    ASSUME Inv, NEW c \in Calls, call[c].pc \in {"send", "wait"}, AttemptFailed(c),
           UNCHANGED <<wire, now, seen, flag, promoteVars>>
    PROVE  Inv'
<1>1. CASE call[c].n = MaxRetries - 1
  BY <1>1, ReturnStep DEF AttemptFailed
<1>2. CASE call[c].n # MaxRetries - 1
  <2> DEFINE n == call[c].n
             r == [call[c] EXCEPT !.pc = "backoff", !.timer = now + Backoff(n), !.ans = "none"]
  <2>1. /\ call[c] \in CallRec /\ call[c].start \in Nat /\ call[c].timer \in Nat
        /\ n \in 0..(MaxRetries - 1) /\ now \in Nat /\ RequestTimeout \in Nat
    BY Types DEF Inv
  <2>2. /\ n < MaxRetries - 1 /\ Backoff(n) \in Nat \ {0} /\ Lag(n) \in Nat /\ Lag(n + 1) \in Nat
        /\ Lag(n) + RequestTimeout + Backoff(n) = Lag(n + 1)
    <3>1. n < MaxRetries - 1
      BY <1>2, <2>1 DEF MaxRetries
    <3> QED
      BY <2>1, <3>1, Lags
  <2>3. /\ r.pc = "backoff" /\ r.n = n /\ r.start = call[c].start /\ r.timer = now + Backoff(n)
        /\ r.ans = "none" /\ r.result = call[c].result
    BY <2>1 DEF CallRec
  <2>4. r \in CallRec
    <3>1. now + Backoff(n) \in Nat
      BY <2>1, <2>2
    <3> QED
      BY <2>1, <3>1, Zenon DEF CallRec, PCs, Answers
  <2>5. call' = [call EXCEPT ![c] = r]
    BY <1>2 DEF AttemptFailed
  <2> HIDE DEF n, r
  <2>6. Timely(r, now)
    <3>1. now <= call[c].start + Lag(n) + RequestTimeout
      <4>1. Timely(call[c], now)
        BY DEF Inv, TimeInv
      <4> QED
        BY <2>1, <2>2, <4>1 DEF Timely, n
    <3> QED
      BY <2>1, <2>2, <2>3, <3>1 DEF Timely
  <2>7. \A ts \in 0..MaxTime : Signed(c, ts) => ts < r.timer
    <3> SUFFICES ASSUME NEW ts \in 0..MaxTime, Signed(c, ts) PROVE ts < r.timer
      OBVIOUS
    <3>1. ts <= now /\ ts \in Nat
      BY CallbacksAssumption DEF Inv, SigInv
    <3> QED
      BY <2>1, <2>2, <2>3, <3>1
  <2>8. Under(c)
    BY DEF Under
  <2>9. Fits(c, r)
    BY <2>3, <2>4, <2>6, <2>7, <2>8 DEF Fits, Inv, TimeInv, FlagInv, promoteVars, Calls
  <2> QED
    BY <2>5, <2>9, CallMoves DEF promoteVars, Inv, TypeOK, FlagInv
<1> QED
  BY <1>1, <1>2

LEMMA RetryStep == ASSUME Inv, NEW c \in Calls, Retry(c) PROVE Inv'
<1> DEFINE n == call[c].n
           r == [call[c] EXCEPT !.pc = "send", !.n = n + 1]
<1>1. /\ call[c] \in CallRec /\ call[c].start \in Nat /\ call[c].timer \in Nat
      /\ n \in 0..(MaxRetries - 1) /\ now \in Nat
  BY Types DEF Inv
<1>2. call[c].pc = "backoff" /\ now >= call[c].timer
  BY DEF Retry, Rested
<1>3. /\ n < MaxRetries - 1 /\ n + 1 \in 0..(MaxRetries - 1) /\ now <= call[c].timer
      /\ call[c].timer <= call[c].start + Lag(n + 1)
  BY <1>1, <1>2, Lags DEF Inv, TimeInv, Timely
<1>4. /\ r.pc = "send" /\ r.n = n + 1 /\ r.start = call[c].start
      /\ r.ans = call[c].ans /\ r.result = call[c].result
  BY <1>1 DEF CallRec
<1>5. r \in CallRec
  BY <1>1, <1>3 DEF CallRec, PCs
<1>6. call' = [call EXCEPT ![c] = r] /\ UNCHANGED <<now, wire, seen, flag, canceled, promoted, shown>>
  BY DEF Retry, CallUnchanged, promoteVars
<1> HIDE DEF n, r
<1>7. Timely(r, now)
  <2>1. Lag(n + 1) \in Nat
    BY <1>3, Lags
  <2> QED
    BY <1>1, <1>3, <1>4, <2>1 DEF Timely
<1>8. \A ts \in 0..MaxTime : Signed(c, ts) => ts < now
  <2>1. call[c].timer = now
    BY <1>1, <1>2, <1>3
  <2> QED
    BY <1>2, <2>1 DEF Inv, SigInv
<1>9. Under(c)
  BY <1>2 DEF Under
<1>10. Fits(c, r)
  BY <1>4, <1>5, <1>6, <1>7, <1>8, <1>9 DEF Fits, Inv, TimeInv, FlagInv, Calls
<1> QED
  BY <1>6, <1>10, CallMoves DEF Inv, TypeOK, FlagInv

LEMMA FinishStep ==
    ASSUME Inv, NEW c \in Calls, Finish(c),
           UNCHANGED <<wire, now, seen, flag, canceled, shown>>, promoted' \subseteq shown
    PROVE  Inv'
<1> DEFINE r == [NotCalled EXCEPT !.pc = "done"]
<1>1. r \in CallRec /\ r.pc = "done" /\ r.ans = "none" /\ r.result = "none"
  BY DEF NotCalled, CallRec, PCs, Answers, Results, MaxRetries
<1>2. call' = [call EXCEPT ![c] = r]
  BY DEF Finish
<1> HIDE DEF r
<1>3. Fits(c, r)
  BY <1>1, CallLeaves DEF Active
<1> QED
  BY <1>2, <1>3, CallMoves DEF Inv, TypeOK

\* The one step that puts a request on the wire: the call has signed nothing in
\* this second.
LEMMA SendStep == ASSUME Inv, NEW c \in Calls, Send(c) PROVE Inv'
<1> DEFINE n == call[c].n
           q == [call |-> c, n |-> n, ts |-> now]
           r == [call[c] EXCEPT !.pc = "wait", !.timer = now + RequestTimeout]
<1>1. /\ call[c] \in CallRec /\ call[c].start \in Nat /\ n \in 0..(MaxRetries - 1)
      /\ now \in 0..MaxTime /\ now \in Nat /\ RequestTimeout \in Nat /\ Lag(n) \in Nat
  BY Types, Lags DEF Inv
<1>2. call[c].pc = "send" /\ Under(c)
  BY DEF Send, Under
<1>3. /\ r.pc = "wait" /\ r.n = n /\ r.start = call[c].start /\ r.timer = now + RequestTimeout
      /\ r.ans = call[c].ans /\ r.result = call[c].result
  BY <1>1 DEF CallRec
<1>4. r \in CallRec
  <2>1. now + RequestTimeout \in Nat
    BY <1>1
  <2> QED
    BY <1>1, <2>1, Zenon DEF CallRec, PCs
<1>5. /\ wire' = wire \cup {q} /\ call' = [call EXCEPT ![c] = r]
      /\ UNCHANGED <<now, seen, flag, canceled, promoted, shown>>
  BY DEF Send, CallUnchanged, promoteVars
<1>6. q \in Request /\ q.call = c /\ q.ts = now
  BY <1>1 DEF Request
<1> HIDE DEF n, q, r
<1>7. /\ call' \in [Calls -> CallRec] /\ call'[c] = r
      /\ \A d \in Calls : d # c => call'[d] = call[d]
  BY <1>4, <1>5, Types DEF Inv
<1>8. TypeOK'
  <2>1. flag' \in BOOLEAN
    BY <1>5, Zenon DEF Inv, TypeOK
  <2>2. wire' \subseteq Request
    BY <1>5, <1>6, Types DEF Inv
  <2> QED
    BY <1>5, <1>7, <2>1, <2>2 DEF Inv, TypeOK, CallRec, PCs, Results, Request
<1>9. TimeInv'
  <2>1. now <= call[c].start + Lag(n)
    BY <1>2 DEF Inv, TimeInv, Timely, n
  <2>2. Timely(r, now)
    BY <1>1, <1>3, <2>1 DEF Timely
  <2> QED
    BY <1>2, <1>3, <1>5, <1>7, <2>2 DEF Inv, TimeInv, Under, Timely, Budget
<1>10. ~Signed(c, now)
  BY <1>1, <1>2 DEF Inv, SigInv
<1>11. \A d \in Calls, ts \in 0..MaxTime : Signed(d, ts)' => Signed(d, ts) \/ (d = c /\ ts = now)
  BY <1>5, <1>6 DEF Signed
<1>12. SigInv'
  BY <1>1, <1>3, <1>5, <1>7, <1>11 DEF Inv, SigInv
<1>13. FreshSignatures'
  <2>1. <<c, now>> \notin seen /\ \A p \in wire : ~(p.call = c /\ p.ts = now)
    BY <1>10 DEF Signed
  <2> QED
    BY <1>5, <1>6, <2>1 DEF Inv, FreshSignatures
<1>14. FlagInv'
  BY <1>2, <1>3, <1>5, <1>7 DEF Inv, FlagInv, Under, Calls
<1> QED
  BY <1>8, <1>9, <1>12, <1>13, <1>14 DEF Inv

LEMMA CallStepInv == ASSUME Inv, NEW c \in Calls, CallStep(c) PROVE Inv'
<1>1. CASE Begin(c)
  BY <1>1, BeginStep
<1>2. CASE Send(c)
  BY <1>2, SendStep
<1>3. CASE Receive(c)
  <2> DEFINE ans == call[c].ans
  <2>1. /\ call[c].pc = "wait" /\ ans # "none" /\ UNCHANGED <<wire, now, seen, flag, promoteVars>>
        /\ CASE ans \in {"ok", "yes", "no"} -> Return(c, ans)
             [] ans = "clienterror"         -> Return(c, "error")
             [] ans = "servererror"         -> AttemptFailed(c)
    BY <1>3 DEF Receive, CallUnchanged
  <2>2. ans \in Answers
    BY Types DEF Inv
  <2>3. CASE ans \in {"ok", "yes", "no"}
    <3>1. Return(c, ans)
      BY <2>1, <2>3
    <3> QED
      BY <2>1, <2>3, <3>1, ReturnStep
  <2>4. CASE ans = "clienterror"
    BY <2>1, <2>4, ReturnStep
  <2>5. CASE ans = "servererror"
    BY <2>1, <2>5, FailStep
  <2> QED
    BY <2>1, <2>2, <2>3, <2>4, <2>5 DEF Answers
<1>4. CASE TransportFails(c)
  BY <1>4, FailStep DEF TransportFails, CallUnchanged
<1>5. CASE GiveUp(c)
  BY <1>5, ReturnStep DEF GiveUp, CallUnchanged
<1>6. CASE Retry(c)
  BY <1>6, RetryStep
<1>7. CASE LogOutcome(c) \/ PromoteRefused(c)
  BY <1>7, FinishStep DEF LogOutcome, PromoteRefused, CallUnchanged, promoteVars, cmVars, Inv, FlagInv
<1>8. CASE Promote(c)
  BY <1>8, FinishStep DEF Promote, cmVars, Inv, FlagInv
<1> QED
  BY <1>1, <1>2, <1>3, <1>4, <1>5, <1>6, <1>7, <1>8 DEF CallStep
------------------------------------------------------------------------------
(* ContextMatrix, the clients and the clock.                               *)

LEMMA TakeStep == ASSUME Inv, NEW q \in wire, Take(q) PROVE Inv'
<1> DEFINE c == q.call
           sig == <<c, q.ts>>
<1>1. q \in Request /\ c \in Calls /\ q.ts \in 0..MaxTime
  BY Types DEF Inv, Request
<1>2. wire' = wire \ {q} /\ seen' = seen \cup {sig} /\ UNCHANGED <<now, flag, canceled, promoted, shown>>
  BY DEF Take, promoteVars
<1>3. PICK ans \in Answers :
         /\ \/ call' = call
            \/ call[c].pc = "wait" /\ call' = [call EXCEPT ![c] = [call[c] EXCEPT !.ans = ans]]
         /\ ans = "yes" => c \in Verify /\ flag
  BY DEF Take, Answers
<1>4. /\ call' \in [Calls -> CallRec]
      /\ \A d \in Calls : /\ call'[d].pc = call[d].pc /\ call'[d].n = call[d].n
                          /\ call'[d].start = call[d].start /\ call'[d].timer = call[d].timer
                          /\ call'[d].result = call[d].result
                          /\ \/ call'[d].ans = call[d].ans
                             \/ d = c /\ call[c].pc = "wait" /\ call'[d].ans = ans
  <2>1. call \in [Calls -> CallRec] /\ call[c] \in CallRec
    BY <1>1, Types DEF Inv
  <2> DEFINE r == [call[c] EXCEPT !.ans = ans]
  <2>2. /\ r \in CallRec /\ r.pc = call[c].pc /\ r.n = call[c].n /\ r.start = call[c].start
        /\ r.timer = call[c].timer /\ r.result = call[c].result /\ r.ans = ans
    BY <2>1 DEF CallRec
  <2> HIDE DEF r
  <2>3. CASE call' = call
    BY <2>1, <2>3
  <2>4. CASE call[c].pc = "wait" /\ call' = [call EXCEPT ![c] = r]
    <3>1. call' \in [Calls -> CallRec] /\ call'[c] = r /\ \A d \in Calls : d # c => call'[d] = call[d]
      BY <1>1, <2>1, <2>2, <2>4
    <3> QED
      BY <2>2, <2>4, <3>1
  <2> QED
    BY <1>3, <2>3, <2>4 DEF r
<1> HIDE DEF c
<1>5. TypeOK'
  <2>1. flag' \in BOOLEAN
    BY <1>2, Zenon DEF Inv, TypeOK
  <2>2. wire' \subseteq Request /\ seen' \subseteq Calls \X (0..MaxTime)
    BY <1>1, <1>2, Types DEF Inv, TypeOK
  <2> QED
    BY <1>2, <1>4, <2>1, <2>2 DEF Inv, TypeOK, CallRec, PCs, Results, Request
<1>6. TimeInv'
  BY <1>2, <1>4 DEF Inv, TimeInv, Timely, Under, Budget
<1>7. \A d \in Calls, ts \in 0..MaxTime : Signed(d, ts)' => Signed(d, ts)
  BY <1>1, <1>2 DEF Signed, c
<1>8. SigInv'
  BY <1>2, <1>4, <1>7 DEF Inv, SigInv
<1>9. FreshSignatures'
  <2> SUFFICES ASSUME NEW p \in wire'
               PROVE  /\ <<p.call, p.ts>> \notin seen'
                      /\ \A o \in wire' : (o.call = p.call /\ o.ts = p.ts) => o = p
    BY DEF FreshSignatures
  <2>1. p \in wire /\ p # q
    BY <1>2
  <2>2. ~(q.call = p.call /\ q.ts = p.ts)
    BY <2>1 DEF Inv, FreshSignatures
  <2>3. <<p.call, p.ts>> # sig
    BY <2>2 DEF c
  <2> QED
    BY <1>2, <2>1, <2>3 DEF Inv, FreshSignatures
<1>10. FlagInv'
  <2>1. ASSUME ans = "yes", call[c].pc = "wait" PROVE c \in shown
    BY <1>3, <2>1 DEF Inv, FlagInv, Under
  <2> QED
    BY <1>2, <1>4, <2>1 DEF Inv, FlagInv, Under, Calls
<1> QED
  BY <1>5, <1>6, <1>8, <1>9, <1>10 DEF Inv

LEMMA OtherStep ==
    ASSUME Inv, SetFlag \/ Tick \/ (\E c \in Calls : HangUp(c)) \/ UNCHANGED vars
    PROVE  Inv'
<1>1. CASE Tick
  <2>1. /\ now' = now + 1 /\ now' \in 0..MaxTime
        /\ UNCHANGED <<call, wire, seen, flag, canceled, promoted, shown>>
        /\ \A c \in Calls : ~Due(c)
    <3>1. now \in Nat /\ MaxTime \in Nat
      BY CallbacksAssumption, Types DEF Inv
    <3>2. now < MaxTime /\ now' = now + 1
      BY <1>1 DEF Tick
    <3>3. now' \in 0..MaxTime
      BY <3>1, <3>2
    <3> QED
      BY <1>1, <3>2, <3>3 DEF Tick, cmVars, promoteVars
  <2>2. TypeOK'
    <3>1. flag' \in BOOLEAN
      BY <2>1, Zenon DEF Inv, TypeOK
    <3> QED
      BY <2>1, <3>1 DEF Inv, TypeOK
  <2>3. TimeInv'
    <3> SUFFICES ASSUME NEW c \in Calls
                 PROVE  /\ Timely(call[c], now')
                        /\ (c \in Posts /\ Under(c)) => now' <= call[c].start + Budget(c)
      BY <2>1 DEF TimeInv, Timely, Under, Budget
    <3>1. /\ now \in Nat /\ call[c].start \in Nat /\ call[c].timer \in Nat /\ Budget(c) \in Nat
      BY Types DEF Inv
    <3>2. ~Due(c)
      BY <2>1
    <3>3. Timely(call[c], now')
      <4>1. call[c].pc # "send" /\ (call[c].pc \in {"wait", "backoff"} => now < call[c].timer)
        BY <3>1, <3>2 DEF Due, TimedOut, Rested
      <4>2. Timely(call[c], now)
        BY DEF Inv, TimeInv
      <4> QED
        BY <2>1, <3>1, <4>1, <4>2 DEF Timely
    <3>4. (c \in Posts /\ Under(c)) => now < call[c].start + Budget(c)
      <4>1. c \in Posts => c \notin Verify
        BY CallbacksAssumption DEF Posts
      <4> QED
        BY <3>1, <3>2, <4>1 DEF Due, CtxDone, Expired
    <3> QED
      BY <2>1, <3>1, <3>3, <3>4
  <2>4. SigInv'
    <3> SUFFICES ASSUME NEW c \in Calls, NEW ts \in 0..MaxTime, Signed(c, ts)
                 PROVE  /\ call[c].pc # "idle" /\ ts <= now'
                        /\ call[c].pc = "send" => ts < now'
                        /\ call[c].pc = "backoff" => ts < call[c].timer
      BY <2>1 DEF SigInv, Signed
    <3>1. ts \in Nat /\ now \in Nat
      BY CallbacksAssumption, Types DEF Inv
    <3>2. /\ call[c].pc # "idle" /\ ts <= now
          /\ call[c].pc = "backoff" => ts < call[c].timer
      BY DEF Inv, SigInv
    <3> QED
      BY <2>1, <3>1, <3>2
  <2>5. FreshSignatures' /\ FlagInv'
    BY <2>1 DEF Inv, FreshSignatures, FlagInv, Under
  <2> QED
    BY <2>2, <2>3, <2>4, <2>5 DEF Inv
<1>2. CASE SetFlag
  <2>1. /\ UNCHANGED <<now, call, wire, seen, canceled, promoted>>
        /\ shown' = IF flag' THEN shown \cup {c \in Verify : Under(c)} ELSE shown
    BY <1>2 DEF SetFlag
  <2>2. flag' \in BOOLEAN
    BY <1>2, Zenon DEF Inv, TypeOK, SetFlag
  <2>3. TypeOK' /\ TimeInv' /\ SigInv' /\ FreshSignatures'
    BY <2>1, <2>2 DEF Inv, TypeOK, TimeInv, Timely, Under, Budget, SigInv, Signed, FreshSignatures
  <2>4. FlagInv'
    BY <2>1 DEF Inv, FlagInv, Under
  <2> QED
    BY <2>3, <2>4 DEF Inv
<1>3. CASE (\E c \in Calls : HangUp(c)) \/ UNCHANGED vars
  <2>1. /\ UNCHANGED <<now, call, wire, seen, flag, promoted, shown>>
        /\ canceled' \subseteq Verify
    BY <1>3 DEF HangUp, vars, cmVars, promoteVars, Inv, TypeOK
  <2>2. flag' \in BOOLEAN
    BY <2>1, Zenon DEF Inv, TypeOK
  <2> QED
    BY <2>1, <2>2 DEF Inv, TypeOK, TimeInv, Timely, Under, Budget, SigInv, Signed,
                      FreshSignatures, FlagInv
<1> QED
  BY <1>1, <1>2, <1>3

LEMMA InitInv == Init => Inv
<1> SUFFICES ASSUME Init PROVE Inv
  OBVIOUS
<1>1. NotCalled \in CallRec /\ NotCalled.pc = "idle" /\ NotCalled.ans = "none" /\ NotCalled.result = "none"
  BY DEF NotCalled, CallRec, PCs, Answers, Results, MaxRetries
<1>2. call = [c \in Calls |-> NotCalled] /\ now = 0 /\ 0 \in 0..MaxTime
  BY CallbacksAssumption DEF Init
<1>3. TypeOK
  <2>1. flag \in BOOLEAN
    BY Zenon DEF Init
  <2>2. call \in [Calls -> CallRec]
    BY <1>1, <1>2
  <2> QED
    BY <1>2, <2>1, <2>2 DEF Init, TypeOK, CallRec, PCs, Results
<1>4. \A c \in Calls : call[c].pc = "idle" /\ call[c].ans = "none" /\ call[c].result = "none"
  BY <1>1, <1>2
<1>5. TimeInv /\ FlagInv
  BY <1>4 DEF TimeInv, Timely, Under, FlagInv, Init, Calls
<1>6. SigInv /\ FreshSignatures
  BY DEF Init, SigInv, Signed, FreshSignatures
<1> QED
  BY <1>3, <1>5, <1>6 DEF Inv

LEMMA StepInv == Inv /\ [Next]_vars => Inv'
BY CallStepInv, TakeStep, OtherStep DEF Next
------------------------------------------------------------------------------
\* Every call is on schedule, and has signed only before the second at which it
\* will sign next.
THEOREM Invariance == Spec => []Inv
BY InitInv, StepInv, PTL DEF Spec

\* A retry never carries a signature that ContextMatrix could take for a replay.
THEOREM RetriesSignAfresh == Spec => []FreshSignatures
<1>1. Inv => FreshSignatures
  BY DEF Inv
<1> QED
  BY <1>1, Invariance, PTL

\* A callback holds its goroutine no longer than its context, VerifyAutonomous
\* no longer than all its attempts and backoffs.
THEOREM CallsReturnInTime == Spec => []ReturnsInTime
<1>1. ASSUME Inv, NEW c \in Calls, Under(c), c \in Verify PROVE now <= call[c].start + WorstCase
  <2>1. /\ now \in Nat /\ call[c].start \in Nat /\ call[c].timer \in Nat
        /\ call[c].n \in 0..(MaxRetries - 1) /\ RequestTimeout \in Nat
    BY <1>1, Types DEF Inv
  <2> DEFINE n == call[c].n
  <2>2. Lag(n) \in Nat /\ Lag(n) + RequestTimeout <= WorstCase /\ WorstCase \in Nat
    BY <2>1, Lags DEF WorstCase, MaxRetries
  <2>3. call[c].pc = "backoff" => Lag(n + 1) \in Nat /\ Lag(n + 1) + RequestTimeout <= WorstCase
    BY <1>1, <2>1, Lags DEF Inv, TimeInv, Timely
  <2>4. Timely(call[c], now)
    BY <1>1 DEF Inv, TimeInv
  <2> HIDE DEF n
  <2> QED
    BY <1>1, <2>1, <2>2, <2>3, <2>4 DEF Timely, Under, n
<1>2. Inv => ReturnsInTime
  BY <1>1 DEF Inv, TimeInv, ReturnsInTime, Calls
<1> QED
  BY <1>2, Invariance, PTL

\* /promote writes only when the flag was set at some moment of the request.
THEOREM PromotionsFailClosed == Spec => []PromotedWasAutonomous
<1>1. Inv => PromotedWasAutonomous
  BY DEF Inv, FlagInv, PromotedWasAutonomous
<1> QED
  BY <1>1, Invariance, PTL
==============================================================================

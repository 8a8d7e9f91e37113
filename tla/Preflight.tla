------------------------------ MODULE Preflight ------------------------------
(***************************************************************************)
(* internal/preflight: the probes of Docker, the base image, the GitHub    *)
(* token and ContextMatrix, run once before the listener opens and then by *)
(* a retry loop until all of them pass in one run; and HealthState, which  *)
(* /readyz answers from.                                                   *)
(***************************************************************************)
EXTENDS Naturals

VARIABLES
    pre,       \* main's first run, then the retry loop
    passed,    \* HealthState.PreflightPassed
    draining   \* HealthState.Draining

preflightVars == <<pre, passed, draining>>

Probes == 4
PreOff == [pc |-> "off", next |-> 1, ok |-> TRUE]
PreRun(pc) == [pc |-> pc, next |-> 1, ok |-> TRUE]

PreflightTypeOK ==
    /\ pre \in [pc : {"off", "first", "wait", "retry", "passed", "stopped", "panicked"},
                next : 1..(Probes + 1), ok : BOOLEAN]
    /\ passed \in BOOLEAN /\ draining \in BOOLEAN

PreflightInit == pre = PreOff /\ passed = FALSE /\ draining = FALSE

\* handleReadyz: draining first, then the preflight flag.
Ready == ~draining /\ passed

\* Run goes through every probe, also after one failed.
Probe(up) ==
    /\ pre.pc \in {"first", "retry"} /\ pre.next <= Probes
    /\ pre' = [pre EXCEPT !.next = @ + 1, !.ok = @ /\ up]
    /\ UNCHANGED <<passed, draining>>

\* Mutant: the result of the last probe alone decides, and a failure ends the
\* loop.
RunEndsForGood ==
    /\ pre.pc \in {"first", "retry"} /\ pre.next > Probes
    /\ passed' = (passed \/ pre.ok)
    /\ pre' = [PreOff EXCEPT !.pc = IF pre.ok THEN "passed" ELSE "stopped"]
    /\ UNCHANGED draining

RunEnds ==
    /\ pre.pc \in {"first", "retry"} /\ pre.next > Probes
    /\ passed' = (passed \/ pre.ok)
    /\ pre' = [PreOff EXCEPT !.pc = IF pre.ok THEN "passed" ELSE "wait"]
    /\ UNCHANGED draining

\* The retry loop's select.
RetryTick ==
    /\ pre.pc = "wait"
    /\ pre' = PreRun("retry")
    /\ UNCHANGED <<passed, draining>>

RetryStops(ctxDone) ==
    /\ pre.pc = "wait" /\ ctxDone
    /\ pre' = [PreOff EXCEPT !.pc = "stopped"]
    /\ UNCHANGED <<passed, draining>>

\* The loop recovers, logs and returns; nothing starts it again.
RetryPanics ==
    /\ pre.pc = "retry"
    /\ pre' = [PreOff EXCEPT !.pc = "panicked"]
    /\ UNCHANGED <<passed, draining>>
==============================================================================

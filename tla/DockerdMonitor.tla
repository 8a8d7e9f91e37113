--------------------------- MODULE DockerdMonitor ---------------------------
(***************************************************************************)
(* internal/container/health_monitor.go and the goroutine main wraps it    *)
(* in: dockerd is pinged on every tick, FailureLimit failures in a row end *)
(* the process so that systemd starts it with a fresh SDK client.          *)
(***************************************************************************)
EXTENDS Naturals

CONSTANT FailureLimit

ASSUME MonitorAssumption == FailureLimit \in Nat \ {0}

VARIABLES
    mon,    \* the monitor's goroutine
    docker  \* up; down: a ping is an error; broken: the SDK panics

monitorVars == <<mon, docker>>

MonOff  == [pc |-> "off", failures |-> 0]
MonIdle == [pc |-> "idle", failures |-> 0]

MonitorTypeOK ==
    /\ mon \in [pc : {"off", "idle", "ping", "exit", "respawn", "stopped"},
                failures : 0..FailureLimit]
    /\ docker \in {"up", "down", "broken"}

MonitorInit == mon = MonOff /\ docker = "up"

\* The select takes the tick or the cancelled context.
MonitorTick ==
    /\ mon.pc = "idle"
    /\ mon' = [mon EXCEPT !.pc = "ping"]
    /\ UNCHANGED docker

MonitorStops(ctxDone) ==
    /\ mon.pc \in {"idle", "respawn"} /\ ctxDone
    /\ mon' = [mon EXCEPT !.pc = "stopped"]
    /\ UNCHANGED docker

Strike == LET n == mon.failures + 1
          IN  mon' = [pc |-> IF n >= FailureLimit THEN "exit" ELSE "idle", failures |-> n]

PingOK ==
    /\ mon.pc = "ping" /\ docker = "up"
    /\ mon' = MonIdle
    /\ UNCHANGED docker

\* A ping that fails with the context done is no failure of dockerd's.
PingFails(ctxDone) ==
    /\ mon.pc = "ping" /\ (docker = "down" \/ ctxDone)
    /\ IF ctxDone THEN mon' = [mon EXCEPT !.pc = "stopped"] ELSE Strike
    /\ UNCHANGED docker

\* Mutant: the recovered panic is only logged.
PingPanicsUncounted ==
    /\ mon.pc = "ping" /\ docker = "broken"
    /\ mon' = [mon EXCEPT !.pc = "idle"]
    /\ UNCHANGED docker

\* The recovered panic counts, also with the context done.
PingPanics ==
    /\ mon.pc = "ping" /\ docker = "broken"
    /\ Strike
    /\ UNCHANGED docker

\* A panic outside the iteration reaches main's wrapper, which starts the
\* monitor again after a pause.
MonitorPanics ==
    /\ mon.pc \in {"idle", "ping"}
    /\ mon' = [mon EXCEPT !.pc = "respawn"]
    /\ UNCHANGED docker

Respawn ==
    /\ mon.pc = "respawn"
    /\ mon' = MonIdle
    /\ UNCHANGED docker

MonitorStep(ctxDone) ==
    \/ MonitorTick \/ MonitorStops(ctxDone) \/ PingOK \/ PingFails(ctxDone)
    \/ PingPanics \/ Respawn
==============================================================================

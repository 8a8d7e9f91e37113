---------------------------- MODULE RunnerProcess ----------------------------
(***************************************************************************)
(* cmd/contextmatrix-runner: the order in which main boots and shuts down, *)
(* and the background goroutines that live under its monitorCtx: the token *)
(* refresher, the preflight retry loop and the dockerd monitor.  Each has  *)
(* a module of its own; they meet in monitorCtx, in os.Exit, in the token  *)
(* provider that the refresher and a probe share, and in dockerd.          *)
(*                                                                         *)
(* The first mint and the first preflight run are main's own.  What the    *)
(* listener serves and what shutdown does to containers is CardRuns'.      *)
(***************************************************************************)
EXTENDS TokenRefresher, DockerdMonitor, Preflight

CONSTANT
    MaxFaults    \* bound: signals, crashes, panics, outages of the provider,
                 \* and how often dockerd or ContextMatrix changes its mind

ASSUME ProcessAssumption == MaxFaults \in Nat

VARIABLES
    proc,
    cm,           \* ContextMatrix answers its probe
    faults

vars == <<refresherVars, monitorVars, preflightVars, proc, cm, faults>>

Procs == {"mint", "preflight", "serving", "draining", "canceled", "down", "stopped"}
ctxDone == proc = "canceled"

TypeOK ==
    /\ RefresherTypeOK /\ MonitorTypeOK /\ PreflightTypeOK
    /\ proc \in Procs /\ cm \in BOOLEAN
    /\ faults \in 0..MaxFaults

Fault == faults < MaxFaults /\ faults' = faults + 1

Init ==
    /\ RefresherInit /\ MonitorInit /\ PreflightInit
    /\ proc = "down" /\ cm = TRUE
    /\ faults = 0
------------------------------------------------------------------------------
(* Boot: the refresher's first mint, the first preflight run, then the     *)
(* monitor and the listener.                                               *)

\* systemd restarts on failure; a runner that stopped is started by hand.
Boot ==
    /\ proc \in {"down", "stopped"}
    /\ proc' = "mint"
    /\ ref' = RefMint
    /\ UNCHANGED <<hostVars, health, downFor, monitorVars, preflightVars, cm, faults>>

\* The process ends, whoever asked for it: its memory is gone.
End(p) ==
    /\ proc' = p
    /\ ref' = RefOff /\ mon' = MonOff /\ pre' = PreOff
    /\ passed' = FALSE /\ draining' = FALSE

\* StartTokenRefresher has its file; Run starts, with a mint.
FirstMintDone ==
    /\ proc = "mint"
    /\ Rename
    /\ ref' = RefMint
    /\ proc' = "preflight"
    /\ pre' = PreRun("first")
    /\ UNCHANGED <<monitorVars, passed, draining, cm, faults>>

\* Fail closed: main exits with 1.
FirstMintFails ==
    /\ proc = "mint" /\ ref.pc \in Working /\ health = "down"
    /\ tmp' = IF ref.pc \in {"mint", "open"} THEN tmp ELSE "none"
    /\ End("down")
    /\ UNCHANGED <<file, life, left, health, downFor, docker, cm, faults>>

\* preflight.Loop has returned and the boot-time sweep is over.
Serve ==
    /\ proc = "preflight" /\ pre.pc # "first"
    /\ proc' = "serving"
    /\ mon' = MonIdle
    /\ UNCHANGED <<refresherVars, docker, preflightVars, cm, faults>>
------------------------------------------------------------------------------
(* The background goroutines.                                              *)

Refresh ==
    /\ \/ proc = "mint" /\ (MintFresh \/ Open \/ Write \/ Sync)
       \/ proc # "mint" /\ RefresherStep(ctxDone)
    /\ UNCHANGED <<monitorVars, preflightVars, proc, cm, faults>>

Monitor ==
    /\ MonitorStep(ctxDone)
    /\ UNCHANGED <<refresherVars, preflightVars, proc, cm, faults>>

\* exitFn(1).
MonitorExit ==
    /\ mon.pc = "exit"
    /\ End("down")
    /\ UNCHANGED <<hostVars, health, downFor, docker, cm, faults>>

\* In the order of Run; the image, probed under the pull policy "never", is
\* dockerd's to inspect.
OfDocker(probe) == probe \in {1, 2}
ProbeUp == IF OfDocker(pre.next) THEN docker = "up"
           ELSE IF pre.next = 3 THEN health # "down" ELSE cm
ProbePanics == OfDocker(pre.next) /\ docker = "broken"

RunPreflight ==
    /\ \/ ~ProbePanics /\ Probe(ProbeUp /\ ~ctxDone)
       \/ ProbePanics /\ RetryPanics
       \/ RunEnds \/ RetryTick \/ RetryStops(ctxDone)
    /\ UNCHANGED <<refresherVars, monitorVars, proc, cm, faults>>

\* Nothing recovers main's own run.
FirstRunPanics ==
    /\ pre.pc = "first" /\ ProbePanics
    /\ End("down")
    /\ UNCHANGED <<hostVars, health, downFor, docker, cm, faults>>

Panics ==
    /\ Fault
    /\ \/ proc # "mint" /\ RefresherPanics /\ UNCHANGED monitorVars
       \/ MonitorPanics /\ UNCHANGED refresherVars
    /\ UNCHANGED <<preflightVars, proc, cm>>
------------------------------------------------------------------------------
(* Shutdown.                                                               *)

\* The signal, and step 1.
StartDraining ==
    /\ proc = "serving" /\ Fault
    /\ proc' = "draining" /\ draining' = TRUE
    /\ UNCHANGED <<refresherVars, monitorVars, pre, passed, cm>>

\* Steps 2 and 3: the listener has drained, monitorCtx is cancelled.
MonitorCancel ==
    /\ proc = "draining"
    /\ proc' = "canceled"
    /\ UNCHANGED <<refresherVars, monitorVars, preflightVars, cm, faults>>

\* Step 5: the refresher is one of the goroutines manager.Wait waits for.
Drained ==
    /\ proc = "canceled" /\ ref.pc \in {"stopped", "panicked"}
    /\ End("stopped")
    /\ UNCHANGED <<hostVars, health, downFor, docker, cm, faults>>

\* A second signal, a panic or the OOM killer.
Crash ==
    /\ proc \notin {"down", "stopped"} /\ Fault
    /\ End("down")
    /\ UNCHANGED <<hostVars, health, downFor, docker, cm>>

\* The host goes down: what was not synced is lost, a renamed file torn.
HostCrash ==
    /\ Fault
    /\ End("down")
    /\ file' = IF file = "unsynced" THEN "torn" ELSE file
    /\ tmp' = IF tmp = "none" THEN "none" ELSE "empty"
    /\ UNCHANGED <<life, left, health, downFor, docker, cm>>
------------------------------------------------------------------------------
(* The environment.                                                        *)

Flap ==
    /\ Fault
    /\ \/ docker' \in {"up", "down", "broken"} \ {docker} /\ UNCHANGED cm
       \/ cm' = ~cm /\ UNCHANGED docker
    /\ UNCHANGED <<refresherVars, mon, preflightVars, proc>>

Provider ==
    /\ (GoDown /\ Fault) \/ (Recovers /\ UNCHANGED faults)
    /\ UNCHANGED <<monitorVars, preflightVars, proc, cm>>

Clock ==
    /\ Tick(ctxDone)
    /\ UNCHANGED <<monitorVars, preflightVars, proc, cm, faults>>
------------------------------------------------------------------------------
Main == FirstMintDone \/ FirstMintFails \/ FirstRunPanics \/ Serve \/ MonitorCancel \/ Drained

Next ==
    \/ Boot \/ Main \/ Refresh \/ Monitor \/ MonitorExit \/ RunPreflight \/ Panics
    \/ StartDraining \/ Crash \/ HostCrash
    \/ Flap \/ Provider \/ Clock

Spec == Init /\ [][Next]_vars

\* main, the goroutines and their tickers run, and systemd restarts a runner
\* that failed.  dockerd, ContextMatrix and the token provider owe us nothing,
\* and nobody has to stop the runner.
Fairness ==
    /\ WF_vars(proc = "down" /\ Boot) /\ WF_vars(Main)
    /\ WF_vars(Refresh) /\ WF_vars(Monitor) /\ WF_vars(MonitorExit) /\ WF_vars(RunPreflight)

FairSpec == Spec /\ Fairness
------------------------------------------------------------------------------
\* Containers never read half a secrets file, and the listener never opens
\* without one, wherever a crash of the process or of the host hits the
\* refresher, and although its temporary file is left behind.
SecretsAreWhole ==
    /\ file # "torn"
    /\ proc \in {"preflight", "serving"} => file # "none"

\* A runner that serves has a token in the file that is still valid, also across
\* an outage, as long as that ends MaxBackoff before the buffer does, and also
\* when tokens expire within the buffer and the loop backs off from minting.
TokenNeverLapses ==
    (/\ proc \in {"preflight", "serving"} /\ ref.pc # "panicked"
     /\ life = Lifetime \/ health = "up")
        => left > 0

\* With dockerd failing for good, by errors, panics or a mix, the monitor ends
\* the process time and again, although it is respawned after its own panics.
DeadDockerRestarts == <>[](docker # "up" /\ proc # "stopped") => []<>(proc = "down")

DepsUp == docker = "up" /\ cm /\ health # "down"

\* Once the dependencies stay up the runner becomes ready and stays so, without
\* a restart by hand, unless it was stopped or the retry loop has panicked.
BecomesReady ==
    <>[]DepsUp => <>[](Ready \/ pre.pc = "panicked" \/ proc = "stopped")

\* A shutdown is over without its deadlines: the cancelled context reaches the
\* refresher wherever it sleeps or backs off, and manager.Wait returns.
ShutdownDrains == proc = "draining" ~> proc \in {"stopped", "down"}
==============================================================================

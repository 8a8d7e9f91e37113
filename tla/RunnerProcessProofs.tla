------------------------ MODULE RunnerProcessProofs -------------------------
(***************************************************************************)
(* The secrets file is whole and its token valid, for every lifetime,      *)
(* buffer and backoff that RefresherAssumption allows, any number of       *)
(* faults and any behaviour of dockerd and ContextMatrix.                  *)
(*                                                                         *)
(* Whole needs only that a rename finds a synced temporary file.  That a   *)
(* token never lapses needs an account of the time the loop may lose: what *)
(* is left covers the sleep and the buffer while nothing has failed; the   *)
(* buffer less the outage so far while the provider is down; and, once it  *)
(* has recovered, what still has to be slept before the mint that succeeds.*)
(***************************************************************************)
EXTENDS RunnerProcess, TLAPS

Up == proc \in {"preflight", "serving"}

\* The monitor ends the process before it counts past its limit.
MonitorInv == mon.pc \in {"idle", "ping"} => mon.failures < FailureLimit

WholeInv ==
    /\ ref.pc = "rename" => tmp = "synced"
    /\ file \in {"none", "whole"}
    /\ Up => file = "whole"

\* A live refresher has a token in hand when it writes, and one in the file.
LiveInv ==
    /\ ref.pc \in Writing => ref.minted # 0
    /\ health = "up" => downFor = 0
    /\ Up => life # 0 /\ ref.pc \in Working \cup {"sleep", "panicked"}

\* What is left of a token of full lifetime.
Covered ==
    /\ health = "up" => left >= Buffer + ref.wait
    /\ health = "down" => /\ left + downFor >= Buffer
                          /\ ref.wait <= MaxBackoff \/ left >= Buffer + ref.wait
    /\ health = "recovered" => left + MaxOutage + MaxBackoff >= Buffer + ref.wait

LifeInv ==
    Up /\ ref.pc # "panicked" =>
        /\ life = Lifetime => Covered
        /\ life = ShortLife /\ health = "up" => left > ref.wait

Inv == TypeOK /\ MonitorInv /\ WholeInv /\ LiveInv /\ LifeInv
------------------------------------------------------------------------------
(* Types.                                                                  *)

USE DEF Up, ctxDone, Writing, Working, hostVars, refresherVars, monitorVars, preflightVars,
        Goto, Procs

\* The durations the loop sleeps are positive and below the lifetime it minds.
LEMMA Durations ==
    ASSUME NEW n \in 0..MaxStreak, NEW b \in 1..MaxBackoff
    PROVE  /\ ClampBackoff(n) \in 1..ClampCeiling
           /\ NextBackoff(b) \in 1..MaxBackoff
           /\ NextWake(ShortLife) = 1 /\ Clamped(ShortLife)
           /\ NextWake(Lifetime) = Lifetime - Buffer /\ ~Clamped(Lifetime)
           /\ Lifetime - Buffer \in 1..Lifetime
           /\ 1..ClampCeiling \subseteq 1..(ShortLife - 1)
           /\ 1..ClampCeiling \subseteq 0..Lifetime /\ 1..MaxBackoff \subseteq 0..Lifetime
           /\ ShortLife \in Nat \ {0} /\ Lifetime \in Nat \ {0} /\ Buffer \in Nat \ {0}
           /\ ShortLife < Lifetime
<1>1. ASSUME n > ClampThreshold PROVE 2^(n - ClampThreshold - 1) \in Nat \ {0}
  <2>1. n - ClampThreshold - 1 \in 0..MaxStreak
    BY <1>1, RefresherAssumption
  <2> QED
    BY <2>1, PowersAssumption
<1>2. ClampBackoff(n) \in 1..ClampCeiling
  BY <1>1, RefresherAssumption DEF ClampBackoff, Capped
<1>3. NextBackoff(b) \in 1..MaxBackoff
  BY RefresherAssumption DEF NextBackoff, Capped
<1> QED
  BY <1>2, <1>3, RefresherAssumption DEF NextWake, Clamped

\* How long the loop sleeps after a success.
LEMMA ScheduleEffect ==
    ASSUME RefresherTypeOK, NEW e \in {Lifetime, ShortLife}, Schedule(e)
    PROVE  /\ ref'.pc = "sleep" /\ ref'.minted = 0 /\ ref'.backoff = 1
           /\ ref'.streak \in 0..MaxStreak
           /\ ref'.wait \in 0..Lifetime
           /\ e = Lifetime => ref'.wait = Lifetime - Buffer
           /\ e = ShortLife => ref'.wait < ShortLife
<1> DEFINE streak == IF Clamped(e) THEN Capped(ref.streak + 1, MaxStreak) ELSE 0
           wait == IF streak > ClampThreshold THEN ClampBackoff(streak) ELSE NextWake(e)
<1>1. ref' = [pc |-> "sleep", minted |-> 0, backoff |-> 1, streak |-> streak, wait |-> wait]
  BY DEF Schedule
<1>2. streak \in 0..MaxStreak
  BY RefresherAssumption DEF RefresherTypeOK, Capped
<1>3. MaxBackoff \in 1..MaxBackoff
  BY RefresherAssumption
<1> HIDE DEF streak
<1>4. ClampBackoff(streak) \in 1..ClampCeiling
  BY <1>2, <1>3, Durations
<1>5. e = ShortLife => wait \in 1..(ShortLife - 1) /\ wait \in 0..Lifetime
  BY <1>2, <1>3, <1>4, Durations, RefresherAssumption
<1>6. e = Lifetime => streak = 0
  BY <1>2, <1>3, Durations DEF streak
<1>7. e = Lifetime => wait = Lifetime - Buffer /\ wait \in 0..Lifetime
  BY <1>2, <1>3, <1>6, Durations, RefresherAssumption
<1> QED
  BY <1>1, <1>2, <1>5, <1>7, RefresherAssumption

\* How long it sleeps after an error.
LEMMA PostponeEffect ==
    ASSUME RefresherTypeOK, Postpone
    PROVE  /\ ref'.pc = "sleep" /\ ref'.minted = 0
           /\ ref'.backoff \in 1..MaxBackoff /\ ref'.streak = ref.streak
           /\ ref'.wait = ref.backoff /\ ref'.wait \in 1..MaxBackoff
           /\ ref'.wait \in 0..Lifetime
           /\ ref' = [pc |-> "sleep", minted |-> 0, wait |-> ref.backoff,
                      backoff |-> NextBackoff(ref.backoff), streak |-> ref.streak]
<1>1. ref.backoff \in 1..MaxBackoff /\ 0 \in 0..MaxStreak
  BY RefresherAssumption DEF RefresherTypeOK
<1>2. NextBackoff(ref.backoff) \in 1..MaxBackoff /\ 1..MaxBackoff \subseteq 0..Lifetime
  BY <1>1, Durations
<1> QED
  BY <1>1, <1>2 DEF Postpone, RefresherTypeOK

RefRecord == [pc : Working \cup {"off", "sleep", "stopped", "panicked"},
              minted : {0, Lifetime, ShortLife}, wait : 0..Lifetime,
              backoff : 1..MaxBackoff, streak : 0..MaxStreak]

\* A step of the loop that only moves it.
LEMMA GotoType ==
    ASSUME RefresherTypeOK, NEW l \in Working \cup {"sleep", "stopped", "panicked"}, Goto(l)
    PROVE  /\ ref' \in RefRecord /\ ref'.pc = l
           /\ ref'.minted = ref.minted /\ ref'.wait = ref.wait
BY DEF RefresherTypeOK, RefRecord

\* main and the loop start from a mint, and end with the process.
LEMMA RefStarts ==
    /\ RefMint \in RefRecord /\ RefOff \in RefRecord
    /\ RefMint.pc = "mint" /\ RefMint.wait = 0 /\ RefMint.minted = 0
    /\ RefOff.pc = "off"
BY RefresherAssumption DEF RefMint, RefOff, RefRecord

\* The temporary file goes into place with the token that was minted.
LEMMA RenameEffect ==
    ASSUME RefresherTypeOK, LiveInv, WholeInv, Rename
    PROVE  /\ file' = "whole" /\ tmp' = "none"
           /\ ref.minted \in {Lifetime, ShortLife}
           /\ life' = ref.minted /\ left' = ref.minted
           /\ life' \in Nat \ {0} /\ left' \in 0..life'
           /\ health = "down" => health' = "down" /\ downFor' = downFor
           /\ health # "down" => health' = "up" /\ downFor' = 0
           /\ downFor' \in 0..MaxOutage
<1>1. ref.minted \in {Lifetime, ShortLife} /\ tmp = "synced"
  BY DEF Rename, RefresherTypeOK, LiveInv, WholeInv
<1>2. Lifetime \in Nat \ {0} /\ ShortLife \in Nat \ {0}
  BY RefresherAssumption
<1> QED
  BY <1>1, <1>2, RefresherAssumption DEF Rename, RefresherTypeOK

\* Every step of the refresher keeps the types of its state.
LEMMA RefreshTypes ==
    ASSUME RefresherTypeOK, LiveInv, WholeInv, NEW d \in BOOLEAN,
           RefresherStep(d) \/ RefresherPanics
    PROVE  RefresherTypeOK'
<1> USE DEF RefRecord
<1>1. CASE MintFresh
  BY <1>1 DEF MintFresh, RefresherTypeOK
<1>2. CASE MintFails(d)
  <2>1. ref' \in RefRecord
    BY <1>2, PostponeEffect DEF MintFails, RefresherTypeOK
  <2> QED
    BY <1>2, <2>1 DEF MintFails, RefresherTypeOK
<1>3. CASE Open \/ Write \/ Sync
  <2>1. ref' \in RefRecord
    BY <1>3, GotoType DEF Open, Write, Sync
  <2> QED
    BY <1>3, <2>1 DEF Open, Write, Sync, RefresherTypeOK
<1>4. CASE Refreshed
  <2>1. Rename /\ Schedule(ref.minted)
    BY <1>4 DEF Refreshed
  <2>2. ref.minted \in {Lifetime, ShortLife}
    BY <2>1, RenameEffect
  <2>3. ref' \in RefRecord
    <3>1. ref'.backoff \in 1..MaxBackoff
      BY <2>1, <2>2, ScheduleEffect, RefresherAssumption
    <3> QED
      BY <2>1, <2>2, <3>1, ScheduleEffect DEF Schedule
  <2> QED
    BY <2>1, <2>3, RenameEffect DEF RefresherTypeOK
<1>5. CASE WriteFails
  <2>1. ref' \in RefRecord
    BY <1>5, PostponeEffect DEF WriteFails, RefresherTypeOK
  <2> QED
    BY <1>5, <2>1 DEF WriteFails, RefresherTypeOK
<1>6. CASE Wake \/ SleepCanceled(d) \/ RefresherPanics
  <2>1. ref' \in RefRecord
    BY <1>6, GotoType DEF Wake, SleepCanceled, RefresherPanics
  <2> QED
    BY <1>6, <2>1 DEF Wake, SleepCanceled, RefresherPanics, RefresherTypeOK
<1> QED
  BY <1>1, <1>2, <1>3, <1>4, <1>5, <1>6 DEF RefresherStep

\* A step of the clock takes one from what is left and from the sleep.
LEMMA TickEffect ==
    ASSUME RefresherTypeOK, NEW d \in BOOLEAN, Tick(d)
    PROVE  /\ RefresherTypeOK'
           /\ ref'.pc = ref.pc /\ ref.pc \notin Working /\ ref'.minted = ref.minted
           /\ ref'.wait = (IF ref.wait > 0 THEN ref.wait - 1 ELSE 0)
           /\ left' = IF left > 0 THEN left - 1 ELSE 0
<1>1. ref' \in RefRecord
  BY RefresherAssumption DEF Tick, RefresherTypeOK, RefRecord
<1> QED
  BY <1>1, RefresherAssumption DEF Tick, RefresherTypeOK, RefRecord

LEMMA ProviderTypes ==
    ASSUME RefresherTypeOK, GoDown \/ Recovers
    PROVE  RefresherTypeOK'
BY DEF RefresherTypeOK, GoDown, Recovers

\* The monitor counts up to its limit, and no step of its own passes it.
LEMMA MonitorTypes ==
    ASSUME MonitorTypeOK, MonitorInv, NEW d \in BOOLEAN, MonitorStep(d) \/ MonitorPanics
    PROVE  MonitorTypeOK' /\ MonitorInv'
<1> USE MonitorAssumption DEF MonitorTypeOK, MonitorInv
<1>1. CASE MonitorTick \/ MonitorStops(d) \/ PingOK \/ Respawn \/ MonitorPanics
  BY <1>1 DEF MonitorTick, MonitorStops, PingOK, Respawn, MonitorPanics, MonIdle
<1>2. ASSUME Strike, mon.pc = "ping", UNCHANGED docker PROVE MonitorTypeOK' /\ MonitorInv'
  BY <1>2 DEF Strike
<1>3. CASE PingFails(d)
  BY <1>2, <1>3 DEF PingFails
<1>4. CASE PingPanics
  BY <1>2, <1>4 DEF PingPanics
<1> QED
  BY <1>1, <1>3, <1>4 DEF MonitorStep

PreRecord == [pc : {"off", "first", "wait", "retry", "passed", "stopped", "panicked"},
              next : 1..(Probes + 1), ok : BOOLEAN]

LEMMA PreRunType ==
    /\ PreRun("first") \in PreRecord /\ PreRun("retry") \in PreRecord /\ PreOff \in PreRecord
<1>1. 1 \in 1..(Probes + 1)
  BY DEF Probes
<1> QED
  BY <1>1, Zenon DEF PreRecord, PreRun, PreOff

\* The retry loop between two runs.
LEMMA PreOffType ==
    ASSUME NEW l \in {"off", "wait", "passed", "stopped", "panicked"}
    PROVE  [PreOff EXCEPT !.pc = l] \in PreRecord
BY PreRunType, Zenon DEF PreRecord

LEMMA PreflightTypes ==
    ASSUME PreflightTypeOK, NEW d \in BOOLEAN, NEW up \in BOOLEAN,
           Probe(up) \/ RetryPanics \/ RunEnds \/ RetryTick \/ RetryStops(d)
    PROVE  PreflightTypeOK'
<1>1. CASE Probe(up)
  <2>1. pre \in PreRecord
    BY Zenon DEF PreflightTypeOK, PreRecord
  <2>2. pre' = [pc |-> pre.pc, next |-> pre.next + 1, ok |-> (pre.ok /\ up)]
    BY <1>1, <2>1, Zenon DEF Probe, PreRecord
  <2>3. pre.next + 1 \in 1..(Probes + 1)
    <3>1. pre.next \in 1..(Probes + 1) /\ pre.next <= Probes
      BY <1>1, <2>1, Zenon DEF Probe, PreRecord
    <3> QED
      BY <3>1 DEF Probes
  <2>4. pre' \in PreRecord
    BY <2>1, <2>2, <2>3, Zenon DEF PreRecord
  <2> QED
    BY <1>1, <2>4, Zenon DEF Probe, PreflightTypeOK, PreRecord
<1>2. CASE RunEnds
  <2>1. pre' \in PreRecord
    BY <1>2, PreOffType, Zenon DEF RunEnds
  <2>2. passed' \in BOOLEAN
    BY <1>2, Zenon DEF RunEnds
  <2> QED
    BY <1>2, <2>1, <2>2, Zenon DEF RunEnds, PreflightTypeOK, PreRecord
<1>3. CASE RetryPanics \/ RetryTick \/ RetryStops(d)
  <2>1. pre' \in PreRecord
    BY <1>3, PreOffType, PreRunType, Zenon DEF RetryPanics, RetryTick, RetryStops
  <2> QED
    BY <1>3, <2>1, Zenon DEF RetryPanics, RetryTick, RetryStops, PreflightTypeOK, PreRecord
<1> QED
  BY <1>1, <1>2, <1>3
------------------------------------------------------------------------------
(* The kinds of step, as the refresher sees them.                          *)

Aside == UNCHANGED refresherVars /\ (Up' => Up)

\* The process ends or begins: the file stays, unless the host tears it.
Rest ==
    /\ ref' \in {RefOff, RefMint} /\ ~Up'
    /\ UNCHANGED <<life, left, health, downFor>>
    /\ file' = file \/ (file = "unsynced" /\ file' = "torn")
    /\ tmp' \in {tmp, "none", "empty"}

Turn == UNCHANGED proc /\ (RefresherStep(ctxDone) \/ RefresherPanics)
Outside == UNCHANGED proc /\ (GoDown \/ Recovers \/ Tick(ctxDone))

LEMMA StepKinds ==
    ASSUME [Next]_vars
    PROVE  Aside \/ Rest \/ FirstMintDone \/ Turn \/ Outside
<1>1. CASE UNCHANGED vars
  BY <1>1 DEF vars, Aside
<1>2. CASE Boot
  BY <1>2 DEF Boot, Rest
<1>3. CASE FirstMintFails \/ FirstRunPanics \/ Drained \/ MonitorExit \/ Crash \/ HostCrash
  <2>1. ref' = RefOff /\ ~Up'
    BY <1>3 DEF FirstMintFails, FirstRunPanics, Drained, MonitorExit, Crash, HostCrash, End
  <2>2. UNCHANGED <<life, left, health, downFor>>
    BY <1>3 DEF FirstMintFails, FirstRunPanics, Drained, MonitorExit, Crash, HostCrash
  <2>3. /\ file' = file \/ (file = "unsynced" /\ file' = "torn")
        /\ tmp' \in {tmp, "none", "empty"}
    BY <1>3 DEF FirstMintFails, FirstRunPanics, Drained, MonitorExit, Crash, HostCrash
  <2> QED
    BY <2>1, <2>2, <2>3 DEF Rest
<1>4. CASE Serve \/ MonitorCancel \/ StartDraining
  BY <1>4 DEF Serve, MonitorCancel, StartDraining, Aside
<1>5. CASE Monitor \/ RunPreflight \/ Flap
  BY <1>5 DEF Monitor, RunPreflight, Flap, Aside
<1>6. CASE Refresh
  BY <1>6 DEF Refresh, Turn, RefresherStep
<1>7. CASE Panics
  BY <1>7 DEF Panics, Turn, Aside
<1>8. CASE Provider \/ Clock
  BY <1>8 DEF Provider, Clock, Outside
<1> QED
  BY <1>1, <1>2, <1>3, <1>4, <1>5, <1>6, <1>7, <1>8 DEF Next, Main

\* Types, and the count of the monitor.
LEMMA TypeStep ==
    ASSUME Inv, [Next]_vars
    PROVE  TypeOK' /\ MonitorInv'
<1> USE DEF Inv
<1>1. RefresherTypeOK'
  <2>1. CASE Aside
    BY <2>1 DEF Aside, TypeOK, RefresherTypeOK
  <2>2. CASE Rest
    <3>1. ref' \in RefRecord
      BY <2>2, RefStarts DEF Rest
    <3> QED
      BY <2>2, <3>1 DEF Rest, TypeOK, RefresherTypeOK, RefRecord
  <2>3. CASE FirstMintDone
    <3>1. ref' \in RefRecord /\ Rename
      BY <2>3, RefStarts DEF FirstMintDone
    <3> QED
      BY <3>1, RenameEffect DEF TypeOK, RefresherTypeOK, RefRecord
  <2>4. CASE Turn
    BY <2>4, RefreshTypes DEF Turn, TypeOK
  <2>5. CASE Outside
    BY <2>5, TickEffect, ProviderTypes DEF Outside, TypeOK
  <2> QED
    BY <2>1, <2>2, <2>3, <2>4, <2>5, StepKinds
<1>2. ASSUME End("down") \/ End("stopped"), UNCHANGED docker
      PROVE  MonitorTypeOK' /\ MonitorInv' /\ PreflightTypeOK'
  <2>1. MonitorTypeOK' /\ MonitorInv'
    BY <1>2, MonitorAssumption DEF End, TypeOK, MonitorTypeOK, MonitorInv, MonOff
  <2>2. pre' \in PreRecord /\ passed' \in BOOLEAN /\ draining' \in BOOLEAN
    BY <1>2, PreRunType, Zenon DEF End
  <2> QED
    BY <2>1, <2>2, Zenon DEF PreflightTypeOK, PreRecord
<1>3. MonitorTypeOK' /\ MonitorInv'
  <2>1. CASE UNCHANGED monitorVars
    BY <2>1 DEF TypeOK, MonitorTypeOK, MonitorInv
  <2>2. CASE Serve
    BY <2>2, MonitorAssumption DEF Serve, TypeOK, MonitorTypeOK, MonitorInv, MonIdle
  <2>3. CASE Flap
    BY <2>3 DEF Flap, TypeOK, MonitorTypeOK, MonitorInv
  <2>4. CASE MonitorStep(ctxDone) \/ MonitorPanics
    BY <2>4, MonitorTypes DEF TypeOK
  <2> QED
    BY <1>2, <2>1, <2>2, <2>3, <2>4
    DEF Next, Main, Boot, FirstMintDone, FirstMintFails, FirstRunPanics, MonitorCancel,
        Drained, Refresh, Monitor, MonitorExit, RunPreflight, Panics, StartDraining, Crash,
        HostCrash, Provider, Clock, vars
<1>4. PreflightTypeOK'
  <2>1. CASE UNCHANGED preflightVars
    BY <2>1, Zenon DEF TypeOK, PreflightTypeOK, preflightVars
  <2>2. CASE FirstMintDone
    <3>1. pre' \in PreRecord
      BY <2>2, PreRunType, Zenon DEF FirstMintDone
    <3> QED
      BY <2>2, <3>1, Zenon DEF FirstMintDone, TypeOK, PreflightTypeOK, PreRecord
  <2>3. CASE StartDraining
    BY <2>3, Zenon DEF StartDraining, TypeOK, PreflightTypeOK
  <2>4. CASE RunPreflight
    <3>1. (ProbeUp /\ ~ctxDone) \in BOOLEAN /\ ctxDone \in BOOLEAN /\ PreflightTypeOK
      BY Zenon DEF TypeOK
    <3>2. \/ Probe(ProbeUp /\ ~ctxDone) \/ RetryPanics \/ RunEnds
          \/ RetryTick \/ RetryStops(ctxDone)
      BY <2>4, Zenon DEF RunPreflight
    <3> QED
      BY <3>1, <3>2, PreflightTypes, Zenon
  <2> QED
    BY <1>2, <2>1, <2>2, <2>3, <2>4
    DEF Next, Main, Boot, FirstMintFails, FirstRunPanics, Serve, MonitorCancel,
        Drained, Refresh, Monitor, MonitorExit, Panics, Crash, HostCrash, Flap,
        Provider, Clock, vars
<1>5. proc' \in Procs /\ faults' \in 0..MaxFaults
  BY ProcessAssumption
  DEF Next, Main, Boot, FirstMintDone, FirstMintFails, FirstRunPanics, Serve, MonitorCancel,
      Drained, Refresh, Monitor, MonitorExit, RunPreflight, Panics, StartDraining, Crash,
      HostCrash, Flap, Provider, Clock, vars, TypeOK, End, Fault
<1>6. cm' \in BOOLEAN
  <2>1. UNCHANGED cm \/ cm' = ~cm
    BY DEF Next, Main, Boot, FirstMintDone, FirstMintFails, FirstRunPanics, Serve,
      MonitorCancel, Drained, Refresh, Monitor, MonitorExit, RunPreflight, Panics,
      StartDraining, Crash, HostCrash, Flap, Provider, Clock, vars
  <2> QED
    BY <2>1, Zenon DEF TypeOK
<1> QED
  BY <1>1, <1>3, <1>4, <1>5, <1>6, Zenon DEF TypeOK
------------------------------------------------------------------------------
(* The invariant.                                                          *)

LEMMA WholeStep ==
    ASSUME Inv, [Next]_vars
    PROVE  WholeInv'
<1> USE DEF Inv, WholeInv
<1>1. CASE Aside
  BY <1>1 DEF Aside
<1>2. CASE Rest
  BY <1>2, RefStarts DEF Rest
<1>3. CASE FirstMintDone
  BY <1>3, RenameEffect, RefStarts DEF FirstMintDone, TypeOK
<1>4. CASE Turn
  <2>1. CASE MintFresh \/ MintFails(ctxDone) \/ Wake \/ SleepCanceled(ctxDone) \/ RefresherPanics
    <3>1. ref'.pc # "rename" /\ UNCHANGED hostVars
      BY <2>1, PostponeEffect, GotoType
      DEF MintFresh, MintFails, Wake, SleepCanceled, RefresherPanics, TypeOK, RefresherTypeOK
    <3> QED
      BY <1>4, <3>1 DEF Turn
  <2>2. CASE Open \/ Write
    <3>1. ref'.pc # "rename" /\ UNCHANGED file
      BY <2>2, GotoType DEF Open, Write, TypeOK
    <3> QED
      BY <1>4, <3>1 DEF Turn
  <2>3. CASE Sync
    BY <1>4, <2>3 DEF Turn, Sync
  <2>4. CASE Refreshed
    <3>1. ref'.pc # "rename"
      BY <2>4 DEF Refreshed, Schedule
    <3>2. file' = "whole"
      BY <2>4, RenameEffect DEF Refreshed, TypeOK
    <3> QED
      BY <1>4, <3>1, <3>2 DEF Turn
  <2>5. CASE WriteFails
    <3>1. ref'.pc # "rename" /\ UNCHANGED file
      BY <2>5, PostponeEffect DEF WriteFails, TypeOK
    <3> QED
      BY <1>4, <3>1 DEF Turn
  <2> QED
    BY <1>4, <2>1, <2>2, <2>3, <2>4, <2>5 DEF Turn, RefresherStep
<1>5. CASE Outside
  <2>1. ref'.pc = ref.pc
    BY <1>5, TickEffect DEF Outside, GoDown, Recovers, TypeOK
  <2>2. UNCHANGED <<file, tmp, proc>>
    BY <1>5 DEF Outside, GoDown, Recovers, Tick
  <2> QED
    BY <2>1, <2>2
<1> QED
  BY <1>1, <1>2, <1>3, <1>4, <1>5, StepKinds

LEMMA LiveStep ==
    ASSUME Inv, [Next]_vars
    PROVE  LiveInv'
<1> USE DEF Inv, LiveInv
<1>1. CASE Aside
  BY <1>1 DEF Aside
<1>2. CASE Rest
  BY <1>2, RefStarts DEF Rest
<1>3. CASE FirstMintDone
  BY <1>3, RenameEffect, RefStarts DEF FirstMintDone, TypeOK
<1>4. CASE Turn
  <2>1. UNCHANGED proc
    BY <1>4 DEF Turn
  <2>2. CASE MintFresh
    <3>1. ref'.pc = "open" /\ ref'.minted # 0
      BY <2>2, RefresherAssumption DEF MintFresh, TypeOK, RefresherTypeOK
    <3> QED
      BY <2>1, <2>2, <3>1 DEF MintFresh
  <2>3. CASE MintFails(ctxDone) \/ WriteFails
    <3>1. ref'.pc = "sleep" /\ UNCHANGED <<life, health, downFor>>
      BY <2>3, PostponeEffect DEF MintFails, WriteFails, TypeOK
    <3> QED
      BY <2>1, <3>1
  <2>4. CASE Open \/ Write \/ Sync
    <3>1. ref'.pc \in Writing /\ ref'.minted = ref.minted /\ ref.pc \in Writing
      BY <2>4, GotoType DEF Open, Write, Sync, TypeOK
    <3> QED
      BY <2>1, <2>4, <3>1 DEF Open, Write, Sync
  <2>5. CASE Refreshed
    <3>1. ref'.pc = "sleep"
      BY <2>5 DEF Refreshed, Schedule
    <3> QED
      BY <2>1, <2>5, <3>1, RenameEffect DEF Refreshed, TypeOK
  <2>6. CASE Wake \/ RefresherPanics
    <3>1. ref'.pc \in {"mint", "panicked"}
      BY <2>6, GotoType DEF Wake, RefresherPanics, TypeOK
    <3> QED
      BY <2>1, <2>6, <3>1 DEF Wake, RefresherPanics
  <2>7. CASE SleepCanceled(ctxDone)
    <3>1. ref'.pc = "stopped" /\ ~Up
      BY <2>7, GotoType DEF SleepCanceled, TypeOK
    <3> QED
      BY <2>1, <2>7, <3>1 DEF SleepCanceled
  <2> QED
    BY <1>4, <2>2, <2>3, <2>4, <2>5, <2>6, <2>7 DEF Turn, RefresherStep
<1>5. CASE Outside
  <2>1. CASE GoDown \/ Recovers
    BY <1>5, <2>1 DEF Outside, GoDown, Recovers
  <2>2. CASE Tick(ctxDone)
    <3>1. ref'.pc = ref.pc /\ ref'.minted = ref.minted
      BY <2>2, TickEffect DEF TypeOK
    <3> QED
      BY <1>5, <2>2, <3>1 DEF Outside, Tick
  <2> QED
    BY <1>5, <2>1, <2>2 DEF Outside
<1> QED
  BY <1>1, <1>2, <1>3, <1>4, <1>5, StepKinds

\* The account of the time that is left.
LEMMA LifeStep ==
    ASSUME Inv, [Next]_vars
    PROVE  LifeInv'
<1> USE DEF Inv
<1> SUFFICES ASSUME Up', ref'.pc # "panicked"
             PROVE  /\ life' = Lifetime => Covered'
                    /\ life' = ShortLife /\ health' = "up" => left' > ref'.wait
  BY DEF LifeInv
<1>a. /\ RefresherTypeOK /\ left \in Nat /\ downFor \in 0..MaxOutage /\ ref.wait \in Nat
      /\ ref.backoff \in 1..MaxBackoff /\ life \in Nat
  BY RefresherAssumption DEF TypeOK, RefresherTypeOK
<1> USE RefresherAssumption
<1>1. CASE Aside
  BY <1>1 DEF Aside, LifeInv, Covered
<1>2. CASE Rest
  BY <1>2 DEF Rest
\* A new token leaves its whole lifetime, also when the provider has gone down
\* since it was minted.
<1>3. ASSUME Rename, ref'.wait \in Nat,
             ref.minted = Lifetime => ref'.wait <= Lifetime - Buffer,
             ref.minted = ShortLife => ref'.wait < ShortLife
      PROVE  /\ life' = Lifetime => Covered'
             /\ life' = ShortLife /\ health' = "up" => left' > ref'.wait
  <2>1. /\ life' = ref.minted /\ left' = ref.minted /\ downFor' \in 0..MaxOutage
        /\ ref.minted \in {Lifetime, ShortLife} /\ health' \in {"up", "down"}
    BY <1>3, RenameEffect DEF TypeOK, RefresherTypeOK
  <2> QED
    BY <1>3, <2>1 DEF Covered
<1>4. CASE FirstMintDone
  <2>1. ref'.wait = 0 /\ Rename
    BY <1>4, RefStarts DEF FirstMintDone
  <2> QED
    BY <1>3, <2>1
<1>5. CASE Turn
  <2>1. Up /\ ~ctxDone
    BY <1>5 DEF Turn
  <2>2. CASE MintFresh \/ Open \/ Write \/ Sync \/ Wake
    <3>1. ref'.wait = ref.wait /\ ref.pc # "panicked" /\ UNCHANGED <<life, left, health, downFor>>
      BY <2>2, GotoType
      DEF MintFresh, Open, Write, Sync, Wake, TypeOK, RefresherTypeOK
    <3> QED
      BY <2>1, <3>1 DEF LifeInv, Covered
  \* Only an outage postpones, and by no more than MaxBackoff.
  <2>3. CASE MintFails(ctxDone) \/ WriteFails
    <3>1. /\ health = "down" /\ ref.pc # "panicked" /\ UNCHANGED <<life, left, health, downFor>>
          /\ ref'.wait \in 1..MaxBackoff
      BY <2>1, <2>3, PostponeEffect DEF MintFails, WriteFails, TypeOK
    <3> QED
      BY <2>1, <3>1 DEF LifeInv, Covered
  <2>4. CASE Refreshed
    <3>1. Rename /\ Schedule(ref.minted) /\ ref.minted \in {Lifetime, ShortLife}
      BY <2>4, RenameEffect DEF Refreshed, TypeOK
    <3> QED
      BY <1>3, <1>a, <3>1, ScheduleEffect
  <2>5. CASE SleepCanceled(ctxDone) \/ RefresherPanics
    BY <2>1, <2>5, GotoType DEF SleepCanceled, RefresherPanics, TypeOK
  <2> QED
    BY <1>5, <2>2, <2>3, <2>4, <2>5 DEF Turn, RefresherStep
<1>6. CASE Outside
  <2>1. CASE GoDown
    BY <1>6, <1>a, <2>1 DEF Outside, GoDown, LifeInv, Covered, LiveInv
  <2>2. CASE Recovers
    BY <1>6, <1>a, <2>2 DEF Outside, Recovers, LifeInv, Covered
  <2>3. CASE Tick(ctxDone)
    <3>1. /\ Up /\ ref.pc = "sleep" /\ ref.wait > 0
          /\ ref'.wait = ref.wait - 1 /\ UNCHANGED <<life, health>>
          /\ left' = IF left > 0 THEN left - 1 ELSE 0
          /\ downFor' = IF health = "down" THEN downFor + 1 ELSE downFor
      BY <1>6, <1>a, <2>3, TickEffect DEF Outside, Tick, LiveInv
    <3> QED
      BY <1>a, <3>1 DEF LifeInv, Covered
  <2> QED
    BY <1>6, <2>1, <2>2, <2>3 DEF Outside
<1> QED
  BY <1>1, <1>2, <1>4, <1>5, <1>6, StepKinds

LEMMA InitInv == Init => Inv
<1> SUFFICES ASSUME Init PROVE Inv
  OBVIOUS
<1>1. RefresherTypeOK
  BY RefStarts, RefresherAssumption DEF Init, RefresherInit, RefresherTypeOK, RefRecord
<1>2. MonitorTypeOK /\ MonitorInv
  BY MonitorAssumption DEF Init, MonitorInit, MonitorTypeOK, MonitorInv, MonOff
<1>3. PreflightTypeOK
  BY PreRunType, Zenon DEF Init, PreflightInit, PreflightTypeOK, PreRecord
<1>4. faults \in 0..MaxFaults
  BY ProcessAssumption DEF Init
<1>5. TypeOK
  BY <1>1, <1>2, <1>3, <1>4, Zenon DEF Init, TypeOK
<1>6. WholeInv /\ LiveInv /\ LifeInv
  BY RefStarts DEF Init, RefresherInit, WholeInv, LiveInv, LifeInv, RefOff
<1> QED
  BY <1>2, <1>5, <1>6 DEF Inv

\* The invariant is inductive: types, the monitor's count, a synced file before
\* every rename, and the account of the time left.
THEOREM Invariance == Spec => []Inv
<1>1. Inv /\ [Next]_vars => Inv'
  BY TypeStep, WholeStep, LiveStep, LifeStep DEF Inv
<1> QED
  BY <1>1, InitInv, PTL DEF Spec

\* No crash of the process or the host, at whatever system call of
\* writeSecretsFileAtomic, leaves half a secrets file, and the runner does not
\* serve without one.
THEOREM SecretsStayWhole == Spec => []SecretsAreWhole
<1>1. Inv => SecretsAreWhole
  BY DEF Inv, WholeInv, SecretsAreWhole
<1> QED
  BY <1>1, Invariance, PTL

\* While the runner serves and its refresher has not panicked, the token in the
\* file is valid: across any outage of up to MaxOutage, and with tokens that
\* expire within the buffer.
THEOREM TokensOutlive == Spec => []TokenNeverLapses
<1>1. ASSUME Inv PROVE TokenNeverLapses
  <2> SUFFICES ASSUME Up, ref.pc # "panicked", life = Lifetime \/ health = "up"
               PROVE  left > 0
    BY DEF TokenNeverLapses
  <2>1. /\ left \in Nat /\ ref.wait \in Nat /\ downFor \in 0..MaxOutage
        /\ life \in {Lifetime, ShortLife} /\ health \in {"up", "down", "recovered"}
    BY <1>1, RefresherAssumption DEF Inv, TypeOK, RefresherTypeOK, LiveInv
  <2>2. CASE life = Lifetime
    BY <1>1, <2>1, <2>2, RefresherAssumption DEF Inv, LifeInv, Covered
  <2>3. CASE life = ShortLife /\ health = "up"
    BY <1>1, <2>1, <2>3 DEF Inv, LifeInv
  <2> QED
    BY <2>1, <2>2, <2>3
<1> QED
  BY <1>1, Invariance, PTL
==============================================================================

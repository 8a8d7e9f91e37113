# A TLA+ model of contextmatrix-runner

contextmatrix-runner is a webhook server that runs agent containers for
ContextMatrix. It keeps an in-memory registry of what it runs, drives dockerd,
and reports back over HTTP. This directory holds TLA+ modules that model its
core, TLC configurations that check them on small instances, and TLAPS proofs
of the main results for every size. `PROJECT.json` lists the parts, the runs,
the mutants, the source lines behind every definition, the hazards, the
disagreements found and the theorems.

## 1. Inventory

| Component | State | Operations | Talks to |
|---|---|---|---|
| Container registry (`internal/tracker`) | map from `project/card_id` or `chat:session` to an entry (container id, CancelFunc, reason, attached stdin), one RWMutex; one mutex per stdin | AddIfUnderLimit, AddChatIfUnderLimit, UpdateContainerID, Cancel, CancelWithReason, Remove, RemoveChat, Has, Count, snapshots, SetStdin, WriteStdin, CloseStdin, MarkStdinClosed | called by everyone |
| Card lifecycle (`internal/container/manager.go`) | one goroutine per run, its context, an idle watchdog, a detached "running" callback | Run, startContainer, waitAndCleanup, panic recovery, Kill, ForceRemoveByLabels, CleanupOrphans, ForceKillContainer | registry, dockerd, callbacks, broadcaster |
| Chat sessions (`internal/webhook/chat.go`, `manager.go`) | resume directories, `chatCleanup` and `chatSecrets` maps, a cleanup goroutine per chat | /chat/start, /chat/end, KillChat, WaitAndCleanupChat, DeleteChatCleanup, SweepStaleChatResumeDirs | registry, dockerd, host files |
| Attached stdin (`tracker.go`, `manager.go`, `chat.go`) | hijacked connection, `stdin.mu`, writer, onClose | attach, prime under a deadline, write, close, close on removal | worker process |
| Webhooks (`internal/webhook/handler.go`) | drain flag | /trigger, /kill, /stop-all, /message, /promote, /end-session, /logs, /containers, /health, /readyz | registry, manager |
| Replay and dedup caches | signatures seen, acks by message id; TTL and capacity | add-if-absent, lookup, store, evict | webhooks |
| Log broadcaster (`internal/logbroadcast`) | subscribers with bounded buffers, drop counters | Publish, Subscribe, unsubscribe, Close | manager, /logs |
| Callbacks (`internal/callback`) | none of its own; attempts under way, contexts | ReportStatus, ReportSkillEngaged, VerifyAutonomous, each with retries | ContextMatrix |
| Process (`cmd/contextmatrix-runner`) | drain flag, `monitorCtx`, shutdown sequence | boot, boot sweep, maintenance loop, respawns, graceful shutdown | all |
| Secrets refresher (`internal/container/secrets_refresher.go`) | the file every container has mounted, backoff, clamp streak | mint, atomic rewrite, sleep | GitHub, host files |
| Dockerd monitor (`internal/container/health_monitor.go`) | a failure count | ping, `os.Exit` | dockerd, systemd |
| Preflight (`internal/preflight`, `internal/webhook/health.go`) | two flags behind /readyz | probe, retry | dockerd, GitHub, ContextMatrix |
| DNS cache | a TTL map | get, put | DNS |
| Log parser, config, validation, metrics, tracing | none that matters to the rest | pure transformations | |

Behaviours that are hard, and what correctness means there:

* **Card lifecycle.** A run can be ended by its worker's exit, a timeout, a
  kill, a stop-all, the watchdog, a panic, a shutdown or a crash, several of
  them at once, with Docker calls failing on the way. Every path must remove
  the entry exactly once and stop the container; the sweep must never take a
  live run for an orphan; ContextMatrix must hear one terminal status, after
  the container has stopped; the limit must hold for containers and not just
  for entries; after a restart nothing of the old process may run on.
* **Identity.** The registry is keyed by card or session while goroutines
  belong to a *launch*. Whoever looks up, waits, and then acts by key may hit
  a later launch of the same key.
* **Chats.** A chat is registered *after* its container runs, the opposite of
  a card, and has five ways out of its start. No slot, directory, handle or
  secret may leak on any.
* **Stdin.** A write blocks when the worker does not read, with `stdin.mu`
  held. Messages must not mix on the wire; nobody may wait for ever for that
  lock; every connection must be closed by somebody.
* **Messages.** A message arrives twice, retried by the client or duplicated by
  the network, one after the other or at once. The lookup, the write and the
  storing of the answer are three steps, and both caches forget, by age and by
  size. A message must not be written again while its answer is remembered,
  and only a written message may be acknowledged.
* **Logs.** Publish sends without the broadcaster's lock to channels that an
  unsubscribe closes. Nobody may send on a closed channel or wait for a slow
  reader; what is dropped must be counted and reported, also when the reporter
  panics and when the broadcaster is closed.
* **Callbacks.** An answer can be lost, late or refused, and the attempt is made
  again: with a signature ContextMatrix has not seen, within the caller's
  context, and without ever turning a failure into the answer /promote needs.
* **Process.** Four goroutines share a context, a token provider and dockerd.
  A crash may hit the rewrite of the secrets file; an outage must not outlast
  the token; a dead dockerd must end the process however it fails; a recovered
  dependency must make the runner ready; a shutdown must not wait for a sleeper.

## 2. Modules

| Module | Models | Kind |
|---|---|---|
| `Tracker` | the registry's map: each method is one atomic operator | component |
| `CardRuns` | a card's life from /trigger to removal, with webhooks, watchdog, callback, sweep, shutdown, crash and boot around `Tracker` | composition |
| `Stdin` | the stdin of one entry, its lock and all its users | component |
| `ChatSessions` | a chat's life, with its cleanup goroutine, /chat/end, KillChat, sweeps, shutdown, crash and boot around `Tracker` | composition |
| `LogBroadcast` | the broadcaster, its drop reporter and the /logs requests | component |
| `MessageDelivery` | /message through the signature cache and the acknowledgement cache, with their sweepers | component |
| `RunLifecycle` | what the runner promises ContextMatrix about a trigger it accepted | abstract specification |
| `CardRunsRefinement` | the mapping under which `CardRuns` implements `RunLifecycle` | refinement |
| `Callbacks` | the retry ladder, and /promote around it | component |
| `TokenRefresher`, `DockerdMonitor`, `Preflight` | the background goroutines | components |
| `RunnerProcess` | boot, `monitorCtx`, shutdown and crashes around the three | composition |
| `MCCardRuns`, `MCStdin`, `MCChatSessions`, `MCLogBroadcast`, `MCMessageDelivery`, `MCCallbacks`, `MCRunnerProcess` | instances for TLC, symmetry sets | model checking |
| `TrackerProofs` | what each method of the registry does, as lemmas | proofs |
| `CardRunsProofs`, `StdinProofs`, `ChatSessionsProofs`, `LogBroadcastProofs`, `MessageDeliveryProofs`, `CallbacksProofs`, `RunnerProcessProofs` | lemmas and theorems about the module of that name | proofs |

### Tracker and CardRuns

A *key* is a card or a session, an *owner* one launch of a container; the
owner also names its container. `entries` is the map, `ctx` the context of
each owner: it remembers whether the first to cancel it was entitled to (an
operator, shutdown, or the launch's own goroutines) or was another launch
("hijacked"). The gap between the lookup and the CancelFunc is closed, as
`Tracker`'s header explains.

In `CardRuns`, `pc[r]` is where Run's goroutine is between two calls that
others can observe: `start` (pull, secrets, create), `created`, `started`
(attach and prime), `publish` (UpdateContainerID, broadcaster, the running
callback), `wait`, `stop`, `report`, `untrack`, `remove`, and for a panic
`unwind`/`unwindrm` (waitAndCleanup's own defers) followed by `recover`,
`recuntrack`, `recreport` (Run's deferred recovery). `idOut` is whether
`*containerIDOut` was set, which decides what recovery can remove. `box[r]` is
dockerd's view and survives a crash. `handlers` are /kill (check, cancel,
force-remove by label) and /stop-all (snapshot, kill each). `sweep` is
CleanupOrphans: list, ask the registry one by one, remove one by one. `proc`
is main's shutdown sequence. `faulted` remembers on whose container a Docker
call failed, so that properties can say "unless Docker refused".

### RunLifecycle and CardRunsRefinement

`RunLifecycle` knows no containers, no Docker and no requests: a run is admitted
to a free slot within the limit, gives that slot back itself, and a terminal
status is told, in either order; the process may end and take every slot and
every run that has not settled with it. `Promise` adds that every admitted run
settles or is lost with the process. The mapping reads all of it off `CardRuns`:
`holder` is the registry's owners, `working` the runs before their own
`tracker.Remove` (a panicked run, as long as its recovery still finds its
entry), `heard` the runs with a terminal status among what was told, whoever
told it. A slot that somebody else frees, a second holder, a status for a run
that was never accepted, or a slot taken beyond the limit is a step
`RunLifecycle` does not have.

### Stdin

One entry of either mode. Threads: the starter (Run or /chat/start), the
priming writes, the writers (/message; /promote, which goes on to close), enders (/end-session, /chat/end,
KillChat), the cleaner, and the goroutine closeStdinAsync leaves behind. A
`Write` is either prompt or hung: hung, it returns only when the connection is
closed or the container stops. Closing the connection is assumed not to block.
The maintenance sweep appears as the fair removal of a running container
without an entry, since `CardRuns` and `ChatSessions` model it step by step.

### ChatSessions

`pc[l]` is the /chat/start handler, `cleaner[l]` its WaitAndCleanupChat
goroutine; `dir`, `stash` and `secrets` are the three things a start leaves on
the host or in the manager's maps. The registry's `ctx` serves as the record of
who removed an entry: `Remove(k, by)` by anyone but the entry's own launch
marks it hijacked. SweepStaleChatResumeDirs goes by age only; a start in
progress is taken to be younger than the hour it asks for.

Directories are removed by `RemoveChatResume`, which is taken to succeed; the
code logs a failure and leaves the rest to the sweep by age.

Cards and chats share one map and one limit in the code and are modelled each
on its own: neither looks at the other's entries, and an entry of the other
kind is like a smaller `MaxConcurrent`.

### LogBroadcast

`pub[p]` is one call of Publish at a time: the check of `closed`, the snapshot
of the subscribers, and per subscriber trySend (closeMu read-locked from the
check of `sub.closed` to the send), then the drop counter. `sub[s]` is a /logs
request; its unsubscribe leaves the map in one step and closes the channel in
another, when no publisher holds closeMu. The reporter ticks, stops after a
last flush, panics (the count it took is lost, `unlogged`), backs off and
respawns. `log` (the set of deliveries: which entry to which subscriber),
`attempts`, `reported` and `due` are history. Truncation of
long entries and the SSE format are left out. A new reader may pass a waiting
writer of closeMu, which Go forbids: the model allows more than the code.

### MessageDelivery

A signature is a message and the time of signing. Each cache is a sequence of
keys with times, oldest first, as the code's list is; the index is the set of
its keys. An entry counts as present up to and including an age of the TTL,
while the sweep removes it from that age on: the properties say "at least the
TTL", the weaker of the two. The write is one step that succeeds or fails, since
`Stdin` looks inside it. `Deliver` takes a timestamp that is at most `Skew` old
and at most `Ahead` in the future: the verifier is in a library outside this
repository, whose asymmetric window `handler_test.go:63` describes (30 seconds
ahead). Both TTLs and capacities are positive. `ackedAt`, `honouredAt`, `sigsOut`, `msgsOut`,
`written` and `acked` are history, kept apart from the caches they judge.

### Callbacks

`call[c]` is the goroutine of one call: `send`, `wait` (an attempt in flight),
`backoff`, `returned`. Time counts the seconds that are signed, and what is due
happens before the clock moves. A status callback has a context with a deadline
(callbackTimeout for terminal statuses and skills, runningStatusCallbackTimeout for
"running"); VerifyAutonomous runs under the /promote request, which ends when
its client hangs up. The http.Client's own timeout is a deadline error and so,
in `isClientError`, final: a ContextMatrix that hangs is not asked again.
ContextMatrix and the network are external: `wire` holds requests that may be
taken at any time, also after their sender gave up, or never; `Take` refuses a
signature it has seen, and otherwise answers as it likes. The deprecated Bearer
fallback of VerifyAutonomous (`client.go:359`), which sends no signature, is left
out: nothing is said of a request that carries none. Calls share nothing
but the clock, so one call at a time loses nothing, and two callers that sign
the same body in the same second are out of the model (see the disagreements).
`promoted` and `shown` are history.

### TokenRefresher, DockerdMonitor, Preflight and RunnerProcess

`ref` is the refresher, run by main for the first mint and by its goroutine
after it: mint and render, then the system calls of writeSecretsFileAtomic one
by one, then sleep. `file` and `tmp` are the two files as a container and a
host crash see them, `left` what the token in `file` has to live. The provider
mints a token on every call, some within the expiry buffer (`ShortLife`), which
makes the loop clamp and back off. A personal access token, which never expires
and whose file stays unchanged, is left out. Outages hit the provider and the
disk alike. Minting and writing take no time, sleeping does.

`mon` is the monitor with its failure count, `docker` how a ping ends: well,
with an error, or with a panic of the SDK, which the iteration recovers and
counts; a panic elsewhere in it reaches main's wrapper. `pre` is the first
preflight run, main's own, and then the retry loop; probes look at their
dependency one after the other, and one that panics ends the loop for good, or
main's run and the process with it.

`RunnerProcess` puts them under `proc`: the first mint has to succeed before
the first preflight run, that before the monitor and the listener; steps 1 to 3
and 5 of shutdown; a crash of the process or of the host at any point. What
shutdown does to containers is in `CardRuns`, so `Drained` waits for the
refresher alone.

## 3. Runs

| Run | Instance | Shows |
|---|---|---|
| `card_requests` | 2 cards, 2 launches, 1 request, limit 1, 1 Docker failure, sweep | the limit bounds *running containers*; no launch cancels another; one terminal status, after the stop; a run holds its entry until it removes it; the sweep spares live work; `CardRuns` implements `RunLifecycle` (`RunningWithinCap`, `OnlyOwnCancels`, `OneTerminalAfterStop`, `RunHoldsItsEntry`, `SweepSparesLiveWork`, `ImplementsLifecycle`) |
| `card_restart` | 1 launch, watchdog, 2 failures, 1 panic, 1 crash or shutdown | every entry has a goroutine that will remove it; a running container is tracked or excused; a boot starts clean; `RunLifecycle`'s promise is kept (every accepted run is reported and gives its slot back); every container is reaped (`TypeOK`, `EntryHasLiveRun`, `RunningIsTracked`, `BootClean`, `KeepsPromise`, `EveryContainerIsReaped`) |
| `card_watchdog` | 2 launches of a card | *violation*: the watchdog cancels a later run (`OnlyOwnCancels`) |
| `stdin_all` | both modes, chat lifetime on, 1 primer, 1 writer, 1 ender, 1 failure | no mixed frames, no stale writer, a reported close is final, nobody waits for ever, the connection is released (`FramesDontInterleave`, `WriterIsLive`, `ClosedMeansGone`, `PrimingReturns`, `RequestsAnswered`, `ConnReleased`) |
| `stdin_chat` | chat, lifetime off (the default) | *violation*: a hung priming write hangs /chat/start (`PrimingReturns`) |
| `chat_sessions` | 1 session, 2 starts, 1 ender, 1 failure | no slot and no leftovers leak on any way out (`EntryHasCleaner`, `NothingLeftBehind`) |
| `chat_reaping` | 1 start, 1 ender, 1 failure, 1 crash | the container of every session that is over, its slot and its directory are reclaimed (`EveryChatIsReaped`, `SlotIsFreed`, `DirsAreReclaimed`) |
| `log_broadcast` | 2 publishers of 2 entries, 1 subscriber, buffer 1, 1 panic | no send on a closed channel, every drop accounted for and reported, Close flushes, channels close (`NoSendOnClosed`, `NothingLostSilently`, `FlushedAtClose`, `ChannelCloses`, `DropsAreReported`) |
| `message_delivery` | 2 handlers, 3 deliveries, 3 messages (1 without an id), TTLs 1, clocks 1 ahead, capacities 1 and 2 | an acknowledged retry is not written again, an acknowledgement means written, a signature passes again only when the skew has passed, sweeps are complete (`AckedWasWritten`, `SweepIsComplete`, `RetryIsNotWritten`, `HonouredOnce`) |
| `message_window` | 1 message delivered twice, skew 2, clock 1 ahead | *violation*: a signature expires within its window and passes again (`NeverExpiresInWindow`) |
| `callbacks` | a call of each kind, 3 attempts, 17 seconds, timeouts 4, 4 and 12 | no retry repeats a signature; every call returns within its context or its worst case; a promotion means the flag was set during the request (`FreshSignatures`, `ReturnsInTime`, `PromotedWasAutonomous`) |
| `runner_process` | a token of 7 ticks, buffer 6, outages of 3, failure limit 2, any 2 faults | the secrets file is whole and there; the token never lapses; a dead dockerd restarts the runner; recovered dependencies make it ready; shutdown drains (`SecretsAreWhole`, `TokenNeverLapses`, `DeadDockerRestarts`, `BecomesReady`, `ShutdownDrains`) |

Bounds. Two launches of one key suffice for every identity hazard, since each
involves an old launch acting on a new one; two cards and a limit of one make
the limit bind. One Docker failure at any call reaches every error path; two
in `card_restart` reach a failing stop followed by a failing removal, the
longest chain in the code. One request is enough to meet every state of a run
at every point of its own. Three deliveries make two overlapping ones and a
later retry, or an eviction and a retry; a clock of three ticks passes each TTL
by one, and a client's clock ahead by one outlives a signature's entry. Two
publishers and a buffer of one fill a channel while another send is
under way. Three attempts are the code's number, and the timeouts keep its
proportions: callbackTimeout equals the request timeout, the "running" callback
has room for two hung attempts and their backoffs; the clock reaches past the
worst case of a verification (4 + 1 + 4 + 2 + 4). In `runner_process` the token
outlives an outage and a backoff by one tick, so that a backoff one tick longer
lets it lapse, and the clamp streak saturates one step after its ceiling. The
two faults are any two of outage, crash, signal, panic and change of a
dependency: enough for one that fails and recovers, for errors and panics of
dockerd in a row, or for a shutdown in the middle of an outage. MaxFaults, MaxPanics and MaxCrashes bound the
counters. Symmetry is used only in runs that check no liveness.

Fairness. Weak fairness for the goroutines, for the maintenance ticker, for a
shutdown that has begun and for the restart by systemd. Go's scheduler runs
them, and waits, pulls, stops, removals and callbacks have deadlines. Create,
start and attach of a card run on the run's context, and the Docker calls of
/chat/start on the request's, with no deadline of their own: that dockerd answers
them, or that the context ends, is an assumption. None for clients, for workers
(they need not read, nor exit), nor for failures. In `Stdin` timers fire: the
priming deadline and stdinCloseTimeout are steps of the fair thread. In
`LogBroadcast` the reporter's select, which picks any ready case, is strongly
fair to the closed channel; subscribers need not read. In `RunnerProcess`
dockerd, ContextMatrix, the token provider and the clock owe nothing: the
liveness properties say what happens when a dependency stays up or down.

Each property has a mutant in `PROJECT.json`, a change of one definition that
a plausible bug would make; TLC finds the property violated with it.

### Disagreements with the documentation

The three violation runs are behaviours of the code that a comment or the
documentation excludes; `PROJECT.json` "findings" quotes each line.

* Watchdog (`card_watchdog`): it acts by card key after its own run may have
  ended.
* Chat priming (`stdin_chat`): `CloseStdinChat` waits for the lock the hung
  write holds. Card mode closes the raw connection, and is fine.
* Replay window (`message_window`): `config.yaml.example:196` gives the window of
  timestamps and the TTL of signatures one value, "so a signature never expires
  while still within the window". The window is counted from the client's
  timestamp and the TTL from the runner's first sight. A timestamp that was ahead
  by d is therefore accepted for d longer than its signature is remembered.
  `NeverExpiresInWindow` leaves the last instant of the window aside, where the
  sweep (age of at least the TTL) and the lookup (at most) also differ.
  `HonouredOnce` is what does hold: never before the skew has passed since the
  first time, and so only in the last `Ahead` of the window.

Others are visible in the models without a run of their own.

* `manager.go:2745` says of WaitAndCleanupChat and /chat/end "every step is
  idempotent". `RemoveChat` by id is so only as long as the id is not reused in
  between: `CleanerRemove` may take the entry of a later session.
* `manager.go:2066` says tracked containers "are skipped". A chat is registered
  after its container exists, so a sweep that filters in between condemns it
  (`SweepFilter` before `AddChatIfUnderLimit`).
* /kill answers 500 when the run ends between its `Has` and its `Kill`
  (`KillCancel`), where the README calls it idempotent.
* Two deliveries of one message that overlap are both written (`Get` before the
  other's `Put`); `RetryIsNotWritten` says that nothing else is.
* When the reporter panics in or before the last flush, Close returns nil without
  having flushed (`Respawn`), so `FlushedAtClose` is stated for runs without a
  panic.
* `main.go:540` stops the monitor "so an in-flight Ping failure does not
  os.Exit(1) during shutdown". Step 2 may take ten seconds before that, and a
  recovered panic counts with the context done too (`PingPanics`):
  `ShutdownDrains` allows that end.
* `preflight.go:205` recovers so that a panic does not leave "/readyz pinned at
  503 until the runner is manually restarted". The recovered loop returns and
  nothing starts it again (`RetryPanics`), which is just that; `BecomesReady`
  makes the exception. The refresher's recover is of the same kind, and
  `TokenNeverLapses` makes the same exception.
* A fresh timestamp per attempt has a resolution of a second. The backoff of at
  least one second makes it enough within a call (`FreshSignatures`); two
  verifications of one card in the same second sign identically, and
  ContextMatrix may answer the second with a conflict.
* VerifyAutonomous has no deadline of its own, and its worst case (three
  attempts and two backoffs, `WorstCase`) exceeds the server's WriteTimeout.

## 4. Proofs

TLAPS checks every theorem for all values of the constants: any cards, runs,
requests, publishers, limits, capacities, timeouts and numbers of failures.
Every safety property that a passing run checks, invariant or action property, is
the statement of a theorem, and so is the refinement. The assumptions are those
named in the modules, which TLC evaluates in the runs:

* `TrackerAssumption`, `CardRunsAssumption`, `ChatAssumption`,
  `StdinAssumption`, `BroadcastAssumption`, `CallbacksAssumption`,
  `MonitorAssumption`, `ProcessAssumption`: the special
  values are not owners or threads, sets of keys and publishers are finite,
  limits, timeouts and buffers are positive, bounds are naturals, a thread or a
  call has one role.
* `DeliveryAssumption`: both windows and both capacities are positive, the drift
  ahead is a natural number.
* `RefresherAssumption`: the buffer is shorter than a token's life and longer than
  the longest outage considered and one full backoff together; a short-lived
  token outlives the ceiling of the clamp. The bound on outages is about GitHub,
  and without it nothing could keep a token valid; the rest are the proportions
  of the code's constants.
* `PowersAssumption`: powers of two are positive, a fact of arithmetic that the
  provers do not know.

**Card runs** (`CardRunsProofs`). `TypeCorrect` proves the type
invariant together with `Grounded`: every run that the registry, a request, the
sweep or shutdown names has a card, without which their lookups by card would
be undefined. `Safety` proves the inductive invariant

    SafetyInv = TypeOK, Grounded, EntryHasLiveRun, NoRecovery, RunHoldsItsEntry,
                RunningWhere, SweepSparesLiveWork, BootInv, WithinLimit, FirstLife,
                ToldInv

None of the properties is inductive alone. `EntryHasLiveRun` survives a
`Remove` by key only because a run that is about to remove still holds its own
entry (`RunHoldsItsEntry`, which needs `NoRecovery`: no recovery without a
panic). `RunningIsTracked` needs to know in which steps a container can be
running (`RunningWhere`). `SweepSparesLiveWork` is kept by the order of the
sweep, Docker first and the registry second: a listed container was created,
so its run is past its registration, and a run that is not tracked then is over
for good. `RunningWithinCap` follows from `WithinLimit` (entries) because
running containers map one to one into entries in the process's first life
(`FirstLife`). `BootClean` needs `BootInv`, what the boot sweep has still to
list, filter or remove. `NoHijack` proves `OnlyOwnCancels` under the
assumptions that the watchdog is off and no run panics, which is what the
`card_watchdog` run shows to be necessary for the watchdog.

`OneTerminalAfterStop` follows from `ToldInv`: before a shutdown only the run's
own goroutine reports an outcome, in the one step that takes it from the places
where it has not spoken to those where it has, and those lie behind the stop
(`RunningWhere`).

`LifecycleIsImplemented` proves that every behaviour of `CardRuns` in which
nothing panics is one of `RunLifecycle`. The acceptance of a trigger is `Admit`,
`tracker.Remove` by a run is `Release` (it holds the slot: `RunHoldsItsEntry`), a
terminal report is `Tell`, by the run or by shutdown's fourth step (whose list
names runs of this process only, `KillsTheLiving`), the end of the process is
`ProcessEnds` (a run that is through has been reported, `SpokenIsHeard`), and
every other step, of requests, watchdogs, sweeps and Docker, is a stutter. With a
panic it does not hold: the recovery calls `tracker.Remove` a second time by
card, and may free the slot of a later run.

The steps are first sorted into kinds (a run advances, releases its entry, or
something beside the runs moves), one case per action; each conjunct is then
shown to survive each kind.

**Stdin** (`StdinProofs`). `Safety` proves the three safety properties of
`Stdin` from: a writing thread holds `stdin.mu` (`Exclusive`); before SetStdin
nothing is attached and the connection is the starter's (`Attached`);
closeStdinAsync works on a removed entry whose stdin was set (`CloserInv`); a
reported close left no writer and SetStdin is over (`ClosedInv`); a request
that began later is still before the check of the writer or refused
(`LateInv`). SafetyInv was checked with TLC on the instance of `stdin_all`.

**Chats** (`ChatSessionsProofs`). What a start has left on the host and in the
manager's maps depends on how far its handler and its cleaner came, so `ChatInv`
says it for every pair of the two, and which pairs exist: a cleaner runs from
"spawn" on. `EntryHasCleaner` is inductive only with it, since a removal by
session id may hit another launch's entry, and then the entry that appears next
must have a cleaner of its own. `NothingLeftBehind` follows for every way out
of /chat/start, crashes and the sweep by age included.

**Logs** (`LogBroadcastProofs`). `NobodySendsOnClosed` needs to follow a
subscriber from the map into the snapshots (`Known`): a /logs request that has
not subscribed is in neither, so handing it a closed channel after Close is safe,
and closeMu does the rest. `AccountsBalance` is an equation between counters and
the number of deliveries; it is inductive once no publisher can offer an entry
to a subscriber that has it (`Fresh`), so that every delivery adds one.
`CloseFlushes` needs that the reporter ends only after Close was called, and
that every drop counted before is either logged or still in the counter.

**Messages** (`MessageDeliveryProofs`). A cache is a list that is evicted from the
front and swept until the first valid entry. `CacheOK` says that it is ordered
by time with one entry to a key; the lemmas show what adding, replacing,
evicting and sweeping do to the set of entries, and that each keeps the order.
`ReplayInv` and `DedupInv` then say that what was let through or acknowledged
within the window is still there with its time, unless it was pushed out, from
which the action properties `HonouredOnce` and `RetryIsNotWritten` follow for any
number of concurrent requests. The part of `HonouredOnce` about the timestamp
needs `StampInv` too: none was more than `Ahead` in the future when it was taken. `SweepIsComplete` is the ordering, and `AckedWasWritten`
needs that what the cache remembers was written (`AckInv`). That Swept finds a
first valid entry uses the well-foundedness of the natural numbers.

**Callbacks** (`CallbacksProofs`). `ReturnsInTime` accumulates over the attempts,
so `TimeInv` says by when each attempt must have begun: `Lag(n)`, the timeouts
and backoffs of the n before it. `FreshSignatures` needs `SigInv`: whatever a call
has signed, on the wire or seen, lies before the second at which it will sign
next, since every backoff lasts at least one. `PromotedWasAutonomous` follows
the answer from the moment ContextMatrix gave it (`FlagInv`).

**Process** (`RunnerProcessProofs`). `SecretsAreWhole` needs only that a rename
finds a synced temporary file, at any crash (`WholeInv`). `TokenNeverLapses` needs
an account of the time left (`Covered`): the sleep and the buffer while the
provider is up; the buffer less the outage so far while it is down; and, after
it has recovered, what is still to be slept before the mint that succeeds.

The inductive invariants of `Stdin`, `LogBroadcast`, `MessageDelivery`,
`Callbacks` and `RunnerProcess` were also checked by TLC on the instances of the
runs, that of `ChatSessions` on the instance of `chat_sessions`, that of
`CardRuns` on the instance of `card_restart` and with two launches of one card, the
watchdog, a failure and a panic.

Only model-checked: liveness and everything that needs fairness
(`KeepsPromise`, `EveryContainerIsReaped`, `PrimingReturns`, `RequestsAnswered`,
`ConnReleased`, `EveryChatIsReaped`, `SlotIsFreed`, `DirsAreReclaimed`,
`ChannelCloses`, `DropsAreReported`, `DeadDockerRestarts`, `BecomesReady`,
`ShutdownDrains`), which is out of the prover's reach; and the refinement in the
presence of panics, for a single run of a card, where it holds (`card_restart`).

## 5. Not modelled, and the plan

The modules of section 2 and the proofs above are done. Next, in this order:

1. Proofs: the safety parts of the liveness properties, as invariants that say
   which step is still ahead (a container that outlived its run is one the next
   sweep lists; a waiting request has a holder of `stdin.mu` that will return);
   an abstract specification of the registry under panics, weaker than
   `RunLifecycle`, that `CardRuns` implements without the exception.
2. `LogStream`: streamLogs and StreamChatLogs, the goroutines between a
   container's output and the log parser, with two pipes that block their
   writer. A parser that panics leaves stdcopy blocked on a pipe nobody reads,
   which for a chat keeps manager.Wait from returning.

Not modelled, and why:

* DNS cache: get and put each hold its one mutex, and a name resolved twice or
  evicted late costs a lookup and nothing else.
* Log parser, configuration and validation: pure functions of text.
* Metrics and tracing: nothing acts on them. Image pruning touches no container.

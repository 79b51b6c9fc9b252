# decoderARC in TLA+

decoderARC is an intrusion detection system: a C++17 detection pipeline
(header-only, under `include/`), a daemon for edge hosts
(`tools/ids_production.cpp`), and a Python backend (`backend/app/`) that stores
the events of many users in a database and evaluates them with the same
pipeline through a C library. This directory holds its verification: TLA+
modules translated from the source, TLC configurations that check them on small
instances, and theorems checked by TLAPS.

Paths below are relative to `src/`. `PROJECT.json` says, for every definition,
which lines it models (`map`), for every run what it checks, for every property
one fault of the code it catches (`mutants`), and lists the hazards
the properties are for.

Contents: 1 the system, 2 the modules, 3 the runs, 4 fairness, 5 the proofs,
6 where the code and its documentation disagree, 7 what is not modelled, 8 the
plan.

## 1. The system

| component | source | state | operations |
|---|---|---|---|
| sharded ingest | `include/ids_sharded.hpp` | per shard a bounded queue, a worker thread, `running`, a heartbeat; counters; the watchdog's missed beats | `ingest` under four backpressure policies, `flush_pending`, worker loop, watchdog with restart, `shutdown` |
| pipeline | `include/ids.hpp` | windows, layers, last states, fault and panic counters, `cfg_`, two locks | `ingest` (the order of all stages), health, reset, hot reload |
| persistence | `include/ids.hpp`, `ids_level0.hpp`, `ids_nn.hpp` | five files | `save_all`, `load_all` |
| decision engine | `include/ids_decision.hpp` | allow and block list, last decision and its time per source, repeat tracker, learning mode | `execute`, `reconfig` |
| correlation engine | `include/ids_correlation.hpp` | records of alerts by source, by host and overall; campaigns | `process`: four detectors, upgrade, campaign assignment; `sweep` |
| configuration and model holders | `include/ids.hpp`, `include/ids_model.hpp` | current value, staged value, history; the model file | update, rollback, stage, apply, read and export a model |
| memory and retrieval | `include/ids_memory.hpp` | records with scores, by source, host, ... and overall; the rules | write gate, eviction, retrieval |
| state-space layers, neural parts, adaptive thresholds, local analysis | `include/ids_level1.hpp`, `ids_ssm.hpp`, `ids_nn.hpp`, `ids_adaptive.hpp`, `ids_level0.hpp` | numeric, and the open segment of each source | per event |
| specialists | `include/ids_fused_engine.hpp`, `ids_thread_pool.hpp` | a queue of tasks, threads, futures | parallel evaluation with a deadline, destruction |
| cloud uploader, metrics server, capture loop | `include/ids_cloud.hpp`, `tools/ids_production.cpp` | three queues, flags set by signals, two locks, three threads | capture, upload, heartbeat, metrics, reload, shutdown |
| C API and bridge | `tools/ids_c_api.cpp`, `backend/app/ids_bridge.py` | a pipeline per user, one queue of pending alerts, one lock | `ingest`, `ingest_batch`, alert callbacks |
| central runtime | `backend/app/central_runtime.py` | rows with `processed`, a queue per user, the dictionary of runtimes, a lock | claim, route, drain, record, stop |
| broadcaster and streams | `backend/app/broadcaster.py`, `routers/stream.py` | the clients of each user and a bounded queue for each | subscribe, broadcast, read, hang up |
| routers | `backend/app/routers/` | rows of devices and alerts | add and delete a device, take in alerts, read |
| rest of the backend | `backend/app/` | start-up, schema, breaker and limiter | circuit breaker (unused), rate limit of the login |

**How they interact.** A collector or an edge daemon posts traffic events to the
backend, which inserts rows. Worker threads of the central runtime claim rows in
batches, route them to a queue per user, and drain every queue through the
bridge, a C call that feeds the user's `ShardedIDS`. Each shard's worker thread
runs the pipeline and calls back with alerts, which wait in one queue of the
library until a later C call returns them; the bridge attaches them to the
events of that call, and the runtime writes alert rows. On an edge host the
capture loop runs one pipeline, whose callback feeds the uploader, while a
server thread reads the pipeline's metrics and signals ask for a reload or the
end; what the pipeline has learned is saved when the process ends and loaded by
the next. Alerts that a daemon raised itself are posted to the backend, whose
request thread commits them and hands one coroutine per alert to the event loop
of the central runtime; that loop puts them in the queues of the connected
clients, which the web server's loop reads.

**What is hard.** Threads that stop while others push; a watchdog that replaces
threads during a shutdown; callbacks called under locks that other callbacks
need; events claimed in one transaction and recorded in another; failures in
between; alerts attached to events by position; several time-based filters on
one time stamp; bounded stores cut by hand; configuration changed in two
critical sections; one event judged again and again by stages that each know
only a part; files of two moments; tasks that outlive the call that gave up on
them; queues of one event loop filled from another. What makes each component correct is stated by its
properties in section 3.

## 2. The modules

A component has a module, an `MC` module that extends it for TLC, and, where
something is proved, a `_proofs` module; the three engines DecisionEngine,
Correlation and FusedEngine share `Engines_proofs`, and name their initial
predicates, next-state relations and variables apart for it. A module names in its header comment
the grain of its steps. Definitions keep the names of the code. Variables that
the code does not have are marked *history*. Some definitions have a faulty
variant before them (`EvictNewest` before `EvictAndPush`), used by no action: the
mutants of `PROJECT.json` put it in the place of the real one, and TLC must then
find the property violated.

**ShardedIDS** (`include/ids_sharded.hpp`). One action per critical section or
read of an atomic: `Ingest` is `ingest`, with an action for each policy, and
`SpinPush` its wait for room under Block; `FlushPending` comes to one queue after
the other, with anything in between; the worker goes through
`test`, `pop`, `idle` and `busy`, which are the loop test, the pop with a
deadline, the test of `running` after a pop that timed out, and
`pipeline.ingest`; the watchdog scans shard by shard, and its restart is two
steps around the join; `shutdown` stops the watchdog, closes the queues and
joins the workers. What the pipeline computes is left out. `ingest` counts and
pushes in one step, as no other code reads the counters, and the queue's own count
of drops, which only the statistics show, is left out.
`accepted` and `taken` are history.

**CentralRuntime** (`central_runtime.py`), **EventOnce**. Each worker reads
candidates, claims its partition in one committed statement, routes them to user
queues (`get_runtime` under the lock), and then holds the lock over the loop
in which `process_batch` of every runtime drains, evaluates and commits. A
`Crash` loses the memory and keeps the database, at any step, and a `Fail` raises
out of the claim, of the first event routed (its row is read anew after the commit)
or of `process_batch`; a statement that fails anywhere else leaves nothing behind
and is a round that did not happen. `EventOnce` is the promise in a page: an event is new,
claimed once, recorded at most once. `CentralRuntime` implements it under the
mapping `status`.

**EdgeDaemon** (`ids_production.cpp`, `ids_cloud.hpp`). Three threads and the two
locks that are held across calls. A packet goes through `recv`, the pipeline and
its callback; the uploader swaps a queue out and posts it; shutdown follows
`main` to the destructors. Times are choices.

**AlertBridge** (`ids_c_api.cpp`, `ids_bridge.py`, and `process_batch`'s use of
them). One call at a time holds the lock while it fills the queues and drains
the pending alerts; workers wait for the lock in order to push an alert. A batch
call hands over several events and takes all alerts there are, a single one
(`BeginSingle`, `DrainOne`) hands over one and takes at most one. The
queues of `ShardedIDS` appear here with the default policy, Priority
(`ids_types.hpp:425`), which the C API does not change: the events it builds have a
low rate, so a full queue refuses them.

**DecisionEngine** (`ids_decision.hpp`). `Execute` is the whole of `execute`, in
its order: override, base decision, escalation, hysteresis, cooldown, learning,
record, and then the callbacks, after which the engine remembers the decision
(`Carry`), or one of which throws (`Fallback`). Time is the age of every stamp, cut off where no test can tell two ages
apart. The properties look at history variables that keep what was delivered.

**Correlation** (`ids_correlation.hpp`). `Process` is the whole of `process`: the
records are pushed and cut, the four detectors run over them, the alert is
upgraded, and it joins or opens a campaign. What the pass over the records of a
source holds after each of them is a recursive function (`MatchedAlong`). Scores are abstracted to what the
thresholds distinguish; the time is a bounded clock. Two detectors whose weights
sum to exactly the upgrade threshold are told apart from those above it.

**HotReload** (`ids.hpp`, `ids_model.hpp`). The holders' critical sections and
the pipeline's are separate steps (configuration), or nested (models, as the
callback runs under the holder's lock). A configuration and a model are names,
and a layer remembers whose matrices it was built with. A model file is read
without a lock before it is staged (`ReadModel`, `StageRead`), so that what is
staged may be of the file before or after a write, a part of it, or a mixture that
still parses, a bit flip too if the file carries no checksum (`Unsummed`); an export truncates the file and writes it under the holder's lock,
and does not notice a full disk (`OpenExport`, `FinishExport`); others may alter it
(`Damage`). An apply also copies parts of `cfg_` before it takes the pipeline's
lock (`ids.hpp:1055`); layer two is its matrices here, which come from the model
alone, so that the copy makes no difference to them. The constructor's
configuration is assumed valid.

**Pipeline** (`ids.hpp`, `ids_memory.hpp`, `ids_reasoning.hpp`, `ids_types.hpp`).
`Ingest` is the whole of `ingest`, one action since it runs under the pipeline's
locks, with an operator for each stage in the order of the code: the levels, the
write before the decision, retrieval and rules, gate and reasoning (`Step7`),
specialists (`Specialised`), near misses and the aggregate window (`Boosted`; old
near misses leave their ring from the front, `WithoutExpired`, and `Limited` cuts it
to its length),
correlation, decision, the write after it, learning, panic mode. Scores are
hundredths. What features add up to is any of a set; what the stages make of it
is exact. Correlation and the decision engine have modules of their own and
appear as what they may answer (`Correlated`, `Finals`). A stage may throw, which
is `fault`. `heard`, `blocked` and `enteredAt` (the faults there were when panic
mode was entered) are history.

**Persistence** (`ids.hpp`, `ids_production.cpp`) extends Pipeline with the life of
the daemon: it starts, loads, ingests, and saves or dies. A save writes five files
one after the other and may end early at each; a load reads them one by one
whatever became of the others, and each `Load...` operator says what its function
answers and what it leaves in the pipeline for an absent, a torn and a whole file.

**FusedEngine** (`ids_fused_engine.hpp`, `ids_thread_pool.hpp`). The caller
enqueues a task per specialist, waits for one future after the other, goes on
without those that are late, and fuses the answers by one of the two strategies;
workers sleep, wake and run tasks, which may hang for good; the destructor stops
the pool and joins.

**AlertStream** (`broadcaster.py`, `routers/stream.py`), **Backend**
(`routers/alerts.py`, `routers/devices.py`). Backend extends AlertStream: request
threads count, insert and delete devices and verify, commit and announce alerts,
each query and each commit a step; an announcement schedules a coroutine on the
runtime's loop. There `broadcast` goes through the live list of subscribers by
index, and for each tests the length, drops, puts and wakes, each a step, since
the readers run in another thread. A reader tests its queue and then takes or
registers as a getter, two steps during which its own loop does nothing else. An
SSE client is cancelled at one of its awaits; that a web socket is closed comes out
when a send fails (`SendFails`). A client who leaves takes its queue along. Each
alert is announced in a `try` of its own and may be passed over. A device that is
deleted is nulled in its rows (`Orphaned`), as the schema of the migrations says
(section 6).

## 3. The runs

Every run finishes in under five minutes, most in under one. Deadlock is switched
off where the modelled code ends (a shutdown, a bound on events);
`decision_rules` never ends and checks for it.

### Passing runs

| run | what holds | instance and why it is enough |
|---|---|---|
| `sharded` | `TypeOK`, `EntityFifo`, `OfferedAccounted`, `OneWorker`, `StoppedStaysStopped`, `ShutdownTerminates`, `NothingStranded` | a queue of two, so that its two ends differ; every policy, two producers, two events and a flush, which overfill it; three threads (two restarts: a restart of a restarted worker), one of which may hang in the pipeline; a shutdown at any step of all that. One shard: the safety properties are proved for any number, and shards share nothing but counters and the two threads that go through them in turn |
| `central_events` | `NothingLostWithoutFaults`, `RefinesEventOnce`, `EventuallyRecorded` | two workers, two users with two events each, queues of one (the second event of a user overflows), a fetch limit below the number of rows, two faults (a failure, then a crash while it is repaired) |
| `daemon` | `UploadedInOrder`; `EventuallyPosted` and `ProcessExits` of a forwarder | every combination of forwarding and serving, two packets (one posting, one queued) |
| `bridge_alerts` | `AlertsAccounted`, `EveryCallReturns` | two users, three events, batch calls of one or two and single calls, queues of one: an alert outlives its call, more alerts than events, a full queue inside a call |
| `decision_rules` | `NextAlertSpacing`, `NeverMuted`, `RepeatsInWindow`, `AllowedIsSilent` | one source, since the state of sources is separate; every confidence band, both learning modes, lists changed at any moment, a callback that throws at any decision, ages up to past the longest limit; the alert cooldown below the hold time and the hold time below the block cooldown, as in the defaults |
| `correlation_alerts` | `StoresAgree`, `MultiStageSound`, `SeriousAlertsInCampaign` | two sources, one host, two classes, all stores of two, a clock of two instants so that windows expire |
| `hot_reload` | `TypeOK`, `RunsTheCurrent`, `SourcesFollowModel`, `RollbackKeepsModels` | two threads, eight calls, three models and a history of two: a rollback to the older of two models needs six; one model file that is exported, read, torn or altered, with no checksum in it that would tell |
| `pipeline` | `DiskTypeOK`, `RuleHeard`, `BlockedRemembered`, `NextBeginsWhereLastEnded`, `LoadedMeansWhole` | one source (sources share only the global store), two events, which write up to four records into a store of three; local scores on both sides of every gate, fused scores below and above the near misses, a specialist and a boost or none; three invalid events over a panic threshold of two; faults in the memory write and in the reasoning (with those in the retrieval and in the write after the decision it passes too, and takes twice as long); a near-miss ring of two, which they fill; two processes, so that one loads what the other left, and a daemon whose own thresholds differ from the saved ones |
| `fused` | `VerdictIsBest`, `CallReturns`, `PoolServes` | two specialists, one critical, two threads, two events, up to two hanging analyses: all threads busy with an event nobody waits for any more |
| `backend` | `TypeOK`, `LimitHolds`, `SkipsBounded`, `StreamInOrder`, `AlertsGoOut` | one client of each kind, queues of two under a request of three alerts (one is dropped, or passed over), a plan of one device, two devices and two requests to add one at a time, a deletion at any step: the least in which the plan is exceeded, and by as many as it may be with two requests |

The type invariant of `CentralRuntime` is proved and not run; the modules that
have none in the table state more about the same variables in their other
invariants. What the properties say is in the comments before them; the
ones that took most thought:

* `EntityFifo` relates three records of a queue (accepted, taken, present), so
  that a lost, doubled or overtaken event breaks it, whichever thread is in
  charge.
* `NothingStranded`: the watchdog clears `running` before it joins the worker,
  and events accepted in that window must still be taken by the next one.
* `NothingLostWithoutFaults`: an event marked as processed is traced to memory,
  to a commit or to a queue overflow, through a stop at any step.
* `UploadedInOrder`: the final flush of `stop()` in the main thread must not
  overtake a batch the uploader's thread has swapped out.
* `AlertsAccounted`: an alert is in exactly one of five places and in one row at
  most, through calls, callbacks and a decode that fails.
* `NextAlertSpacing` and `NeverMuted` are two sides of one test: the next alert
  that is let through inside a cooldown is stronger, and what is refused does not
  extend the cooldown. The first is no more than that: an Escalate ends the cooldown
  of a Block (section 6).
* `AllowedIsSilent`: hysteresis comes after the allow list and undoes it; only the
  length of the block cooldown keeps an allowed source silent. With a block
  cooldown shorter than the hold time it would not hold. A callback that throws is
  answered with a fallback log for any source, which the property leaves out.
* `StoresAgree`: three stores with different limits are pushed and cut apart
  from each other. It compares records by their rank from the end.
* `SourcesFollowModel`: a source seen for the first time after a model was
  applied must get the same matrices as layer two.
* `RuleHeard`: a rule lifts the score in the reasoning only; four later stages
  decide again from the score they are given, one of them with other thresholds.
* `BlockedRemembered`: of an event that was just blocked the store may evict even
  the record it wrote for it, but only for records that rank as high.
* `NextBeginsWhereLastEnded`: what survives is what was saved whole, not what the
  configuration file of the next process says; the memory is not claimed, as it
  does not survive (section 6).
* `VerdictIsBest`: the answer that decides belongs to the event at hand, although
  tasks of an earlier event may finish during the call.
* `SkipsBounded` bounds what `unsubscribe` during a broadcast costs the others,
  and `AlertsGoOut` excludes one thing only, the wake-up that is lost.

### Violations

| run | sentence | what happens |
|---|---|---|
| `panic_exit` | "Auto-exit panic mode when fault rate drops below threshold" (`ids.hpp:573`), "Auto-exits when fault rate drops" (`ACADEMIC_REFERENCE.md:624`) | panic mode is entered, the window passes without another fault, and the next event does not end it: the entry does not store the count of faults that the exit subtracts (`ids.hpp:571`), which stays 0 |
| `daemon_deadlock` | "Graceful shutdown on SIGINT/SIGTERM with state save" (`ids_production.cpp:9`) | `send_metrics` holds the uploader's lock and waits for the pipeline's; `ingest` holds the pipeline's and its callback waits for the uploader's |

## 4. Fairness

* `ShardedIDS`: weak fairness of every worker, the watchdog and the caller of
  `shutdown`. They are threads that wait on condition variables with a deadline
  or read atomics; none competes for a lock it can be starved of, because every
  critical section is one step. None for producers: nobody must ingest.
  A pipeline may fail to return (`CanHang`), with no fairness for it; the two
  liveness properties speak of behaviours in which none does, since with one
  neither holds (section 6).
* `CentralRuntime`: weak fairness of every worker's loop; strong fairness of the
  two steps that take the lock, which another worker takes and releases again
  and again, sleeping between two batches. The `SELECT` has a limit and no order
  and is filtered to the partition afterwards: a worker whose rows are not among
  the first is passed over until the owner of those rows has claimed them. Weak
  fairness of `Fetch` assumes that the database returns an unchanged table in
  one order to all workers; were it to answer two of them differently for ever,
  `EventuallyRecorded` would not hold.
* `EdgeDaemon`: weak fairness of shutdown, strong of the capture loop, the
  uploader and the server, which wait for locks that are free again and again.
  None for packets, clients and signals.
* `FusedEngine`: weak fairness of the caller inside a call or the destructor, of
  every worker's look at the queue, and of the end of an analysis that does not
  hang. `wait_for` returns, with an answer or without.
* `Backend`: weak fairness of the broadcast and of every reader: both loops run as
  long as the server, and nothing they do waits. None for requests, and none for
  clients: nobody must come, stay or go.
* `AlertBridge`: weak fairness of the call, strong of the workers, which wait
  for the lock of the calls. The lock is free between two calls.
* The others have no fairness and no liveness property: they are called, and a
  call is one step or a few.

## 5. The proofs

### ShardedIDS_proofs

Theorems, for any number of shards, keys, producers and events, any depth, any
route, and all policies: `TypeCorrect`, `OneWorkerAlways`, `NoRevival`, `Fifo`,
`Bounded`, `EveryOfferAccounted` (`OfferedAccounted`). They use the four assumptions of the module and no other.

None of these properties is inductive. `OneWorker` is kept because the
watchdog's restart starts a thread only after the join, and `StoppedStaysStopped`
because `shutdown` closes a shard only after the watchdog has ended. The
inductive invariant `Inv` is a conjunction of

* `TypeOK`;
* `JoinInv`: a restart that has begun has a thread left to start;
* `ThreadInv`: the threads before the current one have ended, those after it
  have not been started;
* `WatchdogInv`: the watchdog has ended before the first shard is closed;
* `ClosedInv`: a closed shard is stopped, and only `shutdown` closes one;
* `SpinInv`: a producer waits with an event it was offered.

For `Fifo` and `Bounded`, `FifoInvariance` proves `QueueOrder` (accepted = taken
followed by present), `QueueRouted` (each event belongs to the shard) and
`QueueBounded` together; `QueueSteps` first reduces every step to a push into
room, an eviction, a pop or a flush, so that the sequences are reasoned about
once per way of changing a queue.

`OfferedAccounted` equates a counter with sizes of sets. `CountInv` adds that the
sets are finite, without which their sizes mean nothing, and each kind of step is
shown to add one element to one of them and one to one counter.

### CentralRuntime_proofs

Theorems: `TypeCorrect`, `NeverTwice`, `DrainersExclude` (the loop over the
runtimes runs in one worker at a time), `NothingLost`
(`NothingLostWithoutFaults`) and `Refinement`
(`Spec => EventOnce!Spec` under the mapping), for any sets of events and users,
any partition and any limits, with crashes at every step and failures of
statements.

`RecordedAtMostOnce` needs to know that an event is in one place only. The
inductive invariant has `FetchedInv` (what a worker fetched is of its partition
and new until it claims it), `LockInv` (the lock and the program counters
agree, and only the holder has a batch), `RouteInv` (what is to be routed is
claimed, owned and in no queue), `QueueInv` (what is queued is claimed and of
that user), `BatchInv` (a batch is claimed and disjoint from the queues and from
what is being routed) and `CountInv` (nothing is recorded twice, or unclaimed). The refinement
maps every step to a claim, a record or a stutter; a step in which a full queue
drops an event, and a crash, are stutters: `EventOnce` allows a claimed event to
stay claimed.

`NothingLost` follows an event the other way, from the claim to the commit. `HeldInv`
says that while there was no fault every processed event is with a worker, in a
queue, recorded or dropped by a full queue; it needs `IdleInv`, that only a worker
that is routing has events to route, because the others begin their round by
forgetting them.

### HotReload_proofs

Theorems: `TypeCorrect`, `CurrentRuns` (`RunsTheCurrent`), `ActiveIsInstalled`,
`SourcesFollow` and `NoModelLost`, for any callers, configurations, models,
sources and limit of the histories. The invariant adds `CallInv` (what a call in
progress carries; it installs or writes a model exactly while it holds the model
holder's lock, and what it read from a file may be anything), `HistoryInv` (models to go back to only behind an active one), `LayerInv`
(layer two, the segment parameters and the sources agree until a configuration
is installed) and `ConfigInv`: unless calls have overlapped, at most one is in
progress and it carries the current configuration. That last clause is why
`RunsTheCurrent` is not inductive: between the critical sections the running
configuration is the old one. `RemovedElements` is the fact about sequences that
`NoModelLost` rests on: putting the active model before the history and taking
out the element after the k-th place loses exactly the k-th one.

### Persistence_proofs

Theorems, for any sources, rules, scores, limits, configurations and number of
processes: `NoExitFromPanic`, `NothingTornIsLoaded`
(`LoadedMeansWhole`), `HandedOn` (`NextBeginsWhereLastEnded`), `RulesAreHeard`
(`RuleHeard`), `RemembersBlocked` (`BlockedRemembered`) and `TypeCorrect`
(`DiskTypeOK`). They are about Pipeline too, as every step of a pipeline is one of
a running daemon.

* `NoExitFromPanic`: no step of a running process leaves panic mode. It says that
  the counterexample of `panic_exit` is no matter of the run's threshold and window.
  `PanicInv`: in panic mode the faults are above the threshold, and the count they
  are compared with is still 0. `HealthSteps` reduces every action to the end of an
  ingest, a fault, a new process or nothing.
* `SaveInv`: while there is a save in order to compare with, four of the five
  files hold it whole. Only the end of a process touches them (`FilesSteps`).
* `OrderInv`: the thresholds that run and those in a whole file are in order.
  `RulesAreHeard` needs no induction over the stages: `Strong` (a score of at
  least the alert threshold, decided by it, and no false positive) is what the
  rule's override establishes (`ReasonIsStrong`), what a specialist keeps
  (`SpecialisedIsStrong`), what the detectors and the correlation leave as it is
  (`StrongStays`), and what the decision engine and the learning step look for
  (`StrongIsHeard`).
* `StoreInv`: every store is a finite set of at most the limit of well-formed
  records. `EvictedIs` says what an eviction keeps: so many records, none of them
  ranked below one that goes. From there the lemmas follow a record through an
  insertion, a write to two stores and the writes of an ingest (`InsertedIs`,
  `WriteRecordIs`, `WriteIs`, `BeforeIs`, `AfterIs`, `IngestWrites`):
  `RemembersBlocked` holds because the write after the decision comes last, and
  what an eviction prefers to the new record ranks at least as high.
* `TypeCorrect` takes one invariant for each group of variables (`LevelsInv`,
  `DetectorsInv`, `HealthInv`, `HistoryInv`, `ProcessInv`) and, because a load puts
  into the pipeline what a file holds, `FilesInv` for the files. `VerdictSays` goes
  through the stages once more, for the decision that comes out of them.

The assumptions are `PipelineAssumption` and `PersistenceAssumption`. The first says
that thresholds are in the order `validate_config` asks for and that the alert
threshold is at most 1, which `validate_config` does not ask for: above 1, the cap
of a specialised score would fall below it. It also says that the clock of the
model can pass the gap between two retrievals, where it starts.

### Backend_proofs

`PlanExceededByFew` (`LimitHolds`), for any plan and any number of requests at a
time: a request that has counted and not inserted yet weighs like a device, so
that only the count can add weight, and it does so below the plan's limit only.
`LimitHolds` is inductive with the types of what it counts; the streams and the
alerts leave both alone (`DeviceSteps`).

`BroadcastSkipsFew` (`SkipsBounded`), for any clients and limit of the queues.
`SubsInv` says that the list holds those who are neither off nor gone, each once;
`TurnInv` that a broadcast comes to a client once; `RoomInv` that a put finds room;
and `MissedInv`, that no more clients stand behind the broadcast without having been
reached than have left during it: each who leaves, with its queue, moves the others
up by one place.

`AlertsShownInOrder` (`StreamInOrder`), for any number of requests and size of
theirs. `CallInv` says that the rows of a request stand in one block;
`AnnouncedInv`, that whatever is scheduled, broadcast, queued or sent was announced;
and `OrderInv`, that the alerts of one request keep their order within each of these
stations and from one to the next: a broadcast ends before another begins, reaches
a client once, a full queue loses its oldest payload, and who leaves forgets what it
was sent (`LeaveOrder`). With the same invariants, `TypeCorrect` (`TypeOK`); a row
names an existing device or none, as the deletion looks for it in the rows
(`DeleteStep`). The requests are finitely many and the bound on messages is
no less than their alerts (`BackendAssumption`).

### AlertBridge_proofs

`EveryAlertAccounted` (`AlertsAccounted`), for any users, shards, depth of the
queues and size of a call. That an alert is in one place needs that its event is.
The events of a call have the last numbers given out (`BatchInv`), and `Frontier` is
the first number not handed over yet: events in a queue (`QueueInv`), with a worker
(`WorkerInv`) and raised (`RaisedInv`) have smaller ones, and no two of these places
hold the same. So an alert that is pushed is new, the sequences that carry alerts
repeat none, and `PlaceInv` puts each in one place.

### Engines_proofs

**DecisionEngine.** `NextAlertSpaced` (`NextAlertSpacing`), `NoSourceMuted` (`NeverMuted`),
`EscalatesOnRepeats` (`RepeatsInWindow`) and `AllowedStaysSilent`
(`AllowedIsSilent`), for any sources, thresholds, windows, lists and cooldowns with
`HoldTime <= BlockCooldown`, as the defaults have it. The properties speak of what
was delivered, the engine of what it remembers. `MemoryInv` joins the two: they
agree unless the engine remembers an Ignore, and it cannot carry one out before the
cooldown of what it delivered is over; a callback that throws changes neither
(`FallenStep`). `TrackerInv` does the same for repeats: the
history holds as many records as the tracker counts, and none of them is older than
the tracker's first.

**Induction over positions.** The library's induction takes a predicate as a
parameter. `UpTo` takes a set in its place and rests on the least position that
would fail (`LeastIs`, from the order of the naturals being well-founded);
`Recursion` shows in the same way that a function given by its value at 0 and by a
step from each position to the next exists, so that the `CHOOSE` behind a recursive
function of the model has something to choose. What a loop of the code computes for
answers or records of any number follows by `UpTo` (`BestIs`, `ConsensusIs`,
`MatchedIs`, `MatchedHasStages`).

**Correlation.** `StoresStayBounded`, `StoresTellOneStory` (`StoresAgree`),
`MultiStagesAreThere` (`MultiStageSound`) and `SeriousAlertsJoin`
(`SeriousAlertsInCampaign`), for any sources, hosts, limits, windows and patterns of
the code's form (`CorrelationAssumption`).

* `StoresAgree` is inductive beside the types. `KeepIs` says that a push leaves a
  sequence without its first records and with the new one at its end, whatever the
  limit. A cut at the front leaves the rank of a place from the end as it is, by a
  bijection (`ShiftedAfter`), and a record at the end of both moves each rank of its
  kind by one (`KeepsAlike`).
* `MatchedHasStages` carries along the pass a function that tells which record is
  which stage (`Traces`). It holds for any sequence of records, so of the state only
  the type is needed.
* `LastInv` says what is known when the last alert found no campaign. It is kept as
  `ExtendedIs` shows that the source that joins is the last of the sources, and that
  half of them are cut off at its other end; this needs `MaxSources` to be 2 or more.

**FusedEngine.** `TasksStayApart`, `BestAnswerDecides` (`VerdictIsBest`),
`AcceptedTasksEnd` (`TasksEnded`, the safety part of `PoolServes`) and
`NoWakeUpIsLost`, for any number of specialists, threads, events and hanging
analyses, and without fairness. That a late
answer of an earlier event changes nothing needs that a task sets a future once: a
task that was accepted is at one place, queued or running (`QueuedInv`,
`RunningInv`), and its future is pending as long. So a future with an answer that was
heard stays as it is (`FutureInv`), and one that was given up may still change, but
silence was heard in its place, which no strategy chooses. For `AcceptedTasksEnd` the
pool holds the task of every pending future (`HeldInv`), and a worker leaves only
when the queue is empty and no call can fill it again (`DrainInv`). No wake-up is
lost, as long as somebody sleeps, because the workers that are awake are as many as
the tasks that wait (`WakingInv`): a push adds one to both, a look takes one of both.

### EdgeDaemon_proofs

`EachOnceInOrder` (`UploadedInOrder`), for any number of packets, every
configuration and a signal at any moment. Two threads flush the same queues. A
thread holds a batch only while it posts it (`BatchInv`), and the main thread
flushes only when the uploader has ended (`TurnInv`), so that there is one batch at
a time and what is gone, in it and queued is everything pushed, in order.

### Only model-checked

Liveness (`ShutdownTerminates`, `NothingStranded`, `EventuallyRecorded`,
`EventuallyPosted`, `ProcessExits`, `EveryCallReturns`, `CallReturns`,
`PoolServes`, `AlertsGoOut`) is out of the prover's reach, but for the safety part
of `PoolServes`. Every invariant, every action property and the refinement that the
passing runs check are proved.

## 6. Where the code and its documentation disagree

The deadlock of the daemon and the panic mode that does not end are the violation
runs above. The others were met while modelling; the actions show them, no run
does.

Sharded ingest and bridge:

* A pop times out, an event is pushed, `shutdown` clears `running`, the worker
  tests it and leaves: the event stays in the queue ("workers drain remaining
  items then exit", `ids_sharded.hpp:203`).
* `ingest()` after `shutdown()` is accepted and counted and its event is never
  processed; under Block a producer whose queue is full spins for ever
  (`ids_sharded.hpp:170`; "Close queues" at 203).
* The watchdog joins the worker it found hung before it starts another: a worker
  that does hang blocks the watchdog, and `shutdown` behind it
  (`ids_sharded.hpp:390`; "restart" at 361).
* `priority_push` on a full queue evicts the head whatever its score
  (`ids_sharded.hpp:51`; the comment at 42 speaks of a lower priority).
* A call of one user drains alerts raised by another's pipeline and stores them
  as its own ("Each user gets an isolated `ShardedIDS` instance",
  `ARCHITECTURE.md:66`).
* The bridge can be given more alerts than there are events and cuts them
  (`ids_bridge.py:171`).

Central runtime:

* The claim is committed first, and a crash before the evaluation loses the
  events ("Mark events as processed in the SAME transaction",
  `central_runtime.py:171`).
* Each worker drains the queues of all partitions (`central_runtime.py:326`; the
  partitions are described at 277).

Daemon:

* With metrics served the process does not exit before a client connects: `stop`
  closes a socket another thread is blocked on (`ids_production.cpp:207`).
* SIGHUP is looked at after a packet only: on a quiet interface nothing is
  reloaded (`ids_production.cpp:541`, 657).

Decisions and correlation:

* A decision stronger than the last one is refused by hysteresis or the cooldown
  when it was weakened on the way (`ids_decision.hpp:184`,
  `ACADEMIC_REFERENCE.md:429`).
* An Escalate has no cooldown and takes the place of a Block in `last_decision_`:
  after a Block at 0 and an Escalate at 1, an Alert at 2 is delivered, inside the
  cooldown of the Block (`ids_decision.hpp:158`, 189; "After a block, suppress for
  30 seconds", `ACADEMIC_REFERENCE.md:429`).
* A callback that throws, `on_alert_` after `on_block_` for one, leaves the decision
  unremembered, so that neither hysteresis nor a cooldown follows the block that was
  made (`ids_decision.hpp:161`).
* Learning mode turns blocks into alerts after the cooldown was tested, so
  alerts repeat within it (`ids_decision.hpp:126`).
* A source that never pauses outlives its window and is no longer escalated
  (`ids_decision.hpp:16`, `ACADEMIC_REFERENCE.md:425`).
* `sweep()` has no caller: campaigns never expire, and at the limit no new one
  opens (`ids_correlation.hpp:309`).
* A stale record of the first stage is never given up, so a chain that starts
  anew after it goes unseen (`ids_correlation.hpp:250`,
  `ACADEMIC_REFERENCE.md:401`).

Configuration:

* `hot_reload_config` replaces the segment parameters too, so that sources that
  appear afterwards do not run with the applied model ("SSM matrices are NOT
  changed", `ids.hpp:969`). `SourcesFollowModel` holds only until then.
* `rollback_config` leaves the decision and the correlation engine with the
  configuration that was rolled back (`ids.hpp:995`).
* Two configuration calls that overlap may leave the pipeline with another
  configuration than the holder names ("atomic hot-reload", `ids.hpp:162`).
  `RunsTheCurrent` excludes them.
* A model without a checksum is not compared with one (`ids_model.hpp:112`), so
  that a file with flipped bits that still parses is staged.
* An apply reads parts of `cfg_` before it takes the pipeline's lock
  (`ids.hpp:1055`–1060), while a hot reload writes them: a data race.

Pipeline:

* Panic mode does not end (`panic_exit`; `NoExitFromPanic` proves it for any
  threshold and window). Only invalid events count towards it; an exception in a
  stage does not.
* In panic mode an event that matches a rule gets the decision Alert with a
  confidence of 0, which is below `min_confidence`: the decision engine drops it
  (`ids.hpp:455`; "uses only rule-based detection", `ACADEMIC_REFERENCE.md:624`).
* Rules are looked up by the retrieval and by nothing else: at most once a second
  for a source, and only for local scores above half the gate (`ids.hpp:381`).
* The autoencoder learns from any event of a confidence below 0.10, one that the
  block list blocks included (`ids.hpp:549`).
* The memory record of a blocked event may be evicted by the insertion that wrote it,
  when the rest of a full store ranks as high (`ids_memory.hpp:103`; "always stored in
  memory", `ACADEMIC_REFERENCE.md:452`). `BlockedRemembered` admits it.
* A block that the cooldown refuses leaves `trace.final_decision` at the base
  decision, so that it is written to memory or not by a decision that was not
  taken (`ids.hpp:530`).

Persistence:

* `load_memory` reads the number after `"score":` one character too early
  (`ids.hpp:859`): `stof` throws, nothing is loaded and the answer is false,
  whenever a record was saved. `load_all` then answers false although the other
  four were loaded, and the daemon prints that there is no saved state: what the
  pipeline has learned is never restored with its memory, and it runs on with a state
  of two moments.
* `load_config` begins with the defaults and replaces the thresholds of the
  daemon's own configuration file; of a torn file it makes the defaults and
  answers true (`ids.hpp:884`).
* The save functions answer true when the file could be opened, whatever became
  of the writing; a part that was loaded half is saved whole by the next save.

Fused engine (used by the demonstrations only):

* A specialist that hangs keeps its thread. After as many events as there are
  threads every verdict is that of nobody, with a confidence of 0, and nothing
  says so (`ids_fused_engine.hpp:103`).

Backend:

* `put` from another event loop wakes a sleeping reader without its lock: a
  payload that comes between its test and its sleep waits for the next one
  (`broadcaster.py:38`).
* `unsubscribe` during a broadcast makes it pass over the client behind
  (`broadcaster.py:31`).
* A payload dropped from a full queue between the reader's test and its
  `get_nowait` ends that stream with an exception.
* A client of `/stream/alerts` that leaves before its generator starts stays
  subscribed for ever; one of `/ws/alerts` that has left is noticed at the next
  alert.
* The health stream is given the alerts: `broadcast_health` has no caller
  (`routers/stream.py:82`).
* The repository has two schemas. `migrations/001_init.sql:57` says `ON DELETE SET
  NULL` for the device of an alert, so that a device goes and its rows are nulled,
  as `DeleteDevice` has it; in `models.py:86` the column is `nullable=False` without
  a rule, and in tables made from it (`main.py:30`, `create_all`, "for dev")
  PostgreSQL refuses to delete a device that has alerts. They differ further: the
  migration makes no table `logs`, and its keys are of type UUID, not strings.
* The monthly limit reads a meter that nothing writes (`routers/alerts.py:49`).
* Requests to add a device count before they insert: the plan is exceeded by up
  to one device less than there are requests at a time (`routers/devices.py:35`).

## 7. What is not modelled

* The numeric parts (state-space recurrences, neural networks, drift, scores,
  adaptive thresholds): real-valued arithmetic is out of TLC's reach; where
  their results decide something, a model takes every outcome.
* Capture, dataset parsing, formatting, telemetry counters, web pages, installers,
  demonstrations and the benchmark: input and output without state that another
  step could see changed.
* In Pipeline: the stores of hosts, users, sessions and processes, which are
  written and evicted like those of sources; training (`--train`) and the reload
  on SIGHUP, which `HotReload` models on its own.
* In Backend: more than one user, whose clients and rows do not meet; new keys
  for a device; the routes for logs, metrics, heartbeats, rules and reports, which
  insert or read single rows. Foreign keys are enforced as PostgreSQL does with the
  schema of the migrations; SQLite, the fallback, does not look. Waking a reader from another thread takes effect
  at the next round of the server's loop, which the reader's fairness stands for.
* The circuit breaker, which no code uses, and the rate limiter of the login, one
  critical section.
* Real time: a timeout may fire at any moment, and nothing depends on how long a
  step takes. The five seconds after which `stop()` of the central runtime gives
  up on a worker are therefore not modelled.
* Undefined behaviour after a use of freed memory (`ids_central_destroy` takes no
  lock and frees pipelines a call may still be in): no state of the program
  follows it.

## 8. The plan

Done first were the parts where threads, transactions and locks meet
(ShardedIDS, CentralRuntime, EdgeDaemon, AlertBridge), then the stateful rules
every alert passes (DecisionEngine, Correlation), reconfiguration (HotReload), the
pipeline and its files (Pipeline, Persistence), the pool (FusedEngine) and the way
of an alert to its readers (Backend, AlertStream). What is left:

1. A composition of AlertBridge with CentralRuntime's `process_batch`, to relate
   rows to claims.
2. The replay mode of the daemon and the collector, if either gets state of its
   own.

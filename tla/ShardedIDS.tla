----------------------------- MODULE ShardedIDS -----------------------------
(***************************************************************************)
(* include/ids_sharded.hpp: N independent pipelines ("shards"), each with  *)
(* one bounded queue and one worker thread, fed by ingest(), supervised by *)
(* a watchdog thread and stopped by shutdown().                            *)
(*                                                                         *)
(* A step is one critical section or one read of shared state, so that the *)
(* pop that times out, the test of `running' after it and the loop test    *)
(* are three steps, as they are three reads in workerLoop.  What           *)
(* pipeline.ingest computes is left out: the worker is "busy" during it.   *)
(* A producer's counters, which nothing of the code below reads, are       *)
(* stepped together with its push; the queues' own drops_, which only the  *)
(* statistics show, is left out.                                           *)
(*                                                                         *)
(* Next to some definitions stands a faulty variant of it (EvictNewest     *)
(* next to EvictAndPush): no action uses it, it serves to test that a      *)
(* property would notice the fault.                                        *)
(***************************************************************************)
EXTENDS Naturals, Sequences, FiniteSets

CONSTANTS
    NShards,         \* n_shards_
    Keys,            \* values of the hash key (source, session or user)
    Route,           \* shardFor: the shard of each key
    QueueDepth,      \* cfg.queue.queue_depth
    Policies,        \* the backpressure policies a run starts with
    SampleRate,      \* cfg.backpressure.sample_rate
    AutoRestart,     \* cfg.watchdog.auto_restart
    MaxMissedBeats,  \* cfg.watchdog.max_missed_beats
    Producers,       \* threads that call ingest
    CanHang,         \* whether pipeline.ingest may fail to return
    MaxEvents,       \* bound: events offered to ingest
    MaxFlushes,      \* bound: calls of flush_pending
    MaxThreads       \* bound: worker threads started for one shard

Shards == 0 .. NShards - 1
AllPolicies == {"Drop", "Priority", "Block", "Sample"}

Flush == "__flush__"   \* source of the synthetic events of flush_pending

ASSUME ShardsAssumption ==
    /\ NShards \in Nat \ {0}
    /\ Route \in [Keys -> Shards]
    /\ Flush \notin Keys
ASSUME QueueAssumption ==
    /\ QueueDepth \in Nat \ {0}
    /\ Policies \subseteq AllPolicies
    /\ SampleRate \in Nat \ {0}
ASSUME WatchdogAssumption ==
    /\ AutoRestart \in BOOLEAN
    /\ CanHang \in BOOLEAN
    /\ MaxMissedBeats \in Nat \ {0}
ASSUME BoundAssumption ==
    /\ MaxEvents \in Nat
    /\ MaxFlushes \in Nat
    /\ MaxThreads \in Nat \ {0}

VARIABLES
    policy,    \* cfg_.backpressure.policy, fixed at construction
    queue,     \* [Shards -> Seq(Event)]: BoundedQueue::items_
    closed,    \* [Shards -> BOOLEAN]: BoundedQueue::closed_
    running,   \* [Shards -> BOOLEAN]: Shard::running
    pc,        \* [Shards -> [Threads -> PC]]: where each worker thread is
    cur,       \* [Shards -> Threads]: the thread Shard::worker refers to
    beat,      \* [Shards -> BOOLEAN]: heartbeat differs from the watchdog's copy
    missed,    \* [Shards -> Nat]: the watchdog's missed[i]
    wd,        \* where the watchdog thread is, and the shard it looks at
    wdRunning, \* watchdog_running_
    sd,        \* where the caller of shutdown() is, and its loop index
    spin,      \* [Producers -> Event or none]: a producer in the Block loop
    ingested,  \* total_ingested_
    rejected,  \* total_dropped_
    sample,    \* sample_counter_ modulo the sample rate
    flushes,   \* queues that flush_pending has visited so far
    accepted,  \* history: events pushed on each queue, in order
    taken      \* history: events that left each queue, and how

qVars      == << queue, accepted, taken >>
workerVars == << pc, cur, beat >>
wdVars     == << wd, wdRunning, missed >>
countVars  == << spin, ingested, rejected, sample, flushes >>
vars == << policy, qVars, closed, running, workerVars, wdVars, sd, countVars >>

Threads == 1 .. MaxThreads
PC      == {"none", "test", "pop", "idle", "busy", "hung", "exited"}
Alive   == PC \ {"none", "exited"}
Event   == [key : Keys \cup {Flush}, high : BOOLEAN, n : Nat]
NoEvent == [key |-> Flush, high |-> FALSE, n |-> 0]

-----------------------------------------------------------------------------
(* BoundedQueue: what happens to a queue in one critical section.           *)

HasRoom(s) == Len(queue[s]) < QueueDepth

Push(s, ev) ==
    /\ queue'    = [queue EXCEPT ![s] = Append(@, ev)]
    /\ accepted' = [accepted EXCEPT ![s] = Append(@, ev)]
    /\ taken'    = taken

\* priority_push on a full queue: the head goes, whatever it is
EvictNewest(s, ev) ==
    LET last == Len(queue[s])
    IN  /\ queue'    = [queue EXCEPT ![s] = [@ EXCEPT ![last] = ev]]
        /\ accepted' = [accepted EXCEPT ![s] = Append(@, ev)]
        /\ taken'    = [taken EXCEPT ![s] =
                           Append(@, [ev |-> queue[s][last], how |-> "evicted"])]

EvictAndPush(s, ev) ==
    /\ queue'    = [queue EXCEPT ![s] = Append(Tail(@), ev)]
    /\ accepted' = [accepted EXCEPT ![s] = Append(@, ev)]
    /\ taken'    = [taken EXCEPT ![s] =
                       Append(@, [ev |-> Head(queue[s]), how |-> "evicted"])]

RejectUncounted == UNCHANGED << rejected, qVars >>

Reject ==
    /\ rejected' = rejected + 1
    /\ UNCHANGED qVars

-----------------------------------------------------------------------------
(* ingest(): route, then one branch per backpressure policy.                *)

ShardFor(k) == Route[k]

NextSampleUnwrapped == sample + 1
NextSample == (sample + 1) % SampleRate

Offer(p, k, h) ==
    /\ ingested < MaxEvents
    /\ spin[p] = NoEvent
    /\ ingested' = ingested + 1

Offered(k, h) == [key |-> k, high |-> h, n |-> ingested + 1]

IngestDrop(p, k, h) ==
    /\ policy = "Drop"
    /\ Offer(p, k, h)
    /\ \/ HasRoom(ShardFor(k)) /\ Push(ShardFor(k), Offered(k, h)) /\ UNCHANGED rejected
       \/ ~HasRoom(ShardFor(k)) /\ Reject
    /\ UNCHANGED << policy, closed, running, workerVars, wdVars, sd, spin, sample, flushes >>

IngestPriority(p, k, h) ==
    /\ policy = "Priority"
    /\ Offer(p, k, h)
    /\ \/ HasRoom(ShardFor(k)) /\ Push(ShardFor(k), Offered(k, h)) /\ UNCHANGED rejected
       \/ ~HasRoom(ShardFor(k)) /\ ~h /\ Reject
       \/ ~HasRoom(ShardFor(k)) /\ h /\ EvictAndPush(ShardFor(k), Offered(k, h)) /\ UNCHANGED rejected
    /\ UNCHANGED << policy, closed, running, workerVars, wdVars, sd, spin, sample, flushes >>

IngestSample(p, k, h) ==
    /\ policy = "Sample"
    /\ Offer(p, k, h)
    /\ sample' = NextSample
    /\ \/ sample # 0 /\ Reject
       \/ sample = 0 /\ HasRoom(ShardFor(k)) /\ Push(ShardFor(k), Offered(k, h)) /\ UNCHANGED rejected
       \/ sample = 0 /\ ~HasRoom(ShardFor(k)) /\ Reject
    /\ UNCHANGED << policy, closed, running, workerVars, wdVars, sd, spin, flushes >>

\* Policy Block: the caller yields and tries again until there is room
IngestBlock(p, k, h) ==
    /\ policy = "Block"
    /\ Offer(p, k, h)
    /\ spin' = [spin EXCEPT ![p] = Offered(k, h)]
    /\ UNCHANGED << policy, qVars, closed, running, workerVars, wdVars, sd, rejected, sample, flushes >>

SpinPush(p) ==
    /\ spin[p] # NoEvent
    /\ HasRoom(ShardFor(spin[p].key))
    /\ Push(ShardFor(spin[p].key), spin[p])
    /\ spin' = [spin EXCEPT ![p] = NoEvent]
    /\ UNCHANGED << policy, closed, running, workerVars, wdVars, sd, ingested, rejected, sample, flushes >>

\* flush_pending(): a synthetic event on the queue of one shard after the other,
\* on each that has room; the shard it comes to next follows from how many it
\* has visited, as two calls do not overlap
FlushPending ==
    LET s == flushes % NShards
    IN  /\ flushes < MaxFlushes * NShards
        /\ flushes' = flushes + 1
        /\ \/ HasRoom(s) /\ Push(s, NoEvent)
           \/ ~HasRoom(s) /\ UNCHANGED qVars
        /\ UNCHANGED << policy, closed, running, workerVars, wdVars, sd, spin, ingested, rejected, sample >>

Ingest(p, k, h) ==
    \/ IngestDrop(p, k, h)
    \/ IngestPriority(p, k, h)
    \/ IngestSample(p, k, h)
    \/ IngestBlock(p, k, h)

-----------------------------------------------------------------------------
(* workerLoop() of thread t of shard s.                                     *)

GoTo(s, t, next) == pc' = [pc EXCEPT ![s][t] = next]

\* while (running || size > 0)
LoopTest(s, t) ==
    /\ pc[s][t] = "test"
    /\ GoTo(s, t, IF running[s] \/ queue[s] # <<>> THEN "pop" ELSE "exited")
    /\ UNCHANGED << policy, qVars, closed, running, cur, beat, wdVars, sd, countVars >>

PopEvent(s, t) ==
    /\ pc[s][t] = "pop"
    /\ queue[s] # <<>>
    /\ queue' = [queue EXCEPT ![s] = Tail(@)]
    /\ taken' = [taken EXCEPT ![s] = Append(@, [ev |-> Head(queue[s]), how |-> "worker"])]
    /\ GoTo(s, t, "busy")
    /\ UNCHANGED << policy, accepted, closed, running, cur, beat, wdVars, sd, countVars >>

\* the wait of 5 ms ends, or the queue is closed, and there is nothing
PopNothing(s, t) ==
    /\ pc[s][t] = "pop"
    /\ queue[s] = <<>>
    /\ GoTo(s, t, "idle")
    /\ UNCHANGED << policy, qVars, closed, running, cur, beat, wdVars, sd, countVars >>

\* if (!running) break; ++heartbeat
IdleTest(s, t) ==
    /\ pc[s][t] = "idle"
    /\ IF running[s] THEN /\ GoTo(s, t, "test")
                          /\ beat' = [beat EXCEPT ![s] = TRUE]
                     ELSE /\ GoTo(s, t, "exited")
                          /\ UNCHANGED beat
    /\ UNCHANGED << policy, qVars, closed, running, cur, wdVars, sd, countVars >>

FinishEvent(s, t) ==
    /\ pc[s][t] = "busy"
    /\ GoTo(s, t, "test")
    /\ beat' = [beat EXCEPT ![s] = TRUE]
    /\ UNCHANGED << policy, qVars, closed, running, cur, wdVars, sd, countVars >>

Hang(s, t) ==
    /\ CanHang
    /\ pc[s][t] = "busy"
    /\ GoTo(s, t, "hung")
    /\ UNCHANGED << policy, qVars, closed, running, cur, beat, wdVars, sd, countVars >>

WorkerStep(s, t) ==
    \/ LoopTest(s, t)
    \/ PopEvent(s, t)
    \/ PopNothing(s, t)
    \/ IdleTest(s, t)
    \/ FinishEvent(s, t)

-----------------------------------------------------------------------------
(* The watchdog thread: startWatchdog's loop and restartShard().            *)

NextShard(at) ==
    IF wd.i + 1 < NShards THEN [at |-> at, i |-> wd.i + 1] ELSE [at |-> "loop", i |-> 0]

WatchdogWake ==
    /\ wd.at = "loop"
    /\ wd' = [at |-> IF wdRunning THEN "scan" ELSE "exited", i |-> 0]
    /\ UNCHANGED << policy, qVars, closed, running, workerVars, wdRunning, missed, sd, countVars >>

SeeBeat ==
    /\ wd.at = "scan" /\ beat[wd.i]
    /\ beat'   = [beat EXCEPT ![wd.i] = FALSE]
    /\ missed' = [missed EXCEPT ![wd.i] = 0]
    /\ wd' = NextShard("scan")
    /\ UNCHANGED << policy, qVars, closed, running, pc, cur, wdRunning, sd, countVars >>

MissBeat ==
    /\ wd.at = "scan" /\ ~beat[wd.i]
    /\ missed[wd.i] + 1 < MaxMissedBeats
    /\ missed' = [missed EXCEPT ![wd.i] = @ + 1]
    /\ wd' = NextShard("scan")
    /\ UNCHANGED << policy, qVars, closed, running, workerVars, wdRunning, sd, countVars >>

\* restartShard up to the join
BeginRestart ==
    /\ wd.at = "scan" /\ ~beat[wd.i]
    /\ missed[wd.i] + 1 >= MaxMissedBeats
    /\ cur[wd.i] < MaxThreads
    /\ running' = [running EXCEPT ![wd.i] = FALSE]
    /\ wd' = [wd EXCEPT !.at = "join"]
    /\ UNCHANGED << policy, qVars, closed, workerVars, wdRunning, missed, sd, countVars >>

\* the bound on threads is reached: the scan goes on without a restart
SkipRestart ==
    /\ wd.at = "scan" /\ ~beat[wd.i]
    /\ missed[wd.i] + 1 >= MaxMissedBeats
    /\ cur[wd.i] = MaxThreads
    /\ wd' = NextShard("scan")
    /\ UNCHANGED << policy, qVars, closed, running, workerVars, wdRunning, missed, sd, countVars >>

JoinedAtOnce(s) == TRUE
Joined(s) == pc[s][cur[s]] = "exited"

StartThreadStopped(s) ==
    /\ running' = running
    /\ cur' = [cur EXCEPT ![s] = @ + 1]
    /\ pc'  = [pc EXCEPT ![s][cur[s] + 1] = "test"]

StartThread(s) ==
    /\ running' = [running EXCEPT ![s] = TRUE]
    /\ cur' = [cur EXCEPT ![s] = @ + 1]
    /\ pc'  = [pc EXCEPT ![s][cur[s] + 1] = "test"]

FinishRestart ==
    /\ wd.at = "join"
    /\ Joined(wd.i)
    /\ StartThread(wd.i)
    /\ missed' = [missed EXCEPT ![wd.i] = 0]
    /\ wd' = NextShard("scan")
    /\ UNCHANGED << policy, qVars, closed, beat, wdRunning, sd, countVars >>

WatchdogStep == WatchdogWake \/ SeeBeat \/ MissBeat \/ BeginRestart \/ SkipRestart \/ FinishRestart

-----------------------------------------------------------------------------
(* shutdown(): stop and join the watchdog, stop and close every shard, join *)
(* every worker.                                                            *)

ShutdownCallKeepsWatchdog ==
    /\ sd.at = "up"
    /\ sd' = [at |-> "watchdog", i |-> 0]
    /\ UNCHANGED << policy, qVars, closed, running, workerVars, wdVars, countVars >>

ShutdownCall ==
    /\ sd.at = "up"
    /\ sd' = [at |-> "watchdog", i |-> 0]
    /\ wdRunning' = FALSE
    /\ UNCHANGED << policy, qVars, closed, running, workerVars, wd, missed, countVars >>

JoinWatchdogDetached ==
    /\ sd.at = "watchdog"
    /\ sd' = [at |-> "closing", i |-> 0]
    /\ UNCHANGED << policy, qVars, closed, running, workerVars, wdVars, countVars >>

JoinWatchdog ==
    /\ sd.at = "watchdog"
    /\ wd.at \in {"off", "exited"}
    /\ sd' = [at |-> "closing", i |-> 0]
    /\ UNCHANGED << policy, qVars, closed, running, workerVars, wdVars, countVars >>

CloseShard ==
    /\ sd.at = "closing"
    /\ running' = [running EXCEPT ![sd.i] = FALSE]
    /\ closed'  = [closed EXCEPT ![sd.i] = TRUE]
    /\ sd' = IF sd.i + 1 < NShards THEN [sd EXCEPT !.i = @ + 1] ELSE [at |-> "joining", i |-> 0]
    /\ UNCHANGED << policy, qVars, workerVars, wdVars, countVars >>

JoinWorkers ==
    /\ sd.at = "joining"
    /\ \A s \in Shards : Joined(s)
    /\ sd' = [at |-> "done", i |-> 0]
    /\ UNCHANGED << policy, qVars, closed, running, workerVars, wdVars, countVars >>

ShutdownStep == JoinWatchdog \/ CloseShard \/ JoinWorkers

-----------------------------------------------------------------------------
(* The system just after start().                                           *)

Init ==
    /\ policy \in Policies
    /\ queue    = [s \in Shards |-> <<>>]
    /\ accepted = [s \in Shards |-> <<>>]
    /\ taken    = [s \in Shards |-> <<>>]
    /\ closed   = [s \in Shards |-> FALSE]
    /\ running  = [s \in Shards |-> TRUE]
    /\ pc  = [s \in Shards |-> [t \in Threads |-> IF t = 1 THEN "test" ELSE "none"]]
    /\ cur = [s \in Shards |-> 1]
    /\ beat   = [s \in Shards |-> FALSE]
    /\ missed = [s \in Shards |-> 0]
    /\ wd = [at |-> IF AutoRestart THEN "loop" ELSE "off", i |-> 0]
    /\ wdRunning = AutoRestart
    /\ sd = [at |-> "up", i |-> 0]
    /\ spin = [p \in Producers |-> NoEvent]
    /\ ingested = 0
    /\ rejected = 0
    /\ sample   = 0
    /\ flushes  = 0

Next ==
    \/ \E p \in Producers, k \in Keys, h \in BOOLEAN : Ingest(p, k, h)
    \/ \E p \in Producers : SpinPush(p)
    \/ FlushPending
    \/ \E s \in Shards, t \in Threads : WorkerStep(s, t)
    \/ \E s \in Shards, t \in Threads : Hang(s, t)
    \/ WatchdogStep
    \/ ShutdownCall
    \/ ShutdownStep

Spec == Init /\ [][Next]_vars

(* Every thread the operating system schedules keeps taking steps; nobody is *)
(* obliged to call ingest, flush_pending or shutdown, and a call of          *)
(* pipeline.ingest that does not hang returns.                               *)
Fairness ==
    /\ \A s \in Shards, t \in Threads : WF_vars(WorkerStep(s, t))
    /\ WF_vars(WatchdogStep)
    /\ WF_vars(ShutdownStep)

FairSpec == Spec /\ Fairness
-----------------------------------------------------------------------------
(* Properties.                                                              *)

\* The range of every variable.
TypeOK ==
    /\ policy \in AllPolicies
    /\ queue \in [Shards -> Seq(Event)]
    /\ accepted \in [Shards -> Seq(Event)]
    /\ taken \in [Shards -> Seq([ev : Event, how : {"worker", "evicted"}])]
    /\ closed \in [Shards -> BOOLEAN]
    /\ running \in [Shards -> BOOLEAN]
    /\ pc \in [Shards -> [Threads -> PC]]
    /\ cur \in [Shards -> Threads]
    /\ beat \in [Shards -> BOOLEAN]
    /\ missed \in [Shards -> Nat]
    /\ wd \in [at : {"off", "loop", "scan", "join", "exited"}, i : Shards]
    /\ wdRunning \in BOOLEAN
    /\ sd \in [at : {"up", "watchdog", "closing", "joining", "done"}, i : Shards]
    /\ spin \in [Producers -> Event]
    /\ ingested \in Nat
    /\ rejected \in Nat
    /\ sample \in 0 .. SampleRate - 1
    /\ flushes \in Nat

\* "One entity -> one shard -> FIFO": every event sits in the queue its key is
\* routed to, and the events leave a queue, popped by whichever worker thread
\* the watchdog left in charge or evicted, in exactly the order in which the
\* queue accepted them; none is lost between two threads and none leaves twice.
EntityFifo ==
    \A s \in Shards :
        /\ accepted[s] = [i \in 1 .. Len(taken[s]) |-> taken[s][i].ev] \o queue[s]
        /\ \A i \in 1 .. Len(accepted[s]) :
               accepted[s][i].key \in Keys => Route[accepted[s][i].key] = s

\* At no time do two worker threads of a shard run (its pipeline is sequential):
\* the watchdog starts a thread only after the one it replaces has ended.
OneWorker ==
    \A s \in Shards, t, u \in Threads :
        pc[s][t] \in Alive /\ pc[s][u] \in Alive => t = u

\* A queue never holds more than its depth, whatever policy filled it and
\* whoever flushed it.
QueueBounded == \A s \in Shards : Len(queue[s]) <= QueueDepth

Spinning == {p \in Producers : spin[p] # NoEvent}
AcceptedEvents ==
    UNION { {<< s, i >> : i \in {j \in 1 .. Len(accepted[s]) : accepted[s][j].key # Flush}}
            : s \in Shards }

\* Every event offered is accepted by one queue, counted in total_dropped_, or
\* in the hands of a producer that waits for room.
OfferedAccounted ==
    ingested = rejected + Cardinality(Spinning) + Cardinality(AcceptedEvents)

\* A shard that shutdown() has stopped stays stopped: the watchdog, which sets
\* `running' back to true at the end of a restart, cannot revive it.
StoppedStaysStopped == [][\A s \in Shards : closed[s] => ~running'[s]]_vars

\* The analysis of an event that does not return.
Hanging == \E s \in Shards : pc[s][cur[s]] = "hung"

\* shutdown() returns, also when it meets a watchdog in the middle of a restart,
\* unless an analysis hangs, for whose thread it waits.
ShutdownTerminates == sd.at = "watchdog" ~> (sd.at = "done" \/ Hanging)

\* Until shutdown() is called every accepted event leaves its queue, although
\* the watchdog may replace the worker at any moment, unless an analysis hangs.
NothingStranded ==
    \A s \in Shards : \A n \in 1 .. MaxEvents + MaxFlushes :
        Len(accepted[s]) >= n ~> (Len(taken[s]) >= n \/ sd.at # "up" \/ Hanging)

=============================================================================

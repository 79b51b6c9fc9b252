-------------------------- MODULE ShardedIDS_proofs --------------------------
(***************************************************************************)
(* Proofs about ShardedIDS for any number of shards, producers, events and *)
(* restarts: types, one running worker per shard, no shard revived after   *)
(* shutdown, and the order in which events leave a queue.                  *)
(***************************************************************************)
EXTENDS ShardedIDS, SequenceTheorems, FiniteSetTheorems, TLAPS

-----------------------------------------------------------------------------
(* Sequences: what happens to a concatenation when an element moves.        *)

\* An event appended to the second part is appended to the whole.
LEMMA ConcatAppend ==
    \A a \in Seq(Event), b \in Seq(Event), e \in Event :
        Append(a \o b, e) = a \o Append(b, e)
  BY SMT

\* The head of the second part moves to the end of the first.
LEMMA ConcatMove ==
    \A a \in Seq(Event), b \in Seq(Event) :
        b # <<>> => Append(a, Head(b)) \o Tail(b) = a \o b
  BY SMT

-----------------------------------------------------------------------------
(* Values the model is built from.                                          *)

\* The types of the constants and of the values the actions write.
LEMMA Values ==
    /\ NShards \in Nat \ {0} /\ 0 \in Shards
    /\ MaxThreads \in Nat \ {0} /\ 1 \in Threads
    /\ \A k \in Keys : ShardFor(k) \in Shards
    /\ NoEvent \in Event
    /\ \A n \in Nat, h \in BOOLEAN, k \in Keys \cup {Flush} :
           [key |-> k, high |-> h, n |-> n] \in Event
<1>1. NShards \in Nat \ {0} /\ 0 \in Shards
  BY ShardsAssumption DEF Shards
<1>2. MaxThreads \in Nat \ {0} /\ 1 \in Threads
  BY BoundAssumption DEF Threads
<1>3. \A k \in Keys : ShardFor(k) \in Shards
  BY ShardsAssumption DEF ShardFor
<1>4. NoEvent \in Event
  BY DEF NoEvent, Event
<1>5. \A n \in Nat, h \in BOOLEAN, k \in Keys \cup {Flush} :
          [key |-> k, high |-> h, n |-> n] \in Event
  BY DEF Event
<1> QED
  BY <1>1, <1>2, <1>3, <1>4, <1>5

\* A push of an event on a queue of the type.
LEMMA PushType ==
    ASSUME TypeOK, NEW s, NEW ev \in Event, Push(s, ev)
    PROVE  /\ queue' \in [Shards -> Seq(Event)]
           /\ accepted' \in [Shards -> Seq(Event)]
           /\ taken' \in [Shards -> Seq([ev : Event, how : {"worker", "evicted"}])]
<1>1. \A x \in Shards : /\ Append(queue[x], ev) \in Seq(Event)
                         /\ Append(accepted[x], ev) \in Seq(Event)
  BY AppendProperties DEF TypeOK
<1>2. queue' \in [Shards -> Seq(Event)]
  BY <1>1 DEF TypeOK, Push
<1>3. accepted' \in [Shards -> Seq(Event)]
  BY <1>1 DEF TypeOK, Push
<1>4. taken' \in [Shards -> Seq([ev : Event, how : {"worker", "evicted"}])]
  BY DEF TypeOK, Push
<1> QED
  BY <1>2, <1>3, <1>4

\* The same for a push that evicts the head of a queue that is not empty.
LEMMA EvictType ==
    ASSUME TypeOK, NEW s \in Shards, NEW ev \in Event, queue[s] # <<>>, EvictAndPush(s, ev)
    PROVE  /\ queue' \in [Shards -> Seq(Event)]
           /\ accepted' \in [Shards -> Seq(Event)]
           /\ taken' \in [Shards -> Seq([ev : Event, how : {"worker", "evicted"}])]
<1> DEFINE Left == [ev : Event, how : {"worker", "evicted"}]
<1>1. /\ queue[s] \in Seq(Event) /\ accepted[s] \in Seq(Event)
      /\ taken[s] \in Seq(Left)
  BY DEF TypeOK
<1>2. Head(queue[s]) \in Event /\ Tail(queue[s]) \in Seq(Event)
  BY <1>1, HeadTailProperties
<1>3. [ev |-> Head(queue[s]), how |-> "evicted"] \in Left
  BY <1>2
<1>4. /\ Append(Tail(queue[s]), ev) \in Seq(Event)
      /\ Append(accepted[s], ev) \in Seq(Event)
      /\ Append(taken[s], [ev |-> Head(queue[s]), how |-> "evicted"]) \in Seq(Left)
  BY <1>1, <1>2, <1>3, AppendProperties
<1> QED
  BY <1>4 DEF TypeOK, EvictAndPush

\* A queue without room is not empty: its depth is at least one.
LEMMA FullNotEmpty ==
    ASSUME NEW s, ~HasRoom(s)
    PROVE  queue[s] # <<>>
  BY QueueAssumption, EmptySeq DEF HasRoom

\* A flush pushes on the queue of one shard, or leaves every queue as it is.
LEMMA FlushVisits ==
    ASSUME TypeOK, FlushPending
    PROVE  \/ UNCHANGED qVars
           \/ \E s \in Shards : HasRoom(s) /\ Push(s, NoEvent)
<1>1. flushes \in Nat /\ NShards \in Nat \ {0}
  BY ShardsAssumption DEF TypeOK
<1>2. flushes % NShards \in Shards
  BY <1>1 DEF Shards
<1> QED
  BY <1>2 DEF FlushPending

-----------------------------------------------------------------------------
(* The inductive invariant.                                                 *)

\* A restart is begun only when there is a thread left to start.
JoinInv == wd.at = "join" => cur[wd.i] < MaxThreads

\* Threads of a shard run one after another: those before the current one
\* have ended, those after it have not been started.
ThreadInv ==
    \A s \in Shards, t \in Threads :
        /\ t < cur[s] => pc[s][t] = "exited"
        /\ t > cur[s] => pc[s][t] = "none"

Closing == {"closing", "joining", "done"}

\* The watchdog has ended before the first shard is closed.
WatchdogInv == sd.at \in Closing => wd.at \in {"off", "exited"}

\* Only shutdown closes a shard, and it stops it in the same step.
ClosedInv == \A s \in Shards : closed[s] => sd.at \in Closing /\ ~running[s]

\* A producer waits with an event it was offered.
SpinInv == \A p \in Producers : spin[p] = NoEvent \/ spin[p].key \in Keys

Inv == TypeOK /\ JoinInv /\ ThreadInv /\ WatchdogInv /\ ClosedInv /\ SpinInv

\* The system starts in the invariant.
LEMMA InitInv == Init => Inv
<1> SUFFICES ASSUME Init PROVE Inv
  OBVIOUS
<1>1. TypeOK
  <2>1. /\ policy \in AllPolicies
        /\ AutoRestart \in BOOLEAN
        /\ 0 \in 0 .. SampleRate - 1
    BY QueueAssumption, WatchdogAssumption DEF Init
  <2> QED
    BY <2>1, Values DEF Init, TypeOK, PC
<1>2. JoinInv
  BY DEF Init, JoinInv
<1>3. ThreadInv
  BY DEF Init, ThreadInv, Threads
<1>4. WatchdogInv /\ ClosedInv /\ SpinInv
  BY DEF Init, WatchdogInv, ClosedInv, SpinInv, Closing
<1> QED
  BY <1>1, <1>2, <1>3, <1>4 DEF Inv

\* Every step leaves the values in their ranges.
LEMMA TypeStep == Inv /\ [Next]_vars => TypeOK'
<1> SUFFICES ASSUME Inv, [Next]_vars PROVE TypeOK'
  OBVIOUS
<1> USE DEF Inv, qVars, workerVars, wdVars, countVars
<1>1. ASSUME NEW p \in Producers, NEW k \in Keys, NEW h \in BOOLEAN, Ingest(p, k, h)
      PROVE  TypeOK'
  <2> DEFINE s == ShardFor(k)
             ev == Offered(k, h)
  <2>1. s \in Shards
    BY Values
  <2>2. ev \in Event /\ ingested + 1 \in Nat /\ rejected + 1 \in Nat
    <3>1. ingested \in Nat /\ rejected \in Nat
      BY DEF TypeOK
    <3> QED
      BY <3>1, Values DEF Offered
  <2> HIDE DEF s, ev
  <2>3. CASE IngestDrop(p, k, h)
    <3>1. CASE Push(s, ev) /\ UNCHANGED rejected
      BY <2>3, <3>1, <2>2, PushType DEF IngestDrop, Offer, TypeOK
    <3>2. CASE Reject
      BY <2>3, <3>2, <2>2 DEF IngestDrop, Offer, Reject, TypeOK
    <3> QED
      BY <2>3, <3>1, <3>2 DEF IngestDrop, s, ev
  <2>4. CASE IngestPriority(p, k, h)
    <3>1. CASE Push(s, ev) /\ UNCHANGED rejected
      BY <2>4, <3>1, <2>2, PushType DEF IngestPriority, Offer, TypeOK
    <3>2. CASE Reject
      BY <2>4, <3>2, <2>2 DEF IngestPriority, Offer, Reject, TypeOK
    <3>3. CASE ~HasRoom(s) /\ EvictAndPush(s, ev) /\ UNCHANGED rejected
      BY <2>4, <3>3, <2>1, <2>2, EvictType, FullNotEmpty DEF IngestPriority, Offer, TypeOK
    <3> QED
      BY <2>4, <3>1, <3>2, <3>3 DEF IngestPriority, s, ev
  <2>5. CASE IngestSample(p, k, h)
    <3>1. sample' \in 0 .. SampleRate - 1
      BY <2>5, QueueAssumption DEF IngestSample, NextSample, TypeOK
    <3>2. CASE Push(s, ev) /\ UNCHANGED rejected
      BY <2>5, <3>1, <3>2, <2>2, PushType DEF IngestSample, Offer, TypeOK
    <3>3. CASE Reject
      BY <2>5, <3>1, <3>3, <2>2 DEF IngestSample, Offer, Reject, TypeOK
    <3> QED
      BY <2>5, <3>2, <3>3 DEF IngestSample, s, ev
  <2>6. CASE IngestBlock(p, k, h)
    BY <2>6, <2>2 DEF IngestBlock, Offer, TypeOK, ev
  <2> QED
    BY <1>1, <2>3, <2>4, <2>5, <2>6 DEF Ingest
<1>2. ASSUME NEW p \in Producers, SpinPush(p) PROVE TypeOK'
  <2>1. spin[p] \in Event
    BY DEF TypeOK
  <2>2. Push(ShardFor(spin[p].key), spin[p])
    BY <1>2 DEF SpinPush
  <2>3. spin' \in [Producers -> Event]
    BY <1>2, Values DEF SpinPush, TypeOK
  <2> QED
    BY <1>2, <2>1, <2>2, <2>3, PushType DEF SpinPush, TypeOK
<1>3. ASSUME FlushPending PROVE TypeOK'
  <2>1. /\ queue' \in [Shards -> Seq(Event)]
        /\ accepted' \in [Shards -> Seq(Event)]
        /\ taken' \in [Shards -> Seq([ev : Event, how : {"worker", "evicted"}])]
    <3>1. CASE UNCHANGED qVars
      BY <3>1 DEF TypeOK
    <3>2. ASSUME NEW s \in Shards, Push(s, NoEvent)
          PROVE  /\ queue' \in [Shards -> Seq(Event)]
                 /\ accepted' \in [Shards -> Seq(Event)]
                 /\ taken' \in [Shards -> Seq([ev : Event, how : {"worker", "evicted"}])]
      BY <3>2, Values, PushType
    <3> QED
      BY <1>3, <3>1, <3>2, FlushVisits
  <2>2. flushes' \in Nat
    BY <1>3 DEF FlushPending, TypeOK
  <2>3. UNCHANGED << policy, closed, running, workerVars, wdVars, sd, spin, ingested, rejected, sample >>
    BY <1>3 DEF FlushPending
  <2> QED
    BY <2>1, <2>2, <2>3 DEF TypeOK
<1>4. ASSUME NEW s \in Shards, NEW t \in Threads, WorkerStep(s, t) \/ Hang(s, t)
      PROVE  TypeOK'
  <2>1. \A next \in PC : GoTo(s, t, next) => pc' \in [Shards -> [Threads -> PC]]
    BY DEF GoTo, TypeOK
  <2>2. CASE LoopTest(s, t)
    BY <2>1, <2>2 DEF LoopTest, TypeOK, PC
  <2>3. CASE PopEvent(s, t)
    <3>1. queue[s] \in Seq(Event) /\ queue[s] # <<>>
      BY <2>3 DEF PopEvent, TypeOK
    <3>2. Tail(queue[s]) \in Seq(Event) /\ Head(queue[s]) \in Event
      BY <3>1, HeadTailProperties
    <3>3. queue' \in [Shards -> Seq(Event)]
      BY <2>3, <3>2 DEF PopEvent, TypeOK
    <3> DEFINE Left == [ev : Event, how : {"worker", "evicted"}]
               gone == [ev |-> Head(queue[s]), how |-> "worker"]
    <3>4. taken' \in [Shards -> Seq(Left)]
      <4>1. gone \in Left
        BY <3>2
      <4>2. taken \in [Shards -> Seq(Left)] /\ taken' = [taken EXCEPT ![s] = Append(@, gone)]
        BY <2>3 DEF PopEvent, TypeOK
      <4> HIDE DEF gone, Left
      <4>3. Append(taken[s], gone) \in Seq(Left)
        BY <4>1, <4>2, AppendProperties
      <4> QED
        BY <4>2, <4>3
    <3> QED
      BY <2>1, <2>3, <3>3, <3>4 DEF PopEvent, TypeOK, PC
  <2>4. CASE PopNothing(s, t)
    BY <2>1, <2>4 DEF PopNothing, TypeOK, PC
  <2>5. CASE IdleTest(s, t)
    BY <2>1, <2>5 DEF IdleTest, TypeOK, PC
  <2>6. CASE FinishEvent(s, t)
    BY <2>1, <2>6 DEF FinishEvent, TypeOK, PC
  <2>7. CASE Hang(s, t)
    BY <2>1, <2>7 DEF Hang, TypeOK, PC
  <2> QED
    BY <1>4, <2>2, <2>3, <2>4, <2>5, <2>6, <2>7 DEF WorkerStep
<1>5. ASSUME WatchdogStep PROVE TypeOK'
  <2> DEFINE Places == [at : {"off", "loop", "scan", "join", "exited"}, i : Shards]
  <2>1. NextShard("scan") \in Places
    <3>1. wd.i \in Shards /\ wd.i \in Nat
      BY DEF TypeOK, Shards
    <3>2. wd.i + 1 < NShards => wd.i + 1 \in Shards
      BY <3>1, Values DEF Shards
    <3> QED
      BY <3>1, <3>2, Values DEF NextShard
  <2>2. CASE WatchdogWake
    BY <2>2, Values DEF WatchdogWake, TypeOK
  <2>3. CASE SeeBeat
    BY <2>1, <2>3 DEF SeeBeat, TypeOK
  <2>4. CASE MissBeat
    <3>1. missed' \in [Shards -> Nat]
      BY <2>4 DEF MissBeat, TypeOK
    <3>2. wd' \in Places
      BY <2>1, <2>4 DEF MissBeat
    <3> QED
      BY <2>4, <3>1, <3>2 DEF MissBeat, TypeOK
  <2>5. CASE BeginRestart
    BY <2>5 DEF BeginRestart, TypeOK
  <2>6. CASE SkipRestart
    BY <2>1, <2>6 DEF SkipRestart, TypeOK
  <2>7. CASE FinishRestart
    <3>1. wd.i \in Shards /\ cur[wd.i] \in Threads /\ cur[wd.i] + 1 \in Threads
      <4>1. wd.i \in Shards /\ cur[wd.i] \in Threads /\ cur[wd.i] < MaxThreads
        BY <2>7 DEF FinishRestart, JoinInv, TypeOK
      <4> QED
        BY <4>1, Values DEF Threads
    <3>2. cur' \in [Shards -> Threads] /\ running' \in [Shards -> BOOLEAN]
      BY <2>7, <3>1 DEF FinishRestart, StartThread, TypeOK
    <3>3. pc' \in [Shards -> [Threads -> PC]]
      BY <2>7, <3>1 DEF FinishRestart, StartThread, TypeOK, PC
    <3> QED
      BY <2>1, <2>7, <3>2, <3>3 DEF FinishRestart, TypeOK
  <2> QED
    BY <1>5, <2>2, <2>3, <2>4, <2>5, <2>6, <2>7 DEF WatchdogStep
<1>6. ASSUME ShutdownCall \/ ShutdownStep PROVE TypeOK'
  <2>1. CASE ShutdownCall
    BY <2>1, Values DEF ShutdownCall, TypeOK
  <2>2. CASE JoinWatchdog
    BY <2>2, Values DEF JoinWatchdog, TypeOK
  <2>3. CASE CloseShard
    <3>1. sd' \in [at : {"up", "watchdog", "closing", "joining", "done"}, i : Shards]
      <4>1. sd.i \in Shards /\ sd.i \in Nat /\ sd.at = "closing"
        BY <2>3 DEF CloseShard, TypeOK, Shards
      <4>2. sd.i + 1 < NShards => sd.i + 1 \in Shards
        BY <4>1, Values DEF Shards
      <4>3. \/ sd' = [at |-> "closing", i |-> sd.i + 1] /\ sd.i + 1 < NShards
            \/ sd' = [at |-> "joining", i |-> 0]
        BY <2>3, <4>1 DEF CloseShard, TypeOK
      <4> QED
        BY <4>2, <4>3, Values
    <3>2. sd.i \in Shards /\ Len(accepted[sd.i]) \in Nat
      <4>1. sd.i \in Shards /\ accepted[sd.i] \in Seq(Event)
        BY DEF TypeOK
      <4> QED
        BY <4>1, LenProperties
    <3> QED
      BY <2>3, <3>1, <3>2 DEF CloseShard, TypeOK
  <2>4. CASE JoinWorkers
    BY <2>4, Values DEF JoinWorkers, TypeOK
  <2> QED
    BY <1>6, <2>1, <2>2, <2>3, <2>4 DEF ShutdownStep
<1>7. CASE UNCHANGED vars
  BY <1>7 DEF vars, TypeOK
<1> QED
  BY <1>1, <1>2, <1>3, <1>4, <1>5, <1>6, <1>7 DEF Next

\* What the callers of ingest, flush_pending and a spinning producer leave alone.
LEMMA ProducerFrame ==
    ASSUME NEW p \in Producers,
           \/ \E k \in Keys, h \in BOOLEAN : Ingest(p, k, h)
           \/ SpinPush(p)
           \/ FlushPending
    PROVE  UNCHANGED << policy, closed, running, workerVars, wdVars, sd >>
  BY DEF Ingest, IngestDrop, IngestPriority, IngestSample, IngestBlock, SpinPush,
         FlushPending, workerVars, wdVars

\* The step of a worker is the step of the thread its shard refers to.
LEMMA WorkerIsCurrent ==
    ASSUME TypeOK, ThreadInv, NEW s \in Shards, NEW t \in Threads,
           WorkerStep(s, t) \/ Hang(s, t)
    PROVE  /\ t = cur[s]
           /\ \E next \in PC \ {"none"} : pc' = [pc EXCEPT ![s][t] = next]
           /\ UNCHANGED << policy, closed, running, cur, wdVars, sd, countVars, accepted >>
<1>1. pc[s][t] \notin {"none", "exited"}
  BY DEF WorkerStep, LoopTest, PopEvent, PopNothing, IdleTest, FinishEvent, Hang
<1>2. t = cur[s]
  <2>1. t \in Nat /\ cur[s] \in Nat
    <3>1. cur[s] \in Threads
      BY DEF TypeOK
    <3> QED
      BY <3>1 DEF Threads
  <2>2. ~(t < cur[s]) /\ ~(t > cur[s])
    BY <1>1 DEF ThreadInv
  <2> QED
    BY <2>1, <2>2
<1>3. \E next \in PC \ {"none"} : pc' = [pc EXCEPT ![s][t] = next]
  BY DEF WorkerStep, LoopTest, PopEvent, PopNothing, IdleTest, FinishEvent, Hang, GoTo, PC
<1>4. UNCHANGED << policy, closed, running, cur, wdVars, sd, countVars, accepted >>
  BY DEF WorkerStep, LoopTest, PopEvent, PopNothing, IdleTest, FinishEvent, Hang,
         qVars, wdVars, countVars
<1> QED
  BY <1>2, <1>3, <1>4

\* Every step leaves the threads of a shard in sequence.
LEMMA ThreadStep == Inv /\ [Next]_vars => ThreadInv'
<1> SUFFICES ASSUME Inv, [Next]_vars PROVE ThreadInv'
  OBVIOUS
<1> USE DEF Inv
<1>1. CASE UNCHANGED << pc, cur >>
  BY <1>1 DEF ThreadInv
<1>2. ASSUME NEW s \in Shards, NEW t \in Threads, WorkerStep(s, t) \/ Hang(s, t)
      PROVE  ThreadInv'
  <2>1. t = cur[s] /\ cur' = cur
    BY <1>2, WorkerIsCurrent
  <2>2. PICK next \in PC \ {"none"} : pc' = [pc EXCEPT ![s][t] = next]
    BY <1>2, WorkerIsCurrent
  <2>3. \A x \in Shards, u \in Threads : x # s \/ u # t => pc'[x][u] = pc[x][u]
    BY <2>2 DEF TypeOK
  <2>4. ~(t < cur[s]) /\ ~(t > cur[s])
    BY <2>1 DEF Threads
  <2> QED
    BY <2>1, <2>3, <2>4 DEF ThreadInv
<1>3. ASSUME FinishRestart PROVE ThreadInv'
  <2> DEFINE i == wd.i
             c == cur[i]
  <2>1. /\ i \in Shards /\ c \in Threads /\ c + 1 \in Threads /\ c \in Nat
        /\ pc[i][c] = "exited"
    <3>1. i \in Shards /\ c \in Threads /\ c < MaxThreads
      BY <1>3 DEF FinishRestart, JoinInv, TypeOK
    <3>2. pc[i][c] = "exited"
      BY <1>3 DEF FinishRestart, Joined
    <3> QED
      BY <3>1, <3>2, Values DEF Threads
  <2>2. /\ cur' = [cur EXCEPT ![i] = c + 1]
        /\ pc' = [pc EXCEPT ![i][c + 1] = "test"]
    BY <1>3 DEF FinishRestart, StartThread
  <2> HIDE DEF i, c
  <2>3. \A x \in Shards, u \in Threads : x # i \/ u # c + 1 => pc'[x][u] = pc[x][u]
    BY <2>1, <2>2 DEF TypeOK
  <2>4. \A x \in Shards : x # i => cur'[x] = cur[x]
    BY <2>2 DEF TypeOK
  <2>5. cur'[i] = c + 1
    BY <2>1, <2>2 DEF TypeOK
  <2>6. ASSUME NEW x \in Shards, NEW u \in Threads
        PROVE  /\ u < cur'[x] => pc'[x][u] = "exited"
               /\ u > cur'[x] => pc'[x][u] = "none"
    <3>1. CASE x # i
      BY <3>1, <2>3, <2>4 DEF ThreadInv
    <3>2. CASE x = i
      <4>1. u \in Nat /\ c \in Nat /\ c = cur[x]
        BY <2>1, <3>2 DEF Threads, c
      <4>2. u < c + 1 => u < c \/ u = c
        BY <4>1
      <4>3. u > c + 1 => u > c /\ u # c + 1
        BY <4>1
      <4>4. u < c + 1 => u # c + 1
        BY <4>1
      <4>5. u < c => pc[x][u] = "exited"
        BY <4>1 DEF ThreadInv
      <4>6. u > c => pc[x][u] = "none"
        BY <4>1 DEF ThreadInv
      <4>7. u < c + 1 => pc'[x][u] = "exited"
        BY <4>2, <4>4, <4>5, <2>1, <2>3, <3>2
      <4>8. u > c + 1 => pc'[x][u] = "none"
        BY <4>3, <4>6, <2>3, <3>2
      <4> QED
        BY <4>7, <4>8, <2>5, <3>2
    <3> QED
      BY <3>1, <3>2
  <2> QED
    BY <2>6 DEF ThreadInv
<1>4. CASE WatchdogStep
  <2>1. FinishRestart \/ UNCHANGED << pc, cur >>
    BY <1>4 DEF WatchdogStep, WatchdogWake, SeeBeat, MissBeat, BeginRestart, SkipRestart, workerVars
  <2> QED
    BY <2>1, <1>1, <1>3
<1>5. CASE ShutdownCall \/ ShutdownStep
  BY <1>1, <1>5 DEF ShutdownCall, ShutdownStep, JoinWatchdog, CloseShard, JoinWorkers, workerVars
<1>6. CASE \/ \E p \in Producers, k \in Keys, h \in BOOLEAN : Ingest(p, k, h)
           \/ \E p \in Producers : SpinPush(p)
  BY <1>1, <1>6, ProducerFrame DEF workerVars
<1>7. CASE FlushPending
  BY <1>1, <1>7 DEF FlushPending, workerVars
<1>8. CASE UNCHANGED vars
  BY <1>1, <1>8 DEF vars, workerVars
<1> QED
  BY <1>2, <1>4, <1>5, <1>6, <1>7, <1>8 DEF Next

\* Every step keeps the watchdog and shutdown() out of each other's way.
LEMMA ControlStep == Inv /\ [Next]_vars => (JoinInv /\ WatchdogInv /\ ClosedInv)'
<1> SUFFICES ASSUME Inv, [Next]_vars PROVE (JoinInv /\ WatchdogInv /\ ClosedInv)'
  OBVIOUS
<1> USE DEF Inv
<1>1. CASE UNCHANGED << cur, wd, sd, closed, running >>
  BY <1>1 DEF JoinInv, WatchdogInv, ClosedInv
<1>2. ASSUME NEW s \in Shards, NEW t \in Threads, WorkerStep(s, t) \/ Hang(s, t)
      PROVE  UNCHANGED << cur, wd, sd, closed, running >>
  BY <1>2, WorkerIsCurrent DEF wdVars
<1>3. CASE WatchdogStep
  <2>1. sd.at \notin Closing /\ \A s \in Shards : ~closed[s]
    BY <1>3 DEF WatchdogStep, WatchdogWake, SeeBeat, MissBeat, BeginRestart, SkipRestart,
                FinishRestart, WatchdogInv, ClosedInv
  <2>2. sd' = sd /\ closed' = closed
    BY <1>3 DEF WatchdogStep, WatchdogWake, SeeBeat, MissBeat, BeginRestart, SkipRestart,
                FinishRestart
  <2>3. WatchdogInv' /\ ClosedInv'
    BY <2>1, <2>2 DEF WatchdogInv, ClosedInv
  <2>4. wd'.at = "join" => BeginRestart
    BY <1>3 DEF WatchdogStep, WatchdogWake, SeeBeat, MissBeat, SkipRestart, FinishRestart, NextShard
  <2>5. BeginRestart => JoinInv'
    BY DEF BeginRestart, JoinInv, workerVars, TypeOK
  <2> QED
    BY <2>3, <2>4, <2>5 DEF JoinInv
<1>4. CASE ShutdownCall \/ ShutdownStep
  <2>1. UNCHANGED << cur, wd >>
    BY <1>4 DEF ShutdownCall, ShutdownStep, JoinWatchdog, CloseShard, JoinWorkers, workerVars, wdVars
  <2>2. JoinInv'
    BY <2>1 DEF JoinInv
  <2>3. CASE ShutdownCall
    BY <2>1, <2>2, <2>3 DEF ShutdownCall, WatchdogInv, ClosedInv, Closing
  <2>4. CASE JoinWatchdog
    BY <2>1, <2>2, <2>4 DEF JoinWatchdog, WatchdogInv, ClosedInv, Closing
  <2>5. CASE CloseShard
    <3>1. sd.at \in Closing /\ sd'.at \in Closing
      BY <2>5 DEF CloseShard, Closing, TypeOK
    <3>2. ASSUME NEW s \in Shards, closed'[s] PROVE ~running'[s]
      BY <2>5, <3>2 DEF CloseShard, ClosedInv, TypeOK
    <3> QED
      BY <2>1, <2>2, <3>1, <3>2 DEF WatchdogInv, ClosedInv
  <2>6. CASE JoinWorkers
    BY <2>1, <2>2, <2>6 DEF JoinWorkers, WatchdogInv, ClosedInv, Closing
  <2> QED
    BY <1>4, <2>3, <2>4, <2>5, <2>6 DEF ShutdownStep
<1>5. CASE \/ \E p \in Producers, k \in Keys, h \in BOOLEAN : Ingest(p, k, h)
           \/ \E p \in Producers : SpinPush(p)
  BY <1>1, <1>5, ProducerFrame DEF workerVars, wdVars
<1>6. CASE FlushPending
  BY <1>1, <1>6 DEF FlushPending, workerVars, wdVars
<1>7. CASE UNCHANGED vars
  BY <1>1, <1>7 DEF vars, workerVars, wdVars
<1> QED
  BY <1>1, <1>2, <1>3, <1>4, <1>5, <1>6, <1>7 DEF Next

\* Every step leaves a waiting producer with an event it was offered.
LEMMA SpinStep == Inv /\ [Next]_vars => SpinInv'
<1> SUFFICES ASSUME Inv, [Next]_vars PROVE SpinInv'
  OBVIOUS
<1> USE DEF Inv
<1>1. CASE UNCHANGED spin
  BY <1>1 DEF SpinInv
<1>2. ASSUME NEW p \in Producers, NEW k \in Keys, NEW h \in BOOLEAN, Ingest(p, k, h)
      PROVE  SpinInv'
  <2>1. CASE IngestBlock(p, k, h)
    <3>1. Offered(k, h).key \in Keys
      BY DEF Offered
    <3> QED
      BY <2>1, <3>1 DEF IngestBlock, SpinInv, TypeOK
  <2> QED
    BY <1>1, <1>2, <2>1 DEF Ingest, IngestDrop, IngestPriority, IngestSample
<1>3. ASSUME NEW p \in Producers, SpinPush(p) PROVE SpinInv'
  BY <1>3 DEF SpinPush, SpinInv, TypeOK
<1>4. CASE FlushPending
  BY <1>1, <1>4 DEF FlushPending
<1>5. ASSUME NEW s \in Shards, NEW t \in Threads, WorkerStep(s, t) \/ Hang(s, t)
      PROVE  SpinInv'
  BY <1>1, <1>5, WorkerIsCurrent DEF countVars
<1>6. CASE WatchdogStep
  BY <1>1, <1>6 DEF WatchdogStep, WatchdogWake, SeeBeat, MissBeat, BeginRestart, SkipRestart,
                    FinishRestart, countVars
<1>7. CASE ShutdownCall \/ ShutdownStep
  BY <1>1, <1>7 DEF ShutdownCall, ShutdownStep, JoinWatchdog, CloseShard, JoinWorkers, countVars
<1>8. CASE UNCHANGED vars
  BY <1>1, <1>8 DEF vars, countVars
<1> QED
  BY <1>2, <1>3, <1>4, <1>5, <1>6, <1>7, <1>8 DEF Next

-----------------------------------------------------------------------------
(* Theorems.                                                                *)

\* The invariant holds in every state of every behaviour.
THEOREM Invariance == Spec => []Inv
<1>1. Inv /\ [Next]_vars => Inv'
  BY TypeStep, ThreadStep, ControlStep, SpinStep DEF Inv
<1> QED
  BY InitInv, <1>1, PTL DEF Spec

\* Every variable stays in its range.
THEOREM TypeCorrect == Spec => []TypeOK
<1>1. Inv => TypeOK
  BY DEF Inv
<1> QED
  BY Invariance, <1>1, PTL

\* However often the watchdog replaces a worker, no two threads of one shard
\* run at a time: its pipeline needs no lock.
THEOREM OneWorkerAlways == Spec => []OneWorker
<1>1. Inv => OneWorker
  <2> SUFFICES ASSUME Inv, NEW s \in Shards, NEW t \in Threads, pc[s][t] \in Alive
               PROVE  t = cur[s]
    BY DEF OneWorker
  <2>1. ~(t < cur[s]) /\ ~(t > cur[s])
    BY DEF Inv, ThreadInv, Alive
  <2>2. t \in Nat /\ cur[s] \in Nat
    <3>1. cur[s] \in Threads
      BY DEF Inv, TypeOK
    <3> QED
      BY <3>1 DEF Threads
  <2> QED
    BY <2>1, <2>2
<1> QED
  BY Invariance, <1>1, PTL

\* No restart revives a shard that shutdown() has stopped.
THEOREM NoRevival == Spec => StoppedStaysStopped
<1>1. Inv /\ Inv' /\ [Next]_vars => [\A s \in Shards : closed[s] => ~running'[s]]_vars
  <2> SUFFICES ASSUME Inv, Inv', [Next]_vars, NEW s \in Shards, closed[s] PROVE ~running'[s]
    OBVIOUS
  <2>1. closed'[s]
    <3>1. closed' = closed \/ CloseShard
      <4>1. ASSUME NEW x \in Shards, NEW t \in Threads, WorkerStep(x, t) \/ Hang(x, t)
            PROVE  closed' = closed
        BY <4>1, WorkerIsCurrent DEF Inv
      <4>2. CASE \/ \E p \in Producers, k \in Keys, h \in BOOLEAN : Ingest(p, k, h)
                 \/ \E p \in Producers : SpinPush(p)
        BY <4>2, ProducerFrame
      <4>3. CASE WatchdogStep \/ ShutdownCall \/ ShutdownStep
        BY <4>3 DEF WatchdogStep, WatchdogWake, SeeBeat, MissBeat, BeginRestart, SkipRestart,
                    FinishRestart, ShutdownCall, ShutdownStep, JoinWatchdog, JoinWorkers
      <4>4. CASE FlushPending \/ UNCHANGED vars
        BY <4>4 DEF FlushPending, vars
      <4> QED
        BY <4>1, <4>2, <4>3, <4>4 DEF Next
    <3>2. CloseShard => closed'[s]
      BY DEF CloseShard, Inv, TypeOK
    <3> QED
      BY <3>1, <3>2
  <2> QED
    BY <2>1 DEF Inv, ClosedInv
<1> QED
  BY Invariance, <1>1, PTL DEF Spec, StoppedStaysStopped

-----------------------------------------------------------------------------
(* The order and the bound of the queues.                                   *)

Left == [ev : Event, how : {"worker", "evicted"}]
Out(tk) == [i \in 1 .. Len(tk) |-> tk[i].ev]

\* The events that left, after one more has left.
LEMMA OutAppend ==
    ASSUME NEW tk \in Seq(Left), NEW r \in Left
    PROVE  /\ Out(tk) \in Seq(Event)
           /\ Out(Append(tk, r)) = Append(Out(tk), r.ev)
<1> DEFINE a == Append(tk, r)
<1>1. /\ Len(tk) \in Nat /\ a \in Seq(Left) /\ Len(a) = Len(tk) + 1
      /\ \A i \in 1 .. Len(tk) : tk[i] \in Left /\ a[i] = tk[i]
      /\ a[Len(tk) + 1] = r
  BY AppendProperties, ElementOfSeq, LenProperties
<1>2. Out(tk) \in Seq(Event) /\ Len(Out(tk)) = Len(tk)
  <2>1. \A i \in 1 .. Len(tk) : tk[i].ev \in Event
    BY <1>1 DEF Left
  <2> QED
    BY <1>1, <2>1, IsASeq DEF Out
<1>3. r.ev \in Event
  BY DEF Left
<1> HIDE DEF a
<1>4. \A i \in 1 .. Len(a) : a[i] \in Left /\ a[i].ev \in Event
  BY <1>1, ElementOfSeq DEF Left
<1>5. Out(a) \in Seq(Event) /\ Len(Out(a)) = Len(a)
  BY <1>1, <1>4, IsASeq, LenProperties DEF Out
<1>6. /\ Append(Out(tk), r.ev) \in Seq(Event)
      /\ Len(Append(Out(tk), r.ev)) = Len(tk) + 1
      /\ \A i \in 1 .. Len(tk) : Append(Out(tk), r.ev)[i] = Out(tk)[i]
      /\ Append(Out(tk), r.ev)[Len(tk) + 1] = r.ev
  BY <1>2, <1>3, AppendProperties
<1>7. ASSUME NEW i \in 1 .. Len(a) PROVE Out(a)[i] = Append(Out(tk), r.ev)[i]
  <2>1. Out(a)[i] = a[i].ev
    BY DEF Out
  <2>2. CASE i \in 1 .. Len(tk)
    BY <2>1, <2>2, <1>1, <1>6 DEF Out
  <2>3. CASE i = Len(tk) + 1
    BY <2>1, <2>3, <1>1, <1>6
  <2>4. i \in 1 .. Len(tk) \/ i = Len(tk) + 1
    <3>1. i \in 1 .. Len(tk) + 1 /\ Len(tk) \in Nat
      BY <1>1
    <3> QED
      BY <3>1
  <2> QED
    BY <2>2, <2>3, <2>4
<1>8. Out(a) = Append(Out(tk), r.ev)
  BY <1>1, <1>5, <1>6, <1>7, SeqEqual
<1> QED
  BY <1>2, <1>8 DEF a

\* The three ways in which a step changes one queue.
Pushes(s, ev) == Push(s, ev) /\ HasRoom(s)
Evicts(s, ev) == EvictAndPush(s, ev) /\ queue[s] # <<>>
Pops(s) ==
    /\ queue[s] # <<>>
    /\ queue' = [queue EXCEPT ![s] = Tail(@)]
    /\ taken' = [taken EXCEPT ![s] = Append(@, [ev |-> Head(queue[s]), how |-> "worker"])]
    /\ accepted' = accepted

BelongsTo(s, ev) == ev.key \in Keys => Route[ev.key] = s

\* No step does anything else to a queue.
LEMMA QueueSteps ==
    ASSUME Inv, [Next]_vars
    PROVE  \/ UNCHANGED qVars
           \/ \E s \in Shards, ev \in Event :
                  BelongsTo(s, ev) /\ (Pushes(s, ev) \/ Evicts(s, ev))
           \/ \E s \in Shards : Pops(s)
<1> DEFINE Goal == \/ UNCHANGED qVars
                   \/ \E s \in Shards, ev \in Event :
                          BelongsTo(s, ev) /\ (Pushes(s, ev) \/ Evicts(s, ev))
                   \/ \E s \in Shards : Pops(s)
<1>1. ASSUME NEW p \in Producers, NEW k \in Keys, NEW h \in BOOLEAN, Ingest(p, k, h)
      PROVE  Goal
  <2> DEFINE s == ShardFor(k)
             ev == Offered(k, h)
  <2>1. s \in Shards
    BY Values
  <2>2. ev \in Event
    <3>1. ingested + 1 \in Nat
      BY DEF Inv, TypeOK
    <3> QED
      BY <3>1, Values DEF Offered
  <2>3. BelongsTo(s, ev)
    BY DEF BelongsTo, Offered, ShardFor
  <2>4. \/ UNCHANGED qVars
        \/ HasRoom(s) /\ Push(s, ev)
        \/ ~HasRoom(s) /\ EvictAndPush(s, ev)
    BY <1>1 DEF Ingest, IngestDrop, IngestPriority, IngestSample, IngestBlock, Reject
  <2> HIDE DEF s, ev
  <2> QED
    BY <2>1, <2>2, <2>3, <2>4, FullNotEmpty DEF Pushes, Evicts
<1>2. ASSUME NEW p \in Producers, SpinPush(p) PROVE Goal
  <2> DEFINE s == ShardFor(spin[p].key)
  <2>1. spin[p] \in Event /\ spin[p].key \in Keys
    BY <1>2 DEF Inv, TypeOK, SpinInv, SpinPush
  <2>2. s \in Shards
    BY <2>1, Values
  <2>3. BelongsTo(s, spin[p])
    BY DEF BelongsTo, ShardFor
  <2>4. Pushes(s, spin[p])
    BY <1>2 DEF SpinPush, Pushes
  <2> QED
    BY <2>1, <2>2, <2>3, <2>4
<1>3. ASSUME NEW s \in Shards, NEW t \in Threads, WorkerStep(s, t) \/ Hang(s, t)
      PROVE  Goal
  <2>1. CASE PopEvent(s, t)
    <3>1. Pops(s)
      BY <2>1 DEF PopEvent, Pops
    <3> QED
      BY <3>1
  <2>2. PopEvent(s, t) \/ UNCHANGED qVars
    BY <1>3 DEF WorkerStep, LoopTest, PopNothing, IdleTest, FinishEvent, Hang
  <2> QED
    BY <2>1, <2>2
<1>4. CASE WatchdogStep
  BY <1>4 DEF WatchdogStep, WatchdogWake, SeeBeat, MissBeat, BeginRestart, SkipRestart, FinishRestart
<1>5. CASE ShutdownCall \/ ShutdownStep
  BY <1>5 DEF ShutdownCall, ShutdownStep, JoinWatchdog, CloseShard, JoinWorkers
<1>6. CASE UNCHANGED vars
  BY <1>6 DEF vars
<1>7. CASE FlushPending
  <2>1. NoEvent \in Event /\ \A s \in Shards : BelongsTo(s, NoEvent)
    BY Values, ShardsAssumption DEF BelongsTo, NoEvent
  <2>2. ASSUME NEW s \in Shards, HasRoom(s), Push(s, NoEvent) PROVE Goal
    BY <2>1, <2>2 DEF Pushes
  <2>3. CASE UNCHANGED qVars
    BY <2>3
  <2>4. TypeOK
    BY DEF Inv
  <2> QED
    BY <1>7, <2>2, <2>3, <2>4, FlushVisits
<1> QED
  BY <1>1, <1>2, <1>3, <1>4, <1>5, <1>6, <1>7 DEF Next

QueueOrder  == \A s \in Shards : accepted[s] = Out(taken[s]) \o queue[s]
QueueRouted == \A s \in Shards : \A i \in 1 .. Len(accepted[s]) : BelongsTo(s, accepted[s][i])

\* One queue takes an event at its end.
LEMMA OrderAppend ==
    ASSUME TypeOK, QueueOrder, NEW s \in Shards, NEW ev \in Event
    PROVE  Append(accepted[s], ev) = Out(taken[s]) \o Append(queue[s], ev)
<1>1. queue[s] \in Seq(Event) /\ taken[s] \in Seq(Left)
  BY DEF TypeOK, Left
<1>2. \E r : r \in Left
  <2>1. [ev |-> ev, how |-> "worker"] \in Left
    BY DEF Left
  <2> QED
    BY <2>1
<1>3. Out(taken[s]) \in Seq(Event)
  BY <1>1, <1>2, OutAppend
<1>4. Append(Out(taken[s]) \o queue[s], ev) = Out(taken[s]) \o Append(queue[s], ev)
  BY <1>1, <1>3, ConcatAppend
<1> QED
  BY <1>4 DEF QueueOrder

\* One queue gives its head.
LEMMA OrderMove ==
    ASSUME TypeOK, QueueOrder, NEW s \in Shards, queue[s] # <<>>,
           NEW how \in {"worker", "evicted"}
    PROVE  /\ Head(queue[s]) \in Event /\ Tail(queue[s]) \in Seq(Event)
           /\ Out(taken[s]) \in Seq(Event)
           /\ Out(Append(taken[s], [ev |-> Head(queue[s]), how |-> how]))
                  = Append(Out(taken[s]), Head(queue[s]))
           /\ accepted[s] = Append(Out(taken[s]), Head(queue[s])) \o Tail(queue[s])
<1>1. queue[s] \in Seq(Event) /\ taken[s] \in Seq(Left)
  BY DEF TypeOK, Left
<1>2. Head(queue[s]) \in Event /\ Tail(queue[s]) \in Seq(Event)
  BY <1>1, HeadTailProperties
<1>3. [ev |-> Head(queue[s]), how |-> how] \in Left
  BY <1>2 DEF Left
<1>4. /\ Out(taken[s]) \in Seq(Event)
      /\ Out(Append(taken[s], [ev |-> Head(queue[s]), how |-> how]))
             = Append(Out(taken[s]), Head(queue[s]))
  BY <1>1, <1>3, OutAppend
<1>5. Append(Out(taken[s]), Head(queue[s])) \o Tail(queue[s]) = Out(taken[s]) \o queue[s]
  BY <1>1, <1>4, ConcatMove
<1> QED
  BY <1>2, <1>4, <1>5 DEF QueueOrder

\* Every step leaves the order, the routing and the bound of the queues.
LEMMA FifoStep ==
    ASSUME Inv, [Next]_vars, QueueOrder, QueueRouted, QueueBounded
    PROVE  (QueueOrder /\ QueueRouted /\ QueueBounded)'
<1>1. TypeOK
  BY DEF Inv
<1>2. \A s \in Shards : /\ queue[s] \in Seq(Event) /\ accepted[s] \in Seq(Event)
                        /\ Len(queue[s]) \in Nat /\ Len(accepted[s]) \in Nat
  BY <1>1, LenProperties DEF TypeOK
<1>3. QueueDepth \in Nat \ {0}
  BY QueueAssumption
<1>4. ASSUME NEW s \in Shards, NEW ev \in Event, BelongsTo(s, ev)
      PROVE  \A i \in 1 .. Len(Append(accepted[s], ev)) : BelongsTo(s, Append(accepted[s], ev)[i])
  <2> DEFINE a == accepted[s]
  <2>1. a \in Seq(Event) /\ Len(a) \in Nat
    BY <1>2
  <2>2. /\ Len(Append(a, ev)) = Len(a) + 1
        /\ \A i \in 1 .. Len(a) : Append(a, ev)[i] = a[i]
        /\ Append(a, ev)[Len(a) + 1] = ev
    BY <2>1, AppendProperties
  <2>3. \A i \in 1 .. Len(a) : BelongsTo(s, a[i])
    BY DEF QueueRouted
  <2> HIDE DEF a
  <2>4. \A i \in 1 .. Len(a) + 1 : i \in 1 .. Len(a) \/ i = Len(a) + 1
    BY <2>1
  <2>5. \A i \in 1 .. Len(a) + 1 : BelongsTo(s, Append(a, ev)[i])
    BY <1>4, <2>2, <2>3, <2>4
  <2> QED
    BY <2>2, <2>5 DEF a
<1>5. CASE UNCHANGED qVars
  BY <1>5 DEF qVars, QueueOrder, QueueRouted, QueueBounded
<1>6. ASSUME NEW s \in Shards, NEW ev \in Event, BelongsTo(s, ev), Pushes(s, ev)
      PROVE  (QueueOrder /\ QueueRouted /\ QueueBounded)'
  <2>1. /\ queue'[s] = Append(queue[s], ev) /\ accepted'[s] = Append(accepted[s], ev)
        /\ \A x \in Shards : x # s => queue'[x] = queue[x] /\ accepted'[x] = accepted[x]
        /\ taken' = taken
    BY <1>1, <1>6 DEF Pushes, Push, TypeOK
  <2>2. QueueOrder'
    BY <1>1, <2>1, OrderAppend DEF QueueOrder
  <2>3. QueueRouted'
    BY <1>4, <1>6, <2>1 DEF QueueRouted
  <2>4. Len(Append(queue[s], ev)) = Len(queue[s]) + 1
    BY <1>2, AppendProperties
  <2>5. Len(queue[s]) + 1 <= QueueDepth
    BY <1>2, <1>3, <1>6 DEF Pushes, HasRoom
  <2>6. QueueBounded'
    BY <2>1, <2>4, <2>5 DEF QueueBounded
  <2> QED
    BY <2>2, <2>3, <2>6
<1>7. ASSUME NEW s \in Shards, NEW ev \in Event, BelongsTo(s, ev), Evicts(s, ev)
      PROVE  (QueueOrder /\ QueueRouted /\ QueueBounded)'
  <2> DEFINE head == Head(queue[s])
             rest == Tail(queue[s])
             out  == Out(taken[s])
  <2>1. /\ queue'[s] = Append(rest, ev) /\ accepted'[s] = Append(accepted[s], ev)
        /\ taken'[s] = Append(taken[s], [ev |-> head, how |-> "evicted"])
        /\ \A x \in Shards : x # s => /\ queue'[x] = queue[x] /\ accepted'[x] = accepted[x]
                                      /\ taken'[x] = taken[x]
    BY <1>1, <1>7 DEF Evicts, EvictAndPush, TypeOK
  <2>2. /\ head \in Event /\ rest \in Seq(Event) /\ out \in Seq(Event)
        /\ Out(Append(taken[s], [ev |-> head, how |-> "evicted"])) = Append(out, head)
        /\ accepted[s] = Append(out, head) \o rest
    BY <1>1, <1>7, OrderMove DEF Evicts
  <2>3. Len(Append(rest, ev)) = Len(queue[s])
    <3>1. Len(rest) = Len(queue[s]) - 1
      BY <1>2, <1>7, HeadTailProperties DEF Evicts
    <3>2. Len(Append(rest, ev)) = Len(rest) + 1
      BY <2>2, AppendProperties
    <3> QED
      BY <1>2, <3>1, <3>2
  <2> HIDE DEF head, rest, out
  <2>4. Append(out, head) \in Seq(Event)
    BY <2>2, AppendProperties
  <2>5. Append(Append(out, head) \o rest, ev) = Append(out, head) \o Append(rest, ev)
    BY <2>2, <2>4, ConcatAppend
  <2>6. QueueOrder'
    BY <2>1, <2>2, <2>5 DEF QueueOrder
  <2>7. QueueRouted'
    BY <1>4, <1>7, <2>1 DEF QueueRouted
  <2>8. QueueBounded'
    BY <2>1, <2>3 DEF QueueBounded
  <2> QED
    BY <2>6, <2>7, <2>8
<1>8. ASSUME NEW s \in Shards, Pops(s)
      PROVE  (QueueOrder /\ QueueRouted /\ QueueBounded)'
  <2> DEFINE head == Head(queue[s])
             rest == Tail(queue[s])
             out  == Out(taken[s])
  <2>1. /\ queue'[s] = rest /\ accepted' = accepted
        /\ taken'[s] = Append(taken[s], [ev |-> head, how |-> "worker"])
        /\ \A x \in Shards : x # s => queue'[x] = queue[x] /\ taken'[x] = taken[x]
    BY <1>1, <1>8 DEF Pops, TypeOK
  <2>2. /\ Out(Append(taken[s], [ev |-> head, how |-> "worker"])) = Append(out, head)
        /\ accepted[s] = Append(out, head) \o rest
    BY <1>1, <1>8, OrderMove DEF Pops
  <2>3. Len(rest) <= QueueDepth
    <3>1. Len(rest) = Len(queue[s]) - 1 /\ Len(queue[s]) <= QueueDepth
      BY <1>2, <1>8, HeadTailProperties DEF Pops, QueueBounded
    <3> QED
      BY <1>2, <1>3, <3>1
  <2> HIDE DEF head, rest, out
  <2>4. QueueOrder'
    BY <2>1, <2>2 DEF QueueOrder
  <2>5. QueueRouted' /\ QueueBounded'
    BY <2>1, <2>3 DEF QueueRouted, QueueBounded
  <2> QED
    BY <2>4, <2>5
<1> QED
  BY <1>5, <1>6, <1>7, <1>8, QueueSteps

\* The order, routing and bound hold in every state.
LEMMA FifoInvariance == Spec => [](QueueOrder /\ QueueRouted /\ QueueBounded)
<1>1. Init => QueueOrder /\ QueueRouted /\ QueueBounded
  <2> SUFFICES ASSUME Init, NEW s \in Shards
               PROVE  /\ accepted[s] = Out(taken[s]) \o queue[s]
                      /\ \A i \in 1 .. Len(accepted[s]) : BelongsTo(s, accepted[s][i])
                      /\ Len(queue[s]) <= QueueDepth
    BY DEF QueueOrder, QueueRouted, QueueBounded
  <2>1. queue[s] = <<>> /\ accepted[s] = <<>> /\ taken[s] = <<>>
    BY DEF Init
  <2>2. Out(<<>>) = <<>>
    BY DEF Out
  <2>3. <<>> \o <<>> = <<>>
    OBVIOUS
  <2>4. QueueDepth \in Nat
    BY QueueAssumption
  <2> QED
    BY <2>1, <2>2, <2>3, <2>4
<1>2. /\ Inv /\ [Next]_vars /\ (QueueOrder /\ QueueRouted /\ QueueBounded)
      => (QueueOrder /\ QueueRouted /\ QueueBounded)'
  BY FifoStep
<1> QED
  BY Invariance, <1>1, <1>2, PTL DEF Spec

\* Each event sits in the queue of its entity, and the events leave a queue,
\* popped or evicted, in the order in which it accepted them: none is lost,
\* duplicated or overtaken, whatever the policy and whoever the worker is.
THEOREM Fifo == Spec => []EntityFifo
<1>1. QueueOrder /\ QueueRouted => EntityFifo
  BY DEF QueueOrder, QueueRouted, BelongsTo, Out, EntityFifo
<1> QED
  BY FifoInvariance, <1>1, PTL

\* No policy and no flush ever fills a queue beyond its depth.
THEOREM Bounded == Spec => []QueueBounded
  BY FifoInvariance, PTL

-----------------------------------------------------------------------------
(* The counters.                                                            *)

\* What is accounted for is finite, and adds up to what was offered.
CountInv ==
    /\ IsFiniteSet(Spinning)
    /\ IsFiniteSet(AcceptedEvents)
    /\ OfferedAccounted

\* the places of a sequence of events at which no flush stands
Genuine(q) == {j \in 1 .. Len(q) : q[j].key # Flush}

LEMMA GenuineAppend ==
    ASSUME NEW q \in Seq(Event), NEW ev \in Event
    PROVE  /\ ev.key = Flush => Genuine(Append(q, ev)) = Genuine(q)
           /\ ev.key # Flush => Genuine(Append(q, ev)) = Genuine(q) \cup {Len(q) + 1}
           /\ Len(q) + 1 \notin Genuine(q)
<1>1. PICK n \in Nat : n = Len(q)
  OBVIOUS
<1>2. PICK a \in Seq(Event) : a = Append(q, ev)
  BY AppendProperties
<1>3. /\ Len(a) = n + 1 /\ a[n + 1] = ev
      /\ \A i \in 1 .. n : a[i] = q[i]
  BY <1>1, <1>2, AppendProperties
<1>4. ASSUME NEW j
      PROVE  j \in 1 .. n + 1 <=> j \in 1 .. n \/ j = n + 1
  <2>1. \A i \in 1 .. n + 1 : i \in 1 .. n \/ i = n + 1
    OBVIOUS
  <2>2. n + 1 \in 1 .. n + 1 /\ \A i \in 1 .. n : i \in 1 .. n + 1
    OBVIOUS
  <2> QED
    BY <2>1, <2>2
<1>5. \A j : j \in Genuine(a) <=> (j \in 1 .. n /\ q[j].key # Flush) \/ (j = n + 1 /\ ev.key # Flush)
  BY <1>3, <1>4 DEF Genuine
<1>6. \A j : j \in Genuine(q) <=> j \in 1 .. n /\ q[j].key # Flush
  BY <1>1 DEF Genuine
<1>7. n + 1 \notin 1 .. n
  OBVIOUS
<1> QED
  BY <1>1, <1>2, <1>5, <1>6, <1>7

LEMMA AcceptedAre ==
    \A x : x \in AcceptedEvents <=> \E s \in Shards : \E i \in Genuine(accepted[s]) : x = << s, i >>
  BY DEF AcceptedEvents, Genuine

LEMMA AcceptedAreNext ==
    \A x : x \in AcceptedEvents' <=> \E s \in Shards : \E i \in Genuine(accepted'[s]) : x = << s, i >>
  BY DEF AcceptedEvents, Genuine

\* An event a producer offered adds one to those accepted.
LEMMA AcceptsOne ==
    ASSUME TypeOK, NEW s \in Shards, NEW ev \in Event, ev.key # Flush,
           accepted' = [accepted EXCEPT ![s] = Append(@, ev)], IsFiniteSet(AcceptedEvents)
    PROVE  /\ IsFiniteSet(AcceptedEvents')
           /\ Cardinality(AcceptedEvents') = Cardinality(AcceptedEvents) + 1
<1>1. PICK q \in Seq(Event) : q = accepted[s]
  BY DEF TypeOK
<1>2. /\ Genuine(Append(q, ev)) = Genuine(q) \cup {Len(q) + 1}
      /\ Len(q) + 1 \notin Genuine(q)
  BY GenuineAppend
<1>3. accepted'[s] = Append(q, ev) /\ \A x \in Shards : x # s => accepted'[x] = accepted[x]
  BY <1>1 DEF TypeOK
<1>4. PICK new : new = << s, Len(q) + 1 >>
  OBVIOUS
<1>5. ASSUME NEW x
      PROVE  x \in AcceptedEvents' <=> x \in AcceptedEvents \/ x = new
  <2>1. ASSUME x \in AcceptedEvents' PROVE x \in AcceptedEvents \/ x = new
    <3>1. PICK z \in Shards : \E i \in Genuine(accepted'[z]) : x = << z, i >>
      BY <2>1, AcceptedAreNext, Zenon
    <3>2. PICK i \in Genuine(accepted'[z]) : x = << z, i >>
      BY <3>1
    <3>3. i \in Genuine(accepted[z]) \/ (z = s /\ i = Len(q) + 1)
      BY <1>1, <1>2, <1>3, <3>2
    <3> QED
      BY <1>4, <3>2, <3>3, AcceptedAre
  <2>2. ASSUME x \in AcceptedEvents PROVE x \in AcceptedEvents'
    <3>1. PICK z \in Shards : \E i \in Genuine(accepted[z]) : x = << z, i >>
      BY <2>2, AcceptedAre, Zenon
    <3>2. PICK i \in Genuine(accepted[z]) : x = << z, i >>
      BY <3>1
    <3>3. i \in Genuine(accepted'[z])
      BY <1>1, <1>2, <1>3, <3>2
    <3> QED
      BY <3>2, <3>3, AcceptedAreNext
  <2>3. ASSUME x = new PROVE x \in AcceptedEvents'
    BY <1>2, <1>3, <1>4, <2>3, AcceptedAreNext
  <2> QED
    BY <2>1, <2>2, <2>3
<1>6. AcceptedEvents' = AcceptedEvents \cup {new}
  BY <1>5
<1>7. new \notin AcceptedEvents
  <2>1. ASSUME new \in AcceptedEvents PROVE FALSE
    <3>1. PICK z \in Shards : \E i \in Genuine(accepted[z]) : new = << z, i >>
      BY <2>1, AcceptedAre, Zenon
    <3>2. PICK i \in Genuine(accepted[z]) : new = << z, i >>
      BY <3>1
    <3>3. z = s /\ i = Len(q) + 1
      BY <1>4, <3>2
    <3> QED
      BY <1>1, <1>2, <3>2, <3>3
  <2> QED
    BY <2>1
<1> QED
  BY <1>6, <1>7, FS_AddElement

\* A flush adds none.
LEMMA FlushAcceptsNone ==
    ASSUME TypeOK, FlushPending
    PROVE  AcceptedEvents' = AcceptedEvents
<1>1. NoEvent \in Event /\ NoEvent.key = Flush
  BY Values DEF NoEvent
<1>2. ASSUME NEW s \in Shards
      PROVE  Genuine(accepted'[s]) = Genuine(accepted[s])
  <2>1. accepted'[s] = Append(accepted[s], NoEvent) \/ accepted'[s] = accepted[s]
    <3>1. CASE UNCHANGED qVars
      BY <3>1 DEF qVars
    <3>2. ASSUME NEW x \in Shards, Push(x, NoEvent)
          PROVE  accepted'[s] = Append(accepted[s], NoEvent) \/ accepted'[s] = accepted[s]
      BY <3>2 DEF Push, TypeOK
    <3> QED
      BY <3>1, <3>2, FlushVisits
  <2>2. PICK q \in Seq(Event) : q = accepted[s]
    BY DEF TypeOK
  <2>3. Genuine(Append(q, NoEvent)) = Genuine(q)
    BY <1>1, GenuineAppend
  <2> QED
    BY <2>1, <2>2, <2>3
<1>3. \A x : x \in AcceptedEvents' <=> x \in AcceptedEvents
  BY <1>2, AcceptedAre, AcceptedAreNext
<1> QED
  BY <1>3

\* A step that moves events between the three accounts
LEMMA Balances ==
    ASSUME TypeOK, CountInv, NEW offered \in {0, 1}, NEW dropped \in {0, 1},
           NEW kept \in {0, 1}, NEW waits \in {-1, 0, 1}, offered = dropped + kept + waits,
           ingested' = ingested + offered, rejected' = rejected + dropped,
           IsFiniteSet(AcceptedEvents'), IsFiniteSet(Spinning'),
           Cardinality(AcceptedEvents') = Cardinality(AcceptedEvents) + kept,
           Cardinality(Spinning') = Cardinality(Spinning) + waits
    PROVE  CountInv'
<1>1. PICK a \in Nat : a = Cardinality(AcceptedEvents)
  BY FS_CardinalityType DEF CountInv
<1>2. PICK b \in Nat : b = Cardinality(Spinning)
  BY FS_CardinalityType DEF CountInv
<1>3. ingested \in Nat /\ rejected \in Nat /\ ingested = rejected + b + a
  BY <1>1, <1>2 DEF TypeOK, CountInv, OfferedAccounted
<1>4. ingested + offered = (rejected + dropped) + (b + waits) + (a + kept)
  BY <1>3
<1>5. OfferedAccounted'
  BY <1>1, <1>2, <1>4 DEF OfferedAccounted
<1> QED
  BY <1>5 DEF CountInv

\* An event offered is accepted, counted as dropped, or waits with its producer.
LEMMA IngestCounts ==
    ASSUME Inv, CountInv, NEW p \in Producers, NEW k \in Keys, NEW h \in BOOLEAN, Ingest(p, k, h)
    PROVE  CountInv'
<1> DEFINE s == ShardFor(k)
           ev == Offered(k, h)
<1>1. TypeOK /\ s \in Shards
  BY Values DEF Inv
<1>2. ev \in Event /\ ev.key = k /\ ev.key # Flush
  <2>1. ingested + 1 \in Nat
    BY <1>1 DEF TypeOK
  <2> QED
    BY <2>1, ShardsAssumption DEF Offered, Event
<1>3. ingested' = ingested + 1 /\ spin[p] = NoEvent
  BY DEF Ingest, IngestDrop, IngestPriority, IngestSample, IngestBlock, Offer
<1>4. IsFiniteSet(Spinning) /\ IsFiniteSet(AcceptedEvents)
  BY DEF CountInv
<1> HIDE DEF s, ev
<1>5. \/ accepted' = [accepted EXCEPT ![s] = Append(@, ev)] /\ rejected' = rejected /\ spin' = spin
      \/ accepted' = accepted /\ rejected' = rejected + 1 /\ spin' = spin
      \/ accepted' = accepted /\ rejected' = rejected /\ spin' = [spin EXCEPT ![p] = ev]
  BY DEF Ingest, IngestDrop, IngestPriority, IngestSample, IngestBlock, Push, EvictAndPush, Reject, qVars, s, ev
<1>6. CASE accepted' = [accepted EXCEPT ![s] = Append(@, ev)] /\ rejected' = rejected /\ spin' = spin
  <2>1. /\ IsFiniteSet(AcceptedEvents')
        /\ Cardinality(AcceptedEvents') = Cardinality(AcceptedEvents) + 1
    BY <1>1, <1>2, <1>4, <1>6, AcceptsOne
  <2>2. Spinning' = Spinning
    BY <1>6 DEF Spinning
  <2>3. PICK b \in Nat : b = Cardinality(Spinning)
    BY <1>4, FS_CardinalityType
  <2>4. rejected' = rejected + 0 /\ Cardinality(Spinning') = Cardinality(Spinning) + 0
    BY <1>1, <1>6, <2>2, <2>3 DEF TypeOK
  <2>5. 1 \in {0, 1} /\ 0 \in {0, 1} /\ 0 \in {-1, 0, 1} /\ 1 = 0 + 1 + 0
    OBVIOUS
  <2> QED
    BY <1>1, <1>3, <1>4, <2>1, <2>2, <2>4, <2>5, Balances
<1>7. CASE accepted' = accepted /\ rejected' = rejected + 1 /\ spin' = spin
  <2>1. AcceptedEvents' = AcceptedEvents /\ Spinning' = Spinning
    BY <1>7 DEF AcceptedEvents, Spinning
  <2>2. PICK b \in Nat : b = Cardinality(Spinning)
    BY <1>4, FS_CardinalityType
  <2>3. PICK a \in Nat : a = Cardinality(AcceptedEvents)
    BY <1>4, FS_CardinalityType
  <2>4. /\ Cardinality(AcceptedEvents') = Cardinality(AcceptedEvents) + 0
        /\ Cardinality(Spinning') = Cardinality(Spinning) + 0
    BY <2>1, <2>2, <2>3
  <2>5. 1 \in {0, 1} /\ 0 \in {0, 1} /\ 0 \in {-1, 0, 1} /\ 1 = 1 + 0 + 0
    OBVIOUS
  <2> QED
    BY <1>1, <1>3, <1>4, <1>7, <2>1, <2>4, <2>5, Balances
<1>8. CASE accepted' = accepted /\ rejected' = rejected /\ spin' = [spin EXCEPT ![p] = ev]
  <2>1. AcceptedEvents' = AcceptedEvents
    BY <1>8 DEF AcceptedEvents
  <2>2. Spinning' = Spinning \cup {p} /\ p \notin Spinning
    <3>1. ev # NoEvent
      BY <1>2 DEF NoEvent
    <3> QED
      BY <1>1, <1>3, <1>8, <3>1 DEF Spinning, TypeOK
  <2>3. IsFiniteSet(Spinning') /\ Cardinality(Spinning') = Cardinality(Spinning) + 1
    BY <1>4, <2>2, FS_AddElement
  <2>4. PICK a \in Nat : a = Cardinality(AcceptedEvents)
    BY <1>4, FS_CardinalityType
  <2>5. rejected' = rejected + 0 /\ Cardinality(AcceptedEvents') = Cardinality(AcceptedEvents) + 0
    BY <1>1, <1>8, <2>1, <2>4 DEF TypeOK
  <2>6. 1 \in {0, 1} /\ 0 \in {0, 1} /\ 1 \in {-1, 0, 1} /\ 1 = 0 + 0 + 1
    OBVIOUS
  <2> QED
    BY <1>1, <1>3, <1>4, <2>1, <2>3, <2>5, <2>6, Balances
<1> QED
  BY <1>5, <1>6, <1>7, <1>8

\* The event a producer waited with is accepted.
LEMMA SpinCounts ==
    ASSUME Inv, CountInv, NEW p \in Producers, SpinPush(p)
    PROVE  CountInv'
<1>1. TypeOK /\ spin[p] # NoEvent /\ spin[p] \in Event
  BY DEF Inv, TypeOK, SpinPush
<1>2. spin[p].key \in Keys /\ spin[p].key # Flush
  BY <1>1, ShardsAssumption DEF Inv, SpinInv
<1>3. ShardFor(spin[p].key) \in Shards
  BY <1>2, Values
<1>4. IsFiniteSet(Spinning) /\ IsFiniteSet(AcceptedEvents)
  BY DEF CountInv
<1>5. /\ IsFiniteSet(AcceptedEvents')
      /\ Cardinality(AcceptedEvents') = Cardinality(AcceptedEvents) + 1
  BY <1>1, <1>2, <1>3, <1>4, AcceptsOne DEF SpinPush, Push
<1>6. Spinning' = Spinning \ {p} /\ p \in Spinning
  BY <1>1 DEF SpinPush, Spinning, TypeOK
<1>7. IsFiniteSet(Spinning') /\ Cardinality(Spinning') = Cardinality(Spinning) - 1
  BY <1>4, <1>6, FS_RemoveElement
<1>8. PICK b \in Nat : b = Cardinality(Spinning)
  BY <1>4, FS_CardinalityType
<1>9. ingested' = ingested + 0 /\ rejected' = rejected + 0 /\ Cardinality(Spinning') = Cardinality(Spinning) + (-1)
  BY <1>1, <1>7, <1>8 DEF SpinPush, TypeOK
<1>10. 1 \in {0, 1} /\ 0 \in {0, 1} /\ -1 \in {-1, 0, 1} /\ 0 = 0 + 1 + (-1)
  OBVIOUS
<1> QED
  BY <1>1, <1>5, <1>7, <1>9, <1>10, Balances

LEMMA CountStep ==
    ASSUME Inv, CountInv, [Next]_vars
    PROVE  CountInv'
<1>1. CASE UNCHANGED << accepted, ingested, rejected, spin >>
  <2>1. AcceptedEvents' = AcceptedEvents /\ Spinning' = Spinning
    BY <1>1 DEF AcceptedEvents, Spinning
  <2> QED
    BY <1>1, <2>1 DEF CountInv, OfferedAccounted
<1>2. ASSUME NEW p \in Producers, NEW k \in Keys, NEW h \in BOOLEAN, Ingest(p, k, h)
      PROVE  CountInv'
  BY <1>2, IngestCounts
<1>3. ASSUME NEW p \in Producers, SpinPush(p)
      PROVE  CountInv'
  BY <1>3, SpinCounts
<1>4. CASE FlushPending
  <2>1. AcceptedEvents' = AcceptedEvents
    BY <1>4, FlushAcceptsNone DEF Inv
  <2>2. Spinning' = Spinning /\ ingested' = ingested /\ rejected' = rejected
    BY <1>4 DEF FlushPending, Spinning
  <2> QED
    BY <2>1, <2>2 DEF CountInv, OfferedAccounted
<1>5. ASSUME NEW s \in Shards, NEW t \in Threads, WorkerStep(s, t) \/ Hang(s, t)
      PROVE  UNCHANGED << accepted, ingested, rejected, spin >>
  BY <1>5 DEF WorkerStep, Hang, LoopTest, PopEvent, PopNothing, IdleTest, FinishEvent, countVars, qVars
<1>6. CASE WatchdogStep
  BY <1>1, <1>6 DEF WatchdogStep, WatchdogWake, SeeBeat, MissBeat, BeginRestart, SkipRestart,
                    FinishRestart, countVars, qVars
<1>7. CASE ShutdownCall \/ ShutdownStep
  BY <1>1, <1>7 DEF ShutdownCall, ShutdownStep, JoinWatchdog, CloseShard, JoinWorkers, countVars, qVars
<1>8. CASE UNCHANGED vars
  BY <1>1, <1>8 DEF vars, countVars, qVars
<1> QED
  BY <1>1, <1>2, <1>3, <1>4, <1>5, <1>6, <1>7, <1>8 DEF Next

\* Every event offered to ingest() is accepted by one queue, counted in
\* total_dropped_, or waits with its producer: no policy, no race of producers with
\* workers, watchdog, flush or shutdown() loses one silently.
THEOREM EveryOfferAccounted == Spec => []OfferedAccounted
<1>1. Init => CountInv
  <2> SUFFICES ASSUME Init PROVE CountInv
    OBVIOUS
  <2>1. Spinning = {}
    BY DEF Init, Spinning
  <2>2. \A s \in Shards : Genuine(accepted[s]) = {}
    BY DEF Init, Genuine
  <2>3. AcceptedEvents = {}
    BY <2>2, AcceptedAre
  <2>4. ingested = 0 /\ rejected = 0
    BY DEF Init
  <2> QED
    BY <2>1, <2>3, <2>4, FS_EmptySet DEF CountInv, OfferedAccounted
<1>2. Inv /\ CountInv /\ [Next]_vars => CountInv'
  BY CountStep
<1>3. CountInv => OfferedAccounted
  BY DEF CountInv
<1> QED
  BY Invariance, <1>1, <1>2, <1>3, PTL DEF Spec
=============================================================================

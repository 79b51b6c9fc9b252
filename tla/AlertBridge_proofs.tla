-------------------------- MODULE AlertBridge_proofs --------------------------
(***************************************************************************)
(* Proofs about AlertBridge for any users, shards, queue depth and sizes   *)
(* of batches: types, and that every alert a worker raised is in exactly   *)
(* one place.                                                              *)
(*                                                                         *)
(* The invariant follows an event from the batch that brings it through    *)
(* the queue and the worker to the alert: its number is used once, so that *)
(* two places never hold the same event, and the sequences that carry      *)
(* alerts repeat none.                                                     *)
(***************************************************************************)
EXTENDS AlertBridge, SequenceTheorems, TLAPS

-----------------------------------------------------------------------------
(* The inductive invariant.                                                 *)

Calls == [at : {"none", "ingest", "map"}, single : BOOLEAN, user : Users \cup {Nothing},
          batch : Seq(Event), i : Nat, alerts : Seq(Event)]
Doing == [at : {"idle", "busy", "alert"}, ev : Event \cup {Nothing}]

\* The ranges of the variables; a busy worker has an event, and a call that is
\* not there has nothing.
TypeInv ==
    /\ queue \in [Users -> [Shards -> Seq(Event)]]
    /\ worker \in [Users -> [Shards -> Doing]]
    /\ \A u \in Users, s \in Shards : worker[u][s].at # "idle" => worker[u][s].ev \in Event
    /\ mu \in BOOLEAN
    /\ pending \in Seq(Event)
    /\ call \in Calls
    /\ call.at = "none" => call = NoCall
    /\ call.at # "none" => call.user \in Users
    /\ next \in Nat

HistoryTypeInv ==
    /\ raised \subseteq Event /\ capped \subseteq Event /\ garbled \subseteq Event
    /\ \A r \in rows : r.event \in Event /\ r.alert \in Event \cup {Nothing}

\* The events of the batch have the last numbers given out; the first of those
\* still to be handed over, or the next event, has the number Frontier.
Frontier == IF call.at = "ingest" THEN next - Len(call.batch) + call.i - 1 ELSE next

BatchInv ==
    call.at = "ingest" =>
        /\ call.i \in 1 .. Len(call.batch) + 1
        /\ call.alerts = <<>>
        /\ \A k \in 1 .. Len(call.batch) : call.batch[k].n = next - Len(call.batch) + k - 1

\* Every event that was handed over has a smaller number, and it is in one
\* place: at one position of a queue, with one worker, or raised.
QueueInv ==
    \A u \in Users, s \in Shards : \A k \in 1 .. Len(queue[u][s]) :
        /\ queue[u][s][k].n < Frontier
        /\ queue[u][s][k] \notin raised
        /\ \A v \in Users, t \in Shards : \A l \in 1 .. Len(queue[v][t]) :
               queue[u][s][k] = queue[v][t][l] => u = v /\ s = t /\ k = l

WorkerInv ==
    \A u \in Users, s \in Shards : worker[u][s].at # "idle" =>
        /\ worker[u][s].ev.n < Frontier
        /\ worker[u][s].ev \notin raised
        /\ \A v \in Users, t \in Shards :
               /\ worker[v][t].at # "idle" /\ worker[u][s].ev = worker[v][t].ev
                      => u = v /\ s = t
               /\ \A l \in 1 .. Len(queue[v][t]) : queue[v][t][l] # worker[u][s].ev

RaisedInv == \A e \in raised : e.n < Frontier

\* A sequence without repetition
Distinct(q) == \A k, l \in 1 .. Len(q) : q[k] = q[l] => k = l

\* Where a raised alert is.
PlaceInv ==
    /\ Distinct(pending) /\ Distinct(call.alerts)
    /\ raised = SeqRange(pending) \cup SeqRange(call.alerts) \cup Named \cup capped \cup garbled
    /\ SeqRange(pending) \cap (SeqRange(call.alerts) \cup Named \cup capped \cup garbled) = {}
    /\ SeqRange(call.alerts) \cap (Named \cup capped \cup garbled) = {}
    /\ Named \cap (capped \cup garbled) = {}
    /\ capped \cap garbled = {}
    /\ \A r, q \in rows : r.alert = q.alert /\ r.alert # Nothing => r = q

Inv == /\ TypeInv /\ HistoryTypeInv
       /\ BatchInv /\ QueueInv /\ WorkerInv /\ RaisedInv
       /\ PlaceInv

-----------------------------------------------------------------------------
(* The queues, the workers and the numbers.                                 *)

\* The number of the next event to be handed over is a number.
LEMMA FrontierType == ASSUME TypeInv PROVE Frontier \in Int
<1>1. Len(call.batch) \in Nat /\ call.i \in Nat /\ next \in Nat
  BY DEF TypeInv, Calls
<1> QED
  BY <1>1 DEF Frontier

\* The queues hold events.
LEMMA QueueType ==
    ASSUME TypeInv, NEW u \in Users, NEW s \in Shards
    PROVE  /\ queue[u][s] \in Seq(Event) /\ Len(queue[u][s]) \in Nat
           /\ \A k \in 1 .. Len(queue[u][s]) : queue[u][s][k] \in Event
<1>1. queue[u][s] \in Seq(Event)
  BY DEF TypeInv
<1> QED
  BY <1>1

\* The parts of the call have their types.
LEMMA CallParts ==
    ASSUME TypeInv
    PROVE  /\ call.batch \in Seq(Event) /\ Len(call.batch) \in Nat
           /\ call.alerts \in Seq(Event) /\ Len(call.alerts) \in Nat
           /\ call.i \in Nat /\ next \in Nat /\ call.single \in BOOLEAN
<1>1. call.batch \in Seq(Event) /\ call.alerts \in Seq(Event)
  BY DEF TypeInv, Calls
<1>2. call.i \in Nat /\ next \in Nat /\ call.single \in BOOLEAN
  BY DEF TypeInv, Calls
<1> QED
  BY <1>1, <1>2

\* A batch with the next numbers may begin.
LEMMA BeginWith ==
    ASSUME Inv, NEW u \in Users, NEW single \in BOOLEAN, NEW batch \in Seq(Event),
           NEW n \in Nat, n = next, NEW m \in Nat, m = Len(batch),
           \A k \in 1 .. m : batch[k].n = n + k - 1,
           call.at = "none", next' = n + m, mu' = TRUE,
           call' = [at |-> "ingest", single |-> single, user |-> u, batch |-> batch, i |-> 1,
                    alerts |-> <<>>],
           UNCHANGED << queue, worker, pending, history >>
    PROVE  Inv'
<1>1. /\ call'.at = "ingest" /\ call'.batch = batch /\ call'.i = 1 /\ call'.alerts = <<>>
      /\ call'.user = u
  OBVIOUS
<1>2. call.alerts = <<>>
  BY DEF Inv, TypeInv, NoCall
<1>3. Frontier' = Frontier
  <2>1. Frontier' = n + m - m + 1 - 1
    BY <1>1 DEF Frontier
  <2>2. Frontier = n
    BY DEF Frontier
  <2> QED
    BY <2>1, <2>2
<1>4. TypeInv' /\ HistoryTypeInv'
  <2>1. call' \in Calls
    BY DEF Calls
  <2>2. next' \in Nat
    OBVIOUS
  <2> QED
    BY <1>1, <2>1, <2>2 DEF Inv, TypeInv, HistoryTypeInv, history
<1>5. BatchInv'
  <2>1. 1 \in 1 .. m + 1
    OBVIOUS
  <2>2. \A k \in 1 .. m : batch[k].n = n + m - m + k - 1
    OBVIOUS
  <2> QED
    BY <1>1, <2>1, <2>2 DEF BatchInv
<1>6. QueueInv' /\ WorkerInv' /\ RaisedInv'
  BY <1>3 DEF Inv, QueueInv, WorkerInv, RaisedInv, history
<1>7. PlaceInv'
  BY <1>1, <1>2 DEF Inv, PlaceInv, Named, history
<1> QED
  BY <1>4, <1>5, <1>6, <1>7 DEF Inv

\* A call begins with the next numbers.
LEMMA BeginStep ==
    ASSUME Inv, NEW u \in Users, BeginCall(u) \/ BeginSingle(u)
    PROVE  Inv'
<1>1. ASSUME NEW single \in BOOLEAN, NEW m \in Nat, NEW large, Begin(u, single, m, large)
      PROVE  Inv'
  <2> DEFINE batch == [i \in 1 .. m |-> [n |-> next + i - 1, user |-> u, large |-> i \in large]]
  <2>1. next \in Nat
    BY CallParts DEF Inv
  <2>2. \A i \in 1 .. m : [n |-> next + i - 1, user |-> u, large |-> i \in large] \in Event
    BY <2>1 DEF Event
  <2>3. /\ batch \in Seq(Event) /\ Len(batch) = m
        /\ \A k \in 1 .. m : batch[k].n = next + k - 1
    BY <2>2
  <2>4. /\ call.at = "none" /\ next' = next + m /\ mu' = TRUE
        /\ UNCHANGED << queue, worker, pending, history >>
    BY <1>1 DEF Begin
  <2>5. call' = [at |-> "ingest", single |-> single, user |-> u, batch |-> batch, i |-> 1,
                 alerts |-> <<>>]
    BY <1>1 DEF Begin, NoCall
  <2> HIDE DEF batch
  <2> QED
    BY <2>1, <2>3, <2>4, <2>5, BeginWith
<1>2. CASE BeginCall(u)
  <2>1. PICK m \in 1 .. BatchMax : \E large \in SUBSET (1 .. m) : Begin(u, FALSE, m, large)
    BY <1>2 DEF BeginCall
  <2>2. m \in Nat
    BY BridgeAssumption
  <2> QED
    BY <1>1, <2>1, <2>2
<1>3. CASE BeginSingle(u)
  BY <1>1, <1>3 DEF BeginSingle
<1> QED
  BY <1>2, <1>3

\* Handing an event over, or being refused, moves on to the next number: the
\* event is not yet anywhere else, as its number is larger than all others.
LEMMA IngestMoves ==
    ASSUME Inv, NEW s \in Shards, IngestEvent(s) \/ IngestRefused(s)
    PROVE  /\ call.user \in Users /\ call.batch[call.i] \in Event
           /\ Frontier \in Int /\ Frontier' = Frontier + 1
           /\ call.batch[call.i].n = Frontier
           /\ call' \in Calls
           /\ call'.at = "ingest" /\ call'.user = call.user /\ call'.alerts = call.alerts
           /\ BatchInv'
<1>1. /\ call.at = "ingest" /\ call.i <= Len(call.batch)
      /\ call' = [call EXCEPT !.i = @ + 1]
      /\ next' = next
  BY DEF IngestEvent, IngestRefused
<1> PICK n \in Nat : n = next
  BY CallParts DEF Inv
<1> PICK i \in Nat : i = call.i
  BY CallParts DEF Inv
<1> PICK batch \in Seq(Event) : batch = call.batch
  BY CallParts DEF Inv
<1> PICK m \in Nat : m = Len(batch)
  OBVIOUS
<1>2. /\ i \in 1 .. m /\ call.alerts = <<>>
      /\ \A k \in 1 .. m : batch[k].n = n - m + k - 1
  BY <1>1 DEF Inv, BatchInv
<1>3. batch[i] \in Event
  BY <1>2
<1>4. /\ call'.at = "ingest" /\ call'.user = call.user /\ call'.alerts = call.alerts
      /\ call'.batch = batch /\ call'.i = i + 1 /\ call'.single = call.single
  BY <1>1 DEF Inv, TypeInv
<1>5. call' \in Calls
  <2> PICK j \in Nat : j = i + 1
    OBVIOUS
  <2>1. call' = [call EXCEPT !.i = j]
    BY <1>1
  <2> QED
    BY <2>1 DEF Inv, TypeInv, Calls
<1>6. Frontier = n - m + i - 1 /\ Frontier' = n - m + (i + 1) - 1
  BY <1>1, <1>4 DEF Frontier
<1>7. BatchInv'
  <2>1. i + 1 \in 1 .. m + 1
    BY <1>2
  <2> QED
    BY <1>1, <1>2, <1>4, <2>1 DEF BatchInv
<1>8. batch[i].n = n - m + i - 1
  BY <1>2
<1>9. call.user \in Users
  BY <1>1 DEF Inv, TypeInv
<1>10. Frontier \in Int /\ Frontier' = Frontier + 1
  BY <1>6, SMTT(30)
<1> QED
  BY <1>3, <1>4, <1>5, <1>6, <1>7, <1>8, <1>9, <1>10

LEMMA IngestStep ==
    ASSUME Inv, NEW s \in Shards, IngestEvent(s) \/ IngestRefused(s)
    PROVE  Inv'
<1> PICK u \in Users : u = call.user
  BY IngestMoves
<1> PICK e \in Event : e = call.batch[call.i]
  BY IngestMoves
<1> PICK f \in Int : f = Frontier
  BY IngestMoves
<1>1. /\ UNCHANGED << worker, mu, pending, next, history >>
      /\ \/ UNCHANGED queue
         \/ queue' = [queue EXCEPT ![u][s] = Append(queue[u][s], e)]
  BY DEF IngestEvent, IngestRefused
<1>2. e.n = f /\ Frontier' = f + 1
  BY IngestMoves
<1>3. /\ call' \in Calls
      /\ call'.at = "ingest" /\ call'.user = u /\ call'.alerts = call.alerts
      /\ BatchInv'
  BY IngestMoves
<1>4. PlaceInv'
  BY <1>1, <1>3 DEF Inv, PlaceInv, Named, history
<1>5. ASSUME NEW x \in Event, x.n < f PROVE x.n < f + 1 /\ x # e
  BY <1>2, <1>5 DEF Event
<1>6. RaisedInv' /\ e \notin raised
  <2>1. \A x \in raised : x \in Event /\ x.n < f
    BY DEF Inv, HistoryTypeInv, RaisedInv
  <2> QED
    BY <1>1, <1>2, <1>5, <2>1 DEF RaisedInv, history
<1>7. \A v \in Users, t \in Shards : \A k \in 1 .. Len(queue[v][t]) :
          queue[v][t][k].n < f + 1 /\ queue[v][t][k] # e
  BY <1>5, QueueType DEF Inv, QueueInv
<1>8. \A v \in Users, t \in Shards : worker[v][t].at # "idle" =>
          worker[v][t].ev.n < f + 1 /\ worker[v][t].ev # e
  BY <1>5 DEF Inv, TypeInv, WorkerInv
<1>9. CASE UNCHANGED queue
  <2>1. TypeInv' /\ HistoryTypeInv'
    BY <1>1, <1>3, <1>9 DEF Inv, TypeInv, HistoryTypeInv, history
  <2>2. QueueInv'
    BY <1>1, <1>2, <1>7, <1>9 DEF Inv, QueueInv, history
  <2>3. WorkerInv'
    BY <1>1, <1>2, <1>8, <1>9 DEF Inv, WorkerInv, history
  <2> QED
    BY <1>3, <1>4, <1>6, <2>1, <2>2, <2>3 DEF Inv
<1>10. CASE queue' = [queue EXCEPT ![u][s] = Append(queue[u][s], e)]
  <2> PICK old \in Seq(Event) : old = queue[u][s]
    BY QueueType DEF Inv
  <2> PICK q \in Seq(Event) : q = Append(old, e)
    BY AppendProperties
  <2> PICK m \in Nat : m = Len(old)
    OBVIOUS
  <2>1. /\ queue' \in [Users -> [Shards -> Seq(Event)]]
        /\ queue'[u][s] = q
        /\ \A v \in Users, t \in Shards : ~(v = u /\ t = s) => queue'[v][t] = queue[v][t]
    <3>1. Append(queue[u][s], e) = q
      OBVIOUS
    <3> QED
      BY <1>10, <3>1 DEF Inv, TypeInv
  <2>2. /\ Len(q) = m + 1 /\ q[m + 1] = e
        /\ \A k \in 1 .. m : q[k] = old[k]
    BY AppendProperties
  <2>3. ASSUME NEW v \in Users, NEW t \in Shards, NEW k \in 1 .. Len(queue'[v][t])
        PROVE  \/ v = u /\ t = s /\ k = m + 1 /\ queue'[v][t][k] = e
               \/ k \in 1 .. Len(queue[v][t]) /\ queue'[v][t][k] = queue[v][t][k]
    <3>1. CASE v = u /\ t = s
      <4>1. queue'[v][t] = q /\ queue[v][t] = old
        BY <2>1, <3>1
      <4>2. k \in 1 .. m \/ k = m + 1
        BY <2>2, <4>1
      <4>3. CASE k \in 1 .. m
        BY <2>2, <4>1, <4>3
      <4>4. CASE k = m + 1
        BY <2>2, <3>1, <4>1, <4>4
      <4> QED
        BY <4>2, <4>3, <4>4
    <3>2. CASE ~(v = u /\ t = s)
      BY <2>1, <3>2
    <3> QED
      BY <3>1, <3>2
  <2>4. TypeInv' /\ HistoryTypeInv'
    BY <1>1, <1>3, <2>1 DEF Inv, TypeInv, HistoryTypeInv, history
  <2>5. QueueInv'
    <3>1. ASSUME NEW v \in Users, NEW t \in Shards, NEW k \in 1 .. Len(queue'[v][t])
          PROVE  queue'[v][t][k].n < f + 1 /\ queue'[v][t][k] \notin raised
      <4>1. e.n < f + 1
        BY <1>2
      <4>2. CASE v = u /\ t = s /\ k = m + 1 /\ queue'[v][t][k] = e
        BY <1>6, <1>7, <4>1, <4>2
      <4>3. CASE k \in 1 .. Len(queue[v][t]) /\ queue'[v][t][k] = queue[v][t][k]
        <5>1. queue[v][t][k].n < f /\ queue[v][t][k] \notin raised
          BY <4>3 DEF Inv, QueueInv
        <5>2. queue[v][t] \in Seq(Event)
          BY QueueType DEF Inv
        <5>3. queue[v][t][k] \in Event
          BY <4>3, <5>2
        <5>4. queue[v][t][k].n < f + 1
          BY <1>5, <5>1, <5>3
        <5> QED
          BY <4>3, <5>1, <5>4
      <4> QED
        BY <2>3, <4>2, <4>3
    <3>2. ASSUME NEW v \in Users, NEW t \in Shards, NEW k \in 1 .. Len(queue'[v][t]),
                 NEW w \in Users, NEW z \in Shards, NEW l \in 1 .. Len(queue'[w][z]),
                 queue'[v][t][k] = queue'[w][z][l]
          PROVE  v = w /\ t = z /\ k = l
      <4>1. \/ v = u /\ t = s /\ k = m + 1 /\ queue'[v][t][k] = e
            \/ k \in 1 .. Len(queue[v][t]) /\ queue'[v][t][k] = queue[v][t][k]
        BY <2>3
      <4>2. \/ w = u /\ z = s /\ l = m + 1 /\ queue'[w][z][l] = e
            \/ l \in 1 .. Len(queue[w][z]) /\ queue'[w][z][l] = queue[w][z][l]
        BY <2>3
      <4>3. CASE k \in 1 .. Len(queue[v][t]) /\ l \in 1 .. Len(queue[w][z])
                 /\ queue[v][t][k] = queue[w][z][l]
        BY <4>3 DEF Inv, QueueInv
      <4> QED
        BY <1>7, <3>2, <4>1, <4>2, <4>3
    <3> QED
      BY <1>1, <1>2, <3>1, <3>2, SMTT(30) DEF QueueInv, history
  <2>6. WorkerInv'
    <3>1. ASSUME NEW v \in Users, NEW t \in Shards, worker[v][t].at # "idle",
                 NEW w \in Users, NEW z \in Shards, NEW l \in 1 .. Len(queue'[w][z])
          PROVE  queue'[w][z][l] # worker[v][t].ev
      BY <1>8, <2>3, <3>1 DEF Inv, WorkerInv
    <3> QED
      BY <1>1, <1>2, <1>8, <3>1 DEF Inv, WorkerInv, history
  <2> QED
    BY <1>3, <1>4, <1>6, <2>4, <2>5, <2>6 DEF Inv
<1> QED
  BY <1>1, <1>9, <1>10

-----------------------------------------------------------------------------
(* The worker threads.                                                      *)

\* A worker takes the first event of its queue: it is nowhere else in a queue.
LEMMA TakeStep ==
    ASSUME Inv, NEW u \in Users, NEW s \in Shards, WorkerTake(u, s)
    PROVE  Inv'
<1> PICK old \in Seq(Event) : old = queue[u][s]
  BY QueueType DEF Inv
<1>1. /\ worker[u][s].at = "idle" /\ old # <<>>
      /\ worker' = [worker EXCEPT ![u][s] = [at |-> "busy", ev |-> Head(queue[u][s])]]
      /\ queue' = [queue EXCEPT ![u][s] = Tail(queue[u][s])]
      /\ UNCHANGED << mu, pending, call, next, history >>
  BY DEF WorkerTake
<1> PICK q \in Seq(Event) : q = Tail(old)
  <2>1. Tail(old) \in Seq(Event)
    BY <1>1, HeadTailProperties
  <2> QED
    BY <2>1
<1> PICK e \in Event : e = Head(old)
  <2>1. Head(old) \in Event
    BY <1>1, HeadTailProperties
  <2> QED
    BY <2>1
<1> PICK m \in Nat : m = Len(q)
  <2>1. ASSUME NEW x \in Seq(Event) PROVE Len(x) \in Nat
    OBVIOUS
  <2>2. Len(q) \in Nat
    BY <2>1, Zenon
  <2> QED
    BY <2>2, Zenon
<1>2. /\ Len(old) = m + 1 /\ old[1] = e
      /\ \A k \in 1 .. m : q[k] = old[k + 1]
  <2>1. /\ Len(old) \in Nat /\ Len(old) # 0
        /\ Len(Tail(old)) = Len(old) - 1
        /\ \A k \in 1 .. Len(Tail(old)) : Tail(old)[k] = old[k + 1]
    BY <1>1, HeadTailProperties
  <2>2. Head(old) = old[1]
    BY <1>1
  <2> QED
    BY <2>1, <2>2
<1>3. /\ queue' \in [Users -> [Shards -> Seq(Event)]]
      /\ queue'[u][s] = q
      /\ \A v \in Users, t \in Shards : ~(v = u /\ t = s) => queue'[v][t] = queue[v][t]
  <2>1. Tail(queue[u][s]) = q
    OBVIOUS
  <2> QED
    BY <1>1, <2>1 DEF Inv, TypeInv
<1>4. /\ worker' \in [Users -> [Shards -> Doing]]
      /\ worker'[u][s].at = "busy" /\ worker'[u][s].ev = e
      /\ \A v \in Users, t \in Shards : ~(v = u /\ t = s) => worker'[v][t] = worker[v][t]
  <2>1. Head(queue[u][s]) = e
    OBVIOUS
  <2>2. [at |-> "busy", ev |-> e] \in Doing
    BY DEF Doing
  <2> QED
    BY <1>1, <2>1, <2>2 DEF Inv, TypeInv
<1>5. Frontier' = Frontier /\ UNCHANGED << call, history, raised, mu, pending, next >>
  BY <1>1 DEF Frontier, history
\* every entry of the new queues is one of the old ones, at a later position of
\* the same queue, and never the first of this one
<1>6. ASSUME NEW v \in Users, NEW t \in Shards, NEW k \in 1 .. Len(queue'[v][t])
      PROVE  \E l \in 1 .. Len(queue[v][t]) :
                 /\ queue'[v][t][k] = queue[v][t][l]
                 /\ IF v = u /\ t = s THEN l = k + 1 ELSE l = k
  <2>1. CASE v = u /\ t = s
    <3>1. k \in 1 .. m
      BY <1>3, <2>1
    <3>2. k + 1 \in 1 .. m + 1
      BY <3>1
    <3> QED
      BY <1>2, <1>3, <2>1, <3>1, <3>2
  <2>2. CASE ~(v = u /\ t = s)
    BY <1>3, <2>2
  <2> QED
    BY <2>1, <2>2
<1>7. /\ e.n < Frontier /\ e \notin raised
      /\ \A v \in Users, t \in Shards : \A l \in 1 .. Len(queue[v][t]) :
             queue[v][t][l] = e => v = u /\ t = s /\ l = 1
      /\ \A v \in Users, t \in Shards : worker[v][t].at # "idle" => worker[v][t].ev # e
  <2>1. 1 \in 1 .. Len(queue[u][s]) /\ queue[u][s][1] = e
    BY <1>2
  <2> QED
    BY <2>1 DEF Inv, QueueInv, WorkerInv
<1>8. \A v \in Users, t \in Shards : \A k \in 1 .. Len(queue'[v][t]) : queue'[v][t][k] # e
  <2> SUFFICES ASSUME NEW v \in Users, NEW t \in Shards, NEW k \in 1 .. Len(queue'[v][t]),
                      queue'[v][t][k] = e
               PROVE  FALSE
    OBVIOUS
  <2>1. PICK l \in 1 .. Len(queue[v][t]) :
                 /\ queue'[v][t][k] = queue[v][t][l]
                 /\ IF v = u /\ t = s THEN l = k + 1 ELSE l = k
    BY <1>6
  <2>2. v = u /\ t = s /\ l = 1
    BY <1>7, <2>1
  <2>3. k \in Nat /\ k # 0
    OBVIOUS
  <2> QED
    BY <2>1, <2>2, <2>3
<1>9. TypeInv' /\ HistoryTypeInv'
  BY <1>3, <1>4, <1>5, ZenonT(60) DEF Inv, TypeInv, HistoryTypeInv, history
<1>10. QueueInv'
  <2>1. ASSUME NEW v \in Users, NEW t \in Shards, NEW k \in 1 .. Len(queue'[v][t])
        PROVE  queue'[v][t][k].n < Frontier /\ queue'[v][t][k] \notin raised
    <3>1. PICK l \in 1 .. Len(queue[v][t]) : queue'[v][t][k] = queue[v][t][l]
      BY <1>6
    <3> QED
      BY <3>1 DEF Inv, QueueInv
  <2>2. ASSUME NEW v \in Users, NEW t \in Shards, NEW k \in 1 .. Len(queue'[v][t]),
               NEW w \in Users, NEW z \in Shards, NEW l \in 1 .. Len(queue'[w][z]),
               queue'[v][t][k] = queue'[w][z][l]
        PROVE  v = w /\ t = z /\ k = l
    <3>1. PICK kk \in 1 .. Len(queue[v][t]) :
                 /\ queue'[v][t][k] = queue[v][t][kk]
                 /\ IF v = u /\ t = s THEN kk = k + 1 ELSE kk = k
      BY <1>6
    <3>2. PICK ll \in 1 .. Len(queue[w][z]) :
                 /\ queue'[w][z][l] = queue[w][z][ll]
                 /\ IF w = u /\ z = s THEN ll = l + 1 ELSE ll = l
      BY <1>6
    <3>3. queue[v][t][kk] = queue[w][z][ll]
      BY <2>2, <3>1, <3>2
    <3>3a. v = w /\ t = z /\ kk = ll
      BY <3>3 DEF Inv, QueueInv
    <3>4. k \in Int /\ l \in Int
      OBVIOUS
    <3> QED
      BY <3>1, <3>2, <3>3a, <3>4
  <2> QED
    BY <1>5, <2>1, <2>2, SMTT(30) DEF QueueInv
<1>11. WorkerInv'
  <2>1. ASSUME NEW v \in Users, NEW t \in Shards, worker'[v][t].at # "idle"
        PROVE  /\ worker'[v][t].ev.n < Frontier /\ worker'[v][t].ev \notin raised
               /\ \A w \in Users, z \in Shards : \A l \in 1 .. Len(queue'[w][z]) :
                      queue'[w][z][l] # worker'[v][t].ev
    <3>1. CASE v = u /\ t = s
      BY <1>4, <1>7, <1>8, <3>1
    <3>2. CASE ~(v = u /\ t = s)
      BY <1>4, <1>6, <2>1, <3>2 DEF Inv, WorkerInv
    <3> QED
      BY <3>1, <3>2
  <2>2. ASSUME NEW v \in Users, NEW t \in Shards, NEW w \in Users, NEW z \in Shards,
               worker'[v][t].at # "idle", worker'[w][z].at # "idle",
               worker'[v][t].ev = worker'[w][z].ev
        PROVE  v = w /\ t = z
    <3>1. CASE ~(v = u /\ t = s) /\ ~(w = u /\ z = s)
      BY <1>4, <2>2, <3>1 DEF Inv, WorkerInv
    <3>2. CASE v = u /\ t = s
      BY <1>4, <1>7, <2>2, <3>2
    <3>3. CASE w = u /\ z = s
      BY <1>4, <1>7, <2>2, <3>3
    <3> QED
      BY <3>1, <3>2, <3>3
  <2> QED
    BY <1>5, <2>1, <2>2 DEF WorkerInv
<1>12. BatchInv' /\ RaisedInv' /\ PlaceInv'
  BY <1>5 DEF Inv, BatchInv, RaisedInv, PlaceInv, Named, history
<1> QED
  BY <1>9, <1>10, <1>11, <1>12 DEF Inv

\* A worker that raises nothing forgets its event; one that raises an alert goes
\* on holding it until the callback has the lock.
LEMMA WorkerGoesOn ==
    ASSUME Inv, NEW u \in Users, NEW s \in Shards, WorkerSilent(u, s) \/ WorkerAlert(u, s)
    PROVE  Inv'
<1>1. /\ worker[u][s].at = "busy"
      /\ UNCHANGED << queue, mu, pending, call, next, history >>
  BY DEF WorkerSilent, WorkerAlert
<1>2. worker[u][s] \in Doing
  BY DEF Inv, TypeInv
<1>3. PICK w \in Doing : /\ worker' = [worker EXCEPT ![u][s] = w]
                         /\ w.at # "idle" => w.ev = worker[u][s].ev
  <2>1. CASE WorkerSilent(u, s)
    <3>1. [at |-> "idle", ev |-> Nothing] \in Doing
      BY DEF Doing
    <3> QED
      BY <2>1, <3>1 DEF WorkerSilent
  <2>2. CASE WorkerAlert(u, s)
    <3>1. [worker[u][s] EXCEPT !.at = "alert"] \in Doing
      BY <1>2 DEF Doing
    <3>2. [worker[u][s] EXCEPT !.at = "alert"].ev = worker[u][s].ev
      BY <1>2 DEF Doing
    <3>3. worker' = [worker EXCEPT ![u][s] = [worker[u][s] EXCEPT !.at = "alert"]]
      BY <2>2, Zenon DEF WorkerAlert
    <3> QED
      BY <3>1, <3>2, <3>3
  <2> QED
    BY <2>1, <2>2
<1>4. /\ worker' \in [Users -> [Shards -> Doing]]
      /\ \A v \in Users, t \in Shards :
             worker'[v][t].at # "idle" =>
                 worker[v][t].at # "idle" /\ worker'[v][t].ev = worker[v][t].ev
  BY <1>1, <1>3 DEF Inv, TypeInv
<1>5. Frontier' = Frontier
  BY <1>1 DEF Frontier
<1>6. TypeInv' /\ HistoryTypeInv'
  BY <1>1, <1>4 DEF Inv, TypeInv, HistoryTypeInv, history
<1>7. WorkerInv'
  BY <1>1, <1>4, <1>5 DEF Inv, WorkerInv, history
<1>8. BatchInv' /\ QueueInv' /\ RaisedInv' /\ PlaceInv'
  BY <1>1, <1>5 DEF Inv, BatchInv, QueueInv, RaisedInv, PlaceInv, Named, history
<1> QED
  BY <1>6, <1>7, <1>8 DEF Inv


-----------------------------------------------------------------------------
(* The alerts.                                                              *)

\* An alert pushed at the end: the sequence repeats none if it was not in it.
LEMMA PushDistinct ==
    ASSUME NEW q \in Seq(Event), Distinct(q), NEW e \in Event, e \notin SeqRange(q)
    PROVE  /\ Append(q, e) \in Seq(Event)
           /\ Distinct(Append(q, e))
           /\ SeqRange(Append(q, e)) = SeqRange(q) \cup {e}
<1> PICK m \in Nat : m = Len(q)
  OBVIOUS
<1> PICK p \in Seq(Event) : p = Append(q, e)
  BY AppendProperties
<1>1. /\ Len(p) = m + 1 /\ p[m + 1] = e
      /\ \A k \in 1 .. m : p[k] = q[k]
  BY AppendProperties
<1>2. \A k \in 1 .. m : q[k] # e
  BY DEF SeqRange
<1>3. Distinct(p)
  <2> SUFFICES ASSUME NEW k \in 1 .. m + 1, NEW l \in 1 .. m + 1, p[k] = p[l]
               PROVE  k = l
    BY <1>1 DEF Distinct
  <2>1. \A j \in 1 .. m + 1 : j \in 1 .. m \/ j = m + 1
    OBVIOUS
  <2> QED
    BY <1>1, <1>2, <2>1 DEF Distinct
<1>4. SeqRange(p) = SeqRange(q) \cup {e}
  <2>1. SeqRange(p) = {p[k] : k \in 1 .. m + 1} /\ SeqRange(q) = {q[k] : k \in 1 .. m}
    BY <1>1 DEF SeqRange
  <2>2. \A j \in 1 .. m + 1 : j \in 1 .. m \/ j = m + 1
    OBVIOUS
  <2>3. (\A j \in 1 .. m : j \in 1 .. m + 1) /\ m + 1 \in 1 .. m + 1
    OBVIOUS
  <2> QED
    BY <1>1, <2>1, <2>2, <2>3
<1> QED
  BY <1>3, <1>4

\* The first alert taken off: it is in the rest no more.
LEMMA TailDistinct ==
    ASSUME NEW q \in Seq(Event), Distinct(q), q # <<>>
    PROVE  /\ Tail(q) \in Seq(Event) /\ Head(q) \in Event
           /\ Distinct(Tail(q))
           /\ SeqRange(q) = SeqRange(Tail(q)) \cup {Head(q)}
           /\ Head(q) \notin SeqRange(Tail(q))
<1>1. Tail(q) \in Seq(Event) /\ Head(q) \in Event
  BY HeadTailProperties
<1>2. /\ Len(q) \in Nat /\ Len(q) # 0
      /\ Len(Tail(q)) = Len(q) - 1
      /\ \A k \in 1 .. Len(Tail(q)) : Tail(q)[k] = q[k + 1]
      /\ Head(q) = q[1]
  BY HeadTailProperties
<1> PICK m \in Nat : m = Len(q) - 1
  <2>1. Len(q) - 1 \in Nat
    BY <1>2
  <2> QED
    BY <2>1, Zenon
<1> PICK p \in Seq(Event) : p = Tail(q)
  BY <1>1
<1> PICK e \in Event : e = Head(q)
  BY <1>1
<1>3. /\ Len(q) = m + 1 /\ Len(p) = m /\ e = q[1]
      /\ \A k \in 1 .. m : p[k] = q[k + 1]
  BY <1>2
<1>4. \A k \in 1 .. m : k + 1 \in 1 .. m + 1 /\ k + 1 # 1
  OBVIOUS
<1>5. 1 \in 1 .. m + 1 /\ \A j \in 1 .. m + 1 : j = 1 \/ (j - 1 \in 1 .. m /\ j = (j - 1) + 1)
  OBVIOUS
<1>6. SeqRange(p) = {p[k] : k \in 1 .. m} /\ SeqRange(q) = {q[k] : k \in 1 .. m + 1}
  BY <1>3 DEF SeqRange
<1>7. Distinct(p)
  <2> SUFFICES ASSUME NEW k \in 1 .. m, NEW l \in 1 .. m, p[k] = p[l]
               PROVE  k = l
    BY <1>3 DEF Distinct
  <2>1. k + 1 = l + 1
    BY <1>3, <1>4 DEF Distinct
  <2> QED
    BY <2>1
<1>8. e \notin SeqRange(p)
  BY <1>3, <1>4, <1>5, <1>6 DEF Distinct
<1>9. SeqRange(q) = SeqRange(p) \cup {e}
  <2>1. \A j \in 1 .. m + 1 : q[j] = e \/ \E k \in 1 .. m : q[j] = p[k]
    BY <1>3, <1>5
  <2>2. e \in SeqRange(q) /\ \A k \in 1 .. m : p[k] \in SeqRange(q)
    BY <1>3, <1>4, <1>5, <1>6
  <2> QED
    BY <1>6, <2>1, <2>2
<1> QED
  BY <1>1, <1>7, <1>8, <1>9

\* The callback pushes an alert: its event was not raised before.
LEMMA PushStep ==
    ASSUME Inv, NEW u \in Users, NEW s \in Shards, WorkerPush(u, s)
    PROVE  Inv'
<1> PICK e \in Event : e = worker[u][s].ev
  BY DEF WorkerPush, Inv, TypeInv
<1>1. /\ worker[u][s].at = "alert"
      /\ pending' = Append(pending, e)
      /\ raised' = raised \cup {e}
      /\ worker' = [worker EXCEPT ![u][s] = [at |-> "idle", ev |-> Nothing]]
      /\ UNCHANGED << queue, mu, call, next, rows, capped, garbled >>
  BY DEF WorkerPush
<1>2. /\ worker' \in [Users -> [Shards -> Doing]]
      /\ worker'[u][s].at = "idle"
      /\ \A v \in Users, t \in Shards : ~(v = u /\ t = s) => worker'[v][t] = worker[v][t]
  <2>1. [at |-> "idle", ev |-> Nothing] \in Doing
    BY DEF Doing
  <2> QED
    BY <1>1, <2>1 DEF Inv, TypeInv
<1>3. Frontier' = Frontier
  BY <1>1 DEF Frontier
<1>4. /\ e.n < Frontier /\ e \notin raised
      /\ \A v \in Users, t \in Shards :
             /\ worker[v][t].at # "idle" /\ worker[v][t].ev = e => v = u /\ t = s
             /\ \A l \in 1 .. Len(queue[v][t]) : queue[v][t][l] # e
  BY <1>1 DEF Inv, WorkerInv
<1>5. /\ e \notin SeqRange(pending) /\ e \notin SeqRange(call.alerts) /\ e \notin Named
      /\ e \notin capped /\ e \notin garbled
  BY <1>4 DEF Inv, PlaceInv
<1>6. /\ pending' \in Seq(Event) /\ Distinct(pending')
      /\ SeqRange(pending') = SeqRange(pending) \cup {e}
  <2>1. pending \in Seq(Event) /\ Distinct(pending)
    BY DEF Inv, TypeInv, PlaceInv
  <2> QED
    BY <1>1, <1>5, <2>1, PushDistinct
<1>7. TypeInv' /\ HistoryTypeInv'
  <2>1. \A v \in Users, t \in Shards :
            worker'[v][t].at # "idle" => worker'[v][t].ev \in Event
    BY <1>2, ZenonT(60) DEF Inv, TypeInv
  <2> QED
    BY <1>1, <1>2, <1>6, <2>1 DEF Inv, TypeInv, HistoryTypeInv
<1>8. QueueInv'
  BY <1>1, <1>3, <1>4 DEF Inv, QueueInv
<1>9. WorkerInv'
  <2>1. ASSUME NEW v \in Users, NEW t \in Shards, worker'[v][t].at # "idle"
        PROVE  /\ worker'[v][t] = worker[v][t] /\ worker[v][t].at # "idle"
               /\ worker[v][t].ev # e
    BY <1>2, <1>4, <2>1
  <2> QED
    BY <1>1, <1>3, <2>1 DEF Inv, WorkerInv
<1>10. RaisedInv'
  BY <1>1, <1>3, <1>4 DEF Inv, RaisedInv
<1>11. BatchInv'
  BY <1>1 DEF Inv, BatchInv
<1>12. PlaceInv'
  <2>1. Named' = Named /\ call' = call /\ capped' = capped /\ garbled' = garbled /\ rows' = rows
    BY <1>1 DEF Named
  <2> QED
    BY <1>1, <1>5, <1>6, <2>1 DEF Inv, PlaceInv
<1> QED
  BY <1>7, <1>8, <1>9, <1>10, <1>11, <1>12 DEF Inv

\* A call that handed over all of its events has reached the next number.
LEMMA NothingLeft ==
    ASSUME TypeInv, BatchInv, call.at = "ingest", call.i > Len(call.batch)
    PROVE  Frontier = next
<1> PICK m \in Nat : m = Len(call.batch)
  BY CallParts, Zenon
<1> PICK n \in Nat : n = next
  BY CallParts, Zenon
<1>1. call.i \in 1 .. m + 1 /\ call.i > m
  BY DEF BatchInv
<1>2. call.i = m + 1
  BY <1>1
<1>3. Frontier = n - m + (m + 1) - 1
  BY <1>2 DEF Frontier
<1> QED
  BY <1>3

\* When everything was handed over, the call may take alerts off pending.
LEMMA TakeAlerts ==
    ASSUME Inv, NEW rest \in Seq(Event), NEW alerts \in Seq(Event),
           Distinct(rest), Distinct(alerts),
           SeqRange(pending) = SeqRange(rest) \cup SeqRange(alerts),
           SeqRange(rest) \cap SeqRange(alerts) = {},
           call.at = "ingest", call.i > Len(call.batch),
           call' \in Calls, call'.at = "map", call'.user = call.user, call'.alerts = alerts,
           pending' = rest, mu' = FALSE,
           UNCHANGED << queue, worker, next, history >>
    PROVE  Inv'
<1>1. /\ call'.at = "map" /\ call'.alerts = alerts /\ call'.user = call.user
      /\ call' \in Calls
  OBVIOUS
<1>2. Frontier' = Frontier
  <2>1. Frontier = next
    BY NothingLeft DEF Inv
  <2>2. Frontier' = next'
    BY <1>1 DEF Frontier
  <2> QED
    BY <2>1, <2>2
<1>3. call.alerts = <<>>
  BY DEF Inv, BatchInv
<1>4. TypeInv' /\ HistoryTypeInv'
  BY <1>1 DEF Inv, TypeInv, HistoryTypeInv, history
<1>5. BatchInv'
  BY <1>1 DEF BatchInv
<1>6. QueueInv' /\ WorkerInv' /\ RaisedInv'
  BY <1>2, SMTT(30) DEF Inv, QueueInv, WorkerInv, RaisedInv, history
<1>7. PlaceInv'
  <2>1. Named' = Named /\ UNCHANGED << raised, rows, capped, garbled >>
    BY DEF Named, history
  <2>2. SeqRange(call.alerts) = {}
    BY <1>3 DEF SeqRange
  <2> QED
    BY <1>1, <2>1, <2>2 DEF Inv, PlaceInv
<1> QED
  BY <1>4, <1>5, <1>6, <1>7 DEF Inv

\* The call that took them.
LEMMA CallWith ==
    ASSUME NEW c \in Calls, NEW alerts \in Seq(Event)
    PROVE  LET d == [c EXCEPT !.at = "map", !.alerts = alerts]
               e == [c EXCEPT !.at = "map"]
           IN  /\ d \in Calls /\ d.at = "map" /\ d.user = c.user /\ d.alerts = alerts
               /\ e \in Calls /\ e.at = "map" /\ e.user = c.user /\ e.alerts = c.alerts
  BY DEF Calls

\* A batch takes all of them, a single call the oldest.
LEMMA DrainStep ==
    ASSUME Inv, DrainAlerts \/ DrainOne
    PROVE  Inv'
<1>1. pending \in Seq(Event) /\ Distinct(pending)
  BY DEF Inv, TypeInv, PlaceInv
<1>2. <<>> \in Seq(Event) /\ Distinct(<<>>) /\ SeqRange(<<>>) = {}
  BY DEF Distinct, SeqRange
<1>3. call \in Calls
  BY DEF Inv, TypeInv
<1>4. /\ call.at = "ingest" /\ call.i > Len(call.batch)
      /\ mu' = FALSE /\ UNCHANGED << queue, worker, next, history >>
  BY DEF DrainAlerts, DrainOne, Unlock
<1>5. CASE DrainAlerts
  <2>1. call' = [call EXCEPT !.at = "map", !.alerts = pending] /\ pending' = <<>>
    BY <1>5 DEF DrainAlerts, DrainTakes
  <2> QED
    BY <1>1, <1>2, <1>3, <1>4, <2>1, CallWith, TakeAlerts
<1>6. CASE DrainOne
  <2>1. CASE pending = <<>>
    <3>1. call' = [call EXCEPT !.at = "map"] /\ pending' = pending
      BY <1>6, <2>1 DEF DrainOne
    <3>2. call.alerts = <<>>
      BY <1>4 DEF Inv, BatchInv
    <3> QED
      BY <1>2, <1>3, <1>4, <2>1, <3>1, <3>2, CallWith, TakeAlerts
  <2>2. CASE pending # <<>>
    <3>1. /\ call' = [call EXCEPT !.at = "map", !.alerts = << Head(pending) >>]
          /\ pending' = Tail(pending)
      BY <1>6, <2>2 DEF DrainOne
    <3>2. /\ Tail(pending) \in Seq(Event) /\ Head(pending) \in Event
          /\ Distinct(Tail(pending))
          /\ SeqRange(pending) = SeqRange(Tail(pending)) \cup {Head(pending)}
          /\ Head(pending) \notin SeqRange(Tail(pending))
      BY <1>1, <2>2, TailDistinct
    <3>3. ASSUME NEW e \in Event
          PROVE  << e >> \in Seq(Event) /\ Distinct(<< e >>) /\ SeqRange(<< e >>) = {e}
      BY DEF Distinct, SeqRange
    <3> PICK e \in Event : e = Head(pending)
      BY <3>2
    <3> PICK rest \in Seq(Event) : rest = Tail(pending)
      BY <3>2
    <3>4. call' = [call EXCEPT !.at = "map", !.alerts = << e >>]
      BY <3>1
    <3>5. /\ call' \in Calls /\ call'.at = "map" /\ call'.user = call.user
          /\ call'.alerts = << e >>
      BY <1>3, <3>3, <3>4, CallWith
    <3>6. SeqRange(rest) \cap {e} = {} /\ SeqRange(pending) = SeqRange(rest) \cup {e}
      BY <3>2
    <3>7. << e >> \in Seq(Event) /\ Distinct(<< e >>) /\ SeqRange(<< e >>) = {e}
      BY <3>3
    <3>8. Distinct(rest) /\ pending' = rest
      BY <3>1, <3>2
    <3> QED
      BY <1>4, <3>5, <3>6, <3>7, <3>8, TakeAlerts
  <2> QED
    BY <2>1, <2>2
<1> QED
  BY <1>5, <1>6

-----------------------------------------------------------------------------
(* The rows.                                                                *)

\* The alerts that decode, those that do not and those cut off are all the alerts
\* of the call, and no alert is two of these.
LEMMA MapParts ==
    ASSUME NEW c \in Calls, Distinct(c.alerts), NEW at \in Positions(c)
    PROVE  /\ Decoded(c, at) \in Seq(Event) /\ Len(Decoded(c, at)) <= Len(c.batch)
           /\ Distinct(Decoded(c, at))
           /\ SeqRange(c.alerts)
                  = SeqRange(Decoded(c, at)) \cup Garbled(c, at) \cup CutOff(c)
           /\ SeqRange(Decoded(c, at)) \cap Garbled(c, at) = {}
           /\ (SeqRange(Decoded(c, at)) \cup Garbled(c, at)) \cap CutOff(c) = {}
<1> PICK q \in Seq(Event) : q = c.alerts
  BY DEF Calls
<1> PICK n \in Nat : n = Len(q)
  OBVIOUS
<1> PICK b \in Nat : b = Len(c.batch)
  BY DEF Calls
<1>1. Cap(c) \in Nat /\ Cap(c) <= n /\ Cap(c) <= b
  BY DEF Cap, Least
<1> PICK cap \in Nat : cap = Cap(c)
  BY <1>1
<1>2. PICK m \in 0 .. cap : at \in [1 .. m -> 1 .. cap]
  BY DEF Positions
<1>3. \A i, j \in 1 .. m : i < j => at[i] < at[j]
  BY <1>2 DEF Positions
<1>4. \A i, j \in 1 .. m : at[i] = at[j] => i = j
  <2> SUFFICES ASSUME NEW i \in 1 .. m, NEW j \in 1 .. m, at[i] = at[j]
               PROVE  i = j
    OBVIOUS
  <2>1. at[i] \in Int
    BY <1>2
  <2>2. ~(i < j) /\ ~(j < i)
    BY <1>3, <2>1
  <2> QED
    BY <2>2
<1> DEFINE d == Decoded(c, at)
<1>5. d = [i \in 1 .. m |-> q[at[i]]]
  BY <1>2 DEF Decoded
<1>6. \A k \in 1 .. cap : k \in 1 .. n
  BY <1>1
<1>7. Len(d) = m /\ \A i \in 1 .. m : at[i] \in 1 .. cap /\ d[i] = q[at[i]]
  <2>1. m \in Nat
    OBVIOUS
  <2> QED
    BY <1>2, <1>5, <2>1
<1>8. SeqRange(d) = {q[at[i]] : i \in 1 .. m}
  BY <1>7 DEF SeqRange
<1>9. Garbled(c, at) = {q[k] : k \in 1 .. cap \ {at[i] : i \in 1 .. m}}
  BY <1>2 DEF Garbled
<1>10. CutOff(c) = {q[k] : k \in cap + 1 .. n}
  BY DEF CutOff
<1>11. SeqRange(q) = {q[k] : k \in 1 .. n}
  BY DEF SeqRange
<1>12. \A k \in 1 .. n : (k \in 1 .. cap /\ k \notin cap + 1 .. n)
                            \/ (k \in cap + 1 .. n /\ k \notin 1 .. cap)
  OBVIOUS
<1>13. \A k \in cap + 1 .. n : k \in 1 .. n
  OBVIOUS
<1>14. \A k, l \in 1 .. n : q[k] = q[l] => k = l
  BY DEF Distinct
<1>15. Distinct(d)
  <2> SUFFICES ASSUME NEW i \in 1 .. m, NEW j \in 1 .. m, d[i] = d[j]
               PROVE  i = j
    BY <1>7 DEF Distinct
  <2>1. at[i] = at[j]
    BY <1>6, <1>7, <1>14
  <2> QED
    BY <1>4, <2>1
<1> HIDE DEF d
<1>16. SeqRange(q) = SeqRange(d) \cup Garbled(c, at) \cup CutOff(c)
  BY <1>6, <1>7, <1>8, <1>9, <1>10, <1>11, <1>12, <1>13, SMTT(30)
<1>17. SeqRange(d) \cap Garbled(c, at) = {}
  BY <1>6, <1>7, <1>8, <1>9, <1>14
<1>18. (SeqRange(d) \cup Garbled(c, at)) \cap CutOff(c) = {}
  BY <1>6, <1>7, <1>8, <1>9, <1>10, <1>12, <1>13, <1>14
<1>19. Len(d) <= b
  BY <1>1, <1>7
<1>20. d \in Seq(Event)
  <2>1. \A i \in 1 .. m : q[at[i]] \in Event
    BY <1>6, <1>7
  <2> QED
    BY <1>5, <2>1
<1> QED
  BY <1>15, <1>16, <1>17, <1>18, <1>19, <1>20 DEF d

\* The rows name the alerts that decoded, each once.
LEMMA RowParts ==
    ASSUME NEW batch \in Seq(Event), NEW alerts \in Seq(Event), Len(alerts) <= Len(batch),
           Distinct(alerts)
    PROVE  /\ \A r \in RowsOf(batch, alerts) :
                  r.event \in Event /\ (r.alert = Nothing \/ r.alert \in SeqRange(alerts))
           /\ \A e \in SeqRange(alerts) : \E r \in RowsOf(batch, alerts) : r.alert = e
           /\ \A r, q \in RowsOf(batch, alerts) :
                  r.alert = q.alert /\ r.alert # Nothing => r = q
<1> PICK n \in Nat : n = Len(alerts)
  OBVIOUS
<1> PICK m \in Nat : m = Len(batch)
  OBVIOUS
<1> DEFINE row(i) == [event |-> batch[i], alert |-> IF i <= n THEN alerts[i] ELSE Nothing]
<1>1. ASSUME NEW r \in RowsOf(batch, alerts)
      PROVE  \E i \in 1 .. m : r = row(i)
  BY DEF RowsOf
<1>2. ASSUME NEW i \in 1 .. n
      PROVE  row(i) \in RowsOf(batch, alerts) /\ row(i).alert = alerts[i]
  <2>1. i \in 1 .. m /\ i <= n
    OBVIOUS
  <2> QED
    BY <2>1 DEF RowsOf
<1>3. ASSUME NEW i \in 1 .. m
      PROVE  /\ row(i).event = batch[i] /\ batch[i] \in Event
             /\ \/ i \in 1 .. n /\ row(i).alert = alerts[i]
                \/ row(i).alert = Nothing
  OBVIOUS
<1> HIDE DEF row
<1>4. SeqRange(alerts) = {alerts[k] : k \in 1 .. n}
  BY DEF SeqRange
<1>5. \A r \in RowsOf(batch, alerts) :
          r.event \in Event /\ (r.alert = Nothing \/ r.alert \in SeqRange(alerts))
  BY <1>1, <1>3, <1>4
<1>6. \A e \in SeqRange(alerts) : \E r \in RowsOf(batch, alerts) : r.alert = e
  BY <1>2, <1>4
<1>7. ASSUME NEW r \in RowsOf(batch, alerts), NEW q \in RowsOf(batch, alerts),
             r.alert = q.alert, r.alert # Nothing
      PROVE  r = q
  <2>1. PICK i \in 1 .. m : r = row(i)
    BY <1>1
  <2>2. PICK j \in 1 .. m : q = row(j)
    BY <1>1
  <2>3. i \in 1 .. n /\ j \in 1 .. n /\ alerts[i] = alerts[j]
    BY <1>3, <1>7, <2>1, <2>2
  <2>4. i = j
    BY <2>3 DEF Distinct
  <2> QED
    BY <2>1, <2>2, <2>4
<1> QED
  BY <1>5, <1>6, <1>7

\* The alerts of the call end in rows, cut off or garbled.
LEMMA MapStep ==
    ASSUME Inv, MapAlerts
    PROVE  Inv'
<1> PICK at \in Positions(call) :
        /\ rows' = rows \cup RowsOf(call.batch, Decoded(call, at))
        /\ garbled' = garbled \cup Garbled(call, at)
  BY DEF MapAlerts
<1>1. /\ call.at = "map" /\ call' = NoCall
      /\ capped' = capped \cup CutOff(call)
      /\ UNCHANGED << queue, worker, mu, pending, next, raised >>
  BY DEF MapAlerts
<1>2. call \in Calls /\ call.batch \in Seq(Event) /\ call.alerts \in Seq(Event)
  BY CallParts DEF Inv, TypeInv
<1>3. Distinct(call.alerts)
  BY DEF Inv, PlaceInv
<1> DEFINE decoded == Decoded(call, at)
           d == SeqRange(decoded)
           g == Garbled(call, at)
           c == CutOff(call)
           new == RowsOf(call.batch, decoded)
<1>4. /\ Len(decoded) <= Len(call.batch) /\ Distinct(decoded)
      /\ SeqRange(call.alerts) = d \cup g \cup c
      /\ d \cap g = {} /\ (d \cup g) \cap c = {}
  BY <1>2, <1>3, MapParts
<1>5. decoded \in Seq(Event)
  BY <1>2, <1>3, MapParts
<1>6. /\ \A r \in new : r.event \in Event /\ (r.alert = Nothing \/ r.alert \in d)
      /\ \A e \in d : \E r \in new : r.alert = e
      /\ \A r, q \in new : r.alert = q.alert /\ r.alert # Nothing => r = q
  BY <1>2, <1>4, <1>5, RowParts
<1>7. rows' = rows \cup new /\ garbled' = garbled \cup g /\ capped' = capped \cup c
  BY <1>1
<1> HIDE DEF decoded, d, g, c, new
<1>8. d \subseteq Event /\ g \subseteq Event /\ c \subseteq Event
  <2>1. SeqRange(call.alerts) \subseteq Event
    BY <1>2 DEF SeqRange
  <2> QED
    BY <1>4, <2>1
<1>9. Nothing \notin d
  BY <1>8, BridgeAssumption
<1>10. Named' = Named \cup d
  BY <1>6, <1>7, <1>9 DEF Named
<1>11. /\ NoCall \in Calls /\ NoCall.at = "none" /\ NoCall.alerts = <<>>
  BY DEF NoCall, Calls
<1>12. Frontier' = Frontier
  BY <1>1, <1>11 DEF Frontier
<1>13. TypeInv'
  BY <1>1, <1>11 DEF Inv, TypeInv
<1>14. HistoryTypeInv'
  BY <1>1, <1>6, <1>7, <1>8 DEF Inv, HistoryTypeInv
<1>15. BatchInv'
  BY <1>1, <1>11 DEF BatchInv
<1>16. QueueInv' /\ WorkerInv' /\ RaisedInv'
  BY <1>1, <1>12 DEF Inv, QueueInv, WorkerInv, RaisedInv
<1>17. PlaceInv'
  <2>1. Distinct(call'.alerts) /\ SeqRange(call'.alerts) = {}
    BY <1>1, <1>11 DEF Distinct, SeqRange
  <2>2. pending' = pending /\ raised' = raised
    BY <1>1
  <2>3. /\ Distinct(pending)
        /\ raised = SeqRange(pending) \cup d \cup g \cup c \cup Named \cup capped \cup garbled
        /\ SeqRange(pending) \cap (d \cup g \cup c \cup Named \cup capped \cup garbled) = {}
        /\ (d \cup g \cup c) \cap (Named \cup capped \cup garbled) = {}
        /\ Named \cap (capped \cup garbled) = {}
        /\ capped \cap garbled = {}
    BY <1>4 DEF Inv, PlaceInv
  <2>4. /\ raised' = SeqRange(pending') \cup SeqRange(call'.alerts) \cup Named' \cup capped'
                         \cup garbled'
        /\ SeqRange(pending') \cap (SeqRange(call'.alerts) \cup Named' \cup capped' \cup garbled')
               = {}
    BY <1>7, <1>10, <2>1, <2>2, <2>3
  <2>5. /\ SeqRange(call'.alerts) \cap (Named' \cup capped' \cup garbled') = {}
        /\ Named' \cap (capped' \cup garbled') = {}
        /\ capped' \cap garbled' = {}
    BY <1>4, <1>7, <1>10, <2>1, <2>3
  <2>6. ASSUME NEW r \in rows', NEW q \in rows', r.alert = q.alert, r.alert # Nothing
        PROVE  r = q
    <3>1. \A x \in rows : x.alert # Nothing => x.alert \in Named
      BY DEF Named
    <3>2. \A x \in new : x.alert # Nothing => x.alert \in d
      BY <1>6
    <3>3. \A x, y \in rows : x.alert = y.alert /\ x.alert # Nothing => x = y
      BY DEF Inv, PlaceInv
    <3>4. Named \cap d = {}
      BY <2>3
    <3> QED
      BY <1>6, <1>7, <2>6, <3>1, <3>2, <3>3, <3>4
  <2> QED
    BY <2>1, <2>2, <2>3, <2>4, <2>5, <2>6 DEF PlaceInv
<1> QED
  BY <1>13, <1>14, <1>15, <1>16, <1>17 DEF Inv

-----------------------------------------------------------------------------
(* Initially everything is empty; every step keeps the invariant.           *)

LEMMA InitInv == Init => Inv
<1> SUFFICES ASSUME Init PROVE Inv
  OBVIOUS
<1>1. /\ NoCall \in Calls /\ NoCall.at = "none" /\ NoCall.alerts = <<>>
  BY DEF NoCall, Calls
<1>2. [at |-> "idle", ev |-> Nothing] \in Doing
  BY DEF Doing
<1>3. \A u \in Users, s \in Shards : queue[u][s] = <<>> /\ worker[u][s].at = "idle"
  BY DEF Init
<1>4. TypeInv /\ HistoryTypeInv
  <2>1. queue \in [Users -> [Shards -> Seq(Event)]] /\ worker \in [Users -> [Shards -> Doing]]
    <3>1. [s \in Shards |-> <<>>] \in [Shards -> Seq(Event)]
      OBVIOUS
    <3>2. [s \in Shards |-> [at |-> "idle", ev |-> Nothing]] \in [Shards -> Doing]
      BY <1>2
    <3>3. queue \in [Users -> [Shards -> Seq(Event)]]
      BY <3>1 DEF Init
    <3>4. worker \in [Users -> [Shards -> Doing]]
      BY <3>2 DEF Init
    <3> QED
      BY <3>3, <3>4
  <2>2. mu \in BOOLEAN /\ pending \in Seq(Event) /\ next \in Nat
    <3>1. mu = FALSE /\ pending = <<>> /\ next = 1
      BY DEF Init
    <3>2. <<>> \in Seq(Event)
      OBVIOUS
    <3> QED
      BY <3>1, <3>2
  <2>3. call = NoCall
    BY DEF Init
  <2> QED
    BY <1>1, <1>3, <2>1, <2>2, <2>3 DEF Init, TypeInv, HistoryTypeInv
<1>5. BatchInv /\ QueueInv /\ WorkerInv /\ RaisedInv
  BY <1>1, <1>3 DEF Init, BatchInv, QueueInv, WorkerInv, RaisedInv
<1>6. PlaceInv
  <2>1. Named = {} /\ SeqRange(pending) = {} /\ SeqRange(call.alerts) = {}
    BY <1>1 DEF Init, Named, SeqRange
  <2>2. Distinct(pending) /\ Distinct(call.alerts)
    BY <1>1 DEF Init, Distinct
  <2> QED
    BY <2>1, <2>2 DEF Init, PlaceInv
<1> QED
  BY <1>4, <1>5, <1>6 DEF Inv

LEMMA StepInv == Inv /\ [Next]_vars => Inv'
<1> SUFFICES ASSUME Inv, [Next]_vars PROVE Inv'
  OBVIOUS
<1>1. ASSUME NEW u \in Users, BeginCall(u) \/ BeginSingle(u) PROVE Inv'
  BY <1>1, BeginStep
<1>2. ASSUME NEW s \in Shards, IngestEvent(s) \/ IngestRefused(s) PROVE Inv'
  BY <1>2, IngestStep
<1>3. CASE DrainAlerts \/ DrainOne
  BY <1>3, DrainStep
<1>4. CASE MapAlerts
  BY <1>4, MapStep
<1>5. ASSUME NEW u \in Users, NEW s \in Shards, WorkerStep(u, s) PROVE Inv'
  BY <1>5, TakeStep, WorkerGoesOn, PushStep DEF WorkerStep
<1>6. CASE UNCHANGED vars
  <2>1. /\ UNCHANGED << queue, worker, mu, pending, call, next >>
        /\ UNCHANGED << raised, rows, capped, garbled >>
    BY <1>6 DEF vars, history
  <2>2. Frontier' = Frontier /\ Named' = Named
    BY <2>1 DEF Frontier, Named
  <2>3. TypeInv' /\ HistoryTypeInv' /\ BatchInv'
    BY <2>1 DEF Inv, TypeInv, HistoryTypeInv, BatchInv
  <2>4. QueueInv' /\ WorkerInv' /\ RaisedInv' /\ PlaceInv'
    BY <2>1, <2>2 DEF Inv, QueueInv, WorkerInv, RaisedInv, PlaceInv
  <2> QED
    BY <2>3, <2>4 DEF Inv
<1> QED
  BY <1>1, <1>2, <1>3, <1>4, <1>5, <1>6 DEF Next, CallStep

\* The invariant holds in every reachable state of the bridge and the workers.
THEOREM Invariance == Spec => []Inv
  BY InitInv, StepInv, PTL DEF Spec

\* Every alert a worker thread pushed on the shared queue of pending alerts is,
\* at any time, still pending, in the hands of the call, in a row, cut off or
\* garbled, and in one of them only: for any number of users, shards and events.
THEOREM EveryAlertAccounted == Spec => []AlertsAccounted
<1>1. Inv => AlertsAccounted
  <2> SUFFICES ASSUME Inv PROVE AlertsAccounted
    OBVIOUS
  <2> DEFINE a == SeqRange(pending)
             b == SeqRange(call.alerts)
             parts == << a, b, Named, capped, garbled >>
  <2>1. /\ Len(parts) = 5 /\ parts[1] = a /\ parts[2] = b /\ parts[3] = Named
        /\ parts[4] = capped /\ parts[5] = garbled
    OBVIOUS
  <2>2. /\ raised = a \cup b \cup Named \cup capped \cup garbled
        /\ a \cap (b \cup Named \cup capped \cup garbled) = {}
        /\ b \cap (Named \cup capped \cup garbled) = {}
        /\ Named \cap (capped \cup garbled) = {} /\ capped \cap garbled = {}
    BY DEF Inv, PlaceInv
  <2> HIDE DEF a, b
  <2>3. \A i \in 1 .. 5 : i = 1 \/ i = 2 \/ i = 3 \/ i = 4 \/ i = 5
    OBVIOUS
  <2>4. UNION SeqRange(parts) = a \cup b \cup Named \cup capped \cup garbled
    <3>1. SeqRange(parts) = {a, b, Named, capped, garbled}
      BY <2>1, <2>3 DEF SeqRange
    <3> QED
      BY <3>1
  <2>5. \A i, j \in 1 .. Len(parts) : i # j => parts[i] \cap parts[j] = {}
    BY <2>1, <2>2, <2>3
  <2> QED
    BY <2>2, <2>4, <2>5 DEF AlertsAccounted, Inv, PlaceInv, a, b
<1> QED
  BY <1>1, Invariance, PTL
=============================================================================

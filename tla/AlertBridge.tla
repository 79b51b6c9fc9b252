----------------------------- MODULE AlertBridge -----------------------------
(***************************************************************************)
(* How evaluated events become alert rows: the C API of ids_c_api.cpp      *)
(* (one handle, a ShardedIDS per user, one queue of pending alerts for all *)
(* of them), CentralRuntime.ingest and ingest_batch of                     *)
(* backend/app/ids_bridge.py and the part of UserRuntime.process_batch     *)
(* that maps alerts to rows.                                               *)
(*                                                                         *)
(* A user's ShardedIDS is what the bridge sees of it: a bounded queue and  *)
(* a worker thread per shard, which may raise an alert for an event.       *)
(* ShardedIDS models its inside.  Events of one call are numbered; which   *)
(* shard an event hashes to, whether it raises an alert, whether it is     *)
(* larger than a megabyte and whether the alert decodes as JSON is open.   *)
(*                                                                         *)
(* Faulty variants of some definitions stand before them, used by no       *)
(* action: they serve to test that a property would notice the fault.      *)
(***************************************************************************)
EXTENDS Naturals, Sequences, FiniteSets

CONSTANTS
    Users,
    Shards,      \* the shards of a user's ShardedIDS
    QueueDepth,  \* cfg.queue.queue_depth
    BatchMax,    \* bound: events of one call
    MaxEvents,   \* bound: events handed over altogether
    Nothing      \* no event, no alert

Event == [n : Nat, user : Users, large : BOOLEAN]

ASSUME BridgeAssumption ==
    /\ QueueDepth \in Nat \ {0}
    /\ BatchMax \in Nat \ {0}
    /\ MaxEvents \in Nat
    /\ Nothing \notin Event

VARIABLES
    queue,    \* [Users -> [Shards -> sequence of events [n, user, large]]]: the
              \*    queues of the ShardedIDS
    worker,   \* [Users -> [Shards -> what the worker thread does]]
    mu,       \* CentralState::mu is held by the call
    pending,  \* CentralState::pending_alerts
    call,     \* the call of the bridge in progress, at "none", "ingest" or "map";
              \*    a single one hands over one event and takes at most one alert
    next,     \* number of the next event
    raised,   \* history: the events whose alert was pushed on pending_alerts
    rows,     \* history: alert rows, each with the event and the alert it names
    capped,   \* history: alerts cut off because the call returned too many
    garbled   \* history: alerts that did not decode

history == << raised, rows, capped, garbled >>
vars == << queue, worker, mu, pending, call, next, history >>

NoCall == [at |-> "none", single |-> FALSE, user |-> Nothing, batch |-> <<>>, i |-> 1,
           alerts |-> <<>>]

Least(a, b) == IF a < b THEN a ELSE b
SeqRange(s) == {s[i] : i \in 1 .. Len(s)}

-----------------------------------------------------------------------------
(* ids_central_ingest and ids_central_ingest_batch: everything happens      *)
(* under state->mu.                                                         *)

Begin(u, single, n, large) ==
    /\ call.at = "none" /\ ~mu
    /\ next + n - 1 <= MaxEvents
    /\ call' = [NoCall EXCEPT !.at = "ingest", !.single = single, !.user = u,
                    !.batch = [i \in 1 .. n |->
                                  [n |-> next + i - 1, user |-> u, large |-> i \in large]]]
    /\ next' = next + n
    /\ mu' = TRUE
    /\ UNCHANGED << queue, worker, pending, history >>

\* process_batch of a user's queue calls the bridge
BeginCall(u) == \E n \in 1 .. BatchMax : \E large \in SUBSET (1 .. n) : Begin(u, FALSE, n, large)

\* one event; its size does not matter, as no row is made for the event itself
BeginSingle(u) == Begin(u, TRUE, 1, {})

\* ShardedIDS::ingest with the default policy, Priority: the events come with a
\* low rate, so a full queue rejects them
RefusesBlocking(u, s) == FALSE
Refuses(u, s) == Len(queue[u][s]) >= QueueDepth

IngestEvent(s) ==
    /\ call.at = "ingest" /\ call.i <= Len(call.batch)
    /\ Len(queue[call.user][s]) < QueueDepth
    /\ queue' = [queue EXCEPT ![call.user][s] = Append(@, call.batch[call.i])]
    /\ call' = [call EXCEPT !.i = @ + 1]
    /\ UNCHANGED << worker, mu, pending, next, history >>

IngestRefused(s) ==
    /\ call.at = "ingest" /\ call.i <= Len(call.batch)
    /\ Refuses(call.user, s)
    /\ call' = [call EXCEPT !.i = @ + 1]
    /\ UNCHANGED << queue, worker, mu, pending, next, history >>

\* the call takes every pending alert, of any user, and returns
DrainKeeps(alerts) == alerts
DrainTakes(alerts) == <<>>

Unlock == mu' = FALSE

DrainAlerts ==
    /\ call.at = "ingest" /\ ~call.single /\ call.i > Len(call.batch)
    /\ call' = [call EXCEPT !.at = "map", !.alerts = pending]
    /\ pending' = DrainTakes(pending)
    /\ Unlock
    /\ UNCHANGED << queue, worker, next, history >>

\* a single call takes the oldest alert, if there is any, and returns it with the
\* addresses of the event it handed over
DrainOne ==
    /\ call.at = "ingest" /\ call.single /\ call.i > Len(call.batch)
    /\ IF pending = <<>>
       THEN call' = [call EXCEPT !.at = "map"] /\ UNCHANGED pending
       ELSE /\ call' = [call EXCEPT !.at = "map", !.alerts = << Head(pending) >>]
            /\ pending' = Tail(pending)
    /\ Unlock
    /\ UNCHANGED << queue, worker, next, history >>

-----------------------------------------------------------------------------
(* The Python side: cap, decode, map by index, one row per event.           *)

Cap(c) == Least(Len(c.alerts), Len(c.batch))

\* the alerts under the cap that decode are those at some of their positions, in
\* the same order; the others are garbled, and all of them are when something
\* raises on the way: the bridge then answers with an empty list
Positions(c) ==
    {at \in UNION {[1 .. m -> 1 .. Cap(c)] : m \in 0 .. Cap(c)} :
        \A i, j \in DOMAIN at : i < j => at[i] < at[j]}

Decoded(c, at) == [i \in DOMAIN at |-> c.alerts[at[i]]]
Garbled(c, at) == {c.alerts[k] : k \in 1 .. Cap(c) \ {at[i] : i \in DOMAIN at}}
CutOff(c) == {c.alerts[k] : k \in Cap(c) + 1 .. Len(c.alerts)}

\* an event with an alert at its index gets it, a large one an alert of its own
RowsOf(batch, alerts) ==
    {[event |-> batch[i], alert |-> IF i <= Len(alerts) THEN alerts[i] ELSE Nothing] :
        i \in {j \in 1 .. Len(batch) : j <= Len(alerts) \/ batch[j].large}}

MapAlerts ==
    /\ call.at = "map"
    /\ \E at \in Positions(call) :
          /\ rows' = rows \cup RowsOf(call.batch, Decoded(call, at))
          /\ garbled' = garbled \cup Garbled(call, at)
    /\ capped' = capped \cup CutOff(call)
    /\ call' = NoCall
    /\ UNCHANGED << queue, worker, mu, pending, next, raised >>

-----------------------------------------------------------------------------
(* The worker threads of the users' pipelines and their alert callback.     *)

WorkerTake(u, s) ==
    /\ worker[u][s].at = "idle" /\ queue[u][s] # <<>>
    /\ worker' = [worker EXCEPT ![u][s] = [at |-> "busy", ev |-> Head(queue[u][s])]]
    /\ queue' = [queue EXCEPT ![u][s] = Tail(@)]
    /\ UNCHANGED << mu, pending, call, next, history >>

WorkerSilent(u, s) ==
    /\ worker[u][s].at = "busy"
    /\ worker' = [worker EXCEPT ![u][s] = [at |-> "idle", ev |-> Nothing]]
    /\ UNCHANGED << queue, mu, pending, call, next, history >>

\* the alert callback waits for state->mu
WorkerAlert(u, s) ==
    /\ worker[u][s].at = "busy"
    /\ worker' = [worker EXCEPT ![u][s].at = "alert"]
    /\ UNCHANGED << queue, mu, pending, call, next, history >>

CallbackMayEnter == ~mu

WorkerPush(u, s) ==
    /\ worker[u][s].at = "alert"
    /\ CallbackMayEnter
    /\ pending' = Append(pending, worker[u][s].ev)
    /\ raised' = raised \cup {worker[u][s].ev}
    /\ worker' = [worker EXCEPT ![u][s] = [at |-> "idle", ev |-> Nothing]]
    /\ UNCHANGED << queue, mu, call, next, rows, capped, garbled >>

-----------------------------------------------------------------------------
Init ==
    /\ queue  = [u \in Users |-> [s \in Shards |-> <<>>]]
    /\ worker = [u \in Users |-> [s \in Shards |-> [at |-> "idle", ev |-> Nothing]]]
    /\ mu = FALSE
    /\ pending = <<>>
    /\ call = NoCall
    /\ next = 1
    /\ raised = {}
    /\ rows = {}
    /\ capped = {}
    /\ garbled = {}

CallStep == \/ \E s \in Shards : IngestEvent(s) \/ IngestRefused(s)
            \/ DrainAlerts \/ DrainOne \/ MapAlerts

WorkerStep(u, s) == WorkerTake(u, s) \/ WorkerSilent(u, s) \/ WorkerAlert(u, s) \/ WorkerPush(u, s)

Next ==
    \/ \E u \in Users : BeginCall(u) \/ BeginSingle(u)
    \/ CallStep
    \/ \E u \in Users, s \in Shards : WorkerStep(u, s)

Spec == Init /\ [][Next]_vars

(* The thread inside the call and the worker threads are scheduled; nobody   *)
(* has to call the bridge again.                                             *)
Fairness ==
    /\ WF_vars(CallStep)
    /\ \A u \in Users, s \in Shards : SF_vars(WorkerStep(u, s))

FairSpec == Spec /\ Fairness

-----------------------------------------------------------------------------
(* Properties.                                                              *)

Named == {r.alert : r \in rows} \ {Nothing}

\* Every alert a worker thread pushed is pending, in the hands of the caller,
\* in a row, cut off or garbled, and in one of them only: the drain of one call
\* and the callbacks of all the users' workers neither lose nor double one.
AlertsAccounted ==
    LET parts == << SeqRange(pending), SeqRange(call.alerts), Named, capped, garbled >> IN
    /\ raised = UNION SeqRange(parts)
    /\ \A i, j \in 1 .. Len(parts) : i # j => parts[i] \cap parts[j] = {}
    /\ \A r, q \in rows : r.alert = q.alert /\ r.alert # Nothing => r = q

\* Every call of the bridge returns, although the callbacks of the workers that
\* would make room in the queues wait for the lock the call holds.
EveryCallReturns == call.at # "none" ~> call.at = "none"

=============================================================================

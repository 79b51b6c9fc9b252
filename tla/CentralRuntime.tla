--------------------------- MODULE CentralRuntime ---------------------------
(***************************************************************************)
(* backend/app/central_runtime.py: worker threads that claim unprocessed   *)
(* traffic events in the database, route them to per-user queues in memory *)
(* and, under the manager's lock, drain every queue, evaluate the events   *)
(* and commit the resulting rows.                                          *)
(*                                                                         *)
(* A step is one database transaction, one critical section, or one append *)
(* to a user's queue.  The process may crash at any step, and every        *)
(* statement may fail that leaves something behind: a SELECT of new rows   *)
(* that fails leaves nothing.  What the IDS says of a batch is in          *)
(* AlertBridge.                                                            *)
(*                                                                         *)
(* Faulty variants of some definitions stand next to them, used by no      *)
(* action: they serve to test that a property would notice the fault.      *)
(***************************************************************************)
EXTENDS Naturals, Sequences, FiniteSets

CONSTANTS
    Events,       \* rows of traffic_events
    Users,
    UserOf,       \* the owner of the device that sent each event
    NumWorkers,   \* _num_workers
    Partition,    \* _partition_for: the worker each user hashes to
    FetchLimit,   \* limit(200)
    MaxUserQueue, \* MAX_USER_QUEUE
    NoUser,
    NoWorker,
    MaxFaults     \* bound: crashes and failed database statements

Workers == 0 .. NumWorkers - 1

ASSUME WorkersAssumption ==
    /\ NumWorkers \in Nat \ {0}
    /\ Partition \in [Users -> Workers]
    /\ NoWorker \notin Workers
ASSUME EventsAssumption ==
    /\ IsFiniteSet(Events)
    /\ UserOf \in [Events -> Users]
    /\ NoUser \notin Users
ASSUME LimitsAssumption ==
    /\ FetchLimit \in Nat \ {0}
    /\ MaxUserQueue \in Nat \ {0}
    /\ MaxFaults \in Nat

VARIABLES
    db,        \* [Events -> status of the row]: the processed column
    recorded,  \* [Events -> Nat]: how often the event's evaluation was committed
    queue,     \* [Users -> Seq(Events)]: UserRuntime.queue
    known,     \* the users in self.runtimes, in the order of insertion
    lock,      \* the worker that holds self.lock
    running,   \* self._running
    pc,        \* [Workers -> PC]
    mine,      \* [Workers -> SUBSET Events]: my_ids
    toRoute,   \* [Workers -> SUBSET Events]: events of mine not in a queue yet
    user,      \* [Workers -> user]: whose events the worker is routing
    todo,      \* [Workers -> Seq(Users)]: runtimes the loop has still to visit
    batch,     \* [Workers -> Seq(Events)]: drained by process_batch
    dropped,   \* history: events a full user queue dropped
    faults     \* history: crashes and failed statements so far

memVars    == << queue, known, lock >>
workerVars == << pc, mine, toRoute, user, todo, batch >>
vars == << db, recorded, memVars, running, workerVars, dropped, faults >>

PC == {"top", "claim", "route", "each", "commit", "ended"}

SeqRange(s) == {s[i] : i \in 1 .. Len(s)}
New == {e \in Events : db[e] = "new"}

\* `with self.lock': a guard, and in get_runtime released in the same step
LockFree == lock = NoWorker

-----------------------------------------------------------------------------
(* The rest of the backend: POST /api/v1/ingest/events inserts rows.        *)

Arrive(e) ==
    /\ db[e] = "absent"
    /\ db' = [db EXCEPT ![e] = "new"]
    /\ UNCHANGED << recorded, memVars, running, workerVars, dropped, faults >>

-----------------------------------------------------------------------------
(* _process_batch_partition                                                 *)

OwnsOffByOne(w, e) == Partition[UserOf[e]] = w + 1
Owns(w, e) == Partition[UserOf[e]] = w

\* SELECT ... WHERE NOT processed LIMIT n, without ORDER BY: any n of them
Fetchable ==
    {S \in SUBSET New :
        Cardinality(S) = IF Cardinality(New) < FetchLimit THEN Cardinality(New) ELSE FetchLimit}

Fetch(w) ==
    /\ pc[w] = "top" /\ running
    /\ \E S \in Fetchable :
          LET own == {e \in S : Owns(w, e)} IN
          /\ own # {}
          /\ mine' = [mine EXCEPT ![w] = own]
    /\ pc' = [pc EXCEPT ![w] = "claim"]
    /\ UNCHANGED << db, recorded, memVars, running, toRoute, user, todo, batch, dropped, faults >>

\* UPDATE ... SET processed = true for my_ids, and commit
MarkedNothing(w) == db
Marked(w) == [e \in Events |-> IF e \in mine[w] THEN "processed" ELSE db[e]]

Claim(w) ==
    /\ pc[w] = "claim"
    /\ db' = Marked(w)
    /\ toRoute' = [toRoute EXCEPT ![w] = mine[w]]
    /\ pc' = [pc EXCEPT ![w] = "route"]
    /\ UNCHANGED << recorded, memVars, running, mine, user, todo, batch, dropped, faults >>

\* ingest_events: get_runtime of the next user, created under the lock
RouteUser(w) ==
    /\ pc[w] = "route" /\ user[w] = NoUser
    /\ LockFree
    /\ \E e \in toRoute[w] :
          /\ user' = [user EXCEPT ![w] = UserOf[e]]
          /\ known' = IF UserOf[e] \in SeqRange(known) THEN known ELSE Append(known, UserOf[e])
    /\ UNCHANGED << db, recorded, queue, lock, running, pc, mine, toRoute, todo, batch, dropped, faults >>

\* UserRuntime.ingest: a full queue drops its oldest event
RouteEvent(w) ==
    /\ pc[w] = "route" /\ user[w] # NoUser
    /\ \E e \in toRoute[w] :
          LET q    == queue[user[w]]
              full == Len(q) >= MaxUserQueue
          IN /\ UserOf[e] = user[w]
             /\ queue' = [queue EXCEPT ![user[w]] = Append(IF full THEN Tail(q) ELSE q, e)]
             /\ dropped' = IF full THEN dropped \cup {Head(q)} ELSE dropped
             /\ toRoute' = [toRoute EXCEPT ![w] = @ \ {e}]
             /\ user' = IF \E f \in toRoute[w] \ {e} : UserOf[f] = user[w]
                        THEN user ELSE [user EXCEPT ![w] = NoUser]
    /\ UNCHANGED << db, recorded, known, lock, running, pc, mine, todo, batch, faults >>

\* with self.lock: for runtime in self.runtimes.values()
Acquire(w) ==
    /\ pc[w] = "route" /\ toRoute[w] = {}
    /\ LockFree
    /\ lock' = w
    /\ todo' = [todo EXCEPT ![w] = known]
    /\ pc' = [pc EXCEPT ![w] = "each"]
    /\ UNCHANGED << db, recorded, queue, known, running, mine, toRoute, user, batch, dropped, faults >>

\* process_batch drains the queue; an empty one is skipped
DrainedOwn(w, u) == SelectSeq(queue[u], LAMBDA e : Owns(w, e))
Drained(w, u) == queue[u]

Drain(w) ==
    /\ pc[w] = "each" /\ todo[w] # <<>>
    /\ LET u == Head(todo[w]) IN
          /\ batch' = [batch EXCEPT ![w] = Drained(w, u)]
          /\ queue' = [queue EXCEPT ![u] = <<>>]
          /\ pc' = IF Drained(w, u) = <<>> THEN pc ELSE [pc EXCEPT ![w] = "commit"]
    /\ todo' = [todo EXCEPT ![w] = Tail(@)]
    /\ UNCHANGED << db, recorded, known, lock, running, mine, toRoute, user, dropped, faults >>

\* the rows of the batch and the processed mark of my_ids, in one commit
Commit(w) ==
    /\ pc[w] = "commit"
    /\ recorded' = [e \in Events |-> recorded[e] + IF e \in SeqRange(batch[w]) THEN 1 ELSE 0]
    /\ db' = Marked(w)
    /\ batch' = [batch EXCEPT ![w] = <<>>]
    /\ pc' = [pc EXCEPT ![w] = "each"]
    /\ UNCHANGED << memVars, running, mine, toRoute, user, todo, dropped, faults >>

Reset(w) ==
    /\ pc'      = [pc EXCEPT ![w] = "top"]
    /\ mine'    = [mine EXCEPT ![w] = {}]
    /\ toRoute' = [toRoute EXCEPT ![w] = {}]
    /\ user'    = [user EXCEPT ![w] = NoUser]
    /\ todo'    = [todo EXCEPT ![w] = <<>>]
    /\ batch'   = [batch EXCEPT ![w] = <<>>]

Release(w) ==
    /\ pc[w] = "each" /\ todo[w] = <<>>
    /\ lock' = NoWorker
    /\ Reset(w)
    /\ UNCHANGED << db, recorded, queue, known, running, dropped, faults >>

\* a statement fails: the claim, one of process_batch, or, before the first
\* event is routed, the SELECT that reads the claimed rows again, which the
\* commit has expired
Failing(w) ==
    \/ pc[w] \in {"claim", "commit"}
    \/ pc[w] = "route" /\ toRoute[w] = mine[w] /\ user[w] = NoUser

\* the exception: rollback, the session is closed, the `with' block gives the
\* lock back, and what was claimed or drained is gone
Fail(w) ==
    /\ Failing(w)
    /\ faults < MaxFaults
    /\ faults' = faults + 1
    /\ lock' = IF lock = w THEN NoWorker ELSE lock
    /\ Reset(w)
    /\ UNCHANGED << db, recorded, queue, known, running, dropped >>

-----------------------------------------------------------------------------
(* stop() clears _running, each worker leaves its loop at the top.  A crash *)
(* is what the operating system does to the process: whatever is in memory  *)
(* is lost, and the backend starts again.                                   *)

Stop ==
    /\ running
    /\ running' = FALSE
    /\ UNCHANGED << db, recorded, memVars, workerVars, dropped, faults >>

LeavesAt == {"top"}

End(w) ==
    /\ pc[w] \in LeavesAt /\ ~running
    /\ pc' = [pc EXCEPT ![w] = "ended"]
    /\ UNCHANGED << db, recorded, memVars, running, mine, toRoute, user, todo, batch, dropped, faults >>

Crash ==
    /\ faults < MaxFaults
    /\ faults' = faults + 1
    /\ queue'   = [u \in Users |-> <<>>]
    /\ known'   = <<>>
    /\ lock'    = NoWorker
    /\ running' = TRUE
    /\ pc'      = [w \in Workers |-> "top"]
    /\ mine'    = [w \in Workers |-> {}]
    /\ toRoute' = [w \in Workers |-> {}]
    /\ user'    = [w \in Workers |-> NoUser]
    /\ todo'    = [w \in Workers |-> <<>>]
    /\ batch'   = [w \in Workers |-> <<>>]
    /\ UNCHANGED << db, recorded, dropped >>

Init ==
    /\ db       = [e \in Events |-> "absent"]
    /\ recorded = [e \in Events |-> 0]
    /\ dropped  = {}
    /\ faults   = 0
    /\ queue   = [u \in Users |-> <<>>]
    /\ known   = <<>>
    /\ lock    = NoWorker
    /\ running = TRUE
    /\ pc      = [w \in Workers |-> "top"]
    /\ mine    = [w \in Workers |-> {}]
    /\ toRoute = [w \in Workers |-> {}]
    /\ user    = [w \in Workers |-> NoUser]
    /\ todo    = [w \in Workers |-> <<>>]
    /\ batch   = [w \in Workers |-> <<>>]

WorkerStep(w) ==
    \/ Fetch(w) \/ Claim(w) \/ RouteUser(w) \/ RouteEvent(w)
    \/ Acquire(w) \/ Drain(w) \/ Commit(w) \/ Release(w) \/ End(w)

Next ==
    \/ \E e \in Events : Arrive(e)
    \/ \E w \in Workers : WorkerStep(w) \/ Fail(w)
    \/ Stop
    \/ Crash

Spec == Init /\ [][Next]_vars

(* Every worker thread keeps running, and one that waits for the lock gets   *)
(* it at last, since each worker sleeps between two batches.  Weak fairness  *)
(* of Fetch also says that a row is not passed over for ever by the SELECT:  *)
(* it returns an unchanged table in the same order to every worker, and the  *)
(* worker that owns the first row claims it.                                 *)
Fairness ==
    \A w \in Workers :
        /\ WF_vars(WorkerStep(w))
        /\ SF_vars(RouteUser(w))
        /\ SF_vars(Acquire(w))

FairSpec == Spec /\ Fairness
-----------------------------------------------------------------------------
(* What the runtime promises of each event: EventOnce under this mapping.   *)

Status(e) ==
    CASE recorded[e] > 1 -> "twice"
      [] recorded[e] = 1 -> "recorded"
      [] recorded[e] = 0 /\ db[e] = "processed" -> "claimed"
      [] OTHER -> db[e]

Once == INSTANCE EventOnce WITH status <- [e \in Events |-> Status(e)]

\* Seen from the database, every event goes from absent to new, claimed and
\* recorded, one step at a time, never back and never twice, whatever the
\* workers, the failures and the restarts do.
RefinesEventOnce == Once!Spec

-----------------------------------------------------------------------------
(* Properties.                                                              *)

\* The range of every variable.
TypeOK ==
    /\ db \in [Events -> {"absent", "new", "processed"}]
    /\ recorded \in [Events -> Nat]
    /\ queue \in [Users -> Seq(Events)]
    /\ known \in Seq(Users)
    /\ lock \in Workers \cup {NoWorker}
    /\ running \in BOOLEAN
    /\ pc \in [Workers -> PC]
    /\ mine \in [Workers -> SUBSET Events]
    /\ toRoute \in [Workers -> SUBSET Events]
    /\ user \in [Workers -> Users \cup {NoUser}]
    /\ todo \in [Workers -> Seq(Users)]
    /\ batch \in [Workers -> Seq(Events)]
    /\ dropped \in SUBSET Events
    /\ faults \in Nat

\* The events some worker is routing, some queue holds, or some batch holds.
InMemory ==
    (UNION {toRoute[w] \cup SeqRange(batch[w]) : w \in Workers})
        \cup (UNION {SeqRange(queue[u]) : u \in Users})

\* "Atomically claim events for this worker to prevent double-processing": no
\* event is evaluated twice, although workers read the table concurrently,
\* fail halfway and the process restarts at any step.
RecordedAtMostOnce == \A e \in Events : recorded[e] <= 1

\* The loop over the runtimes and process_batch run in one worker at a time,
\* the one that holds self.lock.
OneDrainer == \A w \in Workers : pc[w] \in {"each", "commit"} <=> lock = w

\* Unless a statement failed or the process crashed, an event marked as
\* processed is on its way, was evaluated, or fell out of a full queue.
NothingLostWithoutFaults ==
    faults = 0 =>
        \A e \in Events : db[e] = "processed" =>
            recorded[e] = 1 \/ e \in InMemory \/ e \in dropped

\* Every event that arrives is evaluated, or dropped from a full queue, unless
\* the runtime is stopped or something fails.
EventuallyRecorded ==
    \A e \in Events :
        db[e] = "new" ~> (recorded[e] = 1 \/ e \in dropped \/ ~running \/ faults > 0)

=============================================================================

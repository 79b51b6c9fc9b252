---------------------------- MODULE FusedEngine ----------------------------
(***************************************************************************)
(* include/ids_fused_engine.hpp on include/ids_thread_pool.hpp: a caller   *)
(* hands one task per specialist to the pool, waits for each answer in     *)
(* turn, gives up on those that are late, and fuses the rest.  A task that *)
(* was given up goes on running: the pool knows nothing of timeouts.       *)
(*                                                                         *)
(* The pool's mutex makes a worker's test of its condition and what it     *)
(* then does one step.  wait_for is a choice: as long as an answer is not  *)
(* there the caller may run out of time.  An analysis may hang for good    *)
(* (Hang).  What a specialist finds is one of the Answers.                 *)
(*                                                                         *)
(* Faulty variants of some definitions stand before them, used by no       *)
(* action: they serve to test that a property would notice the fault.      *)
(***************************************************************************)
EXTENDS Naturals, Sequences, FiniteSets

CONSTANTS
    Specialists,   \* Seq of the specialists, in the order they were added
    Critical,      \* those whose class is ZeroDay or Ransomware
    Workers,       \* the pool's threads
    Answers,       \* set of [validated : BOOLEAN, confidence : 0 .. 100]
    MaxEvents,     \* bound of the model: calls of ingest
    MaxHangs       \* bound of the model: analyses that never end

ASSUME FusedAssumption ==
    /\ Len(Specialists) \in Nat \ {0} /\ DOMAIN Specialists = 1 .. Len(Specialists)
    /\ Workers # {} /\ IsFiniteSet(Workers)
    /\ Answers \subseteq [validated : BOOLEAN, confidence : 0 .. 100]
    /\ {MaxEvents, MaxHangs} \subseteq Nat

VARIABLES
    strategy,   \* strategy_: "consensus" or "priority"
    pc,         \* where the caller is: "idle", "enqueue", "wait", "join" or "gone"
    event,      \* the number of the event at hand
    next,       \* index of the future the caller turns to next
    results,    \* results: of the last call, in the order of the specialists
    verdict,    \* what the last call returned
    futures,    \* [1 .. MaxEvents -> [DOMAIN Specialists -> none, pending, error or an answer]]
    tasks,      \* tasks_: sequence of [event, specialist]
    worker,     \* [Workers -> asleep, awake, left or the task it runs]
    hung,       \* the workers whose task never ends
    stop        \* stop_

fvars == << strategy, pc, event, next, results, verdict, futures, tasks, worker, hung, stop >>

Silent == [validated |-> FALSE, confidence |-> 0]   \* after a timeout or an exception
None    == [state |-> "none"]
Pending == [state |-> "pending"]
Error   == [state |-> "error"]
Ready(a) == [state |-> "ready", answer |-> a]
Asleep == [does |-> "asleep"]
Awake  == [does |-> "awake"]
Left   == [does |-> "left"]
Runs(t) == [does |-> "runs", task |-> t]

-----------------------------------------------------------------------------
(* Fusion: 0 for nobody, else the index of the specialist that decides.     *)

Confidence(answers, i) == IF i = 0 THEN 0 ELSE answers[i].confidence

\* ConsensusFusion: the first of the validated with the highest confidence
ConsensusOfAll(answers) ==
    LET best[i \in 0 .. Len(answers)] ==
            IF i = 0 THEN 0
            ELSE IF answers[i].confidence > Confidence(answers, best[i - 1])
                 THEN i ELSE best[i - 1]
    IN  best[Len(answers)]
BestAlong(answers) ==
    LET best[i \in 0 .. Len(answers)] ==
            IF i = 0 THEN 0
            ELSE IF answers[i].validated /\ answers[i].confidence > Confidence(answers, best[i - 1])
                 THEN i ELSE best[i - 1]
    IN  best
Consensus(answers) == BestAlong(answers)[Len(answers)]

\* PriorityFusion: the first critical class that is sure enough, else consensus
Alarms(answers) ==
    {i \in DOMAIN answers :
        answers[i].validated /\ Specialists[i] \in Critical /\ answers[i].confidence > 60}
Fuse(answers) ==
    IF strategy = "priority" /\ Alarms(answers) # {}
    THEN CHOOSE i \in Alarms(answers) : \A j \in Alarms(answers) : i <= j
    ELSE Consensus(answers)

-----------------------------------------------------------------------------
(* The caller: FusedDetectionEngine::ingest.                                *)

Call ==
    /\ pc = "idle"
    /\ event < MaxEvents
    /\ event' = event + 1
    /\ pc' = "enqueue"
    /\ next' = 1
    /\ results' = <<>>
    /\ verdict' = 0
    /\ UNCHANGED << strategy, futures, tasks, worker, hung, stop >>

\* ThreadPool::enqueue: the push, then notify_one
WakeNobody == UNCHANGED worker
WakeOne ==
    IF \E w \in Workers : worker[w] = Asleep
    THEN \E w \in Workers : worker[w] = Asleep /\ worker' = [worker EXCEPT ![w] = Awake]
    ELSE UNCHANGED worker
Enqueue ==
    /\ pc = "enqueue"
    /\ tasks' = Append(tasks, [event |-> event, specialist |-> next])
    /\ futures' = [futures EXCEPT ![event][next] = Pending]
    /\ WakeOne
    /\ IF next < Len(Specialists)
       THEN next' = next + 1 /\ pc' = pc
       ELSE next' = 1 /\ pc' = "wait"
    /\ UNCHANGED << strategy, event, results, verdict, hung, stop >>

\* the loop over the futures ends with the verdict
Heard(answer) ==
    /\ results' = Append(results, answer)
    /\ IF next < Len(Specialists)
       THEN next' = next + 1 /\ UNCHANGED << pc, verdict >>
       ELSE next' = next /\ pc' = "idle" /\ verdict' = Fuse(results')
    /\ UNCHANGED << strategy, event, futures, tasks, worker, hung, stop >>

Hear ==
    /\ pc = "wait"
    /\ futures[event][next].state = "ready"
    /\ Heard(futures[event][next].answer)
HearError ==
    /\ pc = "wait"
    /\ futures[event][next] = Error
    /\ Heard(Silent)
TimeoutButForTheLast ==
    /\ pc = "wait"
    /\ futures[event][next] = Pending
    /\ next < Len(Specialists)
    /\ Heard(Silent)
Timeout ==
    /\ pc = "wait"
    /\ futures[event][next] = Pending
    /\ Heard(Silent)

-----------------------------------------------------------------------------
(* The pool.                                                                *)

\* a worker that is awake looks at the queue and at stop
Look(w) ==
    /\ worker[w] = Awake
    /\ IF tasks # <<>>
       THEN worker' = [worker EXCEPT ![w] = Runs(Head(tasks))] /\ tasks' = Tail(tasks)
       ELSE worker' = [worker EXCEPT ![w] = IF stop THEN Left ELSE Asleep] /\ UNCHANGED tasks
    /\ UNCHANGED << strategy, pc, event, next, results, verdict, futures, hung, stop >>

\* the task ends with an answer or an exception, without looking whether
\* anybody still waits for it
Finish(w) ==
    /\ worker[w].does = "runs"
    /\ w \notin hung
    /\ \E outcome \in {Ready(a) : a \in Answers} \cup {Error} :
          futures' = [futures EXCEPT ![worker[w].task.event][worker[w].task.specialist] = outcome]
    /\ worker' = [worker EXCEPT ![w] = Awake]
    /\ UNCHANGED << strategy, pc, event, next, results, verdict, tasks, hung, stop >>

Hang(w) ==
    /\ worker[w].does = "runs"
    /\ w \notin hung
    /\ Cardinality(hung) < MaxHangs
    /\ hung' = hung \cup {w}
    /\ UNCHANGED << strategy, pc, event, next, results, verdict, futures, tasks, worker, stop >>

\* ~ThreadPool: stop, notify_all, and join every worker
WakeEach == [w \in Workers |-> IF worker[w] = Asleep THEN Awake ELSE worker[w]]
Destroy ==
    /\ pc = "idle"
    /\ pc' = "join"
    /\ stop' = TRUE
    /\ worker' = WakeEach
    /\ UNCHANGED << strategy, event, next, results, verdict, futures, tasks, hung >>
Joined ==
    /\ pc = "join"
    /\ \A w \in Workers : worker[w] = Left
    /\ pc' = "gone"
    /\ UNCHANGED << strategy, event, next, results, verdict, futures, tasks, worker, hung, stop >>

FusedInit ==
    /\ strategy \in {"consensus", "priority"}
    /\ pc = "idle"
    /\ event = 0
    /\ next = 1
    /\ results = <<>>
    /\ verdict = 0
    /\ futures = [e \in 1 .. MaxEvents |-> [i \in DOMAIN Specialists |-> None]]
    /\ tasks = <<>>
    /\ worker = [w \in Workers |-> Awake]
    /\ hung = {}
    /\ stop = FALSE

Caller == Call \/ Enqueue \/ Hear \/ HearError \/ Timeout \/ Destroy \/ Joined
Pool   == \E w \in Workers : Look(w) \/ Finish(w) \/ Hang(w)
FusedNext   == Caller \/ Pool
FusedSpec   == FusedInit /\ [][FusedNext]_fvars

\* the caller's thread runs while it is in a call or in the destructor, the
\* workers run, an analysis that does not hang ends, and wait_for ends
Fairness ==
    /\ WF_fvars(Enqueue) /\ WF_fvars(Hear \/ HearError \/ Timeout) /\ WF_fvars(Joined)
    /\ \A w \in Workers : WF_fvars(Look(w)) /\ WF_fvars(Finish(w))

FairSpec == FusedSpec /\ Fairness

-----------------------------------------------------------------------------
(* Properties.                                                              *)

\* Whatever was late, failed or was refused, the verdict is that of a validated
\* answer of the same event that arrived in time, and none that arrived in time
\* is more certain, except that a sure critical one decides under the priority
\* strategy; "nobody" means that none had any confidence.
VerdictIsBest ==
    pc = "idle" /\ event > 0 =>
        LET valid == {i \in DOMAIN results : results[i].validated /\ results[i].confidence > 0}
        IN  IF verdict = 0 THEN valid = {}
            ELSE /\ verdict \in valid
                 /\ results[verdict] = futures[event][verdict].answer
                 /\ \/ strategy = "priority" /\ verdict \in Alarms(results)
                    \/ /\ strategy = "priority" => Alarms(results) = {}
                       /\ \A i \in valid : results[i].confidence <= results[verdict].confidence

AllHung == hung = Workers

\* A call returns whatever its specialists do, even when every worker of the
\* pool hangs on an earlier event.
CallReturns == pc \in {"enqueue", "wait"} ~> pc = "idle"

\* The destructor leaves no task behind.
TasksEnded ==
    pc = "gone" => \A e \in 1 .. MaxEvents, i \in DOMAIN Specialists : futures[e][i] # Pending

\* One worker that is left serves every task of the queue; the destructor
\* returns unless a task really hangs, and then every task that was ever
\* accepted has been run to its end, those nobody waited for any more too.
PoolServes ==
    /\ tasks # <<>> ~> tasks = <<>> \/ AllHung
    /\ pc = "join" ~> pc = "gone" \/ hung # {}
    /\ []TasksEnded

=============================================================================

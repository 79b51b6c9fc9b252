------------------------------ MODULE Pipeline ------------------------------
(***************************************************************************)
(* include/ids.hpp: IDS::ingest, which takes one event through every stage *)
(* of the pipeline: validation, the two state-space levels, the memory     *)
(* (include/ids_memory.hpp), the reasoning gate and model                  *)
(* (ids_reasoning.hpp), the specialists, the near-miss and aggregate       *)
(* detectors (ids_types.hpp), correlation, decision, online learning and   *)
(* panic mode.  A call runs under the pipeline's locks from end to end and *)
(* is one action.                                                          *)
(*                                                                         *)
(* Scores are whole hundredths.  Numbers that come out of features (the    *)
(* local score, the fused score, the class and host boosts) are any of     *)
(* those the constants offer; what the stages make of them is exact.  The  *)
(* correlation and the decision engine have modules of their own: here     *)
(* they answer anything those modules allow.  Of the keyed stores of       *)
(* MemoryStore the model keeps those of the sources and the global one;    *)
(* host, user, session and process stores are written and evicted alike.   *)
(*                                                                         *)
(* Faulty variants of some definitions stand before them, used by no       *)
(* action: they serve to test that a property would notice the fault.      *)
(***************************************************************************)
EXTENDS Naturals, Sequences, FiniteSetsExt

CONSTANTS
    Sources,
    Global,           \* the key of global_store
    Damaged,          \* what a part of the pipeline holds after a broken file
    Anomalies,        \* the local scores that occur
    Fused,            \* what fuse_score and the attention boost add up to
    Specialists,      \* the best validated confidence of the specialists, 0: none
    Boosts,           \* what PerIPAggregator::score finds in a full window
    Rules,            \* RuleTable: set of [threshold : Nat, sources : SUBSET Sources]
    Configured,       \* thresholds a configuration may hold
    Faults,           \* exceptions that occur: subset of {"write", "retrieval", "reasoning", "after"}
    FlushN,           \* flush.flush_n
    MinSegments,      \* routing.skip.min_segments
    MaxStore,         \* VectorStore::max_size_
    RecordTtl,        \* VectorStore::ttl_s_
    RetrievalGap,     \* one second
    NearWindow, NearThreshold,
    MaxNearMisses,    \* the near misses of a source it keeps, 50
    AggregateMin,     \* the events of a source it takes for an aggregate score
    SampleRate,       \* online_learning.sample_rate
    PanicThreshold, PanicWindow,
    MaxEvents,        \* bound of the model: valid events
    MaxFaults,        \* bound of the model: invalid events of a process
    MaxClock          \* bound of the model: the last tick

\* DecisionThresholds: ignore and log are never configured
IgnoreThreshold == 20
LogThreshold    == 40
Defaults == [alert |-> 60, block |-> 85, escalate |-> 95]

FpSuppression  == 20    \* ReasoningConfig
GateThreshold  == 35    \* ReasoningGateConfig
ForceLocal     == 90    \* ForcedReasoningConfig
SkipLocal      == 10    \* SkipReasoningConfig
WriteGate      == 50    \* WritePolicy::memory_write_gate
ForceGate      == 85    \* WritePolicy::memory_force_gate
MinConfidence  == 10    \* DecisionPolicy and OnlineLearningConfig
ForceAnomaly   == 90    \* ForceRules

\* the order validate_config asks for, and an alert threshold that a score can
\* reach, which it does not ask for
Ordered(t) ==
    /\ {t.alert, t.block, t.escalate} \subseteq Nat
    /\ LogThreshold < t.alert /\ t.alert < t.block /\ t.block <= t.escalate
    /\ t.alert <= 100

ASSUME PipelineAssumption ==
    /\ Global \notin Sources
    /\ Anomalies \subseteq 0 .. 100 /\ Fused \subseteq 0 .. 100
    /\ Specialists \subseteq 0 .. 100 /\ Boosts \subseteq 0 .. 50
    /\ \A r \in Rules : r.threshold \in Nat /\ r.sources \subseteq Sources
    /\ \A t \in Configured : Ordered(t)
    /\ Faults \subseteq {"write", "retrieval", "reasoning", "after"}
    /\ MaxStore \in Nat /\ MaxStore >= 3
    /\ {FlushN, SampleRate, NearThreshold, MaxNearMisses} \subseteq Nat \ {0}
    /\ {MinSegments, RecordTtl, RetrievalGap, NearWindow, AggregateMin, PanicThreshold,
        PanicWindow, MaxEvents, MaxFaults, MaxClock} \subseteq Nat
    /\ MaxClock > RetrievalGap

VARIABLES
    thresholds,     \* cfg_.thresholds
    seen,           \* l0_: how many events its rolling statistics hold
    filling,        \* l1_instances_: [Sources -> 0 .. FlushN - 1], the events of the open segment
    segments,       \* segment_count_, which is only compared with min_segments
    promotions,     \* last_global_: how many times level 2 was updated
    stores,         \* memory_: [Sources \cup {Global} -> SUBSET Records]
    lastRetrieval,  \* last_retrieval_time_: [Sources -> Nat]
    nearMisses,     \* near_miss_: [Sources -> Seq(Nat)], when they were
    aggregated,     \* aggregator_: [Sources -> 0 .. AggregateMin], the length of its window
    onlineSteps,    \* online_step_counter_ modulo sample_rate
    learned,        \* ae_: how many times it was trained
    faults,         \* metrics_.faults_total
    panic,          \* health_.panic_mode
    panicSince,     \* panic_entry_time_
    panicFaults,    \* panic_entry_fault_count_
    enteredAt,      \* history: the faults there were when panic mode was entered, 0: never
    clock,
    events,         \* valid events so far
    heard,          \* history: what became of the last event, if it matched a rule
    blocked         \* history: the last event, if it was to be blocked and remembered

levels    == << seen, filling, segments, promotions >>
detectors == << lastRetrieval, nearMisses, aggregated >>
learning  == << onlineSteps, learned >>
health    == << faults, panic, panicSince, panicFaults, enteredAt >>
pipeline  == << thresholds, levels, stores, detectors, learning, health, heard, blocked >>
pvars     == << pipeline, clock, events >>

Decisions == << "Ignore", "Log", "Alert", "Block", "Escalate" >>
DecisionSet == {Decisions[i] : i \in DOMAIN Decisions}
Rank(d) == CHOOSE i \in DOMAIN Decisions : Decisions[i] = d
Start   == RetrievalGap + 1          \* the machine has been up that long

\* a record of the memory: `after' tells the write after the decision from the
\* one before it
Records == [event : 1 .. MaxEvents, after : BOOLEAN, score : Anomalies, at : Start .. MaxClock]

NoRule     == [decision |-> "none", offered |-> FALSE, learned |-> FALSE]
NotBlocked == [source |-> Global, event |-> 0, score |-> 0]

AtMost100(x) == IF x > 100 THEN 100 ELSE x
Larger(x, y) == IF x > y THEN x ELSE y

-----------------------------------------------------------------------------
(* Memory.                                                                  *)

\* VectorStore::evict: what is too old, then, if that was not enough, the
\* quarter with the lowest scores; ties fall either way
EvictedByAgeOnly(records) == {{r \in records : clock - r.at <= RecordTtl}}
Evicted(records) ==
    LET live == {r \in records : clock - r.at <= RecordTtl}
    IN  IF Cardinality(live) <= MaxStore THEN {live}
        ELSE {live \ gone : gone \in {g \in kSubset(Cardinality(live) \div 4, live) :
                  \A r \in g, k \in live \ g : r.score <= k.score}}

\* VectorStore::insert: the contents the store may have afterwards
Inserted(records, r) ==
    LET all == records \cup {r}
    IN  IF Cardinality(all) > MaxStore THEN Evicted(all) ELSE {all}

\* should_write (by the default policy), and write_record
ShouldWriteNoBlock(anomaly, matched, blocks) == anomaly >= WriteGate \/ matched
ShouldWrite(anomaly, matched, blocks) == anomaly >= WriteGate \/ matched \/ blocks

WriteRecord(memory, s, r) ==
    {[memory EXCEPT ![s] = mine, ![Global] = all] :
        mine \in Inserted(memory[s], r),
        all \in IF r.score >= ForceGate THEN Inserted(memory[Global], r) ELSE {memory[Global]}}

\* Retriever::write
Write(memory, s, anomaly, matched, blocks, after) ==
    IF ShouldWrite(anomaly, matched, blocks)
    THEN WriteRecord(memory, s,
             [event |-> events + 1, after |-> after, score |-> anomaly, at |-> clock])
    ELSE {memory}

\* RuleTable::match
Matches(s, anomaly) == \E r \in Rules : anomaly >= r.threshold \/ s \in r.sources

\* retrieval: for half the gate's score, and once a second for a source; the
\* rules are looked up by it and by nothing else
Retrieves(s, anomaly) ==
    2 * anomaly >= GateThreshold /\ clock - lastRetrieval[s] > RetrievalGap

-----------------------------------------------------------------------------
(* Scores and decisions.                                                    *)

ScoreToDecision(score) ==
    CASE score < IgnoreThreshold  -> "Ignore"
      [] score >= IgnoreThreshold /\ score < LogThreshold -> "Log"
      [] score >= LogThreshold /\ score < thresholds.alert -> "Alert"
      [] score >= thresholds.alert /\ (score < thresholds.block \/ score < thresholds.escalate) -> "Block"
      [] OTHER -> "Escalate"

\* a ReasoningResult, as far as the later stages read it; base is
\* trace.base_decision, with which trace.final_decision begins
Result(confidence, d, base, fp) ==
    [confidence |-> confidence, decision |-> d, base |-> base, fp |-> fp]
Rescored(res, confidence) ==
    Result(confidence, ScoreToDecision(confidence), res.base, res.fp)

\* ReasoningModel::reason: a rule lifts the score to the alert threshold
ReasonNoOverride(fused, matched) ==
    LET d == IF fused < FpSuppression THEN "Ignore" ELSE ScoreToDecision(fused)
    IN  Result(fused, d, d, fused < FpSuppression)
Reason(fused, matched) ==
    LET combined == IF matched THEN Larger(fused, thresholds.alert) ELSE fused
        d == IF combined < FpSuppression THEN "Ignore" ELSE ScoreToDecision(combined)
    IN  Result(combined, d, d, combined < FpSuppression)

\* step 7: `gate' says how the gate's score and the drift stand
Forced(anomaly, matched, gate) == matched \/ anomaly > ForceLocal \/ gate = "forced"
Skipped(anomaly, matched) == anomaly < SkipLocal /\ ~matched
Runs(anomaly, matched, gate) ==
    Forced(anomaly, matched, gate) \/ (gate = "open" /\ ~Skipped(anomaly, matched))

Step7(anomaly, matched, gate, fused, fault) ==
    IF panic
    THEN Result(0, IF matched THEN "Alert" ELSE "Ignore", "Ignore", FALSE)
    ELSE IF ~Runs(anomaly, matched, gate) THEN Result(0, "Ignore", "Ignore", FALSE)
    ELSE IF fault = "reasoning" THEN Result(fused, ScoreToDecision(fused), "Ignore", FALSE)
    ELSE Reason(fused, matched)

\* step 7.3: a specialist adds half its confidence
Specialised(res, specialist) ==
    IF res.confidence > 0 /\ specialist > 30
    THEN Rescored(res, AtMost100(res.confidence + specialist \div 2)) ELSE res

\* step 7.4: NearMissDetector::check adds a near miss to those of the source and
\* takes from the front what has left the window, and one more at the limit
Watched(res) == res.confidence < thresholds.alert
NearMiss(res) == Watched(res) /\ res.confidence >= 25 /\ res.confidence < 60
WithoutExpired(ring) ==
    SubSeq(ring, Min({i \in DOMAIN ring : clock - ring[i] <= NearWindow}), Len(ring))
Limited(ring) == IF Len(ring) > MaxNearMisses THEN Tail(ring) ELSE ring
NearMissesOf(s, res) ==
    IF NearMiss(res) THEN Limited(WithoutExpired(Append(nearMisses[s], clock)))
    ELSE nearMisses[s]
AggregatedOf(s, res) ==
    IF Watched(res) /\ aggregated[s] < AggregateMin THEN aggregated[s] + 1 ELSE aggregated[s]
Boosted(s, res, boost) ==
    LET near  == IF NearMiss(res) /\ Len(NearMissesOf(s, res)) >= NearThreshold THEN 40 ELSE 0
        whole == IF AggregatedOf(s, res) = AggregateMin THEN boost ELSE 0
        total == Larger(near, whole)
    IN  IF Watched(res) /\ total > 0
        THEN Rescored(res, AtMost100(res.confidence + total)) ELSE res

\* step 7.5: the correlation only ever raises an alert
Correlated(res, raised) ==
    IF raised /\ res.decision = "Alert" THEN [res EXCEPT !.decision = "Escalate"] ELSE res

\* step 8: what DecisionEngine::execute may leave in trace.final_decision.  It
\* returns at once for a false positive and for too little confidence, and when
\* the cooldown refuses; the lists, hysteresis, drift, repetition and learning
\* mode account for the rest
Offered(res) == ~res.fp /\ res.confidence >= MinConfidence
Finals(res) ==
    {res.base} \cup
    IF Offered(res)
    THEN {res.decision, "Ignore", "Block", "Alert"}
         \cup (IF res.decision \in {"Ignore", "Log"} THEN {} ELSE {"Escalate"})
    ELSE {}

-----------------------------------------------------------------------------
(* The levels.                                                              *)

\* a part that a broken file left half loaded stays that way
Advanced(x) == IF x = Damaged THEN Damaged ELSE x + 1

\* step 1: LocalAnalyzer::process moves its rolling statistics on
LocalProcess == seen' = Advanced(seen)

\* step 2: SegmentSSM::update adds the event to the open segment of its source
\* and ends it by count, or by score, time, session or type
SegmentUpdate(s, flushed) ==
    /\ filling[s] + 1 = FlushN => flushed
    /\ filling' = [filling EXCEPT ![s] = IF flushed THEN 0 ELSE @ + 1]

\* steps 3 and 4: a segment that ended goes up to HierarchicalSSM::update,
\* unless it is calm and one of the first
GlobalUpdate(anomaly, flushed, promoted) ==
    /\ segments' = IF flushed /\ segments < MinSegments THEN segments + 1 ELSE segments
    /\ promoted => flushed
    /\ flushed /\ (segments' >= MinSegments \/ anomaly > ForceAnomaly) => promoted
    /\ promotions' = IF promoted THEN promotions + 1 ELSE promotions

Level(s, anomaly, flushed, promoted) ==
    /\ LocalProcess
    /\ SegmentUpdate(s, flushed)
    /\ GlobalUpdate(anomaly, flushed, promoted)

-----------------------------------------------------------------------------
(* Panic mode.                                                              *)

\* the end of ingest: entry on too many faults, then the way out, which
\* subtracts the faults there were at the last exit, not those at the entry
PanicStep ==
    LET enters == ~panic /\ faults > PanicThreshold
        since  == IF enters THEN clock ELSE panicSince
        leaves == /\ panic \/ enters
                  /\ clock - since >= PanicWindow
                  /\ faults - panicFaults < PanicThreshold \div 2
    IN  /\ panic' = ((panic \/ enters) /\ ~leaves)
        /\ enteredAt' = IF enters THEN faults ELSE enteredAt
        /\ panicSince' = IF leaves THEN clock ELSE since
        /\ panicFaults' = IF leaves THEN faults ELSE panicFaults

-----------------------------------------------------------------------------
(* Actions.                                                                 *)

\* an event that validate_event refuses is counted as a fault, and nothing else
IngestInvalid ==
    /\ faults < MaxFaults
    /\ faults' = faults + 1
    /\ UNCHANGED << events, thresholds, levels, stores, detectors, learning, panic, panicSince,
                    panicFaults, enteredAt, clock, heard, blocked >>

\* step 8c: a sampled step of the autoencoder, Autoencoder::online_update, on an
\* event of no confidence
Learns(confidence) == confidence < MinConfidence /\ ~panic
OnlineUpdate == learned' = Advanced(learned)
OnlineLearning(learns) ==
    /\ onlineSteps' = IF learns THEN (onlineSteps + 1) % SampleRate ELSE onlineSteps
    /\ IF learns /\ onlineSteps' = 0 THEN OnlineUpdate ELSE UNCHANGED learned

\* steps 7 to 7.4, for every number that may come out of the features: what
\* the near-miss detector sees, and what correlation gets
Assessments(s, anomaly, matched, fault) ==
    {LET seenBy == Specialised(Step7(anomaly, matched, gate, fused, fault), specialist)
     IN  [before |-> seenBy, result |-> Boosted(s, seenBy, boost)] :
        gate \in {"shut", "open", "forced"}, fused \in Fused, specialist \in Specialists,
        boost \in Boosts}

\* what the detectors keep, and what becomes of the event
Verdicts(s, anomaly, matched, fault) ==
    UNION {LET res == Correlated(a.result, raised)
           IN  {[near |-> NearMissesOf(s, a.before), window |-> AggregatedOf(s, a.before),
                 learns |-> Learns(res.confidence),
                 heard |-> IF matched /\ ~panic /\ fault # "reasoning"
                           THEN [decision |-> res.decision, offered |-> Offered(res),
                                 learned |-> Learns(res.confidence)]
                           ELSE NoRule,
                 blocks |-> final \in {"Block", "Escalate"}] : final \in Finals(res)} :
        a \in Assessments(s, anomaly, matched, fault), raised \in BOOLEAN}

\* step 5 and step 8b: the memory before and after the decision
WriteBefore(s, anomaly, fault) ==
    IF panic \/ fault = "write" THEN {stores} ELSE Write(stores, s, anomaly, FALSE, FALSE, FALSE)
WriteAfter(memory, s, anomaly, matched, blocks, fault) ==
    IF panic \/ fault = "after" \/ ~blocks THEN {memory}
    ELSE Write(memory, s, anomaly, matched, blocks, TRUE)

Ingest(s, anomaly, fault) ==
    LET asks    == Retrieves(s, anomaly) /\ fault # "retrieval"
        matched == asks /\ Matches(s, anomaly)
    IN  /\ events < MaxEvents
        /\ events' = events + 1
        /\ \E flushed, promoted \in BOOLEAN : Level(s, anomaly, flushed, promoted)
        /\ lastRetrieval' = IF asks THEN [lastRetrieval EXCEPT ![s] = clock] ELSE lastRetrieval
        /\ \E v \in Verdicts(s, anomaly, matched, fault) :
              /\ nearMisses' = [nearMisses EXCEPT ![s] = v.near]
              /\ aggregated' = [aggregated EXCEPT ![s] = v.window]
              /\ heard' = v.heard
              /\ OnlineLearning(v.learns)
              /\ stores' \in UNION {WriteAfter(before, s, anomaly, matched, v.blocks, fault) :
                                       before \in WriteBefore(s, anomaly, fault)}
              /\ blocked' = IF v.blocks /\ ~panic /\ fault # "after"
                            THEN [source |-> s, event |-> events + 1, score |-> anomaly]
                            ELSE NotBlocked
        /\ PanicStep
        /\ UNCHANGED << thresholds, faults, clock >>

Tick ==
    /\ clock < MaxClock
    /\ clock' = clock + 1
    /\ UNCHANGED << pipeline, events >>

\* a pipeline just built with thresholds t
Fresh(t) ==
    /\ thresholds = t
    /\ seen = 0
    /\ filling = [s \in Sources |-> 0]
    /\ segments = 0
    /\ promotions = 0
    /\ stores = [k \in Sources \cup {Global} |-> {}]
    /\ lastRetrieval = [s \in Sources |-> 0]
    /\ nearMisses = [s \in Sources |-> <<>>]
    /\ aggregated = [s \in Sources |-> 0]
    /\ onlineSteps = 0
    /\ learned = 0
    /\ faults = 0
    /\ panic = FALSE
    /\ panicSince = 0
    /\ panicFaults = 0
    /\ enteredAt = 0
    /\ heard = NoRule
    /\ blocked = NotBlocked

Init ==
    /\ \E t \in Configured : Fresh(t)
    /\ clock = Start
    /\ events = 0

Next ==
    \/ \E s \in Sources, anomaly \in Anomalies, fault \in Faults \cup {"none"} :
           Ingest(s, anomaly, fault)
    \/ IngestInvalid
    \/ Tick

Spec == Init /\ [][Next]_pvars

-----------------------------------------------------------------------------
(* Properties.                                                              *)

TypeOK ==
    /\ Ordered(thresholds)
    /\ seen \in 0 .. MaxEvents \cup {Damaged} /\ learned \in Nat \cup {Damaged}
    /\ filling \in [Sources -> 0 .. FlushN - 1]
    /\ segments \in 0 .. MinSegments /\ promotions \in Nat
    /\ \A k \in Sources \cup {Global} :
           stores[k] \subseteq Records /\ Cardinality(stores[k]) <= MaxStore
    /\ lastRetrieval \in [Sources -> 0 .. clock]
    /\ DOMAIN nearMisses = Sources
    /\ \A s \in Sources :
           /\ Len(nearMisses[s]) <= MaxNearMisses
           /\ \A i \in DOMAIN nearMisses[s] : nearMisses[s][i] \in Start .. clock
    /\ aggregated \in [Sources -> 0 .. AggregateMin]
    /\ onlineSteps \in 0 .. SampleRate - 1
    /\ faults \in 0 .. MaxFaults /\ panic \in BOOLEAN
    /\ panicSince \in 0 .. clock /\ panicFaults \in 0 .. faults /\ enteredAt \in 0 .. faults
    /\ clock \in Start .. MaxClock /\ events \in 0 .. MaxEvents
    /\ heard \in [decision : DecisionSet \cup {"none"}, offered : BOOLEAN, learned : BOOLEAN]
    /\ blocked \in [source : Sources \cup {Global}, event : 0 .. MaxEvents, score : Anomalies \cup {0}]

\* "Auto-exit panic mode when fault rate drops below threshold"
\* (include/ids.hpp:573), "Auto-exits when fault rate drops"
\* (ACADEMIC_REFERENCE.md:624): the call that ends when the window has passed and
\* fewer than half the threshold of faults have come since panic mode was
\* entered leaves it.
PanicModeEnds ==
    [][/\ panic /\ events' > events
       /\ clock - panicSince >= PanicWindow
       /\ faults - enteredAt < PanicThreshold \div 2
       => ~panic']_pvars

\* Outside panic mode, and unless the reasoning itself failed, an event that
\* matched a rule is never lost on the way: after specialists, boosts and
\* correlation it is still an alert or more, the engine takes it up, and the
\* autoencoder does not learn from it.
RuleHeard ==
    heard # NoRule => Rank(heard.decision) >= Rank("Alert") /\ heard.offered /\ ~heard.learned

\* Outside panic mode, an event that was blocked or escalated is in its
\* source's store when the call returns, unless the write failed or the store
\* was cut and everything it kept ranks as high.
BlockedRemembered ==
    blocked # NotBlocked =>
        \/ \E r \in stores[blocked.source] : r.event = blocked.event
        \/ /\ Cardinality(stores[blocked.source]) = MaxStore + 1 - (MaxStore + 1) \div 4
           /\ \A r \in stores[blocked.source] : r.score >= blocked.score

=============================================================================

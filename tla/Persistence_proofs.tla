------------------------- MODULE Persistence_proofs -------------------------
(***************************************************************************)
(* Theorems about Persistence, and so about the pipeline it runs: why panic *)
(* mode is not left, what load_all answers, what a process hands on, and    *)
(* what becomes of an event that matches a rule.                            *)
(***************************************************************************)
EXTENDS Persistence, FiniteSetTheorems, SequenceTheorems, WellFoundedInduction, TLAPS

-----------------------------------------------------------------------------
(* The inductive invariants.                                                *)

\* Panic mode is entered by too many faults, and what a way out subtracts from
\* them is the count of the last one, which there was none of.
PanicInv ==
    /\ faults \in Nat
    /\ panic \in BOOLEAN
    /\ enteredAt \in 0 .. faults
    /\ panicFaults = 0
    /\ panic => faults > PanicThreshold

\* The thresholds are in order, those in the file too.
OrderInv ==
    /\ Ordered(thresholds)
    /\ files["config"].kind = "whole" => Ordered(files["config"].value)

\* What the last complete save wrote is still in the files.
SaveInv ==
    saved # NoSave =>
        /\ saved.state = [filling |-> saved.state.filling, promotions |-> saved.state.promotions]
        /\ files["state"] = Whole(saved.state)
        /\ files["config"] = Whole(saved.config)
        /\ files["l0"] = Whole(saved.l0)
        /\ files["ae"] = Whole(saved.ae)

-----------------------------------------------------------------------------
(* Panic mode.                                                              *)

\* Every step counts a fault, ends an ingest, starts afresh or leaves the health
\* of the pipeline alone.
LEMMA HealthSteps ==
    ASSUME [PersistenceNext]_vars
    PROVE  \/ PanicStep /\ faults' = faults
           \/ faults' = faults + 1 /\ UNCHANGED << panic, panicSince, panicFaults, enteredAt >>
           \/ faults' = 0 /\ panic' = FALSE /\ panicFaults' = 0 /\ enteredAt' = 0 /\ ~(up /\ up')
           \/ UNCHANGED health
<1>1. CASE UNCHANGED vars
  BY <1>1 DEF vars, pvars, pipeline
<1>2. CASE \E s \in Sources, anomaly \in Anomalies, fault \in Faults \cup {"none"} :
               Running(Ingest(s, anomaly, fault))
  BY <1>2 DEF Running, Ingest
<1>3. CASE Running(IngestInvalid)
  BY <1>3 DEF Running, IngestInvalid
<1>4. CASE Running(Tick)
  BY <1>4 DEF Running, Tick, pipeline
<1>5. CASE \E own \in Configured : StartUp(own)
  BY <1>5 DEF StartUp, FreshRest
<1>6. CASE \E how \in Writings : SaveAndExit(how)
  BY <1>6 DEF SaveAndExit, Gone, FreshRest
<1>7. CASE Crash
  BY <1>7 DEF Crash, Gone, FreshRest
<1>8. QED
  BY <1>1, <1>2, <1>3, <1>4, <1>5, <1>6, <1>7 DEF PersistenceNext

\* The way out is never taken: with as many faults as panic mode asks for, fewer
\* than half of them cannot have come since a start without any.
LEMMA PanicStepEnters ==
    ASSUME PanicInv, PanicStep, faults' = faults
    PROVE  /\ faults' \in Nat /\ panic' \in BOOLEAN /\ panicFaults' = 0
           /\ panic' = (panic \/ (~panic /\ faults > PanicThreshold))
<1> USE DEF PanicInv
<1>1. PanicThreshold \in Nat
  BY PipelineAssumption
<1>2. PanicThreshold \div 2 <= PanicThreshold /\ PanicThreshold \div 2 \in Int
  BY <1>1, SMT
<1>3. ~(panic \/ (~panic /\ faults > PanicThreshold))
          \/ ~(faults - panicFaults < PanicThreshold \div 2)
  BY <1>1, <1>2, SMT
<1>4. /\ panic' = (panic \/ (~panic /\ faults > PanicThreshold))
      /\ panicFaults' = panicFaults
  BY <1>3, Zenon DEF PanicStep
<1>5. panic' \in BOOLEAN
  BY <1>4, Zenon
<1>6. QED
  BY <1>4, <1>5

LEMMA PanicInductive == PanicInv /\ [PersistenceNext]_vars => PanicInv'
<1> SUFFICES ASSUME PanicInv, [PersistenceNext]_vars
             PROVE  PanicInv'
  OBVIOUS
<1> USE DEF PanicInv
<1>1. CASE PanicStep /\ faults' = faults
  <2>1. faults' \in Nat /\ panic' \in BOOLEAN /\ panicFaults' = 0
        /\ panic' = (panic \/ (~panic /\ faults > PanicThreshold))
    BY <1>1, PanicStepEnters
  <2>2. enteredAt' \in {faults, enteredAt}
    BY <1>1 DEF PanicStep
  <2>3. faults \in 0 .. faults
    OBVIOUS
  <2>4. enteredAt' \in 0 .. faults'
    BY <1>1, <2>2, <2>3
  <2>5. panic' => faults' > PanicThreshold
    BY <1>1, <2>1, Zenon
  <2>6. QED
    BY <2>1, <2>4, <2>5, Zenon
<1>2. CASE faults' = faults + 1 /\ UNCHANGED << panic, panicSince, panicFaults, enteredAt >>
  <2>1. PanicThreshold \in Nat
    BY PipelineAssumption
  <2>2. faults' \in Nat /\ faults < faults'
    BY <1>2
  <2>3. enteredAt' \in 0 .. faults'
    BY <1>2, <2>2
  <2>4. panic' => faults' > PanicThreshold
    BY <1>2, <2>1, <2>2
  <2>5. panic' \in BOOLEAN /\ panicFaults' = 0
    BY <1>2, Zenon
  <2>6. QED
    BY <2>2, <2>3, <2>4, <2>5, Zenon
<1>3. CASE faults' = 0 /\ panic' = FALSE /\ panicFaults' = 0 /\ enteredAt' = 0
  <2>1. faults' \in Nat /\ enteredAt' \in 0 .. faults'
    BY <1>3
  <2>2. panic' \in BOOLEAN /\ ~panic' /\ panicFaults' = 0
    BY <1>3, Zenon
  <2>3. QED
    BY <2>1, <2>2, Zenon
<1>4. CASE UNCHANGED health
  BY <1>4 DEF health
<1>5. QED
  BY <1>1, <1>2, <1>3, <1>4, HealthSteps

LEMMA PanicStarts == PersistenceInit => PanicInv
<1>1. PersistenceInit => Fresh(Defaults)
  BY Zenon DEF PersistenceInit
<1>2. Fresh(Defaults) => faults = 0 /\ panicFaults = 0 /\ enteredAt = 0
  BY Zenon DEF Fresh
<1>3. Fresh(Defaults) => panic = FALSE
  BY Zenon DEF Fresh
<1>4. ASSUME faults = 0, panicFaults = 0, panic = FALSE, enteredAt = 0
      PROVE  PanicInv
  <2>1. faults \in Nat /\ enteredAt \in 0 .. faults
    BY <1>4
  <2>2. panic \in BOOLEAN /\ ~panic
    BY <1>4, Zenon
  <2>3. QED
    BY <1>4, <2>1, <2>2, Zenon DEF PanicInv
<1>5. QED
  BY <1>1, <1>2, <1>3, <1>4, Zenon

\* The violation of PanicModeEnds is no matter of the numbers chosen for the
\* run: whatever the threshold, the window and the faults, no step of a running
\* process leaves panic mode (IDS::ingest, include/ids.hpp:574-585), because the
\* count that the exit subtracts is never set at the entry.
THEOREM NoExitFromPanic == PersistenceSpec => [][up /\ up' /\ panic => panic']_vars
<1>1. PersistenceInit => PanicInv
  BY PanicStarts
<1>2. PanicInv /\ [PersistenceNext]_vars => PanicInv'
  BY PanicInductive
<1>3. PanicInv /\ [PersistenceNext]_vars => [up /\ up' /\ panic => panic']_vars
  <2> SUFFICES ASSUME PanicInv, [PersistenceNext]_vars, up, up', panic
               PROVE  panic'
    OBVIOUS
  <2>1. CASE PanicStep /\ faults' = faults
    <3>1. panic' = (panic \/ (~panic /\ faults > PanicThreshold))
      BY <2>1, PanicStepEnters
    <3>2. QED
      BY <3>1, Zenon
  <2>2. CASE UNCHANGED panic
    BY <2>2, Zenon
  <2>3. QED
    BY <2>1, <2>2, HealthSteps DEF health
<1>4. QED
  BY <1>1, <1>2, <1>3, PTL DEF PersistenceSpec

-----------------------------------------------------------------------------
(* Saving and loading.                                                      *)

LEMMA TheParts == Part = {"state", "memory", "config", "l0", "ae"}
  BY DEF Part, Parts

\* load_all answers true only when no file it built the model from was cut
\* short (IDS::load_all, load_state, LocalAnalyzer::load_state, Autoencoder::load).
THEOREM NothingTornIsLoaded == PersistenceSpec => LoadedMeansWhole
<1>1. ASSUME [PersistenceNext]_vars, Started, loaded'
      PROVE  IsWhole("state") /\ IsWhole("l0") /\ IsWhole("ae")
  <2>1. PICK own \in Configured : StartUp(own)
    BY <1>1 DEF PersistenceNext, Started, Running, SaveAndExit, Crash, Gone, vars, disk
  <2>2. PICK state \in LoadState, memory \in LoadMemory, l0 \in LoadL0, ae \in LoadAE :
            loaded' = AllOk(state.ok, memory, LoadConfig(own).ok, l0.ok, ae.ok)
    BY <2>1 DEF StartUp
  <2>3. state.ok /\ l0.ok /\ ae.ok
    BY <1>1, <2>2 DEF AllOk
  <2>4. IsWhole("state")
    BY <2>2, <2>3 DEF LoadState
  <2>5. IsWhole("l0")
    BY <2>2, <2>3 DEF LoadL0, Refused
  <2>6. IsWhole("ae")
    BY <2>2, <2>3 DEF LoadAE, Refused
  <2>7. QED
    BY <2>4, <2>5, <2>6
<1>2. QED
  BY <1>1, PTL DEF PersistenceSpec, LoadedMeansWhole

\* No step but the end of a process touches the files.
LEMMA FilesSteps ==
    ASSUME [PersistenceNext]_vars
    PROVE  \/ \E how \in Writings : SaveAndExit(how)
           \/ UNCHANGED << files, saved >>
  BY DEF PersistenceNext, Running, StartUp, Crash, vars, disk

LEMMA SaveInductive == SaveInv /\ [PersistenceNext]_vars => SaveInv'
<1> SUFFICES ASSUME SaveInv, [PersistenceNext]_vars
             PROVE  SaveInv'
  OBVIOUS
<1>1. CASE UNCHANGED << files, saved >>
  BY <1>1 DEF SaveInv
<1>2. CASE \E how \in Writings : SaveAndExit(how)
  <2>1. PICK how \in Writings : SaveAndExit(how)
    BY <1>2
  <2>2. CASE \A p \in Part : how[p] = "whole"
    <3>1. saved' = Contents
      BY <2>1, <2>2 DEF SaveAndExit
    <3>2. \A p \in Part : files'[p] = Whole(Contents[p])
      BY <2>1, <2>2 DEF SaveAndExit, Written
    <3>3. /\ files'["state"] = Whole(Contents["state"])
          /\ files'["config"] = Whole(Contents["config"])
          /\ files'["l0"] = Whole(Contents["l0"])
          /\ files'["ae"] = Whole(Contents["ae"])
      BY <3>2, TheParts
    <3>4. QED
      BY <3>1, <3>3 DEF SaveInv, Contents, SavedState
  <2>3. CASE ~(\A p \in Part : how[p] = "whole")
    BY <2>1, <2>3 DEF SaveAndExit, SaveInv
  <2>4. QED
    BY <2>2, <2>3
<1>3. QED
  BY <1>1, <1>2, FilesSteps

\* A process that ended in order hands on its levels, statistics, autoencoder
\* and thresholds to the next one that starts, for any number of processes that
\* died in between (IDS::save_all, load_all and the start of the daemon).
THEOREM HandedOn == PersistenceSpec => NextBeginsWhereLastEnded
<1>1. PersistenceInit => SaveInv
  BY DEF PersistenceInit, SaveInv
<1>2. SaveInv /\ [PersistenceNext]_vars => SaveInv'
  BY SaveInductive
<1>3. ASSUME SaveInv, [PersistenceNext]_vars, Started, saved # NoSave
      PROVE  /\ [filling |-> filling', promotions |-> promotions'] = saved.state
             /\ thresholds' = saved.config
             /\ seen' = saved.l0
             /\ learned' = saved.ae
  <2>1. PICK own \in Configured : StartUp(own)
    BY <1>3 DEF PersistenceNext, Started, Running, SaveAndExit, Crash, Gone, vars, disk
  <2>2. PICK state \in LoadState, memory \in LoadMemory, l0 \in LoadL0, ae \in LoadAE :
            /\ filling' = state.value.filling
            /\ promotions' = state.value.promotions
            /\ thresholds' = LoadConfig(own).value
            /\ seen' = l0.value
            /\ learned' = ae.value
    BY <2>1 DEF StartUp
  <2>3. /\ state.value = saved.state
        /\ saved.state = [filling |-> saved.state.filling, promotions |-> saved.state.promotions]
    BY <1>3, <2>2 DEF SaveInv, LoadState, IsWhole, Whole
  <2>4. thresholds' = saved.config
    BY <1>3, <2>2 DEF SaveInv, LoadConfig, IsWhole, IsAbsent, Whole
  <2>5. l0.value = saved.l0 /\ ae.value = saved.ae
    BY <1>3, <2>2 DEF SaveInv, LoadL0, LoadAE, Refused, IsWhole, IsAbsent, Whole
  <2>6. QED
    BY <2>2, <2>3, <2>4, <2>5
<1>4. QED
  BY <1>1, <1>2, <1>3, PTL DEF PersistenceSpec, NextBeginsWhereLastEnded

-----------------------------------------------------------------------------
(* An event that matches a rule.                                            *)

LEMMA Ranks == /\ Rank("Alert") = 3
               /\ Rank("Block") = 4
               /\ Rank("Escalate") = 5
<1>1. DOMAIN Decisions = 1 .. 5
  BY DEF Decisions
<1>2. \A i \in 1 .. 5 : /\ Decisions[i] = "Alert" <=> i = 3
                        /\ Decisions[i] = "Block" <=> i = 4
                        /\ Decisions[i] = "Escalate" <=> i = 5
  BY DEF Decisions
<1>3. Rank("Alert") = 3
  <2>1. (CHOOSE i \in 1 .. 5 : Decisions[i] = "Alert") = 3
    BY <1>2
  <2>2. QED
    BY <1>1, <2>1 DEF Rank
<1>4. Rank("Block") = 4
  <2>1. (CHOOSE i \in 1 .. 5 : Decisions[i] = "Block") = 4
    BY <1>2
  <2>2. QED
    BY <1>1, <2>1 DEF Rank
<1>5. Rank("Escalate") = 5
  <2>1. (CHOOSE i \in 1 .. 5 : Decisions[i] = "Escalate") = 5
    BY <1>2
  <2>2. QED
    BY <1>1, <2>1 DEF Rank
<1>6. QED
  BY <1>3, <1>4, <1>5

\* A result that has at least the alert threshold and is decided by it.
Strong(res) ==
    \E c \in Nat, d \in {"Block", "Escalate"}, b \in DecisionSet :
        c >= thresholds.alert /\ res = Result(c, d, b, FALSE)

LEMMA StrongScore ==
    ASSUME Ordered(thresholds), NEW x \in Nat, x >= thresholds.alert
    PROVE  ScoreToDecision(x) \in {"Block", "Escalate"}
  BY DEF Ordered, ScoreToDecision, IgnoreThreshold, LogThreshold

LEMMA StrongParts ==
    ASSUME NEW res, Strong(res)
    PROVE  /\ res.confidence \in Nat /\ res.confidence >= thresholds.alert
           /\ res.decision \in {"Block", "Escalate"}
           /\ res.base \in DecisionSet
           /\ res.fp = FALSE
<1>1. PICK c \in Nat, d \in {"Block", "Escalate"}, b \in DecisionSet :
          c >= thresholds.alert /\ res = Result(c, d, b, FALSE)
  BY DEF Strong
<1>2. res = [confidence |-> c, decision |-> d, base |-> b, fp |-> FALSE]
  BY <1>1 DEF Result
<1>3. res.confidence = c /\ res.decision = d /\ res.base = b
  BY <1>2
<1>4. res.fp = FALSE
  BY <1>2, Zenon
<1>5. QED
  BY <1>1, <1>3, <1>4, Zenon

\* The rule lifts the score to the alert threshold (ReasoningModel::reason).
LEMMA ReasonIsStrong ==
    ASSUME Ordered(thresholds), NEW fused \in 0 .. 100
    PROVE  Strong(Reason(fused, TRUE))
<1> DEFINE combined == Larger(fused, thresholds.alert)
<1>1. /\ combined \in Nat
      /\ combined >= thresholds.alert
      /\ ~(combined < FpSuppression)
  BY DEF Larger, Ordered, LogThreshold, FpSuppression
<1>2. ScoreToDecision(combined) \in {"Block", "Escalate"}
  BY <1>1, StrongScore
<1> HIDE DEF combined
<1>3. (combined < FpSuppression) = FALSE
  <2>1. ASSUME NEW x, ~x, x \in BOOLEAN PROVE x = FALSE
    BY <2>1
  <2>2. (combined < FpSuppression) \in BOOLEAN
    BY <1>1 DEF FpSuppression
  <2>3. QED
    BY <1>1, <2>1, <2>2, Zenon
<1>4. ScoreToDecision(combined) \in DecisionSet
  BY <1>2 DEF DecisionSet, Decisions
<1>5. Reason(fused, TRUE) =
          Result(combined, ScoreToDecision(combined), ScoreToDecision(combined), FALSE)
  BY <1>1, <1>3, Zenon DEF Reason, combined
<1>6. QED
  BY <1>1, <1>2, <1>4, <1>5, Zenon DEF Strong

\* A specialist only adds to it.
LEMMA SpecialisedIsStrong ==
    ASSUME Ordered(thresholds), NEW res, Strong(res), NEW specialist \in 0 .. 100
    PROVE  Strong(Specialised(res, specialist))
<1> DEFINE more == AtMost100(res.confidence + specialist \div 2)
<1>1. more \in Nat /\ more >= thresholds.alert
  <2>1. specialist \div 2 \in Nat
    OBVIOUS
  <2>2. res.confidence \in Nat /\ res.confidence >= thresholds.alert
    BY StrongParts
  <2>3. thresholds.alert \in Nat /\ thresholds.alert <= 100
    BY DEF Ordered
  <2>4. QED
    BY <2>1, <2>2, <2>3 DEF AtMost100
<1>2. ScoreToDecision(more) \in {"Block", "Escalate"}
  BY <1>1, StrongScore
<1> HIDE DEF more
<1>3. Rescored(res, more) = Result(more, ScoreToDecision(more), res.base, FALSE)
  BY StrongParts, Zenon DEF Rescored
<1>4. Strong(Rescored(res, more))
  BY <1>1, <1>2, <1>3, StrongParts, Zenon DEF Strong
<1>5. QED
  BY <1>4 DEF Specialised, more

\* The near-miss and aggregate detectors look at weaker ones only, and
\* correlation has nothing to raise.
LEMMA StrongStays ==
    ASSUME Ordered(thresholds), NEW s, NEW res, Strong(res), NEW boost, NEW raised \in BOOLEAN
    PROVE  Correlated(Boosted(s, res, boost), raised) = res
<1>0. /\ res.confidence \in Nat /\ res.confidence >= thresholds.alert
      /\ res.decision \in {"Block", "Escalate"}
  BY StrongParts
<1>1. ~Watched(res)
  BY <1>0 DEF Watched, Ordered
<1>2. Boosted(s, res, boost) = res
  BY <1>1 DEF Boosted
<1>3. res.decision # "Alert"
  BY <1>0
<1>4. QED
  BY <1>2, <1>3 DEF Correlated

LEMMA StrongIsHeard ==
    ASSUME Ordered(thresholds), NEW res, Strong(res)
    PROVE  Rank(res.decision) >= Rank("Alert") /\ Offered(res) /\ ~Learns(res.confidence)
<1>0. /\ res.confidence \in Nat /\ res.confidence >= thresholds.alert
      /\ res.decision \in {"Block", "Escalate"}
  BY StrongParts
<1>1. Rank(res.decision) >= Rank("Alert")
  BY <1>0, Ranks
<1>2. res.confidence >= MinConfidence /\ ~(res.confidence < MinConfidence)
  BY <1>0 DEF Ordered, LogThreshold, MinConfidence
<1>3. ~res.fp
  BY StrongParts, Zenon
<1>4. QED
  BY <1>1, <1>2, <1>3, Zenon DEF Offered, Learns

\* What every verdict of an event says of a rule it matched.
LEMMA VerdictHears ==
    ASSUME Ordered(thresholds),
           NEW s \in Sources, NEW anomaly, NEW matched \in BOOLEAN, NEW fault,
           NEW v \in Verdicts(s, anomaly, matched, fault), v.heard # NoRule
    PROVE  /\ Rank(v.heard.decision) >= Rank("Alert")
           /\ v.heard.offered
           /\ ~v.heard.learned
<1>1. PICK a \in Assessments(s, anomaly, matched, fault), raised \in BOOLEAN :
          v.heard = IF matched /\ ~panic /\ fault # "reasoning"
                    THEN [decision |-> Correlated(a.result, raised).decision,
                          offered |-> Offered(Correlated(a.result, raised)),
                          learned |-> Learns(Correlated(a.result, raised).confidence)]
                    ELSE NoRule
  BY DEF Verdicts
<1>2. matched = TRUE /\ ~panic /\ fault # "reasoning"
  BY <1>1
<1>3. PICK gate \in {"shut", "open", "forced"}, fused \in Fused, specialist \in Specialists,
           boost \in Boosts :
          a.result = Boosted(s, Specialised(Step7(anomaly, TRUE, gate, fused, fault), specialist),
                             boost)
  <2>1. PICK gate \in {"shut", "open", "forced"}, fused \in Fused, specialist \in Specialists,
             boost \in Boosts :
            a = [before |-> Specialised(Step7(anomaly, matched, gate, fused, fault), specialist),
                 result |-> Boosted(s, Specialised(Step7(anomaly, matched, gate, fused, fault),
                                                   specialist), boost)]
    BY <1>1, SMT DEF Assessments
  <2>2. a.result = Boosted(s, Specialised(Step7(anomaly, TRUE, gate, fused, fault), specialist),
                           boost)
    BY <2>1, <1>2, Zenon
  <2>3. QED
    BY <2>2, Zenon
<1>4. fused \in 0 .. 100 /\ specialist \in 0 .. 100
  BY PipelineAssumption
<1>5. Step7(anomaly, TRUE, gate, fused, fault) = Reason(fused, TRUE)
  BY <1>2 DEF Step7, Runs, Forced
<1> DEFINE res == Specialised(Reason(fused, TRUE), specialist)
<1>6. Strong(res)
  BY <1>4, ReasonIsStrong, SpecialisedIsStrong
<1>7. a.result = Boosted(s, res, boost)
  BY <1>3, <1>5
<1> HIDE DEF res
<1>8. Correlated(a.result, raised) = res
  BY <1>6, <1>7, StrongStays
<1>9. v.heard = [decision |-> res.decision, offered |-> Offered(res),
                 learned |-> Learns(res.confidence)]
  BY <1>1, <1>2, <1>8
<1>10. QED
  BY <1>6, <1>9, StrongIsHeard

LEMMA DefaultsOrdered == Ordered(Defaults)
  BY DEF Ordered, Defaults, LogThreshold

LEMMA OrderInductive == OrderInv /\ [PersistenceNext]_vars => OrderInv'
<1> SUFFICES ASSUME OrderInv, [PersistenceNext]_vars
             PROVE  OrderInv'
  OBVIOUS
<1>1. CASE UNCHANGED << thresholds, files >>
  BY <1>1 DEF OrderInv, Ordered
<1>2. ASSUME NEW own \in Configured, StartUp(own)
      PROVE  OrderInv'
  <2>1. thresholds' = LoadConfig(own).value /\ files' = files
    BY <1>2 DEF StartUp
  <2>2. Ordered(own)
    BY PipelineAssumption
  <2>3. Ordered(LoadConfig(own).value)
    BY <2>2, DefaultsOrdered DEF OrderInv, LoadConfig, IsAbsent, IsWhole
  <2>4. QED
    BY <2>1, <2>3 DEF OrderInv, Ordered
<1>3. ASSUME NEW how \in Writings, SaveAndExit(how)
      PROVE  OrderInv'
  <2>1. thresholds' = Defaults
    BY <1>3 DEF SaveAndExit, Gone
  <2>2. files'["config"] = CASE how["config"] = "whole" -> Whole(thresholds)
                             [] how["config"] = "torn"  -> Torn
                             [] how["config"] = "kept"  -> files["config"]
    BY <1>3, TheParts DEF SaveAndExit, Written, Contents, SavedConfig
  <2>3. how["config"] \in {"whole", "torn", "kept"}
    BY TheParts DEF Writings, MaxOneFailure, CrashesAt
  <2>4. files'["config"].kind = "whole" => Ordered(files'["config"].value)
    BY <2>2, <2>3 DEF OrderInv, Whole, Torn
  <2>5. QED
    BY <2>1, <2>4, DefaultsOrdered DEF OrderInv, Ordered
<1>4. ASSUME Crash
      PROVE  OrderInv'
  BY <1>4, DefaultsOrdered DEF Crash, Gone, OrderInv, Ordered
<1>5. QED
  <2>1. CASE UNCHANGED vars
    BY <2>1, <1>1 DEF vars, pvars, pipeline, disk
  <2>2. CASE \E s \in Sources, anomaly \in Anomalies, fault \in Faults \cup {"none"} :
                 Running(Ingest(s, anomaly, fault))
    BY <2>2, <1>1 DEF Running, Ingest, disk
  <2>3. CASE Running(IngestInvalid)
    BY <2>3, <1>1 DEF Running, IngestInvalid, disk
  <2>4. CASE Running(Tick)
    BY <2>4, <1>1 DEF Running, Tick, pipeline, disk
  <2>5. QED
    BY <2>1, <2>2, <2>3, <2>4, <1>2, <1>3, <1>4 DEF PersistenceNext

LEMMA HeardSteps ==
    ASSUME OrderInv, RuleHeard, [PersistenceNext]_vars
    PROVE  RuleHeard'
<1>1. CASE heard' = heard \/ heard' = NoRule
  BY <1>1 DEF RuleHeard
<1>2. ASSUME NEW s \in Sources, NEW anomaly \in Anomalies, NEW fault \in Faults \cup {"none"},
             Ingest(s, anomaly, fault)
      PROVE  RuleHeard'
  <2>1. PICK matched \in BOOLEAN : \E v \in Verdicts(s, anomaly, matched, fault) : heard' = v.heard
    <3> DEFINE m == (Retrieves(s, anomaly) /\ fault # "retrieval") /\ Matches(s, anomaly)
    <3>1. m \in BOOLEAN
      OBVIOUS
    <3>2. \E v \in Verdicts(s, anomaly, m, fault) : heard' = v.heard
      BY <1>2 DEF Ingest
    <3>3. QED
      BY <3>1, <3>2
  <2>2. PICK v \in Verdicts(s, anomaly, matched, fault) : heard' = v.heard
    BY <2>1
  <2>3. Ordered(thresholds)
    BY DEF OrderInv
  <2>4. QED
    BY <2>2, <2>3, VerdictHears DEF RuleHeard
<1>3. QED
  <2>1. CASE UNCHANGED vars
    BY <2>1, <1>1 DEF vars, pvars, pipeline
  <2>2. CASE \E s \in Sources, anomaly \in Anomalies, fault \in Faults \cup {"none"} :
                 Running(Ingest(s, anomaly, fault))
    BY <2>2, <1>2 DEF Running
  <2>3. CASE Running(IngestInvalid)
    BY <2>3, <1>1 DEF Running, IngestInvalid
  <2>4. CASE Running(Tick)
    BY <2>4, <1>1 DEF Running, Tick, pipeline
  <2>5. CASE \E own \in Configured : StartUp(own)
    BY <2>5, <1>1 DEF StartUp, FreshRest
  <2>6. CASE \E how \in Writings : SaveAndExit(how)
    BY <2>6, <1>1 DEF SaveAndExit, Gone, FreshRest
  <2>7. CASE Crash
    BY <2>7, <1>1 DEF Crash, Gone, FreshRest
  <2>8. QED
    BY <2>1, <2>2, <2>3, <2>4, <2>5, <2>6, <2>7 DEF PersistenceNext

\* Whatever the specialists, the detectors and the correlation make of it, an
\* event that matched a rule outside panic mode is an alert or more when it
\* reaches the decision engine, which takes it up, and nothing learns from it
\* (IDS::ingest, steps 7 to 8c), for any rules, scores and ordered thresholds.
THEOREM RulesAreHeard == PersistenceSpec => []RuleHeard
<1>1. PersistenceInit => OrderInv /\ RuleHeard
  <2>1. PersistenceInit => Fresh(Defaults) /\ files = [p \in Part |-> Absent]
    BY Zenon DEF PersistenceInit
  <2>2. Fresh(Defaults) => thresholds = Defaults /\ heard = NoRule
    BY Zenon DEF Fresh
  <2>3. files = [p \in Part |-> Absent] => files["config"].kind # "whole"
    BY TheParts DEF Absent
  <2>4. QED
    BY <2>1, <2>2, <2>3, DefaultsOrdered DEF OrderInv, RuleHeard, Ordered
<1>2. OrderInv /\ RuleHeard /\ [PersistenceNext]_vars => (OrderInv /\ RuleHeard)'
  BY OrderInductive, HeardSteps
<1>3. QED
  BY <1>1, <1>2, PTL DEF PersistenceSpec

-----------------------------------------------------------------------------
(* The memory: what is written stays, or ranks below all that does.         *)

Small(S) == IsFiniteSet(S) /\ Cardinality(S) <= MaxStore

Memories ==
    {m \in [Sources \cup {Global} -> SUBSET Records] :
        \A k \in Sources \cup {Global} : Small(m[k])}

\* what a store keeps when all but the newest record of a full one is recent
Quarter == (MaxStore + 1) \div 4
Kept    == MaxStore + 1 - Quarter

LEMMA StoreSizes ==
    /\ MaxStore \in Nat /\ Quarter \in Nat /\ 1 <= Quarter /\ Quarter <= MaxStore + 1
    /\ Kept \in Nat /\ Kept <= MaxStore
<1>1. MaxStore \in Nat /\ MaxStore >= 3
  BY PipelineAssumption
<1>2. Quarter \in Nat /\ 1 <= Quarter /\ Quarter <= MaxStore + 1
  BY <1>1 DEF Quarter
<1> QED
  BY <1>1, <1>2 DEF Kept

LEMMA RecordParts ==
    ASSUME NEW r \in Records
    PROVE  r.score \in Nat /\ r.score <= 100 /\ r.at \in Nat
<1>1. r.score \in Anomalies /\ r.at \in Start .. MaxClock
  BY DEF Records
<1>2. Start \in Nat /\ MaxClock \in Nat
  BY PipelineAssumption DEF Start
<1>3. r.score \in 0 .. 100
  BY <1>1, PipelineAssumption
<1>4. r.at \in Nat
  BY <1>1, <1>2
<1> QED
  BY <1>3, <1>4

\* VectorStore::evict of one record too many
LEMMA EvictedIs ==
    ASSUME NEW all, IsFiniteSet(all), Cardinality(all) = MaxStore + 1, NEW e \in Evicted(all)
    PROVE  /\ e \subseteq all /\ Small(e)
           /\ \A r \in all : clock - r.at <= RecordTtl =>
                  r \in e \/ (Cardinality(e) = Kept /\ \A k \in e : r.score <= k.score)
<1> DEFINE live == {r \in all : clock - r.at <= RecordTtl}
<1>1. live \subseteq all /\ \A r \in all : clock - r.at <= RecordTtl => r \in live
  OBVIOUS
<1>2. Evicted(all) = IF Cardinality(live) <= MaxStore THEN {live}
                     ELSE {live \ gone : gone \in {g \in kSubset(Cardinality(live) \div 4, live) :
                             \A r \in g, k \in live \ g : r.score <= k.score}}
  BY DEF Evicted
<1> HIDE DEF live
<1>3. IsFiniteSet(live) /\ Cardinality(live) <= MaxStore + 1
  BY <1>1, FS_Subset
<1>4. PICK n \in Nat : n = Cardinality(live)
  BY <1>3, FS_CardinalityType
<1>5. CASE n <= MaxStore
  <2>1. e = live
    BY <1>2, <1>4, <1>5
  <2> QED
    BY <1>1, <1>3, <1>4, <1>5, <2>1 DEF Small
<1>6. CASE ~(n <= MaxStore)
  <2>1. n = MaxStore + 1
    BY <1>3, <1>4, <1>6, StoreSizes
  <2>2. PICK g \in kSubset(Cardinality(live) \div 4, live) :
            e = live \ g /\ \A r \in g, k \in live \ g : r.score <= k.score
    BY <1>2, <1>4, <1>6
  <2>3. g \in SUBSET live /\ Cardinality(g) = Quarter
    BY <1>4, <2>1, <2>2 DEF kSubset, Quarter
  <2>4. PICK gone : gone = live \cap g
    OBVIOUS
  <2>5. gone = g /\ IsFiniteSet(e) /\ Cardinality(e) = Cardinality(live) - Cardinality(gone)
    <3>1. gone = g
      BY <2>3, <2>4
    <3>2. IsFiniteSet(live \ g) /\ Cardinality(live \ g) = Cardinality(live) - Cardinality(gone)
      BY <1>3, <2>4, FS_Difference
    <3> QED
      BY <2>2, <3>1, <3>2
  <2>6. Cardinality(e) = Kept
    <3>1. Cardinality(live) = MaxStore + 1
      BY <1>4, <2>1
    <3>2. Cardinality(gone) = Quarter
      BY <2>3, <2>5
    <3>3. Cardinality(e) = (MaxStore + 1) - Quarter
      BY <2>5, <3>1, <3>2
    <3> QED
      BY <3>3, StoreSizes DEF Kept
  <2>7. Small(e)
    BY <2>5, <2>6, StoreSizes DEF Small
  <2>8. ASSUME NEW r \in all, clock - r.at <= RecordTtl
        PROVE  r \in e \/ (Cardinality(e) = Kept /\ \A k \in e : r.score <= k.score)
    <3>1. r \in live
      BY <1>1, <2>8
    <3> QED
      BY <2>2, <2>6, <3>1
  <2> QED
    BY <1>1, <2>2, <2>7, <2>8
<1> QED
  BY <1>5, <1>6

\* VectorStore::insert of a record of this moment
LEMMA InsertedIs ==
    ASSUME NEW S \in SUBSET Records, Small(S), NEW r \in Records, NEW e \in Inserted(S, r)
    PROVE  /\ e \in SUBSET Records /\ Small(e)
           /\ clock \in Nat /\ r.at = clock =>
                  r \in e \/ (Cardinality(e) = Kept /\ \A k \in e : r.score <= k.score)
<1> DEFINE all == S \cup {r}
<1>1. Inserted(S, r) = IF Cardinality(all) > MaxStore THEN Evicted(all) ELSE {all}
  BY DEF Inserted
<1>2. all \in SUBSET Records /\ r \in all
  OBVIOUS
<1>3. IsFiniteSet(all) /\ Cardinality(all) = IF r \in S THEN Cardinality(S) ELSE Cardinality(S) + 1
  BY FS_AddElement DEF Small
<1> HIDE DEF all
<1>4. PICK m \in Nat : m = Cardinality(S) /\ m <= MaxStore
  BY FS_CardinalityType DEF Small
<1>5. PICK n \in Nat : n = Cardinality(all) /\ n <= MaxStore + 1
  BY <1>3, <1>4, StoreSizes
<1>6. CASE n <= MaxStore
  <2>1. e = all
    BY <1>1, <1>5, <1>6, StoreSizes
  <2> QED
    BY <1>2, <1>3, <1>5, <1>6, <2>1 DEF Small
<1>7. CASE ~(n <= MaxStore)
  <2>1. e \in Evicted(all) /\ n = MaxStore + 1
    BY <1>1, <1>5, <1>7, StoreSizes
  <2>2. /\ e \subseteq all /\ Small(e)
        /\ \A x \in all : clock - x.at <= RecordTtl =>
               x \in e \/ (Cardinality(e) = Kept /\ \A k \in e : x.score <= k.score)
    BY <1>3, <1>5, <2>1, EvictedIs
  <2>3. clock \in Nat /\ r.at = clock => clock - r.at <= RecordTtl
    BY PipelineAssumption
  <2> QED
    BY <1>2, <2>2, <2>3
<1> QED
  BY <1>6, <1>7

LEMMA WriteRecordIs ==
    ASSUME NEW m \in Memories, NEW s \in Sources, NEW r \in Records, NEW w \in WriteRecord(m, s, r)
    PROVE  w \in Memories /\ w[s] \in Inserted(m[s], r)
<1>1. PICK mine \in Inserted(m[s], r),
           all \in IF r.score >= ForceGate THEN Inserted(m[Global], r) ELSE {m[Global]} :
          w = [m EXCEPT ![s] = mine, ![Global] = all]
  BY DEF WriteRecord
<1>2. /\ m \in [Sources \cup {Global} -> SUBSET Records]
      /\ \A k \in Sources \cup {Global} : Small(m[k])
  BY DEF Memories
<1>3. mine \in SUBSET Records /\ Small(mine)
  BY <1>1, <1>2, InsertedIs
<1>4. all \in SUBSET Records /\ Small(all)
  BY <1>1, <1>2, InsertedIs
<1>5. s # Global
  BY PipelineAssumption
<1>6. w \in [Sources \cup {Global} -> SUBSET Records]
  BY <1>1, <1>2, <1>3, <1>4
<1>7. /\ w[s] = mine /\ w[Global] = all
      /\ \A k \in Sources : k # s => w[k] = m[k] \/ k = Global
  BY <1>1, <1>2, <1>5
<1>8. \A k \in Sources \cup {Global} : Small(w[k])
  BY <1>2, <1>3, <1>4, <1>7
<1> QED
  BY <1>1, <1>6, <1>7, <1>8 DEF Memories

\* The memory and what the records are made of stay in their ranges.
StoreInv ==
    /\ clock \in Start .. MaxClock
    /\ events \in 0 .. MaxEvents
    /\ stores \in Memories

LEMMA WriteIs ==
    ASSUME NEW m \in Memories, NEW s \in Sources, NEW anomaly \in Anomalies, NEW matched,
           NEW blocks, NEW after \in BOOLEAN, events + 1 \in 1 .. MaxEvents, clock \in Start .. MaxClock,
           NEW w \in Write(m, s, anomaly, matched, blocks, after)
    PROVE  /\ w \in Memories
           /\ ShouldWrite(anomaly, matched, blocks) =>
                  \/ \E r \in w[s] : r.event = events + 1
                  \/ Cardinality(w[s]) = Kept /\ \A k \in w[s] : k.score >= anomaly
<1> DEFINE r == [event |-> events + 1, after |-> after, score |-> anomaly, at |-> clock]
<1>1. r \in Records /\ r.event = events + 1 /\ r.score = anomaly /\ r.at = clock
  BY DEF Records
<1>2. Write(m, s, anomaly, matched, blocks, after) =
          IF ShouldWrite(anomaly, matched, blocks) THEN WriteRecord(m, s, r) ELSE {m}
  BY DEF Write
<1> HIDE DEF r
<1>3. CASE ~ShouldWrite(anomaly, matched, blocks)
  BY <1>2, <1>3
<1>4. CASE ShouldWrite(anomaly, matched, blocks)
  <2>1. w \in Memories /\ w[s] \in Inserted(m[s], r)
    BY <1>1, <1>2, <1>4, WriteRecordIs
  <2>2. m[s] \in SUBSET Records /\ Small(m[s])
    BY DEF Memories
  <2>3. clock \in Nat
    BY PipelineAssumption DEF Start
  <2>4. /\ w[s] \in SUBSET Records
        /\ r \in w[s] \/ (Cardinality(w[s]) = Kept /\ \A k \in w[s] : r.score <= k.score)
    BY <1>1, <2>1, <2>2, <2>3, InsertedIs
  <2>5. ASSUME \A k \in w[s] : r.score <= k.score
        PROVE  \A k \in w[s] : k.score >= anomaly
    <3> SUFFICES ASSUME NEW k \in w[s] PROVE k.score >= anomaly
      OBVIOUS
    <3>1. k.score \in Nat /\ r.score \in Nat
      BY <1>1, <2>4, RecordParts
    <3> QED
      BY <1>1, <2>5, <3>1
  <2> QED
    BY <1>1, <2>1, <2>4, <2>5
<1> QED
  BY <1>3, <1>4

LEMMA BeforeIs ==
    ASSUME StoreInv, NEW s \in Sources, NEW anomaly \in Anomalies, NEW fault, events < MaxEvents,
           NEW before \in WriteBefore(s, anomaly, fault)
    PROVE  before \in Memories
<1>1. events + 1 \in 1 .. MaxEvents /\ clock \in Start .. MaxClock /\ stores \in Memories
  BY PipelineAssumption DEF StoreInv
<1>2. before = stores \/ before \in Write(stores, s, anomaly, FALSE, FALSE, FALSE)
  BY DEF WriteBefore
<1> QED
  BY <1>1, <1>2, WriteIs

LEMMA AfterIs ==
    ASSUME StoreInv, NEW s \in Sources, NEW anomaly \in Anomalies, NEW matched, NEW blocks \in BOOLEAN,
           NEW fault, events < MaxEvents, NEW before \in Memories,
           NEW w \in WriteAfter(before, s, anomaly, matched, blocks, fault)
    PROVE  /\ w \in Memories
           /\ blocks /\ ~panic /\ fault # "after" =>
                  \/ \E r \in w[s] : r.event = events + 1
                  \/ Cardinality(w[s]) = Kept /\ \A k \in w[s] : k.score >= anomaly
<1>1. events + 1 \in 1 .. MaxEvents /\ clock \in Start .. MaxClock
  BY PipelineAssumption DEF StoreInv
<1>2. CASE panic \/ fault = "after" \/ ~blocks
  <2>1. w = before
    BY <1>2 DEF WriteAfter
  <2> QED
    BY <1>2, <2>1
<1>3. CASE ~(panic \/ fault = "after" \/ ~blocks)
  <2>1. w \in Write(before, s, anomaly, matched, blocks, TRUE)
    BY <1>3 DEF WriteAfter
  <2>2. ShouldWrite(anomaly, matched, blocks)
    BY <1>3 DEF ShouldWrite
  <2> QED
    BY <1>1, <2>1, <2>2, WriteIs
<1> QED
  BY <1>2, <1>3

LEMMA VerdictBlocks ==
    ASSUME NEW s, NEW anomaly, NEW matched, NEW fault, NEW v \in Verdicts(s, anomaly, matched, fault)
    PROVE  v.blocks \in BOOLEAN
<1>1. PICK a \in Assessments(s, anomaly, matched, fault), raised \in BOOLEAN :
          \E final \in Finals(Correlated(a.result, raised)) :
              v.blocks = (final \in {"Block", "Escalate"})
  BY DEF Verdicts
<1> QED
  BY <1>1

\* What an ingest makes of the memory, and what it says of it in `blocked'.
LEMMA IngestWrites ==
    ASSUME StoreInv, NEW s \in Sources, NEW anomaly \in Anomalies, NEW fault, Ingest(s, anomaly, fault)
    PROVE  /\ stores' \in Memories /\ events' \in 0 .. MaxEvents
           /\ \/ blocked' = NotBlocked
              \/ /\ blocked' = [source |-> s, event |-> events + 1, score |-> anomaly]
                 /\ \/ \E r \in stores'[s] : r.event = events + 1
                    \/ Cardinality(stores'[s]) = Kept /\ \A k \in stores'[s] : k.score >= anomaly
<1> DEFINE asks    == Retrieves(s, anomaly) /\ fault # "retrieval"
           matched == asks /\ Matches(s, anomaly)
<1>1. /\ events < MaxEvents /\ events' = events + 1
      /\ \E v \in Verdicts(s, anomaly, matched, fault) :
            /\ stores' \in UNION {WriteAfter(before, s, anomaly, matched, v.blocks, fault) :
                                     before \in WriteBefore(s, anomaly, fault)}
            /\ blocked' = IF v.blocks /\ ~panic /\ fault # "after"
                          THEN [source |-> s, event |-> events + 1, score |-> anomaly]
                          ELSE NotBlocked
  BY DEF Ingest
<1> HIDE DEF matched
<1>2. PICK v \in Verdicts(s, anomaly, matched, fault) :
          /\ stores' \in UNION {WriteAfter(before, s, anomaly, matched, v.blocks, fault) :
                                   before \in WriteBefore(s, anomaly, fault)}
          /\ blocked' = IF v.blocks /\ ~panic /\ fault # "after"
                        THEN [source |-> s, event |-> events + 1, score |-> anomaly]
                        ELSE NotBlocked
  BY <1>1
<1>3. PICK blocks \in BOOLEAN : blocks = v.blocks
  BY VerdictBlocks
<1>4. PICK before \in WriteBefore(s, anomaly, fault) :
          stores' \in WriteAfter(before, s, anomaly, matched, blocks, fault)
  BY <1>2, <1>3
<1>5. events < MaxEvents
  BY <1>1
<1>6. PICK w \in WriteAfter(before, s, anomaly, matched, blocks, fault) : w = stores'
  BY <1>4
<1>7. /\ w \in Memories
      /\ blocks /\ ~panic /\ fault # "after" =>
             \/ \E r \in w[s] : r.event = events + 1
             \/ Cardinality(w[s]) = Kept /\ \A k \in w[s] : k.score >= anomaly
  <2>1. before \in Memories
    BY <1>5, BeforeIs
  <2>2. \A m : \A x \in WriteAfter(before, s, anomaly, m, blocks, fault) :
            /\ x \in Memories
            /\ blocks /\ ~panic /\ fault # "after" =>
                   \/ \E r \in x[s] : r.event = events + 1
                   \/ Cardinality(x[s]) = Kept /\ \A k \in x[s] : k.score >= anomaly
    BY <1>5, <2>1, AfterIs
  <2> QED
    BY <2>2
<1>8. events' \in 0 .. MaxEvents
  BY <1>1, PipelineAssumption DEF StoreInv
<1>9. CASE blocks /\ ~panic /\ fault # "after"
  BY <1>2, <1>3, <1>6, <1>7, <1>8, <1>9
<1>10. CASE ~(blocks /\ ~panic /\ fault # "after")
  <2>1. blocked' = NotBlocked
    BY <1>2, <1>3, <1>10
  <2> QED
    BY <1>6, <1>7, <1>8, <2>1
<1> QED
  BY <1>9, <1>10

LEMMA EmptyMemory == [k \in Sources \cup {Global} |-> {}] \in Memories
<1>1. Small({})
  BY FS_EmptySet, StoreSizes DEF Small
<1> QED
  BY <1>1 DEF Memories

\* A step ingests, or it leaves the memory alone, or empties it.
LEMMA StoreSteps ==
    ASSUME [PersistenceNext]_vars
    PROVE  \/ \E s \in Sources, anomaly \in Anomalies, fault \in Faults \cup {"none"} :
                  Ingest(s, anomaly, fault)
           \/ UNCHANGED << stores, events, clock, blocked >>
           \/ Tick
           \/ /\ stores' = [k \in Sources \cup {Global} |-> {}] /\ blocked' = NotBlocked
              /\ UNCHANGED << clock, events >>
<1>1. CASE UNCHANGED vars
  BY <1>1 DEF vars, pvars, pipeline
<1>2. CASE \E s \in Sources, anomaly \in Anomalies, fault \in Faults \cup {"none"} :
               Running(Ingest(s, anomaly, fault))
  BY <1>2 DEF Running
<1>3. CASE Running(IngestInvalid)
  BY <1>3 DEF Running, IngestInvalid
<1>4. CASE Running(Tick)
  BY <1>4 DEF Running
<1>5. CASE \E own \in Configured : StartUp(own)
  BY <1>5 DEF StartUp, FreshRest
<1>6. CASE \E how \in Writings : SaveAndExit(how)
  BY <1>6 DEF SaveAndExit, Gone, FreshRest
<1>7. CASE Crash
  BY <1>7 DEF Crash, Gone, FreshRest
<1> QED
  BY <1>1, <1>2, <1>3, <1>4, <1>5, <1>6, <1>7 DEF PersistenceNext

LEMMA StoreInductive ==
    ASSUME StoreInv, BlockedRemembered, [PersistenceNext]_vars
    PROVE  StoreInv' /\ BlockedRemembered'
<1>1. ASSUME NEW s \in Sources, NEW anomaly \in Anomalies, NEW fault, Ingest(s, anomaly, fault)
      PROVE  StoreInv' /\ BlockedRemembered'
  <2>1. clock' = clock
    BY <1>1 DEF Ingest
  <2>2. StoreInv'
    BY <1>1, <2>1, IngestWrites DEF StoreInv
  <2>3. CASE blocked' = NotBlocked
    BY <2>2, <2>3 DEF BlockedRemembered
  <2>4. CASE blocked' # NotBlocked
    <3>1. /\ blocked' = [source |-> s, event |-> events + 1, score |-> anomaly]
          /\ \/ \E r \in stores'[s] : r.event = events + 1
             \/ Cardinality(stores'[s]) = Kept /\ \A k \in stores'[s] : k.score >= anomaly
      BY <1>1, <2>4, IngestWrites
    <3>2. blocked'.source = s /\ blocked'.event = events + 1 /\ blocked'.score = anomaly
      BY <3>1
    <3> QED
      BY <2>2, <3>1, <3>2 DEF BlockedRemembered, Kept, Quarter
  <2> QED
    BY <2>3, <2>4
<1>2. CASE UNCHANGED << stores, events, clock, blocked >>
  BY <1>2 DEF StoreInv, BlockedRemembered
<1>3. CASE Tick
  <2>1. UNCHANGED << stores, blocked, events >> /\ clock < MaxClock /\ clock' = clock + 1
    BY <1>3 DEF Tick, pipeline
  <2>2. Start \in Nat /\ MaxClock \in Nat
    BY PipelineAssumption DEF Start
  <2>3. clock' \in Start .. MaxClock
    BY <2>1, <2>2 DEF StoreInv
  <2>4. StoreInv'
    BY <2>1, <2>3 DEF StoreInv
  <2> QED
    BY <2>1, <2>4 DEF BlockedRemembered
<1>4. CASE /\ stores' = [k \in Sources \cup {Global} |-> {}] /\ blocked' = NotBlocked
           /\ UNCHANGED << clock, events >>
  BY <1>4, EmptyMemory DEF StoreInv, BlockedRemembered
<1> QED
  BY <1>1, <1>2, <1>3, <1>4, StoreSteps

\* An event that was blocked or escalated outside panic mode is in the memory of
\* its source when IDS::ingest returns, unless the write after the decision
\* failed or VectorStore::evict cut the store and all it kept ranks as high: for
\* any scores, sizes and times to live.
THEOREM RemembersBlocked == PersistenceSpec => []BlockedRemembered
<1>1. PersistenceInit => StoreInv /\ BlockedRemembered
  <2>1. PersistenceInit => /\ stores = [k \in Sources \cup {Global} |-> {}]
                           /\ blocked = NotBlocked /\ clock = Start /\ events = 0
    BY DEF PersistenceInit, Fresh
  <2>2. Start \in Start .. MaxClock /\ 0 \in 0 .. MaxEvents
    BY PipelineAssumption DEF Start
  <2> QED
    BY <2>1, <2>2, EmptyMemory DEF StoreInv, BlockedRemembered
<1>2. StoreInv /\ BlockedRemembered /\ [PersistenceNext]_vars => (StoreInv /\ BlockedRemembered)'
  BY StoreInductive
<1>3. QED
  BY <1>1, <1>2, PTL DEF PersistenceSpec

-----------------------------------------------------------------------------
(* The types: of the pipeline, and of what a file may put into one.          *)

Statistic == 0 .. events \cup {Damaged}

\* The levels and what they learn.
LevelsInv ==
    /\ seen \in Statistic
    /\ learned \in Nat \cup {Damaged}
    /\ filling \in [Sources -> 0 .. FlushN - 1]
    /\ segments \in 0 .. MinSegments
    /\ promotions \in Nat
    /\ onlineSteps \in 0 .. SampleRate - 1

\* The files hold what the levels may be loaded with.
FilesInv ==
    /\ \A p \in Part : files[p].kind \in {"absent", "torn", "whole"}
    /\ IsWhole("state") =>
           /\ files["state"].value.filling \in [Sources -> 0 .. FlushN - 1]
           /\ files["state"].value.promotions \in Nat
    /\ IsWhole("l0") => files["l0"].value \in Statistic
    /\ IsWhole("ae") => files["ae"].value \in Nat \cup {Damaged}

\* The detectors remember moments that have been.
DetectorsInv ==
    /\ lastRetrieval \in [Sources -> 0 .. clock]
    /\ nearMisses \in [Sources -> Seq(Nat)]
    /\ \A s \in Sources : Len(nearMisses[s]) <= MaxNearMisses
    /\ \A s \in Sources : \A i \in 1 .. Len(nearMisses[s]) : nearMisses[s][i] \in Start .. clock
    /\ aggregated \in [Sources -> 0 .. AggregateMin]

\* The health, the histories and the process.
HealthInv ==
    /\ faults \in 0 .. MaxFaults
    /\ panicSince \in 0 .. clock
HistoryInv ==
    /\ heard \in [decision : DecisionSet \cup {"none"}, offered : BOOLEAN, learned : BOOLEAN]
    /\ blocked \in [source : Sources \cup {Global}, event : 0 .. MaxEvents, score : Anomalies \cup {0}]
ProcessInv ==
    /\ up \in BOOLEAN
    /\ loaded \in BOOLEAN
    /\ runs \in 0 .. MaxRuns

LEMMA Numbers ==
    /\ {Start, MaxClock, MaxEvents, MaxFaults, MinSegments, AggregateMin, NearWindow, MaxRuns} \subseteq Nat
    /\ FlushN \in Nat /\ FlushN > 0 /\ SampleRate \in Nat /\ SampleRate > 0
    /\ Start <= MaxClock
<1>1. {MaxClock, MaxEvents, MaxFaults, MinSegments, AggregateMin, NearWindow} \subseteq Nat
  BY PipelineAssumption
<1>2. Start \in Nat /\ Start <= MaxClock
  BY PipelineAssumption DEF Start
<1>3. FlushN \in Nat /\ FlushN > 0 /\ SampleRate \in Nat /\ SampleRate > 0
  BY PipelineAssumption
<1> QED
  BY <1>1, <1>2, <1>3, PersistenceAssumption

\* What the steps are, to be told apart by what they leave alone.
LEMMA Steps ==
    ASSUME [PersistenceNext]_vars
    PROVE  \/ \E s \in Sources, anomaly \in Anomalies, fault \in Faults \cup {"none"} :
                  Ingest(s, anomaly, fault) /\ UNCHANGED disk
           \/ IngestInvalid /\ UNCHANGED disk
           \/ Tick /\ UNCHANGED disk
           \/ UNCHANGED vars
           \/ \E own \in Configured : StartUp(own)
           \/ \E how \in Writings : SaveAndExit(how)
           \/ Crash
  BY DEF PersistenceNext, Running

LEMMA LeastIs ==
    ASSUME NEW S \in SUBSET Nat, S # {}
    PROVE  Min(S) \in S /\ \A x \in S : Min(S) <= x
<1>1. PICK m \in S : \A k \in S : <<k, m>> \notin OpToRel(<, Nat)
  BY WFMin, NatLessThanWellFounded, Zenon
<1>2. \A k \in S : ~(k < m)
  BY <1>1, Zenon DEF OpToRel
<1>3. \A k \in S : m <= k
  BY <1>2
<1>4. \E x \in S : \A y \in S : x =< y
  BY <1>3
<1> QED
  BY <1>4 DEF Min

\* NearMissDetector::check keeps moments of the window, this one among them.
LEMMA RingIs ==
    ASSUME NEW ring \in Seq(Nat), clock \in Nat, Start <= clock,
           \A i \in 1 .. Len(ring) : ring[i] \in Start .. clock
    PROVE  /\ WithoutExpired(Append(ring, clock)) \in Seq(Nat)
           /\ Len(WithoutExpired(Append(ring, clock))) <= Len(ring) + 1
           /\ \A i \in 1 .. Len(WithoutExpired(Append(ring, clock))) :
                  WithoutExpired(Append(ring, clock))[i] \in Start .. clock
<1> DEFINE more == Append(ring, clock)
           young == {i \in DOMAIN more : clock - more[i] <= NearWindow}
           first == Min(young)
<1>1. /\ more \in Seq(Nat) /\ Len(more) = Len(ring) + 1
      /\ \A i \in 1 .. Len(ring) : more[i] = ring[i]
      /\ more[Len(ring) + 1] = clock
  BY AppendProperties
<1>2. Len(ring) \in Nat /\ DOMAIN more = 1 .. Len(ring) + 1
  BY <1>1
<1> HIDE DEF more
<1>3. \A i \in 1 .. Len(ring) + 1 : more[i] \in Nat /\ more[i] \in Start .. clock
  <2> SUFFICES ASSUME NEW i \in 1 .. Len(ring) + 1
               PROVE  more[i] \in Nat /\ more[i] \in Start .. clock
    OBVIOUS
  <2>1. CASE i = Len(ring) + 1
    BY <1>1, <2>1, Numbers
  <2>2. CASE i # Len(ring) + 1
    <3>1. i \in 1 .. Len(ring)
      BY <1>2, <2>2
    <3>2. more[i] = ring[i] /\ ring[i] \in Start .. clock
      BY <1>1, <3>1
    <3>3. Start \in Nat
      BY Numbers
    <3> QED
      BY <3>2, <3>3
  <2> QED
    BY <2>1, <2>2
<1>4. Len(ring) + 1 \in young
  <2>1. clock - clock <= NearWindow
    BY Numbers
  <2> QED
    BY <1>1, <1>2, <2>1
<1>5. young \in SUBSET Nat /\ young \subseteq 1 .. Len(ring) + 1
  BY <1>2
<1> HIDE DEF young
<1>6. first \in young
  BY <1>4, <1>5, LeastIs
<1>7. first \in 1 .. Len(ring) + 1
  BY <1>5, <1>6
<1>8. WithoutExpired(more) = SubSeq(more, first, Len(ring) + 1)
  BY <1>1 DEF WithoutExpired, young
<1> HIDE DEF first
<1>9. PICK n \in Nat : n = Len(ring) + 1
  BY <1>2
<1>10. \A i \in first .. n : more[i] \in Nat
  BY <1>3, <1>7, <1>9
<1>11. /\ SubSeq(more, first, n) \in Seq(Nat)
       /\ Len(SubSeq(more, first, n)) = IF first <= n THEN n - first + 1 ELSE 0
       /\ \A i \in 1 .. n - first + 1 : SubSeq(more, first, n)[i] = more[first + i - 1]
  <2>1. first \in Int /\ n \in Int
    BY <1>7, <1>9
  <2> QED
    BY <1>10, <2>1, SubSeqProperties
<1> DEFINE kept == SubSeq(more, first, n)
<1> HIDE DEF kept
<1>12. \A i \in 1 .. Len(kept) : kept[i] \in Start .. clock
  <2> SUFFICES ASSUME NEW i \in 1 .. Len(kept)
               PROVE  kept[i] \in Start .. clock
    OBVIOUS
  <2>1. Len(kept) = n - first + 1
    BY <1>7, <1>9, <1>11 DEF kept
  <2>2. i \in 1 .. n - first + 1 /\ first + i - 1 \in 1 .. n
    BY <1>7, <1>9, <2>1
  <2>3. kept[i] = more[first + i - 1]
    BY <1>11, <2>2 DEF kept
  <2> QED
    BY <1>3, <1>9, <2>2, <2>3
<1>13. Len(kept) <= n
  BY <1>7, <1>9, <1>11 DEF kept
<1> QED
  BY <1>8, <1>9, <1>11, <1>12, <1>13 DEF kept, more

\* At the limit the oldest goes.
LEMMA LimitedIs ==
    ASSUME NEW ring \in Seq(Nat), NEW n, Len(ring) <= MaxNearMisses + 1,
           \A i \in 1 .. Len(ring) : ring[i] \in Start .. n
    PROVE  /\ Limited(ring) \in Seq(Nat) /\ Len(Limited(ring)) <= MaxNearMisses
           /\ \A i \in 1 .. Len(Limited(ring)) : Limited(ring)[i] \in Start .. n
<1>1. MaxNearMisses \in Nat
  BY PipelineAssumption
<1>2. CASE Len(ring) <= MaxNearMisses
  BY <1>1, <1>2 DEF Limited
<1>3. CASE Len(ring) > MaxNearMisses
  <2>1. ring # << >> /\ Limited(ring) = Tail(ring)
    BY <1>1, <1>3 DEF Limited
  <2>2. /\ Tail(ring) \in Seq(Nat) /\ Len(Tail(ring)) = Len(ring) - 1
        /\ \A i \in 1 .. Len(Tail(ring)) : Tail(ring)[i] = ring[i + 1]
    BY <2>1, HeadTailProperties
  <2>3. \A i \in 1 .. Len(Tail(ring)) : Tail(ring)[i] \in Start .. n
    BY <2>2
  <2> QED
    BY <1>1, <2>1, <2>2, <2>3
<1> QED
  BY <1>1, <1>2, <1>3

LEMMA AdvancedIs ==
    ASSUME NEW n \in Nat, NEW x \in 0 .. n \cup {Damaged}
    PROVE  Advanced(x) \in 0 .. n + 1 \cup {Damaged}
  BY DEF Advanced

LEMMA AdvancedStays ==
    ASSUME NEW x \in Nat \cup {Damaged}
    PROVE  Advanced(x) \in Nat \cup {Damaged}
  BY DEF Advanced

LEMMA Remainder ==
    ASSUME NEW n \in Nat, NEW d \in Nat, d > 0
    PROVE  n % d \in 0 .. d - 1
  OBVIOUS

LEMMA IngestLevels ==
    ASSUME StoreInv, LevelsInv,
           NEW s \in Sources, NEW anomaly, NEW fault, Ingest(s, anomaly, fault)
    PROVE  LevelsInv'
<1>1. PICK flushed \in BOOLEAN, promoted \in BOOLEAN : Level(s, anomaly, flushed, promoted)
  BY DEF Ingest
<1>2. PICK learns : OnlineLearning(learns)
  BY DEF Ingest
<1>3. events' = events + 1 /\ events \in Nat
  BY Numbers DEF Ingest, StoreInv
<1>4. seen' \in Statistic'
  <2>1. seen' = Advanced(seen)
    BY <1>1 DEF Level, LocalProcess
  <2> QED
    BY <1>3, <2>1, AdvancedIs DEF LevelsInv, Statistic
<1>5. filling' \in [Sources -> 0 .. FlushN - 1]
  <2>1. /\ filling[s] + 1 = FlushN => flushed
        /\ filling' = [filling EXCEPT ![s] = IF flushed THEN 0 ELSE filling[s] + 1]
    BY <1>1 DEF Level, SegmentUpdate
  <2>2. filling[s] \in 0 .. FlushN - 1 /\ filling \in [Sources -> 0 .. FlushN - 1]
    BY DEF LevelsInv
  <2>3. (IF flushed THEN 0 ELSE filling[s] + 1) \in 0 .. FlushN - 1
    BY <2>1, <2>2, Numbers
  <2> QED
    BY <2>1, <2>2, <2>3
<1>6. segments' \in 0 .. MinSegments
  <2>1. segments' = IF flushed /\ segments < MinSegments THEN segments + 1 ELSE segments
    BY <1>1 DEF Level, GlobalUpdate
  <2>2. segments \in 0 .. MinSegments /\ MinSegments \in Nat
    BY Numbers DEF LevelsInv
  <2> QED
    BY <2>1, <2>2
<1>7. promotions' \in Nat
  BY <1>1 DEF Level, GlobalUpdate, LevelsInv
<1>8. onlineSteps' \in 0 .. SampleRate - 1
  <2>1. onlineSteps' = (onlineSteps + 1) % SampleRate \/ onlineSteps' = onlineSteps
    BY <1>2 DEF OnlineLearning
  <2>2. onlineSteps + 1 \in Nat /\ SampleRate \in Nat /\ SampleRate > 0
    BY Numbers DEF LevelsInv
  <2> QED
    BY <2>1, <2>2, Remainder DEF LevelsInv
<1>9. learned' \in Nat \cup {Damaged}
  <2>1. learned' = Advanced(learned) \/ learned' = learned
    BY <1>2 DEF OnlineLearning, OnlineUpdate
  <2> QED
    BY <2>1, AdvancedStays DEF LevelsInv
<1> QED
  BY <1>4, <1>5, <1>6, <1>7, <1>8, <1>9 DEF LevelsInv

\* a pipeline that has just been built, or is gone
LEMMA FreshLevels ==
    ASSUME segments' = 0, onlineSteps' = 0, seen' \in Statistic', learned' \in Nat \cup {Damaged},
           filling' \in [Sources -> 0 .. FlushN - 1], promotions' \in Nat
    PROVE  LevelsInv'
<1>1. 0 \in 0 .. MinSegments /\ 0 \in 0 .. SampleRate - 1
  BY Numbers
<1> QED
  BY <1>1 DEF LevelsInv

LEMMA EmptyLevels ==
    /\ [s \in Sources |-> 0] \in [Sources -> 0 .. FlushN - 1]
    /\ events \in 0 .. MaxEvents => 0 \in Statistic
<1>1. 0 \in 0 .. FlushN - 1
  BY Numbers
<1>2. events \in 0 .. MaxEvents => 0 \in 0 .. events
  BY Numbers
<1> QED
  BY <1>1, <1>2 DEF Statistic

LEMMA StartUpLevels ==
    ASSUME StoreInv, FilesInv, NEW own, StartUp(own)
    PROVE  LevelsInv'
<1>1. PICK state \in LoadState, l0 \in LoadL0, ae \in LoadAE :
          /\ filling' = state.value.filling /\ promotions' = state.value.promotions
          /\ seen' = l0.value /\ learned' = ae.value
  BY DEF StartUp
<1>2. filling' \in [Sources -> 0 .. FlushN - 1] /\ promotions' \in Nat
  <2>1. CASE IsWhole("state")
    <3>1. state.value = files["state"].value
      BY <2>1 DEF LoadState
    <3> QED
      BY <1>1, <2>1, <3>1 DEF FilesInv
  <2>2. CASE ~IsWhole("state")
    <3>1. state.value = [filling |-> [s \in Sources |-> 0], promotions |-> 0]
      BY <2>2 DEF LoadState
    <3> QED
      BY <1>1, <3>1, EmptyLevels
  <2> QED
    BY <2>1, <2>2
<1>3. l0.value = 0 \/ l0.value = Damaged \/ (IsWhole("l0") /\ l0.value = files["l0"].value)
  BY DEF LoadL0, Refused
<1>4. seen' \in Statistic
  <2>1. 0 \in Statistic /\ Damaged \in Statistic
    BY EmptyLevels DEF StoreInv, Statistic
  <2> QED
    BY <1>1, <1>3, <2>1 DEF FilesInv
<1>5. seen' \in Statistic'
  BY <1>4 DEF Statistic, StartUp
<1>6. ae.value = 0 \/ ae.value = Damaged \/ (IsWhole("ae") /\ ae.value = files["ae"].value)
  BY DEF LoadAE, Refused
<1>7. learned' \in Nat \cup {Damaged}
  BY <1>1, <1>6 DEF FilesInv
<1>8. segments' = 0 /\ onlineSteps' = 0
  BY DEF StartUp, FreshRest
<1> QED
  BY <1>2, <1>5, <1>7, <1>8, FreshLevels

LEMMA GoneLevels ==
    ASSUME StoreInv, Gone
    PROVE  LevelsInv'
<1>1. /\ segments' = 0 /\ onlineSteps' = 0 /\ seen' = 0 /\ learned' = 0 /\ promotions' = 0
      /\ filling' = [s \in Sources |-> 0] /\ events' = events
  BY DEF Gone, FreshRest
<1>2. seen' \in Statistic'
  BY <1>1, EmptyLevels DEF StoreInv, Statistic
<1> QED
  BY <1>1, <1>2, EmptyLevels, FreshLevels

LEMMA LevelsInductive ==
    ASSUME StoreInv, FilesInv, LevelsInv, [PersistenceNext]_vars
    PROVE  LevelsInv'
<1>1. CASE UNCHANGED << levels, learning, events >>
  BY <1>1 DEF LevelsInv, Statistic, levels, learning
<1>2. CASE IngestInvalid
  BY <1>1, <1>2 DEF IngestInvalid
<1>3. CASE Tick
  BY <1>1, <1>3 DEF Tick, pipeline
<1>4. CASE UNCHANGED vars
  BY <1>1, <1>4 DEF vars, pvars, pipeline
<1>5. ASSUME NEW how, SaveAndExit(how) PROVE LevelsInv'
  BY <1>5, GoneLevels DEF SaveAndExit
<1>6. CASE Crash
  BY <1>6, GoneLevels DEF Crash
<1> QED
  BY <1>2, <1>3, <1>4, <1>5, <1>6, Steps, IngestLevels, StartUpLevels

LEMMA EventsSteps ==
    ASSUME StoreInv, [PersistenceNext]_vars
    PROVE  events \in Nat /\ (events' = events \/ events' = events + 1)
<1>1. events \in Nat
  BY Numbers DEF StoreInv
<1>2. events' = events \/ events' = events + 1
  <2>1. ASSUME NEW s, NEW anomaly, NEW fault, Ingest(s, anomaly, fault) PROVE events' = events + 1
    BY <2>1 DEF Ingest
  <2>2. IngestInvalid \/ Tick \/ UNCHANGED vars => events' = events
    BY DEF IngestInvalid, Tick, vars, pvars
  <2>3. ASSUME NEW own, StartUp(own) PROVE events' = events
    BY <2>3 DEF StartUp
  <2>4. ASSUME NEW how, SaveAndExit(how) PROVE events' = events
    BY <2>4 DEF SaveAndExit, Gone
  <2>5. Crash => events' = events
    BY DEF Crash, Gone
  <2> QED
    BY <2>1, <2>2, <2>3, <2>4, <2>5, Steps
<1> QED
  BY <1>1, <1>2

LEMMA StatisticGrows ==
    ASSUME StoreInv, [PersistenceNext]_vars, NEW x \in Statistic
    PROVE  x \in Statistic'
<1>1. PICK n \in Nat : n = events
  BY EventsSteps
<1>2. PICK m \in Nat : m = events' /\ n <= m
  BY <1>1, EventsSteps
<1>3. x \in 0 .. n \cup {Damaged}
  BY <1>1 DEF Statistic
<1>4. x \in 0 .. m \cup {Damaged}
  BY <1>2, <1>3
<1> QED
  BY <1>2, <1>4 DEF Statistic

LEMMA FilesInductive ==
    ASSUME StoreInv, FilesInv, LevelsInv, [PersistenceNext]_vars
    PROVE  FilesInv'
<1>1. CASE UNCHANGED files
  <2>1. IsWhole("l0") => files["l0"].value \in Statistic'
    BY StatisticGrows DEF FilesInv
  <2> QED
    BY <1>1, <2>1 DEF FilesInv, IsWhole
<1>2. ASSUME NEW how \in Writings, SaveAndExit(how)
      PROVE  FilesInv'
  <2>1. how \in [Part -> {"whole", "torn", "kept"}]
    BY DEF Writings, MaxOneFailure, CrashesAt
  <2>2. /\ \A p \in Part : files'[p] = CASE how[p] = "whole" -> Whole(Contents[p])
                                         [] how[p] = "torn"  -> Torn
                                         [] how[p] = "kept"  -> files[p]
        /\ events' = events
    BY <1>2 DEF SaveAndExit, Written, Gone
  <2>3. \A p \in Part : \/ files'[p] = Whole(Contents[p])
                        \/ files'[p] = Torn
                        \/ files'[p] = files[p]
    BY <2>1, <2>2
  <2>4. \A p \in Part : files'[p].kind \in {"absent", "torn", "whole"}
    <3> SUFFICES ASSUME NEW p \in Part
                 PROVE  files'[p].kind \in {"absent", "torn", "whole"}
      OBVIOUS
    <3>1. Whole(Contents[p]).kind = "whole" /\ Torn.kind = "torn"
      BY DEF Whole, Torn
    <3>2. files[p].kind \in {"absent", "torn", "whole"}
      BY DEF FilesInv
    <3>3. CASE files'[p] = Whole(Contents[p])
      BY <3>1, <3>3
    <3>4. CASE files'[p] = Torn
      BY <3>1, <3>4
    <3>5. CASE files'[p] = files[p]
      BY <3>2, <3>5
    <3> QED
      BY <2>3, <3>3, <3>4, <3>5
  <2>5. /\ Contents["state"] = [filling |-> filling, promotions |-> promotions]
        /\ Contents["l0"] = seen /\ Contents["ae"] = learned
    BY DEF Contents, SavedState, SavedL0, SavedAE
  <2>6. IsWhole("state")' => /\ files'["state"].value.filling \in [Sources -> 0 .. FlushN - 1]
                             /\ files'["state"].value.promotions \in Nat
    <3>1. files'["state"] = Whole(Contents["state"]) \/ files'["state"] = Torn
              \/ files'["state"] = files["state"]
      BY <2>3, TheParts
    <3>2. CASE files'["state"] = Whole(Contents["state"])
      <4>1. files'["state"].value = [filling |-> filling, promotions |-> promotions]
        BY <2>5, <3>2 DEF Whole
      <4> QED
        BY <4>1 DEF LevelsInv
    <3>3. CASE files'["state"] = Torn
      BY <3>3 DEF Torn, IsWhole
    <3>4. CASE files'["state"] = files["state"]
      BY <3>4 DEF FilesInv, IsWhole
    <3> QED
      BY <3>1, <3>2, <3>3, <3>4
  <2>7. IsWhole("l0")' => files'["l0"].value \in Statistic'
    <3>1. files'["l0"] = Whole(seen) \/ files'["l0"] = Torn \/ files'["l0"] = files["l0"]
      BY <2>3, <2>5, TheParts
    <3>2. Statistic' = Statistic
      BY <2>2 DEF Statistic
    <3> QED
      BY <3>1, <3>2 DEF Whole, Torn, IsWhole, FilesInv, LevelsInv
  <2>8. IsWhole("ae")' => files'["ae"].value \in Nat \cup {Damaged}
    <3>1. files'["ae"] = Whole(learned) \/ files'["ae"] = Torn \/ files'["ae"] = files["ae"]
      BY <2>3, <2>5, TheParts
    <3> QED
      BY <3>1 DEF Whole, Torn, IsWhole, FilesInv, LevelsInv
  <2> QED
    BY <2>4, <2>6, <2>7, <2>8 DEF FilesInv
<1> QED
  BY <1>1, <1>2, FilesSteps

\* What the detectors make of a moment of an ingest.
LEMMA VerdictDetectors ==
    ASSUME NEW s, NEW anomaly, NEW matched, NEW fault, NEW v \in Verdicts(s, anomaly, matched, fault)
    PROVE  \E res : v.near = NearMissesOf(s, res) /\ v.window = AggregatedOf(s, res)
  BY DEF Verdicts

LEMMA IngestDetectors ==
    ASSUME StoreInv, DetectorsInv,
           NEW s \in Sources, NEW anomaly, NEW fault, Ingest(s, anomaly, fault)
    PROVE  DetectorsInv'
<1>1. \E m : \E v \in Verdicts(s, anomaly, m, fault) :
          /\ nearMisses' = [nearMisses EXCEPT ![s] = v.near]
          /\ aggregated' = [aggregated EXCEPT ![s] = v.window]
  BY DEF Ingest
<1>2. PICK res : /\ nearMisses' = [nearMisses EXCEPT ![s] = NearMissesOf(s, res)]
                 /\ aggregated' = [aggregated EXCEPT ![s] = AggregatedOf(s, res)]
  <2>1. PICK m : \E v \in Verdicts(s, anomaly, m, fault) :
                     /\ nearMisses' = [nearMisses EXCEPT ![s] = v.near]
                     /\ aggregated' = [aggregated EXCEPT ![s] = v.window]
    BY <1>1
  <2>2. PICK v \in Verdicts(s, anomaly, m, fault) :
            /\ nearMisses' = [nearMisses EXCEPT ![s] = v.near]
            /\ aggregated' = [aggregated EXCEPT ![s] = v.window]
    BY <2>1
  <2>3. \E res : v.near = NearMissesOf(s, res) /\ v.window = AggregatedOf(s, res)
    BY VerdictDetectors
  <2> QED
    BY <2>2, <2>3
<1>3. clock \in Nat /\ Start <= clock /\ Start \in Nat /\ clock' = clock
  BY Numbers DEF StoreInv, Ingest
<1>4. lastRetrieval' \in [Sources -> 0 .. clock]
  <2>1. lastRetrieval' = [lastRetrieval EXCEPT ![s] = clock] \/ lastRetrieval' = lastRetrieval
    BY DEF Ingest
  <2>2. clock \in 0 .. clock
    BY <1>3
  <2> QED
    BY <2>1, <2>2 DEF DetectorsInv
<1>5. aggregated' \in [Sources -> 0 .. AggregateMin]
  <2>1. aggregated[s] \in 0 .. AggregateMin /\ AggregateMin \in Nat
    BY Numbers DEF DetectorsInv
  <2>2. AggregatedOf(s, res) \in 0 .. AggregateMin
    BY <2>1 DEF AggregatedOf
  <2> QED
    BY <1>2, <2>2 DEF DetectorsInv
<1> DEFINE near == NearMissesOf(s, res)
<1>6. /\ near \in Seq(Nat) /\ Len(near) <= MaxNearMisses
      /\ \A i \in 1 .. Len(near) : near[i] \in Start .. clock
  <2>1. /\ nearMisses[s] \in Seq(Nat) /\ Len(nearMisses[s]) <= MaxNearMisses
        /\ \A i \in 1 .. Len(nearMisses[s]) : nearMisses[s][i] \in Start .. clock
    BY DEF DetectorsInv
  <2> DEFINE ring == WithoutExpired(Append(nearMisses[s], clock))
  <2>2. near = nearMisses[s] \/ near = Limited(ring)
    BY DEF NearMissesOf
  <2>3. ring \in Seq(Nat) /\ Len(ring) <= Len(nearMisses[s]) + 1
        /\ \A i \in 1 .. Len(ring) : ring[i] \in Start .. clock
    BY <1>3, <2>1, RingIs
  <2> HIDE DEF ring
  <2>4. Len(nearMisses[s]) \in Nat /\ Len(ring) \in Nat
    BY <2>1, <2>3, LenProperties
  <2>5. MaxNearMisses \in Nat
    BY PipelineAssumption
  <2>6. Len(ring) <= MaxNearMisses + 1
    BY <2>1, <2>3, <2>4, <2>5
  <2> QED
    BY <2>1, <2>2, <2>3, <2>6, LimitedIs
<1> HIDE DEF near
<1>7. nearMisses' = [nearMisses EXCEPT ![s] = near]
  BY <1>2 DEF near
<1>8. /\ nearMisses' \in [Sources -> Seq(Nat)]
      /\ \A x \in Sources : Len(nearMisses'[x]) <= MaxNearMisses
  BY <1>6, <1>7 DEF DetectorsInv
<1>9. \A x \in Sources : \A i \in 1 .. Len(nearMisses'[x]) : nearMisses'[x][i] \in Start .. clock
  <2> SUFFICES ASSUME NEW x \in Sources
               PROVE  \A i \in 1 .. Len(nearMisses'[x]) : nearMisses'[x][i] \in Start .. clock
    OBVIOUS
  <2>1. CASE x = s
    <3>1. nearMisses'[x] = near
      BY <1>7, <2>1 DEF DetectorsInv
    <3> QED
      BY <1>6, <3>1
  <2>2. CASE x # s
    <3>1. nearMisses'[x] = nearMisses[x]
      BY <1>7, <2>2 DEF DetectorsInv
    <3> QED
      BY <3>1 DEF DetectorsInv
  <2> QED
    BY <2>1, <2>2
<1> QED
  BY <1>3, <1>4, <1>5, <1>8, <1>9 DEF DetectorsInv

LEMMA FreshDetectors ==
    ASSUME StoreInv, FreshRest, clock' = clock
    PROVE  DetectorsInv'
<1>1. 0 \in 0 .. clock /\ 0 \in 0 .. AggregateMin
  BY Numbers DEF StoreInv
<1>2. /\ lastRetrieval' = [s \in Sources |-> 0] /\ nearMisses' = [s \in Sources |-> <<>>]
      /\ aggregated' = [s \in Sources |-> 0]
  BY DEF FreshRest
<1>3. << >> \in Seq(Nat) /\ Len(<< >>) = 0
  OBVIOUS
<1>4. nearMisses' \in [Sources -> Seq(Nat)] /\ \A s \in Sources : Len(nearMisses'[s]) = 0
  BY <1>2, <1>3
<1>5. \A s \in Sources : \A i \in 1 .. Len(nearMisses'[s]) : nearMisses'[s][i] \in Start .. clock
  BY <1>4
<1>6. \A s \in Sources : Len(nearMisses'[s]) <= MaxNearMisses
  BY <1>4, PipelineAssumption
<1> QED
  BY <1>1, <1>2, <1>4, <1>5, <1>6 DEF DetectorsInv

LEMMA DetectorsInductive ==
    ASSUME StoreInv, DetectorsInv, [PersistenceNext]_vars
    PROVE  DetectorsInv'
<1>1. CASE UNCHANGED << detectors, clock >>
  BY <1>1 DEF DetectorsInv, detectors
<1>2. CASE IngestInvalid
  BY <1>1, <1>2 DEF IngestInvalid
<1>3. CASE Tick
  <2>1. UNCHANGED detectors /\ clock' = clock + 1
    BY <1>3 DEF Tick, pipeline
  <2>2. PICK n \in Nat : n = clock
    BY Numbers DEF StoreInv
  <2>3. PICK m \in Nat : m = clock' /\ m = n + 1
    BY <2>1, <2>2
  <2>4. lastRetrieval \in [Sources -> 0 .. m]
    BY <2>2, <2>3 DEF DetectorsInv
  <2>5. \A s \in Sources : \A i \in 1 .. Len(nearMisses[s]) : nearMisses[s][i] \in Start .. m
    <3> SUFFICES ASSUME NEW s \in Sources, NEW i \in 1 .. Len(nearMisses[s])
                 PROVE  nearMisses[s][i] \in Start .. m
      OBVIOUS
    <3>1. nearMisses[s][i] \in Start .. n
      BY <2>2 DEF DetectorsInv
    <3>2. Start \in Nat
      BY Numbers
    <3> QED
      BY <2>3, <3>1, <3>2
  <2> QED
    BY <2>1, <2>3, <2>4, <2>5 DEF DetectorsInv, detectors
<1>4. CASE UNCHANGED vars
  BY <1>1, <1>4 DEF vars, pvars, pipeline
<1>5. ASSUME NEW own, StartUp(own) PROVE DetectorsInv'
  BY <1>5, FreshDetectors DEF StartUp
<1>6. ASSUME NEW how, SaveAndExit(how) PROVE DetectorsInv'
  BY <1>6, FreshDetectors DEF SaveAndExit, Gone
<1>7. CASE Crash
  BY <1>7, FreshDetectors DEF Crash, Gone
<1> QED
  BY <1>2, <1>3, <1>4, <1>5, <1>6, <1>7, Steps, IngestDetectors

LEMMA HealthInductive ==
    ASSUME StoreInv, HealthInv, [PersistenceNext]_vars
    PROVE  HealthInv'
<1>1. PICK n \in Nat : n = clock
  BY Numbers DEF StoreInv
<1>2. 0 \in 0 .. MaxFaults /\ 0 \in 0 .. n
  BY Numbers
<1>3. CASE UNCHANGED << faults, panicSince, clock >>
  BY <1>3 DEF HealthInv
<1>4. CASE faults' = 0 /\ panicSince' = 0 /\ clock' = clock
  BY <1>1, <1>2, <1>4 DEF HealthInv
<1>5. ASSUME NEW s, NEW anomaly, NEW fault, Ingest(s, anomaly, fault)
      PROVE  HealthInv'
  <2>1. faults' = faults /\ clock' = clock /\ PanicStep
    BY <1>5 DEF Ingest
  <2>2. panicSince' = clock \/ panicSince' = panicSince
    BY <2>1 DEF PanicStep
  <2> QED
    BY <1>1, <2>1, <2>2 DEF HealthInv
<1>6. CASE IngestInvalid
  <2>1. faults < MaxFaults /\ faults' = faults + 1 /\ panicSince' = panicSince /\ clock' = clock
    BY <1>6 DEF IngestInvalid
  <2>2. faults' \in 0 .. MaxFaults
    BY <2>1, Numbers DEF HealthInv
  <2> QED
    BY <2>1, <2>2 DEF HealthInv
<1>7. CASE Tick
  <2>1. faults' = faults /\ panicSince' = panicSince /\ clock' = n + 1
    BY <1>1, <1>7 DEF Tick, pipeline, health
  <2> QED
    BY <1>1, <2>1 DEF HealthInv
<1>8. CASE UNCHANGED vars
  BY <1>3, <1>8 DEF vars, pvars, pipeline, health
<1>9. ASSUME NEW own, StartUp(own) PROVE HealthInv'
  BY <1>4, <1>9 DEF StartUp, FreshRest
<1>10. ASSUME NEW how, SaveAndExit(how) PROVE HealthInv'
  BY <1>4, <1>10 DEF SaveAndExit, Gone, FreshRest
<1>11. CASE Crash
  BY <1>4, <1>11 DEF Crash, Gone, FreshRest
<1> QED
  BY <1>5, <1>6, <1>7, <1>8, <1>9, <1>10, <1>11, Steps

LEMMA TheDecisions == DecisionSet = {"Ignore", "Log", "Alert", "Block", "Escalate"}
<1>1. DOMAIN Decisions = 1 .. 5
  BY DEF Decisions
<1>2. \A i \in 1 .. 5 : Decisions[i] \in {"Ignore", "Log", "Alert", "Block", "Escalate"}
  BY DEF Decisions
<1>3. /\ Decisions[1] = "Ignore" /\ Decisions[2] = "Log" /\ Decisions[3] = "Alert"
      /\ Decisions[4] = "Block" /\ Decisions[5] = "Escalate"
  BY DEF Decisions
<1> QED
  BY <1>1, <1>2, <1>3 DEF DecisionSet

\* Every stage leaves a decision in the result.
Decided(res) == \E d \in DecisionSet : \E c, b, fp : res = Result(c, d, b, fp)

LEMMA ScoreDecides == ASSUME NEW c PROVE ScoreToDecision(c) \in DecisionSet
  BY TheDecisions DEF ScoreToDecision

LEMMA ResultDecides ==
    ASSUME NEW c, NEW d \in DecisionSet, NEW b, NEW fp
    PROVE  Decided(Result(c, d, b, fp))
<1>1. \E x, y, z : Result(c, d, b, fp) = Result(x, d, y, z)
  <2> WITNESS c, b, fp
  <2> QED
    OBVIOUS
<1> QED
  BY <1>1, Zenon DEF Decided

LEMMA RescoredDecides == ASSUME NEW res, NEW c PROVE Decided(Rescored(res, c))
<1>1. ScoreToDecision(c) \in DecisionSet
  BY ScoreDecides
<1> QED
  BY <1>1, ResultDecides, Zenon DEF Rescored

LEMMA Step7Decides ==
    ASSUME NEW anomaly, NEW matched, NEW gate, NEW fused, NEW fault
    PROVE  Decided(Step7(anomaly, matched, gate, fused, fault))
<1>1. "Ignore" \in DecisionSet /\ "Alert" \in DecisionSet
  BY TheDecisions
<1>2. Decided(Reason(fused, matched))
  <2> DEFINE combined == IF matched THEN Larger(fused, thresholds.alert) ELSE fused
             d == IF combined < FpSuppression THEN "Ignore" ELSE ScoreToDecision(combined)
  <2>1. d \in DecisionSet
    BY <1>1, ScoreDecides
  <2>2. Reason(fused, matched) = Result(combined, d, d, combined < FpSuppression)
    BY Zenon DEF Reason
  <2> HIDE DEF d, combined
  <2> QED
    BY <2>1, <2>2, ResultDecides, Zenon
<1>3. Decided(Result(0, IF matched THEN "Alert" ELSE "Ignore", "Ignore", FALSE))
  <2>1. (IF matched THEN "Alert" ELSE "Ignore") \in DecisionSet
    BY <1>1, Zenon
  <2> QED
    BY <2>1, ResultDecides, Zenon
<1>4. Decided(Result(0, "Ignore", "Ignore", FALSE))
  BY <1>1, ResultDecides, Zenon
<1>5. Decided(Result(fused, ScoreToDecision(fused), "Ignore", FALSE))
  BY ScoreDecides, ResultDecides, Zenon
<1> QED
  BY <1>2, <1>3, <1>4, <1>5 DEF Step7

LEMMA LaterDecides ==
    ASSUME NEW res, Decided(res), NEW s, NEW specialist, NEW boost, NEW raised
    PROVE  /\ Decided(Specialised(res, specialist))
           /\ Decided(Boosted(s, res, boost))
           /\ Correlated(res, raised).decision \in DecisionSet
<1>1. Decided(Specialised(res, specialist))
  BY RescoredDecides DEF Specialised
<1>2. Decided(Boosted(s, res, boost))
  BY RescoredDecides DEF Boosted
<1>3. Correlated(res, raised).decision \in DecisionSet
  <2>1. PICK d \in DecisionSet : \E c, b, fp : res = Result(c, d, b, fp)
    BY Zenon DEF Decided
  <2>2. PICK c, b, fp : res = [confidence |-> c, decision |-> d, base |-> b, fp |-> fp]
    BY <2>1, Zenon DEF Result
  <2>3. "Escalate" \in DecisionSet
    BY TheDecisions
  <2> QED
    BY <2>1, <2>2, <2>3 DEF Correlated
<1> QED
  BY <1>1, <1>2, <1>3

LEMMA VerdictSays ==
    ASSUME NEW s, NEW anomaly, NEW matched, NEW fault, NEW v \in Verdicts(s, anomaly, matched, fault)
    PROVE  \/ v.heard = NoRule
           \/ \E d \in DecisionSet, o \in BOOLEAN, l \in BOOLEAN :
                  v.heard = [decision |-> d, offered |-> o, learned |-> l]
<1>1. PICK a \in Assessments(s, anomaly, matched, fault), raised \in BOOLEAN :
          v.heard = IF matched /\ ~panic /\ fault # "reasoning"
                    THEN [decision |-> Correlated(a.result, raised).decision,
                          offered |-> Offered(Correlated(a.result, raised)),
                          learned |-> Learns(Correlated(a.result, raised).confidence)]
                    ELSE NoRule
  BY DEF Verdicts
<1>2. PICK gate, fused, specialist, boost :
          a.result = Boosted(s, Specialised(Step7(anomaly, matched, gate, fused, fault), specialist), boost)
  BY SMT DEF Assessments
<1>3. Decided(a.result)
  BY <1>2, Step7Decides, LaterDecides
<1>4. PICK d \in DecisionSet : d = Correlated(a.result, raised).decision
  BY <1>3, LaterDecides
<1>5. PICK o \in BOOLEAN : o = Offered(Correlated(a.result, raised))
  BY Zenon DEF Offered
<1>6. PICK l \in BOOLEAN : l = Learns(Correlated(a.result, raised).confidence)
  BY Zenon DEF Learns
<1> QED
  BY <1>1, <1>4, <1>5, <1>6, Zenon

LEMMA NothingSaid ==
    /\ NoRule \in [decision : DecisionSet \cup {"none"}, offered : BOOLEAN, learned : BOOLEAN]
    /\ NotBlocked \in [source : Sources \cup {Global}, event : 0 .. MaxEvents, score : Anomalies \cup {0}]
<1>1. 0 \in 0 .. MaxEvents
  BY Numbers
<1>2. NotBlocked \in [source : Sources \cup {Global}, event : 0 .. MaxEvents, score : Anomalies \cup {0}]
  BY <1>1 DEF NotBlocked
<1>3. NoRule \in [decision : DecisionSet \cup {"none"}, offered : BOOLEAN, learned : BOOLEAN]
  BY DEF NoRule
<1> QED
  BY <1>2, <1>3

LEMMA HistoryInductive ==
    ASSUME StoreInv, HistoryInv, [PersistenceNext]_vars
    PROVE  HistoryInv'
<1>1. CASE UNCHANGED << heard, blocked >>
  BY <1>1 DEF HistoryInv
<1>2. CASE heard' = NoRule /\ blocked' = NotBlocked
  BY <1>2, NothingSaid DEF HistoryInv
<1>3. ASSUME NEW s \in Sources, NEW anomaly \in Anomalies, NEW fault, Ingest(s, anomaly, fault)
      PROVE  HistoryInv'
  <2>1. PICK m : \E v \in Verdicts(s, anomaly, m, fault) : heard' = v.heard
    BY <1>3 DEF Ingest
  <2>2. PICK v \in Verdicts(s, anomaly, m, fault) : heard' = v.heard
    BY <2>1
  <2>3. \/ v.heard = NoRule
        \/ \E d \in DecisionSet, o \in BOOLEAN, l \in BOOLEAN :
               v.heard = [decision |-> d, offered |-> o, learned |-> l]
    BY VerdictSays
  <2>4. heard' \in [decision : DecisionSet \cup {"none"}, offered : BOOLEAN, learned : BOOLEAN]
    <3>1. CASE v.heard = NoRule
      BY <2>2, <3>1, NothingSaid
    <3>2. CASE \E d \in DecisionSet, o \in BOOLEAN, l \in BOOLEAN :
                   v.heard = [decision |-> d, offered |-> o, learned |-> l]
      BY <2>2, <3>2
    <3> QED
      BY <2>3, <3>1, <3>2
  <2>5. \/ blocked' = NotBlocked
        \/ blocked' = [source |-> s, event |-> events + 1, score |-> anomaly]
    BY <1>3, IngestWrites
  <2>6. events + 1 \in 0 .. MaxEvents
    BY <1>3, Numbers DEF StoreInv, Ingest
  <2>7. blocked' \in [source : Sources \cup {Global}, event : 0 .. MaxEvents, score : Anomalies \cup {0}]
    BY <2>5, <2>6, NothingSaid
  <2> QED
    BY <2>4, <2>7 DEF HistoryInv
<1>4. CASE IngestInvalid
  BY <1>1, <1>4 DEF IngestInvalid
<1>5. CASE Tick
  BY <1>1, <1>5 DEF Tick, pipeline
<1>6. CASE UNCHANGED vars
  BY <1>1, <1>6 DEF vars, pvars, pipeline
<1>7. ASSUME NEW own, StartUp(own) PROVE HistoryInv'
  BY <1>2, <1>7 DEF StartUp, FreshRest
<1>8. ASSUME NEW how, SaveAndExit(how) PROVE HistoryInv'
  BY <1>2, <1>8 DEF SaveAndExit, Gone, FreshRest
<1>9. CASE Crash
  BY <1>2, <1>9 DEF Crash, Gone, FreshRest
<1> QED
  BY <1>3, <1>4, <1>5, <1>6, <1>7, <1>8, <1>9, Steps

LEMMA ProcessInductive ==
    ASSUME ProcessInv, [PersistenceNext]_vars
    PROVE  ProcessInv'
<1>1. CASE UNCHANGED disk
  BY <1>1 DEF ProcessInv, disk
<1>2. CASE Gone
  BY <1>2 DEF ProcessInv, Gone
<1>3. ASSUME NEW own, StartUp(own) PROVE ProcessInv'
  <2>1. up' \in BOOLEAN
    BY <1>3 DEF StartUp
  <2>2. loaded' \in BOOLEAN
    <3>1. PICK state \in LoadState, memory \in LoadMemory, l0 \in LoadL0, ae \in LoadAE :
              loaded' = AllOk(state.ok, memory, LoadConfig(own).ok, l0.ok, ae.ok)
      BY <1>3 DEF StartUp
    <3>2. AllOk(state.ok, memory, LoadConfig(own).ok, l0.ok, ae.ok) \in BOOLEAN
      BY Zenon DEF AllOk
    <3> QED
      BY <3>1, <3>2
  <2>3. runs' \in 0 .. MaxRuns
    <3>1. runs < MaxRuns /\ runs' = runs + 1 /\ MaxRuns \in Nat
      BY <1>3, Numbers DEF StartUp
    <3> QED
      BY <3>1 DEF ProcessInv
  <2> QED
    BY <2>1, <2>2, <2>3 DEF ProcessInv
<1>4. ASSUME NEW how, SaveAndExit(how) PROVE ProcessInv'
  BY <1>2, <1>4 DEF SaveAndExit
<1>5. CASE Crash
  BY <1>2, <1>5 DEF Crash
<1>6. CASE UNCHANGED vars
  BY <1>1, <1>6 DEF vars
<1> QED
  BY <1>1, <1>3, <1>4, <1>5, <1>6, Steps

Inv ==
    /\ PanicInv /\ OrderInv /\ StoreInv /\ BlockedRemembered
    /\ LevelsInv /\ FilesInv /\ DetectorsInv
    /\ HealthInv /\ HistoryInv /\ ProcessInv

LEMMA InvInductive == Inv /\ [PersistenceNext]_vars => Inv'
<1> SUFFICES ASSUME Inv, [PersistenceNext]_vars
             PROVE  Inv'
  OBVIOUS
<1> USE DEF Inv
<1>1. PanicInv' /\ OrderInv'
  BY PanicInductive, OrderInductive
<1>2. StoreInv' /\ BlockedRemembered'
  BY StoreInductive
<1>3. LevelsInv' /\ FilesInv' /\ DetectorsInv'
  BY LevelsInductive, FilesInductive, DetectorsInductive
<1>4. HealthInv' /\ HistoryInv' /\ ProcessInv'
  BY HealthInductive, HistoryInductive, ProcessInductive
<1> QED
  BY <1>1, <1>2, <1>3, <1>4

LEMMA PersistenceStarts == PersistenceInit => Inv
<1> SUFFICES ASSUME PersistenceInit
             PROVE  Inv
  OBVIOUS
<1>1. /\ thresholds = Defaults /\ seen = 0 /\ segments = 0 /\ promotions = 0 /\ onlineSteps = 0
      /\ learned = 0 /\ filling = [s \in Sources |-> 0]
      /\ stores = [k \in Sources \cup {Global} |-> {}]
      /\ lastRetrieval = [s \in Sources |-> 0] /\ nearMisses = [s \in Sources |-> <<>>]
      /\ aggregated = [s \in Sources |-> 0]
      /\ faults = 0 /\ panicSince = 0 /\ panicFaults = 0
      /\ heard = NoRule /\ blocked = NotBlocked
  BY Zenon DEF PersistenceInit, Fresh
<1>2. /\ clock = Start /\ events = 0 /\ runs = 0 /\ files = [p \in Part |-> Absent]
  BY Zenon DEF PersistenceInit
<1>3. panic = FALSE /\ enteredAt = 0 /\ up = FALSE /\ loaded = FALSE
  BY Zenon DEF PersistenceInit, Fresh
<1>4. \A p \in Part : files[p].kind = "absent"
  BY <1>2 DEF Absent
<1>5. /\ files["config"].kind = "absent" /\ files["state"].kind = "absent"
      /\ files["l0"].kind = "absent" /\ files["ae"].kind = "absent"
  BY <1>4, TheParts
<1>6. OrderInv
  BY <1>1, <1>5, DefaultsOrdered DEF OrderInv
<1>7. PanicInv
  <2>1. panic \in BOOLEAN /\ ~panic
    BY <1>3, Zenon
  <2>2. faults \in Nat /\ enteredAt \in 0 .. faults
    BY <1>1, <1>3
  <2> QED
    BY <1>1, <2>1, <2>2, Zenon DEF PanicInv
<1>8. StoreInv /\ BlockedRemembered
  <2>1. Start \in Start .. MaxClock /\ 0 \in 0 .. MaxEvents
    BY Numbers
  <2> QED
    BY <1>1, <1>2, <2>1, EmptyMemory DEF StoreInv, BlockedRemembered
<1>9. LevelsInv
  <2>1. 0 \in Statistic
    BY <1>2 DEF Statistic
  <2>2. 0 \in 0 .. MinSegments /\ 0 \in 0 .. SampleRate - 1
    BY Numbers
  <2> QED
    BY <1>1, <2>1, <2>2, EmptyLevels DEF LevelsInv
<1>10. FilesInv
  BY <1>4, <1>5 DEF FilesInv, IsWhole
<1>11. DetectorsInv
  <2>1. 0 \in 0 .. clock /\ 0 \in 0 .. AggregateMin
    BY <1>2, Numbers
  <2>2. << >> \in Seq(Nat) /\ Len(<< >>) = 0
    OBVIOUS
  <2>3. nearMisses \in [Sources -> Seq(Nat)] /\ \A s \in Sources : Len(nearMisses[s]) = 0
    BY <1>1, <2>2
  <2>4. \A s \in Sources : \A i \in 1 .. Len(nearMisses[s]) : nearMisses[s][i] \in Start .. clock
    BY <2>3
  <2>5. \A s \in Sources : Len(nearMisses[s]) <= MaxNearMisses
    BY <2>3, PipelineAssumption
  <2> QED
    BY <1>1, <2>1, <2>3, <2>4, <2>5 DEF DetectorsInv
<1>12. HealthInv
  <2>1. 0 \in 0 .. clock /\ 0 \in 0 .. MaxFaults
    BY <1>2, Numbers
  <2> QED
    BY <1>1, <2>1 DEF HealthInv
<1>13. HistoryInv
  BY <1>1, NothingSaid DEF HistoryInv
<1>14. ProcessInv
  <2>1. 0 \in 0 .. MaxRuns
    BY Numbers
  <2> QED
    BY <1>2, <1>3, <2>1 DEF ProcessInv
<1> QED
  BY <1>6, <1>7, <1>8, <1>9, <1>10, <1>11, <1>12, <1>13, <1>14 DEF Inv

LEMMA InvTypes == Inv => DiskTypeOK
<1> SUFFICES ASSUME Inv
             PROVE  DiskTypeOK
  OBVIOUS
<1> USE DEF Inv
<1>1. Ordered(thresholds)
  BY DEF OrderInv
<1>2. clock \in Start .. MaxClock /\ events \in 0 .. MaxEvents
  BY DEF StoreInv
<1>3. seen \in 0 .. MaxEvents \cup {Damaged}
  BY <1>2, Numbers DEF LevelsInv, Statistic
<1>4. /\ learned \in Nat \cup {Damaged} /\ filling \in [Sources -> 0 .. FlushN - 1]
      /\ segments \in 0 .. MinSegments /\ promotions \in Nat /\ onlineSteps \in 0 .. SampleRate - 1
  BY DEF LevelsInv
<1>5. \A k \in Sources \cup {Global} : stores[k] \subseteq Records /\ Cardinality(stores[k]) <= MaxStore
  BY DEF StoreInv, Memories, Small
<1>6. /\ lastRetrieval \in [Sources -> 0 .. clock] /\ aggregated \in [Sources -> 0 .. AggregateMin]
      /\ DOMAIN nearMisses = Sources
  BY DEF DetectorsInv
<1>7. \A s \in Sources :
          /\ Len(nearMisses[s]) <= MaxNearMisses
          /\ \A i \in DOMAIN nearMisses[s] : nearMisses[s][i] \in Start .. clock
  <2>1. \A s \in Sources : DOMAIN nearMisses[s] = 1 .. Len(nearMisses[s])
    BY DEF DetectorsInv
  <2> QED
    BY <2>1 DEF DetectorsInv
<1>8. panicFaults \in 0 .. faults /\ enteredAt \in 0 .. faults
  BY Numbers DEF PanicInv
<1>9. panic \in BOOLEAN
  BY Zenon DEF PanicInv
<1>10. faults \in 0 .. MaxFaults /\ panicSince \in 0 .. clock
  BY DEF HealthInv
<1>11. /\ heard \in [decision : DecisionSet \cup {"none"}, offered : BOOLEAN, learned : BOOLEAN]
       /\ blocked \in [source : Sources \cup {Global}, event : 0 .. MaxEvents, score : Anomalies \cup {0}]
  BY DEF HistoryInv
<1>12. TypeOK
  BY <1>1, <1>2, <1>3, <1>4, <1>5, <1>6, <1>7, <1>8, <1>9, <1>10, <1>11, Zenon DEF TypeOK
<1>13. \A p \in Part : files[p].kind \in {"absent", "torn", "whole"}
  BY DEF FilesInv
<1>14. up \in BOOLEAN /\ loaded \in BOOLEAN /\ runs \in 0 .. MaxRuns
  BY Zenon DEF ProcessInv
<1> QED
  BY <1>12, <1>13, <1>14, Zenon DEF DiskTypeOK

\* Every process keeps the types of its pipeline, also of one put together from
\* files that were torn while they were written: no half loaded number reaches
\* the levels (load_state), no store outgrows max_size_, no near miss and no
\* retrieval lies in the future, and thresholds from any file are in order.
THEOREM TypeCorrect == PersistenceSpec => []DiskTypeOK
<1>1. PersistenceInit => Inv
  BY PersistenceStarts
<1>2. Inv /\ [PersistenceNext]_vars => Inv'
  BY InvInductive
<1>3. Inv => DiskTypeOK
  BY InvTypes
<1>4. QED
  BY <1>1, <1>2, <1>3, PTL DEF PersistenceSpec
=============================================================================

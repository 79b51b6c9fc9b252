------------------------------ MODULE HotReload ------------------------------
(***************************************************************************)
(* Changing a running pipeline: ConfigHolder and the hot_reload_config and *)
(* rollback_config of include/ids.hpp, ModelHolder of                      *)
(* include/ids_model.hpp and applyModelParams, and what they change for    *)
(* the state-space layers of the events ingested meanwhile.                *)
(*                                                                         *)
(* Several threads call these operations.  A change of configuration is    *)
(* made in two critical sections (the holder's lock, then the pipeline's), *)
(* a rollback in three; a change of model holds the model holder's lock    *)
(* over the callback that installs the parameters under the pipeline's     *)
(* lock.  Configurations and models are names.  A model also comes from a  *)
(* file, which is read without a lock, and goes to one, which is written   *)
(* in place under the holder's: a reader may find any mixture of the two.  *)
(*                                                                         *)
(* Faulty variants of some definitions stand before them, used by no       *)
(* action: they serve to test that a property would notice the fault.      *)
(***************************************************************************)
EXTENDS Naturals, SequencesExt

CONSTANTS
    Callers,      \* the threads that administrate the pipeline
    Configs,
    FirstConfig,  \* the configuration the pipeline is constructed with
    ValidConfigs, \* those validate_config accepts
    Models,       \* those validate_model accepts
    Unsummed,     \* the models of which there may be files without a checksum
    Torn,         \* the content of a file that ends early or lacks the header
    Altered,      \* a whole model whose numbers are not those of its checksum
    Sources,      \* the addresses that have a segment layer of their own
    MaxHistory,   \* kMaxHistory of both holders
    MaxCalls,     \* bound: successful calls
    None          \* no model: the matrices of the configuration; no file

ASSUME HotReloadAssumption ==
    /\ ValidConfigs \subseteq Configs
    /\ FirstConfig \in ValidConfigs
    /\ None \notin Models \cup Callers
    /\ Unsummed \subseteq Models
    /\ Torn \notin Models /\ Altered \notin Models
    /\ MaxHistory \in Nat \ {0}
    /\ MaxCalls \in Nat

VARIABLES
    current,        \* ConfigHolder::cfg_
    history,        \* ConfigHolder::history_, the latest first
    running,        \* IDS::cfg_, but for its segment parameters
    engine,         \* the configuration of engine_ and correlation_
    segment,        \* cfg_.segment.ssm_params: those of a model, or None
    staged,         \* ModelHolder::staged_
    active,         \* ModelHolder::active_
    modelHistory,   \* ModelHolder::history_
    modelLock,      \* the caller that holds ModelHolder::mu_ for several steps, or None
    file,           \* the content of the model file, or None
    l1,             \* l1_instances_: the matrices of each source's layer
    l2,             \* the matrices of l2_
    call,           \* [Callers -> the call in progress]
    calls,          \* number of calls so far
    overlapped,     \* history: two configuration calls have overlapped
    overwritten     \* history: the configuration was changed since the last model

holder   == << current, history >>
pipeline == << running, engine, segment, l1, l2 >>
model    == << staged, active, modelHistory >>
vars == << holder, pipeline, model, modelLock, file, call, calls, overlapped, overwritten >>

NoLayer == "no layer"
Idle    == [at |-> "idle", config |-> FirstConfig]
CallStates == {"idle", "install", "fetch", "restore", "read", "apply", "export"}
InConfigCall(t) == call[t].at \in {"install", "fetch", "restore"}

\* push_front, then pop_back above the limit
Remember(past, old) ==
    IF Len(past) < MaxHistory THEN << old >> \o past ELSE << old >> \o Front(past)

-----------------------------------------------------------------------------
(* hot_reload_config and rollback_config.                                   *)

BeginConfigCall(t, at, c) ==
    /\ call[t].at = "idle" /\ calls < MaxCalls
    /\ calls' = calls + 1
    /\ call' = [call EXCEPT ![t] = [at |-> at, config |-> c]]
    /\ overlapped' = (overlapped \/ \E o \in Callers : InConfigCall(o))
    /\ UNCHANGED << pipeline, model, modelLock, file, overwritten >>

\* ConfigHolder::update, for a configuration that validate_config accepts; for
\* any other hot_reload_config returns at once
Accepts == ValidConfigs

Update(t, c) ==
    /\ c \in Accepts
    /\ BeginConfigCall(t, "install", c)
    /\ current' = c
    /\ history' = Remember(history, current)

\* under the pipeline's lock: the whole of cfg_ is assigned, the segment
\* parameters included, and two of the parts that copied from it follow
Install(t) ==
    /\ call[t].at = "install"
    /\ running' = call[t].config
    /\ engine' = call[t].config
    /\ segment' = None
    /\ call' = [call EXCEPT ![t] = Idle]
    /\ overwritten' = TRUE
    /\ UNCHANGED << holder, l1, l2, model, modelLock, file, calls, overlapped >>

\* ConfigHolder::rollback
RollbackConfig(t, k) ==
    /\ k \in DOMAIN history
    /\ BeginConfigCall(t, "fetch", FirstConfig)
    /\ current' = history[k]
    /\ history' = Remember(history, current)

\* ConfigHolder::get
FetchesOldest == IF history = <<>> THEN current ELSE Last(history)
Fetched == current

Fetch(t) ==
    /\ call[t].at = "fetch"
    /\ call' = [call EXCEPT ![t] = [at |-> "restore", config |-> Fetched]]
    /\ UNCHANGED << holder, pipeline, model, modelLock, file, calls, overlapped,
                    overwritten >>

\* as Install, but the parts that copied from cfg_ are left as they are
Restore(t) ==
    /\ call[t].at = "restore"
    /\ running' = call[t].config
    /\ segment' = None
    /\ call' = [call EXCEPT ![t] = Idle]
    /\ overwritten' = TRUE
    /\ UNCHANGED << holder, engine, l1, l2, model, modelLock, file, calls, overlapped >>

-----------------------------------------------------------------------------
(* stage_model, apply_model and rollback_model.                             *)

BeginModelCall(t) ==
    /\ call[t].at = "idle" /\ calls < MaxCalls
    /\ modelLock = None
    /\ calls' = calls + 1
    /\ UNCHANGED << holder, pipeline, overlapped, overwritten >>

\* load_model: the header is there and the file does not end early
Loads(content) == content \notin {None, Torn}

\* validate_model: sizes, finite numbers and the checksum, if there is one: without
\* it the numbers of another model pass
ValidatesSizes(content) == content \in Models \cup {Altered}
Validates(content) == content \in Models

\* a model in memory that does not validate leaves only an error text
Stage(t, m) ==
    /\ Validates(m)
    /\ BeginModelCall(t)
    /\ staged' = m
    /\ UNCHANGED << active, modelHistory, modelLock, file, call >>

\* a file is opened and read before any lock is taken
ReadModel(t) ==
    /\ call[t].at = "idle" /\ calls < MaxCalls
    /\ calls' = calls + 1
    /\ call' = [call EXCEPT ![t] = [at |-> "read", config |-> file]]
    /\ UNCHANGED << holder, pipeline, model, modelLock, file, overlapped, overwritten >>

\* what was read is what the file held, what it holds now, or a part or a mixture
\* of the two; the lock is taken for the model or for the error text
Altering(content) == {Altered} \cup IF content \in Unsummed THEN Unsummed ELSE {}

StageRead(t) ==
    /\ call[t].at = "read" /\ modelLock = None
    /\ \E content \in {call[t].config, file, Torn} \cup Altering(call[t].config) \cup Altering(file) :
           staged' = IF Loads(content) /\ Validates(content) THEN content ELSE staged
    /\ call' = [call EXCEPT ![t] = Idle]
    /\ UNCHANGED << holder, pipeline, active, modelHistory, modelLock, file, calls,
                    overlapped, overwritten >>

\* the lock is kept until the callback has returned
KeepsLock(t)   == modelLock' = t

ApplyModel(t) ==
    /\ staged # None
    /\ BeginModelCall(t)
    /\ modelHistory' = IF active = None THEN modelHistory ELSE Remember(modelHistory, active)
    /\ active' = staged
    /\ staged' = None
    /\ KeepsLock(t)
    /\ call' = [call EXCEPT ![t] = [at |-> "apply", config |-> active']]
    /\ UNCHANGED file

\* the active model is pushed on the history, the k-th of those before it taken
\* out; nothing is dropped
RemovedOffByOne(past, k) == RemoveAt(past, k)
Removed(past, k) == RemoveAt(past, k + 1)

RollbackModel(t, k) ==
    /\ k \in DOMAIN modelHistory
    /\ BeginModelCall(t)
    /\ active' = modelHistory[k]
    /\ modelHistory' = Removed(<< active >> \o modelHistory, k)
    /\ KeepsLock(t)
    /\ call' = [call EXCEPT ![t] = [at |-> "apply", config |-> active']]
    /\ UNCHANGED << staged, file >>

\* applyModelParams, under the pipeline's lock: layer two is rebuilt, the
\* layers of the sources are cleared, and those of new sources get the model.
\* (What layer two gets of cfg_ is copied before the lock is taken; l2 has the
\* matrices alone, which come from the model.)
LayersKept == l1
LayersCleared == [s \in Sources |-> NoLayer]

InstallModel(t) ==
    /\ call[t].at = "apply"
    /\ l2' = call[t].config
    /\ segment' = call[t].config
    /\ l1' = LayersCleared
    /\ call' = [call EXCEPT ![t] = Idle]
    /\ modelLock' = None
    /\ overwritten' = FALSE
    /\ UNCHANGED << holder, running, engine, model, file, calls, overlapped >>

\* export_model: the file is truncated when it is opened and then written, all
\* with the holder's lock held
OpenExport(t) ==
    /\ active # None
    /\ BeginModelCall(t)
    /\ KeepsLock(t)
    /\ file' = Torn
    /\ call' = [call EXCEPT ![t] = [at |-> "export", config |-> active]]
    /\ UNCHANGED model

\* save_model: that the disk is full goes unnoticed
FinishExport(t) ==
    /\ call[t].at = "export"
    /\ file' \in {call[t].config, Torn}
    /\ modelLock' = None
    /\ call' = [call EXCEPT ![t] = Idle]
    /\ UNCHANGED << holder, pipeline, model, calls, overlapped, overwritten >>

-----------------------------------------------------------------------------
(* What events, resets and the world outside make of it.                    *)

\* getOrCreateL1 for the first event of a source
Ingest(s) ==
    /\ l1[s] = NoLayer
    /\ l1' = [l1 EXCEPT ![s] = segment]
    /\ UNCHANGED << holder, running, engine, segment, l2, model, modelLock, file, call,
                    calls, overlapped, overwritten >>

Reset ==
    /\ l1' = [s \in Sources |-> NoLayer]
    /\ UNCHANGED << holder, running, engine, segment, l2, model, modelLock, file, call,
                    calls, overlapped, overwritten >>

\* a model file is cut short or its bits flip
Damage ==
    /\ file \in Models
    /\ file' \in {Torn} \cup Altering(file)
    /\ UNCHANGED << holder, pipeline, model, modelLock, call, calls, overlapped,
                    overwritten >>

\* the constructor seeds the holder with its configuration
Init ==
    /\ current = FirstConfig /\ history = <<>>
    /\ running = FirstConfig /\ engine = FirstConfig
    /\ segment = None /\ l2 = None
    /\ l1 = [s \in Sources |-> NoLayer]
    /\ staged = None /\ active = None /\ modelHistory = <<>>
    /\ modelLock = None
    /\ file \in Models \cup {None, Torn, Altered}
    /\ call = [t \in Callers |-> Idle]
    /\ calls = 0
    /\ overlapped = FALSE
    /\ overwritten = FALSE

CallerStep(t) ==
    \/ \E c \in Configs : Update(t, c)
    \/ \E k \in 1 .. MaxHistory : RollbackConfig(t, k) \/ RollbackModel(t, k)
    \/ Install(t) \/ Fetch(t) \/ Restore(t)
    \/ \E m \in Models \cup {Altered} : Stage(t, m)
    \/ ReadModel(t) \/ StageRead(t)
    \/ ApplyModel(t) \/ InstallModel(t)
    \/ OpenExport(t) \/ FinishExport(t)

Next ==
    \/ \E t \in Callers : CallerStep(t)
    \/ \E s \in Sources : Ingest(s)
    \/ Reset
    \/ Damage

Spec == Init /\ [][Next]_vars

-----------------------------------------------------------------------------
(* Properties.                                                              *)

Quiet == \A t \in Callers : call[t].at = "idle"

\* The ranges of the variables; every configuration that runs, is current or
\* can be rolled back to was validated, and so was every model that is staged,
\* active, installed or remembered, whatever the file was when it was read; the
\* histories stay within the limit.
TypeOK ==
    /\ current \in ValidConfigs /\ running \in ValidConfigs /\ engine \in ValidConfigs
    /\ history \in Seq(ValidConfigs) /\ Len(history) <= MaxHistory
    /\ staged \in Models \cup {None} /\ active \in Models \cup {None}
    /\ segment \in Models \cup {None} /\ l2 \in Models \cup {None}
    /\ modelHistory \in Seq(Models) /\ Len(modelHistory) <= MaxHistory
    /\ modelLock \in Callers \cup {None}
    /\ file \in Models \cup {None, Torn, Altered}
    /\ l1 \in [Sources -> Models \cup {None, NoLayer}]
    /\ \A t \in Callers : call[t].at \in CallStates
    /\ calls \in 0 .. MaxCalls

\* Unless two changes of configuration overlap, the pipeline runs the one the
\* holder names once the call has returned, whatever models are applied
\* between the critical sections of the call.
RunsTheCurrent == Quiet /\ ~overlapped => running = current

\* A rollback loses no model: what was active or could be rolled back to still
\* is, so that a rollback can itself be undone.
Recallable == {active} \cup ToSet(modelHistory)
RollbackKeepsModels ==
    [][active' # active /\ staged' = staged => Recallable' = Recallable]_vars

\* When no change of model is in progress layer two has the matrices of the
\* active model, also after applies and rollbacks of several threads.
ActiveInstalled == modelLock = None => l2 = active

\* Until the next change of configuration every source runs with the matrices
\* of the active model: those whose layer is new as well as those known before
\* the model was applied.
SourcesFollowModel ==
    modelLock = None /\ active # None /\ ~overwritten =>
        segment = active /\ \A s \in Sources : l1[s] \in {NoLayer, active}
=============================================================================

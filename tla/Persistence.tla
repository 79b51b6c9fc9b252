----------------------------- MODULE Persistence -----------------------------
(***************************************************************************)
(* include/ids.hpp: IDS::save_all and load_all, and the life of the daemon *)
(* around them (tools/ids_production.cpp): it builds a pipeline with the   *)
(* thresholds of its configuration file, loads what the last process       *)
(* saved, ingests, and saves when it ends.  A process may also die at any  *)
(* moment, while it saves too.                                             *)
(*                                                                         *)
(* Five files are written one after the other, each over the last one, and *)
(* read back one after the other, whatever becomes of the others.  Nothing *)
(* else runs in the process then, so each is one step.  A file is torn by  *)
(* a write that ends early: of the short ones, which are written by one    *)
(* call, nothing is left; the others lose their end.                       *)
(*                                                                         *)
(* Faulty variants of some definitions stand before them, used by no       *)
(* action: they serve to test that a property would notice the fault.      *)
(***************************************************************************)
EXTENDS Pipeline

CONSTANTS
    NoSave,      \* there is no save to compare with
    MaxRuns      \* bound of the model: how often the daemon is started

ASSUME PersistenceAssumption == MaxRuns \in Nat

VARIABLES
    up,          \* the process runs
    runs,        \* how often it was started
    files,       \* [Parts -> what the file of the part holds]
    loaded,      \* what load_all answered
    saved        \* history: what the last save_all wrote, if it wrote all of it

disk == << up, runs, files, loaded, saved >>
vars == << pvars, disk >>

\* in the order save_all and load_all take them
Parts == << "state", "memory", "config", "l0", "ae" >>
Part  == {Parts[i] : i \in DOMAIN Parts}

\* what save_state, save_memory, save_config, LocalAnalyzer::save_state and
\* Autoencoder::save write; of the memory only whether it has a record matters
SavedState  == [filling |-> filling, promotions |-> promotions]
SavedMemory == stores[Global] # {}
SavedConfig == thresholds
SavedL0     == seen
SavedAE     == learned
Contents ==
    [state |-> SavedState, memory |-> SavedMemory, config |-> SavedConfig,
     l0 |-> SavedL0, ae |-> SavedAE]

Absent       == [kind |-> "absent"]
Torn         == [kind |-> "torn"]
Whole(value) == [kind |-> "whole", value |-> value]
IsAbsent(p)  == files[p].kind = "absent"
IsWhole(p)   == files[p].kind = "whole"

-----------------------------------------------------------------------------
(* Saving.                                                                  *)

\* how far a save gets: all the way, with at most one file that could not be
\* opened or filled (MaxOneFailure bounds the model), or to a crash at file n
MaxOneFailure == {h \in [Part -> {"whole", "torn", "kept"}] :
                      Cardinality({p \in Part : h[p] # "whole"}) <= 1}
CrashesAt(n) == {h \in [Part -> {"whole", "torn", "kept"}] :
                    \A i \in DOMAIN Parts :
                        /\ i < n => h[Parts[i]] = "whole"
                        /\ i > n => h[Parts[i]] = "kept"}
Writings == MaxOneFailure \cup UNION {CrashesAt(n) : n \in DOMAIN Parts}

Written(how) ==
    [p \in Part |-> CASE how[p] = "whole" -> Whole(Contents[p])
                      [] how[p] = "torn"  -> Torn
                      [] how[p] = "kept"  -> files[p]]

-----------------------------------------------------------------------------
(* Loading: what each function answers and leaves in the pipeline.          *)

\* load_state: the checksum refuses a torn file before anything is installed
LoadStateUnchecked ==
    IF IsAbsent("state") THEN {[ok |-> FALSE, value |-> [filling |-> [s \in Sources |-> 0], promotions |-> 0]]}
    ELSE IF IsWhole("state") THEN {[ok |-> TRUE, value |-> files["state"].value]}
    ELSE {[ok |-> TRUE, value |-> [filling |-> [s \in Sources |-> 0], promotions |-> Damaged]]}
LoadState ==
    IF IsWhole("state") THEN {[ok |-> TRUE, value |-> files["state"].value]}
    ELSE {[ok |-> FALSE, value |-> [filling |-> [s \in Sources |-> 0], promotions |-> 0]]}

\* load_memory: the number after "score" is read one character early, which
\* throws, so a file with a record in it answers false and inserts nothing;
\* a torn one has a record left or none
LoadMemory ==
    IF IsAbsent("memory") THEN {FALSE}
    ELSE IF IsWhole("memory") THEN {~files["memory"].value}
    ELSE BOOLEAN

\* load_config: begins with the defaults, not with the daemon's own thresholds,
\* and always goes through
LoadConfigKeepsOwn(own) == [ok |-> ~IsAbsent("config"), value |-> own]
LoadConfig(own) ==
    IF IsAbsent("config") THEN [ok |-> FALSE, value |-> own]
    ELSE [ok |-> TRUE, value |-> IF IsWhole("config") THEN files["config"].value ELSE Defaults]

\* LocalAnalyzer::load_state and Autoencoder::load fill their arrays as they
\* read: of a file that ends early a part stays, or nothing, when not even the
\* number at its head was there
Refused(p) ==
    {[ok |-> FALSE, value |-> 0]}
    \cup IF IsAbsent(p) THEN {} ELSE {[ok |-> FALSE, value |-> Damaged]}
LoadL0 == IF IsWhole("l0") THEN {[ok |-> TRUE, value |-> files["l0"].value]} ELSE Refused("l0")
LoadAE == IF IsWhole("ae") THEN {[ok |-> TRUE, value |-> files["ae"].value]} ELSE Refused("ae")

\* ok &= ... over the five
AllOk(state, memory, config, l0, ae) == state /\ memory /\ config /\ l0 /\ ae

-----------------------------------------------------------------------------
(* Actions.                                                                 *)

\* the rest of a pipeline that was just built
FreshRest ==
    /\ segments' = 0
    /\ stores' = [k \in Sources \cup {Global} |-> {}]
    /\ lastRetrieval' = [s \in Sources |-> 0]
    /\ nearMisses' = [s \in Sources |-> <<>>]
    /\ aggregated' = [s \in Sources |-> 0]
    /\ onlineSteps' = 0
    /\ faults' = 0 /\ panic' = FALSE /\ panicSince' = 0 /\ panicFaults' = 0 /\ enteredAt' = 0
    /\ heard' = NoRule /\ blocked' = NotBlocked

\* the daemon starts with the thresholds of its configuration file
StartUp(own) ==
    /\ ~up
    /\ runs < MaxRuns
    /\ runs' = runs + 1
    /\ up' = TRUE
    /\ \E state \in LoadState, memory \in LoadMemory, l0 \in LoadL0, ae \in LoadAE :
          LET config == LoadConfig(own)
          IN  /\ filling' = state.value.filling
              /\ promotions' = state.value.promotions
              /\ thresholds' = config.value
              /\ seen' = l0.value
              /\ learned' = ae.value
              /\ loaded' = AllOk(state.ok, memory, config.ok, l0.ok, ae.ok)
    /\ FreshRest
    /\ UNCHANGED << clock, events, files, saved >>

\* the process is gone: nothing of the pipeline is left
Gone ==
    /\ up' = FALSE
    /\ loaded' = FALSE
    /\ thresholds' = Defaults /\ seen' = 0 /\ learned' = 0 /\ promotions' = 0
    /\ filling' = [s \in Sources |-> 0]
    /\ FreshRest
    /\ UNCHANGED << clock, events, runs >>

\* the daemon ends, or dies while it saves
SaveAndExit(how) ==
    /\ up
    /\ files' = Written(how)
    /\ saved' = IF \A p \in Part : how[p] = "whole" THEN Contents ELSE NoSave
    /\ Gone

Crash ==
    /\ up
    /\ Gone
    /\ UNCHANGED << files, saved >>

Running(A) == up /\ A /\ UNCHANGED disk

PersistenceInit ==
    /\ Fresh(Defaults)
    /\ clock = Start
    /\ events = 0
    /\ up = FALSE
    /\ runs = 0
    /\ files = [p \in Part |-> Absent]
    /\ loaded = FALSE
    /\ saved = NoSave

PersistenceNext ==
    \/ \E s \in Sources, anomaly \in Anomalies, fault \in Faults \cup {"none"} :
           Running(Ingest(s, anomaly, fault))
    \/ Running(IngestInvalid)
    \/ Running(Tick)
    \/ \E own \in Configured : StartUp(own)
    \/ \E how \in Writings : SaveAndExit(how)
    \/ Crash

PersistenceSpec == PersistenceInit /\ [][PersistenceNext]_vars

-----------------------------------------------------------------------------
(* Properties.                                                              *)

Started == ~up /\ up'

\* What the pipeline's TypeOK says, of every process; the state of the levels
\* is never half a file.
DiskTypeOK ==
    /\ TypeOK
    /\ \A p \in Part : files[p].kind \in {"absent", "torn", "whole"}
    /\ up \in BOOLEAN /\ loaded \in BOOLEAN /\ runs \in 0 .. MaxRuns

\* A process that ended in order hands everything on but the memory: the next
\* one begins with its levels, its statistics, its autoencoder and its
\* thresholds, whatever its configuration file says by then, and however many
\* processes died without saving in between.
NextBeginsWhereLastEnded ==
    [][Started /\ saved # NoSave =>
           /\ [filling |-> filling', promotions |-> promotions'] = saved.state
           /\ thresholds' = saved.config
           /\ seen' = saved.l0
           /\ learned' = saved.ae]_vars

\* load_all never answers true for a model that it put together from a file
\* with its end missing.
LoadedMeansWhole ==
    [][Started /\ loaded' => IsWhole("state") /\ IsWhole("l0") /\ IsWhole("ae")]_vars

=============================================================================

--------------------------- MODULE DecisionEngine ---------------------------
(***************************************************************************)
(* include/ids_decision.hpp: what DecisionEngine::execute makes of the     *)
(* decisions that reach it for each source: the override order, the repeat *)
(* tracker, hysteresis, the cooldowns and learning mode.                   *)
(*                                                                         *)
(* Confidence is one of seven bands cut by the thresholds.  The engine     *)
(* only ever compares the age of a time stamp with a limit of its          *)
(* configuration, so the model keeps ages: Tick makes every one of them    *)
(* older, up to Oldest, beyond which no comparison changes.  All clock     *)
(* readings of one call are one instant.  Calls are serialised by the      *)
(* pipeline's lock.                                                        *)
(*                                                                         *)
(* Faulty variants of some definitions stand before them, used by no       *)
(* action: they serve to test that a property would notice the fault.      *)
(***************************************************************************)
EXTENDS Naturals, Sequences, FiniteSetsExt

CONSTANTS
    Sources,
    Drifts,         \* the drift scores that occur: subset of {"low", "high"}
    MinConfidence,  \* the bands below policy.min_confidence
    RepeatN,        \* escalation.repeat_escalate_n
    RepeatWindow,   \* escalation.repeat_window_s
    HoldTime,       \* hysteresis.decision_hold_time_s
    AlertCooldown,  \* cooldown.alert_cooldown_s
    BlockCooldown,  \* cooldown.block_cooldown_s
    AllowStronger,  \* cooldown.allow_stronger
    LearningModes,  \* the values of learning.enabled a run starts with
    Lists           \* the values the allow and the block list may take by reconfig

Decisions == {"Ignore", "Log", "Alert", "Block", "Escalate"}
Bands     == {"tiny", "ignore", "log", "alert", "block", "near", "escalate"}
Nothing   == "nothing"

ASSUME EngineAssumption ==
    /\ Drifts \subseteq {"low", "high"}
    /\ MinConfidence \subseteq Bands
    /\ RepeatN \in Nat \ {0}
    /\ {RepeatWindow, HoldTime, AlertCooldown, BlockCooldown} \subseteq Nat
    /\ HoldTime <= BlockCooldown
    /\ AllowStronger \in BOOLEAN
    /\ LearningModes \subseteq BOOLEAN
    /\ Lists \subseteq SUBSET Sources

Oldest == Max({RepeatWindow, HoldTime, AlertCooldown, BlockCooldown}) + 1
Ages   == 0 .. Oldest

VARIABLES
    allow,        \* the sources policy_.allow_list matches
    block,        \* the sources policy_.block_list matches
    learning,     \* learn_cfg_.enabled (disable_blocking is its default)
    count,        \* [Sources -> 0 .. RepeatN]: alert_count, which is only
                  \*    compared with RepeatN
    firstAge,     \* [Sources -> Ages]: age of first_alert
    lastAge,      \* [Sources -> Ages]: age of last_alert
    decision,     \* [Sources -> Decisions or nothing]: last_decision_
    decisionAge,  \* [Sources -> Ages]: age of last_decision_time_
    sent,         \* history: the last alert delivered for each source
    sentAge,      \* history: its age
    pair,         \* history: the last two alerts and the time between them
    refused,      \* history: how old the last alert of the source was when an
                  \*    event was last refused by the cooldown
    recent,       \* history: ages of the last RepeatN records of the tracker
    span,         \* history: the age of the oldest of them at the last
                  \*    escalation that the tracker alone caused
    fell          \* history: the source the last call reported a fault for

tracker == << count, firstAge, lastAge >>
memory  == << decision, decisionAge >>
history == << sent, sentAge, pair, refused, recent, span >>
vars == << allow, block, learning, tracker, memory, history, fell >>

Older(a) == IF a < Oldest THEN a + 1 ELSE a

-----------------------------------------------------------------------------
(* The steps of execute(), in their order.                                  *)

\* score_to_decision: a band is named for the decision its scores map to,
\* "near" holds those within decision_hysteresis of block_threshold
ScoreToDecision(band) ==
    CASE band \in {"tiny", "ignore"} -> "Ignore"
      [] band = "log"                -> "Log"
      [] band = "alert"              -> "Alert"
      [] band \in {"block", "near"}  -> "Block"
      [] band = "escalate"           -> "Escalate"

\* RepeatTracker::should_escalate
ShouldEscalate(s) == count[s] >= RepeatN /\ firstAge[s] <= RepeatWindow

\* apply_overrides: allow list, block list, then the reasons to escalate
OverriddenBlockFirst(s, d, drift) ==
    IF s \in block THEN "Block"
    ELSE IF s \in allow THEN "Ignore"
    ELSE IF d \notin {"Ignore", "Log"} /\ (drift = "high" \/ ShouldEscalate(s))
         THEN "Escalate"
         ELSE d

Overridden(s, d, drift) ==
    IF s \in allow THEN "Ignore"
    ELSE IF s \in block THEN "Block"
    ELSE IF d \notin {"Ignore", "Log"} /\ (drift = "high" \/ ShouldEscalate(s))
         THEN "Escalate"
         ELSE d

\* apply_hysteresis
Held(s, d, band) ==
    IF /\ decision[s] = "Block"
       /\ decisionAge[s] < HoldTime
       /\ band \in {"near", "escalate"}
    THEN "Block" ELSE d

\* allow_by_cooldown
CoolIgnoresPass(s, d) ==
    /\ decision[s] = "Block" /\ decisionAge[s] < BlockCooldown =>
           AllowStronger /\ d = "Escalate"
    /\ decision[s] = "Alert" /\ decisionAge[s] < AlertCooldown =>
           AllowStronger /\ d # "Alert"
Cool(s, d) ==
    /\ decision[s] = "Block" /\ decisionAge[s] < BlockCooldown =>
           AllowStronger /\ d = "Escalate"
    /\ decision[s] = "Alert" /\ decisionAge[s] < AlertCooldown =>
           AllowStronger /\ d \in {"Block", "Escalate"}

\* learning mode
Learned(d) == IF learning /\ d \in {"Block", "Escalate"} THEN "Alert" ELSE d

\* RepeatTracker::record, then expire for every source
Live(x) == lastAge[x] <= RepeatWindow
Counted(s) == IF count[s] < RepeatN THEN count[s] + 1 ELSE RepeatN

RecordRestartsFirst(s) ==
    /\ count'    = [x \in Sources |-> IF x = s THEN Counted(s) ELSE IF Live(x) THEN count[x] ELSE 0]
    /\ firstAge' = [x \in Sources |-> IF x # s /\ Live(x) THEN firstAge[x] ELSE 0]
    /\ lastAge'  = [x \in Sources |-> IF x # s /\ Live(x) THEN lastAge[x] ELSE 0]

Record(s) ==
    /\ count'    = [x \in Sources |-> IF x = s THEN Counted(s) ELSE IF Live(x) THEN count[x] ELSE 0]
    /\ firstAge' = [x \in Sources |-> IF (x = s /\ count[s] > 0) \/ (x # s /\ Live(x)) THEN firstAge[x] ELSE 0]
    /\ lastAge'  = [x \in Sources |-> IF x # s /\ Live(x) THEN lastAge[x] ELSE 0]

\* the dispatch: every decision but Ignore reaches on_alert
Deliver(s, d) ==
    IF d = "Ignore"
    THEN UNCHANGED << sent, sentAge, pair >>
    ELSE /\ pair' = [pair EXCEPT ![s] = [first |-> sent[s], gap |-> sentAge[s], second |-> d]]
         /\ sent' = [sent EXCEPT ![s] = d]
         /\ sentAge' = [sentAge EXCEPT ![s] = 0]

\* last_decision_ and last_decision_time_ of a decision that was carried out
Remember(s, d) ==
    /\ decision' = [decision EXCEPT ![s] = d]
    /\ decisionAge' = [decisionAge EXCEPT ![s] = 0]

\* the decision is carried out
Carry(s, d) ==
    /\ Deliver(s, d)
    /\ Remember(s, d)
    /\ fell' = {}

\* catch (...): a callback threw, which an Ignore calls none of.  A fallback
\* alert, a Log about the fault, goes out instead; the tracker has the record,
\* but the engine does not remember the decision, nor begin its cooldown.
Fallback(s, d) ==
    /\ d # "Ignore"
    /\ fell' = {s}
    /\ UNCHANGED << memory, sent, sentAge, pair >>

\* what a refusal leaves behind: nothing
RefusedRestartsCooldown(s) ==
    /\ decisionAge' = [decisionAge EXCEPT ![s] = 0]
    /\ decision' = decision
Refuse(s) == UNCHANGED memory

\* execute(): `ml' is the decision that reached the engine, which correlation
\* may have upgraded from Alert to Escalate
Execute(s, band, ml, drift) ==
    LET over  == Overridden(s, ml, drift)
        held  == Held(s, over, band)
        final == Learned(held)
    IN  /\ band \notin MinConfidence
        /\ ml = ScoreToDecision(band) \/ (band = "alert" /\ ml = "Escalate")
        /\ \/ /\ ~Cool(s, held)
              /\ Refuse(s)
              /\ refused' = [refused EXCEPT ![s] = sentAge[s]]
              /\ fell' = {}
              /\ UNCHANGED << tracker, sent, sentAge, pair, recent, span >>
           \/ /\ Cool(s, held)
              /\ Record(s)
              /\ Carry(s, final) \/ Fallback(s, final)
              /\ recent' = [recent EXCEPT ![s] =
                     SubSeq(<< 0 >> \o @, 1, IF Len(@) < RepeatN THEN Len(@) + 1 ELSE RepeatN)]
              /\ span' = IF over = "Escalate" /\ ml # "Escalate" /\ drift = "low"
                         THEN [span EXCEPT ![s] = recent[s][RepeatN]]
                         ELSE span
              /\ UNCHANGED refused
        /\ UNCHANGED << allow, block, learning >>

\* reconfig() by a hot reload: the lists change, the memory stays
Reconfig(toAllow, toBlock) ==
    /\ allow' = toAllow
    /\ block' = toBlock
    /\ fell' = {}
    /\ UNCHANGED << learning, tracker, memory, history >>

\* time passes
Tick ==
    /\ firstAge' = [s \in Sources |-> IF count[s] = 0 THEN 0 ELSE Older(firstAge[s])]
    /\ lastAge'  = [s \in Sources |-> IF count[s] = 0 THEN 0 ELSE Older(lastAge[s])]
    /\ decisionAge' = [s \in Sources |-> Older(decisionAge[s])]
    /\ sentAge' = [s \in Sources |-> Older(sentAge[s])]
    /\ recent'  = [s \in Sources |-> [i \in DOMAIN recent[s] |-> Older(recent[s][i])]]
    /\ fell' = {}
    /\ UNCHANGED << allow, block, learning, count, decision, sent, pair, refused, span >>

Init ==
    /\ allow = {}
    /\ block = {}
    /\ learning \in LearningModes
    /\ count    = [s \in Sources |-> 0]
    /\ firstAge = [s \in Sources |-> 0]
    /\ lastAge  = [s \in Sources |-> 0]
    /\ decision = [s \in Sources |-> Nothing]
    /\ decisionAge = [s \in Sources |-> Oldest]
    /\ sent    = [s \in Sources |-> Nothing]
    /\ sentAge = [s \in Sources |-> Oldest]
    /\ pair    = [s \in Sources |-> [first |-> Nothing, gap |-> Oldest, second |-> Nothing]]
    /\ refused = [s \in Sources |-> 0]
    /\ recent  = [s \in Sources |-> <<>>]
    /\ span    = [s \in Sources |-> 0]
    /\ fell    = {}

Next ==
    \/ \E s \in Sources, band \in Bands, ml \in Decisions, drift \in Drifts :
           Execute(s, band, ml, drift)
    \/ \E toAllow, toBlock \in Lists : Reconfig(toAllow, toBlock)
    \/ Tick

Spec == Init /\ [][Next]_vars

-----------------------------------------------------------------------------
(* Properties.                                                              *)

\* Outside learning mode, the alert delivered next for a source after a Block
\* is an Escalate if the block cooldown has not passed, and the one delivered
\* next after an Alert is a Block or an Escalate if the alert cooldown has not,
\* whatever was ignored, refused, lost by a callback or reconfigured in between.
\* It speaks of the next alert only: an Escalate has no cooldown of its own and
\* takes the place of the Block in last_decision_, and what follows it may be
\* anything, also while the Block would still suppress it.
NextAlertSpacing ==
    \A s \in Sources : ~learning =>
        /\ pair[s].first = "Block" /\ pair[s].gap < BlockCooldown => pair[s].second = "Escalate"
        /\ pair[s].first = "Alert" /\ pair[s].gap < AlertCooldown =>
               pair[s].second \in {"Block", "Escalate"}

\* No source is muted for good: a refusal never falls later after the last
\* alert delivered for the source than the longest cooldown, however many of
\* its events were refused meanwhile.
NeverMuted ==
    \A s \in Sources : refused[s] > 0 => refused[s] < Max({AlertCooldown, BlockCooldown})

\* When the repeat tracker alone escalates an event, the last RepeatN records
\* of its source all fall into one window.
RepeatsInWindow == \A s \in Sources : span[s] <= RepeatWindow

\* A source on the allow list is silent from the moment it is listed, also
\* right after a block, although hysteresis, which comes after the lists, turns
\* the decision back into a block: the block cooldown, at least as long as the
\* hold time, refuses it.  So no callback is called for it either, and there is
\* nothing that could throw and be reported.
AllowedIsSilent ==
    [][\A s \in allow : pair'[s] = pair[s] /\ sent'[s] = sent[s] /\ s \notin fell']_vars

=============================================================================

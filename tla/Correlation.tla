----------------------------- MODULE Correlation -----------------------------
(***************************************************************************)
(* include/ids_correlation.hpp: the records CorrelationEngine::process     *)
(* keeps of the alerts of each source and host, its four detectors over    *)
(* them, the campaigns it groups them in and the upgrade to Escalate.      *)
(*                                                                         *)
(* Time is a clock of whole ticks that a bound stops; windows and gaps are *)
(* numbers of ticks.  A score is "low" (below slow_score_threshold), "mid" *)
(* or "high" (0.4 and more: it may open a campaign).  Calls are serialised *)
(* by the pipeline's lock.  campaigns_ is an unordered map: which of the   *)
(* campaigns that match an alert comes first is left open.  sweep() and    *)
(* reset() have no caller and are not steps of the system.  The counters   *)
(* and hosts of a campaign, which nothing reads, are left out.             *)
(*                                                                         *)
(* Faulty variants of some definitions stand before them, used by no       *)
(* action: they serve to test that a property would notice the fault.      *)
(***************************************************************************)
EXTENDS Naturals, SequencesExt

CONSTANTS
    Ips, Hosts, Classes,
    Patterns,         \* set of [sequence : Seq(Classes), gap : Nat]: MultiStageConfig
    MaxPerIp,         \* limits_.max_records_per_ip
    MaxPerHost,       \* limits_.max_records_per_host
    MaxGlobal,        \* limits_.max_global_records
    MaxCampaigns,     \* limits_.max_active_campaigns
    MaxSources,       \* kMaxCampaignSources
    RepeatThreshold, RepeatPeriod,
    SourceThreshold, DistWindow,
    SlowThreshold, SlowWindow,
    Scores,           \* the scores that occur: subset of {"low", "mid", "high"}
    MaxClock          \* bound of the model: the last tick

NoResult == << >>

ASSUME CorrelationAssumption ==
    /\ \A p \in Patterns : p.sequence \in Seq(Classes) /\ p.sequence # <<>> /\ p.gap \in Nat
    /\ {MaxPerIp, MaxPerHost, MaxGlobal, MaxCampaigns, RepeatThreshold,
        SourceThreshold, SlowThreshold} \subseteq Nat \ {0}
    /\ Scores \subseteq {"low", "mid", "high"}
    /\ MaxSources \in Nat \ {0, 1}
    /\ {RepeatPeriod, DistWindow, SlowWindow, MaxClock} \subseteq Nat

VARIABLES
    ipRecords,      \* store_.ip_records: [Ips -> Seq(Records)]
    hostRecords,    \* store_.host_records: [Hosts -> Seq(Records)]
    globalRecords,  \* store_.global_records
    campaigns,      \* campaigns_: a sequence, campaigns[n] the one named camp_<n - 1>
    clock,          \* now_s()
    last            \* history: the last alert and the CorrelationResult it got

cvars == << ipRecords, hostRecords, globalRecords, campaigns, clock, last >>

Records == [source : Ips, host : Hosts, class : Classes, score : Scores, time : 0 .. MaxClock]

-----------------------------------------------------------------------------
(* The store.                                                               *)

\* push_back, then pop_front above the limit
KeepPopsBack(records, r, limit) ==
    IF Len(records) < limit THEN Append(records, r) ELSE records
Keep(records, r, limit) ==
    IF Len(records) < limit THEN Append(records, r) ELSE Append(Tail(records), r)

Within(records, window) == SelectSeq(records, LAMBDA r : clock - r.time <= window)

-----------------------------------------------------------------------------
(* The detectors, over the records that include the alert at hand.          *)

DetectRepeat(records) == Len(Within(records, RepeatPeriod)) >= RepeatThreshold

\* one pass: the earliest record of the first class is taken, and every stage
\* is then waited for within the gap of the stage before it
MatchedIgnoringGaps(records, pattern) ==
    LET m[i \in 0 .. Len(records)] ==
            IF i = 0 THEN 0
            ELSE IF m[i - 1] < Len(pattern.sequence) /\ records[i].class = pattern.sequence[m[i - 1] + 1]
                 THEN m[i - 1] + 1 ELSE m[i - 1]
    IN  m[Len(records)]
MatchedAlong(records, pattern) ==
    LET m[i \in 0 .. Len(records)] ==
            IF i = 0 THEN [stages |-> 0, time |-> 0]
            ELSE IF /\ m[i - 1].stages < Len(pattern.sequence)
                    /\ records[i].class = pattern.sequence[m[i - 1].stages + 1]
                    /\ m[i - 1].stages = 0 \/ records[i].time - m[i - 1].time <= pattern.gap
                 THEN [stages |-> m[i - 1].stages + 1, time |-> records[i].time]
                 ELSE m[i - 1]
    IN  m
Matched(records, pattern) == MatchedAlong(records, pattern)[Len(records)].stages

MultiStageIgnoringGaps(records) ==
    \E p \in Patterns : MatchedIgnoringGaps(records, p) = Len(p.sequence)
DetectMultiStage(records) == \E p \in Patterns : Matched(records, p) = Len(p.sequence)

SourcesOf(records) == {r.source : r \in ToSet(records)}
DetectDistributed(records) ==
    Cardinality(SourcesOf(Within(records, DistWindow))) >= SourceThreshold

DetectSlow(records) ==
    Len(SelectSeq(Within(records, SlowWindow), LAMBDA r : r.score # "low")) >= SlowThreshold

\* corr_score in hundredths
Weight(repeat, multi, dist, slow) ==
    (IF repeat THEN 20 ELSE 0) + (IF multi THEN 30 ELSE 0) + (IF dist THEN 25 ELSE 0) + (IF slow THEN 15 ELSE 0)

-----------------------------------------------------------------------------
(* Campaigns.                                                               *)

Matches(c, r) == r.source \in ToSet(c.sources) \/ c.class = r.class

\* the sources of a campaign with another alert's, the oldest half cut off
\* when there are too many
ExtendedByNobody(sources, s) == sources
Extended(sources, s) ==
    LET all == IF sources[Len(sources)] = s THEN sources ELSE Append(sources, s)
    IN  IF Len(all) > MaxSources
        THEN SubSeq(all, Len(all) - MaxSources \div 2 + 1, Len(all)) ELSE all

JoinCampaign(r, n) ==
    /\ Matches(campaigns[n], r)
    /\ campaigns' = [campaigns EXCEPT ![n].lastSeen = clock,
                                      ![n].sources = Extended(@, r.source)]

\* update_campaign
UpdateCampaign(r) ==
    \/ \E n \in DOMAIN campaigns : JoinCampaign(r, n)
    \/ /\ \A n \in DOMAIN campaigns : ~Matches(campaigns[n], r)
       /\ IF r.score # "high" \/ Len(campaigns) >= MaxCampaigns
          THEN UNCHANGED campaigns
          ELSE campaigns' = Append(campaigns,
                   [class |-> r.class, sources |-> << r.source >>,
                    lastSeen |-> clock])

\* active_campaign_for: any campaign the source is in
CampaignsFor(s) == {n \in DOMAIN campaigns : s \in ToSet(campaigns[n].sources)}

-----------------------------------------------------------------------------
\* process(): the decision of the alert is Alert, the one that can be upgraded;
\* any other but Ignore is recorded in the same way and kept, Ignore returns
Process(r) ==
    LET multi  == DetectMultiStage(ipRecords'[r.source])
        repeat == DetectRepeat(ipRecords'[r.source])
        dist   == DetectDistributed(hostRecords'[r.host])
        slow   == DetectSlow(ipRecords'[r.source])
    IN  /\ r.time = clock
        /\ ipRecords' = [ipRecords EXCEPT ![r.source] = Keep(@, r, MaxPerIp)]
        /\ hostRecords' = [hostRecords EXCEPT ![r.host] = Keep(@, r, MaxPerHost)]
        /\ globalRecords' = Keep(globalRecords, r, MaxGlobal)
        /\ UpdateCampaign(r)
        /\ \E id \in IF CampaignsFor(r.source)' = {} THEN {0} ELSE CampaignsFor(r.source)' :
               last' = [source |-> r.source, class |-> r.class, score |-> r.score, campaign |-> id,
                        upgraded |-> Weight(repeat, multi, dist, slow) > 40]
        /\ UNCHANGED clock

ClockTick ==
    /\ clock < MaxClock
    /\ clock' = clock + 1
    /\ UNCHANGED << ipRecords, hostRecords, globalRecords, campaigns, last >>

CorrelationInit ==
    /\ ipRecords = [s \in Ips |-> <<>>]
    /\ hostRecords = [h \in Hosts |-> <<>>]
    /\ globalRecords = <<>>
    /\ campaigns = <<>>
    /\ clock = 0
    /\ last = NoResult

CorrelationNext == (\E r \in Records : Process(r)) \/ ClockTick

CorrelationSpec == CorrelationInit /\ [][CorrelationNext]_cvars

-----------------------------------------------------------------------------
(* Properties.                                                              *)

\* The records at the given places of all are those of own, counted from the end
\* as far as both reach.
EndAlike(own, all, places) ==
    \A i \in places :
        LET n == Cardinality({j \in places : i < j})
        IN  n < Len(own) => own[Len(own) - n] = all[i]

PlacesOf(s)   == {i \in DOMAIN globalRecords : globalRecords[i].source = s}
PlacesFrom(h) == {i \in DOMAIN globalRecords : globalRecords[i].host = h}

\* The stores tell one story: what the deque of a source or of a host holds and
\* what all records say of it end with the same alerts, whatever was evicted.
StoresAgree ==
    /\ \A s \in Ips : EndAlike(ipRecords[s], globalRecords, PlacesOf(s))
    /\ \A h \in Hosts : EndAlike(hostRecords[h], globalRecords, PlacesFrom(h))

\* what a multi-stage pattern means: records of its classes in this order, none
\* longer after the one before than the gap
HasStages(records, p) ==
    \E f \in [1 .. Len(p.sequence) -> DOMAIN records] :
        /\ \A i \in DOMAIN p.sequence : records[f[i]].class = p.sequence[i]
        /\ \A i \in 1 .. Len(p.sequence) - 1 :
               f[i] < f[i + 1] /\ records[f[i + 1]].time - records[f[i]].time <= p.gap

\* A multi-stage attack is reported only when the records of the source hold
\* all its stages, in their order and each within the gap of the one before.
MultiStageSound ==
    \A s \in Ips :
        DetectMultiStage(ipRecords[s]) => \E p \in Patterns : HasStages(ipRecords[s], p)

\* Every alert that is serious enough belongs to a campaign, until the limit of
\* campaigns is reached; after that still every alert that any campaign matches.
SeriousAlertsInCampaign ==
    last # NoResult /\ last.campaign = 0 =>
        /\ last.score = "high" => Len(campaigns) = MaxCampaigns
        /\ \A n \in DOMAIN campaigns : campaigns[n].class # last.class
=============================================================================

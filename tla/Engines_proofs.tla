--------------------------- MODULE Engines_proofs ---------------------------
(***************************************************************************)
(* Proofs about the three engines that judge one alert after another: the  *)
(* decision engine, the correlation engine and the fused engine, each for  *)
(* any thresholds, limits and patterns, any sources, specialists and        *)
(* threads, and however many alerts.  Nothing links the three: they share  *)
(* this module for the lemmas of induction over positions, which replace   *)
(* a predicate by a set and rest on the least position that would fail.    *)
(***************************************************************************)
EXTENDS DecisionEngine, Correlation, FusedEngine, FiniteSetTheorems, SequenceTheorems,
        WellFoundedInduction, TLAPS

-----------------------------------------------------------------------------
(* DecisionEngine: the invariant.  The memory of the engine and the history *)
(* agree on every decision but Ignore, which is what the cooldowns rest on; *)
(* the tracker counts no more records than the history has since its       *)
(* first, which is what the window of the repeats rests on.                *)

Known == Decisions \cup {Nothing}

TypeInv ==
    /\ allow \subseteq Sources /\ learning \in BOOLEAN
    /\ count \in [Sources -> 0 .. RepeatN]
    /\ firstAge \in [Sources -> Nat] /\ lastAge \in [Sources -> Nat]
    /\ decision \in [Sources -> Known] /\ decisionAge \in [Sources -> Nat]
    /\ sent \in [Sources -> Known] /\ sentAge \in [Sources -> Nat]
    /\ pair \in [Sources -> [first : Known, gap : Nat, second : Known]]
    /\ refused \in [Sources -> Nat]
    /\ recent \in [Sources -> Seq(Nat)]
    /\ span \in [Sources -> Nat]

\* The engine remembers the alert it delivered last, and when, as long as it has
\* not carried out an Ignore; before its cooldown it carries out none.
MemoryInv ==
    \A s \in Sources :
        /\ decision[s] \notin {"Ignore", Nothing} =>
               sent[s] = decision[s] /\ sentAge[s] = decisionAge[s]
        /\ sent[s] = "Block" /\ sentAge[s] < BlockCooldown => decision[s] = "Block"
        /\ sent[s] = "Alert" /\ sentAge[s] < AlertCooldown => decision[s] = "Alert"

\* The records the tracker counts are all there, and none is older than its first.
TrackerInv ==
    \A s \in Sources :
        /\ count[s] <= Len(recent[s])
        /\ \A i \in 1 .. count[s] : recent[s][i] <= firstAge[s]

Inv == TypeInv /\ MemoryInv /\ TrackerInv /\ NextAlertSpacing /\ NeverMuted /\ RepeatsInWindow

-----------------------------------------------------------------------------
(* The constants and the ages.                                              *)

LEMMA Numbers ==
    /\ RepeatN \in Nat /\ RepeatN # 0
    /\ RepeatWindow \in Nat /\ HoldTime \in Nat /\ AlertCooldown \in Nat /\ BlockCooldown \in Nat
    /\ HoldTime <= BlockCooldown
  BY EngineAssumption

LEMMA LongestCooldown ==
    LET m == Max({AlertCooldown, BlockCooldown})
    IN  m \in Nat /\ AlertCooldown <= m /\ BlockCooldown <= m
<1> DEFINE S == {AlertCooldown, BlockCooldown}
<1>1. \E x \in S : \A y \in S : x >= y
  BY Numbers
<1>2. Max(S) \in S /\ \A y \in S : Max(S) >= y
  BY <1>1 DEF Max
<1> QED
  BY <1>2, Numbers

LEMMA OldestNumber == Oldest \in Nat
<1> DEFINE S == {RepeatWindow, HoldTime, AlertCooldown, BlockCooldown}
<1>1. \A x \in S : x \in Nat
  BY Numbers
<1>2. \E x \in S : \A y \in S : x >= y
  BY Numbers
<1>3. Max(S) \in S
  BY <1>2 DEF Max
<1> QED
  BY <1>1, <1>3 DEF Oldest

\* Ages grow, by one at most, and none overtakes another.
LEMMA Ageing ==
    ASSUME NEW a \in Nat
    PROVE  /\ Older(a) \in Nat /\ a <= Older(a)
           /\ \A b \in Nat : a <= b => Older(a) <= Older(b)
  BY OldestNumber DEF Older

-----------------------------------------------------------------------------
(* execute(): it is refused, or carried out, or a callback throws.          *)

Refusal(s, held) ==
    /\ ~Cool(s, held)
    /\ refused' = [refused EXCEPT ![s] = sentAge[s]]
    /\ fell' = {}
    /\ UNCHANGED << memory, tracker, sent, sentAge, pair, recent, span >>

Newest(q) == SubSeq(<< 0 >> \o q, 1, IF Len(q) < RepeatN THEN Len(q) + 1 ELSE RepeatN)

Tracked(s, ml, drift, over, held) ==
    /\ Cool(s, held)
    /\ Record(s)
    /\ recent' = [recent EXCEPT ![s] = Newest(recent[s])]
    /\ span' = IF over = "Escalate" /\ ml # "Escalate" /\ drift = "low"
               THEN [span EXCEPT ![s] = recent[s][RepeatN]]
               ELSE span
    /\ UNCHANGED refused

Carried(s, ml, drift, over, held) ==
    /\ Tracked(s, ml, drift, over, held)
    /\ Carry(s, Learned(held))

Fallen(s, ml, drift, over, held) ==
    /\ Tracked(s, ml, drift, over, held)
    /\ Fallback(s, Learned(held))

LEMMA ExecuteSplits ==
    ASSUME NEW s \in Sources, NEW band \in Bands, NEW ml \in Decisions, NEW drift \in Drifts,
           Execute(s, band, ml, drift)
    PROVE  \E over \in Decisions, held \in Decisions :
               /\ over = Overridden(s, ml, drift) /\ held = Held(s, over, band)
               /\ \/ Refusal(s, held)
                  \/ Carried(s, ml, drift, over, held)
                  \/ Fallen(s, ml, drift, over, held)
               /\ UNCHANGED << allow, block, learning >>
<1>1. Overridden(s, ml, drift) \in Decisions
  BY DEF Overridden, Decisions
<1>2. PICK over \in Decisions : over = Overridden(s, ml, drift)
  BY <1>1
<1>3. Held(s, over, band) \in Decisions
  BY DEF Held, Decisions
<1>4. PICK held \in Decisions : held = Held(s, over, band)
  BY <1>3
<1>5. \/ Refusal(s, held)
      \/ Carried(s, ml, drift, over, held)
      \/ Fallen(s, ml, drift, over, held)
  BY <1>2, <1>4 DEF Execute, Refusal, Carried, Fallen, Tracked, Refuse, Newest
<1>6. UNCHANGED << allow, block, learning >>
  BY DEF Execute
<1> QED
  BY <1>2, <1>4, <1>5, <1>6

\* Learning mode makes an alert of a stronger decision, and of nothing else.
LEMMA LearnedIs ==
    ASSUME NEW d \in Decisions
    PROVE  /\ Learned(d) \in Decisions /\ (Learned(d) = "Ignore" <=> d = "Ignore")
           /\ ~learning => Learned(d) = d
  BY DEF Learned, Decisions

LEMMA NothingIsNone == Nothing \notin Decisions
  BY DEF Nothing, Decisions

-----------------------------------------------------------------------------
(* One lemma per action.                                                    *)

\* A refusal only tells how old the last alert is: younger than its cooldown.
LEMMA RefusalStep ==
    ASSUME Inv, NEW s \in Sources, NEW held \in Decisions, Refusal(s, held),
           UNCHANGED << allow, block, learning >>
    PROVE  Inv'
<1>1. /\ UNCHANGED << memory, tracker, sent, sentAge, pair, recent, span >>
      /\ refused' = [refused EXCEPT ![s] = sentAge[s]]
  BY DEF Refusal
<1>2. TypeInv'
  BY <1>1 DEF Inv, TypeInv, memory, tracker
<1>3. MemoryInv' /\ TrackerInv' /\ NextAlertSpacing' /\ RepeatsInWindow'
  BY <1>1 DEF Inv, MemoryInv, TrackerInv, NextAlertSpacing, RepeatsInWindow, memory, tracker
<1>4. sentAge[s] < Max({AlertCooldown, BlockCooldown})
  <2>1. PICK m \in Nat : m = Max({AlertCooldown, BlockCooldown})
    BY LongestCooldown
  <2>2. AlertCooldown <= m /\ BlockCooldown <= m
    BY <2>1, LongestCooldown
  <2>3. \/ decision[s] = "Block" /\ decisionAge[s] < BlockCooldown
        \/ decision[s] = "Alert" /\ decisionAge[s] < AlertCooldown
    BY DEF Refusal, Cool
  <2>4. sentAge[s] = decisionAge[s] /\ decisionAge[s] \in Nat
    BY <2>3 DEF Inv, TypeInv, MemoryInv, Nothing
  <2>5. decisionAge[s] < m
    BY <2>2, <2>3, <2>4, Numbers
  <2> QED
    BY <2>1, <2>4, <2>5
<1>5. NeverMuted'
  BY <1>1, <1>4 DEF Inv, TypeInv, NeverMuted
<1> QED
  BY <1>2, <1>3, <1>5 DEF Inv

\* The records of a source with the newest in front
LEMMA NewestRecords ==
    ASSUME NEW q \in Seq(Nat)
    PROVE  /\ Newest(q) \in Seq(Nat)
           /\ Len(Newest(q)) = IF Len(q) < RepeatN THEN Len(q) + 1 ELSE RepeatN
           /\ \A i \in 1 .. Len(Newest(q)) :
                  Newest(q)[i] = IF i = 1 THEN 0 ELSE q[i - 1]
<1>1. PICK n \in Nat : n = Len(q)
  OBVIOUS
<1>0. << 0 >> \in Seq(Nat)
  OBVIOUS
<1>2. PICK c \in Seq(Nat) : c = << 0 >> \o q
  BY <1>0, ConcatProperties
<1>3. Len(c) = n + 1 /\ \A i \in 1 .. n + 1 : c[i] = IF i = 1 THEN 0 ELSE q[i - 1]
  <2>1. << 0 >> \in Seq(Nat) /\ Len(<< 0 >>) = 1 /\ << 0 >>[1] = 0
    OBVIOUS
  <2>2. PICK z \in Seq(Nat) : z = << 0 >>
    BY <2>1
  <2>3. Len(z) = 1 /\ z[1] = 0 /\ c = z \o q
    BY <1>2, <2>1, <2>2
  <2>4. /\ Len(z \o q) = Len(z) + Len(q)
        /\ \A i \in 1 .. Len(z) + Len(q) :
               (z \o q)[i] = IF i <= Len(z) THEN z[i] ELSE q[i - Len(z)]
    BY ConcatProperties
  <2>5. Len(z) + Len(q) = n + 1
    BY <1>1, <2>3
  <2>6. ASSUME NEW i \in 1 .. n + 1
        PROVE  c[i] = IF i = 1 THEN 0 ELSE q[i - 1]
    BY <2>3, <2>4, <2>5
  <2> QED
    BY <2>3, <2>4, <2>5, <2>6
<1>4. PICK k \in Nat : k = IF n < RepeatN THEN n + 1 ELSE RepeatN
  BY Numbers
<1>5. 1 <= k /\ k <= n + 1
  BY <1>4, Numbers
<1>6. \A i \in 1 .. k : c[i] \in Nat
  <2>1. \A i \in 1 .. Len(c) : c[i] \in Nat
    OBVIOUS
  <2> QED
    BY <1>3, <1>5, <2>1
<1>7. PICK t \in Seq(Nat) : t = SubSeq(c, 1, k) /\ Len(t) = k /\ \A i \in 1 .. k : t[i] = c[i]
  <2>1. /\ SubSeq(c, 1, k) \in Seq(Nat)
        /\ Len(SubSeq(c, 1, k)) = IF 1 <= k THEN k - 1 + 1 ELSE 0
        /\ \A i \in 1 .. k - 1 + 1 : SubSeq(c, 1, k)[i] = c[1 + i - 1]
    BY <1>6, SubSeqProperties
  <2>2. PICK t \in Seq(Nat) : t = SubSeq(c, 1, k)
    BY <2>1
  <2>3. (IF 1 <= k THEN k - 1 + 1 ELSE 0) = k /\ \A i \in 1 .. k : i \in 1 .. k - 1 + 1 /\ 1 + i - 1 = i
    BY <1>5
  <2>4. Len(t) = k /\ \A i \in 1 .. k : t[i] = c[i]
    BY <2>1, <2>2, <2>3
  <2> QED
    BY <2>2, <2>4
<1>8. Newest(q) = t
  BY <1>1, <1>2, <1>4, <1>7 DEF Newest
<1>9. \A i \in 1 .. k : t[i] = IF i = 1 THEN 0 ELSE q[i - 1]
  <2> SUFFICES ASSUME NEW i \in 1 .. k
               PROVE  t[i] = IF i = 1 THEN 0 ELSE q[i - 1]
    OBVIOUS
  <2>1. i \in 1 .. n + 1
    BY <1>5
  <2>2. t[i] = c[i]
    BY <1>7
  <2>3. c[i] = IF i = 1 THEN 0 ELSE q[i - 1]
    BY <1>3, <2>1, Zenon
  <2> QED
    BY <2>2, <2>3, Zenon
<1> QED
  BY <1>1, <1>4, <1>7, <1>8, <1>9

\* What has been carried out is remembered and delivered as one decision.
LEMMA CarriedMemory ==
    ASSUME Inv, NEW s \in Sources, NEW ml \in Decisions, NEW drift \in Drifts,
           NEW over \in Decisions, NEW held \in Decisions, Carried(s, ml, drift, over, held)
    PROVE  MemoryInv'
<1>1. PICK d \in Decisions : d = Learned(held)
  BY LearnedIs
<1>2. d = "Ignore" <=> held = "Ignore"
  BY <1>1, LearnedIs
<1>3. /\ Cool(s, held)
      /\ decision' = [decision EXCEPT ![s] = d]
      /\ decisionAge' = [decisionAge EXCEPT ![s] = 0]
  BY <1>1 DEF Carried, Tracked, Carry, Remember
<1>4. Deliver(s, d)
  BY <1>1 DEF Carried, Carry
<1>5. TypeInv /\ MemoryInv
  BY DEF Inv
<1>6. ASSUME NEW x \in Sources
      PROVE  /\ decision'[x] \notin {"Ignore", Nothing} =>
                    sent'[x] = decision'[x] /\ sentAge'[x] = decisionAge'[x]
             /\ sent'[x] = "Block" /\ sentAge'[x] < BlockCooldown => decision'[x] = "Block"
             /\ sent'[x] = "Alert" /\ sentAge'[x] < AlertCooldown => decision'[x] = "Alert"
  <2>1. CASE x # s
    <3>1. /\ sent'[x] = sent[x] /\ sentAge'[x] = sentAge[x]
          /\ decision'[x] = decision[x] /\ decisionAge'[x] = decisionAge[x]
      BY <1>3, <1>4, <1>5, <2>1 DEF Deliver, TypeInv
    <3> QED
      BY <1>5, <3>1 DEF MemoryInv
  <2>2. CASE x = s /\ d # "Ignore"
    <3>1. /\ sent'[s] = d /\ sentAge'[s] = 0
          /\ decision'[s] = d /\ decisionAge'[s] = 0
      BY <1>3, <1>4, <1>5, <2>2 DEF Deliver, TypeInv
    <3> QED
      BY <2>2, <3>1
  <2>3. CASE x = s /\ d = "Ignore"
    <3>1. /\ sent'[s] = sent[s] /\ sentAge'[s] = sentAge[s] /\ decision'[s] = "Ignore"
      BY <1>3, <1>4, <1>5, <2>3 DEF Deliver, TypeInv
    <3>2. /\ ~(decision[s] = "Block" /\ decisionAge[s] < BlockCooldown)
          /\ ~(decision[s] = "Alert" /\ decisionAge[s] < AlertCooldown)
      BY <1>2, <1>3, <2>3 DEF Cool
    <3>3. /\ ~(sent[s] = "Block" /\ sentAge[s] < BlockCooldown)
          /\ ~(sent[s] = "Alert" /\ sentAge[s] < AlertCooldown)
      BY <1>5, <3>2 DEF MemoryInv, Nothing
    <3> QED
      BY <2>3, <3>1, <3>3
  <2> QED
    BY <2>1, <2>2, <2>3
<1> QED
  BY <1>6 DEF MemoryInv

\* The tracker counts one record more, and the history has it in front.
LEMMA TrackedRecords ==
    ASSUME Inv, NEW s \in Sources, NEW ml \in Decisions, NEW drift \in Drifts,
           NEW over \in Decisions, NEW held \in Decisions, Tracked(s, ml, drift, over, held)
    PROVE  TrackerInv'
<1>1. Record(s) /\ recent' = [recent EXCEPT ![s] = Newest(recent[s])]
  BY DEF Tracked
<1>2. TypeInv /\ TrackerInv
  BY DEF Inv
<1>3. PICK q \in Seq(Nat) : q = recent[s]
  BY <1>2 DEF TypeInv
<1>4. PICK t \in Seq(Nat) :
          /\ t = Newest(q)
          /\ Len(t) = IF Len(q) < RepeatN THEN Len(q) + 1 ELSE RepeatN
          /\ \A i \in 1 .. Len(t) : t[i] = IF i = 1 THEN 0 ELSE q[i - 1]
  BY NewestRecords
<1>5. PICK c \in 0 .. RepeatN : c = count[s]
  BY <1>2 DEF TypeInv
<1>6. PICK f \in Nat : f = firstAge[s]
  BY <1>2 DEF TypeInv
<1>7. c <= Len(q) /\ \A i \in 1 .. c : q[i] <= f
  BY <1>2, <1>3, <1>5, <1>6 DEF TrackerInv
<1>8. PICK k \in Nat : k = IF c < RepeatN THEN c + 1 ELSE RepeatN
  BY <1>5, Numbers
<1>9. /\ recent'[s] = t /\ count'[s] = k
      /\ firstAge'[s] = IF c > 0 THEN f ELSE 0
  BY <1>1, <1>2, <1>3, <1>4, <1>5, <1>6, <1>8 DEF Record, Counted, TypeInv
<1>10. k <= Len(t)
  BY <1>4, <1>5, <1>7, <1>8, Numbers
<1>11. ASSUME NEW i \in 1 .. k
       PROVE  t[i] <= IF c > 0 THEN f ELSE 0
  <2>1. i \in 1 .. Len(t) /\ t[i] = IF i = 1 THEN 0 ELSE q[i - 1]
    BY <1>4, <1>8, <1>10
  <2>2. CASE i = 1
    BY <1>6, <2>1, <2>2
  <2>3. CASE i # 1
    <3>1. i - 1 \in 1 .. c
      BY <1>5, <1>8, <2>3, Numbers
    <3> QED
      BY <1>5, <1>7, <2>1, <2>3, <3>1
  <2> QED
    BY <2>2, <2>3
<1>12. ASSUME NEW x \in Sources
       PROVE  /\ count'[x] <= Len(recent'[x])
              /\ \A i \in 1 .. count'[x] : recent'[x][i] <= firstAge'[x]
  <2>1. CASE x = s
    BY <1>9, <1>10, <1>11, <2>1
  <2>2. CASE x # s /\ Live(x)
    <3>1. recent'[x] = recent[x] /\ count'[x] = count[x] /\ firstAge'[x] = firstAge[x]
      BY <1>1, <1>2, <2>2 DEF Record, TypeInv
    <3> QED
      BY <1>2, <3>1 DEF TrackerInv
  <2>3. CASE x # s /\ ~Live(x)
    <3>1. recent'[x] = recent[x] /\ recent[x] \in Seq(Nat) /\ count'[x] = 0
      BY <1>1, <1>2, <2>3 DEF Record, TypeInv
    <3>2. Len(recent[x]) \in Nat
      BY <3>1
    <3>3. 0 <= Len(recent[x]) /\ 1 .. 0 = {}
      BY <3>2
    <3> QED
      BY <3>1, <3>3
  <2> QED
    BY <2>1, <2>2, <2>3
<1> QED
  BY <1>12 DEF TrackerInv

\* A second alert inside the cooldown of the first is a stronger one: the engine
\* still remembers the first, so its cooldown was asked.
LEMMA CarriedSpacing ==
    ASSUME Inv, NEW s \in Sources, NEW ml \in Decisions, NEW drift \in Drifts,
           NEW over \in Decisions, NEW held \in Decisions, Carried(s, ml, drift, over, held),
           UNCHANGED << allow, block, learning >>
    PROVE  NextAlertSpacing'
<1>1. PICK d \in Decisions : d = Learned(held)
  BY LearnedIs
<1>2. Cool(s, held) /\ Deliver(s, d) /\ (~learning => d = held)
  BY <1>1, LearnedIs DEF Carried, Tracked, Carry
<1>3. TypeInv /\ MemoryInv /\ NextAlertSpacing
  BY DEF Inv
<1>4. ASSUME NEW x \in Sources, ~learning
      PROVE  /\ pair'[x].first = "Block" /\ pair'[x].gap < BlockCooldown =>
                    pair'[x].second = "Escalate"
             /\ pair'[x].first = "Alert" /\ pair'[x].gap < AlertCooldown =>
                    pair'[x].second \in {"Block", "Escalate"}
  <2>1. CASE x # s \/ d = "Ignore"
    <3>1. pair'[x] = pair[x]
      BY <1>2, <1>3, <2>1 DEF Deliver, TypeInv
    <3> QED
      BY <1>3, <1>4, <3>1 DEF NextAlertSpacing
  <2>2. CASE x = s /\ d # "Ignore"
    <3>1. pair'[s] = [first |-> sent[s], gap |-> sentAge[s], second |-> d]
      BY <1>2, <1>3, <2>2 DEF Deliver, TypeInv
    <3>2. d = held
      BY <1>2, <1>4
    <3>3. ASSUME sent[s] = "Block", sentAge[s] < BlockCooldown
          PROVE  d = "Escalate"
      <4>1. decision[s] = "Block"
        BY <1>3, <3>3 DEF MemoryInv
      <4>2. decisionAge[s] = sentAge[s]
        BY <1>3, <4>1 DEF MemoryInv, Nothing
      <4> QED
        BY <1>2, <3>2, <3>3, <4>1, <4>2 DEF Cool
    <3>4. ASSUME sent[s] = "Alert", sentAge[s] < AlertCooldown
          PROVE  d \in {"Block", "Escalate"}
      <4>1. decision[s] = "Alert"
        BY <1>3, <3>4 DEF MemoryInv
      <4>2. decisionAge[s] = sentAge[s]
        BY <1>3, <4>1 DEF MemoryInv, Nothing
      <4> QED
        BY <1>2, <3>2, <3>4, <4>1, <4>2 DEF Cool
    <3> QED
      BY <2>2, <3>1, <3>3, <3>4
  <2> QED
    BY <2>1, <2>2
<1> QED
  BY <1>4 DEF NextAlertSpacing

\* When the tracker alone escalates, the oldest of the records it counted lies in
\* its window.
LEMMA TrackedSpan ==
    ASSUME Inv, NEW s \in Sources, NEW ml \in Decisions, NEW drift \in Drifts,
           NEW over \in Decisions, NEW held \in Decisions, Tracked(s, ml, drift, over, held),
           over = Overridden(s, ml, drift)
    PROVE  RepeatsInWindow' /\ span' \in [Sources -> Nat]
<1>1. TypeInv /\ TrackerInv /\ RepeatsInWindow
  BY DEF Inv
<1>2. CASE ~(over = "Escalate" /\ ml # "Escalate" /\ drift = "low")
  <2>1. span' = span
    BY <1>2 DEF Tracked
  <2> QED
    BY <1>1, <2>1 DEF RepeatsInWindow, TypeInv
<1>3. CASE over = "Escalate" /\ ml # "Escalate" /\ drift = "low"
  <2>1. span' = [span EXCEPT ![s] = recent[s][RepeatN]]
    BY <1>3 DEF Tracked
  <2>2. ShouldEscalate(s)
    BY <1>3 DEF Overridden
  <2>3. count[s] = RepeatN /\ firstAge[s] <= RepeatWindow
    BY <1>1, <2>2, Numbers DEF ShouldEscalate, TypeInv
  <2>4. PICK q \in Seq(Nat) : q = recent[s]
    BY <1>1 DEF TypeInv
  <2>5. RepeatN <= Len(q) /\ RepeatN \in 1 .. RepeatN
    BY <1>1, <2>3, <2>4, Numbers DEF TrackerInv
  <2>6. PICK a \in Nat : a = q[RepeatN]
    BY <2>5
  <2>7. a <= firstAge[s]
    BY <1>1, <2>3, <2>4, <2>5, <2>6 DEF TrackerInv
  <2>8. a <= RepeatWindow
    BY <1>1, <2>3, <2>7, Numbers DEF TypeInv
  <2>9. span' = [span EXCEPT ![s] = a]
    BY <2>1, <2>4, <2>6
  <2> QED
    BY <1>1, <2>8, <2>9 DEF RepeatsInWindow, TypeInv
<1> QED
  BY <1>2, <1>3

TrackerTypes ==
    /\ count \in [Sources -> 0 .. RepeatN]
    /\ firstAge \in [Sources -> Nat] /\ lastAge \in [Sources -> Nat]
    /\ refused \in [Sources -> Nat]
    /\ recent \in [Sources -> Seq(Nat)]
    /\ span \in [Sources -> Nat]

LEMMA TrackedTypes ==
    ASSUME Inv, NEW s \in Sources, NEW ml \in Decisions, NEW drift \in Drifts,
           NEW over \in Decisions, NEW held \in Decisions, Tracked(s, ml, drift, over, held),
           over = Overridden(s, ml, drift)
    PROVE  TrackerTypes'
<1>1. Record(s)
  BY DEF Tracked
<1>2. TypeInv
  BY DEF Inv
<1>3. /\ count' \in [Sources -> 0 .. RepeatN]
      /\ firstAge' \in [Sources -> Nat] /\ lastAge' \in [Sources -> Nat]
  <2>1. Counted(s) \in 0 .. RepeatN /\ 0 \in 0 .. RepeatN
    BY <1>2, Numbers DEF Counted, TypeInv
  <2>2. count' \in [Sources -> 0 .. RepeatN]
    BY <1>1, <1>2, <2>1 DEF Record, TypeInv
  <2> QED
    BY <1>1, <1>2, <2>2 DEF Record, TypeInv
<1>4. recent' \in [Sources -> Seq(Nat)]
  <2>1. recent[s] \in Seq(Nat)
    BY <1>2 DEF TypeInv
  <2>2. Newest(recent[s]) \in Seq(Nat)
    BY <2>1, NewestRecords
  <2> QED
    BY <1>2, <2>2 DEF Tracked, TypeInv
<1>5. span' \in [Sources -> Nat]
  BY TrackedSpan
<1>6. refused' = refused
  BY DEF Tracked
<1> QED
  BY <1>2, <1>3, <1>4, <1>5, <1>6 DEF TypeInv, TrackerTypes

LEMMA CarriedTypes ==
    ASSUME Inv, NEW s \in Sources, NEW ml \in Decisions, NEW drift \in Drifts,
           NEW over \in Decisions, NEW held \in Decisions, Carried(s, ml, drift, over, held),
           over = Overridden(s, ml, drift), UNCHANGED << allow, block, learning >>
    PROVE  TypeInv'
<1>1. PICK d \in Decisions : d = Learned(held)
  BY LearnedIs
<1>2. Tracked(s, ml, drift, over, held) /\ Deliver(s, d) /\ Remember(s, d)
  BY <1>1 DEF Carried, Carry
<1>3. TypeInv /\ d \in Known
  BY DEF Inv, Known
<1>4. TrackerTypes'
  BY <1>2, TrackedTypes
<1>5. decision' \in [Sources -> Known] /\ decisionAge' \in [Sources -> Nat]
  BY <1>2, <1>3 DEF Remember, TypeInv
<1>6. /\ sent' \in [Sources -> Known] /\ sentAge' \in [Sources -> Nat]
      /\ pair' \in [Sources -> [first : Known, gap : Nat, second : Known]]
  <2>1. CASE d = "Ignore"
    BY <1>2, <1>3, <2>1 DEF Deliver, TypeInv
  <2>2. CASE d # "Ignore"
    <3>1. [first |-> sent[s], gap |-> sentAge[s], second |-> d]
              \in [first : Known, gap : Nat, second : Known]
      BY <1>3 DEF TypeInv
    <3>2. PICK r \in [first : Known, gap : Nat, second : Known] :
              r = [first |-> sent[s], gap |-> sentAge[s], second |-> d]
      BY <3>1
    <3>3. /\ pair' = [pair EXCEPT ![s] = r]
          /\ sent' = [sent EXCEPT ![s] = d] /\ sentAge' = [sentAge EXCEPT ![s] = 0]
      BY <1>2, <2>2, <3>2 DEF Deliver
    <3>4. pair' \in [Sources -> [first : Known, gap : Nat, second : Known]]
      BY <1>3, <3>3 DEF TypeInv
    <3> QED
      BY <1>3, <3>3, <3>4 DEF TypeInv
  <2> QED
    BY <2>1, <2>2
<1> QED
  BY <1>3, <1>4, <1>5, <1>6 DEF TypeInv, TrackerTypes

LEMMA CarriedStep ==
    ASSUME Inv, NEW s \in Sources, NEW ml \in Decisions, NEW drift \in Drifts,
           NEW over \in Decisions, NEW held \in Decisions, Carried(s, ml, drift, over, held),
           over = Overridden(s, ml, drift), UNCHANGED << allow, block, learning >>
    PROVE  Inv'
<1>1. Tracked(s, ml, drift, over, held)
  BY DEF Carried
<1>2. NeverMuted'
  BY <1>1 DEF Inv, Tracked, Carried, Carry, NeverMuted
<1>3. TrackerInv' /\ RepeatsInWindow'
  BY <1>1, TrackedRecords, TrackedSpan
<1> QED
  BY <1>2, <1>3, CarriedMemory, CarriedSpacing, CarriedTypes DEF Inv

\* A callback that throws leaves a record in the tracker, and nothing else.
LEMMA FallenStep ==
    ASSUME Inv, NEW s \in Sources, NEW ml \in Decisions, NEW drift \in Drifts,
           NEW over \in Decisions, NEW held \in Decisions, Fallen(s, ml, drift, over, held),
           over = Overridden(s, ml, drift), UNCHANGED << allow, block, learning >>
    PROVE  Inv'
<1>1. Tracked(s, ml, drift, over, held) /\ UNCHANGED << memory, sent, sentAge, pair >>
  BY DEF Fallen, Fallback
<1>2. TrackerTypes' /\ TrackerInv' /\ RepeatsInWindow'
  BY <1>1, TrackedTypes, TrackedRecords, TrackedSpan
<1>3. TypeInv'
  BY <1>1, <1>2 DEF Inv, TypeInv, TrackerTypes, memory
<1>4. MemoryInv' /\ NextAlertSpacing'
  BY <1>1 DEF Inv, MemoryInv, NextAlertSpacing, memory
<1>5. NeverMuted'
  BY <1>1 DEF Inv, Tracked, NeverMuted
<1> QED
  BY <1>2, <1>3, <1>4, <1>5 DEF Inv

\* The lists change, the memory stays.
LEMMA ReconfigStep ==
    ASSUME Inv, NEW toAllow \in Lists, NEW toBlock \in Lists, Reconfig(toAllow, toBlock)
    PROVE  Inv'
<1>1. /\ allow' = toAllow
      /\ UNCHANGED << learning, tracker, memory, history >>
  BY DEF Reconfig
<1>2. toAllow \subseteq Sources
  BY EngineAssumption
<1>3. TypeInv'
  BY <1>1, <1>2 DEF Inv, TypeInv, memory, tracker, history
<1>4. MemoryInv' /\ TrackerInv'
  BY <1>1 DEF Inv, MemoryInv, TrackerInv, memory, tracker, history
<1>5. NextAlertSpacing' /\ NeverMuted' /\ RepeatsInWindow'
  BY <1>1 DEF Inv, NextAlertSpacing, NeverMuted, RepeatsInWindow, history
<1> QED
  BY <1>3, <1>4, <1>5 DEF Inv

\* Time makes every age larger and keeps their order.
LEMMA TickStep ==
    ASSUME Inv, Tick
    PROVE  Inv'
<1>1. UNCHANGED << allow, block, learning, count, decision, sent, pair, refused, span >>
  BY DEF Tick
<1>2. TypeInv /\ MemoryInv /\ TrackerInv
  BY DEF Inv
<1>3. \A a \in Nat : /\ Older(a) \in Nat /\ a <= Older(a)
                     /\ \A b \in Nat : a <= b => Older(a) <= Older(b)
  BY Ageing
<1>4. ASSUME NEW s \in Sources
      PROVE  /\ firstAge'[s] = IF count[s] = 0 THEN 0 ELSE Older(firstAge[s])
             /\ decisionAge'[s] = Older(decisionAge[s]) /\ sentAge'[s] = Older(sentAge[s])
             /\ recent'[s] = [i \in DOMAIN recent[s] |-> Older(recent[s][i])]
  BY DEF Tick
<1>5. ASSUME NEW s \in Sources
      PROVE  /\ recent'[s] \in Seq(Nat) /\ Len(recent'[s]) = Len(recent[s])
             /\ \A i \in 1 .. Len(recent[s]) : recent'[s][i] = Older(recent[s][i])
  <2>1. PICK q \in Seq(Nat) : q = recent[s]
    BY <1>2 DEF TypeInv
  <2>2. PICK n \in Nat : n = Len(q) /\ DOMAIN q = 1 .. n
    BY <2>1
  <2>3. \A i \in 1 .. n : q[i] \in Nat
    BY <2>1, <2>2
  <2>4. recent'[s] = [i \in 1 .. n |-> Older(q[i])]
    BY <1>4, <2>1, <2>2
  <2>5. [i \in 1 .. n |-> Older(q[i])] \in [1 .. n -> Nat]
    BY <1>3, <2>3
  <2>6. PICK t \in Seq(Nat) : t = recent'[s] /\ DOMAIN t = 1 .. n
    BY <2>4, <2>5
  <2>7. Len(t) = n
    BY <2>2, <2>6
  <2> QED
    BY <2>1, <2>2, <2>4, <2>6, <2>7
<1>6. TypeInv'
  <2>1. \A s \in Sources : firstAge[s] \in Nat /\ lastAge[s] \in Nat /\ decisionAge[s] \in Nat /\ sentAge[s] \in Nat
    BY <1>2 DEF TypeInv
  <2>2. firstAge' \in [Sources -> Nat] /\ lastAge' \in [Sources -> Nat]
    BY <1>3, <2>1 DEF Tick
  <2>3. decisionAge' \in [Sources -> Nat] /\ sentAge' \in [Sources -> Nat]
    BY <1>3, <2>1 DEF Tick
  <2>4. recent' \in [Sources -> Seq(Nat)]
    <3>1. recent' = [s \in Sources |-> recent'[s]]
      BY DEF Tick
    <3> QED
      BY <1>5, <3>1
  <2> QED
    BY <1>1, <1>2, <2>2, <2>3, <2>4 DEF TypeInv
<1>7. MemoryInv'
  <2>1. ASSUME NEW s \in Sources
        PROVE  /\ decision'[s] \notin {"Ignore", Nothing} =>
                      sent'[s] = decision'[s] /\ sentAge'[s] = decisionAge'[s]
               /\ sent'[s] = "Block" /\ sentAge'[s] < BlockCooldown => decision'[s] = "Block"
               /\ sent'[s] = "Alert" /\ sentAge'[s] < AlertCooldown => decision'[s] = "Alert"
    <3>1. sentAge[s] \in Nat /\ sentAge'[s] \in Nat /\ sentAge[s] <= sentAge'[s]
      BY <1>2, <1>3, <1>4 DEF TypeInv
    <3>2. /\ sentAge'[s] < BlockCooldown => sentAge[s] < BlockCooldown
          /\ sentAge'[s] < AlertCooldown => sentAge[s] < AlertCooldown
      BY <3>1, Numbers
    <3>3. sentAge[s] = decisionAge[s] => sentAge'[s] = decisionAge'[s]
      BY <1>4
    <3> QED
      BY <1>1, <1>2, <3>2, <3>3 DEF MemoryInv
  <2> QED
    BY <2>1 DEF MemoryInv
<1>8. TrackerInv'
  <2>1. ASSUME NEW s \in Sources
        PROVE  /\ count'[s] <= Len(recent'[s])
               /\ \A i \in 1 .. count'[s] : recent'[s][i] <= firstAge'[s]
    <3>1. PICK c \in 0 .. RepeatN : c = count[s] /\ c = count'[s]
      BY <1>1, <1>2 DEF TypeInv
    <3>2. PICK q \in Seq(Nat) : q = recent[s]
      BY <1>2 DEF TypeInv
    <3>3. c <= Len(q) /\ Len(q) = Len(recent'[s]) /\ Len(q) \in Nat
      <4>1. c <= Len(q)
        BY <1>2, <3>1, <3>2 DEF TrackerInv
      <4>2. Len(q) = Len(recent'[s])
        BY <1>5, <3>2
      <4> QED
        BY <4>1, <4>2
    <3>4. ASSUME NEW i \in 1 .. c
          PROVE  recent'[s][i] <= firstAge'[s]
      <4>1. i \in 1 .. Len(q) /\ c # 0
        BY <3>3, Numbers
      <4>2. PICK a \in Nat : a = q[i]
        BY <4>1
      <4>3. PICK f \in Nat : f = firstAge[s]
        BY <1>2 DEF TypeInv
      <4>4. a <= f
        BY <1>2, <3>1, <3>2, <4>2, <4>3 DEF TrackerInv
      <4>5. recent'[s][i] = Older(a) /\ firstAge'[s] = Older(f)
        BY <1>4, <1>5, <3>1, <3>2, <4>1, <4>2, <4>3
      <4> QED
        BY <1>3, <4>4, <4>5
    <3> QED
      BY <3>1, <3>3, <3>4
  <2> QED
    BY <2>1 DEF TrackerInv
<1>9. NextAlertSpacing' /\ NeverMuted' /\ RepeatsInWindow'
  BY <1>1 DEF Inv, NextAlertSpacing, NeverMuted, RepeatsInWindow
<1> QED
  BY <1>6, <1>7, <1>8, <1>9 DEF Inv

-----------------------------------------------------------------------------
LEMMA InitInv == Init => Inv
<1> SUFFICES ASSUME Init PROVE Inv
  OBVIOUS
<1>1. Oldest \in Nat /\ RepeatN \in Nat /\ Nothing \in Known /\ <<>> \in Seq(Nat)
  BY OldestNumber, Numbers DEF Known
<1>2. TypeInv
  <2>1. count \in [Sources -> 0 .. RepeatN]
    BY <1>1 DEF Init
  <2>2. [first |-> Nothing, gap |-> Oldest, second |-> Nothing] \in [first : Known, gap : Nat, second : Known]
    BY <1>1
  <2>3. pair \in [Sources -> [first : Known, gap : Nat, second : Known]]
    BY <2>2 DEF Init
  <2>4. learning \in BOOLEAN
    BY EngineAssumption DEF Init
  <2> QED
    BY <1>1, <2>1, <2>3, <2>4 DEF Init, TypeInv
<1>3. MemoryInv
  BY DEF Init, MemoryInv, Nothing
<1>4. TrackerInv
  BY DEF Init, TrackerInv
<1>5. NextAlertSpacing
  BY DEF Init, NextAlertSpacing, Nothing
<1>6. NeverMuted /\ RepeatsInWindow
  BY Numbers DEF Init, NeverMuted, RepeatsInWindow
<1> QED
  BY <1>2, <1>3, <1>4, <1>5, <1>6 DEF Inv

LEMMA NextInv == Inv /\ [Next]_vars => Inv'
<1> SUFFICES ASSUME Inv, [Next]_vars PROVE Inv'
  OBVIOUS
<1>1. ASSUME NEW s \in Sources, NEW band \in Bands, NEW ml \in Decisions, NEW drift \in Drifts,
             Execute(s, band, ml, drift)
      PROVE  Inv'
  <2>1. PICK over \in Decisions, held \in Decisions :
            /\ over = Overridden(s, ml, drift)
            /\ \/ Refusal(s, held)
               \/ Carried(s, ml, drift, over, held)
               \/ Fallen(s, ml, drift, over, held)
            /\ UNCHANGED << allow, block, learning >>
    BY <1>1, ExecuteSplits
  <2>2. CASE Refusal(s, held)
    BY <2>1, <2>2, RefusalStep
  <2>3. CASE Carried(s, ml, drift, over, held)
    BY <2>1, <2>3, CarriedStep
  <2>4. CASE Fallen(s, ml, drift, over, held)
    BY <2>1, <2>4, FallenStep
  <2> QED
    BY <2>1, <2>2, <2>3, <2>4
<1>2. ASSUME NEW toAllow \in Lists, NEW toBlock \in Lists, Reconfig(toAllow, toBlock)
      PROVE  Inv'
  BY <1>2, ReconfigStep
<1>3. CASE Tick
  BY <1>3, TickStep
<1>4. CASE UNCHANGED vars
  <2>1. UNCHANGED << allow, block, learning, tracker, memory, history >>
    BY <1>4 DEF vars
  <2>2. TypeInv' /\ MemoryInv' /\ TrackerInv'
    BY <2>1 DEF Inv, TypeInv, MemoryInv, TrackerInv, tracker, memory, history
  <2>3. NextAlertSpacing' /\ NeverMuted' /\ RepeatsInWindow'
    BY <2>1 DEF Inv, NextAlertSpacing, NeverMuted, RepeatsInWindow, history
  <2> QED
    BY <2>2, <2>3 DEF Inv
<1> QED
  BY <1>1, <1>2, <1>3, <1>4 DEF Next

\* The inductive invariant of the engine
THEOREM Invariance == Spec => []Inv
  BY InitInv, NextInv, PTL DEF Spec

\* Outside learning mode, the alert that follows a Block inside the block
\* cooldown is an Escalate, and the one that follows an Alert inside the alert
\* cooldown is a Block or an Escalate, whatever execute() ignored, refused, lost
\* or was reconfigured to in between.  It says nothing of the alert after that.
THEOREM NextAlertSpaced == Spec => []NextAlertSpacing
<1>1. Inv => NextAlertSpacing
  BY DEF Inv
<1> QED
  BY <1>1, Invariance, PTL

\* allow_by_cooldown refuses nothing once the longest cooldown has passed since the
\* last alert of the source: a refusal prolongs no cooldown.
THEOREM NoSourceMuted == Spec => []NeverMuted
<1>1. Inv => NeverMuted
  BY DEF Inv
<1> QED
  BY <1>1, Invariance, PTL

\* RepeatTracker escalates only on repeat_escalate_n records in one window.
THEOREM EscalatesOnRepeats == Spec => []RepeatsInWindow
<1>1. Inv => RepeatsInWindow
  BY DEF Inv
<1> QED
  BY <1>1, Invariance, PTL

\* A listed source is silent: where hysteresis restores a block, its cooldown, at
\* least as long as the hold time, still runs and refuses it.
LEMMA AllowedIgnored ==
    ASSUME Inv, NEW s \in allow, s \in Sources, NEW ml, NEW drift, NEW band, NEW over, NEW held,
           over = Overridden(s, ml, drift), held = Held(s, over, band), Cool(s, held)
    PROVE  Learned(held) = "Ignore"
<1>1. over = "Ignore"
  BY DEF Overridden
<1>2. decisionAge[s] < HoldTime => decisionAge[s] < BlockCooldown
  <2>1. PICK a \in Nat : a = decisionAge[s]
    BY DEF Inv, TypeInv
  <2>2. a < HoldTime => a < BlockCooldown
    BY Numbers
  <2> QED
    BY <2>1, <2>2
<1>3. held = "Ignore"
  BY <1>1, <1>2 DEF Held, Cool
<1> QED
  BY <1>3 DEF Learned

LEMMA AllowedStep ==
    ASSUME Inv, [Next]_vars, NEW x \in allow, vars' # vars
    PROVE  pair'[x] = pair[x] /\ sent'[x] = sent[x] /\ x \notin fell'
<1>1. TypeInv /\ x \in Sources
  BY DEF Inv, TypeInv
<1>2. ASSUME NEW s \in Sources, NEW band \in Bands, NEW ml \in Decisions, NEW drift \in Drifts,
             Execute(s, band, ml, drift)
      PROVE  pair'[x] = pair[x] /\ sent'[x] = sent[x] /\ x \notin fell'
  <2>1. PICK over \in Decisions, held \in Decisions :
            /\ over = Overridden(s, ml, drift) /\ held = Held(s, over, band)
            /\ \/ Refusal(s, held)
               \/ Carried(s, ml, drift, over, held)
               \/ Fallen(s, ml, drift, over, held)
    BY <1>2, ExecuteSplits
  <2>2. CASE Refusal(s, held)
    BY <2>2 DEF Refusal
  <2>3. CASE Carried(s, ml, drift, over, held) /\ x # s
    BY <1>1, <2>3 DEF Carried, Carry, Deliver, TypeInv
  <2>4. CASE Carried(s, ml, drift, over, held) /\ x = s
    <3>1. Learned(held) = "Ignore"
      BY <1>1, <2>1, <2>4, AllowedIgnored DEF Carried, Tracked
    <3> QED
      BY <2>4, <3>1 DEF Carried, Carry, Deliver
  <2>5. CASE Fallen(s, ml, drift, over, held)
    <3>1. Learned(held) # "Ignore" /\ fell' = {s} /\ UNCHANGED << sent, pair >>
      BY <2>5 DEF Fallen, Fallback
    <3>2. x # s
      BY <1>1, <2>1, <2>5, <3>1, AllowedIgnored DEF Fallen, Tracked
    <3> QED
      BY <3>1, <3>2
  <2> QED
    BY <2>1, <2>2, <2>3, <2>4, <2>5
<1>3. ASSUME NEW toAllow \in Lists, NEW toBlock \in Lists, Reconfig(toAllow, toBlock)
      PROVE  pair'[x] = pair[x] /\ sent'[x] = sent[x] /\ x \notin fell'
  BY <1>3 DEF Reconfig, history
<1>4. CASE Tick
  BY <1>4 DEF Tick
<1> QED
  BY <1>2, <1>3, <1>4 DEF Next

\* apply_overrides keeps a source on the allow list silent, right after a block
\* too, and no fault is ever reported for it.
THEOREM AllowedStaysSilent == Spec => AllowedIsSilent
<1>1. Inv /\ [Next]_vars =>
          [\A s \in allow : pair'[s] = pair[s] /\ sent'[s] = sent[s] /\ s \notin fell']_vars
  BY AllowedStep
<1> QED
  BY <1>1, Invariance, PTL DEF Spec, AllowedIsSilent

-----------------------------------------------------------------------------
(* Induction over positions.  It is stated with a set in place of a          *)
(* predicate, and rests on the least of the positions that would fail.       *)

LEMMA LeastIs ==
    ASSUME NEW S \in SUBSET Nat, S # {}
    PROVE  \E m \in S : \A k \in S : m <= k
<1>1. PICK m \in S : \A k \in S : << k, m >> \notin OpToRel(<, Nat)
  BY WFMin, NatLessThanWellFounded, Zenon
<1>2. \A k \in S : ~(k < m)
  BY <1>1, Zenon DEF OpToRel
<1> QED
  BY <1>2

LEMMA UpTo ==
    ASSUME NEW N \in Nat, NEW S, 0 \in S, \A i \in 1 .. N : i - 1 \in S => i \in S
    PROVE  \A i \in 0 .. N : i \in S
<1> DEFINE missing == {i \in 0 .. N : i \notin S}
<1> SUFFICES ASSUME missing # {} PROVE FALSE
  OBVIOUS
<1>1. missing \in SUBSET Nat
  OBVIOUS
<1> HIDE DEF missing
<1>2. PICK m \in missing : \A k \in missing : m <= k
  BY <1>1, LeastIs
<1>3. m \in 0 .. N /\ m \notin S
  BY <1>2 DEF missing
<1>4. m \in 1 .. N /\ m - 1 \in 0 .. N /\ m - 1 < m
  BY <1>3
<1>5. m - 1 \notin missing
  BY <1>1, <1>2, <1>4
<1> QED
  BY <1>3, <1>4, <1>5 DEF missing

\* A function may be defined by what it is at 0 and by a step from each position
\* to the next.
Follows(f, N, T, a, step) ==
    /\ f \in [0 .. N -> T]
    /\ f[0] = a
    /\ \A i \in 1 .. N : f[i] = step[f[i - 1]][i]

LEMMA Recursion ==
    ASSUME NEW N \in Nat, NEW T, NEW a \in T, NEW step \in [T -> [1 .. N -> T]]
    PROVE  \E f : Follows(f, N, T, a, step)
<1> DEFINE Extends(n, f) == f[0] = a /\ \A i \in 1 .. n : f[i] = step[f[i - 1]][i]
           done == {n \in 0 .. N : \E f \in [0 .. n -> T] : Extends(n, f)}
<1>1. 0 \in done
  <2> DEFINE f == [i \in 0 .. 0 |-> a]
  <2>1. f \in [0 .. 0 -> T] /\ f[0] = a
    OBVIOUS
  <2>2. \A i \in 1 .. 0 : FALSE
    OBVIOUS
  <2> HIDE DEF f
  <2>3. Extends(0, f)
    BY <2>1, <2>2
  <2>4. 0 \in 0 .. N
    OBVIOUS
  <2> HIDE DEF Extends
  <2> QED
    BY <2>1, <2>3, <2>4
<1>2. ASSUME NEW n \in 1 .. N, n - 1 \in done
      PROVE  n \in done
  <2>1. PICK f \in [0 .. n - 1 -> T] : Extends(n - 1, f)
    BY <1>2
  <2>2. n - 1 \in 0 .. n - 1 /\ 0 \in 0 .. n - 1 /\ 0 # n
    OBVIOUS
  <2> DEFINE v == step[f[n - 1]][n]
             g == [i \in 0 .. n |-> IF i = n THEN v ELSE f[i]]
  <2>3. v \in T
    BY <2>2
  <2>4. \A i \in 0 .. n : i = n \/ i \in 0 .. n - 1
    OBVIOUS
  <2>5. g \in [0 .. n -> T]
    BY <2>3, <2>4
  <2>6. g[n] = v /\ \A i \in 0 .. n - 1 : g[i] = f[i]
    OBVIOUS
  <2>7. g[0] = a
    BY <2>1, <2>2, <2>6
  <2>8. ASSUME NEW i \in 1 .. n PROVE g[i] = step[g[i - 1]][i]
    <3>1. i - 1 \in 0 .. n - 1 /\ g[i - 1] = f[i - 1]
      BY <2>6
    <3>2. CASE i = n
      BY <2>6, <3>1, <3>2
    <3>3. CASE i # n
      <4>1. i \in 1 .. n - 1 /\ i \in 0 .. n - 1
        BY <3>3
      <4>2. f[i] = step[f[i - 1]][i] /\ g[i] = f[i]
        BY <2>1, <2>6, <4>1
      <4> QED
        BY <3>1, <4>2
    <3> QED
      BY <3>2, <3>3
  <2> HIDE DEF g
  <2>9. Extends(n, g)
    BY <2>7, <2>8
  <2>10. n \in 0 .. N
    OBVIOUS
  <2> HIDE DEF Extends
  <2> QED
    BY <2>5, <2>9, <2>10
<1> HIDE DEF done
<1>3. \A n \in 0 .. N : n \in done
  BY <1>1, <1>2, UpTo, Zenon
<1>4. N \in 0 .. N
  OBVIOUS
<1> QED
  BY <1>3, <1>4 DEF done, Follows

-----------------------------------------------------------------------------
(* Correlation: the invariant.                                              *)

Campaign == [class : Classes, sources : Seq(Ips), lastSeen : Nat]

RecordsOf(s)   == {r \in Records : r.source = s}
RecordsFrom(h) == {r \in Records : r.host = h}

\* Each deque holds the alerts of its own source or host, and none more than its limit.
StoresInv ==
    /\ DOMAIN ipRecords = Ips
    /\ \A s \in Ips : ipRecords[s] \in Seq(RecordsOf(s)) /\ Len(ipRecords[s]) <= MaxPerIp
    /\ DOMAIN hostRecords = Hosts
    /\ \A h \in Hosts : hostRecords[h] \in Seq(RecordsFrom(h)) /\ Len(hostRecords[h]) <= MaxPerHost
    /\ globalRecords \in Seq(Records) /\ Len(globalRecords) <= MaxGlobal

\* There are no more campaigns, and no more sources in one of them, than the limits say,
\* and no campaign without a source.
CampaignsInv ==
    /\ campaigns \in Seq(Campaign) /\ Len(campaigns) <= MaxCampaigns
    /\ \A n \in 1 .. Len(campaigns) : Len(campaigns[n].sources) \in 1 .. MaxSources

\* What the last alert found, or there was none.
LastInv == last # NoResult /\ last.campaign = 0 =>
    /\ last.score = "high" => Len(campaigns) >= MaxCampaigns
    /\ \A n \in 1 .. Len(campaigns) : campaigns[n].class # last.class

CorrelationInv == StoresInv /\ CampaignsInv /\ StoresAgree /\ LastInv /\ clock \in Nat

LEMMA CorrelationNumbers ==
    /\ MaxPerIp \in Nat \ {0} /\ MaxPerHost \in Nat \ {0} /\ MaxGlobal \in Nat \ {0}
    /\ MaxCampaigns \in Nat \ {0} /\ MaxClock \in Nat
    /\ MaxSources \in Nat /\ MaxSources >= 2
  BY CorrelationAssumption

\* k is q without the first records, cut of them, and with r at its end.
Pushed(q, r, k, cut) ==
    /\ Len(k) = Len(q) - cut + 1 /\ k[Len(k)] = r
    /\ \A i \in 1 .. Len(q) - cut : k[i] = q[i + cut]

\* What a push that evicts the oldest record keeps.
LEMMA KeepIs ==
    ASSUME NEW T, NEW q \in Seq(T), NEW r \in T, NEW limit \in Nat \ {0}, Len(q) <= limit
    PROVE  /\ Keep(q, r, limit) \in Seq(T)
           /\ Len(Keep(q, r, limit)) \in 1 .. limit
           /\ \E cut \in 0 .. Len(q) : Pushed(q, r, Keep(q, r, limit), cut)
<1>1. CASE Len(q) < limit
  <2>1. Keep(q, r, limit) = Append(q, r)
    BY <1>1 DEF Keep
  <2>2. 0 \in 0 .. Len(q) /\ Pushed(q, r, Append(q, r), 0)
    BY DEF Pushed
  <2> QED
    BY <1>1, <2>1, <2>2
<1>2. CASE ~(Len(q) < limit)
  <2>1. Keep(q, r, limit) = Append(Tail(q), r)
    BY <1>2 DEF Keep
  <2>2. q # << >> /\ Len(q) = limit
    BY <1>2
  <2>3. Tail(q) \in Seq(T) /\ Len(Tail(q)) = Len(q) - 1 /\ \A i \in 1 .. Len(Tail(q)) : Tail(q)[i] = q[i + 1]
    BY <2>2, HeadTailProperties, Zenon
  <2> DEFINE t == Tail(q)
  <2> HIDE DEF t
  <2>4. 1 \in 0 .. Len(q)
    BY <2>2
  <2>5. t \in Seq(T) /\ Len(t) = Len(q) - 1 /\ \A i \in 1 .. Len(t) : t[i] = q[i + 1]
    BY <2>3 DEF t
  <2>6. /\ Append(t, r) \in Seq(T) /\ Len(Append(t, r)) = Len(q)
        /\ Append(t, r)[Len(q)] = r
        /\ \A i \in 1 .. Len(q) - 1 : Append(t, r)[i] = q[i + 1]
    BY <2>5, AppendProperties
  <2>7. Pushed(q, r, Append(t, r), 1)
    BY <2>2, <2>6 DEF Pushed
  <2> QED
    BY <2>1, <2>2, <2>4, <2>6, <2>7 DEF t
<1> QED
  BY <1>1, <1>2

\* The places of the records of a kind, and how many of them come after one.
Places(all, K) == {i \in 1 .. Len(all) : all[i] \in K}
After(P, i)    == {j \in P : i < j}

LEMMA AfterIs ==
    ASSUME NEW n \in Nat, NEW P \in SUBSET (1 .. n), NEW i
    PROVE  IsFiniteSet(After(P, i)) /\ Cardinality(After(P, i)) \in Nat
<1>1. IsFiniteSet(1 .. n)
  BY FS_Interval
<1>2. After(P, i) \in SUBSET (1 .. n)
  BY DEF After
<1> QED
  BY <1>1, <1>2, FS_Subset, FS_CardinalityType

\* The places Q are those of P beyond a cut, counted from the cut.
Shifts(P, Q, cut) ==
    /\ P \subseteq Nat /\ Q \subseteq Nat /\ IsFiniteSet(Q) /\ cut \in Nat
    /\ \A j \in Q : j + cut \in P
    /\ \A j \in P : j > cut => j - cut \in Q

\* Counted from the end, a record keeps its place when others are evicted in front.
LEMMA ShiftedAfter ==
    ASSUME NEW P, NEW Q, NEW cut, Shifts(P, Q, cut), NEW i \in Q
    PROVE  Cardinality(After(Q, i)) = Cardinality(After(P, i + cut))
<1> DEFINE S == After(Q, i)
           T == After(P, i + cut)
           f == [j \in S |-> j + cut]
<1>0. /\ P \subseteq Nat /\ Q \subseteq Nat /\ IsFiniteSet(Q) /\ cut \in Nat
      /\ \A j \in Q : j + cut \in P
      /\ \A j \in P : j > cut => j - cut \in Q
  BY DEF Shifts
<1>1. \A j \in S : j \in Nat /\ j + cut \in T
  BY <1>0 DEF After
<1>2. \A j \in T : j \in Nat /\ j - cut \in S /\ (j - cut) + cut = j
  BY <1>0 DEF After
<1> HIDE DEF S, T
<1>3. f \in [S -> T]
  BY <1>1
<1>4. \A a, b \in S : f[a] = f[b] => a = b
  <2> SUFFICES ASSUME NEW a \in S, NEW b \in S, a + cut = b + cut PROVE a = b
    OBVIOUS
  <2> QED
    BY <1>0, <1>1
<1>5. \A t \in T : \E a \in S : f[a] = t
  BY <1>2
<1>6. f \in Bijection(S, T)
  BY <1>3, <1>4, <1>5 DEF Bijection, Injection, Surjection, IsInjective
<1>7. ExistsBijection(S, T)
  BY <1>6 DEF ExistsBijection
<1>8. IsFiniteSet(S)
  <2>1. S \in SUBSET Q
    BY DEF S, After
  <2> QED
    BY <1>0, <2>1, FS_Subset
<1>9. Cardinality(T) = Cardinality(S)
  BY <1>7, <1>8, FS_Bijection
<1> QED
  BY <1>9 DEF S, T

\* A record pushed to the store of all and, when it is of the kind K, to a deque of
\* this kind leaves the two alike from their ends, whatever each evicts.
LEMMA KeepsAlike ==
    ASSUME NEW T, NEW K, NEW all \in Seq(T), NEW own \in Seq(T), NEW r \in T,
           NEW g \in Nat \ {0}, Len(all) <= g, NEW l \in Nat \ {0}, Len(own) <= l,
           EndAlike(own, all, Places(all, K)),
           NEW kept, kept = IF r \in K THEN Keep(own, r, l) ELSE own
    PROVE  EndAlike(kept, Keep(all, r, g), Places(Keep(all, r, g), K))
<1> DEFINE now == Keep(all, r, g)
           P   == Places(all, K)
           Q   == Places(now, K)
<1>1. PICK cut \in 0 .. Len(all) :
          /\ now \in Seq(T) /\ Len(now) = Len(all) - cut + 1 /\ now[Len(now)] = r
          /\ \A i \in 1 .. Len(all) - cut : now[i] = all[i + cut]
  <2>1. PICK k : k = now
    OBVIOUS
  <2>2. k \in Seq(T) /\ \E cut \in 0 .. Len(all) : Pushed(all, r, k, cut)
    BY <2>1, KeepIs
  <2>3. k \in Seq(T) /\ \E cut \in 0 .. Len(all) :
            /\ Len(k) = Len(all) - cut + 1 /\ k[Len(k)] = r
            /\ \A i \in 1 .. Len(all) - cut : k[i] = all[i + cut]
    BY <2>2 DEF Pushed
  <2> HIDE DEF now
  <2> QED
    BY <2>1, <2>3
<1> HIDE DEF now
<1> DEFINE m == Len(all) - cut
           old == Q \cap (1 .. m)
<1>2. m \in Nat /\ Len(now) = m + 1 /\ now[m + 1] = r /\ Len(all) \in Nat
  BY <1>1
<1>3. P \in SUBSET (1 .. Len(all)) /\ Q \in SUBSET (1 .. m + 1) /\ old \in SUBSET (1 .. m)
  BY <1>2 DEF Places
<1>4. /\ \A j \in old : j + cut \in P
      /\ \A j \in P : j > cut => j - cut \in old
  <2>1. \A j \in 1 .. m : j \in 1 .. Len(now) /\ j + cut \in 1 .. Len(all) /\ now[j] = all[j + cut]
    BY <1>1, <1>2
  <2>2. \A j \in 1 .. Len(all) : j > cut => j - cut \in 1 .. m /\ (j - cut) + cut = j
    BY <1>2
  <2> HIDE DEF m
  <2> QED
    BY <2>1, <2>2 DEF Places
<1>5. \A i \in Q : i \in old \/ (i = m + 1 /\ r \in K)
  BY <1>2 DEF Places
<1>6. r \in K => Q = old \cup {m + 1}
  BY <1>2 DEF Places
<1>7. r \notin K => Q = old
  BY <1>2 DEF Places
<1>12. \A i \in old : now[i] = all[i + cut]
  BY <1>1
<1>9. \A i \in P : Cardinality(After(P, i)) < Len(own) =>
                       own[Len(own) - Cardinality(After(P, i))] = all[i]
  BY DEF EndAlike, After
<1> HIDE DEF P, Q, old, m
<1>13. IsFiniteSet(old) /\ old \subseteq Nat /\ P \subseteq Nat /\ cut \in Nat
  <2>1. IsFiniteSet(1 .. m)
    BY <1>2, FS_Interval
  <2>2. old \in SUBSET (1 .. m) /\ P \in SUBSET (1 .. Len(all))
    BY <1>3
  <2>3. IsFiniteSet(old)
    BY <2>1, <2>2, FS_Subset
  <2>4. old \subseteq Nat
    BY <1>2, <2>2
  <2>5. P \subseteq Nat
    BY <1>2, <2>2
  <2>6. cut \in Nat
    BY <1>2
  <2> QED
    BY <2>3, <2>4, <2>5, <2>6
<1>14. Shifts(P, old, cut)
  BY <1>4, <1>13 DEF Shifts
<1>8. \A i \in old : /\ now[i] = all[i + cut]
                     /\ Cardinality(After(old, i)) = Cardinality(After(P, i + cut))
                     /\ Cardinality(After(old, i)) \in Nat
  <2> SUFFICES ASSUME NEW i \in old
               PROVE  /\ Cardinality(After(old, i)) = Cardinality(After(P, i + cut))
                      /\ Cardinality(After(old, i)) \in Nat
    BY <1>12
  <2>1. Cardinality(After(old, i)) = Cardinality(After(P, i + cut))
    BY <1>14, ShiftedAfter
  <2>2. Cardinality(After(old, i)) \in Nat
    BY <1>2, <1>3, AfterIs
  <2> QED
    BY <2>1, <2>2
<1>10. \A i \in old : Cardinality(After(old, i)) < Len(own) =>
                          own[Len(own) - Cardinality(After(old, i))] = now[i]
  BY <1>4, <1>8, <1>9
<1>11. \A i \in Q : Cardinality(After(Q, i)) < Len(kept) =>
                        kept[Len(kept) - Cardinality(After(Q, i))] = now[i]
  <2>1. CASE r \notin K
    BY <1>7, <1>10, <2>1
  <2>2. CASE r \in K
    <3>1. PICK gone \in 0 .. Len(own) :
              /\ kept \in Seq(T) /\ Len(kept) = Len(own) - gone + 1 /\ kept[Len(kept)] = r
              /\ \A i \in 1 .. Len(own) - gone : kept[i] = own[i + gone]
      <4>1. kept = Keep(own, r, l)
        BY <2>2
      <4>2. kept \in Seq(T) /\ \E gone \in 0 .. Len(own) : Pushed(own, r, kept, gone)
        BY <4>1, KeepIs
      <4> QED
        BY <4>2 DEF Pushed
    <3>2. Len(own) \in Nat
      OBVIOUS
    <3> SUFFICES ASSUME NEW i \in Q, Cardinality(After(Q, i)) < Len(kept)
                 PROVE  kept[Len(kept) - Cardinality(After(Q, i))] = now[i]
      OBVIOUS
    <3>3. CASE i \in old
      <4>1. i \in 1 .. m
        BY <1>3, <3>3
      <4>2. After(Q, i) = After(old, i) \cup {m + 1} /\ m + 1 \notin After(old, i)
        BY <1>2, <1>3, <1>6, <2>2, <4>1 DEF After
      <4>3. Cardinality(After(Q, i)) = Cardinality(After(old, i)) + 1
        <5>1. IsFiniteSet(After(old, i))
          BY <1>2, <1>3, AfterIs
        <5> QED
          BY <4>2, <5>1, FS_AddElement
      <4> DEFINE c == Cardinality(After(old, i))
      <4>4. c \in Nat /\ Cardinality(After(Q, i)) = c + 1
        BY <1>8, <3>3, <4>3
      <4>5. c < Len(own) => own[Len(own) - c] = now[i]
        BY <1>10, <3>3
      <4> HIDE DEF c
      <4>6. Len(kept) - (c + 1) \in 1 .. Len(own) - gone /\ Len(kept) - (c + 1) + gone = Len(own) - c
        BY <3>1, <3>2, <4>4
      <4>7. kept[Len(kept) - (c + 1)] = own[Len(own) - c] /\ c < Len(own)
        <5>1. PICK k : k = Len(kept) - (c + 1)
          OBVIOUS
        <5>2. kept[k] = own[k + gone] /\ k + gone = Len(own) - c
          BY <3>1, <4>6, <5>1
        <5>3. c < Len(own)
          BY <3>2, <4>4, <4>6
        <5> QED
          BY <5>1, <5>2, <5>3
      <4> QED
        BY <4>4, <4>5, <4>7
    <3>4. CASE i = m + 1
      <4>1. After(Q, i) = {}
        <5>1. \A j \in Q : ~(m + 1 < j)
          BY <1>2, <1>3
        <5> QED
          BY <3>4, <5>1 DEF After
      <4>2. Cardinality(After(Q, i)) = 0
        BY <4>1, FS_EmptySet
      <4> QED
        BY <1>2, <3>1, <3>4, <4>2
    <3> QED
      BY <1>5, <3>3, <3>4
  <2> QED
    BY <2>1, <2>2
<1> QED
  BY <1>11 DEF EndAlike, After, Q, now

-----------------------------------------------------------------------------
(* Correlation: what the pass of detect_multi_stage finds.                   *)

\* a pass: the stages found so far and the time of the last
Pass(p) == [stages : 0 .. Len(p.sequence), time : Nat]
Start   == [stages |-> 0, time |-> 0]

\* A record is the next stage of a pass.
IsNext(q, p, x, i) ==
    /\ x.stages < Len(p.sequence)
    /\ q[i].class = p.sequence[x.stages + 1]
    /\ x.stages = 0 \/ q[i].time - x.time <= p.gap
Taken(q, x, i) == [stages |-> x.stages + 1, time |-> q[i].time]

LEMMA MatchedIs ==
    ASSUME NEW p \in Patterns, NEW n \in Nat, NEW q \in [1 .. n -> Records], Len(q) = n
    PROVE  LET m == MatchedAlong(q, p)
           IN  /\ m \in [0 .. n -> Pass(p)]
               /\ m[0] = Start
               /\ \A i \in 1 .. n :
                     m[i] = IF IsNext(q, p, m[i - 1], i) THEN Taken(q, m[i - 1], i) ELSE m[i - 1]
<1> DEFINE T == Pass(p)
           Choice(x, i) == IF IsNext(q, p, x, i) THEN Taken(q, x, i) ELSE x
           step == [x \in T |-> [i \in 1 .. n |-> Choice(x, i)]]
<1>1. Len(p.sequence) \in Nat
  BY CorrelationAssumption
<1>2. Start \in T
  BY <1>1 DEF Pass, Start
<1>3. \A x \in T, i \in 1 .. n : Choice(x, i) \in T
  <2> SUFFICES ASSUME NEW x \in T, NEW i \in 1 .. n, IsNext(q, p, x, i) PROVE Taken(q, x, i) \in T
    OBVIOUS
  <2>1. q[i].time \in 0 .. MaxClock
    BY DEF Records
  <2>2. x.stages \in 0 .. Len(p.sequence) /\ x.stages < Len(p.sequence)
    BY DEF Pass, IsNext
  <2>3. q[i].time \in Nat /\ x.stages + 1 \in 0 .. Len(p.sequence)
    BY <1>1, <2>1, <2>2, CorrelationNumbers
  <2> QED
    BY <2>3 DEF Taken, Pass
<1>4. step \in [T -> [1 .. n -> T]]
  BY <1>3
<1>5. \A x \in T, i \in 1 .. n : step[x][i] = Choice(x, i)
  OBVIOUS
<1> HIDE DEF T, step
<1>6. PICK f : f \in [0 .. n -> T] /\ f[0] = Start /\ \A i \in 1 .. n : f[i] = step[f[i - 1]][i]
  <2>1. \E f : Follows(f, n, T, Start, step)
    BY <1>2, <1>4, Recursion, Zenon
  <2> QED
    BY <2>1 DEF Follows
<1> HIDE DEF Choice
<1>7. \A i \in 1 .. n : i - 1 \in 0 .. n /\ f[i] = Choice(f[i - 1], i)
  <2> SUFFICES ASSUME NEW i \in 1 .. n
               PROVE  i - 1 \in 0 .. n /\ f[i] = Choice(f[i - 1], i)
    OBVIOUS
  <2>1. i - 1 \in 0 .. n
    OBVIOUS
  <2> QED
    BY <1>5, <1>6, <2>1
<1> DEFINE Whole(g) == [i \in 0 .. n |-> IF i = 0 THEN Start ELSE Choice(g[i - 1], i)]
<1>8. f = Whole(f)
  <2>1. \A i \in 0 .. n : f[i] = IF i = 0 THEN Start ELSE Choice(f[i - 1], i)
    BY <1>6, <1>7
  <2> QED
    BY <1>6, <2>1
<1>9. MatchedAlong(q, p) = CHOOSE g : g = Whole(g)
  BY DEF MatchedAlong, Choice, IsNext, Taken, Start
<1>10. MatchedAlong(q, p) = Whole(MatchedAlong(q, p))
  BY <1>8, <1>9, Zenon
<1> DEFINE m == MatchedAlong(q, p)
<1>11. m = Whole(m)
  BY <1>10
<1> HIDE DEF m
<1>12. \A i \in 0 .. n : m[i] = IF i = 0 THEN Start ELSE Choice(m[i - 1], i)
  BY <1>11
<1>13. DOMAIN m = 0 .. n /\ m = [i \in 0 .. n |-> m[i]]
  BY <1>11
<1>14. 0 \in 0 .. n /\ \A i \in 1 .. n : i \in 0 .. n /\ i # 0
  OBVIOUS
<1>15. m[0] = Start /\ \A i \in 1 .. n : m[i] = Choice(m[i - 1], i)
  BY <1>12, <1>14
<1>16. \A i \in 0 .. n : m[i] \in T
  <2> DEFINE S == {i \in 0 .. n : m[i] \in T}
  <2>1. 0 \in S
    BY <1>2, <1>14, <1>15
  <2>2. ASSUME NEW i \in 1 .. n, i - 1 \in S PROVE i \in S
    BY <1>3, <1>14, <1>15, <2>2
  <2> HIDE DEF S
  <2>3. \A i \in 0 .. n : i \in S
    BY <2>1, <2>2, UpTo, Zenon
  <2> QED
    BY <2>3 DEF S
<1>17. m \in [0 .. n -> T]
  BY <1>13, <1>16
<1> QED
  BY <1>15, <1>17 DEF m, T, Choice

\* The records a pass took are stages of the pattern, in their order and each within
\* the gap of the one before; the pass holds the time of the last.
Traces(f, q, p, x, i) ==
    /\ f \in [1 .. x.stages -> 1 .. i]
    /\ \A k \in 1 .. x.stages : q[f[k]].class = p.sequence[k]
    /\ \A k \in 1 .. x.stages - 1 : f[k] < f[k + 1] /\ q[f[k + 1]].time - q[f[k]].time <= p.gap
    /\ x.stages # 0 => q[f[x.stages]].time = x.time

LEMMA TraceGrows ==
    ASSUME NEW p \in Patterns, NEW n \in Nat, NEW q \in [1 .. n -> Records],
           NEW i \in 1 .. n, NEW x \in Pass(p), NEW f, Traces(f, q, p, x, i - 1)
    PROVE  /\ Traces(f, q, p, x, i)
           /\ IsNext(q, p, x, i) => \E g : Traces(g, q, p, Taken(q, x, i), i)
<1>1. x.stages \in Nat
  BY CorrelationAssumption DEF Pass
<1>2. PICK s \in Nat : s = x.stages
  BY <1>1
<1>3. /\ f \in [1 .. s -> 1 .. i - 1]
      /\ \A k \in 1 .. s : q[f[k]].class = p.sequence[k]
      /\ \A k \in 1 .. s - 1 : f[k] < f[k + 1] /\ q[f[k + 1]].time - q[f[k]].time <= p.gap
      /\ s # 0 => q[f[s]].time = x.time
  BY <1>2 DEF Traces
<1>4. \A k \in 1 .. s : f[k] \in 1 .. i /\ f[k] < i
  BY <1>3
<1>5. f \in [1 .. s -> 1 .. i]
  BY <1>3, <1>4
<1>6. Traces(f, q, p, x, i)
  BY <1>2, <1>3, <1>5 DEF Traces
<1>7. ASSUME IsNext(q, p, x, i) PROVE \E g : Traces(g, q, p, Taken(q, x, i), i)
  <2> DEFINE g == [k \in 1 .. s + 1 |-> IF k = s + 1 THEN i ELSE f[k]]
  <2>1. \A k \in 1 .. s + 1 : k = s + 1 \/ k \in 1 .. s
    OBVIOUS
  <2>2. g \in [1 .. s + 1 -> 1 .. i]
    BY <1>4, <2>1
  <2>3. g[s + 1] = i /\ \A k \in 1 .. s : g[k] = f[k]
    OBVIOUS
  <2> HIDE DEF g
  <2>4. Taken(q, x, i).stages = s + 1 /\ Taken(q, x, i).time = q[i].time
    BY <1>2 DEF Taken
  <2>5. q[i].class = p.sequence[s + 1] /\ (s = 0 \/ q[i].time - x.time <= p.gap)
    BY <1>2, <1>7 DEF IsNext
  <2>6. \A k \in 1 .. s + 1 : q[g[k]].class = p.sequence[k]
    BY <1>3, <2>1, <2>3, <2>5
  <2>7. \A k \in 1 .. s : g[k] < g[k + 1] /\ q[g[k + 1]].time - q[g[k]].time <= p.gap
    <3> SUFFICES ASSUME NEW k \in 1 .. s
                 PROVE  g[k] < g[k + 1] /\ q[g[k + 1]].time - q[g[k]].time <= p.gap
      OBVIOUS
    <3>1. CASE k = s
      BY <1>3, <1>4, <2>3, <2>5, <3>1
    <3>2. CASE k # s
      <4>1. k \in 1 .. s - 1 /\ k + 1 \in 1 .. s
        BY <3>2
      <4> QED
        BY <1>3, <2>3, <4>1
    <3> QED
      BY <3>1, <3>2
  <2>8. Traces(g, q, p, Taken(q, x, i), i)
    <3>1. (s + 1) - 1 = s /\ s + 1 # 0
      OBVIOUS
    <3> QED
      BY <2>2, <2>3, <2>4, <2>6, <2>7, <3>1 DEF Traces
  <2> QED
    BY <2>8
<1> QED
  BY <1>6, <1>7

LEMMA MatchedHasStages ==
    ASSUME NEW p \in Patterns, NEW q \in Seq(Records), Matched(q, p) = Len(p.sequence)
    PROVE  HasStages(q, p)
<1> DEFINE n == Len(q)
           m == MatchedAlong(q, p)
           S == {i \in 0 .. n : \E f : Traces(f, q, p, m[i], i)}
<1>1. n \in Nat /\ q \in [1 .. n -> Records] /\ Len(q) = n
  OBVIOUS
<1>2. /\ m \in [0 .. n -> Pass(p)]
      /\ m[0] = Start
      /\ \A i \in 1 .. n :
            m[i] = IF IsNext(q, p, m[i - 1], i) THEN Taken(q, m[i - 1], i) ELSE m[i - 1]
  BY <1>1, MatchedIs
<1> HIDE DEF m, n
<1>3. 0 \in S
  <2> DEFINE f == [k \in 1 .. 0 |-> k]
  <2>1. m[0].stages = 0 /\ 0 \in 0 .. n
    BY <1>1, <1>2 DEF Start
  <2>2. \A k \in 1 .. 0 : FALSE
    OBVIOUS
  <2>3. \A k \in 1 .. 0 - 1 : FALSE
    OBVIOUS
  <2>4. f \in [1 .. 0 -> 1 .. 0]
    OBVIOUS
  <2> HIDE DEF f
  <2>5. Traces(f, q, p, m[0], 0)
    BY <2>1, <2>2, <2>3, <2>4 DEF Traces
  <2> QED
    BY <2>1, <2>5
<1>4. ASSUME NEW i \in 1 .. n, i - 1 \in S PROVE i \in S
  <2>1. i - 1 \in 0 .. n /\ i \in 0 .. n
    BY <1>1
  <2>2. PICK x \in Pass(p) : x = m[i - 1]
    BY <1>2, <2>1
  <2>3. PICK f : Traces(f, q, p, x, i - 1)
    BY <1>4, <2>2
  <2>4. /\ Traces(f, q, p, x, i)
        /\ IsNext(q, p, x, i) => \E g : Traces(g, q, p, Taken(q, x, i), i)
    BY <1>1, <2>3, TraceGrows
  <2>5. m[i] = IF IsNext(q, p, x, i) THEN Taken(q, x, i) ELSE x
    BY <1>2, <2>2
  <2>6. \E g : Traces(g, q, p, m[i], i)
    BY <2>4, <2>5
  <2> QED
    BY <2>1, <2>6
<1> HIDE DEF S
<1>5. \A i \in 0 .. n : i \in S
  BY <1>1, <1>3, <1>4, UpTo, Zenon
<1>6. n \in 0 .. n
  BY <1>1
<1>7. PICK f : Traces(f, q, p, m[n], n)
  BY <1>5, <1>6 DEF S
<1>8. m[n].stages = Len(p.sequence)
  BY DEF Matched, m, n
<1>9. DOMAIN q = 1 .. n /\ DOMAIN p.sequence = 1 .. Len(p.sequence)
  BY <1>1, CorrelationAssumption
<1>10. /\ f \in [1 .. Len(p.sequence) -> DOMAIN q]
       /\ \A k \in DOMAIN p.sequence : q[f[k]].class = p.sequence[k]
       /\ \A k \in 1 .. Len(p.sequence) - 1 :
              f[k] < f[k + 1] /\ q[f[k + 1]].time - q[f[k]].time <= p.gap
  BY <1>7, <1>8, <1>9 DEF Traces
<1> QED
  BY <1>10 DEF HasStages

-----------------------------------------------------------------------------
(* Correlation: each action preserves the invariant.                        *)

LEMMA RecordParts ==
    ASSUME NEW r \in Records
    PROVE  /\ r.source \in Ips /\ r.host \in Hosts /\ r.class \in Classes
           /\ r \in RecordsOf(r.source) /\ r \in RecordsFrom(r.host)
           /\ \A s : r \in RecordsOf(s) <=> s = r.source
           /\ \A h : r \in RecordsFrom(h) <=> h = r.host
  BY DEF Records, RecordsOf, RecordsFrom

\* The places of a source among all records are those of records of its kind.
LEMMA PlacesAre ==
    ASSUME NEW q \in Seq(Records)
    PROVE  /\ \A s : {i \in DOMAIN q : q[i].source = s} = Places(q, RecordsOf(s))
           /\ \A h : {i \in DOMAIN q : q[i].host = h} = Places(q, RecordsFrom(h))
<1>1. DOMAIN q = 1 .. Len(q) /\ \A i \in 1 .. Len(q) : q[i] \in Records
  OBVIOUS
<1> QED
  BY <1>1 DEF Places, RecordsOf, RecordsFrom

\* The sources of a campaign keep the one that came last, at its end.
LEMMA ExtendedIs ==
    ASSUME NEW sources \in Seq(Ips), NEW s \in Ips, Len(sources) \in 1 .. MaxSources
    PROVE  /\ Extended(sources, s) \in Seq(Ips)
           /\ Len(Extended(sources, s)) \in 1 .. MaxSources
           /\ s \in ToSet(Extended(sources, s))
<1> DEFINE all == IF sources[Len(sources)] = s THEN sources ELSE Append(sources, s)
<1>1. all \in Seq(Ips) /\ Len(all) \in 1 .. MaxSources + 1 /\ all[Len(all)] = s
  BY CorrelationNumbers
<1>2. PICK h \in Nat : h = MaxSources \div 2
  BY CorrelationNumbers
<1>3. h >= 1 /\ h <= MaxSources
  BY <1>2, CorrelationNumbers
<1>4. Extended(sources, s) = IF Len(all) > MaxSources
                             THEN SubSeq(all, Len(all) - h + 1, Len(all)) ELSE all
  BY <1>2 DEF Extended
<1> HIDE DEF all
<1>5. \A t \in Seq(Ips) : Len(t) \in 1 .. MaxSources /\ t[Len(t)] = s => s \in ToSet(t)
  BY DEF ToSet
<1>6. CASE Len(all) > MaxSources
  <2> DEFINE t == SubSeq(all, Len(all) - h + 1, Len(all))
  <2>1. Len(all) - h + 1 \in Int /\ Len(all) \in Int /\ Len(all) - h + 1 >= 1 /\ Len(all) - h + 1 <= Len(all)
    BY <1>1, <1>3, <1>6, CorrelationNumbers
  <2>2. \A i \in Len(all) - h + 1 .. Len(all) : all[i] \in Ips
    BY <1>1, <2>1
  <2>3. PICK a \in Int : a = Len(all) - h + 1
    BY <2>1
  <2>4. /\ SubSeq(all, a, Len(all)) \in Seq(Ips)
        /\ Len(SubSeq(all, a, Len(all))) = IF a <= Len(all) THEN Len(all) - a + 1 ELSE 0
        /\ \A i \in 1 .. Len(all) - a + 1 : SubSeq(all, a, Len(all))[i] = all[a + i - 1]
    <3>1. \A i \in a .. Len(all) : all[i] \in Ips
      BY <2>2, <2>3
    <3>2. PICK b \in Int : b = Len(all)
      BY <2>1
    <3>3. \A i \in a .. b : all[i] \in Ips
      BY <3>1, <3>2
    <3> QED
      BY <3>2, <3>3, SubSeqProperties
  <2>5. t = SubSeq(all, a, Len(all))
    BY <2>3
  <2> HIDE DEF t
  <2>6. t \in Seq(Ips) /\ Len(t) = h
    BY <1>1, <1>3, <2>1, <2>3, <2>4, <2>5
  <2>7. t[h] = s
    <3>1. h \in 1 .. Len(all) - a + 1 /\ a + h - 1 = Len(all)
      BY <1>1, <1>3, <2>1, <2>3
    <3>2. t[h] = all[a + h - 1]
      BY <2>4, <2>5, <3>1
    <3> QED
      BY <1>1, <3>1, <3>2
  <2>8. t = Extended(sources, s)
    BY <1>4, <1>6 DEF t
  <2>9. Len(t) \in 1 .. MaxSources /\ s \in ToSet(t)
    BY <1>3, <1>5, <2>6, <2>7, CorrelationNumbers
  <2> QED
    BY <2>6, <2>8, <2>9
<1>7. CASE ~(Len(all) > MaxSources)
  BY <1>1, <1>4, <1>5, <1>7, CorrelationNumbers
<1> QED
  BY <1>6, <1>7

\* After update_campaign the source of the alert is in a campaign, unless no campaign
\* matched and the alert was not serious or there were too many.
LEMMA CampaignStep ==
    ASSUME CampaignsInv, clock \in Nat, NEW r \in Records, UpdateCampaign(r)
    PROVE  /\ CampaignsInv'
           /\ CampaignsFor(r.source)' = {} =>
                  /\ UNCHANGED campaigns
                  /\ r.score = "high" => Len(campaigns) >= MaxCampaigns
                  /\ \A n \in 1 .. Len(campaigns) : campaigns[n].class # r.class
<1>1. campaigns \in Seq(Campaign) /\ Len(campaigns) \in 0 .. MaxCampaigns /\ DOMAIN campaigns = 1 .. Len(campaigns)
  BY CorrelationNumbers DEF CampaignsInv
<1>2. CampaignsFor(r.source)' = {n \in DOMAIN campaigns' : r.source \in ToSet(campaigns'[n].sources)}
  BY DEF CampaignsFor
<1>3. CASE \E n \in DOMAIN campaigns : JoinCampaign(r, n)
  <2>1. PICK n \in 1 .. Len(campaigns) : JoinCampaign(r, n)
    BY <1>1, <1>3
  <2>2. campaigns[n] \in Campaign /\ campaigns[n].sources \in Seq(Ips)
    <3>1. campaigns[n] \in Campaign
      BY <1>1
    <3> QED
      BY <3>1 DEF Campaign
  <2>3. PICK e : e = Extended(campaigns[n].sources, r.source)
    OBVIOUS
  <2>4. e \in Seq(Ips) /\ Len(e) \in 1 .. MaxSources /\ r.source \in ToSet(e)
    <3>1. Len(campaigns[n].sources) \in 1 .. MaxSources
      BY DEF CampaignsInv
    <3> QED
      BY <2>2, <2>3, <3>1, ExtendedIs, RecordParts
  <2>5. campaigns' = [campaigns EXCEPT ![n] = [campaigns[n] EXCEPT !.lastSeen = clock, !.sources = e]]
    BY <1>1, <2>2, <2>3, <2>1 DEF JoinCampaign, Campaign
  <2>6. PICK c : c = [campaigns[n] EXCEPT !.lastSeen = clock, !.sources = e]
    OBVIOUS
  <2>7. c \in Campaign /\ c.sources = e
    BY <2>2, <2>4, <2>6 DEF Campaign
  <2>8. campaigns' = [campaigns EXCEPT ![n] = c]
    BY <2>5, <2>6
  <2>9. /\ campaigns' \in Seq(Campaign) /\ Len(campaigns') = Len(campaigns)
        /\ \A k \in 1 .. Len(campaigns) : campaigns'[k] = IF k = n THEN c ELSE campaigns[k]
    BY <1>1, <2>7, <2>8
  <2>10. CampaignsInv'
    BY <2>4, <2>7, <2>9 DEF CampaignsInv
  <2>11. n \in CampaignsFor(r.source)'
    BY <1>2, <2>4, <2>7, <2>9
  <2> QED
    BY <2>10, <2>11
<1>4. CASE \A n \in DOMAIN campaigns : ~Matches(campaigns[n], r)
  <2>1. \A n \in 1 .. Len(campaigns) : campaigns[n].class # r.class
    BY <1>1, <1>4 DEF Matches
  <2>2. CASE r.score # "high" \/ Len(campaigns) >= MaxCampaigns
    <3>1. UNCHANGED campaigns
      <4>1. CASE \E n \in DOMAIN campaigns : JoinCampaign(r, n)
        BY <1>4, <4>1 DEF JoinCampaign
      <4> QED
        BY <2>2, <4>1 DEF UpdateCampaign
    <3> QED
      BY <2>1, <2>2, <3>1 DEF CampaignsInv
  <2>3. CASE ~(r.score # "high" \/ Len(campaigns) >= MaxCampaigns)
    <3>1. PICK c : c = [class |-> r.class, sources |-> << r.source >>, lastSeen |-> clock]
      OBVIOUS
    <3>2. campaigns' = Append(campaigns, c)
      <4>1. CASE \E n \in DOMAIN campaigns : JoinCampaign(r, n)
        BY <1>4, <4>1 DEF JoinCampaign
      <4> QED
        BY <2>3, <3>1, <4>1 DEF UpdateCampaign
    <3>3. << r.source >> \in Seq(Ips) /\ Len(<< r.source >>) = 1 /\ r.source \in ToSet(<< r.source >>)
      BY RecordParts DEF ToSet
    <3>4. c \in Campaign /\ c.sources = << r.source >>
      BY <3>1, <3>3, RecordParts DEF Campaign
    <3>5. /\ campaigns' \in Seq(Campaign) /\ Len(campaigns') = Len(campaigns) + 1
          /\ \A k \in 1 .. Len(campaigns) : campaigns'[k] = campaigns[k]
          /\ campaigns'[Len(campaigns) + 1] = c
      BY <1>1, <3>2, <3>4
    <3>6. \A k \in 1 .. Len(campaigns') : Len(campaigns'[k].sources) \in 1 .. MaxSources
      <4>1. \A k \in 1 .. Len(campaigns) : Len(campaigns'[k].sources) \in 1 .. MaxSources
        BY <3>5 DEF CampaignsInv
      <4>2. Len(c.sources) \in 1 .. MaxSources
        BY <3>3, <3>4, CorrelationNumbers
      <4>3. \A k \in 1 .. Len(campaigns') : k \in 1 .. Len(campaigns) \/ k = Len(campaigns) + 1
        BY <1>1, <3>5
      <4> QED
        BY <3>5, <4>1, <4>2, <4>3
    <3>7. CampaignsInv'
      BY <1>1, <2>3, <3>5, <3>6, CorrelationNumbers DEF CampaignsInv
    <3>8. Len(campaigns) + 1 \in CampaignsFor(r.source)'
      <4>1. Len(campaigns) + 1 \in DOMAIN campaigns'
        BY <1>1, <3>5
      <4>2. r.source \in ToSet(campaigns'[Len(campaigns) + 1].sources)
        BY <3>3, <3>4, <3>5
      <4> QED
        BY <1>2, <4>1, <4>2, Zenon
    <3> QED
      BY <3>7, <3>8
  <2> QED
    BY <2>2, <2>3
<1> QED
  BY <1>3, <1>4 DEF UpdateCampaign

LEMMA StoresStep ==
    ASSUME StoresInv, NEW r \in Records, Process(r)
    PROVE  StoresInv'
<1>1. /\ ipRecords' = [ipRecords EXCEPT ![r.source] = Keep(@, r, MaxPerIp)]
      /\ hostRecords' = [hostRecords EXCEPT ![r.host] = Keep(@, r, MaxPerHost)]
      /\ globalRecords' = Keep(globalRecords, r, MaxGlobal)
  BY DEF Process
<1>2. DOMAIN ipRecords' = Ips /\ DOMAIN hostRecords' = Hosts
  BY <1>1 DEF StoresInv
<1>3. \A s \in Ips : ipRecords'[s] \in Seq(RecordsOf(s)) /\ Len(ipRecords'[s]) <= MaxPerIp
  <2> SUFFICES ASSUME NEW s \in Ips
               PROVE  ipRecords'[s] \in Seq(RecordsOf(s)) /\ Len(ipRecords'[s]) <= MaxPerIp
    OBVIOUS
  <2>1. CASE s = r.source
    <3>1. ipRecords'[s] = Keep(ipRecords[s], r, MaxPerIp)
      BY <1>1, <2>1 DEF StoresInv
    <3>2. r \in RecordsOf(s) /\ ipRecords[s] \in Seq(RecordsOf(s)) /\ Len(ipRecords[s]) <= MaxPerIp
      BY <2>1, RecordParts DEF StoresInv
    <3> QED
      BY <3>1, <3>2, KeepIs, CorrelationNumbers
  <2>2. CASE s # r.source
    BY <1>1, <2>2 DEF StoresInv
  <2> QED
    BY <2>1, <2>2
<1>4. \A h \in Hosts : hostRecords'[h] \in Seq(RecordsFrom(h)) /\ Len(hostRecords'[h]) <= MaxPerHost
  <2> SUFFICES ASSUME NEW h \in Hosts
               PROVE  hostRecords'[h] \in Seq(RecordsFrom(h)) /\ Len(hostRecords'[h]) <= MaxPerHost
    OBVIOUS
  <2>1. CASE h = r.host
    <3>1. hostRecords'[h] = Keep(hostRecords[h], r, MaxPerHost)
      BY <1>1, <2>1 DEF StoresInv
    <3>2. r \in RecordsFrom(h) /\ hostRecords[h] \in Seq(RecordsFrom(h)) /\ Len(hostRecords[h]) <= MaxPerHost
      BY <2>1, RecordParts DEF StoresInv
    <3> QED
      BY <3>1, <3>2, KeepIs, CorrelationNumbers
  <2>2. CASE h # r.host
    BY <1>1, <2>2 DEF StoresInv
  <2> QED
    BY <2>1, <2>2
<1>5. globalRecords' \in Seq(Records) /\ Len(globalRecords') <= MaxGlobal
  BY <1>1, KeepIs, CorrelationNumbers DEF StoresInv
<1> QED
  BY <1>2, <1>3, <1>4, <1>5 DEF StoresInv

LEMMA AgreeStep ==
    ASSUME StoresInv, StoresAgree, NEW r \in Records, Process(r)
    PROVE  StoresAgree'
<1>1. /\ ipRecords' = [ipRecords EXCEPT ![r.source] = Keep(@, r, MaxPerIp)]
      /\ hostRecords' = [hostRecords EXCEPT ![r.host] = Keep(@, r, MaxPerHost)]
      /\ globalRecords' = Keep(globalRecords, r, MaxGlobal)
  BY DEF Process
<1>2. globalRecords \in Seq(Records) /\ globalRecords' \in Seq(Records) /\ Len(globalRecords) <= MaxGlobal
  BY StoresStep DEF StoresInv
<1>3. /\ \A s : PlacesOf(s) = Places(globalRecords, RecordsOf(s))
      /\ \A s : PlacesOf(s)' = Places(globalRecords', RecordsOf(s))
      /\ \A h : PlacesFrom(h) = Places(globalRecords, RecordsFrom(h))
      /\ \A h : PlacesFrom(h)' = Places(globalRecords', RecordsFrom(h))
  BY <1>2, PlacesAre DEF PlacesOf, PlacesFrom
<1>4. \A s \in Ips : EndAlike(ipRecords'[s], globalRecords', Places(globalRecords', RecordsOf(s)))
  <2> SUFFICES ASSUME NEW s \in Ips
               PROVE  EndAlike(ipRecords'[s], globalRecords', Places(globalRecords', RecordsOf(s)))
    OBVIOUS
  <2>1. ipRecords'[s] = IF r \in RecordsOf(s) THEN Keep(ipRecords[s], r, MaxPerIp) ELSE ipRecords[s]
    BY <1>1, RecordParts DEF StoresInv
  <2>2. ipRecords[s] \in Seq(Records) /\ Len(ipRecords[s]) <= MaxPerIp
    <3>1. RecordsOf(s) \subseteq Records
      BY DEF RecordsOf
    <3> QED
      BY <3>1 DEF StoresInv
  <2>3. EndAlike(ipRecords[s], globalRecords, Places(globalRecords, RecordsOf(s)))
    BY <1>3 DEF StoresAgree
  <2> QED
    BY <1>1, <1>2, <2>1, <2>2, <2>3, KeepsAlike, CorrelationNumbers
<1>5. \A h \in Hosts : EndAlike(hostRecords'[h], globalRecords', Places(globalRecords', RecordsFrom(h)))
  <2> SUFFICES ASSUME NEW h \in Hosts
               PROVE  EndAlike(hostRecords'[h], globalRecords', Places(globalRecords', RecordsFrom(h)))
    OBVIOUS
  <2>1. hostRecords'[h] = IF r \in RecordsFrom(h) THEN Keep(hostRecords[h], r, MaxPerHost) ELSE hostRecords[h]
    BY <1>1, RecordParts DEF StoresInv
  <2>2. hostRecords[h] \in Seq(Records) /\ Len(hostRecords[h]) <= MaxPerHost
    <3>1. RecordsFrom(h) \subseteq Records
      BY DEF RecordsFrom
    <3> QED
      BY <3>1 DEF StoresInv
  <2>3. EndAlike(hostRecords[h], globalRecords, Places(globalRecords, RecordsFrom(h)))
    BY <1>3 DEF StoresAgree
  <2> QED
    BY <1>1, <1>2, <2>1, <2>2, <2>3, KeepsAlike, CorrelationNumbers
<1> QED
  BY <1>3, <1>4, <1>5 DEF StoresAgree

LEMMA ProcessStep ==
    ASSUME CorrelationInv, NEW r \in Records, Process(r)
    PROVE  CorrelationInv'
<1>1. StoresInv /\ CampaignsInv /\ StoresAgree /\ clock \in Nat
  BY DEF CorrelationInv
<1>2. StoresInv' /\ StoresAgree' /\ clock' \in Nat
  BY <1>1, StoresStep, AgreeStep DEF Process
<1>3. /\ CampaignsInv'
      /\ CampaignsFor(r.source)' = {} =>
             /\ UNCHANGED campaigns
             /\ r.score = "high" => Len(campaigns) >= MaxCampaigns
             /\ \A n \in 1 .. Len(campaigns) : campaigns[n].class # r.class
  BY <1>1, CampaignStep DEF Process
<1>4. LastInv'
  <2>1. PICK id \in IF CampaignsFor(r.source)' = {} THEN {0} ELSE CampaignsFor(r.source)' :
            last'.class = r.class /\ last'.score = r.score /\ last'.campaign = id
    BY DEF Process
  <2>2. CASE CampaignsFor(r.source)' = {}
    BY <1>3, <2>1, <2>2 DEF LastInv
  <2>3. CASE CampaignsFor(r.source)' # {}
    <3>1. id \in DOMAIN campaigns' /\ campaigns' \in Seq(Campaign)
      BY <1>3, <2>1, <2>3 DEF CampaignsFor, CampaignsInv
    <3>2. id # 0
      BY <3>1
    <3> QED
      BY <2>1, <3>2 DEF LastInv
  <2> QED
    BY <2>2, <2>3
<1> QED
  BY <1>2, <1>3, <1>4 DEF CorrelationInv

LEMMA CorrelationBegins ==
    ASSUME CorrelationInit
    PROVE  CorrelationInv
<1>1. StoresInv /\ CampaignsInv /\ LastInv /\ clock \in Nat
  BY CorrelationNumbers DEF CorrelationInit, StoresInv, CampaignsInv, LastInv
<1>2. StoresAgree
  BY DEF CorrelationInit, StoresAgree, EndAlike, PlacesOf, PlacesFrom
<1> QED
  BY <1>1, <1>2 DEF CorrelationInv

LEMMA CorrelationStep ==
    ASSUME CorrelationInv, [CorrelationNext]_cvars
    PROVE  CorrelationInv'
<1>1. CASE \E r \in Records : Process(r)
  BY <1>1, ProcessStep
<1>2. CASE ClockTick \/ UNCHANGED cvars
  <2>1. UNCHANGED << ipRecords, hostRecords, globalRecords, campaigns, last >> /\ clock' \in Nat
    BY <1>2 DEF ClockTick, cvars, CorrelationInv
  <2> QED
    BY <2>1 DEF CorrelationInv, StoresInv, CampaignsInv, LastInv, StoresAgree, PlacesOf, PlacesFrom
<1> QED
  BY <1>1, <1>2 DEF CorrelationNext

\* Type correctness of the correlation engine and its limits: whatever is alerted, no
\* deque, no list of campaigns and no list of sources grows beyond its limit, and each
\* deque holds the alerts of its own source or host only.
THEOREM StoresStayBounded == CorrelationSpec => []CorrelationInv
<1>1. CorrelationInit => CorrelationInv
  BY CorrelationBegins
<1>2. CorrelationInv /\ [CorrelationNext]_cvars => CorrelationInv'
  BY CorrelationStep
<1> QED
  BY <1>1, <1>2, PTL DEF CorrelationSpec

\* StoresAgree, for any limits: the three stores are pushed to and evict independently,
\* and what is left of them ends with the same alerts.
THEOREM StoresTellOneStory == CorrelationSpec => []StoresAgree
<1>1. CorrelationInv => StoresAgree
  BY DEF CorrelationInv
<1> QED
  BY <1>1, StoresStayBounded, PTL

\* MultiStageSound, for patterns of any length, any gap and records of any number: the
\* one pass over the deque reports no chain of stages that is not there.
THEOREM MultiStagesAreThere == CorrelationSpec => []MultiStageSound
<1>1. ASSUME CorrelationInv PROVE MultiStageSound
  <2> SUFFICES ASSUME NEW s \in Ips, DetectMultiStage(ipRecords[s])
               PROVE  \E p \in Patterns : HasStages(ipRecords[s], p)
    BY DEF MultiStageSound
  <2>1. ipRecords[s] \in Seq(Records)
    <3>1. RecordsOf(s) \subseteq Records
      BY DEF RecordsOf
    <3> QED
      BY <1>1, <3>1 DEF CorrelationInv, StoresInv
  <2> QED
    BY <2>1, MatchedHasStages DEF DetectMultiStage
<1> QED
  BY <1>1, StoresStayBounded, PTL

\* SeriousAlertsInCampaign, for any limits: cutting the oldest sources off never takes
\* away the source that has just joined, so a serious alert is left without a campaign
\* only when there are as many as there may be and none matches.
THEOREM SeriousAlertsJoin == CorrelationSpec => []SeriousAlertsInCampaign
<1>1. ASSUME CorrelationInv PROVE SeriousAlertsInCampaign
  <2>1. LastInv /\ campaigns \in Seq(Campaign) /\ Len(campaigns) <= MaxCampaigns
    BY <1>1 DEF CorrelationInv, CampaignsInv
  <2> QED
    BY <2>1, CorrelationNumbers DEF LastInv, SeriousAlertsInCampaign
<1> QED
  BY <1>1, StoresStayBounded, PTL

-----------------------------------------------------------------------------
(* FusedEngine: what the strategies choose.                                 *)

Answer == [validated : BOOLEAN, confidence : 0 .. 100]

LEMMA AnswerParts ==
    ASSUME NEW a \in Answer
    PROVE  a.confidence \in Nat /\ a.validated \in BOOLEAN
<1>1. a.confidence \in 0 .. 100 /\ a.validated \in BOOLEAN
  BY DEF Answer
<1>2. \A c \in 0 .. 100 : c \in Nat
  OBVIOUS
<1> QED
  BY <1>1, <1>2

\* The loop of ConsensusFusion over the answers.
LEMMA BestIs ==
    ASSUME NEW n \in Nat, NEW answers \in [1 .. n -> Answer], Len(answers) = n
    PROVE  LET best == BestAlong(answers)
           IN  /\ best \in [0 .. n -> 0 .. n]
               /\ best[0] = 0
               /\ \A i \in 1 .. n :
                     best[i] = IF /\ answers[i].validated
                                  /\ answers[i].confidence > Confidence(answers, best[i - 1])
                               THEN i ELSE best[i - 1]
<1> DEFINE Choice(b, i) ==
               IF answers[i].validated /\ answers[i].confidence > Confidence(answers, b)
               THEN i ELSE b
           step == [b \in 0 .. n |-> [i \in 1 .. n |-> Choice(b, i)]]
<1>1. \A b \in 0 .. n, i \in 1 .. n : Choice(b, i) \in 0 .. n
  OBVIOUS
<1>2. step \in [0 .. n -> [1 .. n -> 0 .. n]]
  BY <1>1
<1>3. \A b \in 0 .. n, i \in 1 .. n : step[b][i] = Choice(b, i)
  OBVIOUS
<1> HIDE DEF step
<1>4. 0 \in 0 .. n
  OBVIOUS
<1>5. PICK f \in [0 .. n -> 0 .. n] :
          f[0] = 0 /\ \A i \in 1 .. n : f[i] = step[f[i - 1]][i]
  <2> DEFINE T == 0 .. n
  <2> HIDE DEF T
  <2>1. 0 \in T /\ step \in [T -> [1 .. n -> T]]
    BY <1>2, <1>4 DEF T
  <2>2. \E f : Follows(f, n, T, 0, step)
    BY <2>1, Recursion, Zenon
  <2> QED
    BY <2>2 DEF T, Follows
<1> HIDE DEF Choice
<1>6. \A i \in 1 .. n : i - 1 \in 0 .. n /\ f[i] = Choice(f[i - 1], i)
  <2> SUFFICES ASSUME NEW i \in 1 .. n
               PROVE  i - 1 \in 0 .. n /\ f[i] = Choice(f[i - 1], i)
    OBVIOUS
  <2>1. i - 1 \in 0 .. n
    OBVIOUS
  <2> QED
    BY <1>3, <1>5, <2>1
<1> DEFINE Whole(g) == [i \in 0 .. n |-> IF i = 0 THEN 0 ELSE Choice(g[i - 1], i)]
<1>7. f = Whole(f)
  <2>1. \A i \in 0 .. n : f[i] = IF i = 0 THEN 0 ELSE Choice(f[i - 1], i)
    BY <1>5, <1>6
  <2> QED
    BY <1>5, <2>1
<1>8. BestAlong(answers) = CHOOSE g : g = Whole(g)
  BY DEF BestAlong, Choice
<1>9. BestAlong(answers) = Whole(BestAlong(answers))
  BY <1>7, <1>8, Zenon
<1> DEFINE best == BestAlong(answers)
<1>10. best = Whole(best)
  BY <1>9
<1> HIDE DEF best
<1>11. \A i \in 0 .. n : best[i] = IF i = 0 THEN 0 ELSE Choice(best[i - 1], i)
  BY <1>10
<1>12. DOMAIN best = 0 .. n /\ best = [i \in 0 .. n |-> best[i]]
  BY <1>10
<1>13. \A i \in 1 .. n : i \in 0 .. n /\ i # 0
  OBVIOUS
<1>14. best[0] = 0 /\ \A i \in 1 .. n : best[i] = Choice(best[i - 1], i)
  BY <1>4, <1>11, <1>13
<1>15. \A i \in 0 .. n : best[i] \in 0 .. n
  <2> DEFINE S == {i \in 0 .. n : best[i] \in 0 .. n}
  <2>1. 0 \in S
    BY <1>4, <1>14
  <2>2. ASSUME NEW i \in 1 .. n, i - 1 \in S PROVE i \in S
    BY <1>1, <1>13, <1>14, <2>2
  <2> HIDE DEF S
  <2>3. \A i \in 0 .. n : i \in S
    BY <2>1, <2>2, UpTo, Zenon
  <2> QED
    BY <2>3 DEF S
<1>16. best \in [0 .. n -> 0 .. n]
  BY <1>12, <1>15
<1> QED
  BY <1>14, <1>16 DEF best, Choice

\* Consensus names a validated answer of the highest confidence, or nobody when no
\* validated answer has any.
LEMMA ConsensusIs ==
    ASSUME NEW n \in Nat, NEW answers \in [1 .. n -> Answer], Len(answers) = n
    PROVE  LET c == Consensus(answers)
           IN  /\ c \in 0 .. n
               /\ c # 0 => answers[c].validated /\ answers[c].confidence > 0
               /\ \A i \in 1 .. n : answers[i].validated =>
                      answers[i].confidence <= Confidence(answers, c)
<1> DEFINE best == BestAlong(answers)
           Best(c, k) == /\ c # 0 => answers[c].validated /\ answers[c].confidence > 0
                         /\ \A i \in 1 .. k : answers[i].validated =>
                                answers[i].confidence <= Confidence(answers, c)
           S == {k \in 0 .. n : Best(best[k], k)}
<1>1. /\ best \in [0 .. n -> 0 .. n]
      /\ best[0] = 0
      /\ \A i \in 1 .. n :
            best[i] = IF /\ answers[i].validated
                         /\ answers[i].confidence > Confidence(answers, best[i - 1])
                      THEN i ELSE best[i - 1]
  BY BestIs
<1> HIDE DEF best
<1>2. 0 \in S
  BY <1>1
<1>3. ASSUME NEW k \in 1 .. n, k - 1 \in S PROVE k \in S
  <2> DEFINE b == best[k - 1]
  <2>1. b \in 0 .. n /\ Best(b, k - 1) /\ k \in 0 .. n
    <3>1. k - 1 \in 0 .. n /\ k \in 0 .. n
      OBVIOUS
    <3> HIDE DEF Best
    <3> QED
      BY <1>1, <1>3, <3>1
  <2>2. \A i \in 1 .. n : answers[i].confidence \in Nat
    <3> SUFFICES ASSUME NEW i \in 1 .. n PROVE answers[i].confidence \in Nat
      OBVIOUS
    <3>1. answers[i] \in Answer
      OBVIOUS
    <3> QED
      BY <3>1, AnswerParts
  <2>3. Confidence(answers, b) \in Nat
    <3>1. b = 0 \/ b \in 1 .. n
      BY <2>1
    <3> QED
      BY <2>2, <3>1 DEF Confidence
  <2>7. best[k] = IF answers[k].validated /\ answers[k].confidence > Confidence(answers, b)
                  THEN k ELSE b
    BY <1>1
  <2> HIDE DEF b
  <2>4. \A i \in 1 .. k : i = k \/ i \in 1 .. k - 1
    OBVIOUS
  <2>5. CASE answers[k].validated /\ answers[k].confidence > Confidence(answers, b)
    <3>1. best[k] = k /\ Confidence(answers, k) = answers[k].confidence
      BY <2>5, <2>7 DEF Confidence
    <3>2. answers[k].confidence > 0
      BY <2>2, <2>3, <2>5
    <3>3. \A i \in 1 .. k : answers[i].validated => answers[i].confidence <= answers[k].confidence
      BY <2>1, <2>2, <2>3, <2>4, <2>5
    <3> QED
      BY <2>1, <2>5, <3>1, <3>2, <3>3
  <2>6. CASE ~(answers[k].validated /\ answers[k].confidence > Confidence(answers, b))
    <3>1. best[k] = b
      BY <2>6, <2>7
    <3>2. \A i \in 1 .. k : answers[i].validated => answers[i].confidence <= Confidence(answers, b)
      BY <2>1, <2>2, <2>3, <2>4, <2>6
    <3> QED
      BY <2>1, <3>1, <3>2
  <2> QED
    BY <2>5, <2>6
<1> HIDE DEF S
<1>4. \A k \in 0 .. n : k \in S
  BY <1>2, <1>3, UpTo, Zenon
<1>5. n \in 0 .. n
  OBVIOUS
<1>6. Best(best[n], n) /\ best[n] \in 0 .. n
  BY <1>1, <1>4, <1>5 DEF S
<1> QED
  BY <1>6 DEF Consensus, best

-----------------------------------------------------------------------------
(* FusedEngine: the inductive invariant.                                    *)

Count == Len(Specialists)
Task  == [event : 1 .. MaxEvents, specialist : 1 .. Count]
Future == {None, Pending, Error} \cup {Ready(a) : a \in Answers}

FusedTypeInv ==
    /\ strategy \in {"consensus", "priority"}
    /\ pc \in {"idle", "enqueue", "wait", "join", "gone"}
    /\ event \in 0 .. MaxEvents
    /\ next \in 1 .. Count
    /\ results \in Seq(Answer)
    /\ futures \in [1 .. MaxEvents -> [1 .. Count -> Future]]
    /\ tasks \in Seq(Task)
    /\ worker \in [Workers -> {Asleep, Awake, Left} \cup {Runs(t) : t \in Task}]

\* What the caller has heard: nothing before it waits, then an answer for each
\* future before the next, and all of them when it has returned.
HearingInv ==
    /\ pc \in {"enqueue", "wait"} => event # 0
    /\ event = 0 => results = << >>
    /\ pc = "enqueue" => results = << >>
    /\ pc = "wait" => Len(results) = next - 1
    /\ pc \in {"idle", "join", "gone"} /\ event # 0 =>
           Len(results) = Count /\ verdict = Fuse(results)

\* What was heard of a specialist is what its future holds, unless it was given up.
\* Such a future may get its answer later.
FutureInv ==
    \A i \in 1 .. Len(results) :
        results[i] = Silent \/ futures[event][i] = Ready(results[i])

\* the tasks that were enqueued so far
Enqueued(t) == t.event < event \/ (t.event = event /\ (pc = "enqueue" => t.specialist < next))

FutureOf(t) == futures[t.event][t.specialist]

\* A task is at one place of the queue or with one worker, and its future is pending.
QueuedInv ==
    \A k \in 1 .. Len(tasks) :
        /\ Enqueued(tasks[k]) /\ FutureOf(tasks[k]) = Pending
        /\ \A l \in 1 .. Len(tasks) : tasks[k] = tasks[l] => k = l
        /\ \A w \in Workers : worker[w] # Runs(tasks[k])

RunningInv ==
    \A w \in Workers : worker[w].does = "runs" =>
        /\ Enqueued(worker[w].task) /\ FutureOf(worker[w].task) = Pending
        /\ \A v \in Workers : worker[v] = worker[w] => v = w

FusedInv == FusedTypeInv /\ HearingInv /\ FutureInv /\ QueuedInv /\ RunningInv

LEMMA FusedNumbers ==
    /\ Count \in Nat /\ Count # 0 /\ MaxEvents \in Nat
    /\ DOMAIN Specialists = 1 .. Count
    /\ Answers \subseteq Answer
    /\ Silent \in Answer
<1>1. Silent \in Answer
  BY DEF Silent, Answer
<1> QED
  BY <1>1, FusedAssumption DEF Count, Answer

\* The states of a future and of a worker differ.
LEMMA States ==
    /\ Pending # None /\ Pending # Error
    /\ \A a : Ready(a) # Pending /\ Ready(a) # Error /\ Ready(a) # None
    /\ \A a : Ready(a).state = "ready" /\ Ready(a).answer = a
    /\ None.state # "ready" /\ Pending.state # "ready" /\ Error.state # "ready"
    /\ Asleep.does # "runs" /\ Awake.does # "runs" /\ Left.does # "runs"
    /\ \A t : Runs(t).does = "runs" /\ Runs(t).task = t
  BY DEF Pending, None, Error, Ready, Asleep, Awake, Left, Runs

LEMMA TaskParts ==
    ASSUME NEW t \in Task
    PROVE  /\ t.event \in 1 .. MaxEvents /\ t.specialist \in 1 .. Count
           /\ \A u \in Task : t.event = u.event /\ t.specialist = u.specialist => t = u
  BY DEF Task

\* A worker that runs has a task.
LEMMA RunsTask ==
    ASSUME FusedTypeInv, NEW w \in Workers, worker[w].does = "runs"
    PROVE  worker[w].task \in Task /\ worker[w] = Runs(worker[w].task)
<1>1. worker[w] \in {Asleep, Awake, Left} \cup {Runs(t) : t \in Task}
  BY DEF FusedTypeInv
<1>2. PICK t \in Task : worker[w] = Runs(t)
  BY <1>1, States
<1> QED
  BY <1>2, States

\* What the pool holds stays as it is when no worker begins or ends a task, and no
\* future of a task in the pool changes.
SameRuns ==
    \A w \in Workers : \/ worker'[w] = worker[w]
                       \/ worker[w].does # "runs" /\ worker'[w].does # "runs"

LEMMA PoolStays ==
    ASSUME FusedTypeInv, QueuedInv, RunningInv, SameRuns, UNCHANGED << tasks, futures >>,
           \A t \in Task : Enqueued(t) => Enqueued(t)'
    PROVE  QueuedInv' /\ RunningInv'
<1>1. \A k \in 1 .. Len(tasks) : tasks[k] \in Task
  BY DEF FusedTypeInv
<1>2. \A t \in Task : FutureOf(t)' = FutureOf(t)
  BY DEF FutureOf
<1>3. \A w \in Workers : \A t \in Task : worker'[w] = Runs(t) => worker[w] = Runs(t)
  BY States DEF SameRuns
<1>4. QueuedInv'
  <2> SUFFICES ASSUME NEW k \in 1 .. Len(tasks)
               PROVE  /\ Enqueued(tasks[k])' /\ FutureOf(tasks[k])' = Pending
                      /\ \A l \in 1 .. Len(tasks) : tasks[k] = tasks[l] => k = l
                      /\ \A w \in Workers : worker'[w] # Runs(tasks[k])
    BY DEF QueuedInv
  <2>1. PICK t \in Task : t = tasks[k]
    BY <1>1
  <2>2. Enqueued(t) /\ FutureOf(t) = Pending
    BY <2>1 DEF QueuedInv
  <2>3. Enqueued(t)' /\ FutureOf(t)' = Pending
    BY <1>2, <2>2
  <2>4. Enqueued(tasks[k])' /\ FutureOf(tasks[k])' = Pending
    BY <2>1, <2>3 DEF Enqueued, FutureOf
  <2> QED
    BY <1>3, <2>1, <2>4 DEF QueuedInv
<1>5. RunningInv'
  <2> SUFFICES ASSUME NEW w \in Workers, worker'[w].does = "runs"
               PROVE  /\ Enqueued(worker[w].task)' /\ FutureOf(worker[w].task)' = Pending
                      /\ \A v \in Workers : worker'[v] = worker'[w] => v = w
    BY DEF RunningInv
  <2>1. worker'[w] = worker[w] /\ worker[w].does = "runs"
    BY DEF SameRuns
  <2>2. PICK t \in Task : t = worker[w].task /\ worker[w] = Runs(t)
    BY <2>1, RunsTask
  <2>3. Enqueued(t) /\ FutureOf(t) = Pending
    BY <2>1, <2>2 DEF RunningInv
  <2>4. Enqueued(t)' /\ FutureOf(t)' = Pending
    BY <1>2, <2>3
  <2>5. \A v \in Workers : worker'[v] = worker'[w] => v = w
    BY <1>3, <2>1, <2>2 DEF RunningInv
  <2>6. worker'[w].task = t
    BY <2>1, <2>2
  <2> QED
    BY <2>4, <2>5, <2>6 DEF Enqueued, FutureOf
<1> QED
  BY <1>4, <1>5

-----------------------------------------------------------------------------
(* FusedEngine: each action preserves the invariant.                        *)

LEMMA CallStep ==
    ASSUME FusedInv, Call
    PROVE  FusedInv'
<1> USE DEF FusedInv, Call
<1>1. event' \in 1 .. MaxEvents /\ next' \in 1 .. Count /\ results' = << >> /\ pc' = "enqueue"
  BY FusedNumbers DEF FusedTypeInv
<1>4. FusedTypeInv'
  BY <1>1, FusedNumbers DEF FusedTypeInv, Count
<1>5. HearingInv' /\ FutureInv'
  <2>1. event' # 0 /\ Len(results') = 0
    BY <1>1, FusedNumbers
  <2> QED
    BY <1>1, <2>1 DEF HearingInv, FutureInv
<1>2. \A t \in Task : Enqueued(t) => Enqueued(t)'
  BY FusedNumbers DEF Enqueued, FusedTypeInv, Task
<1>3. SameRuns
  BY DEF SameRuns
<1> QED
  BY <1>2, <1>3, <1>4, <1>5, PoolStays

\* One future changes at a time.
LEMMA FutureSet ==
    ASSUME FusedTypeInv, NEW t \in Task, NEW x \in Future,
           futures' = [futures EXCEPT ![t.event][t.specialist] = x]
    PROVE  /\ futures' \in [1 .. MaxEvents -> [1 .. Count -> Future]]
           /\ FutureOf(t)' = x
           /\ \A u \in Task : u # t => FutureOf(u)' = FutureOf(u)
           /\ \A e \in 1 .. MaxEvents, i \in 1 .. Count :
                 futures'[e][i] = futures[e][i] \/ (e = t.event /\ i = t.specialist)
<1>1. t.event \in 1 .. MaxEvents /\ t.specialist \in 1 .. Count
  BY TaskParts
<1>2. \A e \in 1 .. MaxEvents : futures[e] \in [1 .. Count -> Future]
  BY DEF FusedTypeInv
<1>3. futures' \in [1 .. MaxEvents -> [1 .. Count -> Future]]
  BY <1>1, <1>2 DEF FusedTypeInv
<1>4. futures'[t.event][t.specialist] = x
  BY <1>1, <1>2 DEF FusedTypeInv
<1>5. \A e \in 1 .. MaxEvents, i \in 1 .. Count :
          futures'[e][i] = futures[e][i] \/ (e = t.event /\ i = t.specialist)
  BY <1>1, <1>2 DEF FusedTypeInv
<1>6. \A u \in Task : u # t => FutureOf(u)' = FutureOf(u)
  <2> SUFFICES ASSUME NEW u \in Task, u # t PROVE futures'[u.event][u.specialist] = futures[u.event][u.specialist]
    BY DEF FutureOf
  <2> QED
    BY <1>5, TaskParts
<1> QED
  BY <1>3, <1>4, <1>5, <1>6 DEF FutureOf

\* notify_one wakes a sleeper at most.
LEMMA WakeOneIs ==
    ASSUME FusedTypeInv, WakeOne
    PROVE  SameRuns /\ worker' \in [Workers -> {Asleep, Awake, Left} \cup {Runs(t) : t \in Task}]
<1>1. CASE UNCHANGED worker
  BY <1>1 DEF SameRuns, FusedTypeInv
<1>2. CASE \E w \in Workers : worker[w] = Asleep /\ worker' = [worker EXCEPT ![w] = Awake]
  <2>1. PICK w \in Workers : worker[w] = Asleep /\ worker' = [worker EXCEPT ![w] = Awake]
    BY <1>2
  <2>2. \A v \in Workers : worker'[v] = IF v = w THEN Awake ELSE worker[v]
    BY <2>1 DEF FusedTypeInv
  <2> QED
    BY <2>1, <2>2, States DEF SameRuns, FusedTypeInv
<1> QED
  BY <1>1, <1>2 DEF WakeOne

LEMMA EnqueueStep ==
    ASSUME FusedInv, Enqueue
    PROVE  FusedInv'
<1>0. PICK new : new = [event |-> event, specialist |-> next]
  OBVIOUS
<1>1. FusedTypeInv /\ HearingInv /\ FutureInv /\ QueuedInv /\ RunningInv
  BY DEF FusedInv
<1>2. event # 0 /\ results = << >> /\ pc = "enqueue"
  BY <1>1 DEF HearingInv, Enqueue
<1>3. new \in Task /\ new.event = event /\ new.specialist = next
  BY <1>0, <1>1, <1>2, FusedNumbers DEF FusedTypeInv, Task
<1>4. ~Enqueued(new)
  BY <1>1, <1>2, <1>3, FusedNumbers DEF Enqueued, FusedTypeInv
<1>5. \A t \in Task : Enqueued(t) \/ t = new => Enqueued(t)'
  BY <1>0, <1>1, <1>2, FusedNumbers DEF Enqueue, Enqueued, FusedTypeInv, Task
<1>6. /\ futures' \in [1 .. MaxEvents -> [1 .. Count -> Future]]
      /\ FutureOf(new)' = Pending
      /\ \A u \in Task : u # new => FutureOf(u)' = FutureOf(u)
  <2>1. Pending \in Future
    BY DEF Future
  <2>2. futures' = [futures EXCEPT ![new.event][new.specialist] = Pending]
    BY <1>0 DEF Enqueue
  <2> QED
    BY <1>1, <1>3, <2>1, <2>2, FutureSet
<1>7. SameRuns /\ worker' \in [Workers -> {Asleep, Awake, Left} \cup {Runs(t) : t \in Task}]
  BY <1>1, WakeOneIs DEF Enqueue
<1>8. tasks' = Append(tasks, new) /\ tasks \in Seq(Task)
  BY <1>0, <1>1 DEF Enqueue, FusedTypeInv
<1>9. /\ tasks' \in Seq(Task) /\ Len(tasks') = Len(tasks) + 1 /\ Len(tasks) \in Nat
      /\ tasks'[Len(tasks) + 1] = new
      /\ \A k \in 1 .. Len(tasks) : tasks'[k] = tasks[k] /\ tasks[k] \in Task
  BY <1>3, <1>8
<1>10. FusedTypeInv'
  BY <1>1, <1>6, <1>7, <1>9, FusedNumbers DEF FusedTypeInv, Enqueue, Count
<1>11. HearingInv' /\ FutureInv'
  BY <1>1, <1>2, FusedNumbers DEF Enqueue, HearingInv, FutureInv
<1>12. \A k \in 1 .. Len(tasks) : /\ tasks[k] # new
                                  /\ Enqueued(tasks[k])'
                                  /\ FutureOf(tasks[k])' = Pending
  <2> SUFFICES ASSUME NEW k \in 1 .. Len(tasks)
               PROVE  /\ tasks[k] # new
                      /\ Enqueued(tasks[k])'
                      /\ FutureOf(tasks[k])' = Pending
    OBVIOUS
  <2>1. PICK t \in Task : t = tasks[k]
    BY <1>9
  <2>2. Enqueued(t) /\ FutureOf(t) = Pending
    BY <1>1, <2>1 DEF QueuedInv
  <2>3. t # new /\ Enqueued(t)' /\ FutureOf(t)' = Pending
    BY <1>4, <1>5, <1>6, <2>2
  <2>4. t = tasks'[k]
    BY <1>9, <2>1
  <2> QED
    BY <2>1, <2>3, <2>4 DEF Enqueued, FutureOf
<1>13. \A w \in Workers : worker'[w].does = "runs" =>
           /\ worker'[w] = worker[w]
           /\ worker[w].task \in Task /\ worker[w] = Runs(worker[w].task)
           /\ worker[w].task # new
           /\ Enqueued(worker[w].task)'
           /\ FutureOf(worker[w].task)' = Pending
  <2> SUFFICES ASSUME NEW w \in Workers, worker'[w].does = "runs"
               PROVE  /\ worker'[w] = worker[w]
                      /\ worker[w].task \in Task /\ worker[w] = Runs(worker[w].task)
                      /\ worker[w].task # new
                      /\ Enqueued(worker[w].task)'
                      /\ FutureOf(worker[w].task)' = Pending
    OBVIOUS
  <2>1. worker'[w] = worker[w] /\ worker[w].does = "runs"
    BY <1>7 DEF SameRuns
  <2>2. PICK t \in Task : t = worker[w].task /\ worker[w] = Runs(t)
    BY <1>1, <2>1, RunsTask
  <2>3. Enqueued(t) /\ FutureOf(t) = Pending
    BY <1>1, <2>1, <2>2 DEF RunningInv
  <2>4. t # new /\ Enqueued(t)' /\ FutureOf(t)' = Pending
    BY <1>4, <1>5, <1>6, <2>3
  <2>5. worker[w].task = worker'[w].task
    BY <2>1
  <2> QED
    BY <2>1, <2>2, <2>4, <2>5 DEF Enqueued, FutureOf
<1>14. QueuedInv'
  <2> SUFFICES ASSUME NEW k \in 1 .. Len(tasks')
               PROVE  /\ Enqueued(tasks[k])' /\ FutureOf(tasks[k])' = Pending
                      /\ \A l \in 1 .. Len(tasks') : tasks'[k] = tasks'[l] => k = l
                      /\ \A w \in Workers : worker'[w] # Runs(tasks'[k])
    BY DEF QueuedInv
  <2>1. CASE k \in 1 .. Len(tasks)
    <3>1. tasks'[k] = tasks[k]
      BY <1>9, <2>1
    <3>2. Enqueued(tasks[k])' /\ FutureOf(tasks[k])' = Pending
      BY <1>12, <2>1, <3>1 DEF Enqueued, FutureOf
    <3>3. \A l \in 1 .. Len(tasks') : tasks'[k] = tasks'[l] => k = l
      BY <1>1, <1>9, <1>12, <2>1 DEF QueuedInv
    <3>4. \A w \in Workers : worker'[w] # Runs(tasks'[k])
      BY <1>1, <1>13, <2>1, <3>1, States DEF QueuedInv
    <3> QED
      BY <3>2, <3>3, <3>4
  <2>2. CASE k = Len(tasks) + 1
    <3>1. tasks'[k] = new
      BY <1>9, <2>2
    <3>2. Enqueued(new)' /\ FutureOf(new)' = Pending
      BY <1>3, <1>5, <1>6
    <3>3. Enqueued(tasks[k])' /\ FutureOf(tasks[k])' = Pending
      BY <3>1, <3>2 DEF Enqueued, FutureOf
    <3>4. \A l \in 1 .. Len(tasks') : tasks'[k] = tasks'[l] => k = l
      BY <1>9, <1>12, <2>2, <3>1
    <3>5. \A w \in Workers : worker'[w] # Runs(tasks'[k])
      BY <1>13, <3>1, States
    <3> QED
      BY <3>3, <3>4, <3>5
  <2> QED
    BY <1>9, <2>1, <2>2
<1>15. RunningInv'
  <2> SUFFICES ASSUME NEW w \in Workers, worker'[w].does = "runs"
               PROVE  /\ Enqueued(worker[w].task)' /\ FutureOf(worker[w].task)' = Pending
                      /\ \A v \in Workers : worker'[v] = worker'[w] => v = w
    BY DEF RunningInv
  <2>1. Enqueued(worker[w].task)' /\ FutureOf(worker[w].task)' = Pending
    BY <1>13 DEF Enqueued, FutureOf
  <2>2. \A v \in Workers : worker'[v] = worker'[w] => v = w
    BY <1>1, <1>13 DEF RunningInv
  <2> QED
    BY <2>1, <2>2
<1> QED
  BY <1>10, <1>11, <1>14, <1>15 DEF FusedInv

\* An answer is heard: the next one of the row, or silence in its place.
LEMMA HeardStep ==
    ASSUME FusedInv, pc = "wait", NEW a \in Answer, Heard(a),
           a = Silent \/ futures[event][next] = Ready(a)
    PROVE  FusedInv'
<1>1. FusedTypeInv /\ HearingInv /\ FutureInv /\ QueuedInv /\ RunningInv
  BY DEF FusedInv
<1>2. results \in Seq(Answer) /\ Len(results) = next - 1 /\ next \in 1 .. Count /\ event # 0
  BY <1>1 DEF FusedTypeInv, HearingInv
<1>3. results' = Append(results, a) /\ UNCHANGED << strategy, event, futures, tasks, worker >>
  BY DEF Heard
<1>4. /\ results' \in Seq(Answer) /\ Len(results') = next /\ results'[next] = a
      /\ \A i \in 1 .. next - 1 : results'[i] = results[i]
  BY <1>2, <1>3, FusedNumbers
<1>5. FusedTypeInv'
  BY <1>1, <1>3, <1>4, FusedNumbers DEF FusedTypeInv, Heard, Count
<1>6. HearingInv'
  <2>1. CASE next < Len(Specialists)
    <3>1. next' = next + 1 /\ pc' = "wait"
      BY <2>1 DEF Heard
    <3> QED
      BY <1>2, <1>3, <1>4, <3>1, FusedNumbers DEF HearingInv
  <2>2. CASE ~(next < Len(Specialists))
    <3>1. pc' = "idle" /\ verdict' = Fuse(results')
      BY <2>2 DEF Heard
    <3>2. Fuse(results)' = Fuse(results')
      BY <1>3 DEF Fuse
    <3>3. next = Count
      BY <1>2, <2>2, FusedNumbers DEF Count
    <3>4. verdict' = Fuse(results)' /\ Len(results') = Count /\ event' # 0
      BY <1>2, <1>3, <1>4, <3>1, <3>2, <3>3
    <3> QED
      BY <3>1, <3>4 DEF HearingInv, Count
  <2> QED
    BY <2>1, <2>2
<1>7. FutureInv'
  <2> SUFFICES ASSUME NEW i \in 1 .. next
               PROVE  results'[i] = Silent \/ futures[event][i] = Ready(results'[i])
    BY <1>3, <1>4 DEF FutureInv
  <2>1. i = next \/ i \in 1 .. next - 1
    BY <1>2, FusedNumbers
  <2> QED
    BY <1>1, <1>2, <1>4, <2>1 DEF FutureInv
<1>8. \A t \in Task : Enqueued(t) => Enqueued(t)'
  BY <1>3 DEF Enqueued, Heard
<1>9. SameRuns
  BY <1>3 DEF SameRuns
<1> QED
  BY <1>1, <1>3, <1>5, <1>6, <1>7, <1>8, <1>9, PoolStays DEF FusedInv

LEMMA ListenStep ==
    ASSUME FusedInv, Hear \/ HearError \/ Timeout
    PROVE  FusedInv'
<1>1. CASE Hear
  <2>1. event \in 1 .. MaxEvents /\ next \in 1 .. Count
    BY <1>1, FusedNumbers DEF FusedInv, FusedTypeInv, HearingInv, Hear
  <2>2. futures[event][next] \in Future
    BY <2>1 DEF FusedInv, FusedTypeInv
  <2>3. PICK a \in Answers : futures[event][next] = Ready(a)
    BY <1>1, <2>2, States DEF Future, Hear
  <2>4. a \in Answer /\ Heard(a)
    BY <1>1, <2>3, States, FusedNumbers DEF Hear
  <2> QED
    BY <1>1, <2>3, <2>4, HeardStep DEF Hear
<1>2. CASE HearError \/ Timeout
  BY <1>2, HeardStep, FusedNumbers DEF HearError, Timeout
<1> QED
  BY <1>1, <1>2

\* A worker takes the head of the queue, which nobody else has, or goes to sleep or
\* leaves.
LEMMA LookStep ==
    ASSUME FusedInv, NEW w \in Workers, Look(w)
    PROVE  FusedInv'
<1>1. FusedTypeInv /\ HearingInv /\ FutureInv /\ QueuedInv /\ RunningInv
  BY DEF FusedInv
<1>2. HearingInv' /\ FutureInv'
  <2>1. Fuse(results)' = Fuse(results)
    BY DEF Look, Fuse
  <2> QED
    BY <1>1, <2>1 DEF Look, HearingInv, FutureInv, Count
<1>3. \A t \in Task : Enqueued(t)' <=> Enqueued(t)
  BY DEF Enqueued, Look
<1>4. CASE tasks = << >>
  <2>1. UNCHANGED << tasks, futures >> /\ SameRuns
    BY <1>1, <1>4, States DEF Look, SameRuns, FusedTypeInv
  <2>2. FusedTypeInv'
    BY <1>1, <1>4 DEF Look, FusedTypeInv, Count
  <2> QED
    BY <1>1, <1>2, <1>3, <2>1, <2>2, PoolStays DEF FusedInv
<1>5. CASE tasks # << >>
  <2>1. PICK head : head = Head(tasks)
    OBVIOUS
  <2>2. /\ tasks \in Seq(Task) /\ head \in Task /\ head = tasks[1] /\ Len(tasks) \in Nat
        /\ tasks' = Tail(tasks) /\ 1 \in 1 .. Len(tasks)
    BY <1>1, <1>5, <2>1 DEF Look, FusedTypeInv
  <2>3. /\ tasks' \in Seq(Task) /\ Len(tasks') = Len(tasks) - 1
        /\ \A k \in 1 .. Len(tasks') : tasks'[k] = tasks[k + 1] /\ k + 1 \in 1 .. Len(tasks)
    BY <1>5, <2>2
  <2>4. /\ worker'[w] = Runs(head)
        /\ \A v \in Workers : v # w => worker'[v] = worker[v]
        /\ worker' \in [Workers -> {Asleep, Awake, Left} \cup {Runs(t) : t \in Task}]
    <3>1. worker' = [worker EXCEPT ![w] = Runs(head)]
      BY <1>5, <2>1 DEF Look
    <3> QED
      BY <1>1, <2>2, <3>1 DEF FusedTypeInv
  <2>5. futures' = futures
    BY DEF Look
  <2>6. FusedTypeInv'
    BY <1>1, <2>3, <2>4 DEF Look, FusedTypeInv, Count
  <2>7. Enqueued(head)' /\ FutureOf(head)' = Pending
    <3>1. Enqueued(head) /\ FutureOf(head) = Pending
      BY <1>1, <2>2 DEF QueuedInv
    <3> QED
      BY <1>3, <2>2, <2>5, <3>1 DEF FutureOf
  <2>8. QueuedInv'
    <3> SUFFICES ASSUME NEW k \in 1 .. Len(tasks')
                 PROVE  /\ Enqueued(tasks[k])' /\ FutureOf(tasks[k])' = Pending
                        /\ \A l \in 1 .. Len(tasks') : tasks'[k] = tasks'[l] => k = l
                        /\ \A v \in Workers : worker'[v] # Runs(tasks'[k])
      BY DEF QueuedInv
    <3>1. PICK t \in Task : t = tasks'[k]
      BY <2>3
    <3>2. t = tasks[k + 1] /\ k + 1 \in 1 .. Len(tasks) /\ k \in Nat /\ k # 0
      BY <2>3, <3>1
    <3>3. Enqueued(t) /\ FutureOf(t) = Pending
      BY <1>1, <3>2 DEF QueuedInv
    <3>4. Enqueued(t)' /\ FutureOf(t)' = Pending
      BY <1>3, <2>5, <3>3 DEF FutureOf
    <3>5. Enqueued(tasks[k])' /\ FutureOf(tasks[k])' = Pending
      BY <3>1, <3>4 DEF Enqueued, FutureOf
    <3>6. \A l \in 1 .. Len(tasks') : tasks'[k] = tasks'[l] => k = l
      <4> SUFFICES ASSUME NEW l \in 1 .. Len(tasks'), tasks'[k] = tasks'[l] PROVE k = l
        OBVIOUS
      <4>1. k + 1 = l + 1
        BY <1>1, <2>3 DEF QueuedInv
      <4> QED
        BY <4>1
    <3>7. t # head
      BY <1>1, <2>2, <3>2 DEF QueuedInv
    <3>8. \A v \in Workers : worker'[v] # Runs(t)
      BY <1>1, <2>4, <3>2, <3>7, States DEF QueuedInv
    <3> QED
      BY <3>1, <3>5, <3>6, <3>8
  <2>9. RunningInv'
    <3> SUFFICES ASSUME NEW u \in Workers, worker'[u].does = "runs"
                 PROVE  /\ Enqueued(worker[u].task)' /\ FutureOf(worker[u].task)' = Pending
                        /\ \A v \in Workers : worker'[v] = worker'[u] => v = u
      BY DEF RunningInv
    <3>1. \A v \in Workers : v # w => worker'[v] # Runs(head)
      BY <1>1, <2>2, <2>4 DEF QueuedInv
    <3>2. CASE u = w
      <4>1. worker'[u] = Runs(head) /\ head = worker'[u].task
        BY <2>4, <3>2, States
      <4>2. Enqueued(worker[u].task)' /\ FutureOf(worker[u].task)' = Pending
        BY <2>7, <4>1 DEF Enqueued, FutureOf
      <4> QED
        BY <3>1, <3>2, <4>1, <4>2
    <3>3. CASE u # w
      <4>1. worker'[u] = worker[u] /\ worker[u].does = "runs"
        BY <2>4, <3>3
      <4>2. PICK t \in Task : t = worker[u].task /\ worker[u] = Runs(t)
        BY <1>1, <4>1, RunsTask
      <4>3. Enqueued(t) /\ FutureOf(t) = Pending
        BY <1>1, <4>1, <4>2 DEF RunningInv
      <4>4. Enqueued(t)' /\ FutureOf(t)' = Pending
        BY <1>3, <2>5, <4>3 DEF FutureOf
      <4>5. t = worker'[u].task
        BY <4>1, <4>2
      <4>6. Enqueued(worker[u].task)' /\ FutureOf(worker[u].task)' = Pending
        BY <4>4, <4>5 DEF Enqueued, FutureOf
      <4>7. \A v \in Workers : worker'[v] = worker'[u] => v = u
        BY <1>1, <2>4, <3>1, <3>3, <4>1 DEF RunningInv
      <4> QED
        BY <4>6, <4>7
    <3> QED
      BY <3>2, <3>3
  <2> QED
    BY <1>2, <2>6, <2>8, <2>9 DEF FusedInv
<1> QED
  BY <1>4, <1>5

\* A task that ends sets its own future, which was pending: what was heard of the
\* others stays true, and so does what is silence already.
LEMMA FinishStep ==
    ASSUME FusedInv, NEW w \in Workers, Finish(w)
    PROVE  FusedInv'
<1>1. FusedTypeInv /\ HearingInv /\ FutureInv /\ QueuedInv /\ RunningInv
  BY DEF FusedInv
<1>2. worker[w].does = "runs" /\ UNCHANGED << strategy, pc, event, next, results, verdict, tasks >>
  BY DEF Finish
<1>3. PICK t \in Task : t = worker[w].task /\ worker[w] = Runs(t)
  BY <1>1, <1>2, RunsTask
<1>4. Enqueued(t) /\ FutureOf(t) = Pending
  BY <1>1, <1>2, <1>3 DEF RunningInv
<1>5. PICK x \in Future : futures' = [futures EXCEPT ![t.event][t.specialist] = x]
  BY <1>3 DEF Finish, Future
<1>6. /\ futures' \in [1 .. MaxEvents -> [1 .. Count -> Future]]
      /\ \A u \in Task : u # t => FutureOf(u)' = FutureOf(u)
      /\ \A e \in 1 .. MaxEvents, i \in 1 .. Count :
            futures'[e][i] = futures[e][i] \/ (e = t.event /\ i = t.specialist)
  BY <1>1, <1>5, FutureSet
<1>7. /\ worker'[w] = Awake
      /\ \A v \in Workers : v # w => worker'[v] = worker[v]
      /\ worker' \in [Workers -> {Asleep, Awake, Left} \cup {Runs(u) : u \in Task}]
  <2>1. worker' = [worker EXCEPT ![w] = Awake]
    BY DEF Finish
  <2> QED
    BY <1>1, <2>1 DEF FusedTypeInv
<1>8. FusedTypeInv'
  BY <1>1, <1>2, <1>6, <1>7 DEF FusedTypeInv, Count
<1>9. HearingInv'
  <2>1. Fuse(results)' = Fuse(results)
    BY <1>2 DEF Fuse
  <2> QED
    BY <1>1, <1>2, <2>1 DEF HearingInv, Count
<1>10. FutureInv'
  <2> SUFFICES ASSUME NEW i \in 1 .. Len(results), results[i] # Silent
               PROVE  futures'[event][i] = Ready(results[i])
    BY <1>2 DEF FutureInv
  <2>1. event \in 1 .. MaxEvents /\ i \in 1 .. Count
    <3>1. event # 0 /\ Len(results) \in 0 .. Count
      BY <1>1, FusedNumbers DEF HearingInv, FusedTypeInv
    <3> QED
      BY <1>1, <3>1, FusedNumbers DEF FusedTypeInv
  <2>2. futures[event][i] = Ready(results[i])
    BY <1>1 DEF FutureInv
  <2>3. ~(event = t.event /\ i = t.specialist)
    BY <1>4, <2>2, States DEF FutureOf
  <2> QED
    BY <1>6, <2>1, <2>2, <2>3
<1>11. \A u \in Task : Enqueued(u) => Enqueued(u)'
  BY <1>2 DEF Enqueued
<1>12. QueuedInv'
  <2> SUFFICES ASSUME NEW k \in 1 .. Len(tasks)
               PROVE  /\ Enqueued(tasks[k])' /\ FutureOf(tasks[k])' = Pending
                      /\ \A l \in 1 .. Len(tasks) : tasks[k] = tasks[l] => k = l
                      /\ \A v \in Workers : worker'[v] # Runs(tasks[k])
    BY <1>2 DEF QueuedInv
  <2>1. PICK u \in Task : u = tasks[k]
    BY <1>1 DEF FusedTypeInv
  <2>2. Enqueued(u) /\ FutureOf(u) = Pending /\ u # t
    BY <1>1, <1>3, <2>1 DEF QueuedInv
  <2>3. Enqueued(u)' /\ FutureOf(u)' = Pending
    BY <1>6, <1>11, <2>2
  <2>4. Enqueued(tasks[k])' /\ FutureOf(tasks[k])' = Pending
    BY <1>2, <2>1, <2>3 DEF Enqueued, FutureOf
  <2>5. \A v \in Workers : worker'[v] # Runs(u)
    BY <1>1, <1>7, <2>1, States DEF QueuedInv
  <2> QED
    BY <1>1, <2>1, <2>4, <2>5 DEF QueuedInv
<1>13. RunningInv'
  <2> SUFFICES ASSUME NEW v \in Workers, worker'[v].does = "runs"
               PROVE  /\ Enqueued(worker[v].task)' /\ FutureOf(worker[v].task)' = Pending
                      /\ \A u \in Workers : worker'[u] = worker'[v] => u = v
    BY DEF RunningInv
  <2>1. v # w /\ worker'[v] = worker[v] /\ worker[v].does = "runs"
    BY <1>7, States
  <2>2. PICK u \in Task : u = worker[v].task /\ worker[v] = Runs(u)
    BY <1>1, <2>1, RunsTask
  <2>3. Enqueued(u) /\ FutureOf(u) = Pending /\ u # t
    BY <1>1, <1>2, <1>3, <2>1, <2>2 DEF RunningInv
  <2>4. Enqueued(u)' /\ FutureOf(u)' = Pending
    BY <1>6, <1>11, <2>3
  <2>5. u = worker'[v].task
    BY <2>1, <2>2
  <2>6. Enqueued(worker[v].task)' /\ FutureOf(worker[v].task)' = Pending
    BY <2>4, <2>5 DEF Enqueued, FutureOf
  <2>7. \A y \in Workers : worker'[y] = worker'[v] => y = v
    BY <1>1, <1>7, <2>1, States DEF RunningInv
  <2> QED
    BY <2>6, <2>7
<1> QED
  BY <1>8, <1>9, <1>10, <1>12, <1>13 DEF FusedInv

\* The other actions leave the queue, the futures and what was heard as they are.
LEMMA RestStep ==
    ASSUME FusedInv,
           Destroy \/ Joined \/ (\E w \in Workers : Hang(w)) \/ UNCHANGED fvars
    PROVE  FusedInv'
<1>1. FusedTypeInv /\ HearingInv /\ FutureInv /\ QueuedInv /\ RunningInv
  BY DEF FusedInv
<1>2. /\ UNCHANGED << strategy, event, next, results, verdict, futures, tasks >>
      /\ \/ pc' = pc
         \/ pc \in {"idle", "join"} /\ pc' \in {"join", "gone"}
      /\ worker' = worker \/ worker' = WakeEach
  BY DEF Destroy, Joined, Hang, fvars
<1>3. SameRuns /\ worker' \in [Workers -> {Asleep, Awake, Left} \cup {Runs(t) : t \in Task}]
  BY <1>1, <1>2, States DEF WakeEach, SameRuns, FusedTypeInv
<1>4. FusedTypeInv'
  BY <1>1, <1>2, <1>3 DEF FusedTypeInv, Count
<1>5. HearingInv' /\ FutureInv'
  <2>1. Fuse(results)' = Fuse(results)
    BY <1>2 DEF Fuse
  <2> QED
    BY <1>1, <1>2, <2>1 DEF HearingInv, FutureInv, Count
<1>6. \A t \in Task : Enqueued(t) => Enqueued(t)'
  BY <1>2 DEF Enqueued
<1> QED
  BY <1>1, <1>2, <1>3, <1>4, <1>5, <1>6, PoolStays DEF FusedInv

LEMMA FusedBegins ==
    ASSUME FusedInit
    PROVE  FusedInv
<1>1. FusedTypeInv
  BY FusedNumbers DEF FusedInit, FusedTypeInv, Future
<1>2. HearingInv /\ FutureInv /\ QueuedInv
  BY DEF FusedInit, HearingInv, FutureInv, QueuedInv
<1>3. RunningInv
  BY States DEF FusedInit, RunningInv
<1> QED
  BY <1>1, <1>2, <1>3 DEF FusedInv

LEMMA FusedStep ==
    ASSUME FusedInv, [FusedNext]_fvars
    PROVE  FusedInv'
BY CallStep, EnqueueStep, ListenStep, LookStep, FinishStep, RestStep
   DEF FusedNext, Caller, Pool

\* Type correctness of the fused engine and its pool, and what keeps a late answer out
\* of a later call: each task that was accepted is at one place only, queued or running,
\* and its future is pending until it ends.
THEOREM TasksStayApart == FusedSpec => []FusedInv
<1>1. FusedInit => FusedInv
  BY FusedBegins
<1>2. FusedInv /\ [FusedNext]_fvars => FusedInv'
  BY FusedStep
<1> QED
  BY <1>1, <1>2, PTL DEF FusedSpec

LEMMA BestIsHeard ==
    ASSUME FusedInv
    PROVE  VerdictIsBest
<1> SUFFICES ASSUME pc = "idle", event > 0 PROVE VerdictIsBest
  BY DEF VerdictIsBest
<1>1. FusedTypeInv /\ HearingInv /\ FutureInv
  BY DEF FusedInv
<1>2. /\ results \in [1 .. Count -> Answer] /\ Len(results) = Count /\ DOMAIN results = 1 .. Count
      /\ verdict = Fuse(results) /\ Count \in Nat
  <2>1. event # 0
    BY <1>1, FusedNumbers DEF FusedTypeInv
  <2>2. Len(results) = Count /\ verdict = Fuse(results)
    BY <1>1, <2>1 DEF HearingInv
  <2>3. results \in Seq(Answer)
    BY <1>1 DEF FusedTypeInv
  <2> QED
    BY <2>2, <2>3, FusedNumbers
<1> DEFINE valid == {i \in DOMAIN results : results[i].validated /\ results[i].confidence > 0}
<1>3. \A i \in valid : results[i] = futures[event][i].answer
  <2> SUFFICES ASSUME NEW i \in valid PROVE results[i] = futures[event][i].answer
    OBVIOUS
  <2>1. results[i] # Silent
    BY DEF Silent
  <2>2. futures[event][i] = Ready(results[i])
    BY <1>1, <1>2, <2>1 DEF FutureInv
  <2> QED
    BY <2>2, States
<1>4. \A i \in 1 .. Count : results[i].confidence \in Nat /\ results[i].validated \in BOOLEAN
  BY <1>2, AnswerParts
<1>5. CASE strategy = "priority" /\ Alarms(results) # {}
  <2>1. verdict = CHOOSE i \in Alarms(results) : \A j \in Alarms(results) : i <= j
    BY <1>2, <1>5 DEF Fuse
  <2>2. Alarms(results) \in SUBSET Nat /\ Alarms(results) \subseteq 1 .. Count
    BY <1>2 DEF Alarms
  <2>3. \E i \in Alarms(results) : \A j \in Alarms(results) : i <= j
    BY <1>5, <2>2, LeastIs, Zenon
  <2>4. verdict \in Alarms(results)
    BY <2>1, <2>3, Zenon
  <2>5. verdict \in 1 .. Count /\ verdict # 0
    BY <2>2, <2>4
  <2>6. verdict \in valid
    BY <1>2, <1>4, <2>4, <2>5 DEF Alarms
  <2> QED
    BY <1>3, <1>5, <2>4, <2>5, <2>6 DEF VerdictIsBest
<1>6. CASE ~(strategy = "priority" /\ Alarms(results) # {})
  <2>1. verdict = Consensus(results)
    BY <1>2, <1>6 DEF Fuse
  <2>2. /\ verdict \in 0 .. Count
        /\ verdict # 0 => results[verdict].validated /\ results[verdict].confidence > 0
        /\ \A i \in 1 .. Count : results[i].validated =>
               results[i].confidence <= Confidence(results, verdict)
    BY <1>2, <2>1, ConsensusIs
  <2>3. CASE verdict = 0
    <3>1. valid = {}
      BY <1>2, <1>4, <2>2, <2>3 DEF Confidence
    <3> QED
      BY <2>3, <3>1 DEF VerdictIsBest
  <2>4. CASE verdict # 0
    <3>1. verdict \in 1 .. Count /\ verdict \in valid
      BY <1>2, <2>2, <2>4
    <3>2. \A i \in valid : results[i].confidence <= results[verdict].confidence
      BY <1>2, <2>2, <2>4 DEF Confidence
    <3> HIDE DEF valid
    <3>3. /\ verdict \in valid
          /\ results[verdict] = futures[event][verdict].answer
          /\ strategy = "priority" => Alarms(results) = {}
          /\ \A i \in valid : results[i].confidence <= results[verdict].confidence
      BY <1>3, <1>6, <3>1, <3>2
    <3> QED
      BY <2>4, <3>3 DEF VerdictIsBest, valid
  <2> QED
    BY <2>3, <2>4
<1> QED
  BY <1>5, <1>6

\* VerdictIsBest, for any number of specialists, threads, events and hanging analyses:
\* the verdict of a call is the most certain of the validated answers that arrived in
\* time, or the first alarm, and never a late answer of an earlier event.
THEOREM BestAnswerDecides == FusedSpec => []VerdictIsBest
<1>1. FusedInv => VerdictIsBest
  BY BestIsHeard
<1> QED
  BY <1>1, TasksStayApart, PTL

-----------------------------------------------------------------------------
(* FusedEngine: the destructor.                                             *)

\* A worker leaves only when the queue is empty and no call can fill it again.
DrainInv ==
    /\ stop => pc \in {"join", "gone"}
    /\ \A w \in Workers : worker[w] = Left => tasks = << >> /\ pc \in {"join", "gone"}
    /\ pc = "gone" => \A w \in Workers : worker[w] = Left

\* The pool has the task of every future that is pending.
HeldInv ==
    \A t \in Task : FutureOf(t) = Pending =>
        (\E k \in 1 .. Len(tasks) : tasks[k] = t) \/ (\E w \in Workers : worker[w] = Runs(t))

\* The states of a worker differ.
LEMMA WorkerStates ==
    /\ Asleep # Awake /\ Asleep # Left /\ Awake # Left
    /\ \A t : Runs(t) # Asleep /\ Runs(t) # Awake /\ Runs(t) # Left
  BY DEF Asleep, Awake, Left, Runs

LEMMA DrainStep ==
    ASSUME FusedInv, DrainInv, [FusedNext]_fvars
    PROVE  DrainInv'
<1>1. FusedTypeInv
  BY DEF FusedInv
<1>2. CASE Call \/ Hear \/ HearError \/ Timeout
  <2>1. UNCHANGED << tasks, worker, stop >> /\ pc \in {"idle", "wait"} /\ pc' \in {"idle", "enqueue", "wait"}
    BY <1>2 DEF Call, Hear, HearError, Timeout, Heard
  <2> QED
    BY <2>1 DEF DrainInv
<1>3. CASE Enqueue
  <2>1. UNCHANGED stop /\ pc = "enqueue" /\ pc' \in {"enqueue", "wait"} /\ WakeOne
    BY <1>3 DEF Enqueue
  <2>2. \A w \in Workers : worker'[w] = worker[w] \/ worker'[w] = Awake
    BY <1>1, <2>1 DEF WakeOne, FusedTypeInv
  <2> QED
    BY <2>1, <2>2, WorkerStates DEF DrainInv
<1>4. CASE Destroy
  <2>1. pc = "idle" /\ pc' = "join" /\ worker' = WakeEach
    BY <1>4 DEF Destroy
  <2>2. \A w \in Workers : worker'[w] = worker[w] \/ worker'[w] = Awake
    BY <2>1 DEF WakeEach
  <2> QED
    BY <2>1, <2>2, WorkerStates DEF DrainInv
<1>5. CASE Joined
  BY <1>5 DEF Joined, DrainInv
<1>6. ASSUME NEW w \in Workers, Look(w) PROVE DrainInv'
  <2>1. pc # "gone" /\ UNCHANGED << pc, stop >> /\ worker[w] = Awake
    BY <1>6, WorkerStates DEF Look, DrainInv
  <2>2. CASE tasks # << >>
    <3>1. \A v \in Workers : worker'[v] # Left
      BY <1>1, <1>6, <2>2, WorkerStates DEF Look, DrainInv, FusedTypeInv
    <3> QED
      BY <2>1, <3>1 DEF DrainInv
  <2>3. CASE tasks = << >>
    <3>1. UNCHANGED tasks /\ \A v \in Workers : v # w => worker'[v] = worker[v]
      BY <1>1, <1>6, <2>3 DEF Look, FusedTypeInv
    <3>2. worker'[w] = Left => stop
      BY <1>1, <1>6, <2>3, WorkerStates DEF Look, FusedTypeInv
    <3> QED
      BY <2>1, <2>3, <3>1, <3>2 DEF DrainInv
  <2> QED
    BY <2>2, <2>3
<1>7. ASSUME NEW w \in Workers, Finish(w) PROVE DrainInv'
  <2>1. worker[w] # Left /\ UNCHANGED << pc, stop, tasks >>
    BY <1>7, States DEF Finish
  <2>2. \A v \in Workers : worker'[v] = IF v = w THEN Awake ELSE worker[v]
    BY <1>1, <1>7 DEF Finish, FusedTypeInv
  <2> QED
    BY <2>1, <2>2, WorkerStates DEF DrainInv
<1>8. CASE UNCHANGED fvars \/ \E w \in Workers : Hang(w)
  <2>1. UNCHANGED << pc, stop, tasks, worker >>
    BY <1>8 DEF fvars, Hang
  <2> QED
    BY <2>1 DEF DrainInv
<1> QED
  BY <1>2, <1>3, <1>4, <1>5, <1>6, <1>7, <1>8 DEF FusedNext, Caller, Pool

LEMMA HeldStays ==
    ASSUME HeldInv, SameRuns, UNCHANGED << tasks, futures >>
    PROVE  HeldInv'
BY States DEF HeldInv, SameRuns, FutureOf

LEMMA HeldStep ==
    ASSUME FusedInv, HeldInv, [FusedNext]_fvars
    PROVE  HeldInv'
<1>1. FusedTypeInv /\ HearingInv
  BY DEF FusedInv
<1>2. CASE \/ Call \/ Hear \/ HearError \/ Timeout \/ Joined \/ Destroy
           \/ UNCHANGED fvars \/ \E w \in Workers : Hang(w)
  <2>1. UNCHANGED << tasks, futures >> /\ (worker' = worker \/ worker' = WakeEach)
    BY <1>2 DEF Call, Hear, HearError, Timeout, Heard, Joined, Destroy, Hang, fvars
  <2>2. SameRuns
    BY <2>1, States DEF SameRuns, WakeEach
  <2> QED
    BY <2>1, <2>2, HeldStays
<1>3. CASE Enqueue
  <2>1. PICK new \in Task : new = [event |-> event, specialist |-> next]
    <3>1. event \in 1 .. MaxEvents /\ next \in 1 .. Count
      BY <1>1, <1>3, FusedNumbers DEF FusedTypeInv, HearingInv, Enqueue
    <3> QED
      BY <3>1 DEF Task
  <2>2. /\ tasks \in Seq(Task) /\ tasks' = Append(tasks, new)
        /\ futures' = [futures EXCEPT ![new.event][new.specialist] = Pending]
    BY <1>1, <1>3, <2>1 DEF Enqueue, FusedTypeInv
  <2>3. Pending \in Future
    BY DEF Future
  <2>4. \A u \in Task : u # new => FutureOf(u)' = FutureOf(u)
    BY <1>1, <2>2, <2>3, FutureSet
  <2>5. SameRuns
    BY <1>1, <1>3, WakeOneIs DEF Enqueue
  <2>6. /\ Len(tasks') = Len(tasks) + 1 /\ Len(tasks) \in Nat /\ tasks'[Len(tasks) + 1] = new
        /\ \A k \in 1 .. Len(tasks) : k \in 1 .. Len(tasks') /\ tasks'[k] = tasks[k]
    BY <2>2
  <2> SUFFICES ASSUME NEW t \in Task, FutureOf(t)' = Pending
               PROVE  \/ \E k \in 1 .. Len(tasks') : tasks'[k] = t
                      \/ \E w \in Workers : worker'[w] = Runs(t)
    BY DEF HeldInv
  <2>7. CASE t = new
    <3>1. Len(tasks) + 1 \in 1 .. Len(tasks')
      BY <2>6
    <3> QED
      BY <2>6, <2>7, <3>1
  <2>8. CASE t # new
    <3>1. (\E k \in 1 .. Len(tasks) : tasks[k] = t) \/ (\E w \in Workers : worker[w] = Runs(t))
      BY <2>4, <2>8 DEF HeldInv
    <3> QED
      BY <2>5, <2>6, <3>1, States DEF SameRuns
  <2> QED
    BY <2>7, <2>8
<1>4. ASSUME NEW w \in Workers, Look(w) PROVE HeldInv'
  <2>1. CASE tasks = << >>
    <3>1. UNCHANGED << tasks, futures >> /\ SameRuns
      BY <1>1, <1>4, <2>1, States DEF Look, SameRuns, FusedTypeInv
    <3> QED
      BY <3>1, HeldStays
  <2>2. CASE tasks # << >>
    <3>1. PICK head : head = Head(tasks)
      OBVIOUS
    <3>2. /\ tasks \in Seq(Task) /\ head = tasks[1] /\ tasks' = Tail(tasks)
          /\ worker' = [worker EXCEPT ![w] = Runs(head)] /\ futures' = futures
      BY <1>1, <1>4, <2>2, <3>1 DEF Look, FusedTypeInv
    <3>3. /\ Len(tasks') = Len(tasks) - 1 /\ Len(tasks) \in Nat
          /\ \A k \in 1 .. Len(tasks') : tasks'[k] = tasks[k + 1]
      BY <2>2, <3>2
    <3>4. worker'[w] = Runs(head) /\ \A v \in Workers : v # w => worker'[v] = worker[v]
      BY <1>1, <3>2 DEF FusedTypeInv
    <3> SUFFICES ASSUME NEW t \in Task, FutureOf(t) = Pending
                 PROVE  \/ \E k \in 1 .. Len(tasks') : tasks'[k] = t
                        \/ \E v \in Workers : worker'[v] = Runs(t)
      BY <3>2 DEF HeldInv, FutureOf
    <3>5. CASE \E v \in Workers : worker[v] = Runs(t)
      <4>1. worker[w] # Runs(t)
        BY <1>4, WorkerStates DEF Look
      <4> QED
        BY <3>4, <3>5, <4>1
    <3>6. ASSUME NEW k \in 1 .. Len(tasks), tasks[k] = t
          PROVE  \/ \E l \in 1 .. Len(tasks') : tasks'[l] = t
                 \/ \E v \in Workers : worker'[v] = Runs(t)
      <4>1. CASE k = 1
        BY <3>2, <3>4, <3>6, <4>1
      <4>2. CASE k # 1
        <5>1. k - 1 \in 1 .. Len(tasks') /\ (k - 1) + 1 = k
          BY <3>3, <4>2
        <5>2. tasks'[k - 1] = t
          BY <3>3, <3>6, <5>1
        <5> QED
          BY <5>1, <5>2
      <4> QED
        BY <4>1, <4>2
    <3> QED
      BY <3>5, <3>6 DEF HeldInv
  <2> QED
    BY <2>1, <2>2
<1>5. ASSUME NEW w \in Workers, Finish(w) PROVE HeldInv'
  <2>1. worker[w].does = "runs" /\ UNCHANGED tasks
    BY <1>5 DEF Finish
  <2>2. PICK own \in Task : own = worker[w].task /\ worker[w] = Runs(own)
    BY <1>1, <2>1, RunsTask
  <2>3. PICK x \in Future : /\ futures' = [futures EXCEPT ![own.event][own.specialist] = x]
                            /\ x # Pending
    <3>1. \A x \in {Ready(a) : a \in Answers} \cup {Error} : x \in Future /\ x # Pending
      BY States DEF Future
    <3>2. \E x \in {Ready(a) : a \in Answers} \cup {Error} :
              futures' = [futures EXCEPT ![own.event][own.specialist] = x]
      BY <1>5, <2>2 DEF Finish
    <3> QED
      BY <3>1, <3>2
  <2>4. FutureOf(own)' = x /\ \A u \in Task : u # own => FutureOf(u)' = FutureOf(u)
    BY <1>1, <2>3, FutureSet
  <2>5. \A v \in Workers : v # w => worker'[v] = worker[v]
    BY <1>1, <1>5 DEF Finish, FusedTypeInv
  <2> SUFFICES ASSUME NEW t \in Task, FutureOf(t)' = Pending
               PROVE  \/ \E k \in 1 .. Len(tasks) : tasks[k] = t
                      \/ \E v \in Workers : worker'[v] = Runs(t)
    BY <2>1 DEF HeldInv
  <2>6. t # own /\ FutureOf(t) = Pending
    BY <2>3, <2>4
  <2>7. worker[w] # Runs(t)
    BY <2>2, <2>6, States
  <2> QED
    BY <2>5, <2>6, <2>7 DEF HeldInv
<1> QED
  BY <1>2, <1>3, <1>4, <1>5 DEF FusedNext, Caller, Pool

\* The safety part of PoolServes, for any number of threads and hanging analyses: when
\* the destructor has returned, every task that was ever accepted has been run to its
\* end, those of a call that gave up on them too.
THEOREM AcceptedTasksEnd == FusedSpec => []TasksEnded
<1> DEFINE PoolInv == FusedInv /\ DrainInv /\ HeldInv
<1>1. FusedInit => PoolInv
  <2> SUFFICES ASSUME FusedInit PROVE PoolInv
    OBVIOUS
  <2>1. DrainInv
    BY WorkerStates DEF FusedInit, DrainInv
  <2>2. HeldInv
    BY States, TaskParts, FusedNumbers DEF FusedInit, HeldInv, FutureOf
  <2> QED
    BY <2>1, <2>2, FusedBegins
<1>2. PoolInv /\ [FusedNext]_fvars => PoolInv'
  BY FusedStep, DrainStep, HeldStep
<1>3. PoolInv => TasksEnded
  <2> SUFFICES ASSUME PoolInv, pc = "gone",
                      NEW e \in 1 .. MaxEvents, NEW i \in 1 .. Count, futures[e][i] = Pending
               PROVE  FALSE
    BY FusedNumbers DEF TasksEnded
  <2>1. \A w \in Workers : worker[w] = Left
    BY DEF DrainInv
  <2>2. tasks = << >>
    BY <2>1, FusedAssumption DEF DrainInv
  <2>3. PICK t \in Task : t = [event |-> e, specialist |-> i]
    BY DEF Task
  <2>4. FutureOf(t) = Pending
    BY <2>3 DEF FutureOf
  <2> QED
    BY <2>1, <2>2, <2>4, WorkerStates DEF HeldInv
<1> HIDE DEF PoolInv
<1> QED
  BY <1>1, <1>2, <1>3, PTL DEF FusedSpec

-----------------------------------------------------------------------------
(* FusedEngine: no wake-up is lost.                                         *)

AwakeOnes == {w \in Workers : worker[w] = Awake}

\* While somebody sleeps, those who are awake are as many as the tasks that wait.
WakingInv ==
    (\E w \in Workers : worker[w] = Asleep) => Len(tasks) <= Cardinality(AwakeOnes)

\* Nobody sleeps while a task waits and everybody else is busy.
NobodyOversleeps ==
    tasks # << >> /\ (\E w \in Workers : worker[w] = Asleep) => AwakeOnes # {}

LEMMA AwakeCount ==
    /\ IsFiniteSet(AwakeOnes) /\ Cardinality(AwakeOnes) \in Nat
    /\ \A w : /\ IsFiniteSet(AwakeOnes \cup {w}) /\ IsFiniteSet(AwakeOnes \ {w})
              /\ Cardinality(AwakeOnes \cup {w}) =
                     IF w \in AwakeOnes THEN Cardinality(AwakeOnes) ELSE Cardinality(AwakeOnes) + 1
              /\ Cardinality(AwakeOnes \ {w}) =
                     IF w \in AwakeOnes THEN Cardinality(AwakeOnes) - 1 ELSE Cardinality(AwakeOnes)
<1>1. IsFiniteSet(AwakeOnes)
  <2>1. AwakeOnes \in SUBSET Workers /\ IsFiniteSet(Workers)
    BY FusedAssumption DEF AwakeOnes
  <2> QED
    BY <2>1, FS_Subset
<1> QED
  BY <1>1, FS_CardinalityType, FS_AddElement, FS_RemoveElement

LEMMA WakingStep ==
    ASSUME FusedInv, WakingInv, [FusedNext]_fvars
    PROVE  WakingInv'
<1>1. FusedTypeInv
  BY DEF FusedInv
<1>2. tasks \in Seq(Task) /\ Len(tasks) \in Nat
  BY <1>1 DEF FusedTypeInv
<1>3. AwakeOnes' = {w \in Workers : worker'[w] = Awake}
  BY DEF AwakeOnes
<1>4. CASE \/ Call \/ Hear \/ HearError \/ Timeout \/ Joined
           \/ UNCHANGED fvars \/ \E w \in Workers : Hang(w)
  <2>1. UNCHANGED << tasks, worker >>
    BY <1>4 DEF Call, Hear, HearError, Timeout, Heard, Joined, Hang, fvars
  <2> QED
    BY <2>1 DEF WakingInv, AwakeOnes
<1>5. CASE Destroy
  <2>1. \A w \in Workers : worker'[w] # Asleep
    BY <1>5, WorkerStates DEF Destroy, WakeEach
  <2> QED
    BY <2>1 DEF WakingInv
<1>6. CASE Enqueue
  <2>1. Len(tasks') = Len(tasks) + 1
    BY <1>2, <1>6 DEF Enqueue
  <2>2. CASE \E w \in Workers : worker[w] = Asleep
    <3>1. PICK w \in Workers : worker[w] = Asleep /\ worker' = [worker EXCEPT ![w] = Awake]
      BY <1>6, <2>2 DEF Enqueue, WakeOne
    <3>2. w \notin AwakeOnes /\ AwakeOnes' = AwakeOnes \cup {w}
      BY <1>1, <1>3, <3>1, WorkerStates DEF AwakeOnes, FusedTypeInv
    <3>3. Cardinality(AwakeOnes)' = Cardinality(AwakeOnes) + 1
      BY <3>2, AwakeCount
    <3> QED
      BY <1>2, <2>1, <2>2, <3>3, AwakeCount DEF WakingInv
  <2>3. CASE ~ \E w \in Workers : worker[w] = Asleep
    BY <1>6, <2>3 DEF Enqueue, WakeOne, WakingInv
  <2> QED
    BY <2>2, <2>3
<1>7. ASSUME NEW w \in Workers, Look(w) PROVE WakingInv'
  <2>1. CASE tasks = << >>
    <3>1. Len(tasks') = 0
      BY <1>7, <2>1 DEF Look
    <3>2. Cardinality(AwakeOnes)' >= 0
      <4>1. IsFiniteSet(Workers) /\ AwakeOnes' \in SUBSET Workers
        BY <1>3, FusedAssumption
      <4>2. IsFiniteSet(AwakeOnes')
        BY <4>1, FS_Subset
      <4>3. Cardinality(AwakeOnes') \in Nat
        BY <4>2, FS_CardinalityType
      <4> QED
        BY <4>3
    <3> QED
      BY <3>1, <3>2 DEF WakingInv
  <2>2. CASE tasks # << >>
    <3>1. worker[w] = Awake /\ Len(tasks') = Len(tasks) - 1
      BY <1>2, <1>7, <2>2 DEF Look
    <3>2. PICK t : worker' = [worker EXCEPT ![w] = Runs(t)]
      BY <1>7, <2>2 DEF Look
    <3>3. w \in AwakeOnes /\ AwakeOnes' = AwakeOnes \ {w}
      BY <1>1, <1>3, <3>1, <3>2, WorkerStates DEF AwakeOnes, FusedTypeInv
    <3>4. Cardinality(AwakeOnes)' = Cardinality(AwakeOnes) - 1
      BY <3>3, AwakeCount
    <3>5. \A v \in Workers : worker'[v] = Asleep => worker[v] = Asleep
      BY <1>1, <3>2, WorkerStates DEF FusedTypeInv
    <3> QED
      BY <1>2, <3>1, <3>4, <3>5, AwakeCount DEF WakingInv
  <2> QED
    BY <2>1, <2>2
<1>8. ASSUME NEW w \in Workers, Finish(w) PROVE WakingInv'
  <2>1. worker' = [worker EXCEPT ![w] = Awake] /\ UNCHANGED tasks
    BY <1>8 DEF Finish
  <2>2. AwakeOnes' = AwakeOnes \cup {w}
    BY <1>1, <1>3, <2>1 DEF AwakeOnes, FusedTypeInv
  <2>3. Cardinality(AwakeOnes)' >= Cardinality(AwakeOnes)
    BY <2>2, AwakeCount
  <2>4. Cardinality(AwakeOnes)' \in Nat
    BY <2>2, AwakeCount
  <2>5. \A v \in Workers : worker'[v] = Asleep => worker[v] = Asleep
    BY <1>1, <2>1, WorkerStates DEF FusedTypeInv
  <2> QED
    BY <1>2, <2>1, <2>3, <2>4, <2>5, AwakeCount DEF WakingInv
<1> QED
  BY <1>4, <1>5, <1>6, <1>7, <1>8 DEF FusedNext, Caller, Pool

\* NobodyOversleeps, what the first part of PoolServes rests on: enqueue() wakes one
\* worker for a task and a worker that ends a task wakes none, and still no task waits
\* while a worker sleeps and all others are busy or hang.
THEOREM NoWakeUpIsLost == FusedSpec => []NobodyOversleeps
<1> DEFINE PoolInv == FusedInv /\ WakingInv
<1>1. FusedInit => PoolInv
  <2> SUFFICES ASSUME FusedInit PROVE PoolInv
    OBVIOUS
  <2>1. WakingInv
    BY WorkerStates DEF FusedInit, WakingInv
  <2> QED
    BY <2>1, FusedBegins
<1>2. PoolInv /\ [FusedNext]_fvars => PoolInv'
  BY FusedStep, WakingStep
<1>3. PoolInv => NobodyOversleeps
  <2> SUFFICES ASSUME PoolInv, tasks # << >>, \E w \in Workers : worker[w] = Asleep
               PROVE  AwakeOnes # {}
    BY DEF NobodyOversleeps
  <2>1. Len(tasks) \in Nat \ {0}
    BY DEF FusedInv, FusedTypeInv
  <2>2. Len(tasks) <= Cardinality(AwakeOnes)
    BY DEF WakingInv
  <2>3. Cardinality(AwakeOnes) # 0
    BY <2>1, <2>2
  <2> QED
    BY <2>3, FS_EmptySet
<1> HIDE DEF PoolInv
<1> QED
  BY <1>1, <1>2, <1>3, PTL DEF FusedSpec
=============================================================================

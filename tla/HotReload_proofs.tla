--------------------------- MODULE HotReload_proofs ---------------------------
(***************************************************************************)
(* Proofs about HotReload for any callers, configurations, models and      *)
(* sources and any limit of the histories: types, that the configuration   *)
(* that runs is the current one, that the matrices installed are those of  *)
(* the active model, and that a rollback loses no model.                   *)
(***************************************************************************)
EXTENDS HotReload, SequenceTheorems, TLAPS

-----------------------------------------------------------------------------
(* The two histories.                                                       *)

\* Remembering a value keeps a history of values within its limit.
LEMMA RememberType ==
    ASSUME NEW S, NEW past \in Seq(S), NEW old \in S, Len(past) <= MaxHistory
    PROVE  Remember(past, old) \in Seq(S) /\ Len(Remember(past, old)) <= MaxHistory
<1>1. MaxHistory \in Nat \ {0}
  BY HotReloadAssumption
<1>2. << old >> \in Seq(S) /\ Len(<< old >>) = 1
  OBVIOUS
<1>3. CASE Len(past) < MaxHistory
  <2>1. << old >> \o past \in Seq(S) /\ Len(<< old >> \o past) = 1 + Len(past)
    BY <1>2, ConcatProperties
  <2> QED
    BY <1>1, <1>3, <2>1 DEF Remember
<1>4. CASE ~(Len(past) < MaxHistory)
  <2>1. Len(past) = MaxHistory /\ Len(past) - 1 \in Int
    BY <1>1, <1>4
  <2>2. \A i \in 1 .. Len(past) - 1 : past[i] \in S
    BY <1>1, <2>1
  <2>3. /\ Front(past) \in Seq(S)
        /\ Len(Front(past)) = IF 1 <= Len(past) - 1 THEN Len(past) - 1 - 1 + 1 ELSE 0
    BY <2>1, <2>2, SubSeqProperties DEF Front
  <2>4. /\ << old >> \o Front(past) \in Seq(S)
        /\ Len(<< old >> \o Front(past)) = 1 + Len(Front(past))
    BY <1>2, <2>3, ConcatProperties
  <2> QED
    BY <1>1, <1>4, <2>1, <2>3, <2>4 DEF Remember
<1> QED
  BY <1>3, <1>4

\* Whoever goes back to an earlier value finds one.
LEMMA ElementType ==
    ASSUME NEW S, NEW past \in Seq(S), NEW k \in DOMAIN past
    PROVE  past[k] \in S /\ past # <<>>
<1>1. DOMAIN past = 1 .. Len(past) /\ Len(past) \in Nat
  OBVIOUS
<1> QED
  BY <1>1

\* One more call is within the bound.
LEMMA CallCount ==
    ASSUME calls \in 0 .. MaxCalls, calls < MaxCalls, calls' = calls + 1
    PROVE  calls' \in 0 .. MaxCalls
  BY HotReloadAssumption

\* What is left of a sequence when the i-th is taken out.
LEMMA RemoveAtProperties ==
    ASSUME NEW S, NEW q \in Seq(S), NEW i \in 1 .. Len(q)
    PROVE  /\ RemoveAt(q, i) \in Seq(S)
           /\ Len(RemoveAt(q, i)) = Len(q) - 1
           /\ \A j \in 1 .. Len(q) - 1 : j < i => RemoveAt(q, i)[j] = q[j]
           /\ \A j \in 1 .. Len(q) - 1 : ~(j < i) => RemoveAt(q, i)[j] = q[j + 1]
<1> PICK n \in Nat : n = Len(q)
  OBVIOUS
<1>0. i \in Int /\ i - 1 \in Nat /\ i + 1 \in Int /\ n - i \in Nat /\ 1 \in Int /\ n \in Int
  OBVIOUS
<1>1. \A j \in 1 .. n : q[j] \in S
  OBVIOUS
<1>2. PICK l : l = SubSeq(q, 1, i - 1)
  OBVIOUS
<1>3. PICK r : r = SubSeq(q, i + 1, n)
  OBVIOUS
<1>4. /\ l \in Seq(S) /\ Len(l) = i - 1
      /\ \A j \in 1 .. i - 1 : l[j] = q[j]
  <2>1. \A j \in 1 .. i - 1 : q[j] \in S
    BY <1>0, <1>1
  <2>2. /\ l \in Seq(S)
        /\ Len(l) = IF 1 <= i - 1 THEN i - 1 - 1 + 1 ELSE 0
        /\ \A j \in 1 .. i - 1 - 1 + 1 : l[j] = q[1 + j - 1]
    BY <1>0, <1>2, <2>1, SubSeqProperties
  <2> QED
    BY <1>0, <2>2
<1>5. /\ r \in Seq(S) /\ Len(r) = n - i
      /\ \A j \in 1 .. n - i : r[j] = q[i + j]
  <2>1. \A j \in i + 1 .. n : q[j] \in S
    BY <1>0, <1>1
  <2>2. /\ r \in Seq(S)
        /\ Len(r) = IF i + 1 <= n THEN n - (i + 1) + 1 ELSE 0
        /\ \A j \in 1 .. n - (i + 1) + 1 : r[j] = q[i + 1 + j - 1]
    BY <1>0, <1>3, <2>1, SubSeqProperties
  <2>3. n - (i + 1) + 1 = n - i /\ \A j \in 1 .. n - i : i + 1 + j - 1 = i + j
    BY <1>0
  <2> QED
    BY <1>0, <2>2, <2>3
<1>6. RemoveAt(q, i) = l \o r
  BY <1>2, <1>3 DEF RemoveAt
<1>7. /\ l \o r \in Seq(S)
      /\ Len(l \o r) = Len(l) + Len(r)
      /\ \A j \in 1 .. Len(l) + Len(r) :
             (l \o r)[j] = IF j <= Len(l) THEN l[j] ELSE r[j - Len(l)]
  BY <1>4, <1>5, ConcatProperties
<1>8. Len(l) + Len(r) = n - 1
  BY <1>0, <1>4, <1>5
<1>9. ASSUME NEW j \in 1 .. n - 1
      PROVE  /\ j < i => (l \o r)[j] = q[j]
             /\ ~(j < i) => (l \o r)[j] = q[j + 1]
  <2>1. CASE j < i
    <3>1. j \in 1 .. i - 1 /\ j <= Len(l)
      BY <1>0, <1>4, <2>1
    <3> QED
      BY <1>4, <1>7, <1>8, <2>1, <3>1
  <2>2. CASE ~(j < i)
    <3>1. /\ j - (i - 1) \in 1 .. n - i
          /\ i + (j - (i - 1)) = j + 1
          /\ ~(j <= i - 1)
      BY <1>0, <2>2
    <3>2. (l \o r)[j] = r[j - (i - 1)]
      BY <1>4, <1>7, <1>8, <3>1
    <3> QED
      BY <1>5, <2>2, <3>1, <3>2
  <2> QED
    BY <2>1, <2>2
<1> QED
  BY <1>6, <1>7, <1>8, <1>9

\* Putting the active model before the history and taking one out that stood
\* there keeps the length, and loses only the one taken out.
LEMMA RemovedElements ==
    ASSUME NEW S, NEW a \in S, NEW past \in Seq(S), NEW k \in DOMAIN past
    PROVE  /\ Removed(<< a >> \o past, k) \in Seq(S)
           /\ Len(Removed(<< a >> \o past, k)) = Len(past)
           /\ {past[k]} \cup ToSet(Removed(<< a >> \o past, k)) = {a} \cup ToSet(past)
<1>1. PICK n \in Nat : n = Len(past)
  OBVIOUS
<1>2. DOMAIN past = 1 .. n /\ k \in 1 .. n
  BY <1>1
<1>3. PICK q \in Seq(S) : q = << a >> \o past
  BY ConcatProperties, << a >> \in Seq(S)
<1>4. /\ q \in Seq(S) /\ Len(q) = n + 1
      /\ q[1] = a /\ \A i \in 1 .. n : q[i + 1] = past[i]
  <2>1. /\ q \in Seq(S) /\ Len(q) = 1 + n
        /\ \A i \in 1 .. 1 + n : q[i] = IF i <= 1 THEN << a >>[i] ELSE past[i - 1]
    BY <1>1, <1>3, ConcatProperties, << a >> \in Seq(S), Len(<< a >>) = 1
  <2>2. << a >>[1] = a
    OBVIOUS
  <2>3. \A i \in 1 .. n : i + 1 \in 1 .. 1 + n /\ ~(i + 1 <= 1) /\ i + 1 - 1 = i
    BY <1>1
  <2> QED
    BY <1>1, <2>1, <2>2, <2>3
<1>5. PICK p : p = RemoveAt(q, k + 1)
  OBVIOUS
<1>6. Removed(<< a >> \o past, k) = p
  BY <1>3, <1>5 DEF Removed
<1>7. /\ p \in Seq(S) /\ Len(p) = n
      /\ \A j \in 1 .. n : j < k + 1 => p[j] = q[j]
      /\ \A j \in 1 .. n : ~(j < k + 1) => p[j] = q[j + 1]
  <2>1. PICK i \in 1 .. Len(q) : i = k + 1
    BY <1>1, <1>2, <1>4
  <2>2. /\ RemoveAt(q, i) \in Seq(S)
        /\ Len(RemoveAt(q, i)) = Len(q) - 1
        /\ \A j \in 1 .. Len(q) - 1 : j < i => RemoveAt(q, i)[j] = q[j]
        /\ \A j \in 1 .. Len(q) - 1 : ~(j < i) => RemoveAt(q, i)[j] = q[j + 1]
    BY RemoveAtProperties
  <2>3. Len(q) - 1 = n
    BY <1>1, <1>4
  <2> QED
    BY <1>5, <2>1, <2>2, <2>3
<1>8. ToSet(p) = {p[j] : j \in 1 .. n} /\ ToSet(past) = {past[j] : j \in 1 .. n}
  <2>1. DOMAIN p = 1 .. n
    BY <1>7
  <2> QED
    BY <1>2, <2>1, Zenon DEF ToSet
<1>9. ASSUME NEW j \in 1 .. n PROVE p[j] = a \/ \E i \in 1 .. n : p[j] = past[i]
  <2>1. CASE j = 1
    BY <1>2, <1>4, <1>7, <2>1
  <2>2. CASE j # 1 /\ j < k + 1
    <3>1. j - 1 \in 1 .. n /\ (j - 1) + 1 = j
      BY <1>2, <2>2
    <3> QED
      BY <1>4, <1>7, <2>2, <3>1, ZenonT(60)
  <2>3. CASE ~(j < k + 1)
    BY <1>4, <1>7, <2>3
  <2> QED
    BY <2>1, <2>2, <2>3
<1>10. \E j \in 1 .. n : p[j] = a
  <2>1. 1 \in 1 .. n /\ 1 < k + 1
    BY <1>2
  <2> QED
    BY <1>4, <1>7, <2>1
<1>11. ASSUME NEW i \in 1 .. n, i # k PROVE \E j \in 1 .. n : p[j] = past[i]
  <2>1. CASE i < k
    <3>1. i + 1 \in 1 .. n /\ i + 1 < k + 1
      BY <1>2, <2>1
    <3> QED
      BY <1>4, <1>7, <3>1
  <2>2. CASE ~(i < k)
    <3>1. ~(i < k + 1)
      BY <1>2, <1>11, <2>2
    <3> QED
      BY <1>4, <1>7, <3>1
  <2> QED
    BY <2>1, <2>2
<1>12. {past[k]} \cup ToSet(p) = {a} \cup ToSet(past)
  BY <1>2, <1>8, <1>9, <1>10, <1>11
<1> QED
  BY <1>1, <1>6, <1>7, <1>12

-----------------------------------------------------------------------------
(* The inductive invariant.                                                 *)

\* What a call in progress may carry: a validated configuration, the active
\* model or whatever it read from the model file.  It installs or writes a model
\* exactly while it holds the model holder's lock.
CallSpace == [at : CallStates, config : Configs \cup Models \cup {None, Torn, Altered}]

CallInv ==
    /\ call \in [Callers -> CallSpace]
    /\ \A t \in Callers :
           /\ call[t].at \in {"install", "restore"} => call[t].config \in ValidConfigs
           /\ call[t].at \in {"apply", "export"} <=> modelLock = t
           /\ call[t].at \in {"apply", "export"} => call[t].config = active /\ active # None

\* Without an active model there is none to go back to.
HistoryInv == modelHistory # <<>> => active # None

\* The matrices of layer two are those of the active model, unless a call is
\* about to install them, and the sources have the same, unless a change of
\* configuration took them away.
LayerInv ==
    /\ (\A t \in Callers : call[t].at # "apply") => l2 = active
    /\ ~overwritten => segment = l2 /\ \A s \in Sources : l1[s] \in {NoLayer, l2}

\* While no two configuration calls overlap there is at most one, it carries
\* the current configuration, and without it the current one runs.
ConfigInv ==
    ~overlapped =>
        /\ \A t, o \in Callers : InConfigCall(t) /\ InConfigCall(o) => t = o
        /\ \A t \in Callers :
               call[t].at \in {"install", "restore"} => call[t].config = current
        /\ (\A t \in Callers : ~InConfigCall(t)) => running = current

Inv == TypeOK /\ CallInv /\ HistoryInv /\ LayerInv /\ ConfigInv

\* The pipeline just constructed is in the invariant.
LEMMA InitInv == Init => Inv
<1> SUFFICES ASSUME Init PROVE Inv
  OBVIOUS
<1>1. TypeOK
  <2>1. <<>> \in Seq(ValidConfigs) /\ <<>> \in Seq(Models) /\ Len(<<>>) = 0
    OBVIOUS
  <2>2. 0 <= MaxHistory /\ 0 \in 0 .. MaxCalls
    BY HotReloadAssumption
  <2>3. l1 \in [Sources -> Models \cup {None, NoLayer}]
    BY DEF Init
  <2>4. \A t \in Callers : call[t].at = "idle"
    BY DEF Init, Idle
  <2> QED
    BY <2>1, <2>2, <2>3, <2>4, HotReloadAssumption DEF Init, TypeOK, CallStates
<1>2. CallInv
  BY HotReloadAssumption DEF Init, CallInv, CallSpace, CallStates, Idle
<1>3. HistoryInv /\ LayerInv /\ ConfigInv
  BY DEF Init, HistoryInv, LayerInv, ConfigInv, InConfigCall, Idle, NoLayer
<1> QED
  BY <1>1, <1>2, <1>3 DEF Inv

\* A caller becomes idle, or goes on with a value it may carry.
LEMMA CallType ==
    ASSUME CallInv, NEW t \in Callers, NEW c,
           c = Idle \/ c \in CallSpace,
           call' = [call EXCEPT ![t] = c]
    PROVE  /\ call' \in [Callers -> CallSpace]
           /\ call'[t] = c
           /\ \A o \in Callers : o # t => call'[o] = call[o]
  BY HotReloadAssumption DEF CallInv, CallSpace, CallStates, Idle

\* Changes of configuration keep the invariant.
LEMMA ConfigStep ==
    ASSUME Inv, NEW t \in Callers,
           \/ \E c \in Configs : Update(t, c)
           \/ \E k \in 1 .. MaxHistory : RollbackConfig(t, k)
           \/ Install(t) \/ Fetch(t) \/ Restore(t)
    PROVE  Inv'
<1> USE DEF NoLayer, CallSpace, CallStates
<1>1. ASSUME NEW c \in Configs, Update(t, c) PROVE Inv'
  <2>1. /\ c \in ValidConfigs /\ current' = c /\ history' = Remember(history, current)
        /\ call[t].at = "idle" /\ calls < MaxCalls /\ calls' = calls + 1
        /\ call' = [call EXCEPT ![t] = [at |-> "install", config |-> c]]
        /\ overlapped' = (overlapped \/ \E o \in Callers : InConfigCall(o))
        /\ UNCHANGED << pipeline, model, modelLock, file, overwritten >>
    BY <1>1 DEF Update, BeginConfigCall, Accepts
  <2>2. /\ call' \in [Callers -> CallSpace]
        /\ call'[t] = [at |-> "install", config |-> c]
        /\ \A o \in Callers : o # t => call'[o] = call[o]
    BY <2>1, CallType DEF Inv
  <2>3. history' \in Seq(ValidConfigs) /\ Len(history') <= MaxHistory
    BY <2>1, RememberType DEF Inv, TypeOK
  <2>4. TypeOK'
    <3>1. calls' \in 0 .. MaxCalls
      BY <2>1, CallCount DEF Inv, TypeOK
    <3> QED
      BY <2>1, <2>2, <2>3, <3>1 DEF Inv, TypeOK, pipeline, model
  <2>5. CallInv'
    BY <2>1, <2>2 DEF Inv, CallInv, model
  <2>6. HistoryInv' /\ LayerInv'
    BY <2>1, <2>2, <2>3 DEF Inv, HistoryInv, LayerInv, model, pipeline
  <2>7. ConfigInv'
    BY <2>1, <2>2 DEF ConfigInv, InConfigCall
  <2> QED
    BY <2>4, <2>5, <2>6, <2>7 DEF Inv
<1>2. ASSUME NEW k \in 1 .. MaxHistory, RollbackConfig(t, k) PROVE Inv'
  <2>1. /\ current' = history[k] /\ history' = Remember(history, current)
        /\ k \in DOMAIN history
        /\ call[t].at = "idle" /\ calls < MaxCalls /\ calls' = calls + 1
        /\ call' = [call EXCEPT ![t] = [at |-> "fetch", config |-> FirstConfig]]
        /\ overlapped' = (overlapped \/ \E o \in Callers : InConfigCall(o))
        /\ UNCHANGED << pipeline, model, modelLock, file, overwritten >>
    BY <1>2 DEF RollbackConfig, BeginConfigCall
  <2>2. /\ call' \in [Callers -> CallSpace]
        /\ call'[t] = [at |-> "fetch", config |-> FirstConfig]
        /\ \A o \in Callers : o # t => call'[o] = call[o]
    BY <2>1, CallType, HotReloadAssumption DEF Inv
  <2>3. /\ history' \in Seq(ValidConfigs) /\ Len(history') <= MaxHistory
        /\ current' \in ValidConfigs
    BY <2>1, RememberType, ElementType DEF Inv, TypeOK
  <2>4. TypeOK'
    <3>1. calls' \in 0 .. MaxCalls
      BY <2>1, CallCount DEF Inv, TypeOK
    <3> QED
      BY <2>1, <2>2, <2>3, <3>1 DEF Inv, TypeOK, pipeline, model
  <2>5. CallInv'
    BY <2>1, <2>2 DEF Inv, CallInv, model
  <2>6. HistoryInv' /\ LayerInv'
    BY <2>1, <2>2, <2>3 DEF Inv, HistoryInv, LayerInv, model, pipeline
  <2>7. ConfigInv'
    BY <2>1, <2>2 DEF ConfigInv, InConfigCall
  <2> QED
    BY <2>4, <2>5, <2>6, <2>7 DEF Inv
<1>3. ASSUME Install(t) \/ Restore(t) PROVE Inv'
  <2>1. /\ call[t].at \in {"install", "restore"}
        /\ running' = call[t].config /\ engine' \in {engine, call[t].config}
        /\ segment' = None
        /\ call' = [call EXCEPT ![t] = Idle]
        /\ overwritten' = TRUE
        /\ UNCHANGED << holder, l1, l2, model, modelLock, file, calls, overlapped >>
    BY <1>3 DEF Install, Restore
  <2>2. /\ call' \in [Callers -> CallSpace]
        /\ call'[t] = Idle
        /\ \A o \in Callers : o # t => call'[o] = call[o]
    BY <2>1, CallType DEF Inv
  <2>3. TypeOK'
    BY <2>1, <2>2, ZenonT(60) DEF Inv, TypeOK, CallInv, Idle, holder, model
  <2>4. CallInv'
    BY <2>1, <2>2 DEF Inv, CallInv, Idle, model
  <2>5. HistoryInv' /\ LayerInv'
    BY <2>1, <2>2 DEF Inv, HistoryInv, LayerInv, model
  <2>6. ConfigInv'
    BY <2>1, <2>2 DEF Inv, ConfigInv, InConfigCall, Idle, holder
  <2> QED
    BY <2>3, <2>4, <2>5, <2>6 DEF Inv
<1>4. ASSUME Fetch(t) PROVE Inv'
  <2>1. /\ call[t].at = "fetch"
        /\ call' = [call EXCEPT ![t] = [at |-> "restore", config |-> current]]
        /\ UNCHANGED << holder, pipeline, model, modelLock, file, calls, overlapped,
                        overwritten >>
    BY <1>4 DEF Fetch, Fetched
  <2>2. current \in ValidConfigs /\ current \in Configs
    BY HotReloadAssumption DEF Inv, TypeOK
  <2>3. /\ call' \in [Callers -> CallSpace]
        /\ call'[t] = [at |-> "restore", config |-> current]
        /\ \A o \in Callers : o # t => call'[o] = call[o]
    BY <2>1, <2>2, CallType DEF Inv
  <2>4. TypeOK'
    BY <2>1, <2>3 DEF Inv, TypeOK, holder, pipeline, model
  <2>5. CallInv'
    BY <2>1, <2>2, <2>3 DEF Inv, CallInv, model
  <2>6. HistoryInv' /\ LayerInv'
    BY <2>1, <2>2, <2>3 DEF Inv, HistoryInv, LayerInv, model, pipeline
  <2>7. ConfigInv'
    BY <2>1, <2>3 DEF Inv, ConfigInv, InConfigCall, holder, pipeline
  <2> QED
    BY <2>4, <2>5, <2>6, <2>7 DEF Inv
<1> QED
  BY <1>1, <1>2, <1>3, <1>4

\* Changes of model keep the invariant.
LEMMA ModelStep ==
    ASSUME Inv, NEW t \in Callers,
           \/ \E m \in Models \cup {Altered} : Stage(t, m)
           \/ ApplyModel(t)
           \/ \E k \in 1 .. MaxHistory : RollbackModel(t, k)
           \/ InstallModel(t)
    PROVE  Inv'
<1> USE DEF NoLayer, CallSpace, CallStates
<1>1. ASSUME NEW m \in Models \cup {Altered}, Stage(t, m) PROVE Inv'
  <2>1. /\ m \in Models /\ calls < MaxCalls /\ calls' = calls + 1
        /\ staged' = m
        /\ UNCHANGED << holder, pipeline, overlapped, overwritten, active, modelHistory,
                        modelLock, file, call >>
    BY <1>1 DEF Stage, Validates, BeginModelCall
  <2>2. TypeOK'
    <3>1. calls' \in 0 .. MaxCalls
      BY <2>1, CallCount DEF Inv, TypeOK
    <3> QED
      BY <2>1, <3>1 DEF Inv, TypeOK, holder, pipeline
  <2>3. CallInv' /\ HistoryInv' /\ LayerInv' /\ ConfigInv'
    BY <2>1 DEF Inv, CallInv, HistoryInv, LayerInv, ConfigInv, InConfigCall, holder, pipeline
  <2> QED
    BY <2>2, <2>3 DEF Inv
<1>2. ASSUME /\ call[t].at = "idle" /\ calls < MaxCalls /\ calls' = calls + 1
             /\ modelLock = None /\ modelLock' = t
             /\ UNCHANGED << holder, pipeline, file, overlapped, overwritten >>
             /\ active' \in Models /\ staged' \in Models \cup {None}
             /\ modelHistory' \in Seq(Models) /\ Len(modelHistory') <= MaxHistory
             /\ call' = [call EXCEPT ![t] = [at |-> "apply", config |-> active']]
      PROVE  Inv'
  <2>1. t # None /\ active' # None
    BY <1>2, HotReloadAssumption
  <2>2. /\ call' \in [Callers -> CallSpace]
        /\ call'[t] = [at |-> "apply", config |-> active']
        /\ \A o \in Callers : o # t => call'[o] = call[o]
    BY <1>2, CallType DEF Inv
  <2>3. TypeOK'
    <3>1. calls' \in 0 .. MaxCalls
      BY <1>2, CallCount DEF Inv, TypeOK
    <3> QED
      BY <1>2, <2>2, <3>1 DEF Inv, TypeOK, holder, pipeline
  <2>4. CallInv'
    <3>1. \A o \in Callers : call[o].at \notin {"apply", "export"}
      BY <1>2, HotReloadAssumption DEF Inv, CallInv
    <3> QED
      BY <1>2, <2>1, <2>2, <3>1 DEF Inv, CallInv
  <2>5. HistoryInv'
    BY <2>1 DEF HistoryInv
  <2>6. LayerInv'
    BY <1>2, <2>1, <2>2 DEF Inv, LayerInv, pipeline
  <2>7. ConfigInv'
    BY <1>2, <2>2 DEF Inv, ConfigInv, InConfigCall, holder, pipeline
  <2> QED
    BY <2>3, <2>4, <2>5, <2>6, <2>7 DEF Inv
<1>3. ASSUME ApplyModel(t) PROVE Inv'
  <2>1. staged \in Models
    BY <1>3 DEF ApplyModel, Inv, TypeOK
  <2>2. modelHistory' \in Seq(Models) /\ Len(modelHistory') <= MaxHistory
    <3>1. CASE active = None
      BY <1>3, <3>1 DEF ApplyModel, Inv, TypeOK
    <3>2. CASE active # None
      <4>1. active \in Models /\ modelHistory' = Remember(modelHistory, active)
        BY <1>3, <3>2 DEF ApplyModel, Inv, TypeOK
      <4> QED
        BY <4>1, RememberType DEF Inv, TypeOK
    <3> QED
      BY <3>1, <3>2
  <2> QED
    BY <1>2, <1>3, <2>1, <2>2 DEF ApplyModel, BeginModelCall, KeepsLock
<1>4. ASSUME NEW k \in 1 .. MaxHistory, RollbackModel(t, k) PROVE Inv'
  <2>1. /\ k \in DOMAIN modelHistory /\ active' = modelHistory[k]
        /\ modelHistory' = Removed(<< active >> \o modelHistory, k)
    BY <1>4 DEF RollbackModel
  <2>2. modelHistory \in Seq(Models) /\ modelHistory[k] \in Models /\ modelHistory # <<>>
    BY <2>1, ElementType DEF Inv, TypeOK
  <2>3. active \in Models
    BY <2>2 DEF Inv, TypeOK, HistoryInv
  <2>4. modelHistory' \in Seq(Models) /\ Len(modelHistory') <= MaxHistory
    <3>1. /\ Removed(<< active >> \o modelHistory, k) \in Seq(Models)
          /\ Len(Removed(<< active >> \o modelHistory, k)) = Len(modelHistory)
      BY <2>1, <2>2, <2>3, RemovedElements
    <3> QED
      BY <2>1, <3>1 DEF Inv, TypeOK
  <2> QED
    BY <1>2, <1>4, <2>1, <2>2, <2>4
    DEF RollbackModel, BeginModelCall, KeepsLock, Inv, TypeOK
<1>5. ASSUME InstallModel(t) PROVE Inv'
  <2>1. /\ call[t].at = "apply" /\ call[t].config = active /\ modelLock = t
        /\ l2' = active /\ segment' = active
        /\ l1' = [s \in Sources |-> NoLayer]
        /\ call' = [call EXCEPT ![t] = Idle]
        /\ modelLock' = None
        /\ overwritten' = FALSE
        /\ UNCHANGED << holder, running, engine, model, file, calls, overlapped >>
    BY <1>5 DEF InstallModel, LayersCleared, Inv, CallInv
  <2>2. /\ call' \in [Callers -> CallSpace]
        /\ call'[t] = Idle
        /\ \A o \in Callers : o # t => call'[o] = call[o]
    BY <2>1, CallType DEF Inv
  <2>3. TypeOK'
    BY <2>1, <2>2 DEF Inv, TypeOK, holder, model
  <2>4. CallInv'
    <3>1. \A o \in Callers : o # t => call[o].at # "apply" /\ o # None
      BY <2>1, HotReloadAssumption DEF Inv, CallInv
    <3>2. t # None
      BY HotReloadAssumption
    <3> QED
      BY <2>1, <2>2, <3>1, <3>2 DEF Inv, CallInv, Idle, model
  <2>5. HistoryInv' /\ LayerInv'
    BY <2>1, <2>2 DEF Inv, HistoryInv, LayerInv, model
  <2>6. ConfigInv'
    BY <2>1, <2>2 DEF Inv, ConfigInv, InConfigCall, Idle, holder
  <2> QED
    BY <2>3, <2>4, <2>5, <2>6 DEF Inv
<1> QED
  BY <1>1, <1>3, <1>4, <1>5

\* Reading a model file and writing one keep the invariant: whatever the file
\* held meanwhile, only a model that validates is staged, and the lock is given
\* back as it was taken.
LEMMA FileStep ==
    ASSUME Inv, NEW t \in Callers,
           ReadModel(t) \/ StageRead(t) \/ OpenExport(t) \/ FinishExport(t)
    PROVE  Inv'
<1> USE DEF NoLayer, CallSpace, CallStates
<1>1. CASE ReadModel(t)
  <2>1. /\ call[t].at = "idle" /\ calls < MaxCalls /\ calls' = calls + 1
        /\ call' = [call EXCEPT ![t] = [at |-> "read", config |-> file]]
        /\ UNCHANGED << holder, pipeline, model, modelLock, file, overlapped, overwritten >>
    BY <1>1 DEF ReadModel
  <2>2. [at |-> "read", config |-> file] \in CallSpace
    BY DEF Inv, TypeOK, CallSpace, CallStates
  <2>3. /\ call' \in [Callers -> CallSpace]
        /\ call'[t] = [at |-> "read", config |-> file]
        /\ \A o \in Callers : o # t => call'[o] = call[o]
    BY <2>1, <2>2, CallType DEF Inv
  <2>4. TypeOK'
    <3>1. calls' \in 0 .. MaxCalls
      BY <2>1, CallCount DEF Inv, TypeOK
    <3> QED
      BY <2>1, <2>3, <3>1 DEF Inv, TypeOK, CallInv, CallSpace, holder, pipeline, model
  <2>5. CallInv'
    BY <2>1, <2>3 DEF Inv, CallInv, model
  <2>6. HistoryInv' /\ LayerInv'
    BY <2>1, <2>3 DEF Inv, HistoryInv, LayerInv, model, pipeline
  <2>7. ConfigInv'
    BY <2>1, <2>3 DEF Inv, ConfigInv, InConfigCall, holder, pipeline
  <2> QED
    BY <2>4, <2>5, <2>6, <2>7 DEF Inv
<1>2. CASE StageRead(t)
  <2>1. /\ call[t].at = "read"
        /\ staged' \in Models \cup {None}
        /\ call' = [call EXCEPT ![t] = Idle]
        /\ UNCHANGED << holder, pipeline, active, modelHistory, modelLock, file, calls,
                        overlapped, overwritten >>
    BY <1>2 DEF StageRead, Loads, Validates, Altering, Inv, TypeOK
  <2>2. /\ call' \in [Callers -> CallSpace]
        /\ call'[t] = Idle
        /\ \A o \in Callers : o # t => call'[o] = call[o]
    BY <2>1, CallType DEF Inv
  <2>3. TypeOK'
    BY <2>1, <2>2 DEF Inv, TypeOK, CallInv, CallSpace, holder, pipeline
  <2>4. CallInv'
    BY <2>1, <2>2 DEF Inv, CallInv, Idle
  <2>5. HistoryInv' /\ LayerInv'
    BY <2>1, <2>2 DEF Inv, HistoryInv, LayerInv, pipeline
  <2>6. ConfigInv'
    BY <2>1, <2>2 DEF Inv, ConfigInv, InConfigCall, Idle, holder, pipeline
  <2> QED
    BY <2>3, <2>4, <2>5, <2>6 DEF Inv
<1>3. CASE OpenExport(t)
  <2>1. /\ call[t].at = "idle" /\ calls < MaxCalls /\ calls' = calls + 1
        /\ active # None /\ modelLock = None /\ modelLock' = t /\ file' = Torn
        /\ call' = [call EXCEPT ![t] = [at |-> "export", config |-> active]]
        /\ UNCHANGED << holder, pipeline, model, overlapped, overwritten >>
    BY <1>3 DEF OpenExport, BeginModelCall, KeepsLock
  <2>2. [at |-> "export", config |-> active] \in CallSpace /\ t # None
    BY HotReloadAssumption DEF Inv, TypeOK, CallSpace, CallStates
  <2>3. /\ call' \in [Callers -> CallSpace]
        /\ call'[t] = [at |-> "export", config |-> active]
        /\ \A o \in Callers : o # t => call'[o] = call[o]
    BY <2>1, <2>2, CallType DEF Inv
  <2>4. TypeOK'
    <3>1. calls' \in 0 .. MaxCalls
      BY <2>1, CallCount DEF Inv, TypeOK
    <3> QED
      BY <2>1, <2>3, <3>1 DEF Inv, TypeOK, CallInv, CallSpace, holder, pipeline, model
  <2>5. CallInv'
    <3>1. \A o \in Callers : call[o].at \notin {"apply", "export"}
      BY <2>1, HotReloadAssumption DEF Inv, CallInv
    <3> QED
      BY <2>1, <2>2, <2>3, <3>1 DEF Inv, CallInv, model
  <2>6. HistoryInv' /\ LayerInv'
    BY <2>1, <2>3 DEF Inv, HistoryInv, LayerInv, model, pipeline
  <2>7. ConfigInv'
    BY <2>1, <2>3 DEF Inv, ConfigInv, InConfigCall, holder, pipeline
  <2> QED
    BY <2>4, <2>5, <2>6, <2>7 DEF Inv
<1>4. CASE FinishExport(t)
  <2>1. /\ call[t].at = "export" /\ call[t].config = active /\ modelLock = t
        /\ file' \in {active, Torn} /\ modelLock' = None
        /\ call' = [call EXCEPT ![t] = Idle]
        /\ UNCHANGED << holder, pipeline, model, calls, overlapped, overwritten >>
    BY <1>4 DEF FinishExport, Inv, CallInv
  <2>2. /\ call' \in [Callers -> CallSpace]
        /\ call'[t] = Idle
        /\ \A o \in Callers : o # t => call'[o] = call[o]
    BY <2>1, CallType DEF Inv
  <2>3. TypeOK'
    BY <2>1, <2>2 DEF Inv, TypeOK, CallInv, CallSpace, holder, pipeline, model
  <2>4. CallInv'
    <3>1. \A o \in Callers : o # t => call[o].at \notin {"apply", "export"}
      BY <2>1, HotReloadAssumption DEF Inv, CallInv
    <3>2. \A o \in Callers : o # None
      BY HotReloadAssumption
    <3> QED
      BY <2>1, <2>2, <3>1, <3>2 DEF Inv, CallInv, Idle, model
  <2>5. HistoryInv' /\ LayerInv'
    BY <2>1, <2>2 DEF Inv, HistoryInv, LayerInv, model, pipeline
  <2>6. ConfigInv'
    BY <2>1, <2>2 DEF Inv, ConfigInv, InConfigCall, Idle, holder, pipeline
  <2> QED
    BY <2>3, <2>4, <2>5, <2>6 DEF Inv
<1> QED
  BY <1>1, <1>2, <1>3, <1>4

\* Events, resets, damage to the file and stuttering keep the invariant.
LEMMA OtherStep ==
    ASSUME Inv, Damage \/ Reset \/ (\E s \in Sources : Ingest(s)) \/ UNCHANGED vars
    PROVE  Inv'
<1>1. ASSUME NEW s \in Sources, Ingest(s) PROVE Inv'
  BY <1>1
  DEF Ingest, Inv, TypeOK, CallInv, HistoryInv, LayerInv, ConfigInv, InConfigCall, holder, model
<1>2. CASE Reset
  BY <1>2
  DEF Reset, Inv, TypeOK, CallInv, HistoryInv, LayerInv, ConfigInv, InConfigCall, holder, model
<1>3. CASE UNCHANGED vars
  BY <1>3
  DEF vars, Inv, TypeOK, CallInv, HistoryInv, LayerInv, ConfigInv, InConfigCall, holder, model,
      pipeline
<1>4. CASE Damage
  <2>1. file' \in Models \cup {Torn, Altered}
    BY <1>4, HotReloadAssumption DEF Damage, Altering
  <2> QED
    BY <1>4, <2>1
    DEF Damage, Inv, TypeOK, CallInv, HistoryInv, LayerInv, ConfigInv, InConfigCall, holder,
        model, pipeline
<1> QED
  BY <1>1, <1>2, <1>3, <1>4

\* The invariant holds in every state.
THEOREM Invariance == Spec => []Inv
<1>1. Inv /\ [Next]_vars => Inv'
  BY ConfigStep, ModelStep, FileStep, OtherStep DEF Next, CallerStep
<1> QED
  BY InitInv, <1>1, PTL DEF Spec

-----------------------------------------------------------------------------
(* The results.                                                             *)

\* Every reachable state is well formed; in particular, what runs, is current
\* or can be rolled back to was validated, and the histories are bounded.
THEOREM TypeCorrect == Spec => []TypeOK
<1>1. Inv => TypeOK
  BY DEF Inv
<1> QED
  BY Invariance, <1>1, PTL

\* Whatever models are applied between its critical sections, a change of
\* configuration that no other overlaps leaves the pipeline with the
\* configuration the holder names.
THEOREM CurrentRuns == Spec => []RunsTheCurrent
<1>1. Inv => RunsTheCurrent
  BY DEF Inv, ConfigInv, RunsTheCurrent, Quiet, InConfigCall
<1> QED
  BY Invariance, <1>1, PTL

\* Outside a change of model layer two has the matrices of the active model.
THEOREM ActiveIsInstalled == Spec => []ActiveInstalled
<1>1. Inv => ActiveInstalled
  BY HotReloadAssumption DEF Inv, CallInv, LayerInv, ActiveInstalled
<1> QED
  BY Invariance, <1>1, PTL

\* Until the configuration changes, sources old and new have those matrices too.
THEOREM SourcesFollow == Spec => []SourcesFollowModel
<1>1. Inv => SourcesFollowModel
  BY HotReloadAssumption DEF Inv, CallInv, LayerInv, SourcesFollowModel
<1> QED
  BY Invariance, <1>1, PTL

\* A rollback of the model loses none, so that it can be undone.
THEOREM NoModelLost == Spec => RollbackKeepsModels
<1>1. ASSUME Inv, [Next]_vars, active' # active, staged' = staged
      PROVE  Recallable' = Recallable
  <2>1. PICK t \in Callers : CallerStep(t)
    BY <1>1 DEF Next, Ingest, Reset, Damage, vars, model
  <2>2. ~ApplyModel(t)
    BY <1>1 DEF ApplyModel
  <2>3. PICK k \in 1 .. MaxHistory : RollbackModel(t, k)
    BY <1>1, <2>1, <2>2
    DEF CallerStep, Update, BeginConfigCall, RollbackConfig, Install, Fetch, Restore, Stage,
        ReadModel, StageRead, InstallModel, OpenExport, FinishExport, model
  <2>4. /\ k \in DOMAIN modelHistory /\ active' = modelHistory[k]
        /\ modelHistory' = Removed(<< active >> \o modelHistory, k)
    BY <2>3 DEF RollbackModel
  <2>5. modelHistory \in Seq(Models) /\ modelHistory # <<>>
    BY <1>1, <2>4, ElementType DEF Inv, TypeOK
  <2>6. active \in Models
    BY <1>1, <2>5 DEF Inv, TypeOK, HistoryInv
  <2>7. {modelHistory[k]} \cup ToSet(Removed(<< active >> \o modelHistory, k))
            = {active} \cup ToSet(modelHistory)
    BY <2>4, <2>5, <2>6, RemovedElements
  <2> QED
    BY <2>4, <2>7 DEF Recallable
<1>2. Inv /\ [Next]_vars
      => [active' # active /\ staged' = staged => Recallable' = Recallable]_vars
  BY <1>1
<1> QED
  BY Invariance, <1>2, PTL DEF Spec, RollbackKeepsModels
=============================================================================

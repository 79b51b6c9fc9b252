--------------------------- MODULE Backend_proofs ---------------------------
(***************************************************************************)
(* What concurrent requests can make of the limit of a plan, and what the   *)
(* streams show of the committed alerts, for any number of devices,        *)
(* requests, clients, alerts and any limit of a queue.                     *)
(*                                                                         *)
(* The streams: the alerts of one request are announced in the order of    *)
(* their rows, and everything between the announcement and the client      *)
(* keeps that order, since a broadcast reaches a client once, ends before  *)
(* the next begins, and a queue only loses its oldest payload.             *)
(***************************************************************************)
EXTENDS Backend, FiniteSetTheorems, SequenceTheorems, TLAPS

-----------------------------------------------------------------------------
(* The limit of the plan.                                                   *)

\* What the counts of LimitHolds rest on.
LimitInv ==
    /\ device \in [Devices -> {"unborn", "registered", "deleted"}]
    /\ counted \in 0 .. Creators
    /\ LimitHolds

LEMMA RegisteredFinite ==
    /\ IsFiniteSet(Registered)
    /\ Cardinality(Registered) \in Nat
<1>1. IsFiniteSet(Devices)
  BY BackendAssumption, FS_Interval DEF Devices
<1>2. IsFiniteSet(Registered)
  BY <1>1, FS_Subset DEF Registered
<1>3. QED
  BY <1>2, FS_CardinalityType

\* The same of the state after a step: Registered' is a subset of Devices.
LEMMA RegisteredFiniteNext ==
    /\ IsFiniteSet(Registered')
    /\ Cardinality(Registered') \in Nat
<1>1. IsFiniteSet(Devices)
  BY BackendAssumption, FS_Interval DEF Devices
<1>2. IsFiniteSet(Registered')
  BY <1>1, FS_Subset DEF Registered
<1>3. QED
  BY <1>2, FS_CardinalityType

LEMMA DeviceSteps ==
    ASSUME [Next]_vars
    PROVE  \/ CountDevices
           \/ InsertDevice
           \/ \E d \in Devices : DeleteDevice(d)
           \/ UNCHANGED << device, counted >>
  BY DEF Next, vars, Verify, Commit, Announce

LEMMA LimitInductive ==
    ASSUME LimitInv, [Next]_vars
    PROVE  LimitInv'
<1>0. /\ Creators \in Nat \ {0} /\ Allowed \in Nat \ {0}
      /\ counted \in Nat
      /\ Cardinality(Registered) + counted < Allowed + Creators
      /\ Cardinality(Registered) \in Nat
  BY BackendAssumption, RegisteredFinite DEF LimitInv, LimitHolds
<1>1. CASE CountDevices
  <2>1. counted' = counted + 1 /\ counted < Creators /\ Cardinality(Registered) < Allowed
    BY <1>1 DEF CountDevices
  <2>2. device' = device /\ Registered' = Registered
    BY <1>1 DEF CountDevices, Registered
  <2>3. Cardinality(Registered) + counted' < Allowed + Creators /\ counted' \in 0 .. Creators
    BY <1>0, <2>1
  <2>4. QED
    BY <2>2, <2>3 DEF LimitInv, LimitHolds
<1>2. CASE InsertDevice
  <2>1. PICK d \in Devices : device[d] = "unborn" /\ device' = [device EXCEPT ![d] = "registered"]
    BY <1>2 DEF InsertDevice
  <2>2. counted' = counted - 1 /\ counted > 0
    BY <1>2 DEF InsertDevice
  <2>3. Registered' = Registered \cup {d} /\ d \notin Registered
    BY <2>1 DEF LimitInv, Registered
  <2>4. Cardinality(Registered') = Cardinality(Registered) + 1
    BY <2>3, RegisteredFinite, FS_AddElement
  <2>5. Cardinality(Registered') + counted' < Allowed + Creators /\ counted' \in 0 .. Creators
    BY <1>0, <2>2, <2>4 DEF LimitInv
  <2>6. device' \in [Devices -> {"unborn", "registered", "deleted"}]
    BY <2>1 DEF LimitInv
  <2>7. QED
    BY <2>5, <2>6 DEF LimitInv, LimitHolds
<1>3. ASSUME NEW d \in Devices, DeleteDevice(d)
      PROVE  LimitInv'
  <2>1. device' = [device EXCEPT ![d] = "deleted"] /\ counted' = counted
    BY <1>3 DEF DeleteDevice
  <2>2. Registered' \subseteq Registered
    BY <2>1 DEF LimitInv, Registered
  <2>3. Cardinality(Registered') <= Cardinality(Registered)
    BY <2>2, RegisteredFinite, FS_Subset
  <2>4. Cardinality(Registered') + counted' < Allowed + Creators
    BY <1>0, <2>1, <2>3, RegisteredFiniteNext
  <2>5. device' \in [Devices -> {"unborn", "registered", "deleted"}]
    BY <2>1 DEF LimitInv
  <2>6. QED
    BY <2>1, <2>4, <2>5 DEF LimitInv, LimitHolds
<1>4. CASE UNCHANGED << device, counted >>
  BY <1>4 DEF LimitInv, LimitHolds, Registered
<1>5. QED
  BY <1>1, <1>2, <1>3, <1>4, DeviceSteps

LEMMA LimitInit == Init => LimitInv
<1> SUFFICES ASSUME Init PROVE LimitInv
  OBVIOUS
<1>1. Registered = {} /\ counted = 0
  BY DEF Init, Registered
<1>2. Cardinality(Registered) = 0
  BY <1>1, FS_EmptySet
<1>3. device \in [Devices -> {"unborn", "registered", "deleted"}]
  BY DEF Init
<1>4. QED
  BY <1>1, <1>2, <1>3, BackendAssumption DEF LimitInv, LimitHolds

\* However many requests add a device at a time and however many are deleted in
\* between, a plan is exceeded by fewer devices than there are such requests
\* (create_device of routers/devices.py, which counts before it inserts).
THEOREM PlanExceededByFew == Spec => []LimitHolds
<1>1. Init => LimitInv
  BY LimitInit
<1>2. LimitInv /\ [Next]_vars => LimitInv'
  BY LimitInductive
<1>3. LimitInv => LimitHolds
  BY DEF LimitInv
<1>4. QED
  BY <1>1, <1>2, <1>3, PTL DEF Spec

-----------------------------------------------------------------------------
(* The inductive invariant of the streams.                                  *)

Fans == [stage : Stages, message : Nat, index : Nat \ {0}, to : Clients \cup {Nobody},
         orphaned : BOOLEAN, present : SUBSET Clients, reached : SUBSET Clients, leavers : Nat]

TypeInv ==
    /\ scheduled \in Seq(Messages)
    /\ fan \in Fans
    /\ fan.stage \in {"drop", "put", "wake"} <=> fan.to \in Clients
    /\ fan.stage # "none" => fan.message \in Messages
    /\ subs \in Seq(Clients)
    /\ queue \in [Clients -> Seq(Messages)]
    /\ reader \in [Clients -> Places]
    /\ sent \in [Clients -> Seq(Messages)]
    /\ late \in [Clients -> BOOLEAN]

\* The list of subscribers has those who are neither off nor gone, each once.
SubsInv ==
    /\ \A p, q \in 1 .. Len(subs) : subs[p] = subs[q] => p = q
    /\ \A p \in 1 .. Len(subs) : reader[subs[p]] \notin {"off", "left"}
    /\ \A c \in Clients :
          reader[c] \notin {"off", "left"} => \E p \in 1 .. Len(subs) : subs[p] = c

\* No queue outgrows its limit: a put finds room, as only the broadcast adds.
RoomInv ==
    /\ \A c \in Clients : Len(queue[c]) <= MaxQueue
    /\ fan.stage = "put" => Len(queue[fan.to]) < MaxQueue

\* A broadcast comes to a client once: those it came to are not ahead of it, and
\* all of them subscribed before.
TurnInv ==
    fan.stage # "none" =>
        /\ fan.stage \in {"drop", "put"} => fan.to \notin fan.reached
        /\ fan.stage = "wake" => fan.to \in fan.reached
        /\ \A p \in 1 .. Len(subs) :
               p >= fan.index => subs[p] \notin fan.reached /\ subs[p] # fan.to
        /\ \A c \in fan.present \cup fan.reached \cup ({fan.to} \ {Nobody}) : reader[c] # "off"

\* Who was there when the broadcast began, is on the list at a place it has passed,
\* and was not reached
Missed ==
    {c \in fan.present \ (fan.reached \cup {fan.to}) :
        \E p \in 1 .. Len(subs) : p < fan.index /\ subs[p] = c}

\* Each who leaves makes the broadcast pass over one at most.
MissedInv ==
    fan.stage # "none" =>
        /\ Cardinality(Missed) <= fan.leavers
        /\ fan.orphaned => \A p \in 1 .. Len(subs) : subs[p] \notin fan.present

StreamInv == TypeInv /\ SubsInv /\ RoomInv /\ TurnInv /\ MissedInv

-----------------------------------------------------------------------------
(* The inductive invariant of the alerts.                                   *)

Stored == {"committed", "answered"}

\* The rows of request k stand one after the other, behind row b.
Block(k, b) == RowsOf(k) = b + 1 .. b + Batch

Rows == [call : Calls, device : Devices \cup {0}]

CallInv ==
    /\ call \in [Calls -> [stage : CallStages, device : Nat, announced : 0 .. Batch]]
    /\ rows \in Seq(Rows)
    /\ device \in [Devices -> {"unborn", "registered", "deleted"}]
    /\ \A k \in Calls :
          /\ call[k].stage \notin Stored => call[k].announced = 0 /\ RowsOf(k) = {}
          /\ call[k].stage \in Stored => \E b \in 0 .. Len(rows) : Block(k, b)
          /\ call[k].stage = "committed" => call[k].announced < Batch
    /\ \A i \in 1 .. Len(rows) : rows[i].device \in Registered \cup {0}
    /\ Len(rows) = Batch * Cardinality({k \in Calls : call[k].stage \in Stored})

\* The rows of the alerts that were announced
AnnouncedRows ==
    {m \in 1 .. Len(rows) :
        \E b \in 0 .. Len(rows) : Block(rows[m].call, b) /\ m <= b + call[rows[m].call].announced}

Items(s) == {s[i] : i \in 1 .. Len(s)}

AnnouncedInv ==
    /\ Items(scheduled) \subseteq AnnouncedRows
    /\ fan.stage # "none" => fan.message \in AnnouncedRows
    /\ \A c \in Clients :
          Items(queue[c]) \subseteq AnnouncedRows /\ Items(sent[c]) \subseteq AnnouncedRows

\* Of two rows of a table r the first may be shown before the second: alerts of one
\* request keep their order.
Later(r, m, n) == r[m].call = r[n].call => m < n

Ordered(r, s)   == \A i, j \in 1 .. Len(s) : i < j => Later(r, s[i], s[j])
Before(r, S, T) == \A m \in S, n \in T : Later(r, m, n)

\* From what was sent to what is scheduled, everything is in order.
OrderInv ==
    /\ Ordered(rows, scheduled)
    /\ fan.stage # "none" => Before(rows, {fan.message}, Items(scheduled))
    /\ \A c \in Clients :
          /\ Ordered(rows, sent[c]) /\ Ordered(rows, queue[c])
          /\ Before(rows, Items(sent[c]), Items(queue[c]))
          /\ Before(rows, Items(sent[c]) \cup Items(queue[c]), Items(scheduled))
          /\ fan.stage # "none" /\ c \notin fan.reached =>
                 Before(rows, Items(sent[c]) \cup Items(queue[c]), {fan.message})

Inv == StreamInv /\ CallInv /\ AnnouncedInv /\ OrderInv

-----------------------------------------------------------------------------
(* Sequences.                                                               *)

\* The length of a sequence is a number, and its entries are where they belong.
LEMMA SeqParts ==
    ASSUME NEW S, NEW s \in Seq(S)
    PROVE  Len(s) \in Nat /\ DOMAIN s = 1 .. Len(s) /\ \A i \in 1 .. Len(s) : s[i] \in S
  OBVIOUS

\* A sequence with an entry more
LEMMA Appended ==
    ASSUME NEW S, NEW s \in Seq(S), NEW e \in S
    PROVE  /\ Append(s, e) \in Seq(S)
           /\ Len(Append(s, e)) = Len(s) + 1
           /\ Append(s, e)[Len(s) + 1] = e
           /\ \A i \in 1 .. Len(s) : Append(s, e)[i] = s[i]
           /\ \A i \in 1 .. Len(s) + 1 : i \in 1 .. Len(s) \/ i = Len(s) + 1
<1>1. Len(s) \in Nat
  OBVIOUS
<1>2. /\ Append(s, e) \in Seq(S)
      /\ Len(Append(s, e)) = Len(s) + 1
      /\ Append(s, e)[Len(s) + 1] = e
      /\ \A i \in 1 .. Len(s) : Append(s, e)[i] = s[i]
  BY AppendProperties
<1> QED
  BY <1>1, <1>2

\* A sequence without its first entry
LEMMA Shortened ==
    ASSUME NEW S, NEW s \in Seq(S), s # <<>>
    PROVE  /\ Tail(s) \in Seq(S) /\ Head(s) \in S
           /\ Len(s) \in Nat /\ Len(s) # 0 /\ 1 \in 1 .. Len(s) /\ Head(s) = s[1]
           /\ Len(Tail(s)) = Len(s) - 1
           /\ \A i \in 1 .. Len(Tail(s)) :
                  i + 1 \in 1 .. Len(s) /\ 1 < i + 1 /\ Tail(s)[i] = s[i + 1]
<1>1. /\ Tail(s) \in Seq(S) /\ Head(s) \in S
      /\ Len(Tail(s)) = Len(s) - 1
      /\ \A i \in 1 .. Len(Tail(s)) : Tail(s)[i] = s[i + 1]
  BY HeadTailProperties
<1>2. Len(s) \in Nat /\ Len(s) # 0 /\ Head(s) = s[1]
  OBVIOUS
<1>3. ASSUME NEW n \in Nat, n # 0
      PROVE  1 \in 1 .. n /\ \A i \in 1 .. n - 1 : i + 1 \in 1 .. n /\ 1 < i + 1
  BY <1>3
<1> QED
  BY <1>1, <1>2, <1>3

\* Sequence t of m entries is s without entry k + 1.
Closes(t, s, k, m) == \A p \in 1 .. m : t[p] = IF p <= k THEN s[p] ELSE s[p + 1]

Cut(t, S, s, k, l, m) ==
    /\ s \in Seq(S) /\ k \in Nat /\ l \in Nat /\ m \in Nat
    /\ m = k + l /\ Len(s) = m + 1
    /\ t = SubSeq(s, 1, k) \o SubSeq(s, k + 2, m + 1)

\* A sequence of k + 1 + l entries without the one in between
LEMMA GapClosed ==
    ASSUME NEW S, NEW s, NEW k, NEW l, NEW m, NEW t, Cut(t, S, s, k, l, m)
    PROVE  t \in Seq(S) /\ Len(t) = m /\ Closes(t, s, k, m)
<1> USE DEF Cut, Closes
<1> DEFINE a == SubSeq(s, 1, k)
           b == SubSeq(s, k + 2, m + 1)
<1>1. a \in Seq(S) /\ Len(a) = k /\ \A p \in 1 .. k : a[p] = s[p]
  <2>1. \A p \in 1 .. k : s[p] \in S
    OBVIOUS
  <2>2. /\ a \in Seq(S)
        /\ Len(a) = IF 1 <= k THEN k - 1 + 1 ELSE 0
        /\ \A p \in 1 .. k - 1 + 1 : a[p] = s[1 + p - 1]
    BY <2>1, SubSeqProperties
  <2>3. \A p \in 1 .. k : p \in 1 .. k - 1 + 1 /\ 1 + p - 1 = p
    OBVIOUS
  <2>4. (IF 1 <= k THEN k - 1 + 1 ELSE 0) = k
    OBVIOUS
  <2> HIDE DEF a
  <2> QED
    BY <2>2, <2>3, <2>4
<1>2. b \in Seq(S) /\ Len(b) = l /\ \A p \in 1 .. l : b[p] = s[k + 1 + p]
  <2>1. \A p \in k + 2 .. m + 1 : s[p] \in S
    OBVIOUS
  <2>2. /\ b \in Seq(S)
        /\ Len(b) = IF k + 2 <= m + 1 THEN m + 1 - (k + 2) + 1 ELSE 0
        /\ \A p \in 1 .. m + 1 - (k + 2) + 1 : b[p] = s[k + 2 + p - 1]
    BY <2>1, SubSeqProperties
  <2>3. \A p \in 1 .. l : p \in 1 .. m + 1 - (k + 2) + 1 /\ k + 2 + p - 1 = k + 1 + p
    OBVIOUS
  <2>4. (IF k + 2 <= m + 1 THEN m + 1 - (k + 2) + 1 ELSE 0) = l
    OBVIOUS
  <2> HIDE DEF b
  <2> QED
    BY <2>2, <2>3, <2>4
<1> HIDE DEF a, b
<1>3. /\ a \o b \in Seq(S) /\ Len(a \o b) = m
      /\ \A p \in 1 .. m : (a \o b)[p] = IF p <= k THEN a[p] ELSE b[p - k]
  <2>1. Len(a) + Len(b) = m
    BY <1>1, <1>2
  <2>0. a \in Seq(S) /\ b \in Seq(S)
    BY <1>1, <1>2
  <2>2. /\ a \o b \in Seq(S) /\ Len(a \o b) = Len(a) + Len(b)
        /\ \A p \in 1 .. Len(a) + Len(b) :
               (a \o b)[p] = IF p <= Len(a) THEN a[p] ELSE b[p - Len(a)]
    BY <2>0, ConcatProperties
  <2> QED
    BY <1>1, <2>1, <2>2
<1>4. \A p \in 1 .. m : (a \o b)[p] = IF p <= k THEN s[p] ELSE s[p + 1]
  <2> SUFFICES ASSUME NEW p \in 1 .. m
               PROVE  (a \o b)[p] = IF p <= k THEN s[p] ELSE s[p + 1]
    OBVIOUS
  <2>1. CASE p <= k
    <3>1. p \in 1 .. k
      BY <2>1
    <3> QED
      BY <1>1, <1>3, <2>1, <3>1
  <2>2. CASE ~(p <= k)
    <3>1. p - k \in 1 .. l /\ k + 1 + (p - k) = p + 1
      BY <2>2
    <3> QED
      BY <1>2, <1>3, <2>2, <3>1
  <2> QED
    BY <2>1, <2>2
<1> QED
  BY <1>3, <1>4 DEF a, b

Distinct(s) == \A p, q \in 1 .. Len(s) : s[p] = s[q] => p = q

Taken(t, S, s, e, i, k, m) ==
    /\ s \in Seq(S) /\ m \in Nat /\ k \in Nat /\ i \in 1 .. m + 1 /\ k = i - 1
    /\ Len(s) = m + 1 /\ Distinct(s)
    /\ s[i] = e /\ t = RemoveFirst(s, e)

\* RemoveFirst closes the gap.
LEMMA Removed ==
    ASSUME NEW S, NEW s, NEW e, NEW i, NEW k, NEW m, NEW t, Taken(t, S, s, e, i, k, m)
    PROVE  t \in Seq(S) /\ Len(t) = m /\ Closes(t, s, k, m)
<1> USE DEF Taken
<1> DEFINE I == {p \in 1 .. m + 1 : s[p] = e}
<1>1. I = {i}
  BY DEF Distinct
<1>2. Min(I) = i
  <2>1. \A y \in {i} : i =< y
    OBVIOUS
  <2> QED
    BY <1>1, <2>1 DEF Min
<1>3. SelectInSeq(s, LAMBDA v : v = e) = i
  <2> HIDE DEF I
  <2>1. I # {}
    BY <1>1
  <2>2. SelectInSeq(s, LAMBDA v : v = e) = IF I # {} THEN Min(I) ELSE 0
    BY DEF SelectInSeq, I
  <2> QED
    BY <1>2, <2>1, <2>2
<1>4. t = SubSeq(s, 1, i - 1) \o SubSeq(s, i + 1, m + 1)
  BY <1>3 DEF RemoveFirst, RemoveAt
<1> HIDE DEF I
<1>5. \E l \in Nat : l = m - k
  OBVIOUS
<1> PICK l \in Nat : l = m - k
  BY <1>5
<1>6. i + 1 = k + 2 /\ i - 1 = k /\ m = k + l
  OBVIOUS
<1>7. Cut(t, S, s, k, l, m)
  BY <1>4, <1>6 DEF Cut
<1> HIDE DEF Taken
<1> QED
  BY <1>7, GapClosed

-----------------------------------------------------------------------------
(* The streams keep their invariant.                                        *)

LEMMA StreamConstants ==
    /\ MaxQueue \in Nat /\ MaxQueue > 1 /\ Nobody \notin Clients
    /\ IsFiniteSet(Clients)
  BY StreamAssumption

\* Missed is finite, now and after a step.
LEMMA MissedFinite ==
    ASSUME TypeInv
    PROVE  IsFiniteSet(Missed) /\ Cardinality(Missed) \in Nat
<1>1. Missed \subseteq Clients
  BY DEF TypeInv, Fans, Missed
<1>2. IsFiniteSet(Missed)
  BY <1>1, StreamConstants, FS_Subset
<1> QED
  BY <1>2, FS_CardinalityType

\* A reader goes on to another place where it is still subscribed.
LEMMA ReaderMoves ==
    ASSUME StreamInv, NEW c \in Clients, NEW p \in Places \ {"off", "left"},
           reader[c] \notin {"off", "left"}, reader' = [reader EXCEPT ![c] = p],
           NEW l \in [Clients -> BOOLEAN], late' = l,
           UNCHANGED << scheduled, fan, subs, queue, sent >>
    PROVE  StreamInv'
<1>1. /\ reader' \in [Clients -> Places]
      /\ \A d \in Clients : reader'[d] \in {"off", "left"} <=> reader[d] \in {"off", "left"}
      /\ \A d \in Clients : reader[d] # "off" => reader'[d] # "off"
  BY DEF StreamInv, TypeInv
<1>2. TypeInv'
  BY <1>1 DEF StreamInv, TypeInv
<1>3. SubsInv'
  <2>1. \A q \in 1 .. Len(subs) : subs[q] \in Clients
    BY SeqParts DEF StreamInv, TypeInv
  <2> QED
    BY <1>1, <2>1 DEF StreamInv, SubsInv
<1>4. RoomInv' /\ MissedInv'
  BY DEF StreamInv, RoomInv, MissedInv, Missed
<1>5. TurnInv'
  <2>1. \A d \in fan.present \cup fan.reached \cup ({fan.to} \ {Nobody}) : d \in Clients
    BY DEF StreamInv, TypeInv, Fans
  <2> QED
    BY <1>1, <2>1 DEF StreamInv, TurnInv
<1> QED
  BY <1>2, <1>3, <1>4, <1>5 DEF StreamInv

\* What unsubscribe makes of the list: the entry of the client is gone, and those
\* behind it moved up.
LEMMA ListShrinks ==
    ASSUME StreamInv, NEW c \in Clients, reader[c] \notin {"off", "left"}, Unsubscribe(c)
    PROVE  \E i \in 1 .. Len(subs) :
               /\ subs[i] = c
               /\ subs' \in Seq(Clients)
               /\ Len(subs') = Len(subs) - 1
               /\ \A p \in 1 .. Len(subs) - 1 :
                      subs'[p] = IF p < i THEN subs[p] ELSE subs[p + 1]
<1> PICK s \in Seq(Clients) : s = subs
  BY DEF StreamInv, TypeInv
<1>1. PICK i \in 1 .. Len(s) : s[i] = c
  BY DEF StreamInv, SubsInv
<1>2. Len(s) - 1 \in Nat
  BY SeqParts
<1> PICK m \in Nat : m = Len(s) - 1
  BY <1>2, Zenon
<1>3. Len(s) = m + 1 /\ i \in 1 .. m + 1
  BY SeqParts
<1>4. \E k \in Nat : k = i - 1
  BY <1>3
<1> PICK k \in Nat : k = i - 1
  BY <1>4
<1>5. Distinct(s)
  BY DEF StreamInv, SubsInv, Distinct
<1>6. Taken(subs', Clients, s, c, i, k, m)
  BY <1>1, <1>3, <1>5 DEF Unsubscribe, Taken
<1>7. subs' \in Seq(Clients) /\ Len(subs') = m /\ Closes(subs', s, k, m)
  BY <1>6, Removed
<1>8. /\ subs' \in Seq(Clients) /\ Len(subs') = Len(subs) - 1
      /\ \A p \in 1 .. Len(subs) - 1 : subs'[p] = IF p < i THEN subs[p] ELSE subs[p + 1]
  <2>1. \A p \in 1 .. m : p < i <=> p <= k
    BY <1>3
  <2>2. \A p \in 1 .. m : subs'[p] = IF p < i THEN s[p] ELSE s[p + 1]
    BY <1>7, <2>1 DEF Closes
  <2> QED
    BY <1>7, <2>2, Zenon
<1> QED
  BY <1>1, <1>8, Zenon

\* What it makes of a broadcast under way
LEMMA FanNotes ==
    ASSUME TypeInv, NEW c \in Clients, Unsubscribe(c)
    PROVE  /\ fan' \in Fans /\ fan'.stage = fan.stage /\ fan'.message = fan.message
           /\ fan'.index = fan.index /\ fan'.to = fan.to /\ fan'.present = fan.present
           /\ fan'.reached = fan.reached
           /\ fan.stage # "none" =>
                  /\ fan'.leavers = fan.leavers + 1
                  /\ fan'.orphaned = (fan.orphaned \/ subs' = <<>>)
<1>1. CASE fan.stage = "none"
  BY <1>1 DEF TypeInv, Unsubscribe
<1>2. CASE fan.stage # "none"
  <2> PICK n \in Nat : n = fan.leavers + 1
    BY DEF TypeInv, Fans
  <2> PICK o \in BOOLEAN : o = (fan.orphaned \/ subs' = <<>>)
    OBVIOUS
  <2>1. fan' = [fan EXCEPT !.orphaned = o, !.leavers = n]
    BY <1>2 DEF Unsubscribe
  <2> QED
    BY <1>2, <2>1 DEF TypeInv, Fans
<1> QED
  BY <1>1, <1>2

\* Where the entries of the shorter list were, and where those of the longer are
LEMMA EntriesMove ==
    ASSUME StreamInv, NEW c \in Clients, reader[c] \notin {"off", "left"}, Unsubscribe(c)
    PROVE  /\ subs' \in Seq(Clients) /\ Len(subs') \in Nat /\ Len(subs) \in Nat
           /\ \A p \in 1 .. Len(subs') :
                  /\ subs'[p] # c
                  /\ \/ p \in 1 .. Len(subs) /\ subs'[p] = subs[p]
                     \/ p + 1 \in 1 .. Len(subs) /\ subs'[p] = subs[p + 1]
           /\ \A q \in 1 .. Len(subs) :
                  subs[q] # c => \E p \in 1 .. Len(subs') : subs'[p] = subs[q]
           /\ \A p, q \in 1 .. Len(subs') : subs'[p] = subs'[q] => p = q
<1> PICK i \in 1 .. Len(subs) :
        /\ subs[i] = c
        /\ subs' \in Seq(Clients)
        /\ Len(subs') = Len(subs) - 1
        /\ \A p \in 1 .. Len(subs) - 1 : subs'[p] = IF p < i THEN subs[p] ELSE subs[p + 1]
  BY ListShrinks
<1>1. Len(subs) \in Nat /\ Len(subs') \in Nat
  BY SeqParts DEF StreamInv, TypeInv
<1> PICK n \in Nat : n = Len(subs)
  BY <1>1
<1>2. \A p, q \in 1 .. n : subs[p] = subs[q] => p = q
  BY DEF StreamInv, SubsInv
<1>3. /\ i \in 1 .. n /\ Len(subs') = n - 1
      /\ \A p \in 1 .. n - 1 : subs'[p] = IF p < i THEN subs[p] ELSE subs[p + 1]
  OBVIOUS
<1>4. ASSUME NEW p \in 1 .. n - 1
      PROVE  /\ subs'[p] # c
             /\ \/ p \in 1 .. n /\ subs'[p] = subs[p]
                \/ p + 1 \in 1 .. n /\ subs'[p] = subs[p + 1]
  BY <1>2, <1>3
<1>5. ASSUME NEW q \in 1 .. n, subs[q] # c
      PROVE  \E p \in 1 .. n - 1 : subs'[p] = subs[q]
  <2>1. CASE q < i
    BY <1>3, <2>1
  <2>2. CASE q > i
    <3>1. q - 1 \in 1 .. n - 1 /\ ~(q - 1 < i) /\ (q - 1) + 1 = q
      BY <1>3, <2>2
    <3> QED
      BY <1>3, <3>1
  <2> QED
    BY <1>3, <1>5, <2>1, <2>2
<1>6. ASSUME NEW p \in 1 .. n - 1, NEW q \in 1 .. n - 1, subs'[p] = subs'[q]
      PROVE  p = q
  <2>1. p \in 1 .. n /\ q \in 1 .. n /\ p + 1 \in 1 .. n /\ q + 1 \in 1 .. n
    OBVIOUS
  <2> QED
    BY <1>2, <1>3, <1>6, <2>1
<1> QED
  BY <1>1, <1>3, <1>4, <1>5, <1>6

\* A client leaves: the reader ends and unsubscribes.
LEMMA Leaves ==
    ASSUME StreamInv, NEW c \in Clients, reader[c] \notin {"off", "left"},
           reader' = [reader EXCEPT ![c] = "left"], Unsubscribe(c),
           UNCHANGED scheduled
    PROVE  StreamInv'
<1>1. /\ subs' \in Seq(Clients) /\ Len(subs') \in Nat /\ Len(subs) \in Nat
      /\ \A p \in 1 .. Len(subs') :
             /\ subs'[p] # c
             /\ \/ p \in 1 .. Len(subs) /\ subs'[p] = subs[p]
                \/ p + 1 \in 1 .. Len(subs) /\ subs'[p] = subs[p + 1]
      /\ \A q \in 1 .. Len(subs) :
             subs[q] # c => \E p \in 1 .. Len(subs') : subs'[p] = subs[q]
      /\ \A p, q \in 1 .. Len(subs') : subs'[p] = subs'[q] => p = q
  BY EntriesMove
<1>2. /\ fan' \in Fans /\ fan'.stage = fan.stage /\ fan'.message = fan.message
      /\ fan'.index = fan.index /\ fan'.to = fan.to /\ fan'.present = fan.present
      /\ fan'.reached = fan.reached
      /\ fan.stage # "none" =>
             /\ fan'.leavers = fan.leavers + 1
             /\ fan'.orphaned = (fan.orphaned \/ subs' = <<>>)
  BY FanNotes DEF StreamInv
<1>3. /\ reader' \in [Clients -> Places] /\ reader'[c] = "left"
      /\ \A d \in Clients : d # c => reader'[d] = reader[d]
  BY DEF StreamInv, TypeInv, Places
<1>3a. /\ queue' \in [Clients -> Seq(Messages)] /\ sent' \in [Clients -> Seq(Messages)]
       /\ late' \in [Clients -> BOOLEAN]
       /\ \A d \in Clients : queue'[d] = queue[d] \/ Len(queue'[d]) = 0
  BY DEF StreamInv, TypeInv, Unsubscribe
<1>4. TypeInv'
  BY <1>1, <1>2, <1>3, <1>3a DEF StreamInv, TypeInv
<1>5. SubsInv'
  <2>1. \A p \in 1 .. Len(subs) : subs[p] \in Clients
    BY SeqParts DEF StreamInv, TypeInv
  <2>2. \A p \in 1 .. Len(subs') : subs'[p] \in Clients
    BY <1>1, SeqParts
  <2>3. ASSUME NEW p \in 1 .. Len(subs')
        PROVE  reader'[subs'[p]] \notin {"off", "left"}
    <3>1. PICK q \in 1 .. Len(subs) : subs'[p] = subs[q] /\ subs[q] # c
      BY <1>1, <2>3
    <3>2. subs[q] \in Clients /\ reader[subs[q]] \notin {"off", "left"}
      BY <2>1 DEF StreamInv, SubsInv
    <3> QED
      BY <1>3, <3>1, <3>2
  <2>4. ASSUME NEW d \in Clients, reader'[d] \notin {"off", "left"}
        PROVE  \E p \in 1 .. Len(subs') : subs'[p] = d
    <3>1. d # c /\ reader[d] \notin {"off", "left"}
      BY <1>3, <2>4
    <3>2. PICK q \in 1 .. Len(subs) : subs[q] = d
      BY <3>1 DEF StreamInv, SubsInv
    <3> QED
      BY <1>1, <3>1, <3>2
  <2> QED
    BY <1>1, <2>3, <2>4 DEF SubsInv
<1>6. RoomInv'
  <2>0. 0 < MaxQueue /\ 0 <= MaxQueue
    BY StreamConstants
  <2>1. ASSUME NEW d \in Clients
        PROVE  Len(queue'[d]) <= MaxQueue
    <3>1. Len(queue[d]) <= MaxQueue
      BY DEF StreamInv, RoomInv
    <3>2. CASE queue'[d] = queue[d]
      BY <3>1, <3>2
    <3>3. CASE Len(queue'[d]) = 0
      BY <2>0, <3>3
    <3> QED
      BY <1>3a, <3>2, <3>3
  <2>2. ASSUME fan.stage = "put"
        PROVE  Len(queue'[fan.to]) < MaxQueue
    <3> PICK d \in Clients : d = fan.to
      BY <2>2 DEF StreamInv, TypeInv
    <3>1. Len(queue[d]) < MaxQueue
      BY <2>2 DEF StreamInv, RoomInv
    <3>2. CASE queue'[d] = queue[d]
      BY <3>1, <3>2
    <3>3. CASE Len(queue'[d]) = 0
      BY <2>0, <3>3
    <3> QED
      BY <1>3a, <3>2, <3>3
  <2> QED
    BY <1>2, <2>1, <2>2 DEF RoomInv
<1>7. TurnInv'
  <2> SUFFICES ASSUME fan.stage # "none"
               PROVE  TurnInv'
    BY <1>2 DEF TurnInv
  <2> PICK n \in Nat : n = fan.index
    BY DEF StreamInv, TypeInv, Fans
  <2>1. ASSUME NEW p \in 1 .. Len(subs'), p >= n
        PROVE  subs'[p] \notin fan.reached /\ subs'[p] # fan.to
    <3>1. p + 1 >= n
      BY <1>1, <2>1
    <3> QED
      BY <1>1, <2>1, <3>1 DEF StreamInv, TurnInv
  <2>2. \A d \in fan.present \cup fan.reached \cup ({fan.to} \ {Nobody}) :
            d \in Clients /\ reader'[d] # "off"
    BY <1>3 DEF StreamInv, TypeInv, Fans, TurnInv
  <2> QED
    BY <1>2, <2>1, <2>2 DEF StreamInv, TurnInv
<1>8. MissedInv'
  <2> SUFFICES ASSUME fan.stage # "none"
               PROVE  MissedInv'
    BY <1>2 DEF MissedInv
  <2> PICK n \in Nat : n = fan.index
    BY DEF StreamInv, TypeInv, Fans
  <2>1. Missed' \subseteq Missed \cup {subs[n]}
    <3> SUFFICES ASSUME NEW d \in Missed', d # subs[n]
                 PROVE  d \in Missed
      OBVIOUS
    <3>1. /\ d \in fan.present \ (fan.reached \cup {fan.to})
          /\ \E p \in 1 .. Len(subs') : p < n /\ subs'[p] = d
      BY <1>2 DEF Missed
    <3>2. PICK p \in 1 .. Len(subs') : p < n /\ subs'[p] = d
      BY <3>1
    <3>3. \E q \in 1 .. Len(subs) : q < n /\ subs[q] = d
      BY <1>1, <3>2
    <3> QED
      BY <3>1, <3>3 DEF Missed
  <2>2. IsFiniteSet(Missed) /\ Cardinality(Missed) \in Nat
    BY MissedFinite DEF StreamInv
  <2>3. IsFiniteSet(Missed \cup {subs[n]})
        /\ Cardinality(Missed \cup {subs[n]}) \in Nat
        /\ Cardinality(Missed \cup {subs[n]}) <= Cardinality(Missed) + 1
    <3>1. IsFiniteSet(Missed \cup {subs[n]})
          /\ Cardinality(Missed \cup {subs[n]}) =
                 IF subs[n] \in Missed THEN Cardinality(Missed) ELSE Cardinality(Missed) + 1
      BY <2>2, FS_AddElement
    <3> QED
      BY <2>2, <3>1
  <2>4. Cardinality(Missed') \in Nat /\ Cardinality(Missed') <= Cardinality(Missed \cup {subs[n]})
    <3>1. IsFiniteSet(Missed') /\ Cardinality(Missed') <= Cardinality(Missed \cup {subs[n]})
      BY <2>1, <2>3, FS_Subset
    <3> QED
      BY <3>1, FS_CardinalityType
  <2>5. fan.leavers \in Nat /\ Cardinality(Missed) <= fan.leavers
    BY DEF StreamInv, TypeInv, Fans, MissedInv
  <2>6. Cardinality(Missed') <= fan'.leavers
    BY <1>2, <2>2, <2>3, <2>4, <2>5
  <2>7. ASSUME fan'.orphaned, NEW p \in 1 .. Len(subs')
        PROVE  subs'[p] \notin fan.present
    <3>1. subs' # <<>>
      BY <1>1
    <3>2. fan.orphaned
      BY <1>2, <2>7, <3>1
    <3> QED
      BY <1>1, <3>2 DEF StreamInv, MissedInv
  <2> QED
    BY <1>2, <2>6, <2>7 DEF MissedInv
<1> QED
  BY <1>4, <1>5, <1>6, <1>7, <1>8 DEF StreamInv

\* Fewer missed than before are no more than those who left.
LEMMA MissedLess ==
    ASSUME TypeInv, MissedInv, fan.stage # "none", Missed' \subseteq Missed,
           fan'.leavers = fan.leavers
    PROVE  Cardinality(Missed') <= fan'.leavers
<1>1. Cardinality(Missed') \in Nat /\ Cardinality(Missed') <= Cardinality(Missed)
  <2>1. IsFiniteSet(Missed') /\ Cardinality(Missed') <= Cardinality(Missed)
    BY MissedFinite, FS_Subset
  <2> QED
    BY <2>1, FS_CardinalityType
<1>2. Cardinality(Missed) <= fan.leavers /\ fan.leavers \in Nat /\ Cardinality(Missed) \in Nat
  BY MissedFinite DEF TypeInv, Fans, MissedInv
<1> QED
  BY <1>1, <1>2

LEMMA SubscribeStep ==
    ASSUME StreamInv, NEW c \in Clients, Subscribe(c)
    PROVE  StreamInv'
<1> PICK t \in {"new", "check"} : t = IF c \in Sse THEN "new" ELSE "check"
  OBVIOUS
<1>1. /\ reader[c] = "off" /\ subs' = Append(subs, c) /\ reader' = [reader EXCEPT ![c] = t]
      /\ UNCHANGED << scheduled, fan, queue, sent, late >>
  BY DEF Subscribe
<1>2. /\ reader' \in [Clients -> Places] /\ reader'[c] = t
      /\ \A d \in Clients : d # c => reader'[d] = reader[d]
  BY <1>1 DEF StreamInv, TypeInv, Places
<1> PICK n \in Nat : n = Len(subs)
  BY SeqParts DEF StreamInv, TypeInv
<1>3. /\ subs' \in Seq(Clients) /\ Len(subs') = n + 1 /\ subs'[n + 1] = c
      /\ \A p \in 1 .. n : subs'[p] = subs[p]
      /\ \A p \in 1 .. n + 1 : p \in 1 .. n \/ p = n + 1
  BY <1>1, Appended DEF StreamInv, TypeInv
<1>4. /\ \A p \in 1 .. n : subs[p] \in Clients /\ reader[subs[p]] \notin {"off", "left"} /\ subs[p] # c
      /\ n + 1 \in 1 .. n + 1 /\ \A p \in 1 .. n : p \in 1 .. n + 1
  BY <1>1, SeqParts DEF StreamInv, TypeInv, SubsInv
<1>5. TypeInv'
  BY <1>1, <1>2, <1>3 DEF StreamInv, TypeInv
<1>6. SubsInv'
  <2>1. ASSUME NEW p \in 1 .. n + 1, NEW q \in 1 .. n + 1, subs'[p] = subs'[q]
        PROVE  p = q
    BY <1>3, <1>4, <2>1 DEF StreamInv, SubsInv
  <2>2. ASSUME NEW p \in 1 .. n + 1
        PROVE  reader'[subs'[p]] \notin {"off", "left"}
    BY <1>2, <1>3, <1>4
  <2>3. ASSUME NEW d \in Clients, reader'[d] \notin {"off", "left"}
        PROVE  \E p \in 1 .. n + 1 : subs'[p] = d
    <3>1. CASE d = c
      BY <1>3, <1>4, <3>1
    <3>2. CASE d # c
      <4>1. PICK p \in 1 .. n : subs[p] = d
        BY <1>2, <2>3, <3>2 DEF StreamInv, SubsInv
      <4> QED
        BY <1>3, <1>4, <4>1
    <3> QED
      BY <3>1, <3>2
  <2> QED
    BY <1>3, <2>1, <2>2, <2>3 DEF SubsInv
<1>7. RoomInv'
  BY <1>1 DEF StreamInv, RoomInv
<1>8. ASSUME fan.stage # "none"
      PROVE  c \notin fan.present \cup fan.reached /\ c # fan.to
  BY <1>1, <1>8, StreamConstants DEF StreamInv, TurnInv
<1>9. TurnInv'
  <2> SUFFICES ASSUME fan.stage # "none"
               PROVE  TurnInv'
    BY <1>1 DEF TurnInv
  <2>1. \A p \in 1 .. n + 1 : p >= fan.index => subs'[p] \notin fan.reached /\ subs'[p] # fan.to
    BY <1>3, <1>8 DEF StreamInv, TurnInv
  <2>2. \A d \in fan.present \cup fan.reached \cup ({fan.to} \ {Nobody}) :
            d \in Clients /\ reader'[d] # "off"
    BY <1>2 DEF StreamInv, TypeInv, Fans, TurnInv
  <2> QED
    BY <1>1, <1>3, <2>1, <2>2 DEF StreamInv, TurnInv
<1>10. MissedInv'
  <2> SUFFICES ASSUME fan.stage # "none"
               PROVE  MissedInv'
    BY <1>1 DEF MissedInv
  <2>1. Missed' \subseteq Missed
    BY <1>1, <1>3, <1>8 DEF Missed
  <2>2. Cardinality(Missed') <= fan'.leavers
    BY <1>1, <2>1, MissedLess DEF StreamInv
  <2>3. ASSUME fan.orphaned, NEW p \in 1 .. n + 1
        PROVE  subs'[p] \notin fan.present
    BY <1>3, <1>8, <2>3 DEF StreamInv, MissedInv
  <2> QED
    BY <1>1, <1>3, <2>2, <2>3 DEF MissedInv
<1> QED
  BY <1>5, <1>6, <1>7, <1>9, <1>10 DEF StreamInv

\* What the for statement over the list begins with: nobody was reached yet.
LEMMA BeginStep ==
    ASSUME StreamInv, Begin
    PROVE  StreamInv'
<1>1. /\ scheduled # <<>> /\ scheduled' = Tail(scheduled)
      /\ Head(scheduled) \in Messages /\ scheduled' \in Seq(Messages)
      /\ UNCHANGED << subs, queue, reader, sent, late >>
  BY Shortened DEF Begin, StreamInv, TypeInv
<1>2. CASE subs = <<>>
  <2>1. fan' = fan
    BY <1>2 DEF Begin
  <2> QED
    BY <1>1, <2>1 DEF StreamInv, TypeInv, SubsInv, RoomInv, TurnInv, MissedInv, Missed
<1>3. CASE subs # <<>>
  <2> DEFINE there == ToSet(subs)
  <2>1. \A d \in there : d \in Clients /\ reader[d] # "off"
    <3> SUFFICES ASSUME NEW d \in there
                 PROVE  d \in Clients /\ reader[d] # "off"
      OBVIOUS
    <3>1. PICK p \in 1 .. Len(subs) : subs[p] = d
      BY SeqParts DEF ToSet, StreamInv, TypeInv
    <3> QED
      BY <3>1, SeqParts DEF StreamInv, TypeInv, SubsInv
  <2>2. fan' = [Resting EXCEPT !.stage = "next", !.message = Head(scheduled), !.present = there]
    BY <1>3 DEF Begin
  <2> HIDE DEF there
  <2> PICK m \in Messages : m = Head(scheduled)
    BY <1>1
  <2>3. there \in SUBSET Clients /\ m \in Nat
    BY <2>1 DEF Messages
  <2>4. /\ fan' \in Fans /\ fan'.stage = "next" /\ fan'.message = m /\ fan'.index = 1
        /\ fan'.to = Nobody /\ fan'.orphaned = FALSE /\ fan'.present = there
        /\ fan'.reached = {} /\ fan'.leavers = 0
    <3>1. /\ Resting \in Fans /\ Resting.index = 1 /\ Resting.to = Nobody
          /\ Resting.orphaned = FALSE /\ Resting.reached = {} /\ Resting.leavers = 0
      BY DEF Resting, Fans, Stages
    <3>2. fan' = [Resting EXCEPT !.stage = "next", !.message = m, !.present = there]
      BY <2>2
    <3>3. "next" \in Stages
      BY DEF Stages
    <3> QED
      BY <2>3, <3>1, <3>2, <3>3 DEF Fans
  <2>5. TypeInv'
    BY <1>1, <2>4, StreamConstants DEF StreamInv, TypeInv
  <2>6. SubsInv' /\ RoomInv'
    BY <1>1, <2>4 DEF StreamInv, SubsInv, RoomInv
  <2>7. TurnInv'
    <3>1. \A p \in 1 .. Len(subs) : subs[p] # Nobody
      BY SeqParts, StreamConstants DEF StreamInv, TypeInv
    <3> QED
      BY <1>1, <2>1, <2>4, <3>1 DEF TurnInv
  <2>8. MissedInv'
    <3>1. Missed' = {}
      BY <1>1, <2>4 DEF Missed
    <3>2. Cardinality(Missed') = 0
      BY <3>1, FS_EmptySet
    <3> QED
      BY <2>4, <3>2 DEF MissedInv
  <2> QED
    BY <2>5, <2>6, <2>7, <2>8 DEF StreamInv
<1> QED
  BY <1>2, <1>3

LEMMA PickNextStep ==
    ASSUME StreamInv, PickNext
    PROVE  StreamInv'
<1>1. /\ fan.stage = "next" /\ fan \in Fans
      /\ UNCHANGED << scheduled, subs, queue, reader, sent, late >>
  BY DEF PickNext, StreamInv, TypeInv
<1>2. CASE AtEnd
  <2>1. fan' = Resting
    BY <1>2 DEF PickNext
  <2>2. fan' \in Fans /\ fan'.stage = "none" /\ fan'.to = Nobody
    BY <2>1 DEF Resting, Fans, Stages
  <2>3. TypeInv'
    BY <1>1, <2>2, StreamConstants DEF StreamInv, TypeInv
  <2> QED
    BY <1>1, <2>2, <2>3 DEF StreamInv, SubsInv, RoomInv, TurnInv, MissedInv
<1>3. CASE ~AtEnd
  <2> PICK n \in Nat : n = Len(subs)
    BY SeqParts DEF StreamInv, TypeInv
  <2> PICK i \in Nat \ {0} : i = fan.index
    BY <1>1 DEF Fans
  <2>1. i \in 1 .. n /\ fan.orphaned = FALSE /\ i + 1 \in Nat \ {0}
    BY <1>1, <1>3 DEF AtEnd, Fans
  <2> PICK c \in Clients : c = subs[i]
    BY <2>1, SeqParts DEF StreamInv, TypeInv
  <2> PICK st \in {"drop", "put"} : st = IF Len(queue[c]) >= MaxQueue THEN "drop" ELSE "put"
    OBVIOUS
  <2>2. fan' = [fan EXCEPT !.to = c, !.index = i + 1, !.stage = st]
    BY <1>3 DEF PickNext, TurnTo
  <2>3. /\ fan' \in Fans /\ fan'.stage = st /\ fan'.message = fan.message /\ fan'.index = i + 1
        /\ fan'.to = c /\ fan'.orphaned = FALSE /\ fan'.present = fan.present
        /\ fan'.reached = fan.reached /\ fan'.leavers = fan.leavers
    BY <1>1, <2>1, <2>2 DEF Fans, Stages
  <2>4. TypeInv'
    BY <1>1, <2>3 DEF StreamInv, TypeInv
  <2>5. RoomInv'
    <3>1. Len(queue[c]) \in Nat
      BY SeqParts DEF StreamInv, TypeInv
    <3> QED
      BY <1>1, <2>3, <3>1, StreamConstants DEF StreamInv, RoomInv
  <2>6. TurnInv'
    <3>1. c \notin fan.reached /\ reader[c] # "off"
      BY <1>1, <2>1 DEF StreamInv, TurnInv, SubsInv
    <3>2. \A p \in 1 .. n : p >= i + 1 => subs[p] \notin fan.reached /\ subs[p] # c
      BY <1>1, <2>1 DEF StreamInv, TurnInv, SubsInv
    <3>3. \A d \in fan.present \cup fan.reached \cup ({c} \ {Nobody}) : reader[d] # "off"
      BY <1>1, <3>1 DEF StreamInv, TurnInv
    <3> QED
      BY <1>1, <2>3, <3>1, <3>2, <3>3 DEF TurnInv
  <2>7. MissedInv'
    <3>1. fan.to \notin Clients
      BY <1>1 DEF StreamInv, TypeInv
    <3>2. Missed' \subseteq Missed
      <4> SUFFICES ASSUME NEW d \in Missed'
                   PROVE  d \in Missed
        OBVIOUS
      <4>1. /\ d \in fan.present \ (fan.reached \cup {c})
            /\ \E p \in 1 .. n : p < i + 1 /\ subs[p] = d
        BY <1>1, <2>3 DEF Missed
      <4>2. d \in Clients
        BY <1>1, <4>1 DEF Fans
      <4>3. \E p \in 1 .. n : p < i /\ subs[p] = d
        BY <2>1, <4>1
      <4> QED
        BY <3>1, <4>1, <4>2, <4>3 DEF Missed
    <3>3. Cardinality(Missed') <= fan'.leavers
      BY <1>1, <2>3, <3>2, MissedLess DEF StreamInv
    <3> QED
      BY <2>3, <3>3 DEF MissedInv
  <2> QED
    BY <1>1, <2>4, <2>5, <2>6, <2>7 DEF StreamInv, SubsInv
<1> QED
  BY <1>2, <1>3

LEMMA DropOldestStep ==
    ASSUME StreamInv, DropOldest
    PROVE  StreamInv'
<1> PICK c \in Clients : c = fan.to
  BY DEF DropOldest, StreamInv, TypeInv
<1>1. /\ fan.stage = "drop" /\ fan \in Fans /\ fan' = [fan EXCEPT !.stage = "put"]
      /\ queue' = [queue EXCEPT ![c] = IF queue[c] = <<>> THEN queue[c] ELSE Tail(queue[c])]
      /\ UNCHANGED << scheduled, subs, reader, sent, late >>
  BY DEF DropOldest, StreamInv, TypeInv
<1>2. /\ fan' \in Fans /\ fan'.stage = "put" /\ fan'.message = fan.message
      /\ fan'.index = fan.index /\ fan'.to = c /\ fan'.orphaned = fan.orphaned
      /\ fan'.present = fan.present /\ fan'.reached = fan.reached /\ fan'.leavers = fan.leavers
  BY <1>1 DEF Fans, Stages
<1> PICK q \in Seq(Messages) : q = queue[c]
  BY DEF StreamInv, TypeInv
<1> PICK n \in Nat : n = Len(q)
  BY SeqParts
<1>3. n <= MaxQueue
  BY DEF StreamInv, RoomInv
<1>4. \E r \in Seq(Messages) :
          r = (IF q = <<>> THEN q ELSE Tail(q)) /\ Len(r) < MaxQueue
  <2>1. CASE q = <<>>
    <3>1. Len(q) = 0
      BY <2>1
    <3>2. Len(q) < MaxQueue
      BY <3>1, StreamConstants
    <3> QED
      BY <2>1, <3>2, Zenon
  <2>2. CASE q # <<>>
    <3> PICK r \in Seq(Messages) : r = Tail(q)
      BY <2>2, Shortened
    <3>1. Len(r) = n - 1
      BY <2>2, Shortened
    <3>2. Len(r) < MaxQueue
      BY <1>3, <3>1, StreamConstants
    <3> QED
      BY <2>2, <3>2, Zenon
  <2> QED
    BY <2>1, <2>2
<1> PICK r \in Seq(Messages) :
        r = (IF q = <<>> THEN q ELSE Tail(q)) /\ Len(r) < MaxQueue
  BY <1>4
<1>5. queue' = [queue EXCEPT ![c] = r]
  BY <1>1
<1>6. TypeInv'
  BY <1>1, <1>2, <1>5 DEF StreamInv, TypeInv
<1>7. RoomInv'
  <2>1. queue'[c] = r /\ \A d \in Clients : d # c => queue'[d] = queue[d]
    BY <1>5 DEF StreamInv, TypeInv
  <2>2. Len(r) <= MaxQueue
    BY SeqParts, StreamConstants
  <2> QED
    BY <1>2, <2>1, <2>2 DEF StreamInv, RoomInv
<1>8. TurnInv' /\ SubsInv'
  BY <1>1, <1>2 DEF StreamInv, TurnInv, SubsInv
<1>9. MissedInv'
  BY <1>1, <1>2 DEF StreamInv, MissedInv, Missed
<1> QED
  BY <1>6, <1>7, <1>8, <1>9 DEF StreamInv

LEMMA PutStep ==
    ASSUME StreamInv, Put
    PROVE  StreamInv'
<1> PICK c \in Clients : c = fan.to
  BY DEF Put, StreamInv, TypeInv
<1>1. /\ fan.stage = "put" /\ fan \in Fans /\ fan.message \in Messages
      /\ fan' = [fan EXCEPT !.stage = "wake", !.reached = fan.reached \cup {c}]
      /\ queue' = [queue EXCEPT ![c] = IF reader[c] = "left" THEN queue[c]
                                       ELSE Append(queue[c], fan.message)]
      /\ UNCHANGED << scheduled, subs, reader, sent, late >>
  BY DEF Put, StreamInv, TypeInv
<1>2. /\ fan' \in Fans /\ fan'.stage = "wake" /\ fan'.message = fan.message
      /\ fan'.index = fan.index /\ fan'.to = c /\ fan'.orphaned = fan.orphaned
      /\ fan'.present = fan.present /\ fan'.reached = fan.reached \cup {c}
      /\ fan'.leavers = fan.leavers
  <2> PICK R \in SUBSET Clients : R = fan.reached \cup {c}
    BY <1>1 DEF Fans
  <2>1. fan' = [fan EXCEPT !.stage = "wake", !.reached = R]
    BY <1>1
  <2> QED
    BY <1>1, <2>1 DEF Fans, Stages
<1> PICK q \in Seq(Messages) : q = queue[c]
  BY DEF StreamInv, TypeInv
<1> PICK m \in Messages : m = fan.message
  BY <1>1
<1>3. Append(q, m) \in Seq(Messages) /\ Len(Append(q, m)) = Len(q) + 1 /\ Len(q) \in Nat
  BY Appended, SeqParts
<1>4. Len(q) < MaxQueue
  BY <1>1 DEF StreamInv, RoomInv
<1> PICK t \in Seq(Messages) : t = IF reader[c] = "left" THEN q ELSE Append(q, m)
  BY <1>3
<1>5. queue' = [queue EXCEPT ![c] = t]
  BY <1>1
<1>6. TypeInv'
  BY <1>1, <1>2, <1>5 DEF StreamInv, TypeInv
<1>7. RoomInv'
  <2>1. queue'[c] = t /\ \A d \in Clients : d # c => queue'[d] = queue[d]
    BY <1>5 DEF StreamInv, TypeInv
  <2>2. Len(t) <= MaxQueue
    BY <1>3, <1>4, StreamConstants
  <2> QED
    BY <1>2, <2>1, <2>2 DEF StreamInv, RoomInv
<1>8. SubsInv'
  BY <1>1, <1>2 DEF StreamInv, SubsInv
<1>9. TurnInv'
  <2>1. reader[c] # "off"
    BY <1>1, StreamConstants DEF StreamInv, TurnInv
  <2> QED
    BY <1>1, <1>2, <2>1 DEF StreamInv, TurnInv
<1>10. MissedInv'
  <2>1. Missed' = Missed
    BY <1>1, <1>2 DEF Missed
  <2> QED
    BY <1>1, <1>2, <2>1 DEF StreamInv, MissedInv
<1> QED
  BY <1>6, <1>7, <1>8, <1>9, <1>10 DEF StreamInv

LEMMA WakeStep ==
    ASSUME StreamInv, Wake
    PROVE  StreamInv'
<1> PICK c \in Clients : c = fan.to
  BY DEF Wake, StreamInv, TypeInv
<1>1. /\ fan.stage = "wake" /\ fan \in Fans
      /\ fan' = [fan EXCEPT !.stage = "next", !.to = Nobody]
      /\ reader' = [reader EXCEPT ![c] = IF reader[c] = "asleep" THEN "check" ELSE reader[c]]
      /\ late' \in [Clients -> BOOLEAN]
      /\ UNCHANGED << scheduled, subs, queue, sent >>
  <2>1. late' = [late EXCEPT ![c] = reader[c] = "register"]
    BY DEF Wake, WakeReader
  <2>2. late' \in [Clients -> BOOLEAN]
    BY <2>1 DEF StreamInv, TypeInv
  <2> QED
    BY <2>2 DEF Wake, WakeReader, StreamInv, TypeInv
<1>2. /\ fan' \in Fans /\ fan'.stage = "next" /\ fan'.message = fan.message
      /\ fan'.index = fan.index /\ fan'.to = Nobody /\ fan'.orphaned = fan.orphaned
      /\ fan'.present = fan.present /\ fan'.reached = fan.reached
      /\ fan'.leavers = fan.leavers
  BY <1>1 DEF Fans, Stages
<1>3. /\ reader' \in [Clients -> Places]
      /\ \A d \in Clients : reader'[d] \in {"off", "left"} <=> reader[d] \in {"off", "left"}
      /\ \A d \in Clients : reader[d] # "off" => reader'[d] # "off"
  BY <1>1 DEF StreamInv, TypeInv, Places
<1>4. \A p \in 1 .. Len(subs) : subs[p] \in Clients
  BY SeqParts DEF StreamInv, TypeInv
<1>5. TypeInv'
  BY <1>1, <1>2, <1>3, StreamConstants DEF StreamInv, TypeInv
<1>6. SubsInv' /\ RoomInv'
  BY <1>1, <1>2, <1>3, <1>4 DEF StreamInv, SubsInv, RoomInv
<1>7. TurnInv'
  <2>1. \A d \in fan.present \cup fan.reached : d \in Clients /\ reader'[d] # "off"
    BY <1>1, <1>3 DEF StreamInv, TurnInv, Fans
  <2> QED
    BY <1>1, <1>2, <1>4, <2>1, StreamConstants DEF StreamInv, TurnInv
<1>8. MissedInv'
  <2>1. Missed' \subseteq Missed
    BY <1>1, <1>2 DEF Missed, StreamInv, TurnInv
  <2>2. Cardinality(Missed') <= fan'.leavers
    BY <1>1, <1>2, <2>1, MissedLess DEF StreamInv
  <2> QED
    BY <1>1, <1>2, <2>2 DEF StreamInv, MissedInv
<1> QED
  BY <1>5, <1>6, <1>7, <1>8 DEF StreamInv

LEMMA TakeStep ==
    ASSUME StreamInv, NEW c \in Clients, Take(c)
    PROVE  StreamInv'
<1> PICK q \in Seq(Messages) : q = queue[c]
  BY DEF StreamInv, TypeInv
<1>1. /\ reader[c] = "take" /\ q # <<>>
      /\ reader' = [reader EXCEPT ![c] = "sending"]
      /\ queue' = [queue EXCEPT ![c] = Tail(q)]
      /\ sent' = [sent EXCEPT ![c] = Append(sent[c], Head(q))]
      /\ late' = [late EXCEPT ![c] = FALSE]
      /\ UNCHANGED << scheduled, fan, subs >>
  BY DEF Take, StreamInv, TypeInv
<1>2. Tail(q) \in Seq(Messages) /\ Head(q) \in Messages /\ Len(Tail(q)) = Len(q) - 1
  BY <1>1, Shortened
<1>3. Append(sent[c], Head(q)) \in Seq(Messages)
  BY <1>2, Appended DEF StreamInv, TypeInv
<1>4. /\ reader' \in [Clients -> Places]
      /\ \A d \in Clients : reader'[d] \in {"off", "left"} <=> reader[d] \in {"off", "left"}
      /\ \A d \in Clients : reader[d] # "off" => reader'[d] # "off"
  BY <1>1 DEF StreamInv, TypeInv, Places
<1>5. TypeInv'
  BY <1>1, <1>2, <1>3, <1>4 DEF StreamInv, TypeInv
<1>6. SubsInv'
  <2>1. \A p \in 1 .. Len(subs) : subs[p] \in Clients
    BY SeqParts DEF StreamInv, TypeInv
  <2> QED
    BY <1>1, <1>4, <2>1 DEF StreamInv, SubsInv
<1>7. RoomInv'
  <2>1. queue'[c] = Tail(q) /\ \A d \in Clients : d # c => queue'[d] = queue[d]
    BY <1>1 DEF StreamInv, TypeInv
  <2>2. /\ Len(q) \in Nat /\ Len(q) <= MaxQueue
        /\ fan.stage = "put" /\ fan.to = c => Len(q) < MaxQueue
    BY SeqParts DEF StreamInv, RoomInv
  <2>3. /\ Len(Tail(q)) <= MaxQueue
        /\ fan.stage = "put" /\ fan.to = c => Len(Tail(q)) < MaxQueue
    BY <1>2, <2>2, StreamConstants
  <2>4. fan.stage = "put" => fan.to \in Clients
    BY DEF StreamInv, TypeInv
  <2> QED
    BY <1>1, <2>1, <2>3, <2>4 DEF StreamInv, RoomInv
<1>8. TurnInv'
  <2>1. \A d \in fan.present \cup fan.reached \cup ({fan.to} \ {Nobody}) : d \in Clients
    BY DEF StreamInv, TypeInv, Fans
  <2> QED
    BY <1>1, <1>4, <2>1 DEF StreamInv, TurnInv
<1>9. MissedInv'
  BY <1>1 DEF StreamInv, MissedInv, Missed
<1> QED
  BY <1>5, <1>6, <1>7, <1>8, <1>9 DEF StreamInv

LEMMA StreamStutters ==
    ASSUME StreamInv, UNCHANGED streamVars
    PROVE  StreamInv'
  BY DEF StreamInv, TypeInv, SubsInv, RoomInv, TurnInv, MissedInv, Missed, streamVars

\* One step per action of the two loops.
LEMMA StreamStep ==
    ASSUME StreamInv, StreamNext
    PROVE  StreamInv'
<1>1. CASE FanStep
  BY <1>1, BeginStep, PickNextStep, DropOldestStep, PutStep, WakeStep DEF FanStep
<1>2. ASSUME NEW c \in Clients, Subscribe(c)
      PROVE  StreamInv'
  BY <1>2, SubscribeStep
<1>3. ASSUME NEW c \in Clients, ReaderStep(c)
      PROVE  StreamInv'
  <2>0. late \in [Clients -> BOOLEAN] /\ {"check", "register", "take", "asleep", "leaked"}
            \subseteq Places \ {"off", "left"}
    BY DEF StreamInv, TypeInv, Places
  <2>1. CASE StartGenerator(c)
    BY <2>0, <2>1, ReaderMoves DEF StartGenerator
  <2>2. CASE Get(c)
    <3> PICK p \in Places \ {"off", "left"} : p = IF queue[c] = <<>> THEN "register" ELSE "take"
      BY <2>0
    <3> QED
      BY <2>0, <2>2, ReaderMoves DEF Get
  <2>3. CASE Register(c)
    BY <2>0, <2>3, ReaderMoves DEF Register
  <2>4. CASE Take(c)
    BY <2>4, TakeStep
  <2>5. CASE TakeNothing(c)
    BY <2>5, Leaves DEF TakeNothing
  <2>6. CASE SendDone(c)
    BY <2>0, <2>6, ReaderMoves DEF SendDone
  <2> QED
    BY <1>3, <2>1, <2>2, <2>3, <2>4, <2>5, <2>6 DEF ReaderStep
<1>4. ASSUME NEW c \in Sse, HangUpSse(c) \/ HangUpEarly(c)
      PROVE  StreamInv'
  <2>0. c \in Clients /\ late \in [Clients -> BOOLEAN] /\ "leaked" \in Places \ {"off", "left"}
    BY DEF StreamInv, TypeInv, Clients, Places
  <2>1. CASE HangUpSse(c)
    BY <2>0, <2>1, Leaves DEF HangUpSse
  <2>2. CASE HangUpEarly(c)
    BY <2>0, <2>2, ReaderMoves DEF HangUpEarly
  <2> QED
    BY <1>4, <2>1, <2>2
<1>5. ASSUME NEW c \in Ws, SendFails(c)
      PROVE  StreamInv'
  BY <1>5, Leaves DEF SendFails, Clients
<1> QED
  BY <1>1, <1>2, <1>3, <1>4, <1>5 DEF StreamNext

LEMMA StreamBegins == StreamInit => StreamInv
<1> SUFFICES ASSUME StreamInit
             PROVE  StreamInv
  OBVIOUS
<1>1. /\ fan = Resting /\ subs = <<>> /\ queue = [c \in Clients |-> <<>>]
      /\ reader = [c \in Clients |-> "off"]
      /\ scheduled = <<>> /\ sent = [c \in Clients |-> <<>>]
      /\ late = [c \in Clients |-> FALSE]
  BY DEF StreamInit
<1>2. fan \in Fans /\ fan.stage = "none" /\ fan.to = Nobody
  BY <1>1 DEF Resting, Fans, Stages
<1>3. TypeInv
  BY <1>1, <1>2, StreamConstants DEF TypeInv, Places
<1>4. SubsInv /\ RoomInv
  BY <1>1, <1>2, StreamConstants DEF SubsInv, RoomInv
<1> QED
  BY <1>2, <1>3, <1>4 DEF StreamInv, TurnInv, MissedInv

\* An alert more to broadcast is nothing to the streams.
LEMMA ScheduledMore ==
    ASSUME StreamInv, scheduled' \in Seq(Messages),
           UNCHANGED << fan, subs, queue, reader, sent, late >>
    PROVE  StreamInv'
  BY DEF StreamInv, TypeInv, SubsInv, RoomInv, TurnInv, MissedInv, Missed

-----------------------------------------------------------------------------
(* The order of sequences.                                                  *)

LEMMA ItemsTyped ==
    ASSUME NEW S, NEW s \in Seq(S)
    PROVE  Items(s) \subseteq S
  BY SeqParts DEF Items

LEMMA ItemsAppended ==
    ASSUME NEW S, NEW s \in Seq(S), NEW e \in S
    PROVE  Items(Append(s, e)) = Items(s) \cup {e}
<1> DEFINE t == Append(s, e)
<1>1. /\ Len(t) = Len(s) + 1 /\ t[Len(s) + 1] = e
      /\ \A i \in 1 .. Len(s) : t[i] = s[i]
      /\ \A i \in 1 .. Len(s) + 1 : i \in 1 .. Len(s) \/ i = Len(s) + 1
  BY Appended
<1>2. \A i \in 1 .. Len(s) : i \in 1 .. Len(s) + 1
  BY SeqParts
<1>3. Len(s) + 1 \in 1 .. Len(s) + 1
  BY SeqParts
<1> HIDE DEF t
<1>4. \A x \in Items(t) : x \in Items(s) \cup {e}
  BY <1>1 DEF Items
<1>5. \A x \in Items(s) \cup {e} : x \in Items(t)
  BY <1>1, <1>2, <1>3 DEF Items
<1> QED
  BY <1>4, <1>5 DEF t

LEMMA ItemsShortened ==
    ASSUME NEW S, NEW s \in Seq(S), s # <<>>
    PROVE  Head(s) \in Items(s) /\ Items(Tail(s)) \subseteq Items(s)
<1> DEFINE t == Tail(s)
<1>1. /\ 1 \in 1 .. Len(s) /\ Head(s) = s[1]
      /\ \A i \in 1 .. Len(t) : i + 1 \in 1 .. Len(s) /\ 1 < i + 1 /\ t[i] = s[i + 1]
  BY Shortened
<1> HIDE DEF t
<1>2. Head(s) \in Items(s) /\ \A x \in Items(t) : x \in Items(s)
  BY <1>1 DEF Items
<1> QED
  BY <1>2 DEF t

\* What is behind all the others may be put behind them.
LEMMA OrderedAppended ==
    ASSUME NEW r, NEW S, NEW s \in Seq(S), NEW e \in S,
           Ordered(r, s), Before(r, Items(s), {e})
    PROVE  Ordered(r, Append(s, e))
<1> DEFINE t == Append(s, e)
<1> PICK n \in Nat : n = Len(s)
  BY SeqParts
<1>1. /\ Len(t) = n + 1 /\ t[n + 1] = e
      /\ \A i \in 1 .. n : t[i] = s[i]
      /\ \A i \in 1 .. n + 1 : i \in 1 .. n \/ i = n + 1
  BY Appended
<1>2. \A i \in 1 .. n : Later(r, s[i], e)
  BY DEF Before, Items
<1> HIDE DEF t
<1>3. ASSUME NEW i \in 1 .. n + 1, NEW j \in 1 .. n + 1, i < j
      PROVE  Later(r, t[i], t[j])
  <2>1. i \in 1 .. n
    BY <1>3
  <2>2. CASE j \in 1 .. n
    BY <1>1, <1>3, <2>1, <2>2 DEF Ordered
  <2>3. CASE j = n + 1
    BY <1>1, <1>2, <2>1, <2>3
  <2> QED
    BY <1>1, <2>2, <2>3
<1>4. Ordered(r, t)
  BY <1>1, <1>3 DEF Ordered
<1> QED
  BY <1>4 DEF t

\* The first entry is before the others, and these keep their order.
LEMMA OrderedShortened ==
    ASSUME NEW r, NEW S, NEW s \in Seq(S), s # <<>>, Ordered(r, s)
    PROVE  Ordered(r, Tail(s)) /\ Before(r, {Head(s)}, Items(Tail(s)))
<1> DEFINE t == Tail(s)
<1>1. /\ 1 \in 1 .. Len(s) /\ Head(s) = s[1]
      /\ \A i \in 1 .. Len(t) : i + 1 \in 1 .. Len(s) /\ 1 < i + 1 /\ t[i] = s[i + 1]
  BY Shortened
<1>2. Len(t) \in Nat
  BY Shortened, SeqParts
<1> HIDE DEF t
<1>3. ASSUME NEW i \in 1 .. Len(t), NEW j \in 1 .. Len(t), i < j
      PROVE  Later(r, t[i], t[j])
  <2>1. i + 1 < j + 1
    BY <1>3
  <2> QED
    BY <1>1, <2>1 DEF Ordered
<1>4. ASSUME NEW j \in 1 .. Len(t)
      PROVE  Later(r, Head(s), t[j])
  BY <1>1 DEF Ordered
<1>5. Ordered(r, t) /\ Before(r, {Head(s)}, Items(t))
  BY <1>3, <1>4 DEF Ordered, Before, Items
<1> QED
  BY <1>5 DEF t

\* Parts of what is in order, and sets put together
LEMMA BeforeParts ==
    ASSUME NEW r, NEW A, NEW B, Before(r, A, B), NEW C, NEW D, C \subseteq A, D \subseteq B
    PROVE  Before(r, C, D)
  BY DEF Before

LEMMA BeforeUnions ==
    ASSUME NEW r, NEW A, NEW B, NEW C
    PROVE  /\ Before(r, A, C) /\ Before(r, B, C) => Before(r, A \cup B, C)
           /\ Before(r, A, B) /\ Before(r, A, C) => Before(r, A, B \cup C)
  BY DEF Before

\* A table q that has the rows of r in their places keeps the order.
LEMMA OrderKept ==
    ASSUME NEW r, NEW q, NEW D, \A m \in D : q[m].call = r[m].call
    PROVE  /\ \A s : Items(s) \subseteq D /\ Ordered(r, s) => Ordered(q, s)
           /\ \A A, B : A \subseteq D /\ B \subseteq D /\ Before(r, A, B) => Before(q, A, B)
<1>1. \A m, n \in D : Later(r, m, n) => Later(q, m, n)
  BY DEF Later
<1>2. ASSUME NEW s, Items(s) \subseteq D, Ordered(r, s)
      PROVE  Ordered(q, s)
  <2>1. \A i \in 1 .. Len(s) : s[i] \in D
    BY <1>2 DEF Items
  <2> QED
    BY <1>1, <1>2, <2>1 DEF Ordered
<1>3. ASSUME NEW A, NEW B, A \subseteq D, B \subseteq D, Before(r, A, B)
      PROVE  Before(q, A, B)
  BY <1>1, <1>3 DEF Before
<1> QED
  BY <1>2, <1>3

-----------------------------------------------------------------------------
(* The streams keep the order of the alerts.                                *)

AlertInv == AnnouncedInv /\ OrderInv

LEMMA RowsStay ==
    ASSUME UNCHANGED << call, rows >>
    PROVE  AnnouncedRows' = AnnouncedRows
  BY DEF AnnouncedRows, Block, RowsOf

\* No message moves, and the broadcast has the same one or none.
LEMMA MessagesStay ==
    ASSUME AlertInv, UNCHANGED << call, rows, scheduled, queue, sent >>,
           fan'.stage # "none" =>
               fan.stage # "none" /\ fan'.message = fan.message /\ fan.reached \subseteq fan'.reached
    PROVE  AlertInv'
<1>1. AnnouncedRows' = AnnouncedRows
  BY RowsStay
<1> QED
  BY <1>1 DEF AlertInv, AnnouncedInv, OrderInv

LEMMA BeginOrder ==
    ASSUME StreamInv, AlertInv, Begin, UNCHANGED << call, rows >>
    PROVE  AlertInv'
<1>0. AnnouncedRows' = AnnouncedRows
  BY RowsStay
<1> PICK s \in Seq(Messages) : s = scheduled
  BY DEF StreamInv, TypeInv
<1>1. /\ s # <<>> /\ scheduled' = Tail(s) /\ UNCHANGED << subs, queue, sent >>
      /\ fan.stage = "none"
  BY DEF Begin
<1>2. Head(s) \in Items(s) /\ Items(Tail(s)) \subseteq Items(s)
  BY <1>1, ItemsShortened
<1>3. Ordered(rows, Tail(s)) /\ Before(rows, {Head(s)}, Items(Tail(s)))
  BY <1>1, OrderedShortened DEF AlertInv, OrderInv
<1>4. ASSUME fan'.stage # "none"
      PROVE  fan'.message = Head(s) /\ fan'.reached = {}
  <2>1. subs # <<>>
    BY <1>1, <1>4 DEF Begin
  <2>2. fan' = [Resting EXCEPT !.stage = "next", !.message = Head(s), !.present = ToSet(subs)]
    BY <2>1 DEF Begin
  <2> QED
    BY <2>2 DEF Resting
<1>5. AnnouncedInv'
  BY <1>0, <1>1, <1>2, <1>4 DEF AlertInv, AnnouncedInv
<1>6. \A c \in Clients :
          /\ Before(rows, Items(sent[c]) \cup Items(queue[c]), Items(Tail(s)))
          /\ Before(rows, Items(sent[c]) \cup Items(queue[c]), {Head(s)})
  BY <1>2 DEF AlertInv, OrderInv, Before
<1>7. OrderInv'
  BY <1>1, <1>3, <1>4, <1>6 DEF AlertInv, OrderInv
<1> QED
  BY <1>5, <1>7 DEF AlertInv

\* A queue loses its oldest payload, or nothing.
LEMMA DropOrder ==
    ASSUME StreamInv, AlertInv, DropOldest, UNCHANGED << call, rows >>
    PROVE  AlertInv'
<1>0. AnnouncedRows' = AnnouncedRows
  BY RowsStay
<1> PICK c \in Clients : c = fan.to
  BY DEF DropOldest, StreamInv, TypeInv
<1>1. /\ fan.stage = "drop" /\ fan' = [fan EXCEPT !.stage = "put"] /\ fan \in Fans
      /\ queue' = [queue EXCEPT ![c] = IF queue[c] = <<>> THEN queue[c] ELSE Tail(queue[c])]
      /\ UNCHANGED << scheduled, sent >>
  BY DEF DropOldest, StreamInv, TypeInv
<1>2. fan'.message = fan.message /\ fan'.reached = fan.reached /\ fan'.stage = "put"
  BY <1>1 DEF Fans
<1> PICK q \in Seq(Messages) : q = queue[c]
  BY DEF StreamInv, TypeInv
<1>3. \A d \in Clients : Items(queue'[d]) \subseteq Items(queue[d]) /\ Ordered(rows, queue'[d])
  <2>1. CASE q = <<>>
    BY <1>1, <2>1 DEF AlertInv, OrderInv, StreamInv, TypeInv
  <2>2. CASE q # <<>>
    <3>1. queue' = [queue EXCEPT ![c] = Tail(q)]
      BY <1>1, <2>2
    <3>2. Items(Tail(q)) \subseteq Items(q) /\ Ordered(rows, Tail(q))
      BY <2>2, ItemsShortened, OrderedShortened DEF AlertInv, OrderInv
    <3> QED
      BY <3>1, <3>2 DEF AlertInv, OrderInv, StreamInv, TypeInv
  <2> QED
    BY <2>1, <2>2
<1>4. AnnouncedInv'
  BY <1>0, <1>1, <1>2, <1>3 DEF AlertInv, AnnouncedInv
<1>5. OrderInv'
  <2>1. ASSUME NEW d \in Clients
        PROVE  /\ Before(rows, Items(sent[d]), Items(queue'[d]))
               /\ Before(rows, Items(sent[d]) \cup Items(queue'[d]), Items(scheduled))
               /\ d \notin fan.reached =>
                      Before(rows, Items(sent[d]) \cup Items(queue'[d]), {fan.message})
    <3> PICK I \in SUBSET Items(queue[d]) : I = Items(queue'[d])
      BY <1>3
    <3>1. Before(rows, Items(sent[d]), I)
      BY BeforeParts DEF AlertInv, OrderInv
    <3>2. Before(rows, Items(sent[d]) \cup I, Items(scheduled))
      <4>1. Before(rows, Items(sent[d]) \cup Items(queue[d]), Items(scheduled))
        BY DEF AlertInv, OrderInv
      <4>2. Items(sent[d]) \cup I \subseteq Items(sent[d]) \cup Items(queue[d])
        OBVIOUS
      <4> QED
        BY <4>1, <4>2, BeforeParts
    <3>3. ASSUME d \notin fan.reached
          PROVE  Before(rows, Items(sent[d]) \cup I, {fan.message})
      <4>1. Before(rows, Items(sent[d]) \cup Items(queue[d]), {fan.message})
        BY <1>1, <3>3 DEF AlertInv, OrderInv
      <4>2. Items(sent[d]) \cup I \subseteq Items(sent[d]) \cup Items(queue[d])
        OBVIOUS
      <4> QED
        BY <4>1, <4>2, BeforeParts
    <3> QED
      BY <3>1, <3>2, <3>3
  <2> QED
    BY <1>1, <1>2, <1>3, <2>1 DEF AlertInv, OrderInv
<1> QED
  BY <1>4, <1>5 DEF AlertInv

\* The broadcast has not been to the client yet: its payload comes after all that
\* the client was sent and has waiting.
LEMMA PutOrder ==
    ASSUME StreamInv, AlertInv, Put, UNCHANGED << call, rows >>
    PROVE  AlertInv'
<1>0. AnnouncedRows' = AnnouncedRows
  BY RowsStay
<1> PICK c \in Clients : c = fan.to
  BY DEF Put, StreamInv, TypeInv
<1>1. /\ fan.stage = "put" /\ fan \in Fans /\ fan.message \in Messages /\ c \notin fan.reached
      /\ fan' = [fan EXCEPT !.stage = "wake", !.reached = fan.reached \cup {c}]
      /\ queue' = [queue EXCEPT ![c] = IF reader[c] = "left" THEN queue[c]
                                       ELSE Append(queue[c], fan.message)]
      /\ UNCHANGED << scheduled, sent >>
  BY DEF Put, StreamInv, TypeInv, TurnInv
<1>2. /\ fan'.message = fan.message /\ fan'.reached = fan.reached \cup {c}
      /\ fan'.stage = "wake"
  BY <1>1 DEF Fans
<1>2a. CASE reader[c] = "left"
  <2>1. queue' = queue
    BY <1>1, <1>2a DEF StreamInv, TypeInv
  <2> QED
    BY <1>1, <1>2, <2>1, MessagesStay
<1> SUFFICES ASSUME reader[c] # "left"
             PROVE  AlertInv'
  BY <1>2a
<1> PICK m \in Messages : m = fan.message
  BY <1>1
<1> PICK q \in Seq(Messages) : q = queue[c]
  BY DEF StreamInv, TypeInv
<1>3. /\ Before(rows, Items(sent[c]), {m}) /\ Before(rows, Items(q), {m})
      /\ Before(rows, {m}, Items(scheduled))
  BY <1>1 DEF AlertInv, OrderInv, Before
<1>4. Items(Append(q, m)) = Items(q) \cup {m} /\ Ordered(rows, Append(q, m))
  <2>1. Ordered(rows, q)
    BY DEF AlertInv, OrderInv
  <2>2. Items(Append(q, m)) = Items(q) \cup {m}
    BY ItemsAppended
  <2>3. Ordered(rows, Append(q, m))
    BY <1>3, <2>1, OrderedAppended
  <2> QED
    BY <2>2, <2>3
<1>5. queue'[c] = Append(q, m) /\ \A d \in Clients : d # c => queue'[d] = queue[d]
  BY <1>1 DEF StreamInv, TypeInv
<1>6. AnnouncedInv'
  BY <1>0, <1>1, <1>2, <1>4, <1>5 DEF AlertInv, AnnouncedInv
<1>7. OrderInv'
  <2>1. Ordered(rows, scheduled) /\ Before(rows, {m}, Items(scheduled))
    BY <1>3 DEF AlertInv, OrderInv
  <2>2. ASSUME NEW d \in Clients
        PROVE  /\ Ordered(rows, sent[d]) /\ Ordered(rows, queue'[d])
               /\ Before(rows, Items(sent[d]), Items(queue'[d]))
               /\ Before(rows, Items(sent[d]) \cup Items(queue'[d]), Items(scheduled))
               /\ d \notin fan.reached \cup {c} =>
                      Before(rows, Items(sent[d]) \cup Items(queue'[d]), {m})
    <3>1. CASE d = c
      <4>1. /\ Ordered(rows, sent[c]) /\ Before(rows, Items(sent[c]), Items(q))
            /\ Before(rows, Items(sent[c]) \cup Items(q), Items(scheduled))
        BY DEF AlertInv, OrderInv
      <4>2. Before(rows, Items(sent[c]), Items(q) \cup {m})
        BY <1>3, <4>1, BeforeUnions
      <4>3. Before(rows, (Items(sent[c]) \cup Items(q)) \cup {m}, Items(scheduled))
        BY <1>3, <4>1, BeforeUnions
      <4>4. (Items(sent[c]) \cup Items(q)) \cup {m} = Items(sent[c]) \cup (Items(q) \cup {m})
        OBVIOUS
      <4> QED
        BY <1>4, <1>5, <3>1, <4>1, <4>2, <4>3, <4>4
    <3>2. CASE d # c
      BY <1>1, <1>5, <3>2 DEF AlertInv, OrderInv
    <3> QED
      BY <3>1, <3>2
  <2> QED
    BY <1>1, <1>2, <2>1, <2>2 DEF OrderInv
<1> QED
  BY <1>6, <1>7 DEF AlertInv

\* What waited longest is sent, behind all that was.
LEMMA TakeOrder ==
    ASSUME StreamInv, AlertInv, NEW c \in Clients, Take(c), UNCHANGED << call, rows >>
    PROVE  AlertInv'
<1>0. AnnouncedRows' = AnnouncedRows
  BY RowsStay
<1> PICK q \in Seq(Messages) : q = queue[c]
  BY DEF StreamInv, TypeInv
<1> PICK s \in Seq(Messages) : s = sent[c]
  BY DEF StreamInv, TypeInv
<1>1. /\ q # <<>> /\ queue' = [queue EXCEPT ![c] = Tail(q)]
      /\ sent' = [sent EXCEPT ![c] = Append(s, Head(q))]
      /\ UNCHANGED << scheduled, fan >>
  BY DEF Take, StreamInv, TypeInv
<1>2. Head(q) \in Items(q) /\ Items(Tail(q)) \subseteq Items(q) /\ Head(q) \in Messages
  BY <1>1, ItemsShortened, Shortened
<1> PICK m \in Messages : m = Head(q)
  BY <1>2
<1>3. Ordered(rows, Tail(q)) /\ Before(rows, {m}, Items(Tail(q)))
  BY <1>1, OrderedShortened DEF AlertInv, OrderInv
<1>4. Before(rows, Items(s), {m})
  BY <1>2 DEF AlertInv, OrderInv, Before
<1>5. Items(Append(s, m)) = Items(s) \cup {m} /\ Ordered(rows, Append(s, m))
  <2>1. Ordered(rows, s)
    BY DEF AlertInv, OrderInv
  <2>2. Items(Append(s, m)) = Items(s) \cup {m}
    BY ItemsAppended
  <2>3. Ordered(rows, Append(s, m))
    BY <1>4, <2>1, OrderedAppended
  <2> QED
    BY <2>2, <2>3
<1>6. /\ queue'[c] = Tail(q) /\ \A d \in Clients : d # c => queue'[d] = queue[d]
      /\ sent'[c] = Append(s, m) /\ \A d \in Clients : d # c => sent'[d] = sent[d]
  BY <1>1 DEF StreamInv, TypeInv
<1>7. AnnouncedInv'
  BY <1>0, <1>1, <1>2, <1>5, <1>6 DEF AlertInv, AnnouncedInv
<1>8. OrderInv'
  <2>1. ASSUME NEW d \in Clients
        PROVE  /\ Ordered(rows, sent'[d]) /\ Ordered(rows, queue'[d])
               /\ Before(rows, Items(sent'[d]), Items(queue'[d]))
               /\ Before(rows, Items(sent'[d]) \cup Items(queue'[d]), Items(scheduled))
               /\ fan.stage # "none" /\ d \notin fan.reached =>
                      Before(rows, Items(sent'[d]) \cup Items(queue'[d]), {fan.message})
    <3>1. CASE d = c
      <4>1. Items(sent'[c]) \cup Items(queue'[c]) \subseteq Items(s) \cup Items(q)
        BY <1>2, <1>5, <1>6
      <4>2. Before(rows, Items(sent'[c]), Items(queue'[c]))
        BY <1>2, <1>3, <1>5, <1>6 DEF AlertInv, OrderInv, Before
      <4> QED
        BY <1>3, <1>5, <1>6, <3>1, <4>1, <4>2 DEF AlertInv, OrderInv, Before
    <3>2. CASE d # c
      BY <1>6, <3>2 DEF AlertInv, OrderInv
    <3> QED
      BY <3>1, <3>2
  <2> QED
    BY <1>1, <2>1 DEF AlertInv, OrderInv
<1> QED
  BY <1>7, <1>8 DEF AlertInv

\* Who leaves takes along what it was sent and what waited for it.
LEMMA LeaveOrder ==
    ASSUME StreamInv, AlertInv, NEW c \in Clients, Unsubscribe(c),
           UNCHANGED << call, rows, scheduled >>
    PROVE  AlertInv'
<1>0. AnnouncedRows' = AnnouncedRows
  BY RowsStay
<1>1. fan'.stage = fan.stage /\ fan'.message = fan.message /\ fan'.reached = fan.reached
  BY FanNotes DEF StreamInv
<1>2. \A d \in Clients :
          \/ queue'[d] = queue[d] /\ sent'[d] = sent[d]
          \/ queue'[d] = <<>> /\ sent'[d] = <<>>
  BY DEF StreamInv, TypeInv, Unsubscribe
<1>3. Items(<<>>) = {} /\ Ordered(rows, <<>>)
  BY DEF Items, Ordered
<1>4. AnnouncedInv'
  BY <1>0, <1>1, <1>2, <1>3 DEF AlertInv, AnnouncedInv
<1>5. OrderInv'
  <2>1. ASSUME NEW d \in Clients
        PROVE  /\ Ordered(rows, sent'[d]) /\ Ordered(rows, queue'[d])
               /\ Before(rows, Items(sent'[d]), Items(queue'[d]))
               /\ Before(rows, Items(sent'[d]) \cup Items(queue'[d]), Items(scheduled))
               /\ fan.stage # "none" /\ d \notin fan.reached =>
                      Before(rows, Items(sent'[d]) \cup Items(queue'[d]), {fan.message})
    <3>1. CASE queue'[d] = queue[d] /\ sent'[d] = sent[d]
      BY <3>1 DEF AlertInv, OrderInv
    <3>2. CASE queue'[d] = <<>> /\ sent'[d] = <<>>
      BY <1>3, <3>2 DEF Before
    <3> QED
      BY <1>2, <3>1, <3>2
  <2> QED
    BY <1>1, <2>1 DEF AlertInv, OrderInv
<1> QED
  BY <1>4, <1>5 DEF AlertInv

LEMMA StreamOrder ==
    ASSUME StreamInv, AlertInv, StreamNext, UNCHANGED << call, rows >>
    PROVE  AlertInv'
<1>0. fan \in Fans
  BY DEF StreamInv, TypeInv
<1>1. CASE FanStep
  <2>1. CASE Begin
    BY <2>1, BeginOrder
  <2>2. CASE PickNext
    <3>1. UNCHANGED << scheduled, queue, sent >> /\ fan.stage = "next"
      BY <2>2 DEF PickNext
    <3>2. fan'.stage # "none" => fan'.message = fan.message /\ fan'.reached = fan.reached
      <4>1. CASE AtEnd
        <5>1. fan'.stage = "none"
          BY <2>2, <4>1 DEF PickNext, Resting
        <5> QED
          BY <5>1
      <4>2. CASE ~AtEnd
        <5> PICK c : c = subs[fan.index]
          OBVIOUS
        <5>1. fan' = [fan EXCEPT !.to = c, !.index = @ + 1,
                                 !.stage = IF Len(queue[c]) >= MaxQueue THEN "drop" ELSE "put"]
          BY <2>2, <4>2 DEF PickNext, TurnTo
        <5> QED
          BY <1>0, <5>1 DEF Fans
      <4> QED
        BY <4>1, <4>2
    <3> QED
      BY <3>1, <3>2, MessagesStay
  <2>3. CASE DropOldest
    BY <2>3, DropOrder
  <2>4. CASE Put
    BY <2>4, PutOrder
  <2>5. CASE Wake
    <3>1. UNCHANGED << scheduled, queue, sent >> /\ fan.stage = "wake"
      BY <2>5 DEF Wake
    <3>2. fan'.message = fan.message /\ fan'.reached = fan.reached
      BY <1>0, <2>5 DEF Wake, Fans
    <3> QED
      BY <3>1, <3>2, MessagesStay
  <2> QED
    BY <1>1, <2>1, <2>2, <2>3, <2>4, <2>5 DEF FanStep
<1>2. ASSUME NEW c \in Clients, Unsubscribe(c), UNCHANGED scheduled
      PROVE  AlertInv'
  BY <1>2, LeaveOrder
<1>3. ASSUME UNCHANGED << scheduled, fan, queue, sent >>
      PROVE  AlertInv'
  BY <1>3, MessagesStay
<1>4. ASSUME NEW c \in Clients, Subscribe(c) \/ ReaderStep(c)
      PROVE  AlertInv'
  <2>1. CASE Take(c)
    BY <2>1, TakeOrder
  <2>2. CASE TakeNothing(c) \/ SendDone(c)
    BY <1>2, <1>3, <2>2 DEF TakeNothing, SendDone
  <2> QED
    BY <1>3, <1>4, <2>1, <2>2 DEF Subscribe, ReaderStep, StartGenerator, Get, Register
<1>5. ASSUME NEW c \in Sse, HangUpSse(c) \/ HangUpEarly(c)
      PROVE  AlertInv'
  BY <1>2, <1>3, <1>5 DEF HangUpSse, HangUpEarly, Clients
<1>6. ASSUME NEW c \in Ws, SendFails(c)
      PROVE  AlertInv'
  BY <1>2, <1>6 DEF SendFails, Clients
<1> QED
  BY <1>1, <1>4, <1>5, <1>6 DEF StreamNext

-----------------------------------------------------------------------------
(* The requests and the tables.                                             *)

StoredCalls == {k \in Calls : call[k].stage \in Stored}

LEMMA TimesOneMore ==
    ASSUME NEW a \in Nat, NEW b \in Nat
    PROVE  b * (a + 1) = b * a + b /\ b * a \in Nat
  OBVIOUS

LEMMA TimesMore ==
    ASSUME NEW a \in Nat, NEW b \in Nat, NEW c \in Nat, a <= c
    PROVE  b * a <= c * b
<1> PICK d \in Nat : c = a + d
  <2>1. c - a \in Nat /\ c = a + (c - a)
    OBVIOUS
  <2> QED
    BY <2>1
<1>1. c * b = b * a + b * d /\ b * a \in Nat /\ b * d \in Nat
  OBVIOUS
<1> QED
  BY <1>1

LEMMA StoredFinite ==
    /\ IsFiniteSet(StoredCalls) /\ Cardinality(StoredCalls) \in Nat
    /\ Cardinality(Calls) \in Nat /\ Cardinality(StoredCalls) <= Cardinality(Calls)
<1>1. StoredCalls \subseteq Calls /\ IsFiniteSet(Calls)
  BY BackendAssumption DEF StoredCalls
<1>2. IsFiniteSet(StoredCalls) /\ Cardinality(StoredCalls) <= Cardinality(Calls)
  BY <1>1, FS_Subset
<1> QED
  BY <1>1, <1>2, FS_CardinalityType

\* Every committed row has a number among the messages.
LEMMA RowsFit ==
    ASSUME CallInv
    PROVE  1 .. Len(rows) \subseteq Messages
<1>1. /\ Batch \in Nat /\ Cardinality(Calls) * Batch <= MaxMessages /\ MaxMessages \in Nat
  BY BackendAssumption, StreamAssumption
<1> PICK a \in Nat : a = Cardinality(StoredCalls)
  BY StoredFinite
<1> PICK c \in Nat : c = Cardinality(Calls)
  BY StoredFinite
<1>2. a <= c
  BY StoredFinite
<1>3. Len(rows) = Batch * a
  BY DEF CallInv, StoredCalls
<1>4. Batch * a <= c * Batch
  BY <1>1, <1>2, TimesMore
<1>5. Len(rows) \in Nat /\ c * Batch \in Nat /\ c * Batch <= MaxMessages
  BY <1>1, SeqParts DEF CallInv
<1>6. Len(rows) <= MaxMessages
  BY <1>1, <1>3, <1>4, <1>5
<1> QED
  BY <1>1, <1>5, <1>6 DEF Messages

\* The n-th row of a request is the n-th of its block.
LEMMA NthOfBlock ==
    ASSUME NEW k, NEW b \in Nat, Block(k, b), NEW n \in 1 .. Batch
    PROVE  Nth(k, n) = b + n /\ b + n \in RowsOf(k)
<1>0. Batch \in Nat
  BY BackendAssumption
<1>1. b + n \in RowsOf(k) /\ RowsOf(k) = b + 1 .. b + Batch
  BY <1>0 DEF Block
<1>2. ASSUME NEW i \in b + 1 .. b + Batch
      PROVE  Cardinality({j \in RowsOf(k) : j <= i}) = i - b
  <2>0. RowsOf(k) = b + 1 .. b + Batch /\ i \in Nat /\ i <= b + Batch
    BY <1>0, <1>1
  <2>1. {j \in RowsOf(k) : j <= i} = b + 1 .. i
    <3>1. \A j : j \in b + 1 .. b + Batch /\ j <= i <=> j \in b + 1 .. i
      BY <1>0, <2>0
    <3> QED
      BY <2>0, <3>1, Zenon
  <2>2. Cardinality(b + 1 .. i) = IF b + 1 > i THEN 0 ELSE i - (b + 1) + 1
    <3> PICK c \in Int : c = b + 1
      OBVIOUS
    <3>1. Cardinality(c .. i) = IF c > i THEN 0 ELSE i - c + 1
      BY <2>0, FS_Interval
    <3> QED
      BY <3>1
  <2>3. ~(b + 1 > i) /\ i - (b + 1) + 1 = i - b
    BY <1>0, <2>0
  <2>4. Cardinality(b + 1 .. i) = i - b
    BY <2>2, <2>3
  <2> QED
    BY <2>1, <2>4
<1> DEFINE Is(i) == Cardinality({j \in RowsOf(k) : j <= i}) = n
<1>3. \A i \in RowsOf(k) : Is(i) <=> i = b + n
  <2> SUFFICES ASSUME NEW i \in RowsOf(k)
               PROVE  Is(i) <=> i = b + n
    OBVIOUS
  <2>1. Cardinality({j \in RowsOf(k) : j <= i}) = i - b /\ i \in b + 1 .. b + Batch
    BY <1>1, <1>2
  <2> QED
    BY <1>0, <2>1
<1>4. Nth(k, n) = CHOOSE i \in RowsOf(k) : Is(i)
  BY DEF Nth
<1> HIDE DEF Is
<1>5. Nth(k, n) \in RowsOf(k) /\ Is(Nth(k, n))
  BY <1>1, <1>3, <1>4
<1> QED
  BY <1>1, <1>3, <1>5

LEMMA CallParts ==
    ASSUME CallInv
    PROVE  /\ Len(rows) \in Nat /\ DOMAIN rows = 1 .. Len(rows)
           /\ \A m \in 1 .. Len(rows) :
                  /\ rows[m] \in Rows /\ rows[m].call \in Calls
                  /\ m \in RowsOf(rows[m].call) /\ call[rows[m].call].stage \in Stored
<1>1. /\ Len(rows) \in Nat /\ DOMAIN rows = 1 .. Len(rows)
      /\ \A m \in 1 .. Len(rows) : rows[m] \in Rows
  BY SeqParts DEF CallInv
<1>2. \A m \in 1 .. Len(rows) : rows[m].call \in Calls /\ m \in RowsOf(rows[m].call)
  BY <1>1 DEF Rows, RowsOf
<1> QED
  BY <1>1, <1>2 DEF CallInv

\* What was announced stays so, as rows are only added and blocks stay.
LEMMA AnnouncedGrows ==
    ASSUME CallInv, Len(rows') \in Nat, Len(rows) <= Len(rows'),
           \A m \in 1 .. Len(rows) : rows'[m].call = rows[m].call,
           \A j \in Calls : call[j].stage \in Stored =>
               RowsOf(j)' = RowsOf(j) /\ call[j].announced <= call'[j].announced,
           \A j \in Calls : call'[j].announced \in Nat
    PROVE  AnnouncedRows \subseteq AnnouncedRows'
<1> SUFFICES ASSUME NEW m \in AnnouncedRows
             PROVE  m \in AnnouncedRows'
  OBVIOUS
<1>1. m \in 1 .. Len(rows) /\ m \in 1 .. Len(rows') /\ rows'[m].call = rows[m].call
  BY CallParts DEF AnnouncedRows
<1> PICK j \in Calls : j = rows[m].call
  BY <1>1, CallParts
<1>2. call[j].stage \in Stored
  BY <1>1, CallParts
<1> PICK b \in 0 .. Len(rows) : Block(j, b) /\ m <= b + call[j].announced
  BY DEF AnnouncedRows
<1>3. Block(j, b)' /\ b \in 0 .. Len(rows')
  BY <1>2, CallParts DEF Block
<1>4. call[j].announced \in Nat /\ call[j].announced <= call'[j].announced
      /\ call'[j].announced \in Nat
  BY <1>2, BackendAssumption DEF CallInv
<1>5. m <= b + call'[j].announced
  <2>1. m \in Nat /\ b \in Nat
    BY <1>1, CallParts
  <2>2. \A x, y \in Nat : m <= b + x /\ x <= y => m <= b + y
    BY <2>1
  <2> QED
    BY <1>4, <2>2
<1> QED
  BY <1>1, <1>3, <1>5 DEF AnnouncedRows

\* So does the order of what is on its way.
LEMMA AlertsStay ==
    ASSUME AlertInv, AnnouncedRows \subseteq AnnouncedRows',
           \A m \in 1 .. Len(rows) : rows'[m].call = rows[m].call,
           UNCHANGED << scheduled, fan, queue, sent >>
    PROVE  AlertInv'
<1> PICK r : r = rows
  OBVIOUS
<1> PICK q : q = rows'
  OBVIOUS
<1> PICK D : D = AnnouncedRows
  OBVIOUS
<1>1. \A m \in D : q[m].call = r[m].call
  BY DEF AnnouncedRows
<1>2. /\ \A s : Items(s) \subseteq D /\ Ordered(r, s) => Ordered(q, s)
      /\ \A A, B : A \subseteq D /\ B \subseteq D /\ Before(r, A, B) => Before(q, A, B)
  BY <1>1, OrderKept
<1>3. AnnouncedInv'
  BY DEF AlertInv, AnnouncedInv
<1>4. Ordered(q, scheduled)
      /\ (fan.stage # "none" => Before(q, {fan.message}, Items(scheduled)))
  BY <1>2 DEF AlertInv, AnnouncedInv, OrderInv
<1>5. ASSUME NEW c \in Clients
      PROVE  /\ Ordered(q, sent[c]) /\ Ordered(q, queue[c])
             /\ Before(q, Items(sent[c]), Items(queue[c]))
             /\ Before(q, Items(sent[c]) \cup Items(queue[c]), Items(scheduled))
             /\ fan.stage # "none" /\ c \notin fan.reached =>
                    Before(q, Items(sent[c]) \cup Items(queue[c]), {fan.message})
  <2>1. /\ Items(sent[c]) \subseteq D /\ Items(queue[c]) \subseteq D
        /\ Items(sent[c]) \cup Items(queue[c]) \subseteq D
        /\ Items(scheduled) \subseteq D
        /\ fan.stage # "none" => {fan.message} \subseteq D
    BY DEF AlertInv, AnnouncedInv
  <2>2. /\ Ordered(r, sent[c]) /\ Ordered(r, queue[c])
        /\ Before(r, Items(sent[c]), Items(queue[c]))
        /\ Before(r, Items(sent[c]) \cup Items(queue[c]), Items(scheduled))
        /\ fan.stage # "none" /\ c \notin fan.reached =>
               Before(r, Items(sent[c]) \cup Items(queue[c]), {fan.message})
    BY DEF AlertInv, OrderInv
  <2> QED
    BY <1>2, <2>1, <2>2
<1>6. OrderInv'
  BY <1>4, <1>5 DEF OrderInv
<1> QED
  BY <1>3, <1>6 DEF AlertInv

LEMMA VerifyStep ==
    ASSUME CallInv, NEW k \in Calls, Verify(k)
    PROVE  CallInv' /\ AnnouncedRows \subseteq AnnouncedRows'
<1> PICK d \in Registered :
        call' = [call EXCEPT ![k] = [stage |-> "verified", device |-> d, announced |-> 0]]
  BY DEF Verify
<1>0. d \in Nat /\ Batch \in Nat \ {0}
  BY BackendAssumption DEF Registered, Devices
<1>1. UNCHANGED << device, rows >> /\ call[k].stage = "new"
  BY DEF Verify
<1>2. /\ call'[k].stage = "verified" /\ call'[k].announced = 0
      /\ \A j \in Calls : j # k => call'[j] = call[j]
  BY DEF CallInv
<1>3. call' \in [Calls -> [stage : CallStages, device : Nat, announced : 0 .. Batch]]
  BY <1>0 DEF CallInv, CallStages
<1>4. \A j : RowsOf(j)' = RowsOf(j)
  BY <1>1 DEF RowsOf
<1>5. StoredCalls' = StoredCalls
  BY <1>1, <1>2 DEF StoredCalls, Stored
<1>6. CallInv'
  <2>1. ASSUME NEW j \in Calls
        PROVE  /\ call'[j].stage \notin Stored => call'[j].announced = 0 /\ RowsOf(j)' = {}
               /\ call'[j].stage \in Stored => \E b \in 0 .. Len(rows) : Block(j, b)'
               /\ call'[j].stage = "committed" => call'[j].announced < Batch
    BY <1>1, <1>2, <1>4 DEF CallInv, Stored, Block
  <2>2. Len(rows) = Batch * Cardinality(StoredCalls')
    BY <1>5 DEF CallInv, StoredCalls
  <2> QED
    BY <1>1, <1>3, <2>1, <2>2 DEF CallInv, Registered, StoredCalls
<1>7. /\ \A j \in Calls : call[j].stage \in Stored =>
             RowsOf(j)' = RowsOf(j) /\ call[j].announced <= call'[j].announced
      /\ \A j \in Calls : call'[j].announced \in Nat
  <2>1. \A j \in Calls : call[j].announced \in Nat /\ call'[j].announced \in Nat
    BY <1>0, <1>3 DEF CallInv
  <2> QED
    BY <1>1, <1>2, <1>4, <2>1 DEF Stored
<1>8. Len(rows') \in Nat /\ Len(rows) <= Len(rows') /\ \A m \in 1 .. Len(rows) : rows'[m] = rows[m]
  BY <1>1, CallParts
<1> QED
  BY <1>6, <1>7, <1>8, AnnouncedGrows

\* The request whose device is gone adds nothing; the others add their block.
LEMMA CommitStep ==
    ASSUME CallInv, NEW k \in Calls, Commit(k)
    PROVE  /\ CallInv' /\ AnnouncedRows \subseteq AnnouncedRows'
           /\ \A m \in 1 .. Len(rows) : rows'[m] = rows[m]
<1> PICK n \in Nat : n = Len(rows)
  BY CallParts
<1>0. Batch \in Nat \ {0}
  BY BackendAssumption
<1>1. /\ call[k].stage = "verified" /\ call[k].announced = 0 /\ RowsOf(k) = {}
      /\ UNCHANGED device /\ Registered' = Registered
  BY DEF Commit, CallInv, Stored, Registered
<1>2. CASE call[k].device \notin Registered
  <2>1. call' = [call EXCEPT ![k].stage = "refused", ![k].device = 0] /\ rows' = rows
    BY <1>2 DEF Commit
  <2>2. /\ call'[k].stage = "refused" /\ call'[k].announced = 0
        /\ \A j \in Calls : j # k => call'[j] = call[j]
        /\ call' \in [Calls -> [stage : CallStages, device : Nat, announced : 0 .. Batch]]
    <3>1. /\ call \in [Calls -> [stage : CallStages, device : Nat, announced : 0 .. Batch]]
          /\ "refused" \in CallStages
      BY DEF CallInv, CallStages
    <3> QED
      BY <1>1, <2>1, <3>1
  <2>3. \A j : RowsOf(j)' = RowsOf(j)
    BY <2>1 DEF RowsOf
  <2>4. StoredCalls' = StoredCalls
    BY <1>1, <2>2 DEF StoredCalls, Stored
  <2>5. ASSUME NEW j \in Calls
        PROVE  /\ call'[j].stage \notin Stored => call'[j].announced = 0 /\ RowsOf(j)' = {}
               /\ call'[j].stage \in Stored => \E b \in 0 .. Len(rows) : Block(j, b)'
               /\ call'[j].stage = "committed" => call'[j].announced < Batch
    BY <1>1, <2>2, <2>3 DEF CallInv, Stored, Block
  <2>6. Len(rows) = Batch * Cardinality(StoredCalls')
    BY <2>4 DEF CallInv, StoredCalls
  <2>7. CallInv'
    BY <1>1, <2>1, <2>2, <2>5, <2>6 DEF CallInv, StoredCalls
  <2>8. /\ \A j \in Calls : call[j].stage \in Stored =>
               RowsOf(j)' = RowsOf(j) /\ call[j].announced <= call'[j].announced
        /\ \A j \in Calls : call'[j].announced \in Nat
    <3>1. \A j \in Calls : call[j].announced \in Nat /\ call'[j].announced \in Nat
      BY <1>0, <2>2 DEF CallInv
    <3> QED
      BY <1>1, <2>2, <2>3, <3>1 DEF Stored
  <2>9. /\ Len(rows') \in Nat /\ Len(rows) <= Len(rows')
        /\ \A m \in 1 .. Len(rows) : rows'[m] = rows[m]
    BY <2>1
  <2> QED
    BY <2>7, <2>8, <2>9, AnnouncedGrows
<1>3. CASE call[k].device \in Registered
  <2> PICK d \in Devices : d = call[k].device
    BY <1>3 DEF Registered
  <2> DEFINE new == [i \in 1 .. Batch |-> [call |-> k, device |-> d]]
  <2>1. call' = [call EXCEPT ![k].stage = "committed", ![k].device = 0] /\ rows' = rows \o new
    BY <1>3 DEF Commit
  <2>2. /\ call'[k].stage = "committed" /\ call'[k].announced = 0
        /\ \A j \in Calls : j # k => call'[j] = call[j]
        /\ call' \in [Calls -> [stage : CallStages, device : Nat, announced : 0 .. Batch]]
    <3>1. /\ call \in [Calls -> [stage : CallStages, device : Nat, announced : 0 .. Batch]]
          /\ "committed" \in CallStages
      BY DEF CallInv, CallStages
    <3> QED
      BY <1>1, <2>1, <3>1
  <2>3. new \in Seq(Rows) /\ Len(new) = Batch
        /\ \A i \in 1 .. Batch : new[i] = [call |-> k, device |-> d]
    BY <1>0 DEF Rows
  <2> HIDE DEF new
  <2>4. /\ rows' \in Seq(Rows) /\ Len(rows') = n + Batch
        /\ \A m \in 1 .. n + Batch : rows'[m] = IF m <= n THEN rows[m] ELSE new[m - n]
    <3>1. /\ rows \o new \in Seq(Rows) /\ Len(rows \o new) = n + Batch
          /\ \A m \in 1 .. n + Batch : (rows \o new)[m] = IF m <= n THEN rows[m] ELSE new[m - n]
      <4>1. rows \in Seq(Rows) /\ Len(rows) + Len(new) = n + Batch
        BY <2>3 DEF CallInv
      <4>2. /\ rows \o new \in Seq(Rows) /\ Len(rows \o new) = Len(rows) + Len(new)
            /\ \A m \in 1 .. Len(rows) + Len(new) :
                   (rows \o new)[m] = IF m <= Len(rows) THEN rows[m] ELSE new[m - Len(rows)]
        BY <2>3, <4>1, ConcatProperties
      <4> QED
        BY <4>1, <4>2
    <3> QED
      BY <2>1, <3>1
  <2>5. /\ \A m \in 1 .. n : m \in 1 .. n + Batch /\ rows'[m] = rows[m]
        /\ \A m \in 1 .. n + Batch : m \in 1 .. n \/ m \in n + 1 .. n + Batch
        /\ \A m \in n + 1 .. n + Batch :
               m \in 1 .. n + Batch /\ m \notin 1 .. n /\ rows'[m] = [call |-> k, device |-> d]
    <3>1. ASSUME NEW m \in 1 .. n
          PROVE  m \in 1 .. n + Batch /\ m <= n
      BY <1>0
    <3>2. ASSUME NEW m \in 1 .. n + Batch
          PROVE  m \in 1 .. n \/ m \in n + 1 .. n + Batch
      BY <1>0
    <3>3. ASSUME NEW m \in n + 1 .. n + Batch
          PROVE  m \in 1 .. n + Batch /\ m \notin 1 .. n /\ ~(m <= n) /\ m - n \in 1 .. Batch
      BY <1>0
    <3> QED
      BY <2>3, <2>4, <3>1, <3>2, <3>3
  <2>6. DOMAIN rows' = 1 .. n + Batch /\ DOMAIN rows = 1 .. n
    BY <2>4, CallParts, SeqParts
  <2>7. \A j \in Calls : j # k => RowsOf(j)' = RowsOf(j)
    <3> SUFFICES ASSUME NEW j \in Calls, j # k
                 PROVE  RowsOf(j)' = RowsOf(j)
      OBVIOUS
    <3>1. \A m \in 1 .. n + Batch : rows'[m].call = j <=> m \in 1 .. n /\ rows[m].call = j
      BY <2>5
    <3>2. \A m : m \in RowsOf(j)' <=> m \in RowsOf(j)
      BY <2>5, <2>6, <3>1 DEF RowsOf
    <3> QED
      BY <3>2
  <2>8. RowsOf(k)' = n + 1 .. n + Batch
    <3>1. \A m \in 1 .. n : rows[m].call # k
      BY <1>1, <2>6 DEF RowsOf
    <3>2. \A m : m \in RowsOf(k)' <=> m \in n + 1 .. n + Batch
      BY <2>5, <2>6, <3>1 DEF RowsOf
    <3> QED
      BY <3>2
  <2>9. Len(rows') = Batch * Cardinality(StoredCalls')
    <3>1. StoredCalls' = StoredCalls \cup {k} /\ k \notin StoredCalls
      BY <1>1, <2>2 DEF StoredCalls, Stored
    <3> PICK a \in Nat : a = Cardinality(StoredCalls)
      BY StoredFinite
    <3>2. Cardinality(StoredCalls') = a + 1
      BY <3>1, StoredFinite, FS_AddElement
    <3>3. n = Batch * a
      BY DEF CallInv, StoredCalls
    <3>4. Batch * (a + 1) = Batch * a + Batch
      BY <1>0, TimesOneMore
    <3> QED
      BY <2>4, <3>2, <3>3, <3>4
  <2>10. ASSUME NEW m \in 1 .. n + Batch
         PROVE  rows'[m].device \in Registered \cup {0}
    <3>1. CASE m \in 1 .. n
      BY <2>5, <3>1 DEF CallInv
    <3>2. CASE m \in n + 1 .. n + Batch
      BY <1>3, <2>5, <3>2
    <3> QED
      BY <2>5, <3>1, <3>2
  <2>11. ASSUME NEW j \in Calls
         PROVE  /\ call'[j].stage \notin Stored => call'[j].announced = 0 /\ RowsOf(j)' = {}
                /\ call'[j].stage \in Stored => \E b \in 0 .. n + Batch : Block(j, b)'
                /\ call'[j].stage = "committed" => call'[j].announced < Batch
    <3>1. CASE j = k
      <4>1. n \in 0 .. n + Batch /\ Block(k, n)' /\ 0 < Batch
        BY <1>0, <2>8 DEF Block
      <4> QED
        BY <2>2, <3>1, <4>1 DEF Stored
    <3>2. CASE j # k
      <4>1. \A b \in 0 .. n : b \in 0 .. n + Batch
        BY <1>0
      <4> QED
        BY <2>2, <2>7, <3>2, <4>1 DEF CallInv, Block
    <3> QED
      BY <3>1, <3>2
  <2>12. CallInv'
    BY <1>1, <2>2, <2>4, <2>9, <2>10, <2>11 DEF CallInv, StoredCalls
  <2>13. /\ \A j \in Calls : call[j].stage \in Stored =>
                RowsOf(j)' = RowsOf(j) /\ call[j].announced <= call'[j].announced
         /\ \A j \in Calls : call'[j].announced \in Nat
    <3>1. \A j \in Calls : call[j].announced \in Nat /\ call'[j].announced \in Nat
      BY <1>0, <2>2 DEF CallInv
    <3> QED
      BY <1>1, <2>2, <2>7, <3>1 DEF Stored
  <2>14. Len(rows') \in Nat /\ Len(rows) <= Len(rows')
    BY <1>0, <2>4
  <2> QED
    BY <2>5, <2>12, <2>13, <2>14, AnnouncedGrows
<1> QED
  BY <1>2, <1>3

\* The n-th row of a block behind b is the next after those announced.
LEMMA OneMoreAnnounced ==
    ASSUME NEW B \in Nat, NEW a \in Nat, a < B, NEW b \in Nat
    PROVE  /\ a + 1 \in 1 .. B /\ a + 1 \in 0 .. B /\ a + 1 \in Nat
           /\ b + (a + 1) \in Nat /\ a <= a + 1
           /\ a + 1 # B => a + 1 < B
           /\ \A m \in Nat : m <= b + a => m < b + (a + 1)
  OBVIOUS

LEMMA SameBlock ==
    ASSUME NEW b \in Nat, NEW c \in Nat, b + 1 .. b + Batch = c + 1 .. c + Batch
    PROVE  b = c
<1>1. PICK B \in Nat \ {0} : B = Batch
  BY BackendAssumption
<1>2. b + 1 \in b + 1 .. b + B /\ c + 1 \in c + 1 .. c + B
  OBVIOUS
<1>3. b + 1 \in c + 1 .. c + B /\ c + 1 \in b + 1 .. b + B
  BY <1>1, <1>2
<1> QED
  BY <1>3

\* What announce does: row n of the block behind b, number a of its request, is
\* announced or passed over
Announces(k, n, a, b, st) ==
    /\ call[k].stage = "committed" /\ call[k].announced <= a
    /\ Block(k, b) /\ scheduled' \in {scheduled, Append(scheduled, n)}
    /\ n \in 1 .. Len(rows) /\ rows[n].call = k /\ n = b + a
    /\ \A m \in Nat : m <= b + call[k].announced => m < n
    /\ a \in 0 .. Batch /\ (st = "committed" => a < Batch)
    /\ call' = [call EXCEPT ![k].announced = a, ![k].stage = st]
    /\ UNCHANGED << fan, subs, queue, reader, sent, late, device, rows >>

LEMMA AnnounceDoes ==
    ASSUME CallInv, NEW k \in Calls, Announce(k)
    PROVE  \E n \in Nat, a \in Nat, b \in 0 .. Len(rows), st \in {"answered", "committed"} :
               Announces(k, n, a, b, st)
<1>1. Batch \in Nat /\ call[k].announced \in Nat /\ call[k].announced < Batch
  BY BackendAssumption DEF Announce, CallInv
<1>2. PICK b \in 0 .. Len(rows) : Block(k, b)
  BY DEF Announce, CallInv, Stored
<1>3. b \in Nat
  BY CallParts
<1>4. PICK B \in Nat : B = Batch
  BY <1>1
<1>5. PICK c \in Nat : c = call[k].announced
  BY <1>1
<1>6. c < B
  BY <1>1, <1>4, <1>5
<1>7. /\ c + 1 \in 1 .. B /\ c + 1 \in 0 .. B /\ c + 1 \in Nat
      /\ b + (c + 1) \in Nat /\ c <= c + 1
      /\ c + 1 # B => c + 1 < B
      /\ \A m \in Nat : m <= b + c => m < b + (c + 1)
  BY <1>3, <1>4, <1>5, <1>6, OneMoreAnnounced
<1>8. PICK a \in Nat : a = c + 1
  BY <1>7
<1>9. PICK n \in Nat : n = b + a
  BY <1>7, <1>8
<1>10. Nth(k, a) = n /\ n \in RowsOf(k)
  BY <1>2, <1>3, <1>4, <1>7, <1>8, <1>9, NthOfBlock
<1>11. n \in 1 .. Len(rows) /\ rows[n].call = k
  BY <1>10, CallParts DEF RowsOf
<1>12. PICK st \in {"answered", "committed"} : st = IF a = B THEN "answered" ELSE "committed"
  OBVIOUS
<1>13. st = "committed" => a < Batch
  BY <1>4, <1>7, <1>8, <1>12
<1>14. /\ call[k].stage = "committed" /\ scheduled' \in {scheduled, Append(scheduled, n)}
       /\ call' = [call EXCEPT ![k].announced = a, ![k].stage = st]
       /\ UNCHANGED << fan, subs, queue, reader, sent, late, device, rows >>
  BY <1>4, <1>5, <1>8, <1>10, <1>12 DEF Announce
<1>15. a \in 0 .. Batch /\ c <= a /\ \A m \in Nat : m <= b + c => m < n
  BY <1>4, <1>7, <1>8, <1>9
<1>16. Announces(k, n, a, b, st)
  BY <1>2, <1>5, <1>9, <1>11, <1>13, <1>14, <1>15 DEF Announces
<1> QED
  BY <1>16

\* The row that is announced is the one behind those of its request that were.
LEMMA AnnounceStep ==
    ASSUME StreamInv, CallInv, AlertInv, NEW k \in Calls, Announce(k)
    PROVE  StreamInv' /\ CallInv' /\ AlertInv'
<1>0. PICK n \in Nat, a \in Nat, b \in 0 .. Len(rows), st \in {"answered", "committed"} :
          Announces(k, n, a, b, st)
  BY AnnounceDoes
<1>1. /\ call[k].stage = "committed"
      /\ UNCHANGED << fan, subs, queue, reader, sent, late, device, rows >>
  BY <1>0 DEF Announces
<1>3. scheduled' \in {scheduled, Append(scheduled, n)} /\ n \in 1 .. Len(rows) /\ rows[n].call = k
  BY <1>0 DEF Announces
<1>4. n \in Messages /\ scheduled \in Seq(Messages)
  BY <1>3, RowsFit DEF StreamInv, TypeInv
<1>5. StreamInv'
  <2>1. Append(scheduled, n) \in Seq(Messages)
    BY <1>4
  <2> QED
    BY <1>1, <1>3, <2>1, ScheduledMore
<1>7. /\ call'[k].stage = st /\ call'[k].announced = a
      /\ \A j \in Calls : j # k => call'[j] = call[j]
      /\ call' \in [Calls -> [stage : CallStages, device : Nat, announced : 0 .. Batch]]
  <2>1. st \in CallStages
    BY <1>0 DEF CallStages
  <2>2. call' = [call EXCEPT ![k].announced = a, ![k].stage = st] /\ a \in 0 .. Batch
    BY <1>0 DEF Announces
  <2>3. call \in [Calls -> [stage : CallStages, device : Nat, announced : 0 .. Batch]]
    BY DEF CallInv
  <2> QED
    BY <2>1, <2>2, <2>3
<1>8. \A j : RowsOf(j)' = RowsOf(j)
  BY <1>1 DEF RowsOf
<1>9. CallInv'
  <2>1. StoredCalls' = StoredCalls
    BY <1>1, <1>7 DEF StoredCalls, Stored
  <2>2. ASSUME NEW j \in Calls
        PROVE  /\ call'[j].stage \notin Stored => call'[j].announced = 0 /\ RowsOf(j)' = {}
               /\ call'[j].stage \in Stored => \E c \in 0 .. Len(rows) : Block(j, c)'
               /\ call'[j].stage = "committed" => call'[j].announced < Batch
    <3>1. CASE j = k
      <4>1. call[k].stage \in Stored /\ call'[k].stage \in Stored
        BY <1>1, <1>7 DEF Stored
      <4>2. Block(k, b)'
        BY <1>0, <1>8 DEF Block, Announces
      <4>3. st = "committed" => a < Batch
        BY <1>0 DEF Announces
      <4> QED
        BY <1>7, <3>1, <4>1, <4>2, <4>3
    <3>2. CASE j # k
      BY <1>7, <1>8, <3>2 DEF CallInv, Block
    <3> QED
      BY <3>1, <3>2
  <2>3. Len(rows) = Batch * Cardinality(StoredCalls')
    BY <2>1 DEF CallInv, StoredCalls
  <2>4. \A i \in 1 .. Len(rows) : rows[i].device \in Registered' \cup {0}
    BY <1>1 DEF CallInv, Registered
  <2> QED
    BY <1>1, <1>7, <2>2, <2>3, <2>4 DEF CallInv, StoredCalls
<1>10. AnnouncedRows \subseteq AnnouncedRows'
  <2>1. /\ Len(rows') \in Nat /\ Len(rows) <= Len(rows')
        /\ \A m \in 1 .. Len(rows) : rows'[m] = rows[m]
    BY <1>1, CallParts
  <2>2. \A j \in Calls : call[j].announced \in Nat /\ call'[j].announced \in Nat
    BY <1>7 DEF CallInv
  <2>3. ASSUME NEW j \in Calls
        PROVE  RowsOf(j)' = RowsOf(j) /\ call[j].announced <= call'[j].announced
    <3>1. CASE j = k
      BY <1>0, <1>7, <1>8, <3>1 DEF Announces
    <3>2. CASE j # k
      <4>1. call[j].announced <= call[j].announced
        BY <2>2
      <4> QED
        BY <1>7, <1>8, <3>2, <4>1
    <3> QED
      BY <3>1, <3>2
  <2> QED
    BY <2>1, <2>2, <2>3, AnnouncedGrows
<1>11. n \in AnnouncedRows'
  <2>1. Block(k, b)'
    BY <1>0, <1>8 DEF Block, Announces
  <2>2. n <= b + a /\ b \in 0 .. Len(rows')
    BY <1>0, <1>1 DEF Announces
  <2> QED
    BY <1>1, <1>3, <1>7, <2>1, <2>2 DEF AnnouncedRows
<1>12. Before(rows, AnnouncedRows, {n})
  <2> SUFFICES ASSUME NEW m \in AnnouncedRows, rows[m].call = k
               PROVE  m < n
    BY <1>3 DEF Before, Later
  <2>1. PICK c \in 0 .. Len(rows) : Block(k, c) /\ m <= c + call[k].announced
    BY DEF AnnouncedRows
  <2>2. b \in Nat /\ c \in Nat /\ m \in Nat
    BY CallParts DEF AnnouncedRows
  <2>3. b + 1 .. b + Batch = c + 1 .. c + Batch
    BY <1>0, <2>1 DEF Block, Announces
  <2>4. b = c
    BY <2>2, <2>3, SameBlock
  <2> QED
    BY <1>0, <2>1, <2>2, <2>4 DEF Announces
<1>12a. CASE scheduled' = scheduled
  <2>1. AlertInv'
    BY <1>1, <1>10, <1>12a, AlertsStay
  <2> QED
    BY <1>5, <1>9, <2>1
<1> SUFFICES ASSUME scheduled' = Append(scheduled, n)
             PROVE  StreamInv' /\ CallInv' /\ AlertInv'
  BY <1>3, <1>12a
<1>13. Items(Append(scheduled, n)) = Items(scheduled) \cup {n}
  BY <1>4, ItemsAppended
<1>14. AnnouncedInv'
  BY <1>1, <1>3, <1>10, <1>11, <1>13 DEF AlertInv, AnnouncedInv
<1>15. OrderInv'
  <2>1. Ordered(rows, Append(scheduled, n))
    <3>1. Before(rows, Items(scheduled), {n}) /\ Ordered(rows, scheduled)
      BY <1>12, BeforeParts DEF AlertInv, AnnouncedInv, OrderInv
    <3> QED
      BY <1>4, <3>1, OrderedAppended
  <2>2. fan.stage # "none" => Before(rows, {fan.message}, Items(scheduled) \cup {n})
    <3> SUFFICES ASSUME fan.stage # "none"
                 PROVE  Before(rows, {fan.message}, Items(scheduled) \cup {n})
      OBVIOUS
    <3>1. Before(rows, {fan.message}, Items(scheduled))
      BY DEF AlertInv, OrderInv
    <3>2. {fan.message} \subseteq AnnouncedRows
      BY DEF AlertInv, AnnouncedInv
    <3>3. Before(rows, {fan.message}, {n})
      BY <1>12, <3>2, BeforeParts
    <3> QED
      BY <3>1, <3>3, BeforeUnions
  <2>3. ASSUME NEW c \in Clients
        PROVE  Before(rows, Items(sent[c]) \cup Items(queue[c]), Items(scheduled) \cup {n})
    <3>1. Before(rows, Items(sent[c]) \cup Items(queue[c]), Items(scheduled))
      BY DEF AlertInv, OrderInv
    <3>2. Items(sent[c]) \cup Items(queue[c]) \subseteq AnnouncedRows
      BY DEF AlertInv, AnnouncedInv
    <3>3. Before(rows, Items(sent[c]) \cup Items(queue[c]), {n})
      BY <1>12, <3>2, BeforeParts
    <3> QED
      BY <3>1, <3>3, BeforeUnions
  <2> QED
    BY <1>1, <1>3, <1>13, <2>1, <2>2, <2>3 DEF AlertInv, OrderInv
<1> QED
  BY <1>5, <1>9, <1>14, <1>15 DEF AlertInv

LEMMA InsertStep ==
    ASSUME CallInv, InsertDevice
    PROVE  CallInv'
<1>1. /\ device' \in [Devices -> {"unborn", "registered", "deleted"}]
      /\ UNCHANGED << call, rows >>
      /\ Registered \subseteq Registered'
  BY DEF CallInv, InsertDevice, Registered
<1>2. \A j : RowsOf(j)' = RowsOf(j)
  BY <1>1 DEF RowsOf
<1> QED
  BY <1>1, <1>2 DEF CallInv, Block

\* A device goes: its rows are nobody's, and those of each request stay where they
\* are.
LEMMA DeleteStep ==
    ASSUME CallInv, NEW d \in Devices, DeleteDevice(d)
    PROVE  /\ CallInv' /\ AnnouncedRows \subseteq AnnouncedRows'
           /\ \A m \in 1 .. Len(rows) : rows'[m].call = rows[m].call
<1>1. /\ Len(rows) \in Nat /\ DOMAIN rows = 1 .. Len(rows)
      /\ \A m \in 1 .. Len(rows) : rows[m] \in Rows
  BY CallParts
<1> PICK n \in Nat : n = Len(rows)
  BY <1>1
<1>2. /\ device' = [device EXCEPT ![d] = "deleted"] /\ UNCHANGED call
      /\ rows' = [i \in 1 .. n |-> IF rows[i].device = d THEN [rows[i] EXCEPT !.device = 0]
                                   ELSE rows[i]]
  BY <1>1 DEF DeleteDevice, Orphaned
<1>3. \A i \in 1 .. n :
          /\ rows'[i] \in Rows /\ rows'[i].call = rows[i].call
          /\ rows'[i].device = IF rows[i].device = d THEN 0 ELSE rows[i].device
  BY <1>1, <1>2 DEF Rows
<1>4. rows' \in Seq(Rows) /\ Len(rows') = n /\ DOMAIN rows' = 1 .. n
  BY <1>2, <1>3
<1>5. /\ device' \in [Devices -> {"unborn", "registered", "deleted"}]
      /\ \A e \in Registered : e # d => e \in Registered'
  BY <1>2 DEF CallInv, Registered
<1>6. \A i \in 1 .. n : rows'[i].device \in Registered' \cup {0}
  BY <1>3, <1>5 DEF CallInv
<1>7. \A j : RowsOf(j)' = RowsOf(j)
  BY <1>1, <1>3, <1>4 DEF RowsOf
<1>8. CallInv'
  BY <1>2, <1>4, <1>5, <1>6, <1>7 DEF CallInv, Block
<1>9. \A j \in Calls : call[j].announced \in Nat /\ call[j].announced <= call[j].announced
  BY BackendAssumption DEF CallInv
<1>10. AnnouncedRows \subseteq AnnouncedRows'
  BY <1>2, <1>3, <1>4, <1>7, <1>9, AnnouncedGrows
<1> QED
  BY <1>3, <1>8, <1>10

LEMMA CallsStay ==
    ASSUME CallInv, UNCHANGED << device, call, rows >>
    PROVE  CallInv'
<1>1. /\ Registered' = Registered
      /\ \A j : RowsOf(j)' = RowsOf(j)
  BY DEF RowsOf, Registered
<1>2. ASSUME NEW j \in Calls
      PROVE  /\ call[j].stage \notin Stored => call[j].announced = 0 /\ RowsOf(j)' = {}
             /\ call[j].stage \in Stored => \E b \in 0 .. Len(rows) : Block(j, b)'
             /\ call[j].stage = "committed" => call[j].announced < Batch
  BY <1>1 DEF CallInv, Block
<1> QED
  BY <1>1, <1>2 DEF CallInv

LEMMA NextKeeps ==
    ASSUME StreamInv, CallInv, AlertInv, Next
    PROVE  StreamInv' /\ CallInv' /\ AlertInv'
<1>1. CASE StreamNext /\ UNCHANGED << device, counted, call, rows >>
  BY <1>1, StreamStep, CallsStay, StreamOrder
<1>2. CASE CountDevices
  BY <1>2, StreamStutters, CallsStay, MessagesStay DEF CountDevices, streamVars
<1>3. CASE InsertDevice
  <2>1. UNCHANGED << streamVars, call, rows >>
    BY <1>3 DEF InsertDevice
  <2> QED
    BY <1>3, <2>1, StreamStutters, InsertStep, MessagesStay DEF streamVars
<1>3a. ASSUME NEW d \in Devices, DeleteDevice(d)
       PROVE  StreamInv' /\ CallInv' /\ AlertInv'
  <2>1. UNCHANGED streamVars
    BY <1>3a DEF DeleteDevice
  <2> QED
    BY <1>3a, <2>1, StreamStutters, DeleteStep, AlertsStay DEF streamVars
<1>4. ASSUME NEW k \in Calls, Verify(k) \/ Commit(k)
      PROVE  StreamInv' /\ CallInv' /\ AlertInv'
  <2>1. UNCHANGED streamVars
    BY <1>4 DEF Verify, Commit
  <2>2. CallInv' /\ AnnouncedRows \subseteq AnnouncedRows'
        /\ \A m \in 1 .. Len(rows) : rows'[m] = rows[m]
    BY <1>4, VerifyStep, CommitStep DEF Verify
  <2> QED
    BY <2>1, <2>2, StreamStutters, AlertsStay DEF streamVars
<1>5. ASSUME NEW k \in Calls, Announce(k)
      PROVE  StreamInv' /\ CallInv' /\ AlertInv'
  BY <1>5, AnnounceStep
<1> QED
  BY <1>1, <1>2, <1>3, <1>3a, <1>4, <1>5 DEF Next

LEMMA InitHolds == Init => Inv
<1> SUFFICES ASSUME Init
             PROVE  Inv
  OBVIOUS
<1>1. StreamInv
  BY StreamBegins DEF Init
<1>2. Batch \in Nat \ {0}
  BY BackendAssumption
<1>3. /\ rows = <<>> /\ Len(rows) = 0 /\ \A j : RowsOf(j) = {}
      /\ call = [k \in Calls |-> [stage |-> "new", device |-> 0, announced |-> 0]]
      /\ device = [d \in Devices |-> "unborn"]
  BY DEF Init, RowsOf
<1>4. CallInv
  <2>1. call \in [Calls -> [stage : CallStages, device : Nat, announced : 0 .. Batch]]
    BY <1>2, <1>3 DEF CallStages
  <2>2. StoredCalls = {}
    BY <1>3 DEF StoredCalls, Stored
  <2>3. Len(rows) = Batch * Cardinality(StoredCalls)
    BY <1>2, <1>3, <2>2, FS_EmptySet
  <2>4. \A k \in Calls : call[k].stage = "new" /\ call[k].announced = 0
    BY <1>3
  <2> QED
    BY <1>3, <2>1, <2>3, <2>4 DEF CallInv, StoredCalls, Stored
<1>5. AlertInv
  <2>1. /\ scheduled = <<>> /\ fan.stage = "none"
        /\ \A c \in Clients : sent[c] = <<>> /\ queue[c] = <<>>
    BY DEF Init, StreamInit, Resting
  <2>2. Items(<< >>) = {} /\ Ordered(rows, << >>)
    BY DEF Items, Ordered
  <2> QED
    BY <2>1, <2>2 DEF AlertInv, AnnouncedInv, OrderInv, Before
<1> QED
  BY <1>1, <1>4, <1>5 DEF Inv, AlertInv

LEMMA Invariance == Spec => []Inv
<1>1. Inv /\ [Next]_vars => Inv'
  <2> SUFFICES ASSUME Inv, [Next]_vars
               PROVE  Inv'
    OBVIOUS
  <2>1. CASE Next
    BY <2>1, NextKeeps DEF Inv, AlertInv
  <2>2. CASE UNCHANGED vars
    <3>1. StreamInv' /\ CallInv' /\ AlertInv'
      BY <2>2, StreamStutters, CallsStay, MessagesStay DEF Inv, AlertInv, vars, streamVars
    <3> QED
      BY <3>1 DEF Inv, AlertInv
  <2> QED
    BY <2>1, <2>2
<1> QED
  BY <1>1, InitHolds, PTL DEF Spec

\* A broadcast misses at most as many of the clients that were there, and still
\* are, as left while it ran (the for statement of AlertBroadcaster.broadcast over
\* the list that unsubscribe shortens under it).
THEOREM BroadcastSkipsFew == Spec => []SkipsBounded
<1>1. StreamInv => SkipsBounded
  <2> SUFFICES ASSUME StreamInv, fan.stage = "next", AtEnd
               PROVE  Cardinality((fan.present \cap ToSet(subs)) \ fan.reached) <= fan.leavers
    BY DEF SkipsBounded
  <2> DEFINE there == (fan.present \cap ToSet(subs)) \ fan.reached
  <2>1. \A d \in there : \E p \in 1 .. Len(subs) : subs[p] = d
    <3>1. DOMAIN subs = 1 .. Len(subs)
      BY SeqParts DEF StreamInv, TypeInv
    <3> QED
      BY <3>1 DEF ToSet
  <2>2. /\ fan.leavers \in Nat /\ Cardinality(Missed) <= fan.leavers
        /\ IsFiniteSet(Missed) /\ Cardinality(Missed) \in Nat
    BY MissedFinite DEF StreamInv, TypeInv, Fans, MissedInv
  <2>3. CASE fan.orphaned
    <3>1. there = {}
      BY <2>1, <2>3 DEF StreamInv, MissedInv
    <3>2. Cardinality(there) = 0
      BY <3>1, FS_EmptySet
    <3> QED
      BY <2>2, <3>2
  <2>4. CASE ~fan.orphaned
    <3>1. fan.index > Len(subs) /\ fan.index \in Nat /\ Len(subs) \in Nat
      BY <2>4, SeqParts DEF AtEnd, StreamInv, TypeInv, Fans
    <3>2. fan.to \notin Clients /\ fan.present \subseteq Clients
      BY DEF StreamInv, TypeInv, Fans
    <3>3. ASSUME NEW d \in there
          PROVE  d \in Missed
      <4>1. \E p \in 1 .. Len(subs) : p < fan.index /\ subs[p] = d
        BY <2>1, <3>1
      <4> QED
        BY <3>2, <4>1 DEF Missed
    <3>4. Cardinality(there) \in Nat /\ Cardinality(there) <= Cardinality(Missed)
      <4>1. IsFiniteSet(there) /\ Cardinality(there) <= Cardinality(Missed)
        BY <2>2, <3>3, FS_Subset
      <4> QED
        BY <4>1, FS_CardinalityType
    <3> HIDE DEF there
    <3>5. Cardinality(there) <= fan.leavers
      BY <2>2, <3>4
    <3> QED
      BY <3>5 DEF there
  <2> QED
    BY <2>3, <2>4
<1> QED
  BY <1>1, Invariance, PTL DEF Inv


\* A stream shows committed alerts only, and those of one request in their order
\* there, each once: what the requests of routers/alerts.py announce, the fan-out of
\* broadcaster.py and the readers of routers/stream.py keep in order together.
THEOREM AlertsShownInOrder == Spec => []StreamInOrder
<1>1. Inv => StreamInOrder
  <2> SUFFICES ASSUME Inv, NEW c \in Clients, NEW i \in DOMAIN sent[c], NEW j \in DOMAIN sent[c]
               PROVE  /\ sent[c][i] \in DOMAIN rows
                      /\ i < j /\ rows[sent[c][i]].call = rows[sent[c][j]].call =>
                             sent[c][i] < sent[c][j]
    BY DEF StreamInOrder
  <2>1. DOMAIN sent[c] = 1 .. Len(sent[c]) /\ DOMAIN rows = 1 .. Len(rows)
    BY SeqParts, CallParts DEF Inv, StreamInv, TypeInv
  <2>2. sent[c][i] \in AnnouncedRows
    BY <2>1 DEF Inv, AnnouncedInv, Items
  <2>3. Ordered(rows, sent[c])
    BY DEF Inv, OrderInv
  <2> QED
    BY <2>1, <2>2, <2>3 DEF AnnouncedRows, Ordered, Later
<1> QED
  BY <1>1, Invariance, PTL

\* The streams and the tables are of their types: no queue outgrows its limit, the
\* list of subscribers has each at most once, a request has all its rows or none,
\* and a row that names a device names one that is there, though devices are
\* deleted while alerts are on the way: the commit looks, and the deletion takes the
\* device off the rows (ON DELETE SET NULL of migrations/001_init.sql).
THEOREM TypeCorrect == Spec => []TypeOK
<1>1. Inv /\ LimitInv => TypeOK
  <2> SUFFICES ASSUME Inv, LimitInv
               PROVE  TypeOK
    OBVIOUS
  <2>1. StreamTypeOK
    <3>1. /\ scheduled \in Seq(Messages) /\ fan.stage \in Stages
          /\ fan.stage \in {"drop", "put", "wake"} <=> fan.to \in Clients
      BY DEF Inv, StreamInv, TypeInv, Fans
    <3>2. DOMAIN subs = 1 .. Len(subs) /\ \A p \in 1 .. Len(subs) : subs[p] \in Clients
      BY SeqParts DEF Inv, StreamInv, TypeInv
    <3>3. ToSet(subs) \subseteq Clients /\ IsInjective(subs)
      BY <3>2 DEF ToSet, IsInjective, Inv, StreamInv, SubsInv
    <3>4. ASSUME NEW c \in Clients
          PROVE  /\ queue[c] \in Seq(Messages) /\ Len(queue[c]) <= MaxQueue
                 /\ reader[c] \in Places /\ sent[c] \in Seq(Messages) /\ late[c] \in BOOLEAN
                 /\ c \in ToSet(subs) <=> reader[c] \notin {"off", "left"}
      <4>1. /\ queue[c] \in Seq(Messages) /\ Len(queue[c]) <= MaxQueue
            /\ reader[c] \in Places /\ sent[c] \in Seq(Messages) /\ late[c] \in BOOLEAN
        BY DEF Inv, StreamInv, TypeInv, RoomInv
      <4>2. c \in ToSet(subs) <=> reader[c] \notin {"off", "left"}
        BY <3>2 DEF ToSet, Inv, StreamInv, SubsInv
      <4> QED
        BY <4>1, <4>2
    <3> QED
      BY <3>1, <3>3, <3>4 DEF StreamTypeOK
  <2>2. ASSUME NEW k \in Calls
        PROVE  /\ call[k].stage \in CallStages /\ call[k].announced \in 0 .. Batch
               /\ Cardinality(RowsOf(k)) =
                      IF call[k].stage \in {"committed", "answered"} THEN Batch ELSE 0
    <3>1. call[k].stage \in CallStages /\ call[k].announced \in 0 .. Batch
      BY DEF Inv, CallInv
    <3>2. CASE call[k].stage \in Stored
      <4> PICK b \in 0 .. Len(rows) : Block(k, b)
        BY <3>2 DEF Inv, CallInv
      <4>1. b \in Nat /\ Batch \in Nat \ {0} /\ RowsOf(k) = b + 1 .. b + Batch
        BY CallParts, BackendAssumption DEF Inv, Block
      <4>2. Cardinality(b + 1 .. b + Batch) = Batch
        <5> PICK lo \in Int : lo = b + 1
          BY <4>1
        <5> PICK hi \in Int : hi = b + Batch
          BY <4>1
        <5>1. Cardinality(lo .. hi) = IF lo > hi THEN 0 ELSE hi - lo + 1
          BY FS_Interval
        <5>2. ~(lo > hi) /\ hi - lo + 1 = Batch
          BY <4>1
        <5>3. Cardinality(lo .. hi) = Batch
          BY <5>1, <5>2, Zenon
        <5> QED
          BY <5>3
      <4>3. Cardinality(RowsOf(k)) = Batch
        BY <4>1, <4>2
      <4> QED
        BY <3>1, <3>2, <4>3 DEF Stored
    <3>3. CASE call[k].stage \notin Stored
      <4>1. RowsOf(k) = {}
        BY <3>3 DEF Inv, CallInv
      <4> QED
        BY <3>1, <3>3, <4>1, FS_EmptySet DEF Stored
    <3> QED
      BY <3>2, <3>3
  <2>3. \A i \in DOMAIN rows : rows[i].device \in Registered \cup {0}
    BY CallParts DEF Inv, CallInv
  <2> QED
    BY <2>1, <2>2, <2>3 DEF TypeOK, LimitInv
<1>2. Spec => []LimitInv
  <2>1. Init => LimitInv
    BY LimitInit
  <2>2. LimitInv /\ [Next]_vars => LimitInv'
    BY LimitInductive
  <2> QED
    BY <2>1, <2>2, PTL DEF Spec
<1> QED
  BY <1>1, <1>2, Invariance, PTL

=============================================================================

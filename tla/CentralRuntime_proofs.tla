----------------------- MODULE CentralRuntime_proofs -----------------------
(***************************************************************************)
(* Proofs about CentralRuntime for any number of workers, users and events,*)
(* any partition and any queue size: types, mutual exclusion of the        *)
(* drainers, at most one evaluation per event, and the refinement of       *)
(* EventOnce.                                                              *)
(***************************************************************************)
EXTENDS CentralRuntime, SequenceTheorems, TLAPS

-----------------------------------------------------------------------------
(* What Append and Tail do to the elements of a sequence.                   *)

\* The elements of an appended sequence are the old ones and the new one.
LEMMA RangeAppend ==
    ASSUME NEW S, NEW s \in Seq(S), NEW e \in S
    PROVE  /\ Append(s, e) \in Seq(S)
           /\ SeqRange(Append(s, e)) = SeqRange(s) \cup {e}
<1>1. Append(s, e) \in Seq(S)
  OBVIOUS
<1>2. /\ Len(Append(s, e)) = Len(s) + 1
      /\ \A i \in 1 .. Len(s) : Append(s, e)[i] = s[i]
      /\ Append(s, e)[Len(s) + 1] = e
      /\ Len(s) \in Nat
  OBVIOUS
<1>3. \A x : x \in SeqRange(Append(s, e)) => x \in SeqRange(s) \cup {e}
  BY <1>2 DEF SeqRange
<1>4. \A x \in SeqRange(s) : x \in SeqRange(Append(s, e))
  BY <1>2 DEF SeqRange
<1>5. e \in SeqRange(Append(s, e))
  <2>1. Len(s) + 1 \in 1 .. Len(Append(s, e))
    BY <1>2
  <2> QED
    BY <1>2, <2>1 DEF SeqRange
<1> QED
  BY <1>1, <1>3, <1>4, <1>5

\* The tail of a sequence has no new elements.
LEMMA RangeTail ==
    ASSUME NEW S, NEW s \in Seq(S), s # <<>>
    PROVE  /\ Tail(s) \in Seq(S)
           /\ Head(s) \in S
           /\ SeqRange(Tail(s)) \subseteq SeqRange(s)
<1>1. /\ Tail(s) \in Seq(S) /\ Head(s) \in S
      /\ Len(Tail(s)) = Len(s) - 1
      /\ \A i \in 1 .. Len(Tail(s)) : Tail(s)[i] = s[i + 1]
  BY HeadTailProperties
<1>2. Len(s) \in Nat
  OBVIOUS
<1>3. \A i \in 1 .. Len(Tail(s)) : i + 1 \in 1 .. Len(s)
  BY <1>1, <1>2
<1> QED
  BY <1>1, <1>3 DEF SeqRange

\* The empty sequence has no elements.
LEMMA RangeEmpty == SeqRange(<<>>) = {}
BY DEF SeqRange

\* A sequence over S has only elements of S.
LEMMA RangeSeq ==
    ASSUME NEW S, NEW s \in Seq(S)
    PROVE  SeqRange(s) \subseteq S
<1>1. \A i \in 1 .. Len(s) : s[i] \in S
  OBVIOUS
<1> QED
  BY <1>1 DEF SeqRange

-----------------------------------------------------------------------------
(* Types.                                                                   *)

\* What Fetch takes is a set of new events of the worker's own partition.
LEMMA FetchedAreNew ==
    ASSUME NEW w \in Workers, Fetch(w), mine \in [Workers -> SUBSET Events]
    PROVE  \E own \in SUBSET Events :
               /\ mine' = [mine EXCEPT ![w] = own]
               /\ \A e \in own : db[e] = "new" /\ Owns(w, e)
<1>1. PICK S \in Fetchable : mine' = [mine EXCEPT ![w] = {e \in S : Owns(w, e)}]
  BY DEF Fetch
<1>2. S \subseteq New
  BY DEF Fetchable
<1>3. \A e \in S : e \in Events /\ db[e] = "new"
  BY <1>2 DEF New
<1> DEFINE own == {e \in S : Owns(w, e)}
<1>4. own \in SUBSET Events /\ \A e \in own : db[e] = "new" /\ Owns(w, e)
  BY <1>3
<1> QED
  BY <1>1, <1>4

\* No step takes a variable out of its range.
LEMMA TypeStep == TypeOK /\ [Next]_vars => TypeOK'
<1> SUFFICES ASSUME TypeOK, [Next]_vars PROVE TypeOK'
  OBVIOUS
<1> USE DEF TypeOK, PC, memVars, workerVars
<1>1. ASSUME NEW e \in Events, Arrive(e) PROVE TypeOK'
  BY <1>1 DEF Arrive
<1>2. ASSUME NEW w \in Workers, Fetch(w) PROVE TypeOK'
  <2>1. mine' \in [Workers -> SUBSET Events]
    BY <1>2, FetchedAreNew
  <2>2. /\ pc' = [pc EXCEPT ![w] = "claim"]
        /\ UNCHANGED << db, recorded, memVars, running, toRoute, user, todo, batch, dropped, faults >>
    BY <1>2 DEF Fetch
  <2> QED
    BY <2>1, <2>2
<1>3. ASSUME NEW w \in Workers, Claim(w) PROVE TypeOK'
  BY <1>3 DEF Claim, Marked
<1>4. ASSUME NEW w \in Workers, RouteUser(w) PROVE TypeOK'
  BY <1>4, EventsAssumption DEF RouteUser
<1>5. ASSUME NEW w \in Workers, RouteEvent(w) PROVE TypeOK'
  <2>1. PICK e \in toRoute[w] :
            LET q    == queue[user[w]]
                full == Len(q) >= MaxUserQueue
            IN /\ UserOf[e] = user[w]
               /\ queue' = [queue EXCEPT ![user[w]] = Append(IF full THEN Tail(q) ELSE q, e)]
               /\ dropped' = IF full THEN dropped \cup {Head(q)} ELSE dropped
               /\ toRoute' = [toRoute EXCEPT ![w] = @ \ {e}]
               /\ user' = IF \E f \in toRoute[w] \ {e} : UserOf[f] = user[w]
                          THEN user ELSE [user EXCEPT ![w] = NoUser]
    BY <1>5 DEF RouteEvent
  <2>2. e \in Events /\ user[w] \in Users /\ queue[user[w]] \in Seq(Events)
    BY <2>1, <1>5 DEF RouteEvent
  <2>3. Len(queue[user[w]]) >= MaxUserQueue =>
            /\ Tail(queue[user[w]]) \in Seq(Events)
            /\ Head(queue[user[w]]) \in Events
    <3> SUFFICES ASSUME Len(queue[user[w]]) >= MaxUserQueue
                 PROVE  /\ Tail(queue[user[w]]) \in Seq(Events)
                        /\ Head(queue[user[w]]) \in Events
      OBVIOUS
    <3>1. queue[user[w]] # <<>>
      BY <2>2, LimitsAssumption
    <3> QED
      BY <2>2, <3>1, RangeTail
  <2>4. queue' \in [Users -> Seq(Events)]
    BY <2>1, <2>2, <2>3
  <2>5. dropped' \in SUBSET Events
    BY <2>1, <2>2, <2>3
  <2>6. /\ toRoute' \in [Workers -> SUBSET Events]
        /\ user' \in [Workers -> Users \cup {NoUser}]
    BY <2>1
  <2> QED
    BY <2>4, <2>5, <2>6, <1>5 DEF RouteEvent
<1>6. ASSUME NEW w \in Workers, Acquire(w) PROVE TypeOK'
  BY <1>6 DEF Acquire
<1>7. ASSUME NEW w \in Workers, Drain(w) PROVE TypeOK'
  <2>1. todo[w] \in Seq(Users) /\ todo[w] # <<>>
    BY <1>7 DEF Drain
  <2>2. Head(todo[w]) \in Users /\ Tail(todo[w]) \in Seq(Users)
    BY <2>1, RangeTail
  <2> QED
    BY <2>2, <1>7, SMTT(30) DEF Drain, Drained
<1>8. ASSUME NEW w \in Workers, Commit(w) PROVE TypeOK'
  <2>1. recorded' \in [Events -> Nat]
    BY <1>8 DEF Commit
  <2> QED
    BY <2>1, <1>8 DEF Commit, Marked
<1>9. ASSUME NEW w \in Workers, Release(w) PROVE TypeOK'
  BY <1>9 DEF Release, Reset
<1>10. ASSUME NEW w \in Workers, End(w) PROVE TypeOK'
  BY <1>10 DEF End
<1>11. ASSUME NEW w \in Workers, Fail(w) PROVE TypeOK'
  BY <1>11 DEF Fail, Reset
<1>12. ASSUME Stop PROVE TypeOK'
  BY <1>12 DEF Stop
<1>13. ASSUME Crash PROVE TypeOK'
  BY <1>13 DEF Crash
<1>14. ASSUME UNCHANGED vars PROVE TypeOK'
  BY <1>14 DEF vars
<1> QED
  BY <1>1, <1>2, <1>3, <1>4, <1>5, <1>6, <1>7, <1>8, <1>9, <1>10, <1>11, <1>12, <1>13, <1>14
     DEF Next, WorkerStep

\* The variables of the runtime stay in their ranges.
THEOREM TypeCorrect == Spec => []TypeOK
<1>1. Init => TypeOK
  BY DEF Init, TypeOK, PC
<1> QED
  BY <1>1, TypeStep, PTL DEF Spec

-----------------------------------------------------------------------------
(* The inductive invariant behind RecordedAtMostOnce: an event in memory is  *)
(* marked as processed, has not been recorded and is in one place only; only *)
(* the holder of the lock has a batch; and what two workers are about to     *)
(* claim is disjoint, because each takes events of its own partition.        *)

Claimed(e) == db[e] = "processed" /\ recorded[e] = 0

\* what a worker has fetched is new until it has marked it
FetchedInv ==
    \A w \in Workers : \A e \in mine[w] :
        /\ pc[w] = "claim" => db[e] = "new" /\ Owns(w, e)
        /\ pc[w] \in {"route", "each", "commit"} => db[e] = "processed"

LockInv ==
    \A w \in Workers :
        /\ pc[w] \in {"each", "commit"} <=> lock = w
        /\ pc[w] # "commit" => batch[w] = <<>>

RouteInv ==
    \A w \in Workers : \A e \in toRoute[w] :
        /\ Claimed(e) /\ Owns(w, e)
        /\ \A u \in Users : e \notin SeqRange(queue[u])

QueueInv ==
    \A u \in Users : \A e \in SeqRange(queue[u]) : Claimed(e) /\ UserOf[e] = u

BatchInv ==
    \A w \in Workers : \A e \in SeqRange(batch[w]) :
        /\ Claimed(e)
        /\ \A u \in Users : e \notin SeqRange(queue[u])
        /\ \A v \in Workers : e \notin toRoute[v]

CountInv ==
    \A e \in Events : recorded[e] <= 1 /\ (db[e] # "processed" => recorded[e] = 0)

Inv == /\ TypeOK /\ FetchedInv /\ LockInv /\ RouteInv
       /\ QueueInv /\ BatchInv /\ CountInv

\* The initial state: nothing has arrived and nothing is in memory.
LEMMA InvInit == Init => Inv
<1> SUFFICES ASSUME Init PROVE Inv
  OBVIOUS
<1>1. TypeOK
  BY DEF Init, TypeOK, PC
<1>2. SeqRange(<<>>) = {}
  BY RangeEmpty
<1>3. FetchedInv /\ LockInv /\ RouteInv /\ CountInv
  BY WorkersAssumption DEF Init, FetchedInv, LockInv, RouteInv, CountInv
<1>4. QueueInv /\ BatchInv
  BY <1>2 DEF Init, QueueInv, BatchInv
<1> QED
  BY <1>1, <1>3, <1>4 DEF Inv

\* A worker that gives up its batch, with or without the lock, keeps the rest.
LEMMA ResetInv ==
    ASSUME Inv, TypeOK', NEW w \in Workers, Reset(w),
           lock' = (IF lock = w THEN NoWorker ELSE lock),
           UNCHANGED << db, recorded, queue >>
    PROVE  Inv'
<1> USE DEF Inv, TypeOK
<1>1. /\ \A v \in Workers : v # w => /\ pc'[v] = pc[v] /\ mine'[v] = mine[v]
                                     /\ toRoute'[v] = toRoute[v] /\ batch'[v] = batch[v]
      /\ pc'[w] = "top" /\ mine'[w] = {} /\ toRoute'[w] = {} /\ batch'[w] = <<>>
  BY DEF Reset
<1>2. SeqRange(<<>>) = {}
  BY RangeEmpty
<1>3. FetchedInv'
  <2> SUFFICES ASSUME NEW v \in Workers, NEW e \in mine'[v]
               PROVE  /\ pc'[v] = "claim" => db[e] = "new" /\ Owns(v, e)
                      /\ pc'[v] \in {"route", "each", "commit"} => db[e] = "processed"
    BY DEF FetchedInv, Owns
  <2>1. v # w
    BY <1>1
  <2> QED
    BY <2>1, <1>1 DEF FetchedInv
<1>4. LockInv'
  BY <1>1, WorkersAssumption DEF LockInv
<1>5. RouteInv'
  BY <1>1, SMTT(30) DEF RouteInv, Claimed, Owns
<1>6. QueueInv' /\ CountInv'
  BY DEF QueueInv, CountInv, Claimed
<1>7. BatchInv'
  BY <1>1, <1>2 DEF BatchInv, Claimed
<1> QED
  BY <1>3, <1>4, <1>5, <1>6, <1>7

\* A row arrives: it was absent, so nobody holds it.
LEMMA ArriveInv == ASSUME Inv, TypeOK', NEW e \in Events, Arrive(e) PROVE Inv'
<1> USE DEF Inv, TypeOK, Arrive, memVars, workerVars
<1>1. \A f \in Events : db[f] = "processed" <=> db'[f] = "processed"
  OBVIOUS
<1>2. \A f \in Events : db[f] = "new" => db'[f] = "new"
  OBVIOUS
<1>3. FetchedInv'
  <2> SUFFICES ASSUME NEW v \in Workers, NEW f \in mine[v]
               PROVE  /\ pc[v] = "claim" => db'[f] = "new" /\ Owns(v, f)
                      /\ pc[v] \in {"route", "each", "commit"} => db'[f] = "processed"
    BY DEF FetchedInv, Owns
  <2>1. f \in Events
    OBVIOUS
  <2> QED
    BY <2>1, <1>1, <1>2 DEF FetchedInv
<1>4. LockInv'
  BY DEF LockInv
<1>5. RouteInv'
  BY <1>1 DEF RouteInv, Claimed, Owns
<1>6. \A u \in Users : SeqRange(queue[u]) \subseteq Events
  BY RangeSeq
<1>7. \A w \in Workers : SeqRange(batch[w]) \subseteq Events
  BY RangeSeq
<1>8. QueueInv'
  BY <1>1, <1>6 DEF QueueInv, Claimed
<1>9. BatchInv'
  BY <1>1, <1>7 DEF BatchInv, Claimed
<1>10. CountInv'
  BY <1>1 DEF CountInv
<1> QED
  BY <1>3, <1>4, <1>5, <1>8, <1>9, <1>10

\* The claim moves new events of the worker's own partition to its routing
\* set: they were nowhere in memory, and no other worker fetched them.
LEMMA ClaimInv == ASSUME Inv, TypeOK', NEW w \in Workers, Claim(w) PROVE Inv'
<1> USE DEF Inv, TypeOK, Claim, memVars
<1>1. /\ pc' = [pc EXCEPT ![w] = "route"]
      /\ toRoute' = [toRoute EXCEPT ![w] = mine[w]]
      /\ UNCHANGED << recorded, queue, known, lock, running, mine, batch >>
  OBVIOUS
<1>2. \A e \in Events : db'[e] = IF e \in mine[w] THEN "processed" ELSE db[e]
  BY DEF Marked
<1>3. \A e \in mine[w] : e \in Events /\ db[e] = "new" /\ Owns(w, e) /\ recorded[e] = 0
  BY DEF FetchedInv, CountInv
<1>4. \A v \in Workers : v # w /\ pc[v] = "claim" => \A e \in mine[v] : e \notin mine[w]
  <2> SUFFICES ASSUME NEW v \in Workers, pc[v] = "claim", NEW e \in mine[v], e \in mine[w]
               PROVE  v = w
    OBVIOUS
  <2>1. Owns(v, e) /\ Owns(w, e)
    BY <1>3 DEF FetchedInv
  <2> QED
    BY <2>1 DEF Owns
<1>5. FetchedInv'
  <2> SUFFICES ASSUME NEW v \in Workers, NEW e \in mine[v]
               PROVE  /\ pc'[v] = "claim" => db'[e] = "new" /\ Owns(v, e)
                      /\ pc'[v] \in {"route", "each", "commit"} => db'[e] = "processed"
    BY <1>1 DEF FetchedInv, Owns
  <2>1. CASE v = w
    BY <1>1, <1>2, <2>1
  <2>2. CASE v # w
    BY <1>1, <1>2, <1>4, <2>2 DEF FetchedInv
  <2> QED
    BY <2>1, <2>2
<1>6. LockInv'
  BY <1>1 DEF LockInv
<1>7. \A e \in mine[w] : /\ \A u \in Users : e \notin SeqRange(queue[u])
                         /\ \A v \in Workers : e \notin SeqRange(batch[v])
  BY <1>3 DEF QueueInv, BatchInv, Claimed
<1>8. \A e \in Events : Claimed(e) => Claimed(e)'
  BY <1>2, <1>1 DEF Claimed
<1>9. RouteInv'
  <2> SUFFICES ASSUME NEW v \in Workers, NEW e \in toRoute'[v]
               PROVE  /\ Claimed(e)' /\ Owns(v, e)
                      /\ \A u \in Users : e \notin SeqRange(queue'[u])
    BY <1>1 DEF RouteInv, Owns
  <2>1. CASE v = w
    BY <1>1, <1>2, <1>3, <1>7, <2>1 DEF Claimed
  <2>2. CASE v # w
    BY <1>1, <1>8, <2>2 DEF RouteInv
  <2> QED
    BY <2>1, <2>2
<1>10. \A u \in Users : SeqRange(queue[u]) \subseteq Events
  BY RangeSeq
<1>11. \A v \in Workers : SeqRange(batch[v]) \subseteq Events
  BY RangeSeq
<1>12. QueueInv'
  BY <1>1, <1>8, <1>10 DEF QueueInv
<1>13. BatchInv'
  BY <1>1, <1>7, <1>8, <1>11 DEF BatchInv
<1>14. CountInv'
  BY <1>1, <1>2 DEF CountInv
<1> QED
  BY <1>5, <1>6, <1>9, <1>12, <1>13, <1>14

\* A fetch changes what the worker is about to claim and nothing else.
LEMMA FetchInv == ASSUME Inv, TypeOK', NEW w \in Workers, Fetch(w) PROVE Inv'
<1> USE DEF Inv, TypeOK
<1>1. PICK own \in SUBSET Events : /\ mine' = [mine EXCEPT ![w] = own]
                                   /\ \A e \in own : db[e] = "new" /\ Owns(w, e)
  BY FetchedAreNew
<1>2. /\ pc[w] = "top"
      /\ pc' = [pc EXCEPT ![w] = "claim"]
      /\ UNCHANGED << db, recorded, queue, lock, toRoute, batch >>
  BY DEF Fetch, memVars
<1>3. FetchedInv'
  <2> SUFFICES ASSUME NEW v \in Workers, NEW e \in mine'[v]
               PROVE  /\ pc'[v] = "claim" => db[e] = "new" /\ Owns(v, e)
                      /\ pc'[v] \in {"route", "each", "commit"} => db[e] = "processed"
    BY <1>2 DEF FetchedInv, Owns
  <2>1. CASE v = w
    BY <1>1, <1>2, <2>1
  <2>2. CASE v # w
    BY <1>1, <1>2, <2>2 DEF FetchedInv
  <2> QED
    BY <2>1, <2>2
<1>4. LockInv'
  BY <1>2 DEF LockInv
<1>5. RouteInv' /\ QueueInv' /\ BatchInv' /\ CountInv'
  BY <1>2 DEF RouteInv, QueueInv, BatchInv, CountInv, Claimed, Owns
<1> QED
  BY <1>3, <1>4, <1>5

\* An event moves from the routing set to the queue of its user.
LEMMA RouteEventInv == ASSUME Inv, TypeOK', NEW w \in Workers, RouteEvent(w) PROVE Inv'
<1> USE DEF Inv, TypeOK
<1>1. PICK e \in toRoute[w] :
          LET q    == queue[user[w]]
              full == Len(q) >= MaxUserQueue
          IN /\ UserOf[e] = user[w]
             /\ queue' = [queue EXCEPT ![user[w]] = Append(IF full THEN Tail(q) ELSE q, e)]
             /\ toRoute' = [toRoute EXCEPT ![w] = @ \ {e}]
  BY DEF RouteEvent
<1>2. /\ UNCHANGED << db, recorded, lock, pc, mine, batch >>
      /\ user[w] \in Users
  BY DEF RouteEvent
<1>3. e \in Events /\ Claimed(e) /\ Owns(w, e)
  BY DEF RouteInv
<1>4. SeqRange(queue'[user[w]]) \subseteq SeqRange(queue[user[w]]) \cup {e}
  <2> DEFINE q == queue[user[w]]
  <2>1. q \in Seq(Events)
    BY <1>2
  <2>2. CASE Len(q) >= MaxUserQueue
    <3>1. q # <<>>
      BY <2>1, <2>2, LimitsAssumption
    <3>2. Tail(q) \in Seq(Events) /\ SeqRange(Tail(q)) \subseteq SeqRange(q)
      BY <2>1, <3>1, RangeTail
    <3>3. SeqRange(Append(Tail(q), e)) = SeqRange(Tail(q)) \cup {e}
      <4> DEFINE r == Tail(q)
      <4>1. r \in Seq(Events) /\ e \in Events
        BY <3>2, <1>3
      <4> HIDE DEF r
      <4>2. SeqRange(Append(r, e)) = SeqRange(r) \cup {e}
        BY <4>1, RangeAppend
      <4> QED
        BY <4>2 DEF r
    <3>4. queue'[user[w]] = Append(Tail(q), e)
      BY <1>1, <1>2, <2>2
    <3> QED
      BY <3>2, <3>3, <3>4
  <2>3. CASE ~(Len(q) >= MaxUserQueue)
    <3>1. SeqRange(Append(q, e)) = SeqRange(q) \cup {e}
      BY <2>1, <1>3, RangeAppend
    <3>2. queue'[user[w]] = Append(q, e)
      BY <1>1, <1>2, <2>3
    <3> QED
      BY <3>1, <3>2
  <2> QED
    BY <2>2, <2>3
<1>5. \A u \in Users : \A f \in SeqRange(queue'[u]) :
          f \in SeqRange(queue[u]) \/ (f = e /\ u = user[w])
  <2> SUFFICES ASSUME NEW u \in Users PROVE SeqRange(queue'[u]) \subseteq
                   SeqRange(queue[u]) \cup (IF u = user[w] THEN {e} ELSE {})
    OBVIOUS
  <2>1. CASE u = user[w]
    BY <2>1, <1>4
  <2>2. CASE u # user[w]
    BY <2>2, <1>1
  <2> QED
    BY <2>1, <2>2
<1>6. \A v \in Workers : \A f \in toRoute'[v] : f \in toRoute[v] /\ (v = w => f # e)
  BY <1>1
<1>7. FetchedInv' /\ LockInv' /\ CountInv'
  BY <1>2 DEF FetchedInv, LockInv, CountInv, Owns
<1>8. RouteInv'
  <2> SUFFICES ASSUME NEW v \in Workers, NEW f \in toRoute'[v]
               PROVE  /\ Claimed(f) /\ Owns(v, f)
                      /\ \A u \in Users : f \notin SeqRange(queue'[u])
    BY <1>2 DEF RouteInv, Claimed, Owns
  <2>1. f \in toRoute[v] /\ Claimed(f) /\ Owns(v, f)
    BY <1>6 DEF RouteInv
  <2>2. f # e
    BY <1>6, <1>3, <2>1 DEF Owns
  <2> QED
    BY <2>1, <2>2, <1>5 DEF RouteInv
<1>9. QueueInv'
  <2> SUFFICES ASSUME NEW u \in Users, NEW f \in SeqRange(queue'[u])
               PROVE  Claimed(f) /\ UserOf[f] = u
    BY <1>2 DEF QueueInv, Claimed
  <2> QED
    BY <1>1, <1>3, <1>5 DEF QueueInv
<1>10. BatchInv'
  <2> SUFFICES ASSUME NEW v \in Workers, NEW f \in SeqRange(batch[v])
               PROVE  /\ Claimed(f)
                      /\ \A u \in Users : f \notin SeqRange(queue'[u])
                      /\ \A x \in Workers : f \notin toRoute'[x]
    BY <1>2 DEF BatchInv, Claimed
  <2>1. /\ Claimed(f) /\ f # e
        /\ \A u \in Users : f \notin SeqRange(queue[u])
        /\ \A x \in Workers : f \notin toRoute[x]
    BY DEF BatchInv
  <2> QED
    BY <2>1, <1>5, <1>6
<1> QED
  BY <1>7, <1>8, <1>9, <1>10

\* The holder of the lock takes all of a user's queue, nobody else has a batch.
LEMMA DrainInv == ASSUME Inv, TypeOK', NEW w \in Workers, Drain(w) PROVE Inv'
<1> USE DEF Inv, TypeOK
<1> DEFINE u == Head(todo[w])
<1>1. u \in Users
  <2>1. todo[w] \in Seq(Users) /\ todo[w] # <<>>
    BY DEF Drain
  <2> QED
    BY <2>1, RangeTail
<1>2. /\ pc[w] = "each"
      /\ batch' = [batch EXCEPT ![w] = queue[u]]
      /\ queue' = [queue EXCEPT ![u] = <<>>]
      /\ pc' = IF queue[u] = <<>> THEN pc ELSE [pc EXCEPT ![w] = "commit"]
      /\ UNCHANGED << db, recorded, lock, mine, toRoute >>
  BY DEF Drain, Drained
<1>3. \A x \in Users : SeqRange(queue'[x]) = IF x = u THEN {} ELSE SeqRange(queue[x])
  BY <1>1, <1>2, RangeEmpty
<1>4. FetchedInv'
  <2> SUFFICES ASSUME NEW v \in Workers, NEW e \in mine[v]
               PROVE  /\ pc'[v] = "claim" => db[e] = "new" /\ Owns(v, e)
                      /\ pc'[v] \in {"route", "each", "commit"} => db[e] = "processed"
    BY <1>2 DEF FetchedInv, Owns
  <2>1. /\ pc'[v] = "claim" => pc[v] = "claim"
        /\ pc'[v] \in {"route", "each", "commit"} => pc[v] \in {"route", "each", "commit"}
    BY <1>2
  <2> QED
    BY <2>1 DEF FetchedInv
<1>5. LockInv'
  <2> SUFFICES ASSUME NEW v \in Workers
               PROVE  /\ pc'[v] \in {"each", "commit"} <=> lock = v
                      /\ pc'[v] # "commit" => batch'[v] = <<>>
    BY <1>2 DEF LockInv
  <2>1. CASE v = w
    BY <1>1, <1>2, <2>1 DEF LockInv
  <2>2. CASE v # w
    BY <1>1, <1>2, <2>2 DEF LockInv
  <2> QED
    BY <2>1, <2>2
<1>6. RouteInv' /\ CountInv'
  BY <1>2, <1>3 DEF RouteInv, CountInv, Claimed, Owns
<1>7. QueueInv'
  BY <1>2, <1>3 DEF QueueInv, Claimed
<1>8. BatchInv'
  <2> SUFFICES ASSUME NEW v \in Workers, NEW e \in SeqRange(batch'[v])
               PROVE  /\ Claimed(e)
                      /\ \A x \in Users : e \notin SeqRange(queue'[x])
                      /\ \A x \in Workers : e \notin toRoute[x]
    BY <1>2 DEF BatchInv, Claimed
  <2>1. CASE v = w
    <3>1. e \in SeqRange(queue[u])
      BY <1>2, <2>1
    <3>2. Claimed(e) /\ UserOf[e] = u
      BY <1>1, <3>1 DEF QueueInv
    <3>3. \A x \in Users : e \notin SeqRange(queue'[x])
      BY <1>3, <3>2 DEF QueueInv
    <3>4. \A x \in Workers : e \notin toRoute[x]
      BY <1>1, <3>1 DEF RouteInv
    <3> QED
      BY <3>2, <3>3, <3>4
  <2>2. CASE v # w
    <3>1. batch'[v] = batch[v]
      BY <1>2, <2>2
    <3> QED
      BY <3>1, <1>3 DEF BatchInv
  <2> QED
    BY <2>1, <2>2
<1> QED
  BY <1>4, <1>5, <1>6, <1>7, <1>8

\* The commit records the batch; its events are nowhere else in memory.
LEMMA CommitInv == ASSUME Inv, TypeOK', NEW w \in Workers, Commit(w) PROVE Inv'
<1> USE DEF Inv, TypeOK
<1> DEFINE B == SeqRange(batch[w])
<1>1. /\ pc[w] = "commit" /\ lock = w
      /\ pc' = [pc EXCEPT ![w] = "each"]
      /\ batch' = [batch EXCEPT ![w] = <<>>]
      /\ \A e \in Events : recorded'[e] = recorded[e] + IF e \in B THEN 1 ELSE 0
      /\ UNCHANGED << queue, lock, mine, toRoute >>
  BY DEF Commit, LockInv, memVars
<1>2. \A e \in Events : db'[e] = db[e]
  <2>1. \A e \in mine[w] : db[e] = "processed"
    BY <1>1 DEF FetchedInv
  <2> QED
    BY <2>1 DEF Commit, Marked
<1>3. \A v \in Workers : v # w => batch[v] = <<>>
  BY <1>1 DEF LockInv
<1>4. \A v \in Workers : SeqRange(batch'[v]) = {}
  BY <1>1, <1>3, RangeEmpty
<1>5. /\ \A u \in Users : \A e \in SeqRange(queue[u]) : e \notin B
      /\ \A v \in Workers : \A e \in toRoute[v] : e \notin B
  BY DEF BatchInv
<1>6. \A e \in Events : e \notin B /\ Claimed(e) => Claimed(e)'
  BY <1>1, <1>2 DEF Claimed
<1>7. FetchedInv'
  <2> SUFFICES ASSUME NEW v \in Workers, NEW e \in mine[v]
               PROVE  /\ pc'[v] = "claim" => db'[e] = "new" /\ Owns(v, e)
                      /\ pc'[v] \in {"route", "each", "commit"} => db'[e] = "processed"
    BY <1>1 DEF FetchedInv, Owns
  <2>1. /\ pc'[v] = "claim" => pc[v] = "claim"
        /\ pc'[v] \in {"route", "each", "commit"} => pc[v] \in {"route", "each", "commit"}
        /\ db'[e] = db[e]
    BY <1>1, <1>2
  <2> QED
    BY <2>1 DEF FetchedInv
<1>8. LockInv'
  BY <1>1, <1>3 DEF LockInv
<1>9. RouteInv'
  BY <1>1, <1>5, <1>6 DEF RouteInv, Owns
<1>10. QueueInv'
  <2>1. \A u \in Users : SeqRange(queue[u]) \subseteq Events
    BY RangeSeq
  <2> QED
    BY <1>1, <1>5, <1>6, <2>1 DEF QueueInv
<1>11. BatchInv'
  BY <1>4 DEF BatchInv
<1>12. CountInv'
  <2> SUFFICES ASSUME NEW e \in Events
               PROVE  recorded'[e] <= 1 /\ (db'[e] # "processed" => recorded'[e] = 0)
    BY DEF CountInv
  <2>1. CASE e \in B
    BY <1>1, <1>2, <2>1 DEF BatchInv, Claimed
  <2>2. CASE e \notin B
    BY <1>1, <1>2, <2>2 DEF CountInv
  <2> QED
    BY <2>1, <2>2
<1> QED
  BY <1>7, <1>8, <1>9, <1>10, <1>11, <1>12

\* A crash empties the memory.
LEMMA CrashInv == ASSUME Inv, TypeOK', Crash PROVE Inv'
<1> USE DEF Inv, TypeOK, Crash
<1>1. FetchedInv' /\ RouteInv' /\ CountInv'
  BY DEF FetchedInv, RouteInv, CountInv
<1>2. LockInv'
  BY WorkersAssumption DEF LockInv
<1>3. QueueInv' /\ BatchInv'
  BY RangeEmpty DEF QueueInv, BatchInv
<1> QED
  BY <1>1, <1>2, <1>3

\* Every step of the runtime preserves the invariant.
LEMMA InvStep == Inv /\ [Next]_vars => Inv'
<1> SUFFICES ASSUME Inv, [Next]_vars PROVE Inv'
  OBVIOUS
<1>0. TypeOK'
  BY TypeStep DEF Inv
<1>1. ASSUME NEW e \in Events, Arrive(e) PROVE Inv'
  BY <1>0, <1>1, ArriveInv
<1>2. ASSUME NEW w \in Workers, Fetch(w) PROVE Inv'
  BY <1>0, <1>2, FetchInv
<1>3. ASSUME NEW w \in Workers, Claim(w) PROVE Inv'
  BY <1>0, <1>3, ClaimInv
<1>4. ASSUME NEW w \in Workers, RouteUser(w) PROVE Inv'
  BY <1>0, <1>4 DEF RouteUser, Inv, FetchedInv, LockInv, RouteInv, QueueInv, BatchInv, CountInv,
                    Claimed, Owns
<1>5. ASSUME NEW w \in Workers, RouteEvent(w) PROVE Inv'
  BY <1>0, <1>5, RouteEventInv
<1>6. ASSUME NEW w \in Workers, Acquire(w) PROVE Inv'
  <2> USE DEF Inv, TypeOK
  <2>1. /\ pc[w] = "route" /\ lock = NoWorker /\ lock' = w
        /\ pc' = [pc EXCEPT ![w] = "each"]
        /\ UNCHANGED << db, recorded, queue, mine, toRoute, batch >>
    BY <1>6 DEF Acquire, LockFree
  <2>2. FetchedInv'
    BY <2>1 DEF FetchedInv, Owns
  <2>3. LockInv'
    BY <2>1, WorkersAssumption DEF LockInv
  <2>4. RouteInv' /\ QueueInv' /\ BatchInv' /\ CountInv'
    BY <2>1 DEF RouteInv, QueueInv, BatchInv, CountInv, Claimed, Owns
  <2> QED
    BY <1>0, <2>2, <2>3, <2>4
<1>7. ASSUME NEW w \in Workers, Drain(w) PROVE Inv'
  BY <1>0, <1>7, DrainInv
<1>8. ASSUME NEW w \in Workers, Commit(w) PROVE Inv'
  BY <1>0, <1>8, CommitInv
<1>9. ASSUME NEW w \in Workers, Release(w) PROVE Inv'
  <2>1. lock' = (IF lock = w THEN NoWorker ELSE lock)
    BY <1>9 DEF Release, Inv, LockInv
  <2> QED
    BY <1>0, <1>9, <2>1, ResetInv DEF Release
<1>10. ASSUME NEW w \in Workers, End(w) PROVE Inv'
  <2> USE DEF Inv, TypeOK
  <2>1. /\ pc[w] = "top"
        /\ pc' = [pc EXCEPT ![w] = "ended"]
        /\ UNCHANGED << db, recorded, queue, lock, mine, toRoute, batch >>
    BY <1>10 DEF End, LeavesAt, memVars
  <2>2. FetchedInv'
    BY <2>1 DEF FetchedInv, Owns
  <2>3. LockInv'
    BY <2>1 DEF LockInv
  <2>4. RouteInv' /\ QueueInv' /\ BatchInv' /\ CountInv'
    BY <2>1 DEF RouteInv, QueueInv, BatchInv, CountInv, Claimed, Owns
  <2> QED
    BY <1>0, <2>2, <2>3, <2>4
<1>11. ASSUME NEW w \in Workers, Fail(w) PROVE Inv'
  BY <1>0, <1>11, ResetInv DEF Fail
<1>12. CASE UNCHANGED << db, recorded, memVars, workerVars >>
  BY <1>0, <1>12 DEF memVars, workerVars, Inv, FetchedInv, LockInv, RouteInv, QueueInv, BatchInv,
                     CountInv, Claimed, Owns
<1>13. ASSUME Crash PROVE Inv'
  BY <1>0, <1>13, CrashInv
<1>14. Stop \/ UNCHANGED vars => UNCHANGED << db, recorded, memVars, workerVars >>
  BY DEF Stop, vars
<1> QED
  BY <1>1, <1>2, <1>3, <1>4, <1>5, <1>6, <1>7, <1>8, <1>9, <1>10, <1>11, <1>12, <1>13, <1>14
     DEF Next, WorkerStep

\* The invariant holds of every reachable state.
THEOREM Invariance == Spec => []Inv
BY InvInit, InvStep, PTL DEF Spec

\* No event is evaluated and committed twice, whatever the workers, the
\* failures and the restarts do (UserRuntimeManager._process_batch_partition).
THEOREM NeverTwice == Spec => []RecordedAtMostOnce
<1>1. Inv => RecordedAtMostOnce
  BY DEF Inv, CountInv, RecordedAtMostOnce
<1> QED
  BY Invariance, <1>1, PTL

\* Only the worker that holds self.lock drains queues and commits batches.
THEOREM DrainersExclude == Spec => []OneDrainer
<1>1. Inv => OneDrainer
  BY DEF Inv, LockInv, OneDrainer
<1> QED
  BY Invariance, <1>1, PTL

-----------------------------------------------------------------------------
(* Nothing is lost between the claim and the commit, except by a failure.   *)

\* Only a worker that is routing has events to route; the others would lose them
\* when they begin again.
IdleInv == \A w \in Workers : pc[w] # "route" => toRoute[w] = {}

\* An event somebody has, or that a commit or a full queue has disposed of
Held(e) == \/ recorded[e] = 1 \/ e \in dropped
           \/ \E w \in Workers : e \in toRoute[w] \/ e \in SeqRange(batch[w])
           \/ \E u \in Users : e \in SeqRange(queue[u])

HeldInv == faults = 0 => \A e \in Events : db[e] = "processed" => Held(e)

WayInv == IdleInv /\ HeldInv

\* A sequence that is not empty has its head and the elements of its tail.
LEMMA RangeHeadTail ==
    ASSUME NEW S, NEW s \in Seq(S), s # <<>>
    PROVE  SeqRange(s) = SeqRange(Tail(s)) \cup {Head(s)}
<1>1. /\ Len(Tail(s)) = Len(s) - 1
      /\ \A i \in 1 .. Len(Tail(s)) : Tail(s)[i] = s[i + 1]
  BY HeadTailProperties
<1>2. Len(s) \in Nat /\ Len(s) # 0 /\ Head(s) = s[1]
  OBVIOUS
<1> PICK n \in Nat : n = Len(s)
  BY <1>2, Zenon
<1>3. \A i \in 1 .. n : i = 1 \/ (i - 1 \in 1 .. n - 1 /\ (i - 1) + 1 = i)
  OBVIOUS
<1>4. (\A i \in 1 .. n - 1 : i + 1 \in 1 .. n) /\ 1 \in 1 .. n
  BY <1>2
<1>5. /\ SeqRange(s) = {s[i] : i \in 1 .. n}
      /\ SeqRange(Tail(s)) = {s[i + 1] : i \in 1 .. n - 1}
  BY <1>1 DEF SeqRange
<1> QED
  BY <1>2, <1>3, <1>4, <1>5

\* A full queue drops its head into dropped; everything else stays with somebody.
LEMMA RouteEventWay ==
    ASSUME Inv, WayInv, NEW w \in Workers, RouteEvent(w)
    PROVE  WayInv'
<1> PICK q \in Seq(Events) : q = queue[user[w]]
  BY DEF RouteEvent, Inv, TypeOK
<1> DEFINE full == Len(q) >= MaxUserQueue
           kept == IF full THEN Tail(q) ELSE q
<1>1. /\ user[w] \in Users
      /\ UNCHANGED << db, recorded, pc, batch, faults >>
  BY DEF RouteEvent, Inv, TypeOK
<1>2. PICK e \in toRoute[w] :
          /\ queue' = [queue EXCEPT ![user[w]] = Append(kept, e)]
          /\ dropped' = IF full THEN dropped \cup {Head(q)} ELSE dropped
          /\ toRoute' = [toRoute EXCEPT ![w] = toRoute[w] \ {e}]
  BY DEF RouteEvent
<1>3. e \in Events
  BY DEF Inv, TypeOK
<1>4. full => q # <<>>
  BY LimitsAssumption
<1>5. /\ kept \in Seq(Events)
      /\ SeqRange(q) = IF full THEN SeqRange(kept) \cup {Head(q)} ELSE SeqRange(kept)
  BY <1>4, RangeTail, RangeHeadTail
<1> HIDE DEF kept, full
<1>6. SeqRange(Append(kept, e)) = SeqRange(kept) \cup {e}
  BY <1>3, <1>5, RangeAppend
<1>7. /\ \A u \in Users : u # user[w] => queue'[u] = queue[u]
      /\ queue'[user[w]] = Append(kept, e)
      /\ \A v \in Workers : v # w => toRoute'[v] = toRoute[v]
      /\ toRoute'[w] = toRoute[w] \ {e}
  BY <1>1, <1>2 DEF Inv, TypeOK
<1>8. \A u \in Users : \A f \in SeqRange(queue[u]) :
          f \in SeqRange(queue'[u]) \/ f \in dropped'
  BY <1>2, <1>5, <1>6, <1>7
<1>9. \A v \in Workers : \A f \in toRoute[v] :
          f \in toRoute'[v] \/ f \in SeqRange(queue'[user[w]])
  BY <1>6, <1>7
<1>10. dropped \subseteq dropped'
  BY <1>2
<1>11. IdleInv'
  BY <1>1, <1>7 DEF WayInv, IdleInv
<1>12. HeldInv'
  <2> SUFFICES ASSUME NEW f \in Events, faults = 0, db[f] = "processed"
               PROVE  Held(f)'
    BY <1>1 DEF HeldInv
  <2>1. Held(f)
    BY DEF WayInv, HeldInv
  <2> QED
    BY <1>1, <1>8, <1>9, <1>10, <2>1 DEF Held
<1> QED
  BY <1>11, <1>12 DEF WayInv

\* Every step without a failure keeps every claimed event with somebody.
LEMMA WayStep == Inv /\ WayInv /\ [Next]_vars => WayInv'
<1> SUFFICES ASSUME Inv, WayInv, [Next]_vars PROVE WayInv'
  OBVIOUS
<1> USE DEF Inv, TypeOK
<1>1. ASSUME NEW e \in Events, Arrive(e) PROVE WayInv'
  BY <1>1 DEF Arrive, memVars, workerVars, WayInv, IdleInv, HeldInv, Held
<1>2. ASSUME NEW w \in Workers, Fetch(w) PROVE WayInv'
  BY <1>2 DEF Fetch, memVars, WayInv, IdleInv, HeldInv, Held
<1>3. ASSUME NEW w \in Workers, Claim(w) PROVE WayInv'
  <2>1. /\ pc[w] = "claim" /\ pc' = [pc EXCEPT ![w] = "route"]
        /\ toRoute' = [toRoute EXCEPT ![w] = mine[w]]
        /\ \A e \in Events : db'[e] = "processed" => e \in mine[w] \/ db[e] = "processed"
        /\ UNCHANGED << recorded, queue, batch, dropped, faults >>
    BY <1>3 DEF Claim, Marked, memVars
  <2>2. toRoute[w] = {}
    BY <2>1 DEF WayInv, IdleInv
  <2>3. \A v \in Workers : \A e \in toRoute[v] : e \in toRoute'[v]
    BY <2>1, <2>2
  <2>4. IdleInv'
    BY <2>1 DEF WayInv, IdleInv
  <2>5. \A e \in mine[w] : e \in toRoute'[w]
    BY <2>1
  <2>6. HeldInv'
    BY <2>1, <2>3, <2>5 DEF WayInv, HeldInv, Held
  <2> QED
    BY <2>4, <2>6 DEF WayInv
<1>4. ASSUME NEW w \in Workers, RouteUser(w) PROVE WayInv'
  BY <1>4 DEF RouteUser, WayInv, IdleInv, HeldInv, Held
<1>5. ASSUME NEW w \in Workers, RouteEvent(w) PROVE WayInv'
  BY <1>5, RouteEventWay
<1>6. ASSUME NEW w \in Workers, Acquire(w) PROVE WayInv'
  BY <1>6 DEF Acquire, WayInv, IdleInv, HeldInv, Held
<1>7. ASSUME NEW w \in Workers, Drain(w) PROVE WayInv'
  <2> DEFINE u == Head(todo[w])
  <2>1. /\ pc[w] = "each"
        /\ batch' = [batch EXCEPT ![w] = queue[u]]
        /\ queue' = [queue EXCEPT ![u] = <<>>]
        /\ pc' = IF queue[u] = <<>> THEN pc ELSE [pc EXCEPT ![w] = "commit"]
        /\ UNCHANGED << db, recorded, toRoute, dropped, faults >>
    BY <1>7 DEF Drain, Drained
  <2>2. batch[w] = <<>>
    BY <2>1 DEF LockInv
  <2>3. \A v \in Workers : \A e \in SeqRange(batch[v]) : e \in SeqRange(batch'[v])
    <3>1. ASSUME NEW v \in Workers, NEW e \in SeqRange(batch[v]) PROVE v # w
      BY <2>2, RangeEmpty, <3>1
    <3> QED
      BY <2>1, <3>1
  <2>4. \A x \in Users : \A e \in SeqRange(queue[x]) :
            e \in SeqRange(queue'[x]) \/ e \in SeqRange(batch'[w])
    BY <2>1
  <2>5. IdleInv'
    BY <2>1 DEF WayInv, IdleInv
  <2>6. HeldInv'
    BY <2>1, <2>3, <2>4 DEF WayInv, HeldInv, Held
  <2> QED
    BY <2>5, <2>6 DEF WayInv
<1>8. ASSUME NEW w \in Workers, Commit(w) PROVE WayInv'
  <2>1. /\ pc[w] = "commit" /\ pc' = [pc EXCEPT ![w] = "each"]
        /\ batch' = [batch EXCEPT ![w] = <<>>]
        /\ \A e \in Events :
               recorded'[e] = recorded[e] + IF e \in SeqRange(batch[w]) THEN 1 ELSE 0
        /\ \A e \in Events : db'[e] = "processed" => e \in mine[w] \/ db[e] = "processed"
        /\ UNCHANGED << queue, toRoute, dropped, faults >>
    BY <1>8 DEF Commit, Marked, memVars
  <2>2. \A e \in mine[w] : db[e] = "processed"
    BY <2>1 DEF FetchedInv
  <2>3. \A e \in SeqRange(batch[w]) : e \in Events /\ recorded'[e] = 1
    BY <2>1, RangeSeq DEF BatchInv, Claimed
  <2>4. \A e \in Events : recorded[e] = 1 => recorded'[e] = 1
    <3> SUFFICES ASSUME NEW e \in Events, recorded[e] = 1 PROVE recorded'[e] = 1
      OBVIOUS
    <3>1. e \notin SeqRange(batch[w])
      BY DEF BatchInv, Claimed
    <3> QED
      BY <2>1, <3>1
  <2>5. \A v \in Workers : v # w => batch'[v] = batch[v]
    BY <2>1
  <2>6. IdleInv'
    BY <2>1 DEF WayInv, IdleInv
  <2>7. HeldInv'
    <3> SUFFICES ASSUME NEW e \in Events, faults = 0, db'[e] = "processed"
                 PROVE  Held(e)'
      BY <2>1 DEF HeldInv
    <3>1. Held(e)
      BY <2>1, <2>2 DEF WayInv, HeldInv
    <3> QED
      BY <2>1, <2>3, <2>4, <2>5, <3>1 DEF Held
  <2> QED
    BY <2>6, <2>7 DEF WayInv
<1>9. ASSUME NEW w \in Workers, Release(w) PROVE WayInv'
  <2>1. /\ pc[w] = "each"
        /\ pc' = [pc EXCEPT ![w] = "top"]
        /\ toRoute' = [toRoute EXCEPT ![w] = {}]
        /\ batch' = [batch EXCEPT ![w] = <<>>]
        /\ UNCHANGED << db, recorded, queue, dropped, faults >>
    BY <1>9 DEF Release, Reset
  <2>2. toRoute[w] = {} /\ batch[w] = <<>>
    BY <2>1 DEF WayInv, IdleInv, LockInv
  <2>3. toRoute' = toRoute /\ batch' = batch
    BY <2>1, <2>2
  <2> QED
    BY <2>1, <2>3 DEF WayInv, IdleInv, HeldInv, Held
<1>10. ASSUME NEW w \in Workers, End(w) PROVE WayInv'
  BY <1>10 DEF End, LeavesAt, memVars, WayInv, IdleInv, HeldInv, Held
<1>11. ASSUME NEW w \in Workers, Fail(w) PROVE WayInv'
  <2>1. /\ faults' # 0
        /\ pc' = [pc EXCEPT ![w] = "top"]
        /\ toRoute' = [toRoute EXCEPT ![w] = {}]
    BY <1>11 DEF Fail, Reset
  <2> QED
    BY <2>1 DEF WayInv, IdleInv, HeldInv
<1>12. CASE Crash
  <2>1. faults' # 0 /\ toRoute' = [w \in Workers |-> {}]
    BY <1>12 DEF Crash
  <2> QED
    BY <2>1 DEF WayInv, IdleInv, HeldInv
<1>13. CASE Stop \/ UNCHANGED vars
  <2>1. UNCHANGED << db, recorded, queue, pc, toRoute, batch, dropped, faults >>
    BY <1>13 DEF Stop, vars, memVars, workerVars
  <2> QED
    BY <2>1 DEF WayInv, IdleInv, HeldInv, Held
<1> QED
  BY <1>1, <1>2, <1>3, <1>4, <1>5, <1>6, <1>7, <1>8, <1>9, <1>10, <1>11, <1>12, <1>13
     DEF Next, WorkerStep

\* An event a worker has marked as processed is on its way, recorded or dropped
\* from a full queue, as long as no statement failed and the process did not crash:
\* the hand-over between the claim, the queues in memory and the commit has no gap.
THEOREM NothingLost == Spec => []NothingLostWithoutFaults
<1>1. Init => WayInv
  BY DEF Init, WayInv, IdleInv, HeldInv
<1>2. WayInv => NothingLostWithoutFaults
  <2>1. \A e \in Events : Held(e) => recorded[e] = 1 \/ e \in InMemory \/ e \in dropped
    <3> SUFFICES ASSUME NEW e \in Events, Held(e), recorded[e] # 1, e \notin dropped
                 PROVE  e \in InMemory
      OBVIOUS
    <3>1. CASE \E w \in Workers : e \in toRoute[w] \/ e \in SeqRange(batch[w])
      BY <3>1 DEF InMemory
    <3>2. CASE \E u \in Users : e \in SeqRange(queue[u])
      BY <3>2 DEF InMemory
    <3> QED
      BY <3>1, <3>2 DEF Held
  <2> QED
    BY <2>1 DEF WayInv, HeldInv, NothingLostWithoutFaults
<1> QED
  BY <1>1, <1>2, Invariance, WayStep, PTL DEF Spec

-----------------------------------------------------------------------------
(* Refinement of EventOnce.                                                 *)

\* The status of an event in terms of its row and of its evaluations.
LEMMA StatusCases ==
    ASSUME Inv, NEW e \in Events
    PROVE  /\ db[e] # "processed" => Status(e) = db[e]
           /\ Claimed(e) => Status(e) = "claimed"
           /\ db[e] = "processed" /\ recorded[e] = 1 => Status(e) = "recorded"
           /\ db[e] = "processed" => recorded[e] \in {0, 1}
<1>1. /\ recorded[e] \in Nat /\ recorded[e] <= 1
      /\ db[e] # "processed" => recorded[e] = 0
  BY DEF Inv, TypeOK, CountInv
<1> QED
  BY <1>1 DEF Status, Claimed

\* A step that changes neither a row nor an evaluation changes no status.
LEMMA StatusUnchanged ==
    ASSUME UNCHANGED << db, recorded >>
    PROVE  [e \in Events |-> Status(e)]' = [e \in Events |-> Status(e)]
BY DEF Status

\* Every step of the runtime is a step of EventOnce or changes no status.
LEMMA RefinementStep ==
    Inv /\ [Next]_vars => [Once!Next]_([e \in Events |-> Status(e)])
<1> DEFINE st == [e \in Events |-> Status(e)]
<1> SUFFICES ASSUME Inv, [Next]_vars
             PROVE  Once!Next \/ st' = st
  OBVIOUS
<1>0. Inv'
  BY InvStep
<1>1. ASSUME NEW e \in Events, Arrive(e) PROVE Once!Next
  <2>1. /\ db[e] = "absent" /\ db'[e] = "new"
        /\ \A f \in Events : f # e => db'[f] = db[f]
        /\ recorded' = recorded
    BY <1>1 DEF Arrive, Inv, TypeOK
  <2>2. Status(e) = "absent" /\ Status(e)' = "new"
    <3>1. Status(e) = "absent"
      BY <2>1, StatusCases
    <3>2. recorded'[e] = 0
      BY <2>1 DEF Inv, CountInv
    <3> QED
      BY <3>1, <3>2, <2>1 DEF Status
  <2>3. \A f \in Events : f # e => Status(f)' = Status(f)
    BY <2>1 DEF Status
  <2>4. st' = [f \in Events |-> IF f \in {e} THEN "new" ELSE st[f]]
    BY <2>2, <2>3
  <2>5. Once!Arrive(e)
    BY <2>2, <2>4 DEF Once!Arrive, Once!Advance
  <2> QED
    BY <2>5 DEF Once!Next
<1>2. ASSUME NEW w \in Workers, Claim(w) PROVE Once!Next
  <2>1. /\ \A e \in Events : db'[e] = IF e \in mine[w] THEN "processed" ELSE db[e]
        /\ recorded' = recorded
        /\ mine[w] \in SUBSET Events
    BY <1>2 DEF Claim, Marked, Inv, TypeOK
  <2>2. \A e \in mine[w] : e \in Events /\ db[e] = "new" /\ recorded[e] = 0
    BY <1>2, <2>1 DEF Claim, Inv, FetchedInv, CountInv
  <2>3. \A e \in mine[w] : Status(e) = "new" /\ Status(e)' = "claimed"
    BY <2>1, <2>2 DEF Status
  <2>4. \A f \in Events : f \notin mine[w] => Status(f)' = Status(f)
    BY <2>1 DEF Status
  <2>5. st' = [f \in Events |-> IF f \in mine[w] THEN "claimed" ELSE st[f]]
    BY <2>2, <2>3, <2>4
  <2>6. Once!Claim(mine[w])
    BY <2>2, <2>3, <2>5 DEF Once!Claim, Once!Advance
  <2> QED
    BY <2>1, <2>6 DEF Once!Next
<1>3. ASSUME NEW w \in Workers, Commit(w) PROVE Once!Next
  <2> DEFINE B == SeqRange(batch[w])
  <2>1. /\ \A e \in Events : recorded'[e] = recorded[e] + IF e \in B THEN 1 ELSE 0
        /\ B \in SUBSET Events
    BY <1>3, RangeSeq DEF Commit, Inv, TypeOK
  <2>2. \A e \in Events : db'[e] = db[e]
    <3>1. \A e \in mine[w] : db[e] = "processed"
      BY <1>3 DEF Commit, Inv, FetchedInv
    <3> QED
      BY <3>1, <1>3 DEF Commit, Marked, Inv, TypeOK
  <2>3. \A e \in B : db[e] = "processed" /\ recorded[e] = 0
    BY DEF Inv, BatchInv, Claimed
  <2>4. \A e \in B : Status(e) = "claimed" /\ Status(e)' = "recorded"
    BY <2>1, <2>2, <2>3 DEF Status
  <2>5. \A f \in Events : f \notin B => Status(f)' = Status(f)
    <3> SUFFICES ASSUME NEW f \in Events, f \notin B PROVE Status(f)' = Status(f)
      OBVIOUS
    <3>1. recorded'[f] = recorded[f] /\ db'[f] = db[f]
      BY <2>1, <2>2 DEF Inv, TypeOK
    <3> QED
      BY <3>1 DEF Status
  <2>6. st' = [f \in Events |-> IF f \in B THEN "recorded" ELSE st[f]]
    BY <2>1, <2>4, <2>5
  <2>7. Once!Record(B)
    BY <2>1, <2>4, <2>6 DEF Once!Record, Once!Advance
  <2> QED
    BY <2>1, <2>7 DEF Once!Next
<1>4. CASE UNCHANGED << db, recorded >>
  BY <1>4, StatusUnchanged
<1>5. ASSUME NEW w \in Workers,
             \/ Fetch(w) \/ RouteUser(w) \/ RouteEvent(w) \/ Acquire(w)
             \/ Drain(w) \/ Release(w) \/ End(w) \/ Fail(w)
      PROVE  UNCHANGED << db, recorded >>
  BY <1>5 DEF Fetch, RouteUser, RouteEvent, Acquire, Drain, Release, End, Fail
<1>6. Stop \/ Crash \/ UNCHANGED vars => UNCHANGED << db, recorded >>
  BY DEF Stop, Crash, vars
<1> QED
  BY <1>1, <1>2, <1>3, <1>4, <1>5, <1>6 DEF Next, WorkerStep

\* Seen from the database, the runtime is EventOnce: every event goes from
\* absent to new, claimed and recorded, never back and never twice.
THEOREM Refinement == Spec => RefinesEventOnce
<1>1. Init => Once!Init
  BY DEF Init, Once!Init, Status
<1> QED
  BY <1>1, Invariance, RefinementStep, PTL DEF Spec, RefinesEventOnce, Once!Spec
=============================================================================

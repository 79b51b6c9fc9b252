------------------------- MODULE EdgeDaemon_proofs -------------------------
(***************************************************************************)
(* What the uploader promises of the order of alerts, logs and events, for *)
(* any number of packets and at whatever moment the signal comes.          *)
(*                                                                         *)
(* Two threads flush the same queues and post what they took without a     *)
(* lock.  The order rests on this: the main thread flushes only after it   *)
(* has joined the other, and a thread has a batch only while it posts it.  *)
(***************************************************************************)
EXTENDS EdgeDaemon, SequenceTheorems, TLAPS

Places ==
    {"loop", "wait", "test", "swap", "post", "beat", "metrics", "call", "exited", "recv", "event",
     "ingest", "callback", "reload", "stop", "join", "save", "close", "unserve", "exit", "off",
     "accept", "blocked", "serve"}

TypeInv ==
    /\ pc \in [Threads -> Places]
    /\ kind \in [Flushers -> Kinds]
    /\ queue \in [Kinds -> Seq(Nat)]
    /\ batch \in [Flushers -> Seq(Nat)]
    /\ gone \in [Kinds -> Seq(Nat)]
    /\ pushed \in [Kinds -> Nat]

\* A thread has a batch only while it posts it.
BatchInv == \A th \in Flushers : pc[th] # "post" => batch[th] = <<>>

\* The main thread flushes alone.
TurnInv == pc["main"] \in {"swap", "post"} => pc["uploader"] = "exited"

Inv == TypeInv /\ BatchInv /\ TurnInv /\ UploadedInOrder

-----------------------------------------------------------------------------
(* Sequences.                                                               *)

Numbered(n) == [i \in 1 .. n |-> i]

LEMMA OneMore ==
    ASSUME NEW n \in Nat
    PROVE  Append(Numbered(n), n + 1) = Numbered(n + 1)
<1>1. Numbered(n) \in Seq(Nat) /\ Len(Numbered(n)) = n
  BY DEF Numbered
<1>2. PICK s \in Seq(Nat) : s = Numbered(n) /\ Len(s) = n /\ \A i \in 1 .. n : s[i] = i
  BY <1>1 DEF Numbered
<1>3. PICK a \in Seq(Nat) : a = Append(s, n + 1)
  <2>1. n + 1 \in Nat
    OBVIOUS
  <2> QED
    BY <2>1, AppendProperties
<1>4. Len(a) = n + 1 /\ a[n + 1] = n + 1 /\ \A i \in 1 .. n : a[i] = i
  BY <1>2, <1>3, AppendProperties
<1>5. \A i \in 1 .. n + 1 : a[i] = i
  BY <1>4
<1>6. a = [i \in 1 .. n + 1 |-> i]
  BY <1>4, <1>5
<1> QED
  BY <1>2, <1>3, <1>6 DEF Numbered

LEMMA AppendLast ==
    \A s \in Seq(Nat), q \in Seq(Nat), e \in Nat : s \o Append(q, e) = Append(s \o q, e)
  BY SMT

LEMMA EmptyParts ==
    \A s \in Seq(Nat) : s \o <<>> = s /\ <<>> \o s = s
  BY SMT

LEMMA ConcatIn ==
    \A s \in Seq(Nat), q \in Seq(Nat) : s \o q \in Seq(Nat)
  BY ConcatProperties

-----------------------------------------------------------------------------
(* What is being posted.                                                    *)

\* what a thread posts of a kind
Posts(th, k) == IF kind[th] = k THEN batch[th] ELSE <<>>

LEMMA PostingIs ==
    \A k : Posting(k) = Posts("uploader", k) \o Posts("main", k)
  BY DEF Posting, Posts

LEMMA PostingIsNext ==
    \A k : Posting(k)' = Posts("uploader", k)' \o Posts("main", k)'
  BY DEF Posting, Posts

LEMMA Named == /\ "uploader" \in Flushers /\ "main" \in Flushers
               /\ \A th \in Flushers : th = "uploader" \/ th = "main"
               /\ Flushers \subseteq Threads
  BY DEF Flushers, Threads

\* The thread that is not at it has nothing.
LEMMA OtherHasNothing ==
    ASSUME BatchInv, TurnInv, NEW th \in Flushers, NEW o \in Flushers, o # th,
           pc[th] \in {"swap", "post"}
    PROVE  batch[o] = <<>>
<1>1. CASE th = "main"
  <2>1. pc["uploader"] = "exited" /\ o = "uploader"
    BY <1>1, Named DEF TurnInv
  <2> QED
    BY <2>1 DEF BatchInv
<1>2. CASE th = "uploader"
  <2>1. o = "main" /\ pc["main"] # "post"
    BY <1>2, Named DEF TurnInv
  <2> QED
    BY <2>1 DEF BatchInv
<1> QED
  BY <1>1, <1>2, Named

LEMMA EmptyBatch ==
    ASSUME NEW th, batch[th] = <<>>
    PROVE  \A k : Posts(th, k) = <<>>
  BY DEF Posts

LEMMA EmptyBatchNext ==
    ASSUME NEW th, batch'[th] = <<>>
    PROVE  \A k : Posts(th, k)' = <<>>
  BY DEF Posts

\* One thread posts at a time.
LEMMA PostingAlone ==
    ASSUME TypeInv, BatchInv, TurnInv, NEW th \in Flushers, pc[th] \in {"swap", "post"}
    PROVE  \A k : Posting(k) = Posts(th, k)
<1> SUFFICES ASSUME NEW k PROVE Posting(k) = Posts(th, k)
  OBVIOUS
<1>1. \A f \in Flushers : Posts(f, k) \in Seq(Nat)
  BY DEF Posts, TypeInv
<1>2. \A o \in Flushers : o # th => Posts(o, k) = <<>>
  BY OtherHasNothing, EmptyBatch
<1>3. Posting(k) = Posts("uploader", k) \o Posts("main", k)
  BY PostingIs
<1>4. CASE th = "main"
  BY <1>1, <1>2, <1>3, <1>4, EmptyParts, Named
<1>5. CASE th = "uploader"
  BY <1>1, <1>2, <1>3, <1>5, EmptyParts, Named
<1> QED
  BY <1>4, <1>5, Named

\* The same of the next state, in which the other thread has nothing either.
LEMMA PostingAloneNext ==
    ASSUME TypeInv', NEW th \in Flushers, \A o \in Flushers : o # th => batch'[o] = <<>>
    PROVE  \A k : Posting(k)' = Posts(th, k)'
<1> SUFFICES ASSUME NEW k PROVE Posting(k)' = Posts(th, k)'
  OBVIOUS
<1>1. \A f \in Flushers : Posts(f, k)' \in Seq(Nat)
  BY DEF Posts, TypeInv
<1>2. \A o \in Flushers : o # th => Posts(o, k)' = <<>>
  BY EmptyBatchNext
<1>3. Posting(k)' = Posts("uploader", k)' \o Posts("main", k)'
  BY PostingIsNext
<1>4. CASE th = "main"
  BY <1>1, <1>2, <1>3, <1>4, EmptyParts, Named
<1>5. CASE th = "uploader"
  BY <1>1, <1>2, <1>3, <1>5, EmptyParts, Named
<1> QED
  BY <1>4, <1>5, Named

-----------------------------------------------------------------------------
(* The steps that move items.                                               *)

\* An item that is pushed is the last of its queue.
LEMMA PushKeepsOrder ==
    ASSUME Inv, NEW k \in Kinds, Push(k), UNCHANGED << kind, batch, gone >>
    PROVE  UploadedInOrder' /\ queue' \in [Kinds -> Seq(Nat)] /\ pushed' \in [Kinds -> Nat]
<1>1. PICK n \in Nat : n = pushed[k]
  BY DEF Inv, TypeInv
<1>2. PICK q \in Seq(Nat) : q = queue[k]
  BY DEF Inv, TypeInv
<1>3. pushed' = [pushed EXCEPT ![k] = n + 1] /\ pushed'[k] = n + 1
  BY <1>1 DEF Push, Inv, TypeInv
<1>4. queue' = [queue EXCEPT ![k] = Append(q, n + 1)]
  BY <1>2, <1>3 DEF Push
<1>5. Append(q, n + 1) \in Seq(Nat)
  BY AppendProperties
<1>6. queue' \in [Kinds -> Seq(Nat)] /\ pushed' \in [Kinds -> Nat]
  BY <1>3, <1>4, <1>5 DEF Inv, TypeInv
<1>7. \A x : Posting(x)' = Posting(x)
  BY DEF Posting
<1>8. ASSUME NEW x \in Kinds
      PROVE  gone'[x] \o Posting(x)' \o queue'[x] = [i \in 1 .. pushed'[x] |-> i]
  <2>1. gone[x] \o Posting(x) \o queue[x] = Numbered(pushed[x])
    BY DEF Inv, UploadedInOrder, Numbered
  <2>2. CASE x # k
    <3>1. queue'[x] = queue[x] /\ pushed'[x] = pushed[x]
      BY <1>3, <1>4, <2>2 DEF Inv, TypeInv
    <3> QED
      BY <1>7, <2>1, <3>1 DEF Numbered
  <2>3. CASE x = k
    <3>1. gone[k] \in Seq(Nat) /\ Posting(k) \in Seq(Nat)
      <4>1. Posts("uploader", k) \in Seq(Nat) /\ Posts("main", k) \in Seq(Nat)
        BY Named DEF Posts, Inv, TypeInv
      <4> QED
        BY <4>1, PostingIs, ConcatIn DEF Inv, TypeInv
    <3>2. PICK s \in Seq(Nat) : s = gone[k] \o Posting(k)
      BY <3>1, ConcatIn
    <3>3. s \o q = Numbered(n)
      BY <1>1, <1>2, <2>1, <2>3, <3>2
    <3>4. s \o Append(q, n + 1) = Append(s \o q, n + 1)
      BY AppendLast
    <3>5. s \o Append(q, n + 1) = Numbered(n + 1)
      BY <3>3, <3>4, OneMore
    <3>6. queue'[k] = Append(q, n + 1)
      BY <1>4 DEF Inv, TypeInv
    <3> QED
      BY <1>3, <1>7, <2>3, <3>2, <3>5, <3>6 DEF Numbered
  <2> QED
    BY <2>2, <2>3
<1> QED
  BY <1>6, <1>8 DEF UploadedInOrder

\* A queue that is swapped becomes the batch as it is.
LEMMA SwapKeepsOrder ==
    ASSUME Inv, NEW th \in Flushers, Swap(th)
    PROVE  Inv'
<1> DEFINE k == kind[th]
<1>1. TypeInv /\ BatchInv /\ TurnInv /\ k \in Kinds /\ th \in Threads
  BY Named DEF Inv, TypeInv
<1>2. /\ pc[th] = "swap" /\ pc' = [pc EXCEPT ![th] = "post"]
      /\ batch' = [batch EXCEPT ![th] = queue[k]]
      /\ queue' = [queue EXCEPT ![k] = <<>>]
      /\ UNCHANGED << kind, gone, pushed >>
  BY DEF Swap, GoTo
<1> HIDE DEF k
<1>3. TypeInv'
  <2>1. queue[k] \in Seq(Nat) /\ <<>> \in Seq(Nat) /\ "post" \in Places
    BY <1>1 DEF TypeInv, Places
  <2>2. pc' \in [Threads -> Places]
    BY <1>1, <1>2, <2>1 DEF TypeInv
  <2>3. batch' \in [Flushers -> Seq(Nat)] /\ queue' \in [Kinds -> Seq(Nat)]
    BY <1>1, <1>2, <2>1 DEF TypeInv
  <2> QED
    BY <1>1, <1>2, <2>2, <2>3 DEF TypeInv
<1>4. BatchInv'
  BY <1>1, <1>2 DEF BatchInv, TypeInv
<1>5. TurnInv'
  <2>1. CASE th = "main"
    BY <1>1, <1>2, <2>1 DEF TurnInv, TypeInv, Threads, Flushers
  <2>2. CASE th = "uploader"
    BY <1>1, <1>2, <2>2 DEF TurnInv, TypeInv, Threads, Flushers
  <2> QED
    BY <2>1, <2>2, Named
<1>6. \A o \in Flushers : o # th => batch'[o] = <<>>
  BY <1>1, <1>2, OtherHasNothing DEF TypeInv
<1>7. \A x : Posting(x) = <<>>
  <2>1. batch[th] = <<>>
    BY <1>1, <1>2 DEF BatchInv
  <2> QED
    BY <1>1, <1>2, <2>1, PostingAlone, EmptyBatch
<1>8. \A x : Posting(x)' = IF x = k THEN queue[k] ELSE <<>>
  <2>1. \A x : Posts(th, x)' = IF x = k THEN queue[k] ELSE <<>>
    BY <1>1, <1>2 DEF Posts, TypeInv, k
  <2> QED
    BY <1>3, <1>6, <2>1, PostingAloneNext
<1>9. ASSUME NEW x \in Kinds
      PROVE  gone'[x] \o Posting(x)' \o queue'[x] = [i \in 1 .. pushed'[x] |-> i]
  <2>1. PICK g \in Seq(Nat), q \in Seq(Nat) : g = gone[x] /\ q = queue[x]
    BY <1>1 DEF TypeInv
  <2>2. g \o <<>> \o q = [i \in 1 .. pushed[x] |-> i]
    BY <1>7, <2>1 DEF Inv, UploadedInOrder
  <2>3. g \o q = [i \in 1 .. pushed[x] |-> i]
    BY <2>2, EmptyParts
  <2>4. CASE x = k
    <3>1. queue'[x] = <<>> /\ Posting(x)' = q
      BY <1>1, <1>2, <1>8, <2>1, <2>4 DEF TypeInv
    <3>2. g \o q \o <<>> = g \o q
      BY ConcatIn, EmptyParts
    <3> QED
      BY <1>2, <2>1, <2>3, <3>1, <3>2
  <2>5. CASE x # k
    <3>1. queue'[x] = q /\ Posting(x)' = <<>>
      BY <1>1, <1>2, <1>8, <2>1, <2>5 DEF TypeInv
    <3> QED
      BY <1>2, <2>1, <2>2, <3>1
  <2> QED
    BY <2>4, <2>5
<1> QED
  BY <1>3, <1>4, <1>5, <1>9 DEF Inv, UploadedInOrder

\* Where a thread goes after a flush is none of the places of the other's turn.
LEMMA AfterFlushGoes ==
    ASSUME TypeInv, NEW th \in Flushers, NEW done \in Places, AfterFlush(th, done)
    PROVE  /\ pc' = [pc EXCEPT ![th] = "swap"] \/ pc' = [pc EXCEPT ![th] = done]
           /\ kind' \in [Flushers -> Kinds]
           /\ \A o \in Flushers : o # th => kind'[o] = kind[o]
<1>1. \A x \in Kinds : NextKind[x] \in Kinds
  BY DEF Kinds, NextKind
<1> QED
  BY <1>1 DEF AfterFlush, GoTo, TypeInv

\* What was posted is gone, in front of what is still queued.
LEMMA PostKeepsOrder ==
    ASSUME Inv, NEW th \in Flushers, NEW done \in Places \ {"post"}, Post(th, done)
    PROVE  Inv'
<1> DEFINE k == kind[th]
<1>1. TypeInv /\ BatchInv /\ TurnInv /\ k \in Kinds /\ th \in Threads
  BY Named DEF Inv, TypeInv
<1>2. /\ pc[th] = "post" /\ AfterFlush(th, done)
      /\ batch' = [batch EXCEPT ![th] = <<>>]
      /\ gone' = [gone EXCEPT ![k] = @ \o batch[th]]
      /\ UNCHANGED << queue, pushed >>
  BY DEF Post, dataVars
<1> HIDE DEF k
<1>3. /\ pc' = [pc EXCEPT ![th] = "swap"] \/ pc' = [pc EXCEPT ![th] = done]
      /\ kind' \in [Flushers -> Kinds]
  BY <1>1, <1>2, AfterFlushGoes
<1>4. PICK b \in Seq(Nat) : b = batch[th]
  BY <1>1 DEF TypeInv
<1>5. PICK g \in Seq(Nat) : g = gone[k]
  BY <1>1 DEF TypeInv
<1>6. gone' = [gone EXCEPT ![k] = g \o b] /\ g \o b \in Seq(Nat)
  BY <1>2, <1>4, <1>5, ConcatIn
<1>7. TypeInv'
  <2>1. <<>> \in Seq(Nat) /\ "swap" \in Places
    BY DEF Places
  <2>2. pc' \in [Threads -> Places]
    BY <1>1, <1>3, <2>1 DEF TypeInv
  <2>3. batch' \in [Flushers -> Seq(Nat)] /\ gone' \in [Kinds -> Seq(Nat)]
    BY <1>1, <1>2, <1>6, <2>1 DEF TypeInv
  <2> QED
    BY <1>1, <1>2, <1>3, <2>2, <2>3 DEF TypeInv
<1>8. \A f \in Flushers : batch'[f] = <<>>
  <2>1. \A o \in Flushers : o # th => batch[o] = <<>>
    BY <1>1, <1>2, OtherHasNothing
  <2> QED
    BY <1>1, <1>2, <2>1 DEF TypeInv
<1>9. BatchInv'
  BY <1>8 DEF BatchInv
<1>10. TurnInv'
  <2>1. CASE th = "main"
    BY <1>1, <1>2, <1>3, <2>1 DEF TurnInv, TypeInv, Threads, Flushers
  <2>2. CASE th = "uploader"
    BY <1>1, <1>2, <1>3, <2>2 DEF TurnInv, TypeInv, Threads, Flushers
  <2> QED
    BY <2>1, <2>2, Named
<1>11. \A x : Posting(x) = IF x = k THEN b ELSE <<>>
  <2>1. \A x : Posts(th, x) = IF x = k THEN b ELSE <<>>
    BY <1>4 DEF Posts, k
  <2> QED
    BY <1>1, <1>2, <2>1, PostingAlone
<1>12. \A x : Posting(x)' = <<>>
  BY <1>7, <1>8, PostingAloneNext, EmptyBatchNext
<1>13. ASSUME NEW x \in Kinds
       PROVE  gone'[x] \o Posting(x)' \o queue'[x] = [i \in 1 .. pushed'[x] |-> i]
  <2>1. gone[x] \o Posting(x) \o queue[x] = [i \in 1 .. pushed[x] |-> i]
    BY DEF Inv, UploadedInOrder
  <2>2. CASE x = k
    <3>1. gone'[x] = g \o b
      BY <1>1, <1>6, <2>2 DEF TypeInv
    <3>2. (g \o b) \o <<>> = g \o b
      BY <1>6, EmptyParts
    <3> QED
      BY <1>2, <1>5, <1>11, <1>12, <2>1, <2>2, <3>1, <3>2
  <2>3. CASE x # k
    <3>1. gone'[x] = gone[x]
      BY <1>1, <1>6, <2>3 DEF TypeInv
    <3> QED
      BY <1>2, <1>11, <1>12, <2>1, <2>3, <3>1
  <2> QED
    BY <2>2, <2>3
<1> QED
  BY <1>7, <1>9, <1>10, <1>13 DEF Inv, UploadedInOrder

-----------------------------------------------------------------------------
(* The steps that move none.                                                *)

\* A thread that goes from one place to the next, and does not post.
LEMMA QuietStep ==
    ASSUME Inv, NEW th \in Threads, NEW next \in Places, pc[th] # "post",
           pc' = [pc EXCEPT ![th] = next],
           th = "main" /\ next \in {"swap", "post"} =>
               pc["main"] = "swap" \/ pc["uploader"] = "exited",
           th = "uploader" => pc["uploader"] # "exited",
           UNCHANGED << queue, pushed, batch, gone >>,
           kind' \in [Flushers -> Kinds],
           \A f \in Flushers : kind'[f] = kind[f] \/ batch[f] = <<>>
    PROVE  Inv'
<1>1. TypeInv /\ BatchInv /\ TurnInv /\ UploadedInOrder
  BY DEF Inv
<1>2. TypeInv'
  BY <1>1 DEF TypeInv
<1>3. BatchInv'
  <2> SUFFICES ASSUME NEW f \in Flushers, pc'[f] # "post" PROVE batch'[f] = <<>>
    BY DEF BatchInv
  <2>1. pc[f] # "post"
    BY <1>1, Named DEF TypeInv
  <2> QED
    BY <1>1, <2>1 DEF BatchInv
<1>4. TurnInv'
  <2>1. "main" \in Threads /\ "uploader" \in Threads
    BY Named
  <2>2. CASE th = "main"
    BY <1>1, <2>1, <2>2 DEF TypeInv, TurnInv
  <2>3. CASE th # "main"
    BY <1>1, <2>1, <2>3 DEF TypeInv, TurnInv
  <2> QED
    BY <2>2, <2>3
<1>5. \A k : Posting(k)' = Posting(k)
  <2> SUFFICES ASSUME NEW k PROVE Posting(k)' = Posting(k)
    OBVIOUS
  <2>1. ASSUME NEW f \in Flushers PROVE Posts(f, k)' = Posts(f, k)
    BY DEF Posts
  <2>2. Posts("uploader", k)' = Posts("uploader", k) /\ Posts("main", k)' = Posts("main", k)
    BY <2>1, Named
  <2> QED
    BY <2>2, PostingIs, PostingIsNext
<1>6. UploadedInOrder'
  BY <1>1, <1>5 DEF UploadedInOrder
<1> QED
  BY <1>2, <1>3, <1>4, <1>6 DEF Inv

\* The main thread pushes an item and goes on.
LEMMA PushStep ==
    ASSUME Inv, NEW k \in Kinds, Push(k), NEW next \in Places \ {"swap", "post"},
           pc["main"] # "post", pc' = [pc EXCEPT !["main"] = next], UNCHANGED << kind, batch, gone >>
    PROVE  Inv'
<1>1. TypeInv /\ BatchInv /\ "main" \in Threads
  BY Named DEF Inv
<1>2. UploadedInOrder' /\ queue' \in [Kinds -> Seq(Nat)] /\ pushed' \in [Kinds -> Nat]
  BY PushKeepsOrder
<1>3. TypeInv'
  BY <1>1, <1>2 DEF TypeInv
<1>4. BatchInv'
  <2> SUFFICES ASSUME NEW f \in Flushers, pc'[f] # "post" PROVE batch'[f] = <<>>
    BY DEF BatchInv
  <2>1. pc[f] # "post"
    BY <1>1, Named DEF TypeInv
  <2> QED
    BY <1>1, <2>1 DEF BatchInv
<1>5. TurnInv'
  BY <1>1 DEF TurnInv, TypeInv
<1> QED
  BY <1>2, <1>3, <1>4, <1>5 DEF Inv

\* Nothing to flush: the thread turns to the next queue.
LEMMA SwapEmptyStep ==
    ASSUME Inv, NEW th \in Flushers, NEW done \in Places \ {"post", "swap"}, SwapEmpty(th, done)
    PROVE  Inv'
<1>1. TypeInv /\ BatchInv /\ TurnInv /\ th \in Threads
  BY Named DEF Inv
<1>2. pc[th] = "swap" /\ AfterFlush(th, done) /\ UNCHANGED << queue, pushed, batch, gone >>
  BY DEF SwapEmpty, dataVars
<1>3. /\ pc' = [pc EXCEPT ![th] = "swap"] \/ pc' = [pc EXCEPT ![th] = done]
      /\ kind' \in [Flushers -> Kinds]
      /\ \A o \in Flushers : o # th => kind'[o] = kind[o]
  BY <1>1, <1>2, AfterFlushGoes
<1>4. PICK next \in Places : pc' = [pc EXCEPT ![th] = next] /\ (next = "swap" \/ next = done)
  BY <1>3 DEF Places
<1>5. \A f \in Flushers : kind'[f] = kind[f] \/ batch[f] = <<>>
  BY <1>1, <1>2, <1>3 DEF BatchInv
<1>6. /\ th = "main" /\ next \in {"swap", "post"} =>
             pc["main"] = "swap" \/ pc["uploader"] = "exited"
      /\ th = "uploader" => pc["uploader"] # "exited"
  BY <1>2
<1> QED
  BY <1>1, <1>2, <1>3, <1>4, <1>5, <1>6, QuietStep

LEMMA UploaderKeeps ==
    ASSUME Inv, UploaderStep
    PROVE  Inv'
<1>1. TypeInv /\ BatchInv
  BY DEF Inv
<1>2. "uploader" \in Flushers /\ "uploader" \in Threads /\ "beat" \in Places \ {"post", "swap"}
  BY Named DEF Places
<1>3. ASSUME NEW at \in {"loop", "test"}, NEW next \in {"wait", "swap"}, UploaderTest(at, next)
      PROVE  Inv'
  <2>1. pc["uploader"] = at /\ kind' = [kind EXCEPT !["uploader"] = FirstKind]
    BY <1>3 DEF UploaderTest
  <2>2. PICK to \in Places : pc' = [pc EXCEPT !["uploader"] = to]
    BY <1>3 DEF UploaderTest, GoTo, Places
  <2>3. UNCHANGED << queue, pushed, batch, gone >>
    BY <1>3 DEF UploaderTest, UploaderAlone, dataVars
  <2>4. batch["uploader"] = <<>>
    BY <1>1, <1>2, <1>3, <2>1 DEF BatchInv
  <2>5. /\ kind' \in [Flushers -> Kinds]
        /\ \A f \in Flushers : kind'[f] = kind[f] \/ batch[f] = <<>>
    BY <1>1, <2>1, <2>4 DEF TypeInv, FirstKind, Kinds
  <2>6. pc["uploader"] # "post" /\ pc["uploader"] # "exited"
    BY <1>3, <2>1
  <2> QED
    BY <1>2, <2>2, <2>3, <2>5, <2>6, QuietStep
<1>4. ASSUME WaitEnds \/ Heartbeat \/ MetricsNotDue \/ MetricsLock \/ MetricsCall
      PROVE  Inv'
  <2>1. /\ pc["uploader"] # "post" /\ pc["uploader"] # "exited"
        /\ UNCHANGED << queue, pushed, batch, gone, kind >>
    BY <1>4 DEF WaitEnds, Heartbeat, MetricsNotDue, MetricsLock, MetricsCall, UploaderAlone, dataVars
  <2>2. PICK to \in Places : pc' = [pc EXCEPT !["uploader"] = to]
    BY <1>4 DEF WaitEnds, Heartbeat, MetricsNotDue, MetricsLock, MetricsCall, GoTo, Places
  <2>3. /\ kind' \in [Flushers -> Kinds]
        /\ \A f \in Flushers : kind'[f] = kind[f] \/ batch[f] = <<>>
    BY <1>1, <2>1 DEF TypeInv
  <2> QED
    BY <1>2, <2>1, <2>2, <2>3, QuietStep
<1>5. CASE SwapEmpty("uploader", "beat")
  BY <1>2, <1>5, SwapEmptyStep
<1>6. CASE Swap("uploader")
  BY <1>2, <1>6, SwapKeepsOrder
<1>7. CASE Post("uploader", "beat")
  BY <1>2, <1>7, PostKeepsOrder
<1> QED
  BY <1>3, <1>4, <1>5, <1>6, <1>7 DEF UploaderStep

LEMMA CaptureKeeps ==
    ASSUME Inv, Capture \/ RecvPacket
    PROVE  Inv'
<1>1. TypeInv /\ "main" \in Threads
  BY Named DEF Inv
<1>2. UNCHANGED << kind, batch, gone >>
  BY DEF Capture, RecvPacket, LoopTest, RecvTimeout, PushEvent, IngestSilent, IngestRaises, Callback,
         ReloadCheck, CaptureOnly
<1>3. ASSUME LoopTest \/ RecvTimeout \/ RecvPacket \/ IngestSilent \/ IngestRaises \/ ReloadCheck
      PROVE  Inv'
  <2>1. pc["main"] # "post" /\ UNCHANGED << queue, pushed, batch, gone, kind >>
    BY <1>2, <1>3 DEF LoopTest, RecvTimeout, RecvPacket, IngestSilent, IngestRaises, ReloadCheck, dataVars
  <2>2. PICK to \in Places : pc' = [pc EXCEPT !["main"] = to] /\ to \notin {"swap", "post"}
    BY <1>3 DEF LoopTest, RecvTimeout, RecvPacket, IngestSilent, IngestRaises, ReloadCheck, GoTo, Places
  <2>3. /\ kind' \in [Flushers -> Kinds]
        /\ \A f \in Flushers : kind'[f] = kind[f] \/ batch[f] = <<>>
    BY <1>1, <2>1 DEF TypeInv
  <2> QED
    BY <1>1, <2>1, <2>2, <2>3, QuietStep
<1>4. ASSUME NEW k \in Kinds, (PushEvent /\ k = "event") \/ Callback(k)
      PROVE  Inv'
  <2>1. Push(k) /\ pc["main"] # "post"
    BY <1>4 DEF PushEvent, Callback
  <2>2. PICK to \in Places \ {"swap", "post"} : pc' = [pc EXCEPT !["main"] = to]
    BY <1>4 DEF PushEvent, Callback, GoTo, Places
  <2> QED
    BY <1>2, <2>1, <2>2, PushStep
<1>5. "alert" \in Kinds /\ "log" \in Kinds /\ "event" \in Kinds
  BY DEF Kinds
<1> QED
  BY <1>3, <1>4, <1>5 DEF Capture

LEMMA ShutdownKeeps ==
    ASSUME Inv, Shutdown
    PROVE  Inv'
<1>1. TypeInv /\ BatchInv
  BY DEF Inv
<1>2. "main" \in Flushers /\ "main" \in Threads /\ "save" \in Places \ {"post", "swap"}
  BY Named DEF Places
<1>3. CASE JoinUploader
  <2>1. /\ pc["main"] = "join" /\ pc["uploader"] = "exited"
        /\ kind' = [kind EXCEPT !["main"] = FirstKind]
        /\ pc' = [pc EXCEPT !["main"] = "swap"]
        /\ UNCHANGED << queue, pushed, batch, gone >>
    BY <1>3 DEF JoinUploader, UploaderJoined, GoTo, dataVars
  <2>2. batch["main"] = <<>>
    BY <1>1, <1>2, <2>1 DEF BatchInv
  <2>3. /\ kind' \in [Flushers -> Kinds]
        /\ \A f \in Flushers : kind'[f] = kind[f] \/ batch[f] = <<>>
    BY <1>1, <2>1, <2>2 DEF TypeInv, FirstKind, Kinds
  <2>4. "swap" \in Places /\ pc["main"] # "post"
    BY <2>1 DEF Places
  <2> QED
    BY <1>2, <2>1, <2>3, <2>4, QuietStep
<1>4. ASSUME StopUploader \/ SaveAll \/ CloseServer \/ Exit
      PROVE  Inv'
  <2>1. pc["main"] # "post" /\ UNCHANGED << queue, pushed, batch, gone, kind >>
    BY <1>4 DEF StopUploader, SaveAll, CloseServer, Exit, dataVars
  <2>2. PICK to \in Places : pc' = [pc EXCEPT !["main"] = to] /\ to \notin {"swap", "post"}
    BY <1>4 DEF StopUploader, SaveAll, CloseServer, Exit, GoTo, Places
  <2>3. /\ kind' \in [Flushers -> Kinds]
        /\ \A f \in Flushers : kind'[f] = kind[f] \/ batch[f] = <<>>
    BY <1>1, <2>1 DEF TypeInv
  <2> QED
    BY <1>2, <2>1, <2>2, <2>3, QuietStep
<1>5. CASE SwapEmpty("main", "save")
  BY <1>2, <1>5, SwapEmptyStep
<1>6. CASE Swap("main")
  BY <1>2, <1>6, SwapKeepsOrder
<1>7. CASE Post("main", "save")
  BY <1>2, <1>7, PostKeepsOrder
<1> QED
  BY <1>3, <1>4, <1>5, <1>6, <1>7 DEF Shutdown

LEMMA ServerKeeps ==
    ASSUME Inv, HttpStep \/ Connect \/ Request
    PROVE  Inv'
<1>1. TypeInv /\ BatchInv /\ TurnInv /\ "http" \in Threads
  BY DEF Inv, Threads
<1>2. UNCHANGED << queue, pushed, batch, gone, kind >> /\ pc["http"] # "post"
  BY DEF HttpStep, Connect, Request, ServeTest, AcceptCall, AnswerHealth, AnswerMetrics, HttpOnly, dataVars
<1>3. \E to \in Places : pc' = [pc EXCEPT !["http"] = to]
  <2>1. {"accept", "exited", "blocked", "loop", "recv", "serve"} \subseteq Places
    BY DEF Places
  <2> QED
    BY <2>1 DEF HttpStep, Connect, Request, ServeTest, AcceptCall, AnswerHealth, AnswerMetrics, GoTo
<1>4. PICK to \in Places : pc' = [pc EXCEPT !["http"] = to]
  BY <1>3
<1>5. /\ kind' \in [Flushers -> Kinds]
      /\ \A f \in Flushers : kind'[f] = kind[f] \/ batch[f] = <<>>
  BY <1>1, <1>2 DEF TypeInv
<1> QED
  BY <1>1, <1>2, <1>4, <1>5, QuietStep

-----------------------------------------------------------------------------
LEMMA InitInv == Init => Inv
<1> SUFFICES ASSUME Init PROVE Inv
  OBVIOUS
<1>1. TypeInv
  <2>1. <<>> \in Seq(Nat) /\ FirstKind \in Kinds
    BY DEF FirstKind, Kinds
  <2>2. pc \in [Threads -> Places]
    BY DEF Init, Threads, Flushers, Places
  <2> QED
    BY <2>1, <2>2 DEF Init, TypeInv
<1>2. BatchInv
  BY DEF Init, BatchInv
<1>3. TurnInv
  BY DEF Init, TurnInv
<1>4. UploadedInOrder
  <2>1. ASSUME NEW k \in Kinds
        PROVE  gone[k] \o Posting(k) \o queue[k] = [i \in 1 .. pushed[k] |-> i]
    <3>1. gone[k] = <<>> /\ queue[k] = <<>> /\ pushed[k] = 0
      BY DEF Init
    <3>2. Posts("uploader", k) = <<>> /\ Posts("main", k) = <<>>
      BY Named DEF Init, Posts
    <3>3. <<>> \o <<>> = <<>>
      OBVIOUS
    <3>4. Posting(k) = <<>>
      BY <3>2, <3>3, PostingIs
    <3>5. [i \in 1 .. 0 |-> i] = <<>>
      OBVIOUS
    <3> QED
      BY <3>1, <3>3, <3>4, <3>5
  <2> QED
    BY <2>1 DEF UploadedInOrder
<1> QED
  BY <1>1, <1>2, <1>3, <1>4 DEF Inv

LEMMA NextInv == Inv /\ [Next]_<< config, vars >> => Inv'
<1> SUFFICES ASSUME Inv, [Next]_<< config, vars >> PROVE Inv'
  OBVIOUS
<1>1. CASE UNCHANGED << pc, kind, queue, pushed, batch, gone >>
  <2>1. \A k : Posting(k)' = Posting(k)
    BY <1>1 DEF Posting
  <2>2. TypeInv' /\ BatchInv' /\ TurnInv'
    BY <1>1 DEF Inv, TypeInv, BatchInv, TurnInv
  <2> QED
    BY <1>1, <2>1, <2>2 DEF Inv, UploadedInOrder
<1>2. CASE SigTerm \/ SigHup
  BY <1>1, <1>2 DEF SigTerm, SigHup, dataVars
<1>3. CASE UNCHANGED << config, vars >>
  BY <1>1, <1>3 DEF vars, dataVars
<1> QED
  BY <1>2, <1>3, CaptureKeeps, ShutdownKeeps, UploaderKeeps, ServerKeeps DEF Next

\* The inductive invariant of the daemon
THEOREM Invariance == Spec => []Inv
  BY InitInv, NextInv, PTL DEF Spec

\* push_alert, push_log and push_event, the uploader's thread and the final flush of
\* stop(): each kind is posted in the order of its pushes, none twice, none skipped.
THEOREM EachOnceInOrder == Spec => []UploadedInOrder
<1>1. Inv => UploadedInOrder
  BY DEF Inv
<1> QED
  BY <1>1, Invariance, PTL
=============================================================================

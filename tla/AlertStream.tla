---------------------------- MODULE AlertStream ----------------------------
(***************************************************************************)
(* backend/app/broadcaster.py and backend/app/routers/stream.py: the alerts *)
(* of one user, fanned out to the queue of each connected client.           *)
(*                                                                         *)
(* Two threads share these objects with no lock.  The loop of the central   *)
(* runtime runs broadcast: one coroutine after the other, as put never      *)
(* waits on a queue without limit.  The web server's loop runs the readers  *)
(* of the streams and the subscriptions, one step at a time: while a reader *)
(* is between the test of its queue and what it then does about it, that    *)
(* loop does nothing else (WebFree).  Each statement of one thread may come *)
(* between two of the other.                                               *)
(*                                                                         *)
(* A message is a number.  Faulty variants of some definitions stand before *)
(* them, used by no action.                                                *)
(***************************************************************************)
EXTENDS Naturals, FiniteSets, SequencesExt

CONSTANTS
    Sse, Ws,      \* the clients of /stream/alerts and of /ws/alerts
    Nobody,       \* a model value
    MaxQueue,     \* MAX_QUEUE_SIZE
    MaxMessages   \* bound of the model

Clients == Sse \cup Ws

ASSUME StreamAssumption ==
    /\ Sse \cap Ws = {}
    /\ Nobody \notin Clients
    /\ IsFiniteSet(Clients)
    /\ MaxQueue \in Nat \ {0, 1}
    /\ MaxMessages \in Nat

VARIABLES
    scheduled,   \* the coroutines the runtime's loop has still to run: Seq of messages
    fan,         \* the broadcast at hand
    subs,        \* _subscribers[user_id]
    queue,       \* queue[c]: the payloads that wait for client c
    reader,      \* reader[c]: where the coroutine of client c is
    sent,        \* sent[c]: what client c, while it is there, was sent
    late         \* late[c]: a payload came as c was between its test and its sleep

streamVars == << scheduled, fan, subs, queue, reader, sent, late >>

Messages == 1 .. MaxMessages
Stages   == {"none", "next", "drop", "put", "wake"}
Places   == {"off", "new", "check", "register", "take", "asleep", "sending", "left", "leaked"}
Gone(c)  == reader[c] \in {"left", "leaked"}
WebFree  == \A c \in Clients : reader[c] \notin {"register", "take"}

-----------------------------------------------------------------------------
(* The runtime's loop: AlertBroadcaster.broadcast.  The for statement keeps  *)
(* an index into the live list; a list that became empty was taken out of    *)
(* the dictionary (orphaned), and who subscribes then is in another one.     *)

Resting == [stage |-> "none", message |-> 0, index |-> 1, to |-> Nobody, orphaned |-> FALSE,
            present |-> {}, reached |-> {}, leavers |-> 0]

BeginAny ==
    /\ fan.stage = "none"
    /\ \E i \in DOMAIN scheduled :
        /\ scheduled' = RemoveAt(scheduled, i)
        /\ fan' = IF subs = <<>> THEN fan
                  ELSE [Resting EXCEPT !.stage = "next", !.message = scheduled[i],
                                       !.present = ToSet(subs)]
    /\ UNCHANGED << subs, queue, reader, sent, late >>
Begin ==
    /\ fan.stage = "none"
    /\ scheduled # <<>>
    /\ scheduled' = Tail(scheduled)
    /\ fan' = IF subs = <<>> THEN fan
              ELSE [Resting EXCEPT !.stage = "next", !.message = Head(scheduled),
                                   !.present = ToSet(subs)]
    /\ UNCHANGED << subs, queue, reader, sent, late >>

AtEnd == fan.orphaned \/ fan.index > Len(subs)

TurnToFull(c) ==
    fan' = [fan EXCEPT !.to = c, !.index = @ + 1, !.stage = "put"]
TurnTo(c) ==
    fan' = [fan EXCEPT !.to = c, !.index = @ + 1,
                       !.stage = IF Len(queue[c]) >= MaxQueue THEN "drop" ELSE "put"]
PickNext ==
    /\ fan.stage = "next"
    /\ IF AtEnd THEN fan' = Resting ELSE TurnTo(subs[fan.index])
    /\ UNCHANGED << scheduled, subs, queue, reader, sent, late >>

DropNewest ==
    /\ fan.stage = "drop"
    /\ fan' = [fan EXCEPT !.stage = "next", !.to = Nobody]
    /\ UNCHANGED << scheduled, subs, queue, reader, sent, late >>
\* get_nowait: the oldest payload goes, unless all were read in the meantime
DropOldest ==
    /\ fan.stage = "drop"
    /\ queue' = [queue EXCEPT ![fan.to] = IF @ = <<>> THEN @ ELSE Tail(@)]
    /\ fan' = [fan EXCEPT !.stage = "put"]
    /\ UNCHANGED << scheduled, subs, reader, sent, late >>

\* put_nowait: first the payload, unless its queue is nobody's any more, then
\* the getter that waits, if there is one
Put ==
    /\ fan.stage = "put"
    /\ queue' = [queue EXCEPT ![fan.to] = IF reader[fan.to] = "left" THEN @ ELSE Append(@, fan.message)]
    /\ fan' = [fan EXCEPT !.stage = "wake", !.reached = @ \cup {fan.to}]
    /\ UNCHANGED << scheduled, subs, reader, sent, late >>

WakeNobody == UNCHANGED << reader, late >>
WakeReader ==
    /\ reader' = [reader EXCEPT ![fan.to] = IF @ = "asleep" THEN "check" ELSE @]
    /\ late' = [late EXCEPT ![fan.to] = reader[fan.to] = "register"]
Wake ==
    /\ fan.stage = "wake"
    /\ WakeReader
    /\ fan' = [fan EXCEPT !.stage = "next", !.to = Nobody]
    /\ UNCHANGED << scheduled, subs, queue, sent >>

FanStep == Begin \/ PickNext \/ DropOldest \/ Put \/ Wake

-----------------------------------------------------------------------------
(* The web server's loop: subscribe, unsubscribe and the readers.           *)

\* the request of /stream/alerts subscribes before its generator runs, the
\* handler of /ws/alerts goes on to its loop
Subscribe(c) ==
    /\ WebFree
    /\ reader[c] = "off"
    /\ subs' = Append(subs, c)
    /\ reader' = [reader EXCEPT ![c] = IF c \in Sse THEN "new" ELSE "check"]
    /\ UNCHANGED << scheduled, fan, queue, sent, late >>

StartGenerator(c) ==
    /\ WebFree
    /\ reader[c] = "new"
    /\ reader' = [reader EXCEPT ![c] = "check"]
    /\ UNCHANGED << scheduled, fan, subs, queue, sent, late >>

\* Queue.get: the test, then a future among the getters or get_nowait
Get(c) ==
    /\ WebFree
    /\ reader[c] = "check"
    /\ reader' = [reader EXCEPT ![c] = IF queue[c] = <<>> THEN "register" ELSE "take"]
    /\ UNCHANGED << scheduled, fan, subs, queue, sent, late >>

Register(c) ==
    /\ reader[c] = "register"
    /\ reader' = [reader EXCEPT ![c] = "asleep"]
    /\ UNCHANGED << scheduled, fan, subs, queue, sent, late >>

\* unsubscribe, with what it means for a broadcast under way; the queue is
\* nobody's then, and what the client saw is seen no more
Unsubscribe(c) ==
    /\ subs' = RemoveFirst(subs, c)
    /\ queue' = [queue EXCEPT ![c] = <<>>]
    /\ sent' = [sent EXCEPT ![c] = <<>>]
    /\ late' = [late EXCEPT ![c] = FALSE]
    /\ fan' = IF fan.stage = "none" THEN fan
              ELSE [fan EXCEPT !.orphaned = @ \/ subs' = <<>>, !.leavers = @ + 1]

Take(c) ==
    /\ reader[c] = "take"
    /\ queue[c] # <<>>
    /\ reader' = [reader EXCEPT ![c] = "sending"]
    /\ queue' = [queue EXCEPT ![c] = Tail(@)]
    /\ sent' = [sent EXCEPT ![c] = Append(@, Head(queue[c]))]
    /\ late' = [late EXCEPT ![c] = FALSE]
    /\ UNCHANGED << scheduled, fan, subs >>

\* DropOldest took what the test had seen: QueueEmpty ends the stream
TakeNothing(c) ==
    /\ reader[c] = "take"
    /\ queue[c] = <<>>
    /\ reader' = [reader EXCEPT ![c] = "left"]
    /\ Unsubscribe(c)
    /\ UNCHANGED scheduled

\* the payload went out; or the web socket turns out to be closed, which its
\* client may have done at any time since the last send
SendDone(c) ==
    /\ WebFree
    /\ reader[c] = "sending"
    /\ reader' = [reader EXCEPT ![c] = "check"]
    /\ UNCHANGED << scheduled, fan, subs, queue, sent, late >>
SendFails(c) ==
    /\ WebFree
    /\ reader[c] = "sending"
    /\ reader' = [reader EXCEPT ![c] = "left"]
    /\ Unsubscribe(c)
    /\ UNCHANGED scheduled

\* a client of /stream/alerts hangs up: the generator is cancelled where it
\* waits; one that never started has no finally to run
HangUpSse(c) ==
    /\ WebFree
    /\ reader[c] \in {"asleep", "sending"}
    /\ reader' = [reader EXCEPT ![c] = "left"]
    /\ Unsubscribe(c)
    /\ UNCHANGED scheduled
HangUpEarly(c) ==
    /\ WebFree
    /\ reader[c] = "new"
    /\ reader' = [reader EXCEPT ![c] = "leaked"]
    /\ UNCHANGED << scheduled, fan, subs, queue, sent, late >>

ReaderStep(c) ==
    StartGenerator(c) \/ Get(c) \/ Register(c) \/ Take(c) \/ TakeNothing(c) \/ SendDone(c)

StreamInit ==
    /\ scheduled = <<>>
    /\ fan = Resting
    /\ subs = <<>>
    /\ queue = [c \in Clients |-> <<>>]
    /\ reader = [c \in Clients |-> "off"]
    /\ sent = [c \in Clients |-> <<>>]
    /\ late = [c \in Clients |-> FALSE]

StreamNext ==
    \/ FanStep
    \/ \E c \in Clients : Subscribe(c) \/ ReaderStep(c)
    \/ \E c \in Sse : HangUpSse(c) \/ HangUpEarly(c)
    \/ \E c \in Ws : SendFails(c)

\* both loops run as long as the server does
StreamFairness ==
    /\ WF_streamVars(FanStep)
    /\ \A c \in Clients : WF_streamVars(ReaderStep(c))

-----------------------------------------------------------------------------
(* Properties.                                                              *)

\* Type correctness; no queue outgrows MAX_QUEUE_SIZE, whoever never reads it.
StreamTypeOK ==
    /\ scheduled \in Seq(Messages)
    /\ fan.stage \in Stages
    /\ fan.stage \in {"drop", "put", "wake"} <=> fan.to \in Clients
    /\ ToSet(subs) \subseteq Clients
    /\ IsInjective(subs)
    /\ \A c \in Clients :
        /\ queue[c] \in Seq(Messages)
        /\ Len(queue[c]) <= MaxQueue
        /\ reader[c] \in Places
        /\ sent[c] \in Seq(Messages)
        /\ late[c] \in BOOLEAN
        /\ c \in ToSet(subs) <=> reader[c] \notin {"off", "left"}

\* unsubscribe takes the client's queue off the list that a broadcast may be
\* going through, and the one behind it is passed over: a broadcast misses at
\* most as many of the clients that were there, and still are, as left while
\* it ran, and none when none left.
SkipsBounded ==
    fan.stage = "next" /\ AtEnd =>
        Cardinality((fan.present \cap ToSet(subs)) \ fan.reached) <= fan.leavers

\* A client who stays empties its queue again, unless a payload came just as it
\* went to sleep: then that one waits for the next.  (Of a full queue the oldest
\* payload goes unread: DropOldest.)
AlertsGoOut ==
    \A c \in Clients :
        queue[c] # <<>> ~> queue[c] = <<>> \/ Gone(c) \/ late[c]

=============================================================================

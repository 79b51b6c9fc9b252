----------------------------- MODULE EdgeDaemon -----------------------------
(***************************************************************************)
(* The daemon of an edge host: the capture loop of ids_production.cpp      *)
(* with a cloud uploader configured, CloudUploader of include/ids_cloud.hpp *)
(* and MetricsServer of the same program.                                  *)
(*                                                                         *)
(* Three threads: main (capture, then shutdown), the uploader and the one  *)
(* that serves metrics.  Two locks are held across calls: the pipeline's   *)
(* state lock by IDS::ingest, which runs the alert callback inside, and    *)
(* the uploader's mu_ by send_metrics, which runs metrics_fn_ inside.      *)
(* Every other critical section is one step, so it is only a guard here.   *)
(* Times (5 s batches, 30 s heartbeats, 60 s metrics, a receive timeout of *)
(* 1 s) are choices: a step that waits for a time may happen at any time.  *)
(* Offline replay is left out.                                             *)
(*                                                                         *)
(* Faulty variants of some definitions stand before them, used by no       *)
(* action: they serve to test that a property would notice the fault.      *)
(***************************************************************************)
EXTENDS Naturals, Sequences

CONSTANTS
    Forwarding,  \* the values cfg.forwarder_only may have
    Serving,     \* the values cfg.prometheus may have
    MaxPackets   \* bound: packets received

ASSUME DaemonAssumption ==
    /\ Forwarding \subseteq BOOLEAN
    /\ Serving \subseteq BOOLEAN
    /\ MaxPackets \in Nat

VARIABLES
    config,     \* cfg: packets are uploaded and not examined; metrics are served
    running,    \* g_running
    reload,     \* g_reload
    packets,    \* pkt_count
    upRunning,  \* CloudUploader::running_
    pc,         \* where each thread is (see the actions)
    kind,       \* [Flushers -> Kinds]: the queue the thread is flushing
    queue,      \* [Kinds -> Seq(Nat)]: alert_queue_, log_queue_, event_queue_
    batch,      \* [Flushers -> Seq(Nat)]: what the thread is posting
    stateLock,  \* the thread that holds IDS::state_mu_ exclusively
    cloudLock,  \* the thread that holds CloudUploader::mu_ across a call
    srvClosed,  \* the listening socket of MetricsServer is closed
    saved,      \* save_all has run
    pushed,     \* history: items pushed of each kind, numbered from 1
    gone        \* history: items posted, whether the request failed or not

dataVars == << queue, pushed >>
vars == << running, reload, packets, upRunning, pc, kind, dataVars, batch,
           stateLock, cloudLock, srvClosed, saved, gone >>

Kinds    == {"alert", "log", "event"}
Flushers == {"main", "uploader"}
Threads  == Flushers \cup {"http"}
Nobody   == "nobody"
GoTo(th, next) == pc' = [pc EXCEPT ![th] = next]

CloudFree == cloudLock = Nobody
StateFree == stateLock = Nobody

ReleaseCloud == cloudLock' = Nobody

-----------------------------------------------------------------------------
(* CloudUploader: push_alert, push_log, push_event and the three flushes.   *)

Push(k) ==
    /\ CloudFree
    /\ pushed' = [pushed EXCEPT ![k] = @ + 1]
    /\ queue'  = [queue EXCEPT ![k] = Append(@, pushed'[k])]

FirstKind == "alert"
LastKindForgetsEvents == "log"
LastKind == "event"
NextKind == [alert |-> "log", log |-> "event", event |-> "event"]

\* where a thread goes when it has flushed a queue
AfterFlush(th, done) ==
    IF kind[th] = LastKind
    THEN GoTo(th, done) /\ kind' = kind
    ELSE GoTo(th, "swap") /\ kind' = [kind EXCEPT ![th] = NextKind[@]]

SwapEmpty(th, done) ==
    /\ pc[th] = "swap" /\ CloudFree
    /\ queue[kind[th]] = <<>>
    /\ AfterFlush(th, done)
    /\ UNCHANGED << running, reload, packets, upRunning, dataVars, batch, stateLock, cloudLock,
                    srvClosed, saved, gone >>

Swap(th) ==
    /\ pc[th] = "swap" /\ CloudFree
    /\ queue[kind[th]] # <<>>
    /\ batch' = [batch EXCEPT ![th] = queue[kind[th]]]
    /\ queue' = [queue EXCEPT ![kind[th]] = <<>>]
    /\ GoTo(th, "post")
    /\ UNCHANGED << running, reload, packets, upRunning, kind, pushed, stateLock, cloudLock,
                    srvClosed, saved, gone >>

\* post() reports a failed request on stderr only: nothing is kept or retried
Post(th, done) ==
    /\ pc[th] = "post"
    /\ gone' = [gone EXCEPT ![kind[th]] = @ \o batch[th]]
    /\ batch' = [batch EXCEPT ![th] = <<>>]
    /\ AfterFlush(th, done)
    /\ UNCHANGED << running, reload, packets, upRunning, dataVars, stateLock, cloudLock,
                    srvClosed, saved >>

-----------------------------------------------------------------------------
(* The thread of the uploader: run(), send_heartbeat and send_metrics.      *)

UploaderAlone == UNCHANGED << running, reload, packets, upRunning, dataVars, batch, stateLock,
                              srvClosed, saved, gone >>

UploaderTest(at, next) ==
    /\ pc["uploader"] = at
    /\ GoTo("uploader", IF upRunning THEN next ELSE "exited")
    /\ kind' = [kind EXCEPT !["uploader"] = FirstKind]
    /\ UploaderAlone /\ UNCHANGED cloudLock

\* wait_for ends: the batch interval is over, or stop() notified
WaitEnds ==
    /\ pc["uploader"] = "wait" /\ CloudFree
    /\ GoTo("uploader", "test")
    /\ UploaderAlone /\ UNCHANGED << kind, cloudLock >>

\* the heartbeat reads the lengths of the queues under mu_
Heartbeat ==
    /\ pc["uploader"] = "beat"
    /\ CloudFree
    /\ GoTo("uploader", "metrics")
    /\ UploaderAlone /\ UNCHANGED << kind, cloudLock >>

MetricsNotDue ==
    /\ pc["uploader"] = "metrics"
    /\ GoTo("uploader", "loop")
    /\ UploaderAlone /\ UNCHANGED << kind, cloudLock >>

\* send_metrics takes mu_ and calls metrics_fn_, which reads IDS::metrics()
MetricsLock ==
    /\ pc["uploader"] = "metrics" /\ CloudFree
    /\ cloudLock' = "uploader"
    /\ GoTo("uploader", "call")
    /\ UploaderAlone /\ UNCHANGED kind

MetricsCall ==
    /\ pc["uploader"] = "call" /\ StateFree
    /\ ReleaseCloud
    /\ GoTo("uploader", "loop")
    /\ UploaderAlone /\ UNCHANGED kind

UploaderStep ==
    \/ UploaderTest("loop", "wait") \/ WaitEnds \/ UploaderTest("test", "swap")
    \/ SwapEmpty("uploader", "beat") \/ Swap("uploader") \/ Post("uploader", "beat")
    \/ Heartbeat \/ MetricsNotDue \/ MetricsLock \/ MetricsCall

-----------------------------------------------------------------------------
(* The main thread: the capture loop.                                       *)

CaptureOnly == UNCHANGED << running, upRunning, kind, batch, cloudLock, srvClosed, saved, gone >>

LoopTest ==
    /\ pc["main"] = "loop"
    /\ GoTo("main", IF running THEN "recv" ELSE "stop")
    /\ CaptureOnly /\ UNCHANGED << reload, packets, dataVars, stateLock >>

\* recvfrom: a packet, or a timeout and `continue'
RecvTimeout ==
    /\ pc["main"] = "recv"
    /\ GoTo("main", "loop")
    /\ CaptureOnly /\ UNCHANGED << reload, packets, dataVars, stateLock >>

RecvPacket ==
    /\ pc["main"] = "recv" /\ packets < MaxPackets
    /\ packets' = packets + 1
    /\ GoTo("main", "event")
    /\ CaptureOnly /\ UNCHANGED << reload, dataVars, stateLock >>

PushEvent ==
    /\ pc["main"] = "event"
    /\ Push("event")
    /\ GoTo("main", IF config.forwarderOnly THEN "reload" ELSE "ingest")
    /\ CaptureOnly /\ UNCHANGED << reload, packets, stateLock >>

\* IDS::ingest takes state_mu_; the decision engine may call the alert callback
IngestSilent ==
    /\ pc["main"] = "ingest" /\ StateFree
    /\ GoTo("main", "reload")
    /\ CaptureOnly /\ UNCHANGED << reload, packets, dataVars, stateLock >>

IngestRaises ==
    /\ pc["main"] = "ingest" /\ StateFree
    /\ stateLock' = "main"
    /\ GoTo("main", "callback")
    /\ CaptureOnly /\ UNCHANGED << reload, packets, dataVars >>

\* the callback pushes a log or an alert, and ingest returns
Callback(k) ==
    /\ pc["main"] = "callback"
    /\ Push(k)
    /\ stateLock' = Nobody
    /\ GoTo("main", "reload")
    /\ CaptureOnly /\ UNCHANGED << reload, packets >>

\* g_reload.exchange(false), reached only after a packet
ReloadCheck ==
    /\ pc["main"] = "reload"
    /\ reload' = FALSE
    /\ GoTo("main", "loop")
    /\ CaptureOnly /\ UNCHANGED << packets, dataVars, stateLock >>

Capture ==
    \/ LoopTest \/ RecvTimeout \/ PushEvent \/ IngestSilent \/ IngestRaises
    \/ Callback("alert") \/ Callback("log") \/ ReloadCheck

-----------------------------------------------------------------------------
(* The main thread: cloud->stop(), save_all, the destructors.               *)

StopKeepsRunning == UNCHANGED upRunning
StopClearsRunning == upRunning' = FALSE

StopUploader ==
    /\ pc["main"] = "stop"
    /\ StopClearsRunning
    /\ GoTo("main", "join")
    /\ UNCHANGED << running, reload, packets, kind, dataVars, batch, stateLock, cloudLock,
                    srvClosed, saved, gone >>

JoinedAtOnce == TRUE
UploaderJoined == pc["uploader"] = "exited"

JoinUploader ==
    /\ pc["main"] = "join"
    /\ UploaderJoined
    /\ kind' = [kind EXCEPT !["main"] = FirstKind]
    /\ GoTo("main", "swap")
    /\ UNCHANGED << running, reload, packets, upRunning, dataVars, batch, stateLock, cloudLock,
                    srvClosed, saved, gone >>

SaveAll ==
    /\ pc["main"] = "save" /\ StateFree
    /\ saved' = TRUE
    /\ GoTo("main", "close")
    /\ UNCHANGED << running, reload, packets, upRunning, kind, dataVars, batch, stateLock,
                    cloudLock, srvClosed, gone >>

\* ~MetricsServer, before the pipeline it reads is destroyed
CloseServer ==
    /\ pc["main"] = "close"
    /\ srvClosed' = TRUE
    /\ GoTo("main", "unserve")
    /\ UNCHANGED << running, reload, packets, upRunning, kind, dataVars, batch, stateLock,
                    cloudLock, saved, gone >>

ServerJoined == pc["http"] \in {"off", "exited"}

Exit ==
    /\ pc["main"] = "unserve"
    /\ ServerJoined
    /\ GoTo("main", "exit")
    /\ UNCHANGED << running, reload, packets, upRunning, kind, dataVars, batch, stateLock,
                    cloudLock, srvClosed, saved, gone >>

Shutdown ==
    \/ StopUploader \/ JoinUploader
    \/ SwapEmpty("main", "save") \/ Swap("main") \/ Post("main", "save")
    \/ SaveAll \/ CloseServer \/ Exit

-----------------------------------------------------------------------------
(* The metrics server: while (g_running) { accept; recv; answer }.  On Linux *)
(* close() does not wake a thread that is blocked in accept() on the socket. *)

HttpOnly == UNCHANGED << running, reload, packets, upRunning, kind, dataVars, batch, stateLock,
                         cloudLock, srvClosed, saved, gone >>

ServeTest ==
    /\ pc["http"] = "loop"
    /\ GoTo("http", IF running THEN "accept" ELSE "exited")
    /\ HttpOnly

AcceptCall ==
    /\ pc["http"] = "accept"
    /\ GoTo("http", IF srvClosed THEN "exited" ELSE "blocked")
    /\ HttpOnly

\* a health check is answered without the pipeline; the rest reads it under
\* shared locks, one after the other, as one step here
AnswerHealth ==
    /\ pc["http"] = "serve"
    /\ GoTo("http", "loop")
    /\ HttpOnly

AnswerMetrics ==
    /\ pc["http"] = "serve" /\ StateFree
    /\ GoTo("http", "loop")
    /\ HttpOnly

HttpStep == ServeTest \/ AcceptCall \/ AnswerHealth \/ AnswerMetrics

\* the client: it may connect, and may send a request
Connect == pc["http"] = "blocked" /\ GoTo("http", "recv") /\ HttpOnly
Request == pc["http"] = "recv" /\ GoTo("http", "serve") /\ HttpOnly

-----------------------------------------------------------------------------
(* Signals, and the whole daemon.                                           *)

SigTerm ==
    /\ running
    /\ running' = FALSE
    /\ UNCHANGED << reload, packets, upRunning, pc, kind, dataVars, batch, stateLock, cloudLock,
                    srvClosed, saved, gone >>

SigHup ==
    /\ ~reload
    /\ reload' = TRUE
    /\ UNCHANGED << running, packets, upRunning, pc, kind, dataVars, batch, stateLock, cloudLock,
                    srvClosed, saved, gone >>

\* the capture loop is about to start; the uploader and the server run
Init ==
    /\ config \in [forwarderOnly : Forwarding, prometheus : Serving]
    /\ running = TRUE
    /\ reload = FALSE
    /\ packets = 0
    /\ upRunning = TRUE
    /\ pc = [main |-> "loop", uploader |-> "loop", http |-> IF config.prometheus THEN "loop" ELSE "off"]
    /\ kind = [th \in Flushers |-> FirstKind]
    /\ queue = [k \in Kinds |-> <<>>]
    /\ batch = [th \in Flushers |-> <<>>]
    /\ stateLock = Nobody
    /\ cloudLock = Nobody
    /\ srvClosed = FALSE
    /\ saved = FALSE
    /\ pushed = [k \in Kinds |-> 0]
    /\ gone = [k \in Kinds |-> <<>>]

Next ==
    /\ \/ Capture \/ RecvPacket \/ Shutdown
       \/ UploaderStep
       \/ HttpStep \/ Connect \/ Request
       \/ SigTerm \/ SigHup
    /\ UNCHANGED config

Spec == Init /\ [][Next]_<< config, vars >>

(* The three threads are scheduled; recvfrom times out after a second and a  *)
(* request ends after ten.  A thread that waits for a lock which is free     *)
(* again and again gets it at last (strong fairness): metrics are due once a *)
(* minute, and between two packets the pipeline is free.  No fairness of the *)
(* environment: packets, clients and signals may not come.                   *)
Fairness ==
    /\ SF_vars(Capture)
    /\ WF_vars(Shutdown)
    /\ SF_vars(UploaderStep)
    /\ SF_vars(HttpStep)

FairSpec == Spec /\ Fairness

-----------------------------------------------------------------------------
(* Properties.                                                              *)

\* What the threads are posting of a kind.
Posting(k) ==
    LET of(th) == IF kind[th] = k THEN batch[th] ELSE <<>>
    IN  of("uploader") \o of("main")

\* Alerts, logs and events are each posted in the order in which they were
\* pushed, none twice and none skipped, by the uploader's thread and by the
\* final flush of stop(), whenever the signal comes.
UploadedInOrder ==
    \A k \in Kinds : gone[k] \o Posting(k) \o queue[k] = [i \in 1 .. pushed[k] |-> i]

\* Everything a forwarder pushed is posted at last, whether the daemon is stopped
\* or not.
EventuallyPosted ==
    config.forwarderOnly =>
        \A k \in Kinds : \A n \in 1 .. MaxPackets :
            pushed[k] >= n ~> Len(gone[k]) >= n

\* After the signal a forwarder saves its state, and ends unless it serves
\* metrics: the thread that does waits for a client.
ProcessExits ==
    config.forwarderOnly =>
        /\ ~running ~> saved
        /\ ~config.prometheus => (~running ~> pc["main"] = "exit")

\* What a comment of the source says and the code does not do.

\* "SIGINT/SIGTERM - graceful stop + state save": after the signal the state is
\* saved.  It does not hold of a host that examines packets.
GracefulShutdown == ~running ~> saved
=============================================================================

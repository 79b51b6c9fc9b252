------------------------------ MODULE Backend ------------------------------
(***************************************************************************)
(* The device and alert routes of the backend (routers/devices.py,          *)
(* routers/alerts.py) and how the alerts they commit reach the streams.     *)
(*                                                                         *)
(* One user.  Each request runs in a thread and a session of its own: every *)
(* query and every commit is a step, and other requests come in between.    *)
(* The database is external: a commit is atomic, and a new row of an alert  *)
(* needs its device (PostgreSQL, the default; SQLite, the fallback, does    *)
(* not look).                                                               *)
(*                                                                         *)
(* Message i of AlertStream is the alert in row i.                          *)
(***************************************************************************)
EXTENDS AlertStream

CONSTANTS
    Allowed,     \* sensors_allowed of the user's plan
    MaxDevices,  \* bound of the model: devices that are ever created
    Creators,    \* number of requests to add a device there may be at a time
    Calls,       \* the daemons' requests with alerts
    Batch        \* alerts of one request

Devices == 1 .. MaxDevices

ASSUME BackendAssumption ==
    /\ IsFiniteSet(Calls)
    /\ MaxDevices \in Nat
    /\ Creators \in Nat \ {0}
    /\ Allowed \in Nat \ {0}
    /\ Batch \in Nat \ {0}
    /\ Cardinality(Calls) * Batch <= MaxMessages

VARIABLES
    device,     \* device[d]: "unborn", "registered" or "deleted"
    counted,    \* the requests that have counted and not yet inserted
    call,       \* call[k]: [stage, device, announced]
    rows        \* the committed alerts: sequence of [call, device]; device 0: NULL

vars == << streamVars, device, counted, call, rows >>

Registered == {d \in Devices : device[d] = "registered"}
CallStages == {"new", "verified", "committed", "answered", "refused"}
RowsOf(k)  == {i \in DOMAIN rows : rows[i].call = k}

-----------------------------------------------------------------------------
(* devices.py.                                                              *)

\* create_device: _check_device_limit counts, a later statement inserts
CountLoosely ==
    /\ counted < Creators
    /\ Cardinality(Registered) <= Allowed
    /\ \E d \in Devices : device[d] = "unborn"
    /\ counted' = counted + 1
    /\ UNCHANGED << streamVars, device, call, rows >>
CountDevices ==
    /\ counted < Creators
    /\ Cardinality(Registered) < Allowed
    /\ \E d \in Devices : device[d] = "unborn"
    /\ counted' = counted + 1
    /\ UNCHANGED << streamVars, device, call, rows >>
InsertDevice ==
    /\ counted > 0
    /\ \E d \in Devices :
        /\ device[d] = "unborn"
        /\ \A e \in 1 .. d - 1 : device[e] # "unborn"
        /\ device' = [device EXCEPT ![d] = "registered"]
    /\ counted' = counted - 1
    /\ UNCHANGED << streamVars, call, rows >>

\* delete_device.  The repository has two schemas: migrations/001_init.sql sets
\* the device of the alerts to NULL (ON DELETE SET NULL); that of models.py,
\* which create_all makes, refuses while rows name the device, which is no step.
Orphaned(d) ==
    [i \in DOMAIN rows |-> IF rows[i].device = d THEN [rows[i] EXCEPT !.device = 0] ELSE rows[i]]
DeleteDevice(d) ==
    /\ d \in Registered
    /\ device' = [device EXCEPT ![d] = "deleted"]
    /\ rows' = Orphaned(d)
    /\ UNCHANGED << streamVars, counted, call >>

-----------------------------------------------------------------------------
(* alerts.py: ingest_alerts.                                                *)

\* _verify_device, a wrong key left out; _check_usage_limit reads a meter that
\* nothing writes and refuses nobody
Verify(k) ==
    /\ call[k].stage = "new"
    /\ \E d \in Registered :
        call' = [call EXCEPT ![k] = [stage |-> "verified", device |-> d, announced |-> 0]]
    /\ UNCHANGED << streamVars, device, counted, rows >>

\* the rows and the device's heartbeat in one transaction, which fails as a
\* whole when the device is gone
Commit(k) ==
    /\ call[k].stage = "verified"
    /\ IF call[k].device \in Registered
       THEN /\ rows' = rows \o [i \in 1 .. Batch |-> [call |-> k, device |-> call[k].device]]
            /\ call' = [call EXCEPT ![k].stage = "committed", ![k].device = 0]
       ELSE /\ call' = [call EXCEPT ![k].stage = "refused", ![k].device = 0]
            /\ UNCHANGED rows
    /\ UNCHANGED << streamVars, device, counted >>

\* run_coroutine_threadsafe for one alert after the other, then the answer; one
\* that raises is passed over, and without a loop all are
Nth(k, n) == CHOOSE i \in RowsOf(k) : Cardinality({j \in RowsOf(k) : j <= i}) = n
Announce(k) ==
    /\ call[k].stage = "committed"
    /\ scheduled' \in {scheduled, Append(scheduled, Nth(k, call[k].announced + 1))}
    /\ call' = [call EXCEPT ![k].announced = @ + 1,
                            ![k].stage = IF call[k].announced + 1 = Batch THEN "answered" ELSE @]
    /\ UNCHANGED << fan, subs, queue, reader, sent, late, device, counted, rows >>

-----------------------------------------------------------------------------

Init ==
    /\ StreamInit
    /\ device = [d \in Devices |-> "unborn"]
    /\ counted = 0
    /\ call = [k \in Calls |-> [stage |-> "new", device |-> 0, announced |-> 0]]
    /\ rows = <<>>

Next ==
    \/ StreamNext /\ UNCHANGED << device, counted, call, rows >>
    \/ CountDevices \/ InsertDevice
    \/ \E d \in Devices : DeleteDevice(d)
    \/ \E k \in Calls : Verify(k) \/ Commit(k) \/ Announce(k)

Spec == Init /\ [][Next]_vars
FairSpec == Spec /\ StreamFairness

-----------------------------------------------------------------------------
(* Properties.                                                              *)

\* Type correctness of the streams and of the tables; no row names a device that
\* is not there, whichever way the device went while its alerts were on the way.
TypeOK ==
    /\ StreamTypeOK
    /\ device \in [Devices -> {"unborn", "registered", "deleted"}]
    /\ counted \in 0 .. Creators
    /\ \A k \in Calls :
        /\ call[k].stage \in CallStages
        /\ call[k].announced \in 0 .. Batch
        /\ Cardinality(RowsOf(k)) = IF call[k].stage \in {"committed", "answered"} THEN Batch ELSE 0
    /\ \A i \in DOMAIN rows : rows[i].device \in Registered \cup {0}

\* Requests that count at the same time each see room: the plan's limit is
\* exceeded, but by fewer devices than there are requests at a time.
LimitHolds ==
    Cardinality(Registered) + counted < Allowed + Creators

\* A stream shows committed alerts only, and those of one request in their
\* order there, each once, whatever was dropped and skipped on the way.
StreamInOrder ==
    \A c \in Clients : \A i, j \in DOMAIN sent[c] :
        /\ sent[c][i] \in DOMAIN rows
        /\ i < j /\ rows[sent[c][i]].call = rows[sent[c][j]].call => sent[c][i] < sent[c][j]

=============================================================================

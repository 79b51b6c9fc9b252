------------------------------ MODULE EventOnce ------------------------------
(***************************************************************************)
(* The promise of the central runtime about traffic events, as an abstract *)
(* specification: an event that has arrived is claimed once, and a claimed *)
(* event is recorded at most once.  A claimed event may stay so for ever:  *)
(* the runtime loses it when it fails between the two.                     *)
(***************************************************************************)
CONSTANT Events

VARIABLE status   \* of each event: "absent", "new", "claimed" or "recorded"

Init == status = [e \in Events |-> "absent"]

Advance(from, to, S) ==
    /\ \A e \in S : status[e] = from
    /\ status' = [e \in Events |-> IF e \in S THEN to ELSE status[e]]

Arrive(e)  == Advance("absent", "new", {e})
Claim(S)   == Advance("new", "claimed", S)
Record(S)  == Advance("claimed", "recorded", S)

Next ==
    \/ \E e \in Events : Arrive(e)
    \/ \E S \in SUBSET Events : Claim(S) \/ Record(S)

Spec == Init /\ [][Next]_status
=============================================================================

---------------------------- MODULE AudioCustody ----------------------------
(***************************************************************************)
(* What the recorder promises about the words somebody spoke: from the     *)
(* first chunk on, a recording is on the device, or on the server, or on   *)
(* both, until a person gives it up; and it leaves the device only when    *)
(* the server has it.                                                      *)
(***************************************************************************)
CONSTANT Recs

VARIABLE custody

Held == {"device", "both", "server"}

TypeOK == custody \in [Recs -> Held \cup {"none", "dropped"}]

Init == custody = [r \in Recs |-> "none"]

Moves(r, from, to) ==
    /\ custody[r] \in from
    /\ custody' = [custody EXCEPT ![r] = to]

Spoken(r) == Moves(r, {"none"}, "device")
Received(r) == Moves(r, {"device"}, "both")
Released(r) == Moves(r, {"both"}, "server")
GivenUp(r) == Moves(r, {"none"} \cup Held, "dropped")

Next == \E r \in Recs : Spoken(r) \/ Received(r) \/ Released(r) \/ GivenUp(r)

Spec == Init /\ [][Next]_custody
=============================================================================

---------------------------- MODULE Publication ----------------------------
(***************************************************************************)
(* What moderation promises of the measurements database: an import is     *)
(* approved once and for good, and published only from then on.            *)
(* ImportLifecycle implements this.                                        *)
(***************************************************************************)
CONSTANT Imports

VARIABLE phase

Init == phase = [i \in Imports |-> "pending"]

Approve(i) ==
    /\ phase[i] = "pending"
    /\ phase' = [phase EXCEPT ![i] = "approved"]

Publish(i) ==
    /\ phase[i] = "approved"
    /\ phase' = [phase EXCEPT ![i] = "published"]

Next == \E i \in Imports : Approve(i) \/ Publish(i)

Spec == Init /\ [][Next]_phase
=============================================================================

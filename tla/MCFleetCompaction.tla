-------------------------- MODULE MCFleetCompaction -------------------------
(* FleetCompaction on small instances: one run of one task. *)
EXTENDS FleetCompaction

CONSTANTS r1, t1

MCRunOf == t1 :> r1

MCInitialEvents == <<"Leased", "Running">>

Symmetry == Permutations(Workers) \cup Permutations(Clients)
=============================================================================

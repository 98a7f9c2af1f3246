---------------------------- MODULE MCFleetLedger ---------------------------
(***************************************************************************)
(* FleetLedger on small instances: one run of two tasks.                   *)
(***************************************************************************)
EXTENDS FleetLedger, TLC

CONSTANTS r1, t1, t2

MCRunOf == t1 :> r1 @@ t2 :> r1
MCRunOf1 == t1 :> r1

MCInitialEvents == <<"Leased", "Running">>

Symmetry == Permutations(Tasks) \cup Permutations(Workers) \cup Permutations(Clients)
=============================================================================

--------------------------- MODULE MCFleetManager ---------------------------
(***************************************************************************)
(* FleetManager on small instances.                                        *)
(***************************************************************************)
EXTENDS FleetManager, TLC

Symmetry == Permutations(Tasks) \cup Permutations(Workers) \cup Permutations(Managers)
=============================================================================

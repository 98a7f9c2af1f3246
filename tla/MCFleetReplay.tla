---------------------------- MODULE MCFleetReplay ---------------------------
(***************************************************************************)
(* FleetReplay with pages of two events.                                   *)
(***************************************************************************)
EXTENDS FleetReplay
=============================================================================

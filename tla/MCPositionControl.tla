------------------------- MODULE MCPositionControl -------------------------
(***************************************************************************)
(* Instances of PositionControl for TLC.                                   *)
(***************************************************************************)
EXTENDS PositionControl
============================================================================

------------------------------ MODULE MCDoors -------------------------------
(* Doors with its bounds, for TLC.                                         *)
EXTENDS Doors
=============================================================================

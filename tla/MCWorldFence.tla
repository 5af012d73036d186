---------------------------- MODULE MCWorldFence ----------------------------
(* Model values for the runs of WorldFence.                                *)
EXTENDS WorldFence
CONSTANTS j1, j2
TwoJoins == {j1, j2}
=============================================================================

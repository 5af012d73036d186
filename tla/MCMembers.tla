------------------------------ MODULE MCMembers ------------------------------
(* Model values for the run of Members.                                    *)
EXTENDS Members
CONSTANTS j1, j2
TwoJoins == {j1, j2}
=============================================================================

------------------------- MODULE MCCoordinatedLoad -------------------------
(* Model values, the environments of the runs, and symmetry.               *)
EXTENDS CoordinatedLoad
CONSTANTS j1, j2, base, other

TwoJoins == {j1, j2}
OneName == {base}
TwoNames == {base, other}
Crowded == {"crowd"}
UserBusy == {"crowd", "user"}
Bustling == {"crowd", "both", "early"}
JoinSymmetry == Permutations(Joins)
============================================================================

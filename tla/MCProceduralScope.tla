-------------------------- MODULE MCProceduralScope --------------------------
(* Constants of ProceduralScope for the run scope.                         *)
EXTENDS ProceduralScope
CONSTANTS j1, b1
MCJoins == {j1}
MCBeds == {b1}
MCFirstRegions == [p \in {"host", j1} |-> IF p = j1 THEN {1} ELSE {1, 2}]
=============================================================================

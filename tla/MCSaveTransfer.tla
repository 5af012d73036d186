--------------------------- MODULE MCSaveTransfer ---------------------------
(* Instances of SaveTransfer for TLC: a save of two files, one of which    *)
(* takes two chunks.                                                       *)
EXTENDS SaveTransfer

TwoFiles == {1, 2}
Chunks == [f \in TwoFiles |-> IF f = 1 THEN 2 ELSE 1]
=============================================================================

------------------------ MODULE MCInventoryTransfer ------------------------
(* Model values: the host and its joins.                                   *)
EXTENDS InventoryTransfer
CONSTANTS h, j1, j2

Two == {h, j1}
Three == {h, j1, j2}
============================================================================

-------------------------- MODULE MCUpdatePackage --------------------------
(* The core, the UI and one companion the new version leaves unchanged.    *)
EXTENDS UpdatePackage
LastUnchanged == {N}
=============================================================================

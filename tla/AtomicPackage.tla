--------------------------- MODULE AtomicPackage ---------------------------
(***************************************************************************)
(* What the updater promises (Updater.cpp: "all four native-runtime images *)
(* or none"): the installation is a whole version at any time, a session   *)
(* runs the version it found, and an update that a session has run is      *)
(* never taken back.                                                       *)
(***************************************************************************)
VARIABLES
    installed,  \* the version the next session will run
    running,    \* the version of the running session, or "none"
    ran         \* whether a session has run the new version

vars == <<installed, running, ran>>

Init == installed = "old" /\ running = "none" /\ ran = FALSE

Start == /\ running = "none" /\ running' = installed
         /\ ran' = (ran \/ installed = "new")
         /\ UNCHANGED installed

Stop == /\ running # "none" /\ running' = "none"
        /\ UNCHANGED <<installed, ran>>

Update == /\ installed = "old" /\ installed' = "new"
          /\ UNCHANGED <<running, ran>>

\* An update whose installer failed may be undone before anybody ran it.
Undo == /\ installed = "new" /\ ~ran /\ installed' = "old"
        /\ UNCHANGED <<running, ran>>

Next == Start \/ Stop \/ Update \/ Undo
Spec == Init /\ [][Next]_vars
=============================================================================

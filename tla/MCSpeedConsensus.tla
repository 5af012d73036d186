------------------------- MODULE MCSpeedConsensus --------------------------
(* Two joins and two speeds; the game starts at the lower one.             *)
EXTENDS SpeedConsensus

Normal == [mult |-> 1, paused |-> FALSE]
=============================================================================

--------------------------- MODULE SpeedConsensus ---------------------------
(***************************************************************************)
(* One game speed for everybody (syncSpeed, PKT_SPEED_REQ and _SET).       *)
(*                                                                         *)
(* A click on a speed button is a command.  The host takes the commands of *)
(* all players, its own included: the last one wins, after a debounce of   *)
(* 80 ms.  What the host settles on goes to the joins, which follow it and *)
(* echo it in heartbeats.  Every engine follows the settled speed in every *)
(* tick, so that it is what a player sees; the slew of the clock is left   *)
(* out, and the load barrier, which pauses the host without a vote.        *)
(*                                                                         *)
(* The lanes are ordered and lose nothing while a join is connected.       *)
(***************************************************************************)
EXTENDS Integers, SequencesExt

CONSTANTS
    Joins,      \* the seats of the joins
    Mults,      \* the speeds a button asks for
    None,       \* no speed known, no command
    Start,      \* the speed the host's game runs at in the beginning
    MaxClicks,  \* bound: clicks on the speed buttons, heartbeats of the joins
    MaxUpsets,  \* bound: reloads, departures and changes of seat
    MaxEvents,  \* bound: all of these together
    MaxLane     \* bound: settled speeds resent into a lane

Speeds == [mult : Mults, paused : BOOLEAN]

ASSUME SpeedAssumption ==
    /\ IsFiniteSet(Joins) /\ None \notin Speeds /\ Start \in Speeds
    /\ {MaxClicks, MaxUpsets, MaxEvents, MaxLane} \subseteq Nat

VARIABLES
    \* the host
    set,      \* speedEffMult_ and speedEffPaused_
    pend,     \* speedPend*: the command that waits for the debounce
    window,   \* speedDebounceUntilMs_ is still to come
    requests, \* SpeedAdmission::requests_, the newest number of each seat
    \* the joins
    here,     \* the seat is taken by a join whose world is live
    eff,      \* its speedEffMult_ and speedEffPaused_
    seqOut,   \* its speedSeqOut_; of an empty seat, of who left it
    up,       \* its requests on their way, with the host's Inbound queue
    down,     \* settled speeds on their way, with its Inbound queue
    \* history and bounds
    last,     \* the last command the host took
    crossed,  \* it asked for the speed in force while another one waited
    renewed,  \* seats whose old numbers outrun the process that took them
    clicks, upsets

hostVars == <<set, pend, window, requests>>
joinVars == <<here, eff, seqOut, up, down>>
history  == <<last, crossed, renewed>>
bounds   == <<clicks, upsets>>
vars == <<hostVars, joinVars, history, bounds>>

Levels  == [kind : {"level"}, mult : Mults]
Buttons == Levels \cup [kind : {"pause", "unpause"}]

Init ==
    /\ set = Start /\ pend = None /\ window = FALSE
    /\ requests = [j \in Joins |-> 0]
    /\ here = [j \in Joins |-> TRUE] /\ eff = [j \in Joins |-> None]
    /\ seqOut = [j \in Joins |-> 1]
    /\ up = [j \in Joins |-> <<>>] /\ down = [j \in Joins |-> <<>>]
    /\ last = set /\ crossed = FALSE /\ renewed = {}
    /\ clicks = 0 /\ upsets = 0

Press(pressed) ==
    IF pressed THEN /\ clicks < MaxClicks /\ clicks + upsets < MaxEvents
                    /\ clicks' = clicks + 1
               ELSE UNCHANGED clicks

-----------------------------------------------------------------------------
(* A join.                                                                 *)

(* What a button asks for.  A pause keeps the speed; space resumes at the  *)
(* speed the engine has or the one that has just arrived.                  *)
Asked(button, before, after) ==
    IF button \in Levels THEN {[mult |-> button.mult, paused |-> FALSE]}
    ELSE LET known == {s.mult : s \in {before, after} \ {None}}
             held  == CASE button.kind = "pause" /\ after # None -> {after.mult}
                        [] button.kind = "unpause" /\ known # {} -> known
                        [] OTHER -> Mults
         IN {[mult |-> m, paused |-> button.kind = "pause"] : m \in held}

Request(j, command, speed) ==
    /\ up' = [up EXCEPT ![j] = Append(@, [seq |-> seqOut[j], cmd |-> command,
                                          speed |-> speed])]
    /\ seqOut' = [seqOut EXCEPT ![j] = @ + 1]

(* syncSpeed on a join: the newest of n settled speeds is adopted, a click *)
(* is sent as a command and a heartbeat as an echo of what is adopted.     *)
JoinTick(j, button, n, beat) ==
    /\ here[j] /\ n <= Len(down[j]) /\ Press(button # None \/ beat)
    /\ LET adopted == IF n > 0 THEN down[j][n] ELSE eff[j]
       IN /\ eff' = [eff EXCEPT ![j] = adopted]
          /\ down' = [down EXCEPT ![j] = SubSeq(@, n + 1, Len(@))]
          /\ \/ /\ button # None /\ ~beat
                /\ \E s \in Asked(button, eff[j], adopted) : Request(j, TRUE, s)
             \/ /\ button = None /\ beat /\ adopted # None
                /\ Request(j, FALSE, adopted)
             \/ button = None /\ ~beat /\ UNCHANGED <<up, seqOut>>
    /\ UNCHANGED <<hostVars, here, history, upsets>>

-----------------------------------------------------------------------------
(* The host.                                                               *)

(* SpeedAdmission::accept on the host.                                     *)
IsCommand(p, seen) == p.seq > seen /\ p.cmd

Seen(j, n) == IF n = 0 \/ up[j][n].seq <= requests[j] THEN requests[j] ELSE up[j][n].seq

(* The last command among the first n requests of a join, if there is one. *)
Voted(j, n) ==
    LET votes == {i \in 1 .. n : IsCommand(up[j][i], requests[j])}
    IN {up[j][i].speed : i \in {i \in votes : \A k \in votes : k <= i}}

(* A pause of another player keeps the host's speed.                       *)
Taken(speed) == IF speed.paused THEN [set EXCEPT !.paused = TRUE] ELSE speed

(* The host drains n requests of every join, in any order: the last of the *)
(* commands wins, and its own click loses to any of them.                  *)
Winners(button, n) ==
    LET voted == UNION {Voted(j, n[j]) : j \in Joins}
    IN IF voted # {} THEN {Taken(s) : s \in voted}
       ELSE IF button # None THEN Asked(button, set, set) ELSE {None}

(* Fault: a command that is put into force leaves the waiting one behind.  *)
WaitingKept(cmd, acts, fires) ==
    IF cmd # None /\ cmd # set /\ window THEN cmd ELSE IF fires THEN None ELSE pend

(* The command that waits when the tick is over.                           *)
Waiting(cmd, acts, fires) ==
    IF cmd # None /\ cmd # set /\ window THEN cmd
    ELSE IF acts \/ fires THEN None ELSE pend

(* Fault: a speed that did not change is not sent again.                   *)
SendsOnChange(acts, fires, due) == acts \/ (fires /\ pend # set)

(* commitSpeedSet: put into force and broadcast, the safety resend too.    *)
Sends(acts, fires, due) == acts \/ (fires /\ pend # set) \/ due

(* syncSpeed on the host.                                                  *)
HostTick(button, n, due) ==
    /\ Press(button # None)
    /\ \A j \in Joins : n[j] <= Len(up[j])
    /\ \E cmd \in Winners(button, n) :
         LET acts  == cmd # None /\ cmd # set /\ ~window
             fires == pend # None /\ ~window /\ ~acts
         IN /\ due => /\ ~acts /\ ~(fires /\ pend # set)
                      /\ \A j \in Joins : Len(down[j]) < MaxLane
            /\ set' = IF acts THEN cmd ELSE IF fires THEN pend ELSE set
            /\ pend' = Waiting(cmd, acts, fires)
            /\ window' = (window \/ acts \/ (fires /\ pend # set))
            /\ down' = IF Sends(acts, fires, due)
                       THEN [j \in Joins |-> IF here[j] THEN Append(down[j], set')
                                             ELSE down[j]]
                       ELSE down
            /\ last' = IF cmd # None THEN cmd ELSE last
            /\ crossed' = IF cmd # None THEN cmd = set /\ pend # None ELSE crossed
    /\ requests' = [j \in Joins |-> Seen(j, n[j])]
    /\ up' = [j \in Joins |-> SubSeq(up[j], n[j] + 1, Len(up[j]))]
    /\ UNCHANGED <<here, eff, seqOut, renewed, upsets>>

DebounceEnds ==
    /\ window /\ window' = FALSE
    /\ UNCHANGED <<set, pend, requests, joinVars, history, bounds>>

-----------------------------------------------------------------------------
(* The session.                                                            *)
Upset ==
    /\ upsets < MaxUpsets /\ clicks + upsets < MaxEvents
    /\ upsets' = upsets + 1

(* Fault: the counter starts again with the world.                         *)
CounterRestarted(seq) == 1

(* resetSession on a join keeps the outbound counter.                      *)
CounterKept(seq) == seq

(* resetSession on the host, and the seed of its next tick: the speed that *)
(* is in force, or the one of the loaded save.                             *)
HostReset(speed) ==
    /\ set' = speed /\ pend' = None /\ window' = FALSE
    /\ requests' = [j \in Joins |-> 0]
    /\ last' = speed /\ crossed' = FALSE /\ renewed' = {}

(* The host loads a save, and every join after it: what was under way in   *)
(* the old world is fenced off.  Under the load barrier the vote is kept.  *)
HostReload ==
    /\ Upset
    /\ \E s \in Speeds : HostReset(s)
    /\ eff' = [j \in Joins |-> None]
    /\ seqOut' = [j \in Joins |-> CounterKept(seqOut[j])]
    /\ up' = [j \in Joins |-> <<>>] /\ down' = [j \in Joins |-> <<>>]
    /\ UNCHANGED <<here, clicks>>

(* A connect-push takes a join into another world; what it sent last, and  *)
(* what was sent to it, may be lost.                                       *)
JoinReload(j) ==
    /\ here[j] /\ Upset
    /\ eff' = [eff EXCEPT ![j] = None]
    /\ seqOut' = [seqOut EXCEPT ![j] = CounterKept(@)]
    /\ \E k \in 0 .. Len(up[j]) : up' = [up EXCEPT ![j] = SubSeq(@, 1, k)]
    /\ down' = [down EXCEPT ![j] = <<>>]
    /\ UNCHANGED <<hostVars, here, history, clicks>>

(* A join leaves with what it has sent (flushOwnerWorld).  The numbers of  *)
(* its seat stay, unless nobody remains (clearPeerReplicationState).       *)
Leave(j) ==
    /\ here[j] /\ Upset
    /\ here' = [here EXCEPT ![j] = FALSE]
    /\ eff' = [eff EXCEPT ![j] = None]
    /\ up' = [up EXCEPT ![j] = <<>>] /\ down' = [down EXCEPT ![j] = <<>>]
    /\ IF \E i \in Joins \ {j} : here[i] THEN UNCHANGED <<hostVars, history>>
       ELSE HostReset(set)
    /\ UNCHANGED <<seqOut, clicks>>

(* Seats that change hands: renewed when the numbers on record are newer.  *)
Outrun(seats) == (renewed \ seats) \cup {i \in seats : seqOut'[i] <= requests[i]}

(* The seat is taken again, by the same process or by one that counts its  *)
(* requests from one.                                                      *)
Connect(j) ==
    /\ ~here[j] /\ here' = [here EXCEPT ![j] = TRUE]
    /\ \/ UNCHANGED <<seqOut, renewed>>
       \/ seqOut' = [seqOut EXCEPT ![j] = 1] /\ renewed' = Outrun({j})
    /\ UNCHANGED <<hostVars, eff, up, down, last, crossed, bounds>>

(* The player of seat i, who is away or whose old connection the host has  *)
(* yet to retire, is given the free seat j, and his process goes on        *)
(* counting where it was.                                                  *)
Reseat(i, j) ==
    /\ i # j /\ ~here[j] /\ Upset
    /\ here' = [here EXCEPT ![i] = FALSE, ![j] = TRUE]
    /\ eff' = [eff EXCEPT ![i] = None]
    /\ up' = [up EXCEPT ![i] = <<>>] /\ down' = [down EXCEPT ![i] = <<>>]
    /\ seqOut' = [seqOut EXCEPT ![j] = seqOut[i], ![i] = seqOut[j]]
    /\ renewed' = Outrun({i, j})
    /\ UNCHANGED <<hostVars, last, crossed, clicks>>

-----------------------------------------------------------------------------
Batches == {n \in [Joins -> 0 .. MaxClicks] :
              \A j \in Joins : n[j] <= Len(up[j])}

Host == \/ \E b \in Buttons \cup {None}, n \in Batches, due \in BOOLEAN :
             HostTick(b, n, due)
        \/ DebounceEnds
Join(j) == \E b \in Buttons \cup {None}, n \in 0 .. Len(down[j]), beat \in BOOLEAN :
             JoinTick(j, b, n, beat)
Session ==
    \/ HostReload
    \/ \E j \in Joins : JoinReload(j) \/ Leave(j) \/ Connect(j)
    \/ \E i, j \in Joins : Reseat(i, j)
Next == Host \/ Session \/ \E j \in Joins : Join(j)

Spec == Init /\ [][Next]_vars

(* The game loops run and drain their queues, the debounce ends, and the   *)
(* safety resend keeps coming due.                                         *)
Drained == [j \in Joins |-> Len(up[j])]
FairSpec ==
    /\ Spec
    /\ WF_vars(HostTick(None, Drained, FALSE)) /\ WF_vars(DebounceEnds)
    /\ SF_vars(HostTick(None, Drained, TRUE))
    /\ \A j \in Joins : WF_vars(JoinTick(j, None, Len(down[j]), FALSE))

-----------------------------------------------------------------------------
Known == Speeds \cup {None}
Requests == [seq : Nat \ {0}, cmd : BOOLEAN, speed : Speeds]

HostTypes ==
    /\ set \in Speeds /\ pend \in Known /\ window \in BOOLEAN
    /\ requests \in [Joins -> Nat]

JoinTypes ==
    /\ here \in [Joins -> BOOLEAN] /\ eff \in [Joins -> Known]
    /\ seqOut \in [Joins -> Nat \ {0}]
    /\ up \in [Joins -> Seq(Requests)] /\ down \in [Joins -> Seq(Speeds)]

HistoryTypes ==
    /\ last \in Speeds /\ crossed \in BOOLEAN /\ renewed \subseteq Joins
    /\ clicks \in 0 .. MaxClicks
    /\ upsets \in 0 .. MaxUpsets

TypeOK == HostTypes /\ JoinTypes /\ HistoryTypes

(* Replicator.h: "every OUTBOUND sequence counter" survives a reload, so   *)
(* that a peer that did not reload takes nothing new for something old.    *)
(* No request of a join is dropped, whatever worlds the join and the host  *)
(* have loaded since; only a process that takes an old seat with a lower   *)
(* number is not heard, as SpeedAdmission does not retire the numbers of   *)
(* the seat.                                                               *)
Heard ==
    \A j \in Joins \ renewed : \A i \in 1 .. Len(up[j]) : up[j][i].seq > requests[j]

(* syncSpeed: "Last processed this tick wins".  What is in force, or waits *)
(* for the debounce, is the last command the host took, and no heartbeat   *)
(* that echoes an older speed.  The code has one exception: a command for  *)
(* the speed in force does not clear the one that waits, which comes into  *)
(* force later although it is older.                                       *)
LastWins == ~crossed => (IF pend # None THEN pend ELSE set) = last

(* Whatever clicks, echoes, reloads and departures cross: when nobody      *)
(* clicks any more, everybody comes to run at the speed of the last        *)
(* command, also a join that was not there when it was settled.            *)
Agree ==
    /\ ~crossed => set = last
    /\ \A j \in Joins : here[j] => eff[j] = set
Converges == <>[]Agree
=============================================================================

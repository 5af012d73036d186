------------------------------- MODULE Doors --------------------------------
(***************************************************************************)
(* One door in everybody's world (PKT_DOOR, protocol 28).                  *)
(*                                                                         *)
(* The host's door is the truth: the host samples it and sends a row when  *)
(* it moved, or when somebody asked or connected.  A join applies the row  *)
(* to its own copy, and turns an opening or closing it did not apply       *)
(* itself into a request.  Doors share nothing but the counter of the      *)
(* sender, so one door stands for all: a gap in the numbers is accepted.   *)
(*                                                                         *)
(* The lanes are ordered and lose nothing while a join is connected, so    *)
(* that a row of the host always carries a newer number than the last.  A  *)
(* world reload clears all of this on both sides and is in WorldFence.     *)
(***************************************************************************)
EXTENDS Integers, SequencesExt

CONSTANTS
    Seats,       \* the seats of the joins
    MaxMoves,    \* bound: doors moved by hand, by an NPC or by a reload
    MaxAbsences  \* bound: the door streamed out of a world, joins that leave

ASSUME DoorAssumption ==
    /\ IsFiniteSet(Seats) /\ MaxMoves \in Nat /\ MaxAbsences \in Nat

VARIABLES
    \* the host
    door,      \* its door
    row,       \* its doorRows_ entry
    peers,     \* g_peerCount
    conns, leaves, \* Inbound: how often each seat was taken and left
    \* the joins
    here,      \* the seat is taken by a join in the session
    copy,      \* its door
    jrow,      \* its doorRows_ entry
    jseqOut,   \* its doorSeqOut_
    rows,      \* what is on its way to it, with its Inbound queue at the end
    ask,       \* its requests on their way, with the host's Inbound queue
    \* history and bounds
    touched,   \* its door moved since a row or a request settled it
    unheard,   \* seats whose last request was dropped, until the next row
    moves, streams, left

hostVars == <<door, row, peers, conns, leaves>>
joinVars == <<here, copy, jrow, jseqOut, rows, ask>>
history  == <<touched, unheard>>
bounds   == <<moves, streams, left>>
doorVars == <<hostVars, joinVars, history, bounds>>

States   == [open : BOOLEAN, locked : BOOLEAN]
Shut     == [open |-> FALSE, locked |-> FALSE]
Closed   == [loaded |-> TRUE, is |-> Shut]
FreshRow == [seeded |-> FALSE, known |-> Shut, due |-> TRUE,
             seen |-> [j \in Seats |-> 0]]
FreshJoinRow == [seeded |-> FALSE, pending |-> FALSE, known |-> Shut,
                 observed |-> FALSE]

(* Everybody has connected since the host's last tick.                     *)
DoorInit ==
    /\ \E d \in States : door = [loaded |-> TRUE, is |-> d]
    /\ row = FreshRow /\ peers = 0
    /\ conns = [j \in Seats |-> 1] /\ leaves = [j \in Seats |-> 0]
    /\ here = [j \in Seats |-> TRUE] /\ copy = [j \in Seats |-> door]
    /\ jrow = [j \in Seats |-> FreshJoinRow]
    /\ jseqOut = [j \in Seats |-> 1]
    /\ rows = [j \in Seats |-> <<>>] /\ ask = [j \in Seats |-> <<>>]
    /\ touched = [j \in Seats |-> FALSE] /\ unheard = {}
    /\ moves = 0 /\ streams = 0 /\ left = 0

-----------------------------------------------------------------------------
(* The worlds.  A player or an NPC moves the door of the world it is in    *)
(* (locks count only with the host); a join's door that was streamed out   *)
(* comes back as its save has it.                                          *)
HostMoves ==
    /\ door.loaded /\ moves < MaxMoves /\ moves' = moves + 1
    /\ \E d \in States \ {door.is} : door' = [door EXCEPT !.is = d]
    /\ UNCHANGED <<row, peers, conns, leaves, joinVars, history,
                   streams, left>>

JoinMoves(j) ==
    /\ here[j] /\ copy[j].loaded /\ moves < MaxMoves /\ moves' = moves + 1
    /\ copy' = [copy EXCEPT ![j].is.open = ~@]
    /\ touched' = [touched EXCEPT ![j] = TRUE]
    /\ UNCHANGED <<hostVars, here, jrow, jseqOut, rows, ask, unheard, streams,
                   left>>

HostStreams ==
    /\ door' = [door EXCEPT !.loaded = ~@]
    /\ IF door.loaded THEN streams + left < MaxAbsences /\ streams' = streams + 1
                      ELSE UNCHANGED streams
    /\ UNCHANGED <<row, peers, conns, leaves, joinVars, history,
                   moves, left>>

JoinStreams(j) ==
    /\ here[j]
    /\ IF copy[j].loaded
       THEN /\ streams + left < MaxAbsences /\ streams' = streams + 1
            /\ copy' = [copy EXCEPT ![j].loaded = FALSE]
            /\ UNCHANGED touched
       ELSE \E d \in States :
            /\ copy' = [copy EXCEPT ![j] = [loaded |-> TRUE, is |-> d]]
            /\ touched' = [touched EXCEPT ![j] = @ \/ d.open # copy[j].is.open]
            /\ UNCHANGED streams
    /\ UNCHANGED <<hostVars, here, jrow, jseqOut, rows, ask, unheard, moves,
                   left>>

-----------------------------------------------------------------------------
(* The session.  A join that was here before keeps its counter unless its  *)
(* process is a new one; its rows are gone either way.  Its copy is what   *)
(* the host has baked for it.                                              *)
Connect(j) ==
    /\ ~here[j] /\ here' = [here EXCEPT ![j] = TRUE]
    /\ copy' = [copy EXCEPT ![j] = [loaded |-> TRUE, is |-> door.is]]
    /\ jseqOut' \in {jseqOut, [jseqOut EXCEPT ![j] = 1]}
    /\ conns' = [conns EXCEPT ![j] = @ + 1]
    /\ UNCHANGED <<door, row, peers, leaves, jrow, rows, ask, touched,
                   unheard, bounds>>

(* A join leaves: its connection is retired, with the requests that wait   *)
(* for the host's game thread (flushOwnerWorld).                           *)
Leave(j) ==
    /\ here[j] /\ streams + left < MaxAbsences /\ left' = left + 1
    /\ here' = [here EXCEPT ![j] = FALSE]
    /\ copy' = [copy EXCEPT ![j] = Closed]
    /\ jrow' = [jrow EXCEPT ![j] = FreshJoinRow]
    /\ rows' = [rows EXCEPT ![j] = <<>>]
    /\ ask' = [ask EXCEPT ![j] = <<>>]
    /\ touched' = [touched EXCEPT ![j] = FALSE] /\ unheard' = unheard \ {j}
    /\ leaves' = [leaves EXCEPT ![j] = @ + 1]
    /\ UNCHANGED <<door, row, peers, conns, jseqOut, moves, streams>>

-----------------------------------------------------------------------------
(* The host.                                                               *)

(* Fault: the numbers of the player who left stay behind.                  *)
KeptGuards(seen) == seen

(* onPeerDisconnected: doorRetirePeerSequences.                            *)
RetiredGuards(seen) ==
    [j \in Seats |-> IF leaves[j] > 0 THEN 0 ELSE seen[j]]

(* processNetEvents takes all connects first, then all leaves: who connects *)
(* makes every row due, who leaves has its numbers forgotten.  When nobody *)
(* is left the rows and the queues are cleared.                            *)
None == [j \in Seats |-> 0]

Total(count) == FoldFunction(+, 0, count)

HostEvents ==
    /\ conns # None \/ leaves # None
    /\ conns' = None /\ leaves' = None
    /\ peers' = peers + Total(conns) - Total(leaves)
    /\ IF leaves # None /\ peers' = 0
       THEN row' = FreshRow /\ ask' = [j \in Seats |-> <<>>]
       ELSE /\ row' = [row EXCEPT !.due = @ \/ conns # None,
                                  !.seen = RetiredGuards(@)]
            /\ UNCHANGED ask
    /\ UNCHANGED <<door, here, copy, jrow, jseqOut, rows, history, bounds>>

(* publishDoors on the host: a row for everybody who is connected.         *)
HostPublish ==
    /\ door.loaded
    /\ ~row.seeded \/ row.known # door.is \/ row.due
    /\ row' = [row EXCEPT !.seeded = TRUE, !.known = door.is, !.due = FALSE]
    /\ rows' = [j \in Seats |->
                  IF here[j] THEN Append(rows[j], door.is) ELSE rows[j]]
    /\ unheard' = {}
    /\ UNCHANGED <<door, peers, conns, leaves, here, copy, jrow, jseqOut,
                   ask, touched, bounds>>

(* Fault: a request for a locked door gets no answer.                      *)
SilentRefusal(open) == FALSE

(* The state of the door is the answer, also when it stays as it was.      *)
Answered(open) == TRUE

(* applyDoors on the host, one request at a time: those of the queue are   *)
(* taken after the events of the tick.                                     *)
HostApply(j) ==
    /\ conns = None /\ leaves = None /\ ask[j] # <<>>
    /\ ask' = [ask EXCEPT ![j] = Tail(@)]
    /\ LET m == Head(ask[j])
           new == row.seen[j] = 0 \/ m.seq > row.seen[j]
           known == new /\ row.seeded /\ door.loaded
           refused == m.open /\ door.is.locked
       IN /\ row' = IF new
                    THEN [row EXCEPT !.seen[j] = m.seq,
                                     !.due = @ \/ (known /\ (~refused \/ Answered(m.open)))]
                    ELSE row
          /\ door' = IF known /\ ~refused THEN [door EXCEPT !.is.open = m.open]
                                          ELSE door
          /\ unheard' = IF known THEN unheard ELSE unheard \cup {j}
    /\ UNCHANGED <<peers, conns, leaves, here, copy, jrow, jseqOut, rows, touched,
                   bounds>>

-----------------------------------------------------------------------------
(* A join.                                                                 *)

(* publishDoors on a join: a door that is not as it was last seen is a     *)
(* click, and a request.                                                   *)
JoinPublish(j) ==
    /\ here[j] /\ copy[j].loaded /\ jrow[j].seeded /\ ~jrow[j].pending
    /\ copy[j].is.open # jrow[j].observed
    /\ jrow' = [jrow EXCEPT ![j].observed = copy[j].is.open]
    /\ jseqOut' = [jseqOut EXCEPT ![j] = @ + 1]
    /\ ask' = [ask EXCEPT ![j] = Append(@, [seq |-> jseqOut[j],
                                           open |-> copy[j].is.open])]
    /\ touched' = [touched EXCEPT ![j] = FALSE]
    /\ UNCHANGED <<hostVars, here, copy, rows, unheard, bounds>>

(* Fault: what the row did to the door is not remembered.                  *)
EchoedSettled(r, world) == [r EXCEPT !.pending = FALSE]

(* The row is applied: the door is as last seen.                           *)
Settled(r, world) ==
    IF r.pending THEN [r EXCEPT !.pending = FALSE, !.observed = r.known.open] ELSE r

(* applyDoors on a join: the newest row of the queue counts, and is kept   *)
(* until the door is there to be moved.  The lock follows the row for as   *)
(* long as the session lasts.                                              *)
JoinApply(j) ==
    /\ here[j]
    /\ \E k \in 0 .. Len(rows[j]) :
         LET r == IF k = 0 THEN jrow[j]
                  ELSE [jrow[j] EXCEPT !.seeded = TRUE, !.pending = TRUE,
                                       !.known = rows[j][k]]
         IN /\ rows' = [rows EXCEPT ![j] = SubSeq(@, k + 1, Len(@))]
            /\ IF copy[j].loaded /\ r.seeded
               THEN /\ jrow' = [jrow EXCEPT ![j] = Settled(r, copy[j].is)]
                    /\ copy' = [copy EXCEPT ![j].is =
                                  [open |-> IF r.pending THEN r.known.open ELSE @.open,
                                   locked |-> r.known.locked]]
                    /\ touched' = [touched EXCEPT ![j] = @ /\ ~r.pending]
               ELSE /\ jrow' = [jrow EXCEPT ![j] = r]
                    /\ UNCHANGED <<copy, touched>>
    /\ UNCHANGED <<hostVars, here, jseqOut, ask, unheard, bounds>>

-----------------------------------------------------------------------------
World   == HostMoves \/ HostStreams \/ \E j \in Seats : JoinMoves(j) \/ JoinStreams(j)
Session == \E j \in Seats : Connect(j) \/ Leave(j)
HostTick == HostEvents \/ HostPublish \/ \E j \in Seats : HostApply(j)
JoinTick(j) == JoinPublish(j) \/ JoinApply(j)
DoorNext == World \/ Session \/ HostTick \/ \E j \in Seats : JoinTick(j)

DoorSpec == DoorInit /\ [][DoorNext]_doorVars

(* The game loops run, the lanes deliver, and a door that was streamed out *)
(* comes back when somebody is near it again.                              *)
FairDoorSpec ==
    /\ DoorSpec
    /\ WF_doorVars(HostEvents) /\ WF_doorVars(HostPublish)
    /\ WF_doorVars(~door.loaded /\ HostStreams)
    /\ \A j \in Seats :
         /\ WF_doorVars(HostApply(j)) /\ WF_doorVars(JoinPublish(j))
         /\ WF_doorVars(JoinApply(j) /\ rows'[j] = <<>>)
         /\ WF_doorVars(~copy[j].loaded /\ JoinStreams(j))

-----------------------------------------------------------------------------
Requests == [seq : Nat \ {0}, open : BOOLEAN]
Doors_   == [loaded : BOOLEAN, is : States]

HostTypes ==
    /\ door \in Doors_
    /\ row \in [seeded : BOOLEAN, known : States, due : BOOLEAN,
                seen : [Seats -> Nat]]
    /\ conns \in [Seats -> Nat] /\ leaves \in [Seats -> Nat]

JoinTypes ==
    /\ here \in [Seats -> BOOLEAN] /\ copy \in [Seats -> Doors_]
    /\ jrow \in [Seats -> [seeded : BOOLEAN, pending : BOOLEAN, known : States,
                           observed : BOOLEAN]]
    /\ jseqOut \in [Seats -> Nat \ {0}]
    /\ rows \in [Seats -> Seq(States)] /\ ask \in [Seats -> Seq(Requests)]

HistoryTypes ==
    /\ touched \in [Seats -> BOOLEAN] /\ unheard \subseteq Seats
    /\ moves \in 0 .. MaxMoves /\ streams \in Nat /\ left \in Nat
    /\ streams + left <= MaxAbsences

(* processNetEvents: the peers counted, with the events to come, are those *)
(* who are here.                                                           *)
PeersCounted ==
    peers + Total(conns) - Total(leaves) = Cardinality({j \in Seats : here[j]})

DoorTypes == HostTypes /\ JoinTypes /\ HistoryTypes /\ PeersCounted

(* publishDoors, "Preserve local OPEN clicks as requests": a join asks for *)
(* nothing but what moved in its own world.  A row it applied, late or     *)
(* after the door was streamed in, never comes back to the host as a       *)
(* request of its own.                                                     *)
NoEcho == [][\A j \in Seats : Len(ask'[j]) > Len(ask[j]) => touched[j]]_doorVars

(* However clicks, rows and requests of several joins cross, and whatever  *)
(* doors are streamed out and back from an older save: when nothing moves  *)
(* any more, every copy comes to be as the host's door, locked or not.     *)
(* The copy of a join whose request was dropped waits for the next row.    *)
Agree ==
    \A j \in Seats :
        here[j] /\ copy[j].loaded /\ j \notin unheard => copy[j].is = door.is
Converges == <>[]Agree

(* LockAuthority.h: a departed join's seat may be taken again, by a process *)
(* that counts its requests from one or by the same one, while other peers *)
(* remain.  No request is ever taken for one the host has already had.     *)
SlotReusable ==
    \A j \in Seats :
        conns = None /\ leaves = None /\ ask[j] # <<>>
            => Head(ask[j]).seq > row.seen[j]
=============================================================================

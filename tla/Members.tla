-------------------------------- MODULE Members --------------------------------
(***************************************************************************)
(* Who is in the session: NetLink's handshake, the seats and the roster.   *)
(*                                                                         *)
(* Every attempt of a join's to connect draws a fresh incarnation, which   *)
(* also names the connection here.  HELLO gets it the lowest free seat,    *)
(* WELCOME tells it, and SESSION_ACK admits it; from then on its gameplay  *)
(* frames are relayed to the others under its seat.  A seat is used again  *)
(* as soon as its peer is retired, so a frame names its author's           *)
(* incarnation as well, and the roster tells every join which incarnation  *)
(* holds which seat.  Both sides may learn of a dead connection much later *)
(* than it dies: a join may be back while the host still has its old peer. *)
(*                                                                         *)
(* A gameplay frame goes over GAME_RELIABLE or over GAME_STATE, which      *)
(* loses and reorders.  The roster is a session control: it passes the     *)
(* frames that wait on GAME_RELIABLE for the recipient's READY.  Loads and *)
(* READY themselves are the module WorldFence; here a recipient is ready   *)
(* from some moment on.  A join's LEAVE also empties its world queues, but *)
(* only when its game thread drains it, which may be after the worker is   *)
(* back in the session; whatever else the game thread makes of the connect *)
(* and leave edges is part of CoordinatedLoad.                             *)
(***************************************************************************)
EXTENDS Integers, Sequences, FiniteSets

CONSTANTS
    Joins,       \* the processes of the joining players
    MaxJoins,    \* MAX_JOINS, the seats beside the host's
    MaxAttempts, \* bound: attempts to connect
    MaxCuts,     \* bound: times connections die, and early PINGs
    MaxFrames    \* bound: gameplay frames captured

ASSUME MembersAssumption ==
    /\ Joins # {}
    /\ MaxJoins \in Nat \ {0} /\ MaxAttempts \in Nat
    /\ MaxCuts \in Nat /\ MaxFrames \in Nat

VARIABLES
    \* the host
    peers,      \* peers_, for every attempt
    owner,      \* ownerIncarnation_ of each seat, 0 for none
    members,    \* the member mask
    lastRoster, \* lastRoster, NoRoster while rosterChanged
    inbound,    \* Inbound's world queues
    \* the network
    wire,       \* the connections that are up
    up, down,   \* GAME_RELIABLE of each, down with pending_ before it
    fastUp, fastDown, \* GAME_STATE of each
    \* the joins
    joins,
    \* history and bounds
    refused,    \* types of the messages taken for protocol violations
    attempts, cuts, frames

host == <<peers, owner, members, lastRoster, inbound>>
net == <<wire, up, down, fastUp, fastDown>>
bounds == <<attempts, cuts, frames>>
vars == <<host, net, joins, refused, bounds>>

Seats == 1 .. MaxJoins
Attempts == 1 .. MaxAttempts
NoRoster == [members |-> {0}, owner |-> [i \in Seats |-> 0]]

(* No peer, one that has connected, said HELLO, or been admitted.          *)
NoPeer == [at |-> "none", seat |-> 0, ready |-> FALSE, closed |-> FALSE]

(* A join's NetLink between two attempts.                                  *)
NewJoin ==
    [at |-> "idle",     \* then "hello" until WELCOME, then "in"
     inc |-> 0,         \* incarnation_
     seat |-> 0,        \* myId_
     owner |-> [i \in Seats |-> 0],  \* ownerIncarnation_
     members |-> {},    \* the member mask
     inbound |-> {},    \* Inbound's world queues
     left |-> FALSE]    \* LEAVE(OWNER_ID_ALL) waits for the game thread

Init ==
    /\ peers = [c \in Attempts |-> NoPeer]
    /\ owner = [i \in Seats |-> 0] /\ members = {} /\ lastRoster = NoRoster
    /\ inbound = {} /\ wire = {}
    /\ up = [c \in Attempts |-> <<>>] /\ down = [c \in Attempts |-> <<>>]
    /\ fastUp = [c \in Attempts |-> {}] /\ fastDown = [c \in Attempts |-> {}]
    /\ joins = [j \in Joins |-> NewJoin]
    /\ refused = {} /\ attempts = 0 /\ cuts = 0 /\ frames = 0

-----------------------------------------------------------------------------
Present == {c \in Attempts : peers[c].at # "none"}
Admitted == {c \in Attempts : peers[c].at = "admitted"}

(* sendNative to a closed connection sends nothing.                        *)
Put(q, c, m) == IF c \in wire THEN Append(q, m) ELSE q

(* Fault: peers that have yet to be admitted get what is broadcast, too.   *)
BroadcastToAll(to, m) ==
    down' = [c \in Attempts |-> IF c \in to \cup Present THEN Put(down[c], c, m)
                                ELSE down[c]]

(* broadcastNative on GAME_RELIABLE: only admitted peers get anything.     *)
Broadcast(to, m) ==
    down' = [c \in Attempts |-> IF c \in to THEN Put(down[c], c, m) ELSE down[c]]

(* A gameplay frame in an Inbound's world queues.                          *)
Tag(f) == [seat |-> f.seat, inc |-> f.inc]

Roster(m, o) == [type |-> "ROSTER", members |-> m, owner |-> o]

-----------------------------------------------------------------------------
(* The network.                                                            *)

(* A join's provider connects and the join says HELLO.  A host whose peers *)
(* fill every seat disconnects it at once.                                 *)
Connect(j) ==
    /\ joins[j].at = "idle" /\ attempts < MaxAttempts
    /\ LET c == attempts + 1 IN
       /\ attempts' = c
       /\ joins' = [joins EXCEPT ![j] = [@ EXCEPT
             !.at = "hello", !.inc = c, !.owner = [i \in Seats |-> 0]]]
       /\ IF Cardinality(Present) < MaxJoins
          THEN /\ peers' = [peers EXCEPT ![c].at = "open"]
               /\ wire' = wire \cup {c}
               /\ up' = [up EXCEPT ![c] = <<[type |-> "HELLO"]>>]
          ELSE UNCHANGED <<peers, wire, up>>
    /\ UNCHANGED <<owner, members, lastRoster, inbound, down, fastUp, fastDown,
                   refused, cuts, frames>>

(* The connection dies: the transport loses it, a side closes it, or the   *)
(* host gives up waiting for the handshake.  When the host's network goes, *)
(* all connections die at once.                                            *)
Cut(c) ==
    /\ c \in wire /\ \E dead \in {{c}, wire} : wire' = wire \ dead
    /\ cuts < MaxCuts /\ cuts' = cuts + 1
    /\ UNCHANGED <<host, up, down, fastUp, fastDown, joins, refused, attempts, frames>>

-----------------------------------------------------------------------------
(* The host.                                                               *)

(* A message that does not fit the state of its peer ends the connection:  *)
(* the peer is closed, and nothing more is heard from it.                  *)
Refuse(c, type) ==
    /\ refused' = refused \cup {type}
    /\ wire' = wire \ {c}
    /\ peers' = [peers EXCEPT ![c].closed = TRUE]

Hears(c) == peers[c].at # "none" /\ ~peers[c].closed
Receives(c, type) == Hears(c) /\ up[c] # <<>> /\ Head(up[c]).type = type

(* Fault: seats of peers that are not admitted yet are given away.         *)
TakenByAdmitted(c) == {peers[d].seat : d \in Admitted \ {c}}

(* A seat is taken by any other peer, admitted or not, dead or not.        *)
Taken(c) == {peers[d].seat : d \in Present \ {c}}

(* The lowest seat that is not taken.                                      *)
FreeSeat(c) ==
    CHOOSE i \in Seats \ Taken(c) : \A k \in Seats \ Taken(c) : i <= k

(* HELLO: the seat is bound to the incarnation before it is admitted.      *)
HostHello(c) ==
    /\ Receives(c, "HELLO")
    /\ up' = [up EXCEPT ![c] = Tail(@)]
    /\ IF peers[c].at = "open"
       THEN LET i == FreeSeat(c) IN
            /\ peers' = [peers EXCEPT ![c].at = "greeted", ![c].seat = i]
            /\ owner' = [owner EXCEPT ![i] = c]
            /\ down' = [down EXCEPT ![c] =
                  Put(@, c, [type |-> "WELCOME", seat |-> i])]
            /\ UNCHANGED <<wire, refused>>
       ELSE Refuse(c, "HELLO") /\ UNCHANGED <<owner, down>>
    /\ UNCHANGED <<members, lastRoster, inbound, fastUp, fastDown, joins, bounds>>

(* Fault: the others learn of the new member from the next periodic roster.*)
AnnounceLater(to, m, o) == down' = down

(* sendRoster                                                              *)
Announce(to, m, o) == Broadcast(to, Roster(m, o))

(* SESSION_ACK admits the peer; the roster goes out before its relays.     *)
HostAck(c) ==
    /\ Receives(c, "ACK")
    /\ up' = [up EXCEPT ![c] = Tail(@)]
    /\ IF peers[c].at \in {"greeted", "admitted"}
       THEN LET i == peers[c].seat IN
            /\ peers' = [peers EXCEPT ![c].at = "admitted", ![c].ready = FALSE]
            /\ members' = members \cup {i}
            /\ lastRoster' = NoRoster
            /\ Announce(Admitted \cup {c}, members \cup {i}, owner)
            /\ UNCHANGED <<wire, refused>>
       ELSE /\ Refuse(c, "ACK")
            /\ UNCHANGED <<members, lastRoster, down>>
    /\ UNCHANGED <<owner, inbound, fastUp, fastDown, joins, bounds>>

(* The peer has loaded the host's world and both gates are open.           *)
HostReady(c) ==
    /\ c \in Admitted \cap wire /\ ~peers[c].ready
    /\ \E j \in Joins : joins[j].inc = c /\ joins[j].at = "in"
    /\ peers' = [peers EXCEPT ![c].ready = TRUE]
    /\ UNCHANGED <<owner, members, lastRoster, inbound, net, joins, refused, bounds>>

(* A member may only speak for itself.                                     *)
Genuine(c, f) ==
    peers[c].at = "admitted" /\ f.seat = peers[c].seat /\ f.inc = c

(* A gameplay frame on GAME_RELIABLE is queued and relayed to the others.  *)
HostFrame(c) ==
    /\ Receives(c, "FRAME")
    /\ up' = [up EXCEPT ![c] = Tail(@)]
    /\ LET f == Head(up[c]) IN
       IF Genuine(c, f)
       THEN /\ inbound' = inbound \cup {Tag(f)}
            /\ Broadcast(Admitted \ {c}, f)
            /\ UNCHANGED <<peers, wire, refused>>
       ELSE Refuse(c, "FRAME") /\ UNCHANGED <<inbound, down>>
    /\ UNCHANGED <<owner, members, lastRoster, fastUp, fastDown, joins, bounds>>

(* One on GAME_STATE; it is relayed to the recipients that are ready.      *)
HostFastFrame(c) ==
    /\ Hears(c)
    /\ \E f \in fastUp[c] :
       /\ f.type = "FRAME"
       /\ fastUp' = [fastUp EXCEPT ![c] = @ \ {f}]
       /\ IF Genuine(c, f)
          THEN /\ inbound' = inbound \cup {Tag(f)}
               /\ fastDown' = [d \in Attempts |->
                     IF d \in (Admitted \cap wire) \ {c} /\ peers[d].ready
                     THEN fastDown[d] \cup {f} ELSE fastDown[d]]
               /\ UNCHANGED <<peers, wire, refused>>
          ELSE Refuse(c, "FRAME") /\ UNCHANGED <<inbound, fastDown>>
    /\ UNCHANGED <<owner, members, lastRoster, up, down, joins, bounds>>

(* A PING is valid from an admitted peer only; PONG changes nothing here.  *)
HostPing(c) ==
    /\ Hears(c)
    /\ \E f \in fastUp[c] :
       /\ f.type = "PING"
       /\ fastUp' = [fastUp EXCEPT ![c] = @ \ {f}]
    /\ IF peers[c].at # "admitted" THEN Refuse(c, "PING")
       ELSE UNCHANGED <<peers, wire, refused>>
    /\ UNCHANGED <<owner, members, lastRoster, inbound, up, down, fastDown, joins, bounds>>

(* flushOwnerWorld                                                         *)
Flush(q, i) == {f \in q : f.seat # i}

(* Retirement.  Only an admitted peer's seat is unbound.                   *)
HostRetire(c) ==
    /\ peers[c].at # "none" /\ c \notin wire
    /\ peers' = [peers EXCEPT ![c] = NoPeer]
    /\ up' = [up EXCEPT ![c] = <<>>] /\ fastUp' = [fastUp EXCEPT ![c] = {}]
    /\ IF peers[c].at = "admitted"
       THEN LET i == peers[c].seat o == [owner EXCEPT ![i] = 0] IN
            /\ owner' = o /\ members' = members \ {i}
            /\ inbound' = Flush(inbound, i)
            /\ lastRoster' = NoRoster
            /\ Announce(Admitted \ {c}, members \ {i}, o)
       ELSE UNCHANGED <<owner, members, inbound, lastRoster, down>>
    /\ UNCHANGED <<wire, fastDown, joins, refused, bounds>>

(* The periodic roster, when it differs from the one sent last.            *)
HostRoster ==
    /\ lastRoster # [members |-> members, owner |-> owner]
    /\ lastRoster' = [members |-> members, owner |-> owner]
    /\ Broadcast(Admitted, Roster(members, owner))
    /\ UNCHANGED <<peers, owner, members, inbound, wire, up, fastUp, fastDown,
                   joins, refused, bounds>>

-----------------------------------------------------------------------------
(* The joins.                                                              *)

(* What may reach the join next on GAME_RELIABLE: its oldest message or,   *)
(* past the frames that wait for READY, its oldest session control.        *)
Deliverable(c, n) ==
    /\ n \in DOMAIN down[c]
    /\ \/ n = 1 /\ (down[c][n].type = "FRAME" => peers[c].ready)
       \/ /\ ~peers[c].ready /\ down[c][n].type # "FRAME"
          /\ \A k \in 1 .. n - 1 : down[c][k].type = "FRAME"

Without(q, n) == SubSeq(q, 1, n - 1) \o SubSeq(q, n + 1, Len(q))

(* WELCOME: the join is in, binds its own seat, and will acknowledge.      *)
Welcome(r, m) ==
    [r EXCEPT !.at = "in", !.seat = m.seat, !.members = {m.seat},
              !.owner = [r.owner EXCEPT ![m.seat] = r.inc]]

(* PKT_PLAYER_ROSTER: frames of an incarnation that lost its seat go.      *)
Rebind(r, m) == {f \in r.inbound : r.owner[f.seat] = m.owner[f.seat]}

(* Fault: a roster adds members and removes none.                          *)
LearnOnlyAdds(r, m) ==
    [r EXCEPT !.owner = m.owner, !.inbound = Rebind(r, m),
              !.members = @ \cup m.members]

(* The seats of the others are as the roster says.                         *)
Learn(r, m) ==
    [r EXCEPT !.owner = m.owner, !.inbound = Rebind(r, m),
              !.members = (m.members \ {r.seat}) \cup (r.members \cap {r.seat})]

(* Fault: a bound seat is enough, whichever incarnation it is bound to.    *)
BoundSeat(r, f) == r.owner[f.seat] # 0

(* A frame of an incarnation the join has not bound to its seat is stale.  *)
Bound(r, f) == r.owner[f.seat] = f.inc

Keep(r, f) ==
    IF Bound(r, f)
    THEN [r EXCEPT !.inbound = @ \cup {Tag(f)}] ELSE r

(* A message of the host's on GAME_RELIABLE.  One that does not fit the    *)
(* join's state ends its session.                                          *)
JoinReceive(j) ==
    LET r == joins[j] c == r.inc IN
    /\ r.at # "idle"
    /\ \E n \in DOMAIN down[c] :
       LET m == down[c][n] IN
       /\ Deliverable(c, n)
       /\ down' = [down EXCEPT ![c] = Without(@, n)]
       /\ up' = IF m.type = "WELCOME" THEN [up EXCEPT ![c] = Put(@, c, [type |-> "ACK"])]
                ELSE up
       /\ IF (m.type = "WELCOME") = (r.at = "hello")
          THEN /\ joins' = [joins EXCEPT ![j] =
                     CASE m.type = "WELCOME" -> Welcome(r, m)
                       [] m.type = "ROSTER" -> Learn(r, m)
                       [] m.type = "FRAME" -> Keep(r, m)]
               /\ UNCHANGED <<wire, refused>>
          ELSE /\ wire' = wire \ {c} /\ refused' = refused \cup {m.type}
               /\ UNCHANGED joins
    /\ UNCHANGED <<host, fastUp, fastDown, bounds>>

(* A frame the host relays on GAME_STATE.                                  *)
JoinFastFrame(j) ==
    LET r == joins[j] c == r.inc IN
    /\ r.at = "in"
    /\ \E f \in fastDown[c] :
       /\ fastDown' = [fastDown EXCEPT ![c] = @ \ {f}]
       /\ joins' = [joins EXCEPT ![j] = Keep(r, f)]
    /\ UNCHANGED <<host, wire, up, down, fastUp, refused, bounds>>

(* The join publishes a gameplay frame, on either lane.                    *)
JoinCapture(j) ==
    LET r == joins[j] c == r.inc
        f == [type |-> "FRAME", seat |-> r.seat, inc |-> c]
    IN
    /\ frames < MaxFrames /\ frames' = frames + 1
    /\ r.at = "in" /\ c \in wire /\ peers[c].ready
    /\ \/ up' = [up EXCEPT ![c] = Append(@, f)] /\ UNCHANGED fastUp
       \/ fastUp' = [fastUp EXCEPT ![c] = @ \cup {f}] /\ UNCHANGED up
    /\ UNCHANGED <<host, wire, down, fastDown, joins, refused, attempts, cuts>>

(* The clock probe, sent every two seconds from the WELCOME on.  It is of  *)
(* no consequence here once the host has admitted the join.                *)
JoinPing(j) ==
    LET r == joins[j] c == r.inc IN
    /\ r.at = "in" /\ c \in wire /\ peers[c].at = "greeted"
    /\ cuts < MaxCuts /\ cuts' = cuts + 1
    /\ fastUp' = [fastUp EXCEPT ![c] = @ \cup {[type |-> "PING"]}]
    /\ UNCHANGED <<host, wire, up, down, fastDown, joins, refused, attempts, frames>>

(* The join's worker finds its connection closed.  What waits in the world *)
(* queues stays there: the game thread is only told.                       *)
JoinRetire(j) ==
    LET r == joins[j] c == r.inc IN
    /\ r.at # "idle" /\ c \notin wire
    /\ joins' = [joins EXCEPT ![j] =
          [r EXCEPT !.at = "idle", !.inc = 0, !.seat = 0, !.members = {},
                    !.left = TRUE]]
    /\ down' = [down EXCEPT ![c] = <<>>] /\ fastDown' = [fastDown EXCEPT ![c] = {}]
    /\ UNCHANGED <<host, wire, up, fastUp, refused, bounds>>

(* processNetEvents: nobody is left, so all that waits is flushed.  The    *)
(* worker may be in another session by then.                               *)
JoinDrainLeave(j) ==
    /\ joins[j].left
    /\ joins' = [joins EXCEPT ![j] = [@ EXCEPT !.left = FALSE, !.inbound = {}]]
    /\ UNCHANGED <<host, net, refused, bounds>>

-----------------------------------------------------------------------------
HostReceive(c) ==
    HostHello(c) \/ HostAck(c) \/ HostFrame(c)

Next ==
    \/ HostRoster
    \/ \E c \in Attempts : \/ Cut(c) \/ HostReceive(c) \/ HostReady(c)
                           \/ HostFastFrame(c) \/ HostPing(c) \/ HostRetire(c)
    \/ \E j \in Joins : \/ Connect(j) \/ JoinReceive(j) \/ JoinFastFrame(j)
                        \/ JoinCapture(j) \/ JoinPing(j) \/ JoinRetire(j)
                        \/ JoinDrainLeave(j)

Spec == Init /\ [][Next]_vars

(* The workers run and the reliable lane delivers while a connection is up.*)
FairSpec ==
    /\ Spec
    /\ WF_vars(HostRoster)
    /\ \A c \in Attempts : WF_vars(HostReceive(c)) /\ WF_vars(HostRetire(c))
    /\ \A j \in Joins : WF_vars(JoinReceive(j)) /\ WF_vars(JoinRetire(j))

-----------------------------------------------------------------------------
Incs == 0 .. MaxAttempts
Tags == [seat : Seats, inc : Attempts]
Frames == [type : {"FRAME"}, seat : Seats, inc : Attempts]
Rosters == [type : {"ROSTER"}, members : SUBSET Seats, owner : [Seats -> Incs]]
Downs == [type : {"WELCOME"}, seat : Seats] \cup Rosters \cup Frames
Ups == [type : {"HELLO", "ACK"}] \cup Frames
PeerTypes == [at : {"none", "open", "greeted", "admitted"}, seat : {0} \cup Seats,
              ready : BOOLEAN, closed : BOOLEAN]
JoinTypes ==
    [at : {"idle", "hello", "in"}, inc : Incs, seat : {0} \cup Seats,
     owner : [Seats -> Incs], members : SUBSET Seats, inbound : SUBSET Tags,
     left : BOOLEAN]

(* The types of the membership state on both sides.                        *)
TypeOK ==
    /\ peers \in [Attempts -> PeerTypes]
    /\ owner \in [Seats -> Incs] /\ members \subseteq Seats
    /\ lastRoster \in [members : SUBSET (Seats \cup {0}), owner : [Seats -> Incs]]
    /\ inbound \subseteq Tags
    /\ wire \subseteq Attempts
    /\ up \in [Attempts -> Seq(Ups)] /\ down \in [Attempts -> Seq(Downs)]
    /\ fastUp \in [Attempts -> SUBSET (Frames \cup [type : {"PING"}])]
    /\ fastDown \in [Attempts -> SUBSET Frames]
    /\ joins \in [Joins -> JoinTypes]
    /\ attempts \in Incs /\ cuts \in 0 .. MaxCuts /\ frames \in 0 .. MaxFrames

(* NetLink.cpp keeps the seat of a dead peer until it is retired, and      *)
(* binds a seat before its peer is admitted: the admitted peers hold seats *)
(* of their own, exactly these are members, and each is bound to its own   *)
(* incarnation.  A HELLO never finds the seats full.                       *)
SeatsHeld ==
    /\ \A c, d \in Present : c # d /\ peers[c].seat # 0 => peers[c].seat # peers[d].seat
    /\ members = {peers[c].seat : c \in Admitted}
    /\ \A c \in Admitted : owner[peers[c].seat] = c
    /\ \A c \in Present : Seats \ Taken(c) # {}

(* A seat's next owner is not credited with what its former one sent: the  *)
(* frames that wait for a game thread under a seat come from the           *)
(* incarnation the seat is bound to, on the host and on the joins, though  *)
(* rosters overtake frames and GAME_STATE keeps no order at all.  On a     *)
(* join that has lost its host they may be older until its game thread     *)
(* drains the leave, which it does before it reads them; even then, and    *)
(* though the worker may have joined again in another seat meanwhile, no   *)
(* two that wait under one seat come from different incarnations.          *)
Attributed ==
    /\ \A f \in inbound : owner[f.seat] = f.inc
    /\ \A j \in Joins :
          LET r == joins[j] IN
          /\ ~r.left => \A f \in r.inbound : r.owner[f.seat] = f.inc
          /\ \A f, g \in r.inbound : f.seat = g.seat => f.inc = g.inc

(* NetLink.cpp "bind every admitted origin before its reliable relays": a  *)
(* frame of GAME_RELIABLE that reaches a join while its author is a member *)
(* is not dropped as stale.                                                *)
RelaysBound ==
    \A j \in Joins : joins[j].at = "in" =>
        LET r == joins[j] q == down[r.inc] IN
        \A n \in DOMAIN q :
            (Deliverable(r.inc, n) /\ q[n].type = "FRAME" /\ q[n].inc \in Admitted)
                => Bound(r, q[n])

(* Nobody who follows the protocol is thrown out for breaking it.  The     *)
(* exception is a PING on the unordered lane that overtakes SESSION_ACK.   *)
NoneRefused == refused \subseteq {"PING"}

(* A join that has settled in: admitted, with the host's view of the seats.*)
Settled(j) ==
    LET r == joins[j] IN
    r.at # "idle" =>
        /\ r.at = "in" /\ r.inc \in Admitted \cap wire
        /\ r.members = members /\ r.owner = owner

(* Once nobody comes or goes any more, every join that is connected is a   *)
(* member and shows the members and the bindings the host has.             *)
EndsSettled == <>[](\A j \in Joins : Settled(j))
=============================================================================

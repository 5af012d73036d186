--------------------------- MODULE MembersProofs ---------------------------
(***************************************************************************)
(* Proofs about Members: its types, that every admitted peer holds a seat  *)
(* of its own, that no frame counts for the wrong player, that nobody who  *)
(* follows the protocol is thrown out, and that no reliable frame of a     *)
(* member is dropped as stale.                                             *)
(***************************************************************************)
EXTENDS Members, FiniteSetTheorems, WellFoundedInduction,
        TLAPS

(* Attempts are numbered, and peers never fill more than the seats.        *)
PeersCounted ==
    /\ \A c \in Attempts : c > attempts => peers[c] = NoPeer
    /\ Cardinality(Present) <= MaxJoins

(* A peer that was greeted holds a seat, which is bound to it and to no    *)
(* other; exactly the seats of admitted peers are members.                 *)
SeatBound ==
    \A c \in Attempts :
        IF peers[c].at \in {"greeted", "admitted"}
        THEN peers[c].seat # 0 /\ owner[peers[c].seat] = c
        ELSE peers[c].seat = 0
MembersSeated == members = {peers[c].seat : c \in Admitted}

(* What waits for the host's game thread was sent by an admitted peer in   *)
(* its seat.                                                               *)
HostAttributed ==
    \A f \in inbound : f.inc \in Admitted /\ peers[f.inc].seat = f.seat

(* A join that is in has a seat, and queues what its bindings let pass.    *)
(* What waits from an earlier session is under a seat that is not bound    *)
(* yet, under the join's own, or under one that is bound as it was.        *)
JoinFits(r) ==
    /\ r.at # "idle" => r.inc # 0
    /\ r.at = "in" => r.seat # 0
    /\ r.at = "hello" => \A i \in Seats : r.owner[i] = 0
    /\ r.at = "in" => \A f \in r.inbound : r.owner[f.seat] \in {0, r.inc, f.inc}
    /\ r.at # "in" /\ ~r.left => r.inbound = {}
    /\ ~r.left => \A f \in r.inbound : r.owner[f.seat] = f.inc
    /\ \A f, g \in r.inbound : f.seat = g.seat => f.inc = g.inc
JoinBound == \A j \in Joins : JoinFits(joins[j])

(* No member is sent its own frames.                                       *)
Others(c, lane) ==
    \A n \in DOMAIN lane : lane[n].type = "FRAME" => lane[n].inc # c
NoEcho ==
    \A c \in Attempts : Others(c, down[c]) /\ \A f \in fastDown[c] : f.inc # c

MembersInv ==
    /\ TypeOK /\ PeersCounted /\ SeatBound /\ MembersSeated
    /\ HostAttributed /\ JoinBound /\ NoEcho

-----------------------------------------------------------------------------
(* Lanes.                                                                  *)
LEMMA PutType ==
    ASSUME NEW S, NEW q \in Seq(S), NEW c, NEW m \in S
    PROVE  Put(q, c, m) \in Seq(S)
BY DEF Put

LEMMA BroadcastType ==
    ASSUME down \in [Attempts -> Seq(Downs)], NEW to, NEW m \in Downs,
           Broadcast(to, m)
    PROVE  down' \in [Attempts -> Seq(Downs)]
BY PutType DEF Broadcast

LEMMA AnnounceType ==
    ASSUME down \in [Attempts -> Seq(Downs)], NEW to, NEW m \in SUBSET Seats,
           NEW o \in [Seats -> Incs], Announce(to, m, o)
    PROVE  down' \in [Attempts -> Seq(Downs)]
<1>1. Roster(m, o) \in Downs
    BY DEF Roster, Downs, Rosters
<1> QED BY <1>1, BroadcastType DEF Announce

LEMMA WithoutType ==
    ASSUME NEW S, NEW q \in Seq(S), NEW n \in DOMAIN q
    PROVE  Without(q, n) \in Seq(S)
BY DEF Without

LEMMA HeadType ==
    ASSUME NEW S, NEW q \in Seq(S), q # <<>>
    PROVE  Head(q) \in S /\ Tail(q) \in Seq(S)
OBVIOUS

-----------------------------------------------------------------------------
(* Seats.                                                                  *)
LEMMA PresentFinite == IsFiniteSet(Present) /\ Cardinality(Present) \in Nat
<1>1. IsFiniteSet(Attempts)
    BY FS_Interval, MembersAssumption DEF Attempts
<1>2. Present \in SUBSET Attempts
    BY DEF Present
<1>3. IsFiniteSet(Present)
    BY <1>1, <1>2, FS_Subset
<1> QED BY <1>3, FS_CardinalityType

(* Every non-empty set of seats has a lowest one.                          *)
LEMMA LowestSeat ==
    ASSUME NEW S \in SUBSET Seats, S # {}
    PROVE  \E i \in S : \A k \in S : i <= k
<1>1. S \subseteq Nat
    BY MembersAssumption DEF Seats
<1> DEFINE T == {1 .. i : i \in S}
<1>2. T \subseteq FiniteSubsetsOf(Nat) /\ T # {}
    <2>1. ASSUME NEW i \in S PROVE 1 .. i \in FiniteSubsetsOf(Nat)
        <3>1. i \in Int
            BY <1>1
        <3>2. IsFiniteSet(1 .. i)
            BY <3>1, FS_Interval
        <3>3. 1 .. i \in SUBSET Nat
            BY <3>1
        <3> QED BY <3>2, <3>3 DEF FiniteSubsetsOf
    <2> QED BY <2>1
<1>3. PICK x \in T : \A y \in T : <<y, x>> \notin StrictSubsetOrdering(Nat)
    BY <1>2, FS_StrictSubsetOrderingWellFounded, WFMin
<1>4. PICK i \in S : x = 1 .. i
    BY <1>3
<1>5. ASSUME NEW k \in S, k < i PROVE FALSE
    <2>1. 1 .. k \in SUBSET Nat /\ 1 .. i \in SUBSET Nat
        OBVIOUS
    <2>2. 1 .. k \subseteq 1 .. i /\ 1 .. k # 1 .. i
        BY <1>1, <1>5, MembersAssumption DEF Seats
    <2>3. <<1 .. k, x>> \in StrictSubsetOrdering(Nat)
        BY <1>4, <2>1, <2>2 DEF StrictSubsetOrdering
    <2> QED BY <1>3, <2>3
<1> QED BY <1>1, <1>5

(* The other peers leave a seat free.                                      *)
LEMMA SeatLeft ==
    ASSUME PeersCounted, peers \in [Attempts -> PeerTypes], NEW c \in Present
    PROVE  Seats \ Taken(c) # {}
<1>1. IsFiniteSet(Present \ {c}) /\ Cardinality(Present \ {c}) < MaxJoins
    <2>1. IsFiniteSet(Present) /\ Cardinality(Present) \in Nat
        BY PresentFinite
    <2>2. Cardinality(Present \ {c}) = Cardinality(Present) - 1
          /\ IsFiniteSet(Present \ {c})
        BY <2>1, FS_RemoveElement
    <2>3. Cardinality(Present) <= MaxJoins
        BY DEF PeersCounted
    <2> QED BY <2>1, <2>2, <2>3, MembersAssumption
<1>2. IsFiniteSet(Seats) /\ Cardinality(Seats) = MaxJoins
    BY FS_Interval, MembersAssumption DEF Seats
<1> DEFINE seatOf == [d \in Present \ {c} |-> peers[d].seat]
<1>3. seatOf \in Surjection(Present \ {c}, Taken(c))
    BY DEF Surjection, Taken
<1>4. Cardinality(Taken(c)) <= Cardinality(Present \ {c}) /\ IsFiniteSet(Taken(c))
    BY <1>1, <1>3, FS_Surjection
<1> SUFFICES ASSUME Seats \subseteq Taken(c) PROVE FALSE
    OBVIOUS
<1>5. Cardinality(Seats) <= Cardinality(Taken(c))
    BY <1>4, FS_Subset
<1>6. Cardinality(Taken(c)) \in Nat /\ Cardinality(Present \ {c}) \in Nat
    BY <1>1, <1>4, FS_CardinalityType
<1> QED BY <1>1, <1>2, <1>4, <1>5, <1>6, MembersAssumption

LEMMA FreeSeatIsFree ==
    ASSUME PeersCounted, peers \in [Attempts -> PeerTypes], NEW c \in Present
    PROVE  FreeSeat(c) \in Seats \ Taken(c)
BY SeatLeft, LowestSeat DEF FreeSeat

-----------------------------------------------------------------------------
(* The types, in four parts.                                               *)
HostTypes ==
    /\ peers \in [Attempts -> PeerTypes]
    /\ owner \in [Seats -> Incs] /\ members \subseteq Seats
    /\ lastRoster \in [members : SUBSET (Seats \cup {0}), owner : [Seats -> Incs]]
    /\ inbound \subseteq Tags
NetTypes ==
    /\ wire \subseteq Attempts
    /\ up \in [Attempts -> Seq(Ups)] /\ down \in [Attempts -> Seq(Downs)]
    /\ fastUp \in [Attempts -> SUBSET (Frames \cup [type : {"PING"}])]
    /\ fastDown \in [Attempts -> SUBSET Frames]
JoinsTypes == joins \in [Joins -> JoinTypes]
BoundTypes ==
    attempts \in Incs /\ cuts \in 0 .. MaxCuts /\ frames \in 0 .. MaxFrames

LEMMA TypeParts == TypeOK <=> HostTypes /\ NetTypes /\ JoinsTypes /\ BoundTypes
BY DEF TypeOK, HostTypes, NetTypes, JoinsTypes, BoundTypes

LEMMA TypeParts_ ==
    TypeOK' <=> HostTypes' /\ NetTypes' /\ JoinsTypes' /\ BoundTypes'
BY DEF TypeOK, HostTypes, NetTypes, JoinsTypes, BoundTypes

LEMMA InitTypes == Init => TypeOK
<1> SUFFICES ASSUME Init PROVE TypeOK
    OBVIOUS
<1>1. 0 \in Incs
    BY MembersAssumption DEF Incs
<1>2. HostTypes
    <2>1. NoPeer \in PeerTypes
        BY DEF NoPeer, PeerTypes
    <2>2. owner \in [Seats -> Incs]
        BY <1>1 DEF Init
    <2>3. NoRoster \in [members : SUBSET (Seats \cup {0}), owner : [Seats -> Incs]]
        BY <1>1 DEF NoRoster
    <2> QED BY <2>1, <2>2, <2>3 DEF Init, HostTypes
<1>3. NetTypes
    BY DEF Init, NetTypes
<1>4. JoinsTypes
    BY <1>1 DEF Init, JoinsTypes, JoinTypes, NewJoin
<1>5. BoundTypes
    BY <1>1, MembersAssumption DEF Init, BoundTypes
<1> QED BY <1>2, <1>3, <1>4, <1>5, TypeParts

LEMMA SomeSeat == \E i : i \in Seats
BY MembersAssumption DEF Seats

LEMMA PeerFields ==
    ASSUME NEW p \in PeerTypes, NEW i \in Seats
    PROVE  /\ [p EXCEPT !.at = "greeted", !.seat = i] \in PeerTypes
           /\ [p EXCEPT !.at = "admitted", !.ready = FALSE] \in PeerTypes
           /\ [p EXCEPT !.ready = TRUE] \in PeerTypes
           /\ [p EXCEPT !.closed = TRUE] \in PeerTypes
BY DEF PeerTypes

(* A refusal closes the peer and nothing else.                             *)
LEMMA RefuseTypes ==
    ASSUME HostTypes, NetTypes, NEW c \in Attempts, NEW type, Refuse(c, type)
    PROVE  peers' \in [Attempts -> PeerTypes] /\ wire' \subseteq Attempts
<1>1. [peers[c] EXCEPT !.closed = TRUE] \in PeerTypes
    BY PeerFields, SomeSeat DEF HostTypes
<1>2. peers' = [peers EXCEPT ![c] = [@ EXCEPT !.closed = TRUE]]
    BY DEF Refuse
<1>3. peers' \in [Attempts -> PeerTypes]
    BY <1>1, <1>2 DEF HostTypes
<1> QED BY <1>3 DEF NetTypes, Refuse

LEMMA TailTypes ==
    ASSUME NetTypes, NEW c \in Attempts, NEW type, Receives(c, type)
    PROVE  /\ Head(up[c]) \in Ups /\ Head(up[c]).type = type
           /\ [up EXCEPT ![c] = Tail(@)] \in [Attempts -> Seq(Ups)]
<1>1. up[c] \in Seq(Ups) /\ up[c] # <<>>
    BY DEF NetTypes, Receives
<1>2. Head(up[c]) \in Ups /\ Tail(up[c]) \in Seq(Ups)
    BY <1>1, HeadType
<1> QED BY <1>2 DEF NetTypes, Receives

LEMMA FrameOf ==
    ASSUME NEW m, m \in Ups \/ m \in Downs, m.type = "FRAME"
    PROVE  m \in Frames
BY DEF Ups, Downs, Rosters, Frames

LEMMA TagType == ASSUME NEW f \in Frames PROVE Tag(f) \in Tags
BY DEF Tag, Tags, Frames

LEMMA FrameDown == ASSUME NEW f \in Frames PROVE f \in Downs
BY DEF Downs

-----------------------------------------------------------------------------
(* The types, action by action.                                            *)
LEMMA ConnectTypes ==
    ASSUME TypeOK, NEW j \in Joins, Connect(j) PROVE TypeOK'
<1>1. HostTypes /\ NetTypes /\ JoinsTypes /\ BoundTypes
    BY TypeParts
<1> DEFINE c == attempts + 1
<1>2. c \in Attempts /\ c \in Incs /\ 0 \in Incs
    BY <1>1, MembersAssumption DEF Connect, BoundTypes, Incs, Attempts
<1>3. HostTypes'
    BY <1>1, <1>2 DEF Connect, HostTypes, PeerTypes
<1>4. NetTypes'
    <2>1. <<[type |-> "HELLO"]>> \in Seq(Ups)
        BY DEF Ups
    <2> QED BY <1>1, <1>2, <2>1 DEF Connect, NetTypes
<1>5. JoinsTypes'
    BY <1>1, <1>2 DEF Connect, JoinsTypes, JoinTypes
<1>6. BoundTypes'
    BY <1>1, <1>2 DEF Connect, BoundTypes
<1> QED BY <1>3, <1>4, <1>5, <1>6, TypeParts_

LEMMA CutTypes == ASSUME TypeOK, NEW c \in Attempts, Cut(c) PROVE TypeOK'
<1>1. HostTypes /\ NetTypes /\ JoinsTypes /\ BoundTypes
    BY TypeParts
<1>2. HostTypes' /\ JoinsTypes'
    BY <1>1 DEF Cut, host, HostTypes, JoinsTypes
<1>3. NetTypes'
    BY <1>1 DEF Cut, NetTypes
<1>4. BoundTypes'
    BY <1>1, MembersAssumption DEF Cut, BoundTypes
<1> QED BY <1>2, <1>3, <1>4, TypeParts_

LEMMA HostHelloTypes ==
    ASSUME TypeOK, PeersCounted, NEW c \in Attempts, HostHello(c) PROVE TypeOK'
<1>1. HostTypes /\ NetTypes /\ JoinsTypes /\ BoundTypes
    BY TypeParts
<1>2. JoinsTypes' /\ BoundTypes'
    BY <1>1 DEF HostHello, JoinsTypes, BoundTypes, bounds
<1>3. up' \in [Attempts -> Seq(Ups)]
    BY <1>1, TailTypes DEF HostHello
<1>4. CASE peers[c].at = "open"
    <2> DEFINE i == FreeSeat(c)
    <2>1. c \in Present
        BY <1>4 DEF Present
    <2>2. i \in Seats /\ c \in Incs
        BY <1>1, <2>1, FreeSeatIsFree, MembersAssumption
        DEF HostTypes, Incs, Attempts
    <2> HIDE DEF i
    <2>3. /\ peers' = [peers EXCEPT ![c].at = "greeted", ![c].seat = i]
          /\ owner' = [owner EXCEPT ![i] = c]
          /\ down' = [down EXCEPT ![c] = Put(@, c, [type |-> "WELCOME", seat |-> i])]
          /\ UNCHANGED <<wire, members, lastRoster, inbound, fastUp, fastDown>>
        BY <1>4 DEF HostHello, i
    <2>4. HostTypes'
        <3>1. [peers[c] EXCEPT !.at = "greeted", !.seat = i] \in PeerTypes
            BY <1>1, <2>2, PeerFields DEF HostTypes
        <3>2. peers' = [peers EXCEPT ![c] = [@ EXCEPT !.at = "greeted", !.seat = i]]
            BY <2>3
        <3>3. peers' \in [Attempts -> PeerTypes]
            BY <1>1, <3>1, <3>2 DEF HostTypes
        <3> QED BY <1>1, <2>2, <2>3, <3>3 DEF HostTypes
    <2>5. Put(down[c], c, [type |-> "WELCOME", seat |-> i]) \in Seq(Downs)
        <3>1. [type |-> "WELCOME", seat |-> i] \in Downs
            BY <2>2 DEF Downs
        <3>2. down[c] \in Seq(Downs)
            BY <1>1 DEF NetTypes
        <3> QED BY <3>1, <3>2, PutType
    <2>6. NetTypes'
        BY <1>1, <1>3, <2>3, <2>5 DEF NetTypes
    <2> QED BY <1>2, <2>4, <2>6, TypeParts_
<1>5. CASE peers[c].at # "open"
    <2>1. /\ Refuse(c, "HELLO")
          /\ UNCHANGED <<owner, down, members, lastRoster, inbound, fastUp, fastDown>>
        BY <1>5 DEF HostHello
    <2>2. peers' \in [Attempts -> PeerTypes] /\ wire' \subseteq Attempts
        BY <1>1, <2>1, RefuseTypes
    <2>3. HostTypes' /\ NetTypes'
        BY <1>1, <1>3, <2>1, <2>2 DEF HostTypes, NetTypes
    <2> QED BY <1>2, <2>3, TypeParts_
<1> QED BY <1>4, <1>5

LEMMA HostAckTypes ==
    ASSUME TypeOK, SeatBound, NEW c \in Attempts, HostAck(c) PROVE TypeOK'
<1>1. HostTypes /\ NetTypes /\ JoinsTypes /\ BoundTypes
    BY TypeParts
<1>2. JoinsTypes' /\ BoundTypes'
    BY <1>1 DEF HostAck, JoinsTypes, BoundTypes, bounds
<1>3. up' \in [Attempts -> Seq(Ups)]
    BY <1>1, TailTypes DEF HostAck
<1>4. CASE peers[c].at \in {"greeted", "admitted"}
    <2> DEFINE i == peers[c].seat
    <2>1. i \in Seats
        BY <1>1, <1>4 DEF HostTypes, PeerTypes, SeatBound
    <2>2. /\ peers' = [peers EXCEPT ![c].at = "admitted", ![c].ready = FALSE]
          /\ members' = members \cup {i} /\ lastRoster' = NoRoster
          /\ Announce(Admitted \cup {c}, members \cup {i}, owner)
          /\ UNCHANGED <<wire, owner, inbound, fastUp, fastDown>>
        BY <1>4 DEF HostAck
    <2>3. NoRoster \in [members : SUBSET (Seats \cup {0}), owner : [Seats -> Incs]]
        BY MembersAssumption DEF NoRoster, Incs
    <2>4. HostTypes'
        <3>1. [peers[c] EXCEPT !.at = "admitted", !.ready = FALSE] \in PeerTypes
            BY <1>1, <2>1, PeerFields DEF HostTypes
        <3>2. peers' = [peers EXCEPT ![c] =
                             [@ EXCEPT !.at = "admitted", !.ready = FALSE]]
            BY <2>2
        <3>3. peers' \in [Attempts -> PeerTypes]
            BY <1>1, <3>1, <3>2 DEF HostTypes
        <3> QED BY <1>1, <2>1, <2>2, <2>3, <3>3 DEF HostTypes
    <2>5. down' \in [Attempts -> Seq(Downs)]
        BY <1>1, <2>1, <2>2, AnnounceType DEF HostTypes, NetTypes
    <2>6. NetTypes'
        BY <1>1, <1>3, <2>2, <2>5 DEF NetTypes
    <2> QED BY <1>2, <2>4, <2>6, TypeParts_
<1>5. CASE peers[c].at \notin {"greeted", "admitted"}
    <2>1. /\ Refuse(c, "ACK")
          /\ UNCHANGED <<owner, down, members, lastRoster, inbound, fastUp, fastDown>>
        BY <1>5 DEF HostAck
    <2>2. peers' \in [Attempts -> PeerTypes] /\ wire' \subseteq Attempts
        BY <1>1, <2>1, RefuseTypes
    <2>3. HostTypes' /\ NetTypes'
        BY <1>1, <1>3, <2>1, <2>2 DEF HostTypes, NetTypes
    <2> QED BY <1>2, <2>3, TypeParts_
<1> QED BY <1>4, <1>5

LEMMA HostReadyTypes ==
    ASSUME TypeOK, NEW c \in Attempts, HostReady(c) PROVE TypeOK'
<1>1. HostTypes /\ NetTypes /\ JoinsTypes /\ BoundTypes
    BY TypeParts
<1>2. HostTypes'
    <2>1. [peers[c] EXCEPT !.ready = TRUE] \in PeerTypes
        BY <1>1, SomeSeat, PeerFields DEF HostTypes
    <2>2. peers' = [peers EXCEPT ![c] = [@ EXCEPT !.ready = TRUE]]
        BY DEF HostReady
    <2>3. peers' \in [Attempts -> PeerTypes]
        BY <1>1, <2>1, <2>2 DEF HostTypes
    <2> QED BY <1>1, <2>3 DEF HostReady, HostTypes
<1>3. NetTypes' /\ JoinsTypes' /\ BoundTypes'
    BY <1>1 DEF HostReady, NetTypes, JoinsTypes, BoundTypes, net, bounds
<1> QED BY <1>2, <1>3, TypeParts_

LEMMA HostFrameTypes ==
    ASSUME TypeOK, NEW c \in Attempts, HostFrame(c) PROVE TypeOK'
<1>1. HostTypes /\ NetTypes /\ JoinsTypes /\ BoundTypes
    BY TypeParts
<1>2. JoinsTypes' /\ BoundTypes'
    BY <1>1 DEF HostFrame, JoinsTypes, BoundTypes, bounds
<1>3. up' \in [Attempts -> Seq(Ups)]
    BY <1>1, TailTypes DEF HostFrame
<1> DEFINE f == Head(up[c])
<1>4. f \in Frames
    BY <1>1, TailTypes, FrameOf DEF HostFrame
<1>5. CASE Genuine(c, f)
    <2>1. /\ inbound' = inbound \cup {Tag(f)} /\ Broadcast(Admitted \ {c}, f)
          /\ UNCHANGED <<peers, wire, owner, members, lastRoster, fastUp, fastDown>>
        BY <1>5 DEF HostFrame
    <2>2. HostTypes'
        BY <1>1, <1>4, <2>1, TagType DEF HostTypes
    <2>3. down' \in [Attempts -> Seq(Downs)]
        BY <1>1, <1>4, <2>1, BroadcastType, FrameDown DEF NetTypes
    <2>4. NetTypes'
        BY <1>1, <1>3, <2>1, <2>3 DEF NetTypes
    <2> QED BY <1>2, <2>2, <2>4, TypeParts_
<1>6. CASE ~Genuine(c, f)
    <2>1. /\ Refuse(c, "FRAME")
          /\ UNCHANGED <<owner, down, members, lastRoster, inbound, fastUp, fastDown>>
        BY <1>6 DEF HostFrame
    <2>2. peers' \in [Attempts -> PeerTypes] /\ wire' \subseteq Attempts
        BY <1>1, <2>1, RefuseTypes
    <2>3. HostTypes' /\ NetTypes'
        BY <1>1, <1>3, <2>1, <2>2 DEF HostTypes, NetTypes
    <2> QED BY <1>2, <2>3, TypeParts_
<1> QED BY <1>5, <1>6

LEMMA HostFastFrameTypes ==
    ASSUME TypeOK, NEW c \in Attempts, HostFastFrame(c) PROVE TypeOK'
<1>1. HostTypes /\ NetTypes /\ JoinsTypes /\ BoundTypes
    BY TypeParts
<1>2. JoinsTypes' /\ BoundTypes'
    BY <1>1 DEF HostFastFrame, JoinsTypes, BoundTypes, bounds
<1>3. PICK f \in fastUp[c] :
         /\ f.type = "FRAME"
         /\ fastUp' = [fastUp EXCEPT ![c] = @ \ {f}]
         /\ IF Genuine(c, f)
            THEN /\ inbound' = inbound \cup {Tag(f)}
                 /\ fastDown' = [d \in Attempts |->
                       IF d \in (Admitted \cap wire) \ {c} /\ peers[d].ready
                       THEN fastDown[d] \cup {f} ELSE fastDown[d]]
                 /\ UNCHANGED <<peers, wire, refused>>
            ELSE Refuse(c, "FRAME") /\ UNCHANGED <<inbound, fastDown>>
    BY DEF HostFastFrame
<1>4. UNCHANGED <<owner, members, lastRoster, up, down>>
    BY DEF HostFastFrame
<1>5. fastUp[c] \subseteq Frames \cup [type : {"PING"}]
    BY <1>1 DEF NetTypes
<1>6. f \in Frames
    BY <1>3, <1>5 DEF Frames
<1>7. fastUp' \in [Attempts -> SUBSET (Frames \cup [type : {"PING"}])]
    BY <1>1, <1>3, <1>5 DEF NetTypes
<1>8. CASE Genuine(c, f)
    <2>1. HostTypes'
        BY <1>1, <1>3, <1>4, <1>6, <1>8, TagType DEF HostTypes
    <2>2. fastDown' \in [Attempts -> SUBSET Frames]
        <3>1. fastDown' = [d \in Attempts |->
                  IF d \in (Admitted \cap wire) \ {c} /\ peers[d].ready
                  THEN fastDown[d] \cup {f} ELSE fastDown[d]]
            BY <1>3, <1>8
        <3>2. ASSUME NEW d \in Attempts
              PROVE  fastDown[d] \cup {f} \in SUBSET Frames
                     /\ fastDown[d] \in SUBSET Frames
            BY <1>1, <1>6 DEF NetTypes
        <3>3. ASSUME NEW d \in Attempts
              PROVE  (IF d \in (Admitted \cap wire) \ {c} /\ peers[d].ready
                      THEN fastDown[d] \cup {f} ELSE fastDown[d]) \in SUBSET Frames
            BY <3>2, Zenon
        <3> QED BY <3>1, <3>3
    <2>3. NetTypes'
        BY <1>1, <1>3, <1>4, <1>7, <1>8, <2>2 DEF NetTypes
    <2> QED BY <1>2, <2>1, <2>3, TypeParts_
<1>9. CASE ~Genuine(c, f)
    <2>1. Refuse(c, "FRAME") /\ UNCHANGED <<inbound, fastDown>>
        BY <1>3, <1>9
    <2>2. peers' \in [Attempts -> PeerTypes] /\ wire' \subseteq Attempts
        BY <1>1, <2>1, RefuseTypes
    <2>3. HostTypes' /\ NetTypes'
        BY <1>1, <1>4, <1>7, <2>1, <2>2 DEF HostTypes, NetTypes
    <2> QED BY <1>2, <2>3, TypeParts_
<1> QED BY <1>8, <1>9

LEMMA HostPingTypes ==
    ASSUME TypeOK, NEW c \in Attempts, HostPing(c) PROVE TypeOK'
<1>1. HostTypes /\ NetTypes /\ JoinsTypes /\ BoundTypes
    BY TypeParts
<1>2. JoinsTypes' /\ BoundTypes'
    BY <1>1 DEF HostPing, JoinsTypes, BoundTypes, bounds
<1>3. PICK f \in fastUp[c] : fastUp' = [fastUp EXCEPT ![c] = @ \ {f}]
    BY DEF HostPing
<1>4. fastUp' \in [Attempts -> SUBSET (Frames \cup [type : {"PING"}])]
    BY <1>1, <1>3 DEF NetTypes
<1>5. UNCHANGED <<owner, members, lastRoster, inbound, up, down, fastDown>>
    BY DEF HostPing
<1>6. peers' \in [Attempts -> PeerTypes] /\ wire' \subseteq Attempts
    BY <1>1, RefuseTypes DEF HostPing, HostTypes, NetTypes
<1>7. HostTypes' /\ NetTypes'
    BY <1>1, <1>4, <1>5, <1>6 DEF HostTypes, NetTypes
<1> QED BY <1>2, <1>7, TypeParts_

LEMMA HostRetireTypes ==
    ASSUME TypeOK, SeatBound, NEW c \in Attempts, HostRetire(c) PROVE TypeOK'
<1>1. HostTypes /\ NetTypes /\ JoinsTypes /\ BoundTypes
    BY TypeParts
<1>2. JoinsTypes' /\ BoundTypes'
    BY <1>1 DEF HostRetire, JoinsTypes, BoundTypes, bounds
<1>3. peers' \in [Attempts -> PeerTypes]
    BY <1>1 DEF HostRetire, HostTypes, NoPeer, PeerTypes
<1>4. /\ up' \in [Attempts -> Seq(Ups)]
      /\ fastUp' \in [Attempts -> SUBSET (Frames \cup [type : {"PING"}])]
      /\ UNCHANGED <<wire, fastDown>>
    BY <1>1 DEF HostRetire, NetTypes
<1>5. CASE peers[c].at = "admitted"
    <2> DEFINE i == peers[c].seat
               o == [owner EXCEPT ![i] = 0]
    <2>1. i \in Seats
        BY <1>1, <1>5 DEF HostTypes, PeerTypes, SeatBound
    <2>2. o \in [Seats -> Incs] /\ members \ {i} \in SUBSET Seats
        BY <1>1, <2>1, MembersAssumption DEF HostTypes, Incs
    <2>3. /\ owner' = o /\ members' = members \ {i}
          /\ inbound' = Flush(inbound, i) /\ lastRoster' = NoRoster
          /\ Announce(Admitted \ {c}, members \ {i}, o)
        BY <1>5 DEF HostRetire
    <2>4. NoRoster \in [members : SUBSET (Seats \cup {0}), owner : [Seats -> Incs]]
        BY MembersAssumption DEF NoRoster, Incs
    <2>5. inbound' \subseteq Tags
        BY <1>1, <2>3 DEF HostTypes, Flush
    <2>6. HostTypes'
        BY <1>3, <2>2, <2>3, <2>4, <2>5 DEF HostTypes
    <2>7. down' \in [Attempts -> Seq(Downs)]
        BY <1>1, <2>2, <2>3, AnnounceType DEF NetTypes
    <2>8. NetTypes'
        BY <1>1, <1>4, <2>7 DEF NetTypes
    <2> QED BY <1>2, <2>6, <2>8, TypeParts_
<1>6. CASE peers[c].at # "admitted"
    <2>1. UNCHANGED <<owner, members, inbound, lastRoster, down>>
        BY <1>6 DEF HostRetire
    <2>2. HostTypes' /\ NetTypes'
        BY <1>1, <1>3, <1>4, <2>1 DEF HostTypes, NetTypes
    <2> QED BY <1>2, <2>2, TypeParts_
<1> QED BY <1>5, <1>6

LEMMA HostRosterTypes == ASSUME TypeOK, HostRoster PROVE TypeOK'
<1>1. HostTypes /\ NetTypes /\ JoinsTypes /\ BoundTypes
    BY TypeParts
<1>2. JoinsTypes' /\ BoundTypes'
    BY <1>1 DEF HostRoster, JoinsTypes, BoundTypes, bounds
<1>3. HostTypes'
    BY <1>1 DEF HostRoster, HostTypes
<1>4. Roster(members, owner) \in Downs
    BY <1>1 DEF HostTypes, Roster, Downs, Rosters
<1>5. down' \in [Attempts -> Seq(Downs)]
    BY <1>1, <1>4, BroadcastType DEF HostRoster, NetTypes
<1>6. NetTypes'
    BY <1>1, <1>5 DEF HostRoster, NetTypes
<1> QED BY <1>2, <1>3, <1>6, TypeParts_

(* What a join makes of a message.                                         *)
LEMMA WelcomeFields ==
    ASSUME NEW r \in JoinTypes, NEW i \in Seats, NEW o \in [Seats -> Incs]
    PROVE  [r EXCEPT !.at = "in", !.seat = i, !.members = {i}, !.owner = o]
               \in JoinTypes
BY DEF JoinTypes

LEMMA WelcomeType ==
    ASSUME NEW r \in JoinTypes, NEW m \in Downs, m.type = "WELCOME"
    PROVE  m.seat \in Seats /\ Welcome(r, m) \in JoinTypes
<1>1. m.seat \in Seats
    BY DEF Downs, Rosters, Frames
<1>2. r.owner \in [Seats -> Incs] /\ r.inc \in Incs
    BY DEF JoinTypes
<1>3. [r.owner EXCEPT ![m.seat] = r.inc] \in [Seats -> Incs]
    BY <1>1, <1>2
<1> QED BY <1>1, <1>3, WelcomeFields DEF Welcome

LEMMA LearnType ==
    ASSUME NEW r \in JoinTypes, NEW m \in Downs, m.type = "ROSTER"
    PROVE  Learn(r, m) \in JoinTypes
<1>1. m.owner \in [Seats -> Incs] /\ m.members \subseteq Seats
    BY DEF Downs, Rosters, Frames
<1>2. Rebind(r, m) \subseteq Tags
    BY DEF Rebind, JoinTypes
<1>3. (m.members \ {r.seat}) \cup (r.members \cap {r.seat}) \subseteq Seats
    BY <1>1 DEF JoinTypes
<1> QED BY <1>1, <1>2, <1>3 DEF Learn, JoinTypes

LEMMA KeepType ==
    ASSUME NEW r \in JoinTypes, NEW f \in Frames
    PROVE  Keep(r, f) \in JoinTypes
<1>1. r.inbound \cup {Tag(f)} \subseteq Tags
    BY TagType DEF JoinTypes
<1> QED BY <1>1 DEF Keep, JoinTypes

LEMMA MessageKinds ==
    ASSUME NEW m \in Downs
    PROVE  m.type \in {"WELCOME", "ROSTER", "FRAME"}
BY DEF Downs, Rosters, Frames

(* JoinReceive, with the message named.                                    *)
Received(j, n) ==
    LET r == joins[j] c == r.inc m == down[c][n] IN
    /\ n \in DOMAIN down[c]
    /\ down' = [down EXCEPT ![c] = Without(@, n)]
    /\ up' = IF m.type = "WELCOME"
             THEN [up EXCEPT ![c] = Put(@, c, [type |-> "ACK"])] ELSE up
    /\ IF (m.type = "WELCOME") = (r.at = "hello")
       THEN /\ joins' = [joins EXCEPT ![j] =
                  CASE m.type = "WELCOME" -> Welcome(r, m)
                    [] m.type = "ROSTER" -> Learn(r, m)
                    [] m.type = "FRAME" -> Keep(r, m)]
            /\ UNCHANGED <<wire, refused>>
       ELSE /\ wire' = wire \ {c} /\ refused' = refused \cup {m.type}
            /\ UNCHANGED joins

LEMMA JoinReceives ==
    ASSUME NEW j \in Joins, JoinReceive(j)
    PROVE  /\ \E n : Received(j, n)
           /\ joins[j].at # "idle"
           /\ UNCHANGED <<host, fastUp, fastDown, bounds>>
BY DEF JoinReceive, Received

LEMMA JoinInc ==
    ASSUME TypeOK, JoinBound, NEW j \in Joins, joins[j].at # "idle"
    PROVE  joins[j] \in JoinTypes /\ joins[j].inc \in Attempts
BY MembersAssumption DEF TypeOK, JoinTypes, JoinBound, JoinFits, Incs, Attempts

LEMMA JoinReceiveTypes ==
    ASSUME TypeOK, JoinBound, NEW j \in Joins, JoinReceive(j) PROVE TypeOK'
<1>1. HostTypes /\ NetTypes /\ JoinsTypes /\ BoundTypes
    BY TypeParts
<1>2. UNCHANGED <<host, fastUp, fastDown, bounds>>
    BY JoinReceives
<1>3. HostTypes' /\ BoundTypes'
    BY <1>1, <1>2 DEF HostTypes, BoundTypes, host, bounds
<1>4. PICK n : Received(j, n)
    BY JoinReceives
<1> DEFINE r == joins[j]
           c == joins[j].inc
           m == down[c][n]
<1>5. r \in JoinTypes /\ c \in Attempts
    BY JoinReceives, JoinInc
<1>6. down[c] \in Seq(Downs) /\ n \in DOMAIN down[c]
    BY <1>1, <1>4, <1>5 DEF NetTypes, Received
<1>7. m \in Downs
    BY <1>6
<1>8. down' \in [Attempts -> Seq(Downs)]
    <2>1. down' = [down EXCEPT ![c] = Without(@, n)]
        BY <1>4 DEF Received
    <2>2. Without(down[c], n) \in Seq(Downs)
        BY <1>6, WithoutType
    <2> QED BY <1>1, <2>1, <2>2 DEF NetTypes
<1>9. up' \in [Attempts -> Seq(Ups)]
    <2>1. up' = IF m.type = "WELCOME"
                THEN [up EXCEPT ![c] = Put(@, c, [type |-> "ACK"])] ELSE up
        BY <1>4 DEF Received
    <2>2. up[c] \in Seq(Ups) /\ [type |-> "ACK"] \in Ups
        BY <1>1, <1>5 DEF NetTypes, Ups
    <2>3. Put(up[c], c, [type |-> "ACK"]) \in Seq(Ups)
        BY <2>2, PutType
    <2> QED BY <1>1, <2>1, <2>3 DEF NetTypes
<1>10. wire' \subseteq Attempts
    BY <1>1, <1>4 DEF Received, NetTypes
<1>11. NetTypes'
    BY <1>1, <1>2, <1>8, <1>9, <1>10 DEF NetTypes
<1>12. JoinsTypes'
    <2> DEFINE s == CASE m.type = "WELCOME" -> Welcome(r, m)
                      [] m.type = "ROSTER" -> Learn(r, m)
                      [] m.type = "FRAME" -> Keep(r, m)
    <2>1. joins' = [joins EXCEPT ![j] = s] \/ joins' = joins
        BY <1>4 DEF Received
    <2>2. CASE m.type = "WELCOME"
        BY <1>1, <1>5, <1>7, <2>1, <2>2, WelcomeType DEF JoinsTypes
    <2>3. CASE m.type = "ROSTER"
        BY <1>1, <1>5, <1>7, <2>1, <2>3, LearnType DEF JoinsTypes
    <2>4. CASE m.type = "FRAME"
        BY <1>1, <1>5, <1>7, <2>1, <2>4, FrameOf, KeepType DEF JoinsTypes
    <2> QED BY <1>7, <2>2, <2>3, <2>4, MessageKinds
<1> QED BY <1>3, <1>11, <1>12, TypeParts_

LEMMA JoinFastFrameTypes ==
    ASSUME TypeOK, JoinBound, NEW j \in Joins, JoinFastFrame(j) PROVE TypeOK'
<1>1. HostTypes /\ NetTypes /\ JoinsTypes /\ BoundTypes
    BY TypeParts
<1>2. HostTypes' /\ BoundTypes'
    BY <1>1 DEF JoinFastFrame, HostTypes, BoundTypes, host, bounds
<1> DEFINE r == joins[j]
           c == joins[j].inc
<1>3. r \in JoinTypes /\ c \in Attempts
    BY JoinInc DEF JoinFastFrame
<1>4. PICK f \in fastDown[c] :
          /\ fastDown' = [fastDown EXCEPT ![c] = @ \ {f}]
          /\ joins' = [joins EXCEPT ![j] = Keep(r, f)]
    BY DEF JoinFastFrame
<1>5. f \in Frames
    BY <1>1, <1>3, <1>4 DEF NetTypes
<1>6. JoinsTypes'
    BY <1>1, <1>3, <1>4, <1>5, KeepType DEF JoinsTypes
<1>7. NetTypes'
    BY <1>1, <1>3, <1>4 DEF JoinFastFrame, NetTypes
<1> QED BY <1>2, <1>6, <1>7, TypeParts_

LEMMA JoinCaptureTypes ==
    ASSUME TypeOK, JoinBound, NEW j \in Joins, JoinCapture(j) PROVE TypeOK'
<1>1. HostTypes /\ NetTypes /\ JoinsTypes /\ BoundTypes
    BY TypeParts
<1>2. HostTypes' /\ JoinsTypes'
    BY <1>1 DEF JoinCapture, HostTypes, JoinsTypes, host
<1>3. BoundTypes'
    BY <1>1, MembersAssumption DEF JoinCapture, BoundTypes
<1> DEFINE r == joins[j]
           c == joins[j].inc
           f == [type |-> "FRAME", seat |-> r.seat, inc |-> c]
<1>4. r \in JoinTypes /\ c \in Attempts /\ r.seat # 0
    BY JoinInc DEF JoinCapture, JoinBound, JoinFits
<1>5. f \in Frames /\ f \in Ups
    BY <1>4 DEF JoinTypes, Frames, Ups
<1>6. up[c] \in Seq(Ups)
    BY <1>1, <1>4 DEF NetTypes
<1>7. /\ \/ up' = [up EXCEPT ![c] = Append(@, f)] /\ UNCHANGED fastUp
         \/ fastUp' = [fastUp EXCEPT ![c] = @ \cup {f}] /\ UNCHANGED up
      /\ UNCHANGED <<wire, down, fastDown>>
    BY DEF JoinCapture
<1> HIDE DEF f, c, r
<1>8. Append(up[c], f) \in Seq(Ups)
    BY <1>5, <1>6
<1>9. up' \in [Attempts -> Seq(Ups)]
    BY <1>1, <1>7, <1>8 DEF NetTypes
<1>10. fastUp' \in [Attempts -> SUBSET (Frames \cup [type : {"PING"}])]
    <2>1. fastUp \in [Attempts -> SUBSET (Frames \cup [type : {"PING"}])]
        BY <1>1 DEF NetTypes
    <2>2. CASE UNCHANGED fastUp
        BY <2>1, <2>2
    <2>3. CASE fastUp' = [fastUp EXCEPT ![c] = @ \cup {f}]
        <3> DEFINE S == Frames \cup [type : {"PING"}]
        <3>1. f \in S
            BY <1>5
        <3> HIDE DEF S
        <3>2. fastUp' \in [Attempts -> SUBSET S]
            BY <2>1, <2>3, <3>1 DEF S
        <3> QED BY <3>2 DEF S
    <2> QED BY <1>7, <2>2, <2>3
<1>11. NetTypes'
    BY <1>1, <1>7, <1>9, <1>10 DEF NetTypes
<1> QED BY <1>2, <1>3, <1>11, TypeParts_

LEMMA JoinPingTypes ==
    ASSUME TypeOK, NEW j \in Joins, JoinPing(j) PROVE TypeOK'
<1>1. HostTypes /\ NetTypes /\ JoinsTypes /\ BoundTypes
    BY TypeParts
<1>2. HostTypes' /\ JoinsTypes'
    BY <1>1 DEF JoinPing, HostTypes, JoinsTypes, host
<1>3. BoundTypes'
    BY <1>1, MembersAssumption DEF JoinPing, BoundTypes
<1>4. NetTypes'
    BY <1>1 DEF JoinPing, NetTypes
<1> QED BY <1>2, <1>3, <1>4, TypeParts_

LEMMA JoinRetireTypes ==
    ASSUME TypeOK, NEW j \in Joins, JoinRetire(j) PROVE TypeOK'
<1>1. HostTypes /\ NetTypes /\ JoinsTypes /\ BoundTypes
    BY TypeParts
<1>2. HostTypes' /\ BoundTypes'
    BY <1>1 DEF JoinRetire, HostTypes, BoundTypes, host, bounds
<1>3. 0 \in Incs
    BY MembersAssumption DEF Incs
<1>4. JoinsTypes'
    BY <1>1, <1>3 DEF JoinRetire, JoinsTypes, JoinTypes
<1>5. NetTypes'
    <2> DEFINE c == joins[j].inc
    <2>1. /\ down' = [down EXCEPT ![c] = <<>>]
          /\ fastDown' = [fastDown EXCEPT ![c] = {}]
          /\ UNCHANGED <<wire, up, fastUp>>
        BY DEF JoinRetire
    <2> HIDE DEF c
    <2>2. <<>> \in Seq(Downs) /\ {} \in SUBSET Frames
        OBVIOUS
    <2>3. down' \in [Attempts -> Seq(Downs)]
        BY <1>1, <2>1, <2>2 DEF NetTypes
    <2>4. fastDown' \in [Attempts -> SUBSET Frames]
        BY <1>1, <2>1, <2>2 DEF NetTypes
    <2> QED BY <1>1, <2>1, <2>3, <2>4 DEF NetTypes
<1> QED BY <1>2, <1>4, <1>5, TypeParts_

(* Draining a leave touches a join's queues only.                          *)
LEMMA DrainFields ==
    ASSUME joins \in [Joins -> JoinTypes], NEW j \in Joins, JoinDrainLeave(j)
    PROVE  /\ UNCHANGED <<host, net, refused, bounds>>
           /\ \A k \in Joins : /\ joins'[k].at = joins[k].at
                               /\ joins'[k].inc = joins[k].inc
                               /\ joins'[k].seat = joins[k].seat
                               /\ joins'[k].owner = joins[k].owner
<1>1. joins' = [joins EXCEPT ![j] = [joins[j] EXCEPT !.left = FALSE, !.inbound = {}]]
    BY DEF JoinDrainLeave
<1>2. joins[j] \in JoinTypes
    OBVIOUS
<1> QED BY <1>1, <1>2 DEF JoinDrainLeave, JoinTypes

LEMMA JoinDrainLeaveTypes ==
    ASSUME TypeOK, NEW j \in Joins, JoinDrainLeave(j) PROVE TypeOK'
<1>1. HostTypes /\ NetTypes /\ JoinsTypes /\ BoundTypes
    BY TypeParts
<1>2. HostTypes' /\ NetTypes' /\ BoundTypes'
    BY <1>1 DEF JoinDrainLeave, HostTypes, NetTypes, BoundTypes, host, net, bounds
<1>3. JoinsTypes'
    BY <1>1 DEF JoinDrainLeave, JoinsTypes, JoinTypes
<1> QED BY <1>2, <1>3, TypeParts_

-----------------------------------------------------------------------------
(* The peers that there are.                                               *)
LEMMA CountKept ==
    ASSUME PeersCounted, NEW c \in Attempts, peers[c].at # "none",
           peers'[c].at # "none", \A d \in Attempts \ {c} : peers'[d] = peers[d],
           attempts' = attempts
    PROVE  PeersCounted'
<1>1. Present' = Present
    BY DEF Present
<1>2. ~(c > attempts)
    BY DEF PeersCounted, NoPeer
<1>3. \A d \in Attempts : d > attempts' => peers'[d] = NoPeer
    BY <1>2 DEF PeersCounted
<1> QED BY <1>1, <1>3 DEF PeersCounted

LEMMA CountSame ==
    ASSUME PeersCounted, UNCHANGED <<peers, attempts>> PROVE PeersCounted'
BY DEF PeersCounted, Present

LEMMA CountRetired ==
    ASSUME PeersCounted, peers \in [Attempts -> PeerTypes], NEW c \in Attempts,
           peers' = [peers EXCEPT ![c] = NoPeer], attempts' = attempts
    PROVE  PeersCounted'
<1>1. Present' \subseteq Present
    BY DEF Present, NoPeer
<1>2. Cardinality(Present') <= Cardinality(Present) /\ Cardinality(Present') \in Nat
    BY <1>1, PresentFinite, FS_Subset, FS_CardinalityType
<1>3. Cardinality(Present') <= MaxJoins
    BY <1>2, PresentFinite, MembersAssumption DEF PeersCounted
<1>4. \A d \in Attempts : d > attempts' => peers'[d] = NoPeer
    BY DEF PeersCounted
<1> QED BY <1>3, <1>4 DEF PeersCounted

LEMMA CountConnected ==
    ASSUME TypeOK, PeersCounted, NEW j \in Joins, Connect(j)
    PROVE  PeersCounted'
<1> DEFINE c == attempts + 1
<1>1. /\ c \in Attempts /\ attempts \in Int /\ attempts' = c
      /\ peers \in [Attempts -> PeerTypes]
    BY MembersAssumption DEF TypeOK, Connect, Incs, Attempts
<1>2. Attempts \subseteq Int
    BY DEF Attempts
<1>3. CASE Cardinality(Present) < MaxJoins
    <2>1. peers' = [peers EXCEPT ![c].at = "open"]
        BY <1>3 DEF Connect
    <2>2. peers[c] = NoPeer
        BY <1>1 DEF PeersCounted
    <2>3. Present' = Present \cup {c} /\ c \notin Present
        BY <1>1, <2>1, <2>2 DEF Present, NoPeer, PeerTypes
    <2>4. Cardinality(Present') = Cardinality(Present) + 1
        BY <2>3, PresentFinite, FS_AddElement
    <2>5. Cardinality(Present') <= MaxJoins
        BY <1>3, <2>4, PresentFinite, MembersAssumption
    <2>6. \A d \in Attempts : d > attempts' => peers'[d] = NoPeer
        BY <1>1, <1>2, <2>1 DEF PeersCounted
    <2> QED BY <2>5, <2>6 DEF PeersCounted
<1>4. CASE ~(Cardinality(Present) < MaxJoins)
    <2>1. peers' = peers
        BY <1>4 DEF Connect
    <2>2. Present' = Present
        BY <2>1 DEF Present
    <2>3. \A d \in Attempts : d > attempts' => peers'[d] = NoPeer
        BY <1>1, <1>2, <2>1 DEF PeersCounted
    <2> QED BY <2>2, <2>3 DEF PeersCounted
<1> QED BY <1>3, <1>4

-----------------------------------------------------------------------------
(* The seats.                                                              *)
SeatsInv == SeatBound /\ MembersSeated /\ HostAttributed

(* A step that leaves every peer its state and its seat.                   *)
SamePeers ==
    /\ \A d \in Attempts : peers'[d].at = peers[d].at /\ peers'[d].seat = peers[d].seat
    /\ UNCHANGED <<owner, members>>

LEMMA SeatsSame ==
    ASSUME SeatsInv, SamePeers, inbound' = inbound PROVE SeatsInv'
<1>1. Admitted' = Admitted
    BY DEF Admitted, SamePeers
<1>2. SeatBound'
    BY DEF SeatsInv, SeatBound, SamePeers
<1>3. \A d \in Admitted : peers'[d].seat = peers[d].seat
    BY DEF SamePeers, Admitted
<1>4. {peers'[d].seat : d \in Admitted} = {peers[d].seat : d \in Admitted}
    BY <1>3
<1>5. MembersSeated'
    BY <1>1, <1>4 DEF SeatsInv, MembersSeated, SamePeers
<1>6. HostAttributed'
    BY <1>1, <1>3 DEF SeatsInv, HostAttributed
<1> QED BY <1>2, <1>5, <1>6 DEF SeatsInv

LEMMA SeatsUnchanged ==
    ASSUME SeatsInv, UNCHANGED host PROVE SeatsInv'
BY SeatsSame DEF host, SamePeers

LEMMA RefuseKeeps ==
    ASSUME HostTypes, PeersCounted, NEW c \in Attempts, NEW type,
           Hears(c), Refuse(c, type), UNCHANGED <<owner, members, attempts>>
    PROVE  SamePeers /\ PeersCounted'
<1>1. peers' = [peers EXCEPT ![c].closed = TRUE]
    BY DEF Refuse
<1>2. \A d \in Attempts \ {c} : peers'[d] = peers[d]
    BY <1>1 DEF HostTypes
<1>3. peers'[c].at = peers[c].at /\ peers'[c].seat = peers[c].seat
    BY <1>1 DEF HostTypes, PeerTypes
<1>4. SamePeers
    BY <1>2, <1>3 DEF SamePeers
<1> QED BY <1>2, <1>3, <1>4, CountKept DEF Hears

(* A genuine frame is the admitted peer's own.                             *)
LEMMA SeatsFrame ==
    ASSUME SeatsInv, UNCHANGED <<peers, owner, members>>,
           NEW c \in Attempts, NEW f, Genuine(c, f), inbound' = inbound \cup {Tag(f)}
    PROVE  SeatsInv'
<1>1. SeatBound' /\ MembersSeated'
    BY DEF SeatsInv, SeatBound, MembersSeated, Admitted
<1>2. Tag(f).inc = c /\ Tag(f).seat = peers[c].seat /\ c \in Admitted
    BY DEF Genuine, Tag, Admitted
<1>3. HostAttributed'
    BY <1>2 DEF SeatsInv, HostAttributed, Admitted
<1> QED BY <1>1, <1>3 DEF SeatsInv

LEMMA SeatsConnected ==
    ASSUME TypeOK, PeersCounted, SeatsInv, NEW j \in Joins, Connect(j)
    PROVE  SeatsInv'
<1> DEFINE c == attempts + 1
<1>1. /\ c \in Attempts /\ c > attempts
      /\ peers \in [Attempts -> PeerTypes]
      /\ UNCHANGED <<owner, members, inbound>>
    BY MembersAssumption DEF TypeOK, Connect, Incs, Attempts
<1>2. peers[c] = NoPeer
    BY <1>1 DEF PeersCounted
<1>3. peers' = [peers EXCEPT ![c].at = "open"] \/ peers' = peers
    BY DEF Connect
<1> HIDE DEF c
<1>4. CASE peers' = peers
    BY <1>1, <1>4, SeatsSame DEF SamePeers
<1>5. CASE peers' = [peers EXCEPT ![c].at = "open"]
    <2>1. /\ peers'[c].at = "open" /\ peers'[c].seat = 0
          /\ \A d \in Attempts \ {c} : peers'[d] = peers[d]
        BY <1>1, <1>2, <1>5 DEF NoPeer, PeerTypes
    <2>2. Admitted' = Admitted /\ c \notin Admitted
        BY <1>2, <2>1 DEF Admitted, NoPeer
    <2>3. SeatBound'
        BY <1>1, <2>1 DEF SeatsInv, SeatBound
    <2>4. \A d \in Admitted : peers'[d].seat = peers[d].seat
        BY <2>1, <2>2 DEF Admitted
    <2>5. MembersSeated'
        BY <1>1, <2>2, <2>4 DEF SeatsInv, MembersSeated
    <2>6. HostAttributed'
        BY <1>1, <2>2, <2>4 DEF SeatsInv, HostAttributed
    <2> QED BY <2>3, <2>5, <2>6 DEF SeatsInv
<1> QED BY <1>3, <1>4, <1>5

HostInv == PeersCounted /\ SeatsInv

LEMMA HelloInv ==
    ASSUME TypeOK, HostInv, NEW c \in Attempts, HostHello(c) PROVE HostInv'
<1>1. HostTypes /\ PeersCounted /\ SeatsInv
    BY TypeParts DEF HostInv
<1>2. Hears(c) /\ UNCHANGED <<members, inbound, attempts>>
    BY DEF HostHello, Receives, bounds
<1>3. CASE peers[c].at # "open"
    <2>1. Refuse(c, "HELLO") /\ UNCHANGED owner
        BY <1>3 DEF HostHello
    <2> QED BY <1>1, <1>2, <2>1, RefuseKeeps, SeatsSame DEF HostInv
<1>4. CASE peers[c].at = "open"
    <2> DEFINE i == FreeSeat(c)
    <2>1. i \in Seats \ Taken(c)
        BY <1>1, <1>4, FreeSeatIsFree DEF HostTypes, Present
    <2>2. /\ peers' = [peers EXCEPT ![c].at = "greeted", ![c].seat = i]
          /\ owner' = [owner EXCEPT ![i] = c]
        BY <1>4 DEF HostHello
    <2> HIDE DEF i
    <2>3. peers'[c].at = "greeted" /\ peers'[c].seat = i
        BY <1>1, <2>2 DEF HostTypes, PeerTypes
    <2>4. \A d \in Attempts \ {c} : peers'[d] = peers[d]
        BY <1>1, <2>2 DEF HostTypes
    <2>5. owner'[i] = c /\ \A k \in Seats \ {i} : owner'[k] = owner[k]
        BY <1>1, <2>1, <2>2 DEF HostTypes
    <2>6. \A d \in Attempts \ {c} : peers[d].at # "none" => peers[d].seat # i
        BY <2>1 DEF Taken, Present
    <2>7. i # 0
        BY <2>1, MembersAssumption DEF Seats
    <2>8. ASSUME NEW d \in Attempts \ {c}, peers[d].at \in {"greeted", "admitted"}
          PROVE  owner'[peers[d].seat] = d
        <3>1. peers[d].seat # 0 /\ owner[peers[d].seat] = d
            BY <1>1, <2>8 DEF SeatsInv, SeatBound
        <3>2. peers[d].seat \in Seats \ {i}
            BY <1>1, <2>6, <2>8, <3>1 DEF HostTypes, PeerTypes
        <3> QED BY <2>5, <3>1, <3>2
    <2>9. SeatBound'
        BY <1>1, <2>3, <2>4, <2>5, <2>7, <2>8 DEF SeatsInv, SeatBound
    <2>10. Admitted' = Admitted /\ c \notin Admitted
        BY <1>4, <2>3, <2>4 DEF Admitted
    <2>11. \A d \in Admitted : peers'[d].seat = peers[d].seat
        BY <2>4, <2>10 DEF Admitted
    <2>12. MembersSeated'
        BY <1>1, <1>2, <2>10, <2>11 DEF SeatsInv, MembersSeated
    <2>13. HostAttributed'
        BY <1>1, <1>2, <2>10, <2>11 DEF SeatsInv, HostAttributed
    <2>14. PeersCounted'
        BY <1>1, <1>2, <1>4, <2>3, <2>4, CountKept
    <2> QED BY <2>9, <2>12, <2>13, <2>14 DEF HostInv, SeatsInv
<1> QED BY <1>3, <1>4

LEMMA AckInv ==
    ASSUME TypeOK, HostInv, NEW c \in Attempts, HostAck(c) PROVE HostInv'
<1>1. HostTypes /\ PeersCounted /\ SeatsInv
    BY TypeParts DEF HostInv
<1>2. Hears(c) /\ UNCHANGED <<owner, inbound, attempts>>
    BY DEF HostAck, Receives, bounds
<1>3. CASE peers[c].at \notin {"greeted", "admitted"}
    <2>1. Refuse(c, "ACK") /\ UNCHANGED members
        BY <1>3 DEF HostAck
    <2> QED BY <1>1, <1>2, <2>1, RefuseKeeps, SeatsSame DEF HostInv
<1>4. CASE peers[c].at \in {"greeted", "admitted"}
    <2>1. /\ peers' = [peers EXCEPT ![c].at = "admitted", ![c].ready = FALSE]
          /\ members' = members \cup {peers[c].seat}
        BY <1>4 DEF HostAck
    <2>2. peers'[c].at = "admitted" /\ peers'[c].seat = peers[c].seat
        BY <1>1, <2>1 DEF HostTypes, PeerTypes
    <2>3. \A d \in Attempts \ {c} : peers'[d] = peers[d]
        BY <1>1, <2>1 DEF HostTypes
    <2>4. SeatBound'
        BY <1>1, <1>2, <1>4, <2>2, <2>3 DEF SeatsInv, SeatBound
    <2>5. Admitted' = Admitted \cup {c}
        BY <2>2, <2>3 DEF Admitted
    <2>6. \A d \in Admitted \cup {c} : peers'[d].seat = peers[d].seat
        BY <2>2, <2>3 DEF Admitted
    <2>7. MembersSeated'
        <3>1. {peers'[d].seat : d \in Admitted \cup {c}}
              = {peers[d].seat : d \in Admitted} \cup {peers[c].seat}
            BY <2>6
        <3> QED BY <1>1, <2>1, <2>5, <3>1 DEF SeatsInv, MembersSeated
    <2>8. HostAttributed'
        BY <1>1, <1>2, <2>5, <2>6 DEF SeatsInv, HostAttributed
    <2>9. PeersCounted'
        BY <1>1, <1>2, <1>4, <2>2, <2>3, CountKept
    <2> QED BY <2>4, <2>7, <2>8, <2>9 DEF HostInv, SeatsInv
<1> QED BY <1>3, <1>4

LEMMA ReadyInv ==
    ASSUME TypeOK, HostInv, NEW c \in Attempts, HostReady(c) PROVE HostInv'
<1>1. HostTypes /\ PeersCounted /\ SeatsInv
    BY TypeParts DEF HostInv
<1>2. /\ peers' = [peers EXCEPT ![c].ready = TRUE] /\ peers[c].at = "admitted"
      /\ UNCHANGED <<owner, members, inbound, attempts>>
    BY DEF HostReady, bounds, Admitted
<1>3. \A d \in Attempts \ {c} : peers'[d] = peers[d]
    BY <1>1, <1>2 DEF HostTypes
<1>4. peers'[c].at = peers[c].at /\ peers'[c].seat = peers[c].seat
    BY <1>1, <1>2 DEF HostTypes, PeerTypes
<1>5. SamePeers
    BY <1>2, <1>3, <1>4 DEF SamePeers
<1> QED BY <1>1, <1>2, <1>3, <1>4, <1>5, CountKept, SeatsSame DEF HostInv

LEMMA FrameInv ==
    ASSUME TypeOK, HostInv, NEW c \in Attempts, HostFrame(c) PROVE HostInv'
<1>1. HostTypes /\ PeersCounted /\ SeatsInv
    BY TypeParts DEF HostInv
<1>2. Hears(c) /\ UNCHANGED <<owner, members, attempts>>
    BY DEF HostFrame, Receives, bounds
<1>3. CASE Genuine(c, Head(up[c]))
    <2>1. inbound' = inbound \cup {Tag(Head(up[c]))} /\ UNCHANGED peers
        BY <1>3 DEF HostFrame
    <2> QED BY <1>1, <1>2, <1>3, <2>1, SeatsFrame, CountSame DEF HostInv
<1>4. CASE ~Genuine(c, Head(up[c]))
    <2>1. Refuse(c, "FRAME") /\ UNCHANGED inbound
        BY <1>4 DEF HostFrame
    <2> QED BY <1>1, <1>2, <2>1, RefuseKeeps, SeatsSame DEF HostInv
<1> QED BY <1>3, <1>4

LEMMA FastFrameInv ==
    ASSUME TypeOK, HostInv, NEW c \in Attempts, HostFastFrame(c) PROVE HostInv'
<1>1. HostTypes /\ PeersCounted /\ SeatsInv
    BY TypeParts DEF HostInv
<1>2. Hears(c) /\ UNCHANGED <<owner, members, attempts>>
    BY DEF HostFastFrame, bounds
<1>3. PICK f \in fastUp[c] :
          IF Genuine(c, f)
          THEN inbound' = inbound \cup {Tag(f)} /\ UNCHANGED peers
          ELSE Refuse(c, "FRAME") /\ UNCHANGED inbound
    BY DEF HostFastFrame
<1>4. CASE Genuine(c, f)
    BY <1>1, <1>2, <1>3, <1>4, SeatsFrame, CountSame DEF HostInv
<1>5. CASE ~Genuine(c, f)
    BY <1>1, <1>2, <1>3, <1>5, RefuseKeeps, SeatsSame DEF HostInv
<1> QED BY <1>4, <1>5

LEMMA PingInv ==
    ASSUME TypeOK, HostInv, NEW c \in Attempts, HostPing(c) PROVE HostInv'
<1>1. HostTypes /\ PeersCounted /\ SeatsInv
    BY TypeParts DEF HostInv
<1>2. Hears(c) /\ UNCHANGED <<owner, members, inbound, attempts>>
    BY DEF HostPing, bounds
<1>3. Refuse(c, "PING") \/ UNCHANGED peers
    BY DEF HostPing
<1>4. CASE Refuse(c, "PING")
    BY <1>1, <1>2, <1>4, RefuseKeeps, SeatsSame DEF HostInv
<1>5. CASE UNCHANGED peers
    BY <1>1, <1>2, <1>5, SeatsUnchanged, SeatsSame, CountSame DEF HostInv, SamePeers
<1> QED BY <1>3, <1>4, <1>5

(* A retired peer's seat is nobody else's, so only its own bit goes.       *)
LEMMA RetireInv ==
    ASSUME TypeOK, HostInv, NEW c \in Attempts, HostRetire(c) PROVE HostInv'
<1>1. HostTypes /\ PeersCounted /\ SeatsInv
    BY TypeParts DEF HostInv
<1>2. peers' = [peers EXCEPT ![c] = NoPeer] /\ UNCHANGED attempts
    BY DEF HostRetire, bounds
<1>3. PeersCounted'
    BY <1>1, <1>2, CountRetired DEF HostTypes
<1>4. /\ peers'[c].at = "none" /\ peers'[c].seat = 0
      /\ \A d \in Attempts \ {c} : peers'[d] = peers[d]
    BY <1>1, <1>2 DEF HostTypes, NoPeer
<1>5. Admitted' = Admitted \ {c}
    BY <1>4 DEF Admitted
<1>6. CASE peers[c].at # "admitted"
    <2>1. UNCHANGED <<owner, members, inbound>> /\ c \notin Admitted
        BY <1>6 DEF HostRetire, Admitted
    <2>2. SeatBound'
        BY <1>1, <1>4, <2>1 DEF SeatsInv, SeatBound
    <2>3. \A d \in Admitted : peers'[d].seat = peers[d].seat
        BY <1>4, <2>1 DEF Admitted
    <2>4. Admitted' = Admitted
        BY <1>5, <2>1
    <2>5. MembersSeated' /\ HostAttributed'
        BY <1>1, <2>1, <2>3, <2>4 DEF SeatsInv, MembersSeated, HostAttributed
    <2> QED BY <1>3, <2>2, <2>5 DEF HostInv, SeatsInv
<1>7. CASE peers[c].at = "admitted"
    <2> DEFINE i == peers[c].seat
    <2>1. /\ owner' = [owner EXCEPT ![i] = 0] /\ members' = members \ {i}
          /\ inbound' = {f \in inbound : f.seat # i}
        BY <1>7 DEF HostRetire, Flush
    <2>2. owner[i] = c /\ i \in Seats
        BY <1>1, <1>7 DEF SeatsInv, SeatBound, HostTypes, PeerTypes
    <2> HIDE DEF i
    <2>3. ASSUME NEW d \in Attempts \ {c}, peers[d].at \in {"greeted", "admitted"}
          PROVE  /\ peers[d].seat \in Seats \ {i}
                 /\ peers[d].seat # 0 /\ owner'[peers[d].seat] = d
        <3>1. peers[d].seat # 0 /\ owner[peers[d].seat] = d
            BY <1>1, <2>3 DEF SeatsInv, SeatBound
        <3>2. peers[d].seat \in Seats \ {i}
            BY <1>1, <2>2, <2>3, <3>1 DEF HostTypes, PeerTypes
        <3> QED BY <1>1, <2>1, <3>1, <3>2 DEF HostTypes
    <2>4. SeatBound'
        BY <1>1, <1>4, <2>3 DEF SeatsInv, SeatBound
    <2>5. \A d \in Admitted \ {c} : peers'[d].seat = peers[d].seat
                                    /\ peers[d].seat # i
        BY <1>4, <2>3 DEF Admitted
    <2>6. {peers'[d].seat : d \in Admitted \ {c}}
          = {peers[d].seat : d \in Admitted} \ {i}
        BY <2>5 DEF i
    <2>7. MembersSeated'
        BY <1>1, <1>5, <2>1, <2>6 DEF SeatsInv, MembersSeated
    <2>8. HostAttributed'
        BY <1>1, <1>5, <2>1, <2>5 DEF SeatsInv, HostAttributed, i
    <2> QED BY <1>3, <2>4, <2>7, <2>8 DEF HostInv, SeatsInv
<1> QED BY <1>6, <1>7

LEMMA SameHost ==
    ASSUME HostInv, UNCHANGED <<peers, owner, members, inbound, attempts>>
    PROVE  HostInv'
<1>1. SamePeers
    BY DEF SamePeers
<1> QED BY <1>1, SeatsSame, CountSame DEF HostInv

-----------------------------------------------------------------------------
(* The joins.                                                              *)
LEMMA JoinFitsAll == JoinBound <=> \A j \in Joins : JoinFits(joins[j])
BY DEF JoinBound

LEMMA JoinFitsAll_ == JoinBound' <=> \A j \in Joins : JoinFits(joins'[j])
BY DEF JoinBound

LEMMA OneJoin ==
    ASSUME JoinBound, joins \in [Joins -> JoinTypes], NEW j \in Joins, NEW r,
           JoinFits(r), joins' = [joins EXCEPT ![j] = r]
    PROVE  JoinBound'
<1>1. \A k \in Joins : joins'[k] = IF k = j THEN r ELSE joins[k]
    OBVIOUS
<1>2. \A k \in Joins : JoinFits(joins[k])
    BY JoinFitsAll
<1>3. \A k \in Joins : JoinFits(joins'[k])
    BY <1>1, <1>2
<1> QED BY <1>3, JoinFitsAll_

LEMMA JoinsSame == ASSUME JoinBound, UNCHANGED joins PROVE JoinBound'
BY DEF JoinBound

(* WELCOME binds the own seat and flushes nothing.                         *)
LEMMA WelcomeFits ==
    ASSUME NEW r \in JoinTypes, JoinFits(r), r.at = "hello",
           NEW m, m.seat \in Seats
    PROVE  JoinFits(Welcome(r, m))
<1>1. m.seat # 0
    BY MembersAssumption DEF Seats
<1>2. /\ Welcome(r, m).at = "in" /\ Welcome(r, m).seat = m.seat
      /\ Welcome(r, m).inbound = r.inbound /\ Welcome(r, m).inc = r.inc
      /\ Welcome(r, m).left = r.left
      /\ Welcome(r, m).owner = [r.owner EXCEPT ![m.seat] = r.inc]
    BY DEF Welcome, JoinTypes
<1>3. r.inc # 0 /\ (~r.left => r.inbound = {})
      /\ \A i \in Seats : r.owner[i] = 0
    BY DEF JoinFits
<1>4. \A i \in Seats : Welcome(r, m).owner[i] \in {0, r.inc}
    BY <1>2, <1>3 DEF JoinTypes
<1>5. \A f \in r.inbound : f.seat \in Seats
    BY DEF JoinTypes, Tags
<1>6. \A f, g \in r.inbound : f.seat = g.seat => f.inc = g.inc
    BY DEF JoinFits
<1> QED BY <1>1, <1>2, <1>3, <1>4, <1>5, <1>6 DEF JoinFits

(* What a roster leaves queued is bound as it was.                         *)
LEMMA LearnFits ==
    ASSUME NEW r \in JoinTypes, JoinFits(r), r.at = "in", NEW m
    PROVE  JoinFits(Learn(r, m))
<1>1. /\ Learn(r, m).at = r.at /\ Learn(r, m).inc = r.inc
      /\ Learn(r, m).seat = r.seat /\ Learn(r, m).owner = m.owner
      /\ Learn(r, m).inbound = Rebind(r, m) /\ Learn(r, m).left = r.left
    BY DEF Learn, JoinTypes
<1>2. \A f \in Rebind(r, m) : f \in r.inbound /\ m.owner[f.seat] = r.owner[f.seat]
    BY DEF Rebind
<1> QED BY <1>1, <1>2 DEF JoinFits

(* A seat that is bound to another has no older frame waiting.             *)
LEMMA KeepFits ==
    ASSUME NEW r \in JoinTypes, JoinFits(r), r.at = "in", NEW f \in Frames,
           f.inc # r.inc
    PROVE  JoinFits(Keep(r, f))
<1>1. CASE ~Bound(r, f)
    BY <1>1 DEF Keep
<1>2. CASE Bound(r, f)
    <2>1. Keep(r, f) = [r EXCEPT !.inbound = r.inbound \cup {Tag(f)}]
        BY <1>2 DEF Keep
    <2>2. /\ Keep(r, f).at = r.at /\ Keep(r, f).inc = r.inc
          /\ Keep(r, f).seat = r.seat /\ Keep(r, f).owner = r.owner
          /\ Keep(r, f).inbound = r.inbound \cup {Tag(f)}
          /\ Keep(r, f).left = r.left
        BY <2>1 DEF JoinTypes
    <2>3. r.owner[Tag(f).seat] = Tag(f).inc /\ Tag(f).inc = f.inc
        BY <1>2 DEF Bound, Tag
    <2>4. f.inc # 0
        BY MembersAssumption DEF Frames, Attempts
    <2>5. ASSUME NEW g \in r.inbound, g.seat = Tag(f).seat PROVE g.inc = Tag(f).inc
        <3>1. r.owner[g.seat] \in {0, r.inc, g.inc}
            BY DEF JoinFits
        <3> QED BY <2>3, <2>4, <2>5, <3>1
    <2>6. \A g, h \in Keep(r, f).inbound : g.seat = h.seat => g.inc = h.inc
        BY <2>2, <2>5 DEF JoinFits
    <2> QED BY <2>2, <2>3, <2>6 DEF JoinFits
<1> QED BY <1>1, <1>2

LEMMA ConnectJoin ==
    ASSUME TypeOK, JoinBound, NEW j \in Joins, Connect(j) PROVE JoinBound'
<1> DEFINE r == joins[j]
           s == [r EXCEPT !.at = "hello", !.inc = attempts + 1,
                          !.owner = [i \in Seats |-> 0]]
<1>1. r \in JoinTypes /\ attempts + 1 # 0 /\ joins \in [Joins -> JoinTypes]
    BY MembersAssumption DEF TypeOK, Incs
<1>2. r.at = "idle" /\ JoinFits(r)
    BY DEF Connect, JoinBound
<1>3. /\ s.at = "hello" /\ s.inc = attempts + 1 /\ s.inbound = r.inbound
      /\ s.left = r.left /\ s.owner = [i \in Seats |-> 0]
    BY <1>1 DEF JoinTypes
<1>4. joins' = [joins EXCEPT ![j] = s]
    BY DEF Connect
<1> HIDE DEF s, r
<1>5. JoinFits(s)
    BY <1>1, <1>2, <1>3 DEF JoinFits
<1> QED BY <1>1, <1>4, <1>5, OneJoin

LEMMA RetireJoin ==
    ASSUME TypeOK, JoinBound, NEW j \in Joins, JoinRetire(j) PROVE JoinBound'
<1> DEFINE r == joins[j]
           s == [r EXCEPT !.at = "idle", !.inc = 0, !.seat = 0, !.members = {},
                          !.left = TRUE]
<1>1. r \in JoinTypes /\ joins \in [Joins -> JoinTypes] /\ JoinFits(r)
    BY DEF TypeOK, JoinBound
<1>2. s.at = "idle" /\ s.inbound = r.inbound /\ s.left = TRUE
    BY <1>1 DEF JoinTypes
<1>3. joins' = [joins EXCEPT ![j] = s]
    BY DEF JoinRetire
<1> HIDE DEF s, r
<1>4. JoinFits(s)
    BY <1>1, <1>2 DEF JoinFits
<1> QED BY <1>1, <1>3, <1>4, OneJoin

LEMMA DrainJoin ==
    ASSUME TypeOK, JoinBound, NEW j \in Joins, JoinDrainLeave(j) PROVE JoinBound'
<1> DEFINE r == joins[j]
           s == [r EXCEPT !.left = FALSE, !.inbound = {}]
<1>1. r \in JoinTypes /\ joins \in [Joins -> JoinTypes] /\ JoinFits(r)
    BY DEF TypeOK, JoinBound
<1>2. /\ s.at = r.at /\ s.inc = r.inc /\ s.seat = r.seat /\ s.owner = r.owner
      /\ s.inbound = {}
    BY <1>1 DEF JoinTypes
<1>3. joins' = [joins EXCEPT ![j] = s]
    BY DEF JoinDrainLeave
<1> HIDE DEF s, r
<1>4. JoinFits(s)
    BY <1>1, <1>2 DEF JoinFits
<1> QED BY <1>1, <1>3, <1>4, OneJoin

LEMMA FastFrameJoin ==
    ASSUME TypeOK, JoinBound, NoEcho, NEW j \in Joins, JoinFastFrame(j)
    PROVE  JoinBound'
<1>1. PICK f \in fastDown[joins[j].inc] :
          joins' = [joins EXCEPT ![j] = Keep(joins[j], f)]
    BY DEF JoinFastFrame
<1>2. joins[j] \in JoinTypes /\ joins \in [Joins -> JoinTypes]
    BY DEF TypeOK
<1>3. JoinFits(joins[j]) /\ joins[j].at = "in"
    BY JoinFitsAll DEF JoinFastFrame
<1>4. f \in Frames /\ f.inc # joins[j].inc
    BY <1>1, <1>3, JoinInc DEF TypeOK, NoEcho
<1>5. JoinFits(Keep(joins[j], f))
    BY <1>2, <1>3, <1>4, KeepFits
<1> QED BY <1>1, <1>2, <1>5, OneJoin

LEMMA ReceiveJoin ==
    ASSUME TypeOK, JoinBound, NoEcho, NEW j \in Joins, JoinReceive(j)
    PROVE  JoinBound'
<1>1. PICK n : Received(j, n)
    BY JoinReceives
<1> DEFINE r == joins[j]
           c == joins[j].inc
           m == down[c][n]
           s == CASE m.type = "WELCOME" -> Welcome(r, m)
                  [] m.type = "ROSTER" -> Learn(r, m)
                  [] m.type = "FRAME" -> Keep(r, m)
<1>2. r \in JoinTypes /\ c \in Attempts /\ joins \in [Joins -> JoinTypes]
    BY JoinReceives, JoinInc DEF TypeOK
<1>3. JoinFits(r) /\ r.at # "idle"
    BY JoinFitsAll, JoinReceives
<1>4. m \in Downs
    <2>1. down[c] \in Seq(Downs) /\ n \in DOMAIN down[c]
        BY <1>1, <1>2 DEF TypeOK, Received
    <2> QED BY <2>1
<1>5. \/ UNCHANGED joins
      \/ (m.type = "WELCOME") = (r.at = "hello") /\ joins' = [joins EXCEPT ![j] = s]
    BY <1>1 DEF Received
<1>6. CASE UNCHANGED joins
    BY <1>6, JoinsSame
<1>7. m.type = "FRAME" => m \in Frames /\ m.inc # r.inc
    <2>1. n \in DOMAIN down[c]
        BY <1>1 DEF Received
    <2> QED BY <1>2, <1>4, <2>1, FrameOf DEF NoEcho, Others
<1>8. CASE /\ (m.type = "WELCOME") = (r.at = "hello")
           /\ joins' = [joins EXCEPT ![j] = s]
    <2>1. CASE m.type = "WELCOME"
        <3>1. r.at = "hello" /\ s = Welcome(r, m)
            BY <1>8, <2>1
        <3>2. JoinFits(s)
            BY <1>2, <1>3, <1>4, <2>1, <3>1, WelcomeType, WelcomeFits
        <3> QED BY <1>2, <1>8, <3>2, OneJoin
    <2>2. CASE m.type # "WELCOME"
        <3>1. r.at = "in"
            BY <1>2, <1>3, <1>8, <2>2 DEF JoinTypes
        <3>2. s = Learn(r, m) \/ (s = Keep(r, m) /\ m.type = "FRAME")
            BY <1>4, <2>2, MessageKinds
        <3>3. JoinFits(s)
            BY <1>2, <1>3, <1>7, <3>1, <3>2, LearnFits, KeepFits
        <3> QED BY <1>2, <1>8, <3>3, OneJoin
    <2> QED BY <2>1, <2>2
<1> QED BY <1>5, <1>6, <1>8

-----------------------------------------------------------------------------
(* Appending to a lane, and taking from it.                                *)
LEMMA LaneAppend ==
    ASSUME NEW S, NEW s \in Seq(S), NEW m \in S
    PROVE  /\ DOMAIN Append(s, m) = (DOMAIN s) \cup {Len(s) + 1} /\ DOMAIN s = 1 .. Len(s)
           /\ \A i \in DOMAIN s : Append(s, m)[i] = s[i]
           /\ Append(s, m)[Len(s) + 1] = m /\ Append(s, m) \in Seq(S)
           /\ Len(s) \in Nat /\ Len(Append(s, m)) = Len(s) + 1
OBVIOUS

LEMMA LaneTail ==
    ASSUME NEW S, NEW s \in Seq(S), s # <<>>
    PROVE  /\ 1 \in DOMAIN s /\ s[1] = Head(s)
           /\ \A i \in DOMAIN Tail(s) : i + 1 \in DOMAIN s /\ Tail(s)[i] = s[i + 1]
<1>1. /\ DOMAIN s = 1 .. Len(s) /\ DOMAIN Tail(s) = 1 .. Len(s) - 1
      /\ Len(s) \in Nat /\ Len(s) # 0
    OBVIOUS
<1> QED BY <1>1

LEMMA LaneConcat ==
    ASSUME NEW S, NEW a \in Seq(S), NEW b \in Seq(S)
    PROVE  /\ a \o b \in Seq(S) /\ Len(a \o b) = Len(a) + Len(b)
           /\ \A i \in 1 .. Len(a) + Len(b) :
                  (a \o b)[i] = IF i <= Len(a) THEN a[i] ELSE b[i - Len(a)]
OBVIOUS

LEMMA LaneWithout ==
    ASSUME NEW S, NEW s \in Seq(S), NEW n \in DOMAIN s
    PROVE  /\ DOMAIN s = 1 .. Len(s) /\ Len(s) \in Nat /\ n \in Nat
           /\ Without(s, n) \in Seq(S) /\ Len(Without(s, n)) = Len(s) - 1
           /\ DOMAIN Without(s, n) = 1 .. Len(s) - 1
           /\ \A i \in 1 .. Len(s) - 1 :
                  Without(s, n)[i] = IF i < n THEN s[i] ELSE s[i + 1]
<1>1. DOMAIN s = 1 .. Len(s) /\ Len(s) \in Nat /\ n \in 1 .. Len(s)
    OBVIOUS
<1> DEFINE a == SubSeq(s, 1, n - 1) b == SubSeq(s, n + 1, Len(s))
<1>2. /\ a \in Seq(S) /\ Len(a) = n - 1 /\ \A i \in 1 .. n - 1 : a[i] = s[i]
    BY <1>1
<1>3. /\ b \in Seq(S) /\ Len(b) = Len(s) - n
      /\ \A i \in 1 .. Len(s) - n : b[i] = s[n + i]
    BY <1>1
<1> HIDE DEF a, b
<1>4. /\ a \o b \in Seq(S) /\ Len(a \o b) = Len(s) - 1
      /\ \A i \in 1 .. Len(s) - 1 :
             (a \o b)[i] = IF i < n THEN a[i] ELSE b[i - (n - 1)]
    <2>1. a \o b \in Seq(S) /\ Len(a \o b) = Len(a) + Len(b)
        BY <1>2, <1>3, LaneConcat
    <2>2. (n - 1) + (Len(s) - n) = Len(s) - 1
        BY <1>1
    <2>3. ASSUME NEW i \in 1 .. Len(a) + Len(b)
          PROVE  (a \o b)[i] = IF i <= Len(a) THEN a[i] ELSE b[i - Len(a)]
        BY <1>2, <1>3, LaneConcat
    <2>4. \A i \in 1 .. Len(s) - 1 : i <= n - 1 <=> i < n
        BY <1>1
    <2> QED BY <1>2, <1>3, <2>1, <2>2, <2>3, <2>4
<1>5. ASSUME NEW i \in 1 .. Len(s) - 1
      PROVE  (a \o b)[i] = IF i < n THEN s[i] ELSE s[i + 1]
    <2>1. CASE i < n
        BY <1>1, <1>2, <1>4, <2>1
    <2>2. CASE ~(i < n)
        <3>1. i - (n - 1) \in 1 .. Len(s) - n /\ n + (i - (n - 1)) = i + 1
            BY <1>1, <2>2
        <3>2. (a \o b)[i] = b[i - (n - 1)]
            BY <1>4, <2>2
        <3> QED BY <1>3, <2>2, <3>1, <3>2
    <2> QED BY <2>1, <2>2
<1>6. DOMAIN (a \o b) = 1 .. Len(s) - 1
    BY <1>4
<1> DEFINE w == a \o b
<1>7. /\ w \in Seq(S) /\ Len(w) = Len(s) - 1 /\ DOMAIN w = 1 .. Len(s) - 1
      /\ \A i \in 1 .. Len(s) - 1 : w[i] = IF i < n THEN s[i] ELSE s[i + 1]
    BY <1>4, <1>5, <1>6
<1>8. Without(s, n) = w
    BY DEF Without, a, b
<1> HIDE DEF w
<1>9. n \in Nat
    BY <1>1
<1> QED BY <1>1, <1>7, <1>8, <1>9, Zenon

(* Members are not sent their own frames.                                  *)
LEMMA PutOthers ==
    ASSUME NEW q \in Seq(Downs), NEW m \in Downs, NEW c, NEW d, Others(c, q),
           m.type = "FRAME" => m.inc # c
    PROVE  Others(c, Put(q, d, m))
BY DEF Others, Put

LEMMA BroadcastOthers ==
    ASSUME NoEcho, down \in [Attempts -> Seq(Downs)], NEW to, NEW m \in Downs,
           Broadcast(to, m), m.type = "FRAME" => m.inc \notin to,
           UNCHANGED fastDown
    PROVE  NoEcho'
<1>1. ASSUME NEW c \in Attempts PROVE Others(c, down'[c])
    <2>1. Others(c, down[c]) /\ down[c] \in Seq(Downs)
        BY DEF NoEcho
    <2>2. CASE c \in to
        <3>1. down'[c] = Put(down[c], c, m)
            BY <2>2 DEF Broadcast
        <3> QED BY <2>1, <2>2, <3>1, PutOthers
    <2>3. CASE c \notin to
        BY <2>1, <2>3 DEF Broadcast
    <2> QED BY <2>2, <2>3
<1> QED BY <1>1 DEF NoEcho

LEMMA AnnounceOthers ==
    ASSUME NoEcho, down \in [Attempts -> Seq(Downs)], NEW to, NEW m \in SUBSET Seats,
           NEW o \in [Seats -> Incs], Announce(to, m, o), UNCHANGED fastDown
    PROVE  NoEcho'
<1>1. Roster(m, o) \in Downs /\ Roster(m, o).type # "FRAME"
    BY DEF Roster, Downs, Rosters
<1> QED BY <1>1, BroadcastOthers DEF Announce

LEMMA OneLaneOthers ==
    ASSUME NoEcho, down \in [Attempts -> Seq(Downs)], NEW c \in Attempts, NEW q,
           down' = [down EXCEPT ![c] = q], Others(c, q),
           \A d \in Attempts : fastDown'[d] \subseteq fastDown[d]
    PROVE  NoEcho'
<1>1. \A d \in Attempts : down'[d] = IF d = c THEN q ELSE down[d]
    OBVIOUS
<1> QED BY <1>1 DEF NoEcho

LEMMA WithoutOthers ==
    ASSUME NEW q \in Seq(Downs), NEW n \in DOMAIN q, NEW c, Others(c, q)
    PROVE  Others(c, Without(q, n))
<1>1. PICK w : w = Without(q, n)
    OBVIOUS
<1>2. /\ DOMAIN w = 1 .. Len(q) - 1 /\ DOMAIN q = 1 .. Len(q)
      /\ Len(q) \in Nat /\ n \in Nat
      /\ \A i \in 1 .. Len(q) - 1 : w[i] = IF i < n THEN q[i] ELSE q[i + 1]
    BY <1>1, LaneWithout
<1>3. \A i \in 1 .. Len(q) - 1 : w[i] = q[i] \/ w[i] = q[i + 1]
    BY <1>2
<1>4. ASSUME NEW i \in DOMAIN w, w[i].type = "FRAME" PROVE w[i].inc # c
    BY <1>2, <1>3, <1>4 DEF Others
<1> QED BY <1>1, <1>4 DEF Others

LEMMA SameLanes ==
    ASSUME NoEcho, UNCHANGED <<down, fastDown>> PROVE NoEcho'
BY DEF NoEcho, Others

LEMMA HelloOthers ==
    ASSUME TypeOK, PeersCounted, NoEcho, NEW c \in Attempts, HostHello(c)
    PROVE  NoEcho'
<1> DEFINE i == FreeSeat(c)
           m == [type |-> "WELCOME", seat |-> i]
<1>1. CASE peers[c].at = "open"
    <2>1. c \in Present
        BY <1>1 DEF Present
    <2>2. i \in Seats
        BY <2>1, FreeSeatIsFree DEF TypeOK
    <2> HIDE DEF i
    <2>3. m \in Downs /\ m.type # "FRAME"
        BY <2>2 DEF Downs
    <2>4. down[c] \in Seq(Downs) /\ Others(c, down[c]) /\ down \in [Attempts -> Seq(Downs)]
        BY DEF TypeOK, NoEcho
    <2>5. down' = [down EXCEPT ![c] = Put(down[c], c, m)] /\ UNCHANGED fastDown
        BY <1>1 DEF HostHello, i
    <2> HIDE DEF m
    <2>6. Others(c, Put(down[c], c, m))
        BY <2>3, <2>4, PutOthers
    <2> QED BY <2>4, <2>5, <2>6, OneLaneOthers
<1>2. CASE peers[c].at # "open"
    BY <1>2, SameLanes DEF HostHello
<1> QED BY <1>1, <1>2

LEMMA AckOthers ==
    ASSUME TypeOK, SeatBound, NoEcho, NEW c \in Attempts, HostAck(c) PROVE NoEcho'
<1>1. /\ down \in [Attempts -> Seq(Downs)] /\ owner \in [Seats -> Incs]
      /\ members \subseteq Seats /\ peers[c] \in PeerTypes
    BY DEF TypeOK
<1>2. UNCHANGED fastDown
    BY DEF HostAck
<1>3. CASE UNCHANGED down
    BY <1>2, <1>3, SameLanes
<1>4. CASE /\ peers[c].at \in {"greeted", "admitted"}
           /\ Announce(Admitted \cup {c}, members \cup {peers[c].seat}, owner)
    <2>1. peers[c].seat \in Seats
        BY <1>1, <1>4 DEF SeatBound, PeerTypes
    <2> QED BY <1>1, <1>2, <1>4, <2>1, AnnounceOthers
<1> QED BY <1>3, <1>4 DEF HostAck

LEMMA FrameOthers ==
    ASSUME TypeOK, NoEcho, NEW c \in Attempts, HostFrame(c) PROVE NoEcho'
<1>1. NetTypes
    BY TypeParts
<1>2. UNCHANGED fastDown
    BY DEF HostFrame
<1> DEFINE f == Head(up[c])
<1>3. f \in Frames
    BY <1>1, TailTypes, FrameOf DEF HostFrame
<1>4. CASE Genuine(c, f)
    <2>1. Broadcast(Admitted \ {c}, f) /\ f.inc \notin Admitted \ {c}
        BY <1>4 DEF HostFrame, Genuine
    <2> HIDE DEF f
    <2> QED BY <1>1, <1>2, <1>3, <2>1, FrameDown, BroadcastOthers DEF NetTypes
<1>5. CASE ~Genuine(c, f)
    BY <1>2, <1>5, SameLanes DEF HostFrame
<1> QED BY <1>4, <1>5

LEMMA FastFrameOthers ==
    ASSUME TypeOK, NoEcho, NEW c \in Attempts, HostFastFrame(c) PROVE NoEcho'
<1>1. PICK f : \/ UNCHANGED fastDown
               \/ /\ f.inc = c
                  /\ fastDown' = [d \in Attempts |->
                        IF d \in (Admitted \cap wire) \ {c} /\ peers[d].ready
                        THEN fastDown[d] \cup {f} ELSE fastDown[d]]
    BY DEF HostFastFrame, Genuine
<1>2. UNCHANGED down
    BY DEF HostFastFrame
<1>3. CASE UNCHANGED fastDown
    BY <1>2, <1>3, SameLanes
<1>4. CASE /\ f.inc = c
           /\ fastDown' = [d \in Attempts |->
                 IF d \in (Admitted \cap wire) \ {c} /\ peers[d].ready
                 THEN fastDown[d] \cup {f} ELSE fastDown[d]]
    <2>1. ASSUME NEW d \in Attempts, NEW g \in fastDown'[d] PROVE g.inc # d
        <3>1. g \in fastDown[d] \/ (g = f /\ d # c)
            BY <1>4, <2>1
        <3> QED BY <1>4, <3>1 DEF NoEcho
    <2> QED BY <1>2, <2>1 DEF NoEcho
<1> QED BY <1>1, <1>3, <1>4

LEMMA RetireOthers ==
    ASSUME TypeOK, SeatBound, NoEcho, NEW c \in Attempts, HostRetire(c) PROVE NoEcho'
<1>1. /\ down \in [Attempts -> Seq(Downs)] /\ owner \in [Seats -> Incs]
      /\ members \subseteq Seats /\ peers[c] \in PeerTypes
    BY DEF TypeOK
<1>2. UNCHANGED fastDown
    BY DEF HostRetire
<1>3. CASE peers[c].at # "admitted"
    BY <1>2, <1>3, SameLanes DEF HostRetire
<1>4. CASE peers[c].at = "admitted"
    <2> DEFINE i == peers[c].seat
               o == [owner EXCEPT ![i] = 0]
    <2>1. Announce(Admitted \ {c}, members \ {i}, o)
        BY <1>4 DEF HostRetire
    <2>2. 0 \in Incs
        BY MembersAssumption DEF Incs
    <2>3. o \in [Seats -> Incs]
        BY <1>1, <2>2
    <2>4. members \ {i} \in SUBSET Seats
        BY <1>1
    <2> HIDE DEF o, i
    <2> QED BY <1>1, <1>2, <2>1, <2>3, <2>4, AnnounceOthers
<1> QED BY <1>3, <1>4

LEMMA RosterOthers == ASSUME TypeOK, NoEcho, HostRoster PROVE NoEcho'
<1>1. Roster(members, owner) \in Downs /\ Roster(members, owner).type # "FRAME"
    BY DEF TypeOK, Roster, Downs, Rosters
<1> QED BY <1>1, BroadcastOthers DEF TypeOK, HostRoster

LEMMA ReceiveOthers ==
    ASSUME TypeOK, JoinBound, NoEcho, NEW j \in Joins, JoinReceive(j) PROVE NoEcho'
<1>1. PICK n : Received(j, n)
    BY JoinReceives
<1>2. PICK c : c = joins[j].inc
    OBVIOUS
<1>3. /\ down' = [down EXCEPT ![c] = Without(down[c], n)] /\ n \in DOMAIN down[c]
      /\ c \in Attempts /\ UNCHANGED fastDown
    BY <1>1, <1>2, JoinReceives, JoinInc DEF Received
<1>4. down[c] \in Seq(Downs) /\ Others(c, down[c]) /\ down \in [Attempts -> Seq(Downs)]
    BY <1>3 DEF TypeOK, NoEcho
<1>5. Others(c, Without(down[c], n))
    BY <1>3, <1>4, WithoutOthers
<1> QED BY <1>3, <1>4, <1>5, OneLaneOthers

LEMMA JoinFastFrameOthers ==
    ASSUME TypeOK, NoEcho, NEW j \in Joins, JoinFastFrame(j) PROVE NoEcho'
<1>1. PICK c, f : UNCHANGED down /\ fastDown' = [fastDown EXCEPT ![c] = @ \ {f}]
    BY DEF JoinFastFrame
<1>2. \A d \in Attempts : fastDown'[d] \subseteq fastDown[d]
    BY <1>1 DEF TypeOK
<1> QED BY <1>1, <1>2 DEF NoEcho, Others

LEMMA JoinRetireOthers ==
    ASSUME TypeOK, JoinBound, NoEcho, NEW j \in Joins, JoinRetire(j) PROVE NoEcho'
<1>1. PICK c : c = joins[j].inc
    OBVIOUS
<1>2. /\ down' = [down EXCEPT ![c] = <<>>] /\ fastDown' = [fastDown EXCEPT ![c] = {}]
      /\ c \in Attempts
    BY <1>1, JoinInc DEF JoinRetire
<1>3. \A d \in Attempts : fastDown'[d] \subseteq fastDown[d]
    BY <1>2 DEF TypeOK
<1>4. Others(c, <<>>)
    BY DEF Others
<1> QED BY <1>2, <1>3, <1>4, OneLaneOthers DEF TypeOK

-----------------------------------------------------------------------------
LEMMA InvParts == MembersInv <=> TypeOK /\ HostInv /\ JoinBound /\ NoEcho
BY DEF MembersInv, HostInv, SeatsInv

LEMMA InvParts_ == MembersInv' <=> TypeOK' /\ HostInv' /\ JoinBound' /\ NoEcho'
BY DEF MembersInv, HostInv, SeatsInv

LEMMA InitInv == Init => MembersInv
<1> SUFFICES ASSUME Init PROVE MembersInv
    OBVIOUS
<1>1. TypeOK
    BY InitTypes
<1>2. Present = {} /\ Admitted = {}
    BY DEF Init, Present, Admitted, NoPeer
<1>3. PeersCounted
    BY <1>2, FS_EmptySet, MembersAssumption DEF Init, PeersCounted
<1>4. SeatBound /\ MembersSeated /\ HostAttributed
    BY <1>2 DEF Init, SeatBound, MembersSeated, HostAttributed, NoPeer
<1>5. JoinBound
    BY DEF Init, JoinBound, JoinFits, NewJoin
<1>6. NoEcho
    BY DEF Init, NoEcho, Others
<1> QED BY <1>1, <1>3, <1>4, <1>5, <1>6 DEF MembersInv

LEMMA NextInv == ASSUME MembersInv, [Next]_vars PROVE MembersInv'
<1>1. TypeOK /\ HostInv /\ JoinBound /\ NoEcho
    BY InvParts
<1>2. PeersCounted /\ SeatBound
    BY DEF MembersInv
<1>3. CASE UNCHANGED vars
    <2>1. UNCHANGED <<host, net, joins, bounds>>
        BY <1>3 DEF vars
    <2>2. TypeOK'
        BY <1>1, <2>1 DEF TypeOK, host, net, bounds
    <2>3. HostInv' /\ JoinBound' /\ NoEcho'
        BY <1>1, <2>1, SameHost, JoinsSame, SameLanes DEF host, net, bounds
    <2> QED BY <2>2, <2>3, InvParts_
<1>4. CASE HostRoster
    <2>1. UNCHANGED <<peers, owner, members, inbound, attempts, joins>>
        BY <1>4 DEF HostRoster, bounds
    <2> QED BY <1>1, <1>4, <2>1, HostRosterTypes, SameHost, JoinsSame,
           RosterOthers, InvParts_
<1>5. ASSUME NEW c \in Attempts, Cut(c) PROVE MembersInv'
    <2>1. UNCHANGED <<peers, owner, members, inbound, attempts, joins, down, fastDown>>
        BY <1>5 DEF Cut, host
    <2> QED BY <1>1, <1>5, <2>1, CutTypes, SameHost, JoinsSame, SameLanes, InvParts_
<1>6. ASSUME NEW c \in Attempts, HostHello(c) PROVE MembersInv'
    <2>1. UNCHANGED joins
        BY <1>6 DEF HostHello
    <2> QED BY <1>1, <1>2, <1>6, <2>1, HostHelloTypes, HelloInv, JoinsSame,
           HelloOthers, InvParts_
<1>7. ASSUME NEW c \in Attempts, HostAck(c) PROVE MembersInv'
    <2>1. UNCHANGED joins
        BY <1>7 DEF HostAck
    <2> QED BY <1>1, <1>2, <1>7, <2>1, HostAckTypes, AckInv, JoinsSame,
           AckOthers, InvParts_
<1>8. ASSUME NEW c \in Attempts, HostFrame(c) PROVE MembersInv'
    <2>1. UNCHANGED joins
        BY <1>8 DEF HostFrame
    <2> QED BY <1>1, <1>8, <2>1, HostFrameTypes, FrameInv, JoinsSame,
           FrameOthers, InvParts_
<1>9. ASSUME NEW c \in Attempts, HostReady(c) PROVE MembersInv'
    <2>1. UNCHANGED <<joins, down, fastDown>>
        BY <1>9 DEF HostReady, net
    <2> QED BY <1>1, <1>9, <2>1, HostReadyTypes, ReadyInv, JoinsSame,
           SameLanes, InvParts_
<1>10. ASSUME NEW c \in Attempts, HostFastFrame(c) PROVE MembersInv'
    <2>1. UNCHANGED joins
        BY <1>10 DEF HostFastFrame
    <2> QED BY <1>1, <1>10, <2>1, HostFastFrameTypes, FastFrameInv, JoinsSame,
           FastFrameOthers, InvParts_
<1>11. ASSUME NEW c \in Attempts, HostPing(c) PROVE MembersInv'
    <2>1. UNCHANGED <<joins, down, fastDown>>
        BY <1>11 DEF HostPing
    <2> QED BY <1>1, <1>11, <2>1, HostPingTypes, PingInv, JoinsSame,
           SameLanes, InvParts_
<1>12. ASSUME NEW c \in Attempts, HostRetire(c) PROVE MembersInv'
    <2>1. UNCHANGED joins
        BY <1>12 DEF HostRetire
    <2> QED BY <1>1, <1>2, <1>12, <2>1, HostRetireTypes, RetireInv, JoinsSame,
           RetireOthers, InvParts_
<1>13. ASSUME NEW j \in Joins, Connect(j) PROVE MembersInv'
    <2>1. HostInv'
        BY <1>1, <1>13, CountConnected, SeatsConnected DEF HostInv
    <2>2. UNCHANGED <<down, fastDown>>
        BY <1>13 DEF Connect
    <2> QED BY <1>1, <1>13, <2>1, <2>2, ConnectTypes, ConnectJoin, SameLanes, InvParts_
<1>14. ASSUME NEW j \in Joins, JoinReceive(j) PROVE MembersInv'
    <2>1. UNCHANGED <<peers, owner, members, inbound, attempts>>
        BY <1>14, JoinReceives DEF host, bounds
    <2> QED BY <1>1, <1>14, <2>1, JoinReceiveTypes, SameHost, ReceiveJoin,
           ReceiveOthers, InvParts_
<1>15. ASSUME NEW j \in Joins, JoinFastFrame(j) PROVE MembersInv'
    <2>1. UNCHANGED <<peers, owner, members, inbound, attempts>>
        BY <1>15 DEF JoinFastFrame, host, bounds
    <2> QED BY <1>1, <1>15, <2>1, JoinFastFrameTypes, SameHost, FastFrameJoin,
           JoinFastFrameOthers, InvParts_
<1>16. ASSUME NEW j \in Joins, JoinCapture(j) PROVE MembersInv'
    <2>1. UNCHANGED <<peers, owner, members, inbound, attempts, joins, down, fastDown>>
        BY <1>16 DEF JoinCapture, host
    <2> QED BY <1>1, <1>16, <2>1, JoinCaptureTypes, SameHost, JoinsSame,
           SameLanes, InvParts_
<1>17. ASSUME NEW j \in Joins, JoinPing(j) PROVE MembersInv'
    <2>1. UNCHANGED <<peers, owner, members, inbound, attempts, joins, down, fastDown>>
        BY <1>17 DEF JoinPing, host
    <2> QED BY <1>1, <1>17, <2>1, JoinPingTypes, SameHost, JoinsSame,
           SameLanes, InvParts_
<1>18. ASSUME NEW j \in Joins, JoinRetire(j) PROVE MembersInv'
    <2>1. UNCHANGED <<peers, owner, members, inbound, attempts>>
        BY <1>18 DEF JoinRetire, host, bounds
    <2> QED BY <1>1, <1>18, <2>1, JoinRetireTypes, SameHost, RetireJoin,
           JoinRetireOthers, InvParts_
<1>19. ASSUME NEW j \in Joins, JoinDrainLeave(j) PROVE MembersInv'
    <2>1. UNCHANGED <<peers, owner, members, inbound, attempts, down, fastDown>>
        BY <1>19 DEF JoinDrainLeave, host, net, bounds
    <2> QED BY <1>1, <1>19, <2>1, JoinDrainLeaveTypes, SameHost, DrainJoin, SameLanes,
           InvParts_
<1> QED BY <1>3, <1>4, <1>5, <1>6, <1>7, <1>8, <1>9, <1>10, <1>11, <1>12, <1>13,
           <1>14, <1>15, <1>16, <1>17, <1>18, <1>19 DEF Next, HostReceive

LEMMA Inductive == Spec => []MembersInv
<1>1. MembersInv /\ [Next]_vars => MembersInv'
    BY NextInv
<1> QED BY <1>1, InitInv, PTL DEF Spec

-----------------------------------------------------------------------------
(* The membership state keeps its types on both sides.                     *)
THEOREM MembersTypeCorrect == Spec => []TypeOK
<1>1. MembersInv => TypeOK
    BY DEF MembersInv
<1> QED BY <1>1, Inductive, PTL

(* NetLink.cpp's seats: every admitted peer holds one of its own, bound to *)
(* its own incarnation, and a HELLO always finds one free.                 *)
THEOREM MembersSeatsHeld == Spec => []SeatsHeld
<1>1. ASSUME MembersInv PROVE SeatsHeld
    <2>1. TypeOK /\ PeersCounted /\ SeatBound /\ MembersSeated
        BY <1>1 DEF MembersInv
    <2>2. ASSUME NEW c \in Present, NEW d \in Present, c # d, peers[c].seat # 0
          PROVE  peers[c].seat # peers[d].seat
        <3>1. owner[peers[c].seat] = c
            BY <2>1, <2>2 DEF SeatBound, Present
        <3>2. peers[d].seat # 0 => owner[peers[d].seat] = d
            BY <2>1 DEF SeatBound, Present
        <3> QED BY <2>2, <3>1, <3>2
    <2>3. \A c \in Admitted : owner[peers[c].seat] = c
        BY <2>1 DEF SeatBound, Admitted
    <2>4. \A c \in Present : Seats \ Taken(c) # {}
        BY <2>1, SeatLeft DEF TypeOK
    <2> QED BY <2>1, <2>2, <2>3, <2>4 DEF SeatsHeld, MembersSeated
<1> QED BY <1>1, Inductive, PTL

(* No frame that waits for a game thread is under the seat of another      *)
(* incarnation than the one that sent it, once a leave is drained; and no  *)
(* two of different incarnations ever wait under one seat.                 *)
THEOREM MembersAttributed == Spec => []Attributed
<1>1. ASSUME MembersInv PROVE Attributed
    <2>1. SeatBound /\ HostAttributed /\ JoinBound /\ TypeOK
        BY <1>1 DEF MembersInv
    <2>2. \A f \in inbound : owner[f.seat] = f.inc
        BY <2>1 DEF HostAttributed, SeatBound, Admitted
    <2>3. \A j \in Joins :
              /\ ~joins[j].left => \A f \in joins[j].inbound :
                                       joins[j].owner[f.seat] = f.inc
              /\ \A f, g \in joins[j].inbound : f.seat = g.seat => f.inc = g.inc
        BY <2>1 DEF JoinBound, JoinFits
    <2> QED BY <2>2, <2>3 DEF Attributed
<1> QED BY <1>1, Inductive, PTL
-----------------------------------------------------------------------------
(* The lanes.  Attempts are numbered: nothing is on a connection yet to    *)
(* come, and no two joins share one.                                       *)
Fresh ==
    /\ \A c \in Attempts : c > attempts =>
           c \notin wire /\ up[c] = <<>> /\ down[c] = <<>> /\ fastUp[c] = {}
    /\ \A j \in Joins : joins[j].inc <= attempts
    /\ \A j, k \in Joins :
           j # k /\ joins[j].at # "idle" /\ joins[k].at # "idle" =>
               joins[j].inc # joins[k].inc

(* What a peer may send where it stands, over GAME_RELIABLE and GAME_STATE.*)
Own(m, p, c) == p.at = "admitted" /\ m.seat = p.seat /\ m.inc = c
Speaks(c, p, lane, fast) ==
    /\ p.ready => p.at = "admitted"
    /\ p.at = "open" => Len(lane) <= 1
    /\ \A i \in DOMAIN lane :
           /\ lane[i].type = "HELLO" => p.at = "open"
           /\ lane[i].type = "ACK" => p.at # "open"
           /\ lane[i].type = "FRAME" => Own(lane[i], p, c)
    /\ \A f \in fast : f.type = "FRAME" => Own(f, p, c)

(* Where a join and its peer stand, and what is between them.              *)
Greets(r, p, ups, downs) ==
    /\ p.at # "admitted"
    /\ \A i \in DOMAIN ups : ups[i].type = "HELLO"
    /\ downs # <<>> =>
           /\ p.at # "open" /\ Len(downs) = 1 /\ downs[1].type = "WELCOME"
           /\ p.at = "greeted" => p.seat = downs[1].seat
Enters(r, p, downs) ==
    /\ p.at # "open" /\ (p.at # "none" => p.seat = r.seat)
    /\ \A i \in DOMAIN downs : downs[i].type # "WELCOME"
Meets(r, p, ups, downs) ==
    /\ r.at = "hello" => Greets(r, p, ups, downs)
    /\ r.at = "in" => Enters(r, p, downs)

LanesInv ==
    /\ Fresh /\ NoneRefused
    /\ \A c \in Attempts : Speaks(c, peers[c], up[c], fastUp[c])
    /\ \A j \in Joins : joins[j].at # "idle" =>
           LET c == joins[j].inc IN Meets(joins[j], peers[c], up[c], down[c])

(* From some roster ahead of message n on, or from what the join knows     *)
(* already, the seat i is bound to the incarnation d.                      *)
Says(m, i, d) == m.type = "ROSTER" => m.owner[i] = d
Binds(lane, known, i, d, n) ==
    \E k \in 0 .. n - 1 :
        /\ IF k = 0 THEN known[i] = d
           ELSE lane[k].type = "ROSTER" /\ lane[k].owner[i] = d
        /\ \A l \in DOMAIN lane : l > k => Says(lane[l], i, d)

(* The author of a frame on its way to a join is known to the join before  *)
(* the frame arrives, if still a member; and a join on a live connection   *)
(* has heard of every member, or will before what is sent to it next.      *)
Heard(lane, known, ps, last) ==
    \A n \in DOMAIN lane : lane[n].type = "FRAME" =>
        LET d == lane[n].inc IN
        /\ d <= last /\ ps[d].at \in {"none", "admitted"}
        /\ ps[d].at = "admitted" => /\ lane[n].seat = ps[d].seat
                                    /\ Binds(lane, known, lane[n].seat, d, n)
Knows(lane, known, ps) ==
    \A d \in Attempts : ps[d].at = "admitted" =>
        Binds(lane, known, ps[d].seat, d, Len(lane) + 1)
Relays(r, lane, ps, last, w) ==
    /\ Heard(lane, r.owner, ps, last)
    /\ ps[r.inc].at = "admitted" /\ r.inc \in w => Knows(lane, r.owner, ps)
RelaysInv ==
    \A j \in Joins : joins[j].at = "in" =>
        Relays(joins[j], down[joins[j].inc], peers, attempts, wire)

LEMMA LanesPrimed ==
    LanesInv' <=>
        /\ Fresh' /\ NoneRefused'
        /\ \A c \in Attempts : Speaks(c, peers'[c], up'[c], fastUp'[c])
        /\ \A j \in Joins : joins'[j].at # "idle" =>
               Meets(joins'[j], peers'[joins'[j].inc], up'[joins'[j].inc],
                     down'[joins'[j].inc])
BY DEF LanesInv, Speaks, Own, Meets, Greets, Enters

LEMMA LanesInit == Init => LanesInv
<1> SUFFICES ASSUME Init PROVE LanesInv
    OBVIOUS
<1>1. /\ \A c \in Attempts : /\ peers[c] = NoPeer /\ up[c] = <<>> /\ down[c] = <<>>
                             /\ fastUp[c] = {}
      /\ wire = {} /\ refused = {} /\ attempts = 0
      /\ \A j \in Joins : joins[j].at = "idle" /\ joins[j].inc = 0
    BY DEF Init, NewJoin
<1>2. Fresh /\ NoneRefused
    BY <1>1 DEF Fresh, NoneRefused
<1>3. ASSUME NEW c \in Attempts PROVE Speaks(c, peers[c], up[c], fastUp[c])
    BY <1>1 DEF Speaks, NoPeer
<1> QED BY <1>1, <1>2, <1>3 DEF LanesInv

(* What a step of the host's may do to a connection: read from its lanes,  *)
(* retire, greet or admit its peer, and send to an admitted one.           *)
Stays(p, q) == q.at = p.at /\ q.seat = p.seat /\ (q.ready => p.at = "admitted")
Reads(lane, new) == new = lane \/ (lane # <<>> /\ new = Tail(lane))
Greeted(p, q, lane, new, downs, sent) ==
    /\ p.at = "open" /\ q.at = "greeted" /\ ~q.ready
    /\ lane # <<>> /\ new = Tail(lane)
    /\ sent = downs \/ sent = Append(downs, [type |-> "WELCOME", seat |-> q.seat])
AdmittedNow(p, q, lane, new) ==
    /\ p.at \in {"greeted", "admitted"} /\ q.at = "admitted" /\ q.seat = p.seat
    /\ lane # <<>> /\ Head(lane).type = "ACK" /\ new = Tail(lane)
Sends(p, downs, sent) ==
    \/ sent = downs
    \/ p.at = "admitted" /\ \E m \in Rosters \cup Frames : sent = Append(downs, m)
HostMoves(p, q, lane, new, downs, sent, fast, rest) ==
    /\ rest \subseteq fast
    /\ \/ Stays(p, q) /\ Reads(lane, new) /\ Sends(q, downs, sent)
       \/ AdmittedNow(p, q, lane, new) /\ Sends(q, downs, sent)
       \/ Greeted(p, q, lane, new, downs, sent)
       \/ q = NoPeer /\ new = <<>> /\ rest = {} /\ sent = downs

LEMMA MovesSpeak ==
    ASSUME NEW c, NEW p, NEW q, NEW lane \in Seq(Ups), NEW new, NEW downs, NEW sent,
           NEW fast, NEW rest, Speaks(c, p, lane, fast),
           HostMoves(p, q, lane, new, downs, sent, fast, rest)
    PROVE  Speaks(c, q, new, rest)
<1>1. CASE q = NoPeer /\ new = <<>> /\ rest = {}
    BY <1>1 DEF Speaks, NoPeer
<1>2. ASSUME lane # <<>>
      PROVE  /\ \A i \in DOMAIN Tail(lane) : i + 1 \in DOMAIN lane /\ Tail(lane)[i] = lane[i + 1]
             /\ Len(Tail(lane)) = Len(lane) - 1 /\ Len(lane) \in Nat
             /\ Len(lane) <= 1 => DOMAIN Tail(lane) = {}
    BY <1>2, LaneTail
<1>3. CASE Stays(p, q) /\ Reads(lane, new)
    <2>1. \A i \in DOMAIN new : \E k \in DOMAIN lane : new[i] = lane[k]
        BY <1>2, <1>3 DEF Reads
    <2>2. Len(lane) <= 1 => Len(new) <= 1
        BY <1>2, <1>3 DEF Reads
    <2> QED BY <1>3, <2>1, <2>2 DEF Speaks, Stays, Own, HostMoves
<1>4. CASE AdmittedNow(p, q, lane, new)
    <2>1. \A i \in DOMAIN new : \E k \in DOMAIN lane : new[i] = lane[k]
        BY <1>2, <1>4 DEF AdmittedNow
    <2> QED BY <1>4, <2>1 DEF Speaks, AdmittedNow, Own, HostMoves
<1>5. CASE Greeted(p, q, lane, new, downs, sent)
    <2>1. DOMAIN new = {} /\ ~q.ready /\ q.at = "greeted" /\ p.at = "open"
        BY <1>2, <1>5 DEF Speaks, Greeted
    <2> QED BY <2>1 DEF Speaks, Own, HostMoves
<1> QED BY <1>1, <1>3, <1>4, <1>5 DEF HostMoves

LEMMA MovesMeet ==
    ASSUME NEW c, NEW p, NEW q, NEW lane \in Seq(Ups), NEW new, NEW downs \in Seq(Downs),
           NEW sent, NEW fast, NEW rest, NEW r, r.at \in {"hello", "in"},
           Meets(r, p, lane, downs),
           HostMoves(p, q, lane, new, downs, sent, fast, rest)
    PROVE  Meets(r, q, new, sent)
<1>1. ASSUME lane # <<>>
      PROVE  /\ \A i \in DOMAIN Tail(lane) : i + 1 \in DOMAIN lane /\ Tail(lane)[i] = lane[i + 1]
             /\ 1 \in DOMAIN lane /\ lane[1] = Head(lane)
    BY <1>1, LaneTail
<1>2. CASE r.at = "hello"
    <2>1. Greets(r, p, lane, downs)
        BY <1>2 DEF Meets
    <2>2. ~AdmittedNow(p, q, lane, new) /\ p.at # "admitted"
        BY <1>1, <2>1 DEF Greets, AdmittedNow
    <2>3. \A i \in DOMAIN new : new[i].type = "HELLO"
        <3>1. new = lane \/ (lane # <<>> /\ new = Tail(lane)) \/ new = <<>>
            BY <2>2 DEF HostMoves, Reads, Greeted
        <3>2. \A i \in DOMAIN new : \E k \in DOMAIN lane : new[i] = lane[k]
            BY <1>1, <3>1
        <3> QED BY <2>1, <3>2 DEF Greets
    <2>4. CASE Greeted(p, q, lane, new, downs, sent)
        <3>1. downs = <<>>
            BY <2>1, <2>4 DEF Greets, Greeted
        <3>2. sent = <<>> \/ (Len(sent) = 1 /\ sent[1] = [type |-> "WELCOME", seat |-> q.seat])
            BY <2>4, <3>1 DEF Greeted
        <3> QED BY <1>2, <2>3, <2>4, <3>2 DEF Meets, Greets, Greeted
    <2>5. CASE q = NoPeer /\ sent = downs
        BY <1>2, <2>1, <2>3, <2>5 DEF Meets, Greets, NoPeer
    <2>6. CASE Stays(p, q) /\ Sends(q, downs, sent)
        <3>1. sent = downs
            BY <2>2, <2>6 DEF Stays, Sends
        <3> QED BY <1>2, <2>1, <2>3, <2>6, <3>1 DEF Meets, Greets, Stays
    <2> QED BY <2>2, <2>4, <2>5, <2>6 DEF HostMoves
<1>3. CASE r.at = "in"
    <2>1. Enters(r, p, downs) /\ p.at # "open"
        BY <1>3 DEF Meets, Enters
    <2>2. ASSUME Sends(q, downs, sent) PROVE \A i \in DOMAIN sent : sent[i].type # "WELCOME"
        <3>1. CASE sent = downs
            BY <2>1, <3>1 DEF Enters
        <3>2. ASSUME NEW m \in Rosters \cup Frames, sent = Append(downs, m)
              PROVE  \A i \in DOMAIN sent : sent[i].type # "WELCOME"
            <4>1. m \in Downs /\ m.type # "WELCOME"
                BY DEF Downs, Rosters, Frames
            <4> QED BY <2>1, <3>2, <4>1, LaneAppend DEF Enters
        <3> QED BY <2>2, <3>1, <3>2 DEF Sends
    <2>3. ~Greeted(p, q, lane, new, downs, sent)
        BY <2>1 DEF Greeted
    <2>4. CASE q = NoPeer /\ sent = downs
        BY <1>3, <2>1, <2>4 DEF Meets, Enters, NoPeer
    <2>5. CASE Stays(p, q) /\ Sends(q, downs, sent)
        BY <1>3, <2>1, <2>2, <2>5 DEF Meets, Enters, Stays
    <2>6. CASE AdmittedNow(p, q, lane, new) /\ Sends(q, downs, sent)
        BY <1>3, <2>1, <2>2, <2>6 DEF Meets, Enters, AdmittedNow
    <2> QED BY <2>3, <2>4, <2>5, <2>6 DEF HostMoves
<1> QED BY <1>2, <1>3

LEMMA MovesLanes ==
    ASSUME TypeOK, JoinBound, LanesInv, UNCHANGED <<joins, attempts>>,
           wire' \subseteq wire, refused' \subseteq refused \cup {"PING"},
           \A c \in Attempts :
               /\ HostMoves(peers[c], peers'[c], up[c], up'[c], down[c], down'[c],
                            fastUp[c], fastUp'[c])
               /\ down'[c] # down[c] => c \in wire
    PROVE  LanesInv'
<1>1. /\ up \in [Attempts -> Seq(Ups)] /\ down \in [Attempts -> Seq(Downs)]
      /\ joins \in [Joins -> JoinTypes]
    BY DEF TypeOK
<1>2. Fresh'
    <2>1. ASSUME NEW c \in Attempts, c > attempts
          PROVE  c \notin wire' /\ up'[c] = <<>> /\ down'[c] = <<>> /\ fastUp'[c] = {}
        <3>1. c \notin wire /\ up[c] = <<>> /\ down[c] = <<>> /\ fastUp[c] = {}
            BY <2>1 DEF LanesInv, Fresh
        <3>2. fastUp'[c] = {} /\ down'[c] = <<>>
            BY <3>1 DEF HostMoves
        <3>3. up'[c] = <<>>
            BY <3>1 DEF HostMoves, Reads, AdmittedNow, Greeted
        <3> QED BY <3>1, <3>2, <3>3
    <2> QED BY <2>1 DEF LanesInv, Fresh
<1>3. NoneRefused'
    BY DEF LanesInv, NoneRefused
<1>4. ASSUME NEW c \in Attempts PROVE Speaks(c, peers'[c], up'[c], fastUp'[c])
    <2>1. up[c] \in Seq(Ups) /\ Speaks(c, peers[c], up[c], fastUp[c])
        BY <1>1 DEF LanesInv
    <2>2. PICK p, q, lane, new, downs, sent, fast, rest :
              /\ p = peers[c] /\ q = peers'[c] /\ lane = up[c] /\ new = up'[c]
              /\ downs = down[c] /\ sent = down'[c] /\ fast = fastUp[c] /\ rest = fastUp'[c]
        OBVIOUS
    <2>3. Speaks(c, q, new, rest)
        BY <2>1, <2>2, MovesSpeak
    <2> QED BY <2>2, <2>3
<1>5. ASSUME NEW j \in Joins, joins'[j].at # "idle"
      PROVE  Meets(joins'[j], peers'[joins'[j].inc], up'[joins'[j].inc],
                   down'[joins'[j].inc])
    <2>1. PICK c : c = joins[j].inc
        OBVIOUS
    <2>2. c \in Attempts /\ joins[j].at \in {"hello", "in"}
        BY <1>1, <1>5, <2>1, JoinInc DEF JoinTypes
    <2>3. PICK p, q, lane, new, downs, sent, fast, rest, r :
              /\ p = peers[c] /\ q = peers'[c] /\ lane = up[c] /\ new = up'[c]
              /\ downs = down[c] /\ sent = down'[c] /\ fast = fastUp[c] /\ rest = fastUp'[c]
              /\ r = joins[j]
        OBVIOUS
    <2>4. lane \in Seq(Ups) /\ downs \in Seq(Downs) /\ Meets(r, p, lane, downs)
        BY <1>1, <1>5, <2>1, <2>2, <2>3 DEF LanesInv
    <2>5. HostMoves(p, q, lane, new, downs, sent, fast, rest)
        BY <2>2, <2>3
    <2>6. Meets(r, q, new, sent)
        BY <2>2, <2>3, <2>4, <2>5, MovesMeet
    <2> QED BY <2>1, <2>3, <2>6
<1> QED BY <1>2, <1>3, <1>4, <1>5, LanesPrimed

(* The host's steps are such moves, and it refuses nothing but a PING.     *)
LEMMA PeersSame ==
    ASSUME LanesInv, NEW c \in Attempts
    PROVE  Stays(peers[c], peers[c])
BY DEF LanesInv, Speaks, Stays

(* One connection is read, and admitted peers may be sent to.              *)
LEMMA OneMoves ==
    ASSUME TypeOK, JoinBound, LanesInv, UNCHANGED <<joins, attempts>>,
           wire' \subseteq wire, refused' \subseteq refused \cup {"PING"},
           NEW c \in Attempts, fastUp'[c] \subseteq fastUp[c],
           \A d \in Attempts \ {c} :
               peers'[d] = peers[d] /\ up'[d] = up[d] /\ fastUp'[d] = fastUp[d],
           \/ Stays(peers[c], peers'[c]) /\ Reads(up[c], up'[c])
           \/ AdmittedNow(peers[c], peers'[c], up[c], up'[c])
           \/ peers'[c] = NoPeer /\ up'[c] = <<>> /\ fastUp'[c] = {},
           \/ down' = down
           \/ \E to, m : /\ to \subseteq Admitted' /\ m \in Rosters \cup Frames
                         /\ Broadcast(to, m)
    PROVE  LanesInv'
<1>1. ASSUME NEW d \in Attempts
      PROVE  Sends(peers'[d], down[d], down'[d]) /\ (down'[d] # down[d] => d \in wire)
    <2>1. CASE down' = down
        BY <2>1 DEF Sends
    <2>2. ASSUME NEW to, NEW m, to \subseteq Admitted', m \in Rosters \cup Frames,
                 Broadcast(to, m)
          PROVE  Sends(peers'[d], down[d], down'[d]) /\ (down'[d] # down[d] => d \in wire)
        <3>1. down'[d] = IF d \in to /\ d \in wire THEN Append(down[d], m) ELSE down[d]
            BY <2>2 DEF Broadcast, Put
        <3>2. d \in to => peers'[d].at = "admitted"
            BY <2>2 DEF Admitted
        <3> QED BY <2>2, <3>1, <3>2 DEF Sends
    <2> QED BY <2>1, <2>2
<1>2. ASSUME NEW d \in Attempts
      PROVE  HostMoves(peers[d], peers'[d], up[d], up'[d], down[d], down'[d],
                       fastUp[d], fastUp'[d])
    <2>1. CASE d = c
        <3>1. CASE Stays(peers[c], peers'[c]) /\ Reads(up[c], up'[c])
            BY <1>1, <2>1, <3>1 DEF HostMoves
        <3>2. CASE AdmittedNow(peers[c], peers'[c], up[c], up'[c])
            BY <1>1, <2>1, <3>2 DEF HostMoves
        <3>3. CASE peers'[c] = NoPeer /\ up'[c] = <<>> /\ fastUp'[c] = {}
            <4>1. peers'[c].at = "none"
                BY <3>3 DEF NoPeer
            <4>2. down'[c] = down[c]
                BY <1>1, <2>1, <4>1 DEF Sends
            <4> QED BY <2>1, <3>3, <4>2 DEF HostMoves
        <3> QED BY <3>1, <3>2, <3>3
    <2>2. CASE d # c
        <3>1. peers'[d] = peers[d] /\ up'[d] = up[d] /\ fastUp'[d] = fastUp[d]
            BY <2>2
        <3>2. Stays(peers[d], peers'[d]) /\ Reads(up[d], up'[d])
            BY <3>1, PeersSame DEF Reads
        <3> QED BY <1>1, <3>1, <3>2 DEF HostMoves
    <2> QED BY <2>1, <2>2
<1> QED BY <1>1, <1>2, MovesLanes

(* What the host hears suits the peer it comes from.                       *)
LEMMA HeardFirst ==
    ASSUME TypeOK, LanesInv, NEW c \in Attempts, NEW type, Receives(c, type)
    PROVE  /\ up[c] \in Seq(Ups) /\ up[c] # <<>> /\ Head(up[c]).type = type
           /\ type = "HELLO" => peers[c].at = "open"
           /\ type = "ACK" => peers[c].at \in {"greeted", "admitted"}
           /\ type = "FRAME" => Genuine(c, Head(up[c])) /\ Head(up[c]) \in Frames
           /\ [up EXCEPT ![c] = Tail(@)][c] = Tail(up[c])
           /\ Reads(up[c], Tail(up[c]))
<1>1. up \in [Attempts -> Seq(Ups)] /\ peers \in [Attempts -> PeerTypes]
    BY DEF TypeOK
<1>2. up[c] \in Seq(Ups) /\ up[c] # <<>> /\ Head(up[c]).type = type /\ peers[c].at # "none"
    BY <1>1 DEF Receives, Hears
<1>3. 1 \in DOMAIN up[c] /\ up[c][1] = Head(up[c])
    BY <1>2, LaneTail
<1>4. Speaks(c, peers[c], up[c], fastUp[c])
    BY DEF LanesInv
<1>5. type = "HELLO" => peers[c].at = "open"
    BY <1>2, <1>3, <1>4 DEF Speaks
<1>6. type = "ACK" => peers[c].at \in {"greeted", "admitted"}
    BY <1>1, <1>2, <1>3, <1>4 DEF Speaks, PeerTypes
<1>7. type = "FRAME" => Own(Head(up[c]), peers[c], c)
    BY <1>2, <1>3, <1>4 DEF Speaks
<1>8. type = "FRAME" => Head(up[c]) \in Frames
    BY <1>2, HeadType, FrameOf
<1>9. [up EXCEPT ![c] = Tail(@)][c] = Tail(up[c])
    BY <1>1
<1>10. Reads(up[c], Tail(up[c]))
    BY <1>2 DEF Reads
<1> QED BY <1>2, <1>5, <1>6, <1>7, <1>8, <1>9, <1>10 DEF Own, Genuine

LEMMA HelloLanes ==
    ASSUME MembersInv, LanesInv, NEW c \in Attempts, HostHello(c)
    PROVE  LanesInv'
<1>1. TypeOK /\ JoinBound /\ peers[c].at = "open"
    BY HeardFirst DEF MembersInv, HostHello
<1>2. PICK i : i = FreeSeat(c)
    OBVIOUS
<1>3. /\ up' = [up EXCEPT ![c] = Tail(@)]
      /\ peers' = [peers EXCEPT ![c].at = "greeted", ![c].seat = i]
      /\ down' = [down EXCEPT ![c] = Put(@, c, [type |-> "WELCOME", seat |-> i])]
      /\ UNCHANGED <<wire, refused, fastUp, joins, attempts>>
    BY <1>1, <1>2 DEF HostHello, bounds
<1>4. /\ up \in [Attempts -> Seq(Ups)] /\ down \in [Attempts -> Seq(Downs)]
      /\ peers \in [Attempts -> PeerTypes]
    BY <1>1 DEF TypeOK
<1>5. /\ peers'[c].at = "greeted" /\ peers'[c].seat = i /\ peers'[c].ready = peers[c].ready
      /\ \A d \in Attempts \ {c} :
             peers'[d] = peers[d] /\ up'[d] = up[d] /\ down'[d] = down[d]
    BY <1>3, <1>4 DEF PeerTypes
<1>6. up[c] # <<>> /\ up'[c] = Tail(up[c])
    BY <1>1, <1>3, HeardFirst DEF HostHello
<1>7. \/ down'[c] = down[c]
      \/ c \in wire /\ down'[c] = Append(down[c], [type |-> "WELCOME", seat |-> peers'[c].seat])
    BY <1>3, <1>4, <1>5 DEF Put
<1>8. ~peers[c].ready
    <2>1. Speaks(c, peers[c], up[c], fastUp[c])
        BY DEF LanesInv
    <2> QED BY <1>1, <2>1 DEF Speaks
<1>9. Greeted(peers[c], peers'[c], up[c], up'[c], down[c], down'[c])
    BY <1>1, <1>5, <1>6, <1>7, <1>8 DEF Greeted
<1>10. ASSUME NEW d \in Attempts
       PROVE  /\ HostMoves(peers[d], peers'[d], up[d], up'[d], down[d], down'[d],
                           fastUp[d], fastUp'[d])
              /\ down'[d] # down[d] => d \in wire
    <2>1. CASE d = c
        BY <1>3, <1>7, <1>9, <2>1 DEF HostMoves
    <2>2. CASE d # c
        <3>1. peers'[d] = peers[d] /\ up'[d] = up[d] /\ down'[d] = down[d]
            BY <1>5, <2>2
        <3>2. Stays(peers[d], peers'[d])
            BY <3>1, PeersSame
        <3> QED BY <1>3, <3>1, <3>2 DEF HostMoves, Reads, Sends
    <2> QED BY <2>1, <2>2
<1> QED BY <1>1, <1>3, <1>10, MovesLanes

LEMMA RosterSent ==
    ASSUME NEW m \in SUBSET Seats, NEW o \in [Seats -> Incs]
    PROVE  Roster(m, o) \in Rosters \cup Frames
BY DEF Roster, Rosters

LEMMA AckLanes ==
    ASSUME MembersInv, LanesInv, NEW c \in Attempts, HostAck(c)
    PROVE  LanesInv'
<1>1. /\ TypeOK /\ JoinBound /\ SeatBound /\ peers[c].at \in {"greeted", "admitted"}
      /\ up[c] # <<>> /\ Head(up[c]).type = "ACK"
    BY HeardFirst DEF MembersInv, HostAck
<1>2. PICK i : i = peers[c].seat
    OBVIOUS
<1>3. /\ up' = [up EXCEPT ![c] = Tail(@)]
      /\ peers' = [peers EXCEPT ![c].at = "admitted", ![c].ready = FALSE]
      /\ Broadcast(Admitted \cup {c}, Roster(members \cup {i}, owner))
      /\ UNCHANGED <<wire, refused, fastUp, joins, attempts>>
    BY <1>1, <1>2 DEF HostAck, Announce, bounds
<1>4. /\ up \in [Attempts -> Seq(Ups)] /\ peers \in [Attempts -> PeerTypes]
      /\ members \subseteq Seats /\ owner \in [Seats -> Incs]
    BY <1>1 DEF TypeOK
<1>5. /\ peers'[c].at = "admitted" /\ peers'[c].seat = peers[c].seat
      /\ up'[c] = Tail(up[c])
      /\ \A d \in Attempts \ {c} : peers'[d] = peers[d] /\ up'[d] = up[d]
    BY <1>3, <1>4 DEF PeerTypes
<1>6. AdmittedNow(peers[c], peers'[c], up[c], up'[c])
    BY <1>1, <1>5 DEF AdmittedNow
<1>7. Admitted \cup {c} \subseteq Admitted'
    BY <1>5 DEF Admitted
<1>8. Roster(members \cup {i}, owner) \in Rosters \cup Frames
    <2>1. i \in Seats
        BY <1>1, <1>2, <1>4 DEF SeatBound, PeerTypes
    <2> QED BY <1>4, <2>1, RosterSent
<1> QED BY <1>1, <1>3, <1>5, <1>6, <1>7, <1>8, OneMoves

LEMMA ReadyLanes ==
    ASSUME MembersInv, LanesInv, NEW c \in Attempts, HostReady(c)
    PROVE  LanesInv'
<1>1. /\ TypeOK /\ JoinBound /\ peers \in [Attempts -> PeerTypes]
    BY DEF MembersInv, TypeOK
<1>2. /\ peers[c].at = "admitted" /\ peers' = [peers EXCEPT ![c].ready = TRUE]
      /\ UNCHANGED <<wire, up, down, fastUp, refused, joins, attempts>>
    BY DEF HostReady, Admitted, net, bounds
<1>3. Stays(peers[c], peers'[c]) /\ Reads(up[c], up'[c])
    BY <1>1, <1>2 DEF Stays, Reads, PeerTypes
<1>4. \A d \in Attempts \ {c} :
          peers'[d] = peers[d] /\ up'[d] = up[d] /\ fastUp'[d] = fastUp[d]
    BY <1>1, <1>2
<1> QED BY <1>1, <1>2, <1>3, <1>4, OneMoves

LEMMA FrameLanes ==
    ASSUME MembersInv, LanesInv, NEW c \in Attempts, HostFrame(c)
    PROVE  LanesInv'
<1>1. PICK f : f = Head(up[c])
    OBVIOUS
<1>2. /\ TypeOK /\ JoinBound /\ Genuine(c, f) /\ f \in Frames
      /\ Reads(up[c], Tail(up[c]))
    BY <1>1, HeardFirst DEF MembersInv, HostFrame
<1>3. /\ up' = [up EXCEPT ![c] = Tail(@)] /\ Broadcast(Admitted \ {c}, f)
      /\ UNCHANGED <<peers, wire, refused, fastUp, joins, attempts>>
    BY <1>1, <1>2 DEF HostFrame, bounds
<1>4. up \in [Attempts -> Seq(Ups)]
    BY <1>2 DEF TypeOK
<1>5. /\ Stays(peers[c], peers'[c]) /\ Reads(up[c], up'[c])
      /\ \A d \in Attempts \ {c} :
             peers'[d] = peers[d] /\ up'[d] = up[d] /\ fastUp'[d] = fastUp[d]
    BY <1>2, <1>3, <1>4, PeersSame
<1>6. Admitted \ {c} \subseteq Admitted' /\ f \in Rosters \cup Frames
    BY <1>2, <1>3 DEF Admitted
<1> QED BY <1>2, <1>3, <1>5, <1>6, OneMoves

LEMMA FastFrameLanes ==
    ASSUME MembersInv, LanesInv, NEW c \in Attempts, HostFastFrame(c)
    PROVE  LanesInv'
<1>1. TypeOK /\ JoinBound
    BY DEF MembersInv
<1>2. PICK f \in fastUp[c] :
          /\ f.type = "FRAME" /\ fastUp' = [fastUp EXCEPT ![c] = @ \ {f}]
          /\ IF Genuine(c, f) THEN UNCHANGED <<peers, wire, refused>>
             ELSE Refuse(c, "FRAME")
    BY DEF HostFastFrame
<1>3. Genuine(c, f)
    <2>1. Speaks(c, peers[c], up[c], fastUp[c])
        BY DEF LanesInv
    <2> QED BY <1>2, <2>1 DEF Speaks, Own, Genuine
<1>4. UNCHANGED <<peers, wire, up, down, refused, joins, attempts>>
    BY <1>2, <1>3 DEF HostFastFrame, bounds
<1>5. fastUp'[c] \subseteq fastUp[c] /\ \A d \in Attempts \ {c} : fastUp'[d] = fastUp[d]
    BY <1>1, <1>2 DEF TypeOK
<1>6. Stays(peers[c], peers'[c]) /\ Reads(up[c], up'[c])
    BY <1>4, PeersSame DEF Reads
<1> QED BY <1>1, <1>4, <1>5, <1>6, OneMoves

LEMMA PingLanes ==
    ASSUME MembersInv, LanesInv, NEW c \in Attempts, HostPing(c)
    PROVE  LanesInv'
<1>1. TypeOK /\ JoinBound /\ peers \in [Attempts -> PeerTypes]
    BY DEF MembersInv, TypeOK
<1>2. fastUp'[c] \subseteq fastUp[c] /\ \A d \in Attempts \ {c} : fastUp'[d] = fastUp[d]
    BY <1>1 DEF HostPing, TypeOK
<1>3. UNCHANGED <<up, down, joins, attempts>>
    BY DEF HostPing, bounds
<1>4. wire' \subseteq wire /\ refused' \subseteq refused \cup {"PING"}
    BY DEF HostPing, Refuse
<1>5. /\ peers'[c].at = peers[c].at /\ peers'[c].seat = peers[c].seat
      /\ peers'[c].ready = peers[c].ready
      /\ \A d \in Attempts \ {c} : peers'[d] = peers[d]
    <2>1. CASE peers[c].at = "admitted"
        BY <2>1 DEF HostPing
    <2>2. CASE peers[c].at # "admitted"
        <3>1. peers' = [peers EXCEPT ![c].closed = TRUE]
            BY <2>2 DEF HostPing, Refuse
        <3> QED BY <1>1, <3>1 DEF PeerTypes
    <2> QED BY <2>1, <2>2
<1>6. Stays(peers[c], peers'[c]) /\ Reads(up[c], up'[c])
    BY <1>3, <1>5, PeersSame DEF Stays, Reads
<1> QED BY <1>1, <1>2, <1>3, <1>4, <1>5, <1>6, OneMoves

LEMMA RetireLanes ==
    ASSUME MembersInv, LanesInv, NEW c \in Attempts, HostRetire(c)
    PROVE  LanesInv'
<1>1. /\ TypeOK /\ JoinBound /\ SeatBound /\ peers \in [Attempts -> PeerTypes]
      /\ up \in [Attempts -> Seq(Ups)] /\ members \subseteq Seats
      /\ owner \in [Seats -> Incs]
      /\ fastUp \in [Attempts -> SUBSET (Frames \cup [type : {"PING"}])]
    BY DEF MembersInv, TypeOK
<1>2. /\ peers' = [peers EXCEPT ![c] = NoPeer]
      /\ up' = [up EXCEPT ![c] = <<>>] /\ fastUp' = [fastUp EXCEPT ![c] = {}]
      /\ UNCHANGED <<wire, refused, joins, attempts>>
    BY DEF HostRetire, bounds
<1>3. /\ peers'[c] = NoPeer /\ up'[c] = <<>> /\ fastUp'[c] = {}
      /\ \A d \in Attempts \ {c} :
             peers'[d] = peers[d] /\ up'[d] = up[d] /\ fastUp'[d] = fastUp[d]
    BY <1>1, <1>2
<1>4. \/ down' = down
      \/ \E to, m : /\ to \subseteq Admitted' /\ m \in Rosters \cup Frames
                    /\ Broadcast(to, m)
    <2>1. CASE peers[c].at # "admitted"
        BY <2>1 DEF HostRetire
    <2>2. CASE peers[c].at = "admitted"
        <3>1. PICK i, o, to :
                  /\ i = peers[c].seat /\ o = [owner EXCEPT ![i] = 0] /\ to = Admitted \ {c}
            OBVIOUS
        <3>2. Broadcast(to, Roster(members \ {i}, o))
            BY <2>2, <3>1 DEF HostRetire, Announce
        <3>3. Roster(members \ {i}, o) \in Rosters \cup Frames
            <4>1. 0 \in Incs
                BY MembersAssumption DEF Incs
            <4>2. o \in [Seats -> Incs] /\ members \ {i} \in SUBSET Seats
                BY <1>1, <3>1, <4>1
            <4> QED BY <4>2, RosterSent
        <3>4. to \subseteq Admitted'
            BY <1>3, <3>1 DEF Admitted
        <3> QED BY <3>2, <3>3, <3>4
    <2> QED BY <2>1, <2>2
<1>5. fastUp'[c] \subseteq fastUp[c]
    BY <1>3
<1> QED BY <1>1, <1>2, <1>3, <1>4, <1>5, OneMoves

LEMMA RosterLanes ==
    ASSUME MembersInv, LanesInv, HostRoster PROVE LanesInv'
<1>1. TypeOK /\ JoinBound /\ members \in SUBSET Seats /\ owner \in [Seats -> Incs]
    BY DEF MembersInv, TypeOK
<1>2. /\ Broadcast(Admitted, Roster(members, owner))
      /\ UNCHANGED <<peers, wire, up, fastUp, refused, joins, attempts>>
    BY DEF HostRoster, bounds
<1>3. CASE Attempts = {}
    <2>1. UNCHANGED <<peers, up, fastUp, joins>> /\ down' = [c \in Attempts |-> down[c]]
        BY <1>2, <1>3 DEF Broadcast
    <2> QED BY <1>1, <1>2, <1>3, MovesLanes
<1>4. ASSUME NEW c \in Attempts PROVE LanesInv'
    <2>1. Stays(peers[c], peers'[c]) /\ Reads(up[c], up'[c])
        BY <1>2, PeersSame DEF Reads
    <2>2. Roster(members, owner) \in Rosters \cup Frames /\ Admitted \subseteq Admitted'
        BY <1>1, <1>2, RosterSent DEF Admitted
    <2> QED BY <1>1, <1>2, <2>1, <2>2, OneMoves
<1> QED BY <1>3, <1>4

LEMMA CutLanes ==
    ASSUME MembersInv, LanesInv, NEW c \in Attempts, Cut(c) PROVE LanesInv'
<1>1. TypeOK /\ JoinBound
    BY DEF MembersInv
<1>2. /\ wire' \subseteq wire
      /\ UNCHANGED <<peers, up, down, fastUp, refused, joins, attempts>>
    BY DEF Cut, host, bounds
<1>3. Stays(peers[c], peers'[c]) /\ Reads(up[c], up'[c])
    BY <1>2, PeersSame DEF Reads
<1> QED BY <1>1, <1>2, <1>3, OneMoves

(* One join acts on its own connection.                                    *)
LEMMA OneJoinLanes ==
    ASSUME TypeOK, JoinBound, LanesInv, NEW j \in Joins, NEW c \in Attempts, NEW s,
           c <= attempts, joins[j].inc = c, joins[j].at # "idle",
           joins' = [joins EXCEPT ![j] = s], s.inc <= attempts,
           UNCHANGED <<peers, wire, attempts, refused>>,
           \A d \in Attempts \ {c} :
               up'[d] = up[d] /\ down'[d] = down[d] /\ fastUp'[d] = fastUp[d],
           Speaks(c, peers[c], up'[c], fastUp'[c]),
           s.at # "idle" => s.inc = c /\ Meets(s, peers[c], up'[c], down'[c])
    PROVE  LanesInv'
<1>1. joins \in [Joins -> JoinTypes] /\ attempts \in Nat /\ Attempts \subseteq Nat
    BY MembersAssumption DEF TypeOK, Attempts, Incs
<1>2. \A k \in Joins : joins'[k] = IF k = j THEN s ELSE joins[k]
    BY <1>1
<1>3. Fresh
    BY DEF LanesInv
<1>4. Fresh'
    <2>1. ASSUME NEW d \in Attempts, d > attempts
          PROVE  d \notin wire' /\ up'[d] = <<>> /\ down'[d] = <<>> /\ fastUp'[d] = {}
        <3>1. d # c
            BY <1>1, <2>1
        <3> QED BY <1>3, <2>1, <3>1 DEF Fresh
    <2>2. \A k \in Joins : joins'[k].inc <= attempts
        BY <1>2, <1>3 DEF Fresh
    <2>3. ASSUME NEW k \in Joins, NEW l \in Joins, k # l,
                 joins'[k].at # "idle", joins'[l].at # "idle"
          PROVE  joins'[k].inc # joins'[l].inc
        <3>1. \A x \in Joins : joins'[x].at # "idle" =>
                  joins[x].at # "idle" /\ joins'[x].inc = joins[x].inc
            BY <1>2
        <3> QED BY <1>3, <2>3, <3>1 DEF Fresh
    <2> QED BY <2>1, <2>2, <2>3 DEF Fresh
<1>5. NoneRefused'
    BY DEF LanesInv, NoneRefused
<1>6. ASSUME NEW d \in Attempts PROVE Speaks(d, peers'[d], up'[d], fastUp'[d])
    <2>1. CASE d = c
        BY <2>1
    <2>2. CASE d # c
        <3>1. Speaks(d, peers[d], up[d], fastUp[d])
            BY DEF LanesInv
        <3>2. peers'[d] = peers[d] /\ up'[d] = up[d] /\ fastUp'[d] = fastUp[d]
            BY <2>2
        <3> QED BY <3>1, <3>2, Zenon
    <2> QED BY <2>1, <2>2
<1>7. ASSUME NEW k \in Joins, joins'[k].at # "idle"
      PROVE  Meets(joins'[k], peers'[joins'[k].inc], up'[joins'[k].inc],
                   down'[joins'[k].inc])
    <2>1. CASE k = j
        <3>1. joins'[k] = s /\ s.inc = c /\ Meets(s, peers[c], up'[c], down'[c])
            BY <1>2, <1>7, <2>1
        <3> QED BY <3>1
    <2>2. CASE k # j
        <3>1. PICK d : d = joins[k].inc
            OBVIOUS
        <3>2. joins'[k] = joins[k] /\ joins[k].at # "idle" /\ d \in Attempts
            BY <1>2, <1>7, <2>2, <3>1, JoinInc
        <3>3. d # c
            BY <1>3, <2>2, <3>1, <3>2 DEF Fresh
        <3>4. Meets(joins[k], peers[d], up[d], down[d])
            BY <3>1, <3>2 DEF LanesInv
        <3>5. peers'[d] = peers[d] /\ up'[d] = up[d] /\ down'[d] = down[d]
            BY <3>2, <3>3
        <3> QED BY <3>1, <3>2, <3>4, <3>5
    <2> QED BY <2>1, <2>2
<1> QED BY <1>4, <1>5, <1>6, <1>7, LanesPrimed

LEMMA JoinAt ==
    ASSUME TypeOK, JoinBound, LanesInv, NEW j \in Joins, joins[j].at # "idle"
    PROVE  LET c == joins[j].inc IN
           /\ joins[j] \in JoinTypes /\ c \in Attempts /\ c <= attempts
           /\ up[c] \in Seq(Ups) /\ down[c] \in Seq(Downs) /\ peers[c] \in PeerTypes
           /\ Speaks(c, peers[c], up[c], fastUp[c])
           /\ Meets(joins[j], peers[c], up[c], down[c])
<1>1. joins[j] \in JoinTypes /\ joins[j].inc \in Attempts
    BY JoinInc
<1> QED BY <1>1 DEF LanesInv, Fresh, TypeOK

LEMMA KeepFields ==
    ASSUME NEW r \in JoinTypes, NEW f
    PROVE  /\ Keep(r, f).at = r.at /\ Keep(r, f).inc = r.inc
           /\ Keep(r, f).seat = r.seat /\ Keep(r, f).owner = r.owner
BY DEF Keep, JoinTypes

LEMMA LearnFields ==
    ASSUME NEW r \in JoinTypes, NEW m
    PROVE  /\ Learn(r, m).at = r.at /\ Learn(r, m).inc = r.inc
           /\ Learn(r, m).seat = r.seat /\ Learn(r, m).owner = m.owner
BY DEF Learn, JoinTypes

LEMMA WelcomedFields ==
    ASSUME NEW r \in JoinTypes, NEW m
    PROVE  /\ Welcome(r, m).at = "in" /\ Welcome(r, m).inc = r.inc
           /\ Welcome(r, m).seat = m.seat
BY DEF Welcome, JoinTypes

(* A join's reception, by what arrives: always what it waits for.          *)
Took(j, n, s, t) ==
    LET r == joins[j] c == joins[j].inc m == down[joins[j].inc][n] IN
    /\ Deliverable(c, n) /\ down' = [down EXCEPT ![c] = Without(@, n)]
    /\ joins' = [joins EXCEPT ![j] = s] /\ s.at = "in" /\ s.inc = c
    /\ up' = [up EXCEPT ![c] = t]
    /\ UNCHANGED <<host, fastUp, fastDown, bounds, wire, refused>>
    /\ \/ r.at = "hello" /\ m.type = "WELCOME" /\ s.seat = m.seat
          /\ t = Put(up[c], c, [type |-> "ACK"])
       \/ /\ r.at = "in" /\ m.type = "ROSTER" /\ s.seat = r.seat
          /\ s.owner = m.owner /\ t = up[c]
       \/ /\ r.at = "in" /\ m.type = "FRAME" /\ s.seat = r.seat
          /\ s.owner = r.owner /\ t = up[c]

LEMMA ReceiveTook ==
    ASSUME MembersInv, LanesInv, NEW j \in Joins, JoinReceive(j)
    PROVE  joins[j].at # "idle" /\ \E n, s, t : Took(j, n, s, t)
<1>1. TypeOK /\ JoinBound /\ joins[j].at # "idle"
    BY JoinReceives DEF MembersInv
<1>2. PICK r, c : r = joins[j] /\ c = joins[j].inc
    OBVIOUS
<1>3. /\ r \in JoinTypes /\ c \in Attempts /\ down[c] \in Seq(Downs)
      /\ up \in [Attempts -> Seq(Ups)] /\ Meets(r, peers[c], up[c], down[c])
    BY <1>1, <1>2, JoinAt DEF TypeOK
<1>4. PICK n : Received(j, n) /\ Deliverable(c, n)
    BY <1>2 DEF JoinReceive, Received
<1>5. PICK m : m = down[c][n]
    OBVIOUS
<1>6. /\ n \in DOMAIN down[c] /\ down' = [down EXCEPT ![c] = Without(@, n)]
      /\ up' = IF m.type = "WELCOME"
               THEN [up EXCEPT ![c] = Put(@, c, [type |-> "ACK"])] ELSE up
      /\ (m.type = "WELCOME") = (r.at = "hello") =>
             /\ joins' = [joins EXCEPT ![j] =
                   CASE m.type = "WELCOME" -> Welcome(r, m)
                     [] m.type = "ROSTER" -> Learn(r, m)
                     [] m.type = "FRAME" -> Keep(r, m)]
             /\ UNCHANGED <<wire, refused>>
    BY <1>2, <1>4, <1>5 DEF Received
<1>7. UNCHANGED <<host, fastUp, fastDown, bounds>>
    BY JoinReceives
<1>8. m \in Downs
    BY <1>3, <1>5, <1>6
<1>9. r.at = "hello" \/ r.at = "in"
    BY <1>1, <1>2, <1>3 DEF JoinTypes
<1>10. m.type = "WELCOME" <=> r.at = "hello"
    <2>1. CASE r.at = "hello"
        <3>1. Greets(r, peers[c], up[c], down[c]) /\ down[c] # <<>>
            BY <1>3, <1>6, <2>1 DEF Meets
        <3>2. n = 1
            BY <1>3, <1>6, <3>1 DEF Greets
        <3> QED BY <1>5, <2>1, <3>1, <3>2 DEF Greets
    <2>2. CASE r.at = "in"
        BY <1>3, <1>5, <1>6, <2>2 DEF Meets, Enters
    <2> QED BY <1>9, <2>1, <2>2
<1>11. PICK s : s = CASE m.type = "WELCOME" -> Welcome(r, m)
                     [] m.type = "ROSTER" -> Learn(r, m)
                     [] m.type = "FRAME" -> Keep(r, m)
    OBVIOUS
<1>12. joins' = [joins EXCEPT ![j] = s] /\ UNCHANGED <<wire, refused>>
    BY <1>6, <1>10, <1>11
<1>13. CASE m.type = "WELCOME"
    <2>1. s = Welcome(r, m) /\ r.at = "hello"
        BY <1>10, <1>11, <1>13
    <2>2. up' = [up EXCEPT ![c] = Put(up[c], c, [type |-> "ACK"])]
        BY <1>6, <1>13
    <2>3. Took(j, n, s, Put(up[c], c, [type |-> "ACK"]))
        BY <1>2, <1>3, <1>4, <1>5, <1>6, <1>7, <1>12, <1>13, <2>1, <2>2, WelcomedFields
        DEF Took
    <2> QED BY <1>1, <2>3
<1>14. up' = [up EXCEPT ![c] = up[c]] \/ m.type = "WELCOME"
    BY <1>3, <1>6
<1>15. CASE m.type = "ROSTER"
    <2>1. s = Learn(r, m) /\ r.at = "in" /\ up' = [up EXCEPT ![c] = up[c]]
        BY <1>9, <1>10, <1>11, <1>14, <1>15
    <2>2. Took(j, n, s, up[c])
        BY <1>2, <1>3, <1>4, <1>5, <1>6, <1>7, <1>12, <1>15, <2>1, LearnFields DEF Took
    <2> QED BY <1>1, <2>2
<1>16. CASE m.type = "FRAME"
    <2>1. s = Keep(r, m) /\ r.at = "in" /\ up' = [up EXCEPT ![c] = up[c]]
        BY <1>9, <1>10, <1>11, <1>14, <1>16
    <2>2. Took(j, n, s, up[c])
        BY <1>2, <1>3, <1>4, <1>5, <1>6, <1>7, <1>12, <1>16, <2>1, KeepFields DEF Took
    <2> QED BY <1>1, <2>2
<1> QED BY <1>8, <1>13, <1>15, <1>16, MessageKinds

LEMMA ReceiveLanes ==
    ASSUME MembersInv, LanesInv, NEW j \in Joins, JoinReceive(j)
    PROVE  LanesInv'
<1>1. TypeOK /\ JoinBound /\ joins[j].at # "idle"
    BY JoinReceives DEF MembersInv
<1>2. PICK n, s, t : Took(j, n, s, t)
    BY ReceiveTook
<1>3. PICK r, c, m : r = joins[j] /\ c = r.inc /\ m = down[c][n]
    OBVIOUS
<1>4. /\ r \in JoinTypes /\ c \in Attempts /\ c <= attempts
      /\ up[c] \in Seq(Ups) /\ down[c] \in Seq(Downs) /\ peers[c] \in PeerTypes
      /\ Speaks(c, peers[c], up[c], fastUp[c])
      /\ Meets(r, peers[c], up[c], down[c])
    BY <1>1, <1>3, JoinAt
<1>5. /\ n \in DOMAIN down[c] /\ down' = [down EXCEPT ![c] = Without(@, n)]
      /\ joins' = [joins EXCEPT ![j] = s] /\ s.at = "in" /\ s.inc = c
      /\ up' = [up EXCEPT ![c] = t]
      /\ UNCHANGED <<peers, fastUp, wire, attempts, refused>>
    BY <1>2, <1>3 DEF Took, Deliverable, host, bounds
<1>6. /\ up \in [Attempts -> Seq(Ups)] /\ down \in [Attempts -> Seq(Downs)]
    BY <1>1 DEF TypeOK
<1>7. /\ up'[c] = t /\ down'[c] = Without(down[c], n)
      /\ \A d \in Attempts \ {c} :
             up'[d] = up[d] /\ down'[d] = down[d] /\ fastUp'[d] = fastUp[d]
    BY <1>4, <1>5, <1>6
<1>8. Speaks(c, peers[c], t, fastUp[c]) /\ Enters(s, peers[c], Without(down[c], n))
    <2>1. CASE r.at = "hello"
        <3>1. /\ t = Put(up[c], c, [type |-> "ACK"]) /\ s.seat = m.seat
              /\ Greets(r, peers[c], up[c], down[c])
            BY <1>2, <1>3, <1>4, <2>1 DEF Took, Meets
        <3>2. down[c] # <<>> /\ Len(down[c]) = 1
            BY <1>4, <1>5, <3>1 DEF Greets
        <3>3. n = 1
            BY <1>4, <1>5, <3>2
        <3>4. /\ peers[c].at \in {"none", "greeted"}
              /\ peers[c].at = "greeted" => peers[c].seat = m.seat
            BY <1>3, <1>4, <3>1, <3>2, <3>3 DEF Greets, PeerTypes
        <3>5. DOMAIN Without(down[c], n) = {}
            BY <1>4, <1>5, <3>2, LaneWithout
        <3>6. [type |-> "ACK"] \in Ups
            BY DEF Ups
        <3>7. t = up[c] \/ t = Append(up[c], [type |-> "ACK"])
            BY <3>1 DEF Put
        <3>8. \A i \in DOMAIN t : t[i] = [type |-> "ACK"] \/ \E k \in DOMAIN up[c] : t[i] = up[c][k]
            BY <1>4, <3>6, <3>7, LaneAppend
        <3>9. Speaks(c, peers[c], t, fastUp[c])
            BY <1>4, <3>4, <3>8 DEF Speaks, Own
        <3> QED BY <3>1, <3>4, <3>5, <3>9 DEF Enters
    <2>2. CASE r.at # "hello"
        <3>1. t = up[c] /\ s.seat = r.seat /\ r.at = "in"
            BY <1>2, <1>3, <2>2 DEF Took
        <3>2. Enters(r, peers[c], down[c])
            BY <1>4, <3>1 DEF Meets
        <3>3. \A i \in DOMAIN Without(down[c], n) :
                  \E k \in DOMAIN down[c] : Without(down[c], n)[i] = down[c][k]
            <4>1. /\ DOMAIN Without(down[c], n) = 1 .. Len(down[c]) - 1
                  /\ DOMAIN down[c] = 1 .. Len(down[c]) /\ Len(down[c]) \in Nat
                  /\ \A i \in 1 .. Len(down[c]) - 1 :
                         Without(down[c], n)[i] = IF i < n THEN down[c][i] ELSE down[c][i + 1]
                BY <1>4, <1>5, LaneWithout
            <4>2. ASSUME NEW i \in 1 .. Len(down[c]) - 1
                  PROVE  i \in 1 .. Len(down[c]) /\ i + 1 \in 1 .. Len(down[c])
                BY <4>1
            <4> QED BY <4>1, <4>2
        <3> QED BY <1>4, <3>1, <3>2, <3>3 DEF Enters
    <2> QED BY <2>1, <2>2
<1>9. Meets(s, peers[c], up'[c], down'[c])
    BY <1>5, <1>7, <1>8 DEF Meets
<1>10. Speaks(c, peers[c], up'[c], fastUp'[c]) /\ s.inc <= attempts
    BY <1>4, <1>5, <1>7, <1>8
<1> QED BY <1>1, <1>3, <1>4, <1>5, <1>7, <1>9, <1>10, OneJoinLanes

LEMMA JoinFastFrameLanes ==
    ASSUME MembersInv, LanesInv, NEW j \in Joins, JoinFastFrame(j)
    PROVE  LanesInv'
<1>1. TypeOK /\ JoinBound /\ joins[j].at = "in"
    BY DEF MembersInv, JoinFastFrame
<1>2. PICK r, c : r = joins[j] /\ c = r.inc
    OBVIOUS
<1>3. /\ r \in JoinTypes /\ c \in Attempts /\ c <= attempts
      /\ Speaks(c, peers[c], up[c], fastUp[c])
      /\ Meets(r, peers[c], up[c], down[c])
    BY <1>1, <1>2, JoinAt
<1>4. PICK f : joins' = [joins EXCEPT ![j] = Keep(r, f)]
    BY <1>2 DEF JoinFastFrame
<1>5. PICK s : s = Keep(r, f)
    OBVIOUS
<1>6. s.at = r.at /\ s.inc = r.inc /\ s.seat = r.seat
    BY <1>3, <1>5, KeepFields
<1>7. UNCHANGED <<peers, wire, up, down, fastUp, attempts, refused>>
    BY DEF JoinFastFrame, host, bounds
<1>8. Meets(s, peers[c], up'[c], down'[c])
    BY <1>1, <1>2, <1>3, <1>6, <1>7 DEF Meets, Enters
<1> QED BY <1>1, <1>2, <1>3, <1>4, <1>5, <1>6, <1>7, <1>8, OneJoinLanes

LEMMA CaptureLanes ==
    ASSUME MembersInv, LanesInv, NEW j \in Joins, JoinCapture(j)
    PROVE  LanesInv'
<1>1. /\ TypeOK /\ JoinBound /\ joins[j].at = "in" /\ joins \in [Joins -> JoinTypes]
      /\ up \in [Attempts -> Seq(Ups)]
    BY DEF MembersInv, JoinCapture, TypeOK
<1>2. PICK r, c, f : /\ r = joins[j] /\ c = r.inc
                     /\ f = [type |-> "FRAME", seat |-> r.seat, inc |-> c]
    OBVIOUS
<1>3. /\ r \in JoinTypes /\ c \in Attempts /\ c <= attempts /\ up[c] \in Seq(Ups)
      /\ Speaks(c, peers[c], up[c], fastUp[c])
      /\ Enters(r, peers[c], down[c])
    BY <1>1, <1>2, JoinAt DEF Meets
<1>4. /\ peers[c].ready
      /\ \/ up' = [up EXCEPT ![c] = Append(@, f)] /\ UNCHANGED fastUp
         \/ fastUp' = [fastUp EXCEPT ![c] = @ \cup {f}] /\ UNCHANGED up
      /\ UNCHANGED <<peers, wire, down, joins, refused, attempts>>
    BY <1>2 DEF JoinCapture, host
<1>5. Own(f, peers[c], c) /\ peers[c].at = "admitted"
    BY <1>2, <1>3, <1>4 DEF Speaks, Own, Enters
<1>6. f \in Ups
    <2>1. r.seat \in Seats
        BY <1>1, <1>2, <1>3 DEF JoinTypes, MembersInv, JoinBound, JoinFits
    <2> QED BY <1>2, <1>3, <2>1 DEF Ups, Frames
<1>7. /\ up'[c] = up[c] \/ up'[c] = Append(up[c], f)
      /\ fastUp'[c] \subseteq fastUp[c] \cup {f}
      /\ \A d \in Attempts \ {c} :
             up'[d] = up[d] /\ down'[d] = down[d] /\ fastUp'[d] = fastUp[d]
    BY <1>1, <1>3, <1>4 DEF TypeOK
<1>8. \A i \in DOMAIN up'[c] :
          up'[c][i] = f \/ \E k \in DOMAIN up[c] : up'[c][i] = up[c][k]
    BY <1>3, <1>6, <1>7, LaneAppend
<1>9. Speaks(c, peers[c], up'[c], fastUp'[c])
    <2>1. f.type = "FRAME"
        BY <1>2
    <2> QED BY <1>3, <1>5, <1>7, <1>8, <2>1 DEF Speaks
<1>10. Meets(r, peers[c], up'[c], down'[c])
    BY <1>1, <1>2, <1>3, <1>4 DEF Meets
<1>11. joins' = [joins EXCEPT ![j] = r]
    BY <1>1, <1>2, <1>4
<1> QED BY <1>1, <1>2, <1>3, <1>4, <1>7, <1>9, <1>10, <1>11, OneJoinLanes

LEMMA JoinPingLanes ==
    ASSUME MembersInv, LanesInv, NEW j \in Joins, JoinPing(j)
    PROVE  LanesInv'
<1>1. /\ TypeOK /\ JoinBound /\ joins[j].at = "in" /\ joins \in [Joins -> JoinTypes]
    BY DEF MembersInv, JoinPing, TypeOK
<1>2. PICK r, c : r = joins[j] /\ c = r.inc
    OBVIOUS
<1>3. /\ r \in JoinTypes /\ c \in Attempts /\ c <= attempts
      /\ Speaks(c, peers[c], up[c], fastUp[c])
      /\ Meets(r, peers[c], up[c], down[c])
    BY <1>1, <1>2, JoinAt
<1>4. /\ fastUp' = [fastUp EXCEPT ![c] = @ \cup {[type |-> "PING"]}]
      /\ UNCHANGED <<peers, wire, up, down, joins, refused, attempts>>
    BY <1>2 DEF JoinPing, host
<1>5. /\ fastUp'[c] \subseteq fastUp[c] \cup {[type |-> "PING"]}
      /\ \A d \in Attempts \ {c} : fastUp'[d] = fastUp[d]
    BY <1>1, <1>3, <1>4 DEF TypeOK
<1>6. Speaks(c, peers[c], up'[c], fastUp'[c])
    BY <1>3, <1>4, <1>5 DEF Speaks
<1>7. Meets(r, peers[c], up'[c], down'[c])
    BY <1>3, <1>4
<1>8. joins' = [joins EXCEPT ![j] = r]
    BY <1>1, <1>2, <1>4
<1> QED BY <1>1, <1>2, <1>3, <1>4, <1>5, <1>6, <1>7, <1>8, OneJoinLanes

LEMMA JoinRetireLanes ==
    ASSUME MembersInv, LanesInv, NEW j \in Joins, JoinRetire(j)
    PROVE  LanesInv'
<1>1. /\ TypeOK /\ JoinBound /\ joins[j].at # "idle" /\ joins \in [Joins -> JoinTypes]
      /\ down \in [Attempts -> Seq(Downs)] /\ attempts \in Nat
    BY MembersAssumption DEF MembersInv, JoinRetire, TypeOK, Incs
<1>2. PICK r, c, s :
          /\ r = joins[j] /\ c = r.inc
          /\ s = [r EXCEPT !.at = "idle", !.inc = 0, !.seat = 0, !.members = {},
                           !.left = TRUE]
    OBVIOUS
<1>3. /\ r \in JoinTypes /\ c \in Attempts /\ c <= attempts
      /\ Speaks(c, peers[c], up[c], fastUp[c])
    BY <1>1, <1>2, JoinAt
<1>4. /\ joins' = [joins EXCEPT ![j] = s] /\ down' = [down EXCEPT ![c] = <<>>]
      /\ UNCHANGED <<peers, wire, up, fastUp, refused, attempts>>
    BY <1>2 DEF JoinRetire, host, bounds
<1>5. s.at = "idle" /\ s.inc <= attempts
    BY <1>1, <1>2, <1>3 DEF JoinTypes
<1>6. Speaks(c, peers[c], up'[c], fastUp'[c])
    BY <1>3, <1>4
<1>7. \A d \in Attempts \ {c} : down'[d] = down[d]
    BY <1>1, <1>4
<1> QED BY <1>1, <1>2, <1>3, <1>4, <1>5, <1>6, <1>7, OneJoinLanes

(* A new attempt: HELLO, and nothing before it.                            *)
LEMMA ConnectLanes ==
    ASSUME MembersInv, LanesInv, NEW j \in Joins, Connect(j)
    PROVE  LanesInv'
<1>1. /\ TypeOK /\ JoinBound /\ joins \in [Joins -> JoinTypes] /\ attempts \in Nat
      /\ peers \in [Attempts -> PeerTypes] /\ up \in [Attempts -> Seq(Ups)]
      /\ MaxAttempts \in Nat /\ attempts < MaxAttempts /\ Attempts \subseteq Nat
    BY MembersAssumption DEF MembersInv, TypeOK, Incs, Connect, Attempts
<1>2. PICK r, c, s :
          /\ r = joins[j] /\ c = attempts + 1
          /\ s = [r EXCEPT !.at = "hello", !.inc = c, !.owner = [i \in Seats |-> 0]]
    OBVIOUS
<1>3. c \in Attempts /\ c > attempts
    BY <1>1, <1>2 DEF Attempts
<1>4. /\ peers[c] = NoPeer /\ c \notin wire /\ up[c] = <<>> /\ down[c] = <<>>
      /\ fastUp[c] = {} /\ Fresh
    BY <1>3 DEF MembersInv, PeersCounted, LanesInv, Fresh
<1>5. /\ attempts' = c /\ joins' = [joins EXCEPT ![j] = s]
      /\ \/ /\ peers' = [peers EXCEPT ![c].at = "open"] /\ wire' = wire \cup {c}
            /\ up' = [up EXCEPT ![c] = <<[type |-> "HELLO"]>>]
         \/ UNCHANGED <<peers, wire, up>>
      /\ UNCHANGED <<down, fastUp, refused>>
    BY <1>2 DEF Connect
<1>6. /\ s.at = "hello" /\ s.inc = c
      /\ \A k \in Joins : joins'[k] = IF k = j THEN s ELSE joins[k]
    BY <1>1, <1>2, <1>5 DEF JoinTypes
<1>7. /\ \A d \in Attempts \ {c} : peers'[d] = peers[d] /\ up'[d] = up[d]
      /\ wire' \subseteq wire \cup {c}
    BY <1>1, <1>5
<1>8. /\ peers'[c].at \in {"none", "open"} /\ peers'[c].ready = FALSE
      /\ up'[c] = <<>> \/ up'[c] = <<[type |-> "HELLO"]>>
      /\ up'[c] = <<>> \/ peers'[c].at = "open"
    <2>1. CASE UNCHANGED <<peers, up>>
        BY <1>4, <2>1 DEF NoPeer
    <2>2. CASE /\ peers' = [peers EXCEPT ![c].at = "open"]
               /\ up' = [up EXCEPT ![c] = <<[type |-> "HELLO"]>>]
        <3>1. peers' = [peers EXCEPT ![c] = [NoPeer EXCEPT !.at = "open"]]
            BY <1>4, <2>2
        <3>2. peers'[c] = [NoPeer EXCEPT !.at = "open"]
            BY <1>1, <1>3, <3>1
        <3>3. up'[c] = <<[type |-> "HELLO"]>>
            BY <1>1, <1>3, <2>2
        <3> QED BY <3>2, <3>3 DEF NoPeer
    <2> QED BY <1>5, <2>1, <2>2
<1>9. Fresh'
    <2>1. ASSUME NEW d \in Attempts, d > attempts'
          PROVE  d \notin wire' /\ up'[d] = <<>> /\ down'[d] = <<>> /\ fastUp'[d] = {}
        <3>1. d # c /\ d > attempts
            BY <1>1, <1>2, <1>5, <2>1
        <3> QED BY <1>4, <1>5, <1>7, <3>1 DEF Fresh
    <2>2. \A k \in Joins : joins[k].inc \in Nat /\ joins[k].inc <= attempts
        BY <1>1, <1>4, MembersAssumption DEF Fresh, JoinTypes, Incs
    <2>3. \A k \in Joins : joins'[k].inc <= attempts'
        BY <1>1, <1>2, <1>5, <1>6, <2>2
    <2>4. \A k \in Joins : joins[k].inc # c
        BY <1>1, <1>2, <2>2
    <2>5. \A k, l \in Joins : k # l /\ joins'[k].at # "idle" /\ joins'[l].at # "idle" =>
              joins'[k].inc # joins'[l].inc
        BY <1>4, <1>6, <2>4 DEF Fresh
    <2> QED BY <2>1, <2>3, <2>5 DEF Fresh
<1>10. NoneRefused'
    BY <1>5 DEF LanesInv, NoneRefused
<1>11. ASSUME NEW d \in Attempts PROVE Speaks(d, peers'[d], up'[d], fastUp'[d])
    <2>1. CASE d = c
        <3>1. fastUp'[c] = {}
            BY <1>4, <1>5
        <3>2. PICK q : q = up'[c]
            OBVIOUS
        <3>3. Len(q) <= 1 /\ \A i \in DOMAIN q : q[i].type = "HELLO"
            <4>1. CASE q = <<>>
                BY <4>1
            <4>2. ASSUME NEW h, h.type = "HELLO", q = <<h>>
                  PROVE  Len(q) <= 1 /\ \A i \in DOMAIN q : q[i].type = "HELLO"
                BY <4>2
            <4>3. q = <<>> \/ q = <<[type |-> "HELLO"]>>
                BY <1>8, <3>2
            <4> QED BY <4>1, <4>2, <4>3
        <3>4. q = <<>> \/ peers'[c].at = "open"
            BY <1>8, <3>2
        <3>5. DOMAIN q # {} => peers'[c].at = "open"
            BY <3>4
        <3>6. Speaks(c, peers'[c], q, fastUp'[c])
            BY <1>8, <3>1, <3>3, <3>5 DEF Speaks
        <3> QED BY <2>1, <3>2, <3>6
    <2>2. CASE d # c
        <3>1. Speaks(d, peers[d], up[d], fastUp[d])
            BY DEF LanesInv
        <3>2. peers'[d] = peers[d] /\ up'[d] = up[d] /\ fastUp'[d] = fastUp[d]
            BY <1>5, <1>7, <2>2
        <3> QED BY <3>1, <3>2, Zenon
    <2> QED BY <2>1, <2>2
<1>12. ASSUME NEW k \in Joins, joins'[k].at # "idle"
       PROVE  Meets(joins'[k], peers'[joins'[k].inc], up'[joins'[k].inc],
                    down'[joins'[k].inc])
    <2>1. CASE k = j
        <3>1. joins'[k] = s /\ down'[c] = <<>>
            BY <1>4, <1>5, <1>6, <2>1
        <3>2. \A i \in DOMAIN up'[c] : up'[c][i].type = "HELLO"
            BY <1>8
        <3>3. Greets(s, peers'[c], up'[c], down'[c])
            BY <1>8, <3>1, <3>2 DEF Greets
        <3> QED BY <1>6, <3>1, <3>3 DEF Meets
    <2>2. CASE k # j
        <3>1. PICK d : d = joins[k].inc
            OBVIOUS
        <3>2. joins'[k] = joins[k] /\ joins[k].at # "idle" /\ d \in Attempts
            BY <1>1, <1>6, <1>12, <2>2, <3>1, JoinInc
        <3>3. d # c
            <4>1. d <= attempts
                BY <1>4, <3>1 DEF Fresh
            <4> QED BY <1>1, <1>2, <3>2, <4>1
        <3>4. Meets(joins[k], peers[d], up[d], down[d])
            BY <3>1, <3>2 DEF LanesInv
        <3>5. peers'[d] = peers[d] /\ up'[d] = up[d] /\ down'[d] = down[d]
            BY <1>5, <1>7, <3>2, <3>3
        <3> QED BY <3>1, <3>2, <3>4, <3>5
    <2> QED BY <2>1, <2>2
<1> QED BY <1>9, <1>10, <1>11, <1>12, LanesPrimed

LEMMA DrainLanes ==
    ASSUME MembersInv, LanesInv, NEW j \in Joins, JoinDrainLeave(j)
    PROVE  LanesInv'
<1>1. joins \in [Joins -> JoinTypes]
    BY DEF MembersInv, TypeOK
<1>2. UNCHANGED <<peers, wire, up, down, fastUp, refused, attempts>>
    BY DEF JoinDrainLeave, host, net, bounds
<1>3. Fresh' /\ NoneRefused'
    BY <1>1, <1>2, DrainFields DEF LanesInv, Fresh, NoneRefused
<1>4. ASSUME NEW c \in Attempts PROVE Speaks(c, peers'[c], up'[c], fastUp'[c])
    BY <1>2 DEF LanesInv
<1>5. ASSUME NEW k \in Joins, joins'[k].at # "idle"
      PROVE  Meets(joins'[k], peers'[joins'[k].inc], up'[joins'[k].inc],
                   down'[joins'[k].inc])
    <2>1. PICK d, r, s : d = joins[k].inc /\ r = joins[k] /\ s = joins'[k]
        OBVIOUS
    <2>2. s.at = r.at /\ s.inc = d /\ s.seat = r.seat
        BY <1>1, <2>1, DrainFields
    <2>3. Meets(r, peers[d], up[d], down[d])
        BY <1>5, <2>1, <2>2 DEF LanesInv
    <2>4. Meets(s, peers[d], up[d], down[d])
        BY <2>2, <2>3 DEF Meets, Greets, Enters
    <2> QED BY <1>2, <2>1, <2>2, <2>4, Zenon
<1> QED BY <1>3, <1>4, <1>5, LanesPrimed

LEMMA NextLanes == ASSUME MembersInv, LanesInv, [Next]_vars PROVE LanesInv'
<1>1. CASE HostRoster
    BY <1>1, RosterLanes
<1>2. ASSUME NEW c \in Attempts,
             Cut(c) \/ HostReceive(c) \/ HostReady(c) \/ HostFastFrame(c)
                 \/ HostPing(c) \/ HostRetire(c)
      PROVE  LanesInv'
    BY <1>2, CutLanes, HelloLanes, AckLanes, FrameLanes, ReadyLanes, FastFrameLanes,
       PingLanes, RetireLanes DEF HostReceive
<1>3. ASSUME NEW j \in Joins,
             Connect(j) \/ JoinReceive(j) \/ JoinFastFrame(j) \/ JoinCapture(j)
                 \/ JoinPing(j) \/ JoinRetire(j) \/ JoinDrainLeave(j)
      PROVE  LanesInv'
    BY <1>3, ConnectLanes, ReceiveLanes, JoinFastFrameLanes, CaptureLanes,
       JoinPingLanes, JoinRetireLanes, DrainLanes
<1>4. CASE UNCHANGED vars
    BY <1>4 DEF vars, host, net, bounds, LanesInv, Fresh, NoneRefused, Speaks, Own,
       Meets, Greets, Enters
<1> QED BY <1>1, <1>2, <1>3, <1>4 DEF Next

LEMMA LanesHold == Spec => []LanesInv
<1>1. Init => LanesInv
    BY LanesInit
<1>2. MembersInv /\ LanesInv /\ [Next]_vars => LanesInv'
    BY NextLanes
<1> QED BY <1>1, <1>2, Inductive, PTL DEF Spec

(* Whoever follows the protocol is never thrown out for breaking it: what  *)
(* is on a connection always suits the state of the side it reaches, but   *)
(* for the PING that overtakes SESSION_ACK on the unordered lane.          *)
THEOREM MembersNoneRefused == Spec => []NoneRefused
<1>1. LanesInv => NoneRefused
    BY DEF LanesInv
<1> QED BY <1>1, LanesHold, PTL

-----------------------------------------------------------------------------
(* Rosters and the frames between them.  What a roster tells stays told as *)
(* long as the later ones agree.                                           *)
LEMMA BindsAppend ==
    ASSUME NEW lane \in Seq(Downs), NEW m \in Downs, NEW known, NEW i, NEW d,
           NEW n \in 1 .. Len(lane) + 1, Binds(lane, known, i, d, n), Says(m, i, d)
    PROVE  Binds(Append(lane, m), known, i, d, n)
<1>1. PICK k \in 0 .. n - 1 :
          /\ IF k = 0 THEN known[i] = d
             ELSE lane[k].type = "ROSTER" /\ lane[k].owner[i] = d
          /\ \A l \in DOMAIN lane : l > k => Says(lane[l], i, d)
    BY DEF Binds
<1>2. PICK q : q = Append(lane, m)
    OBVIOUS
<1>3. /\ DOMAIN q = (DOMAIN lane) \cup {Len(lane) + 1} /\ DOMAIN lane = 1 .. Len(lane)
      /\ Len(lane) \in Nat /\ q[Len(lane) + 1] = m
      /\ \A l \in DOMAIN lane : q[l] = lane[l]
    BY <1>2, LaneAppend
<1>4. k # 0 => k \in DOMAIN lane
    BY <1>3
<1>5. \A l \in DOMAIN q : l > k => Says(q[l], i, d)
    BY <1>1, <1>3, Zenon
<1>6. IF k = 0 THEN known[i] = d ELSE q[k].type = "ROSTER" /\ q[k].owner[i] = d
    BY <1>1, <1>3, <1>4
<1>7. Binds(q, known, i, d, n)
    BY <1>5, <1>6 DEF Binds
<1> QED BY <1>2, <1>7

(* A roster that binds the seat, sent last.                                *)
LEMMA BindsRoster ==
    ASSUME NEW lane \in Seq(Downs), NEW m \in Downs, NEW known, NEW i, NEW d,
           m.type = "ROSTER", m.owner[i] = d
    PROVE  Binds(Append(lane, m), known, i, d, Len(Append(lane, m)) + 1)
<1>1. PICK q : q = Append(lane, m)
    OBVIOUS
<1>2. /\ DOMAIN q = (DOMAIN lane) \cup {Len(lane) + 1} /\ DOMAIN lane = 1 .. Len(lane)
      /\ Len(lane) \in Nat /\ q[Len(lane) + 1] = m /\ Len(q) = Len(lane) + 1
    BY <1>1, LaneAppend
<1> DEFINE k == Len(lane) + 1
<1>3. k \in 0 .. Len(q) + 1 - 1 /\ k # 0 /\ q[k].type = "ROSTER" /\ q[k].owner[i] = d
    BY <1>2
<1>4. \A l \in DOMAIN q : ~(l > k)
    BY <1>2
<1> HIDE DEF k
<1>5. Binds(q, known, i, d, Len(q) + 1)
    BY <1>3, <1>4 DEF Binds
<1> QED BY <1>1, <1>5

LEMMA BindsLater ==
    ASSUME NEW lane, NEW known, NEW i, NEW d, NEW n \in Nat, NEW x \in Nat,
           n <= x, Binds(lane, known, i, d, n)
    PROVE  Binds(lane, known, i, d, x)
<1>1. 0 .. n - 1 \subseteq 0 .. x - 1
    OBVIOUS
<1> QED BY <1>1 DEF Binds

(* Only frames are passed over, so a roster that is delivered is the first *)
(* on the lane: what it takes off the lane the join then knows.            *)
LEMMA BindsTaken ==
    ASSUME NEW lane \in Seq(Downs), NEW n \in DOMAIN lane, NEW known, NEW now,
           \A k \in 1 .. n - 1 : lane[k].type = "FRAME",
           now = IF lane[n].type = "ROSTER" THEN lane[n].owner ELSE known,
           NEW i, NEW d, NEW x \in 1 .. Len(lane) + 1, x # n,
           Binds(lane, known, i, d, x)
    PROVE  Binds(Without(lane, n), now, i, d, IF x < n THEN x ELSE x - 1)
<1>1. PICK k \in 0 .. x - 1 :
          /\ IF k = 0 THEN known[i] = d
             ELSE lane[k].type = "ROSTER" /\ lane[k].owner[i] = d
          /\ \A l \in DOMAIN lane : l > k => Says(lane[l], i, d)
    BY DEF Binds
<1>2. PICK q : q = Without(lane, n)
    OBVIOUS
<1>3. PICK y : y = IF x < n THEN x ELSE x - 1
    OBVIOUS
<1>4. /\ DOMAIN lane = 1 .. Len(lane) /\ Len(lane) \in Nat /\ n \in 1 .. Len(lane)
      /\ DOMAIN q = 1 .. Len(lane) - 1
      /\ \A l \in 1 .. Len(lane) - 1 : q[l] = IF l < n THEN lane[l] ELSE lane[l + 1]
    BY <1>2, LaneWithout
<1>5. y \in Nat /\ y >= 1
    BY <1>3, <1>4
<1>6. \A l \in 1 .. n - 1 : lane[l].type # "ROSTER" /\ Says(lane[l], i, d)
    BY DEF Says
<1>7. CASE k <= n
    <2>1. now[i] = d
        <3>1. CASE k = 0
            <4>1. Says(lane[n], i, d)
                BY <1>1, <1>4, <3>1
            <4> QED BY <1>1, <3>1, <4>1 DEF Says
        <3>2. CASE k # 0
            <4>1. lane[k].type = "ROSTER" /\ lane[k].owner[i] = d
                BY <1>1, <3>2
            <4>2. k = n
                BY <1>4, <1>6, <1>7, <3>2, <4>1
            <4> QED BY <4>1, <4>2
        <3> QED BY <3>1, <3>2
    <2>2. \A l \in DOMAIN q : Says(q[l], i, d)
        <3>1. ASSUME NEW l \in DOMAIN q PROVE Says(q[l], i, d)
            <4>1. CASE l < n
                <5>1. q[l] = lane[l] /\ l \in 1 .. n - 1
                    BY <1>4, <4>1
                <5> QED BY <1>6, <5>1, Zenon
            <4>2. CASE ~(l < n)
                <5>1. q[l] = lane[l + 1] /\ l + 1 \in DOMAIN lane /\ l + 1 > k
                    BY <1>4, <1>7, <4>2
                <5> QED BY <1>1, <5>1, Zenon
            <4> QED BY <4>1, <4>2
        <3> QED BY <3>1
    <2>3. 0 \in 0 .. y - 1
        BY <1>5
    <2>4. Binds(q, now, i, d, y)
        BY <2>1, <2>2, <2>3 DEF Binds
    <2> QED BY <1>2, <1>3, <2>4
<1>8. CASE k > n
    <2>1. k # 0 /\ k - 1 # 0 /\ k - 1 \in 0 .. y - 1
        BY <1>3, <1>4, <1>8
    <2>2. q[k - 1] = lane[k]
        <3>1. k - 1 \in 1 .. Len(lane) - 1 /\ ~(k - 1 < n) /\ (k - 1) + 1 = k
            BY <1>4, <1>8
        <3> QED BY <1>4, <3>1
    <2>3. \A l \in DOMAIN q : l > k - 1 => Says(q[l], i, d)
        <3>1. ASSUME NEW l \in DOMAIN q, l > k - 1 PROVE Says(q[l], i, d)
            <4>1. l \in 1 .. Len(lane) - 1 /\ ~(l < n) /\ l + 1 \in DOMAIN lane /\ l + 1 > k
                BY <1>4, <1>8, <3>1
            <4>2. q[l] = lane[l + 1]
                BY <1>4, <4>1
            <4> QED BY <1>1, <4>1, <4>2, Zenon
        <3> QED BY <3>1
    <2>4. q[k - 1].type = "ROSTER" /\ q[k - 1].owner[i] = d
        BY <1>1, <2>1, <2>2
    <2>5. Binds(q, now, i, d, y)
        BY <2>1, <2>3, <2>4 DEF Binds
    <2> QED BY <1>2, <1>3, <2>5
<1> QED BY <1>4, <1>7, <1>8

(* Nobody whose frames are about is admitted, or moves to another seat.    *)
Kept(ps, qs) ==
    \A d \in Attempts : ps[d].at \in {"none", "admitted"} =>
        /\ qs[d].at \in {"none", "admitted"}
        /\ qs[d].at = "admitted" => ps[d].at = "admitted" /\ qs[d].seat = ps[d].seat

LEMMA HeardKept ==
    ASSUME NEW lane \in Seq(Downs), NEW known, NEW ps, NEW qs, NEW last,
           Heard(lane, known, ps, last), Kept(ps, qs)
    PROVE  Heard(lane, known, qs, last)
<1>1. ASSUME NEW n \in DOMAIN lane, lane[n].type = "FRAME" PROVE lane[n].inc \in Attempts
    <2>1. lane[n] \in Frames
        BY <1>1, FrameOf
    <2> QED BY <2>1 DEF Frames
<1>2. ASSUME NEW n \in DOMAIN lane, NEW d, d = lane[n].inc, lane[n].type = "FRAME"
      PROVE  /\ d <= last /\ qs[d].at \in {"none", "admitted"}
             /\ qs[d].at = "admitted" => /\ lane[n].seat = qs[d].seat
                                         /\ Binds(lane, known, lane[n].seat, d, n)
    <2>1. /\ d \in Attempts /\ d <= last /\ ps[d].at \in {"none", "admitted"}
          /\ ps[d].at = "admitted" => /\ lane[n].seat = ps[d].seat
                                      /\ Binds(lane, known, lane[n].seat, d, n)
        BY <1>1, <1>2 DEF Heard
    <2>2. /\ qs[d].at \in {"none", "admitted"}
          /\ qs[d].at = "admitted" => ps[d].at = "admitted" /\ qs[d].seat = ps[d].seat
        BY <2>1 DEF Kept
    <2> QED BY <2>1, <2>2
<1> QED BY <1>2 DEF Heard

LEMMA HeardAppend ==
    ASSUME NEW lane \in Seq(Downs), NEW m \in Downs, NEW known, NEW ps, NEW last,
           Heard(lane, known, ps, last),
           \A d \in Attempts : ps[d].at = "admitted" => Says(m, ps[d].seat, d),
           m.type = "FRAME" =>
               /\ m.inc <= last /\ ps[m.inc].at = "admitted" /\ m.seat = ps[m.inc].seat
               /\ Knows(lane, known, ps)
    PROVE  Heard(Append(lane, m), known, ps, last)
<1>1. PICK q : q = Append(lane, m)
    OBVIOUS
<1>2. /\ DOMAIN q = (DOMAIN lane) \cup {Len(lane) + 1} /\ DOMAIN lane = 1 .. Len(lane)
      /\ Len(lane) \in Nat /\ q[Len(lane) + 1] = m
      /\ \A l \in DOMAIN lane : q[l] = lane[l]
    BY <1>1, LaneAppend
<1>3. ASSUME NEW n \in DOMAIN q, NEW d, d = q[n].inc, q[n].type = "FRAME"
      PROVE  /\ d <= last /\ ps[d].at \in {"none", "admitted"}
             /\ ps[d].at = "admitted" => /\ q[n].seat = ps[d].seat
                                         /\ Binds(q, known, q[n].seat, d, n)
    <2>1. CASE n = Len(lane) + 1
        <3>1. q[n] = m /\ m \in Frames
            BY <1>2, <1>3, <2>1, FrameOf
        <3>2. d \in Attempts /\ d <= last /\ ps[d].at = "admitted" /\ m.seat = ps[d].seat
            BY <1>3, <3>1 DEF Frames
        <3>3. Binds(lane, known, m.seat, d, n)
            BY <1>3, <2>1, <3>1, <3>2 DEF Knows
        <3>4. Says(m, m.seat, d) /\ n \in 1 .. Len(lane) + 1
            BY <1>2, <2>1, <3>2
        <3>5. Binds(q, known, m.seat, d, n)
            BY <1>1, <3>3, <3>4, BindsAppend
        <3> QED BY <3>1, <3>2, <3>5
    <2>2. CASE n # Len(lane) + 1
        <3>1. n \in DOMAIN lane /\ q[n] = lane[n]
            BY <1>2, <2>2
        <3>2. lane[n] \in Frames
            BY <1>3, <3>1, FrameOf
        <3>3. /\ d \in Attempts /\ d <= last /\ ps[d].at \in {"none", "admitted"}
              /\ ps[d].at = "admitted" => /\ lane[n].seat = ps[d].seat
                                          /\ Binds(lane, known, lane[n].seat, d, n)
            BY <1>3, <3>1, <3>2 DEF Heard, Frames
        <3>4. ASSUME ps[d].at = "admitted" PROVE Binds(q, known, lane[n].seat, d, n)
            <4>1. Says(m, lane[n].seat, d) /\ n \in 1 .. Len(lane) + 1
                BY <1>2, <3>1, <3>3, <3>4
            <4> QED BY <1>1, <3>3, <3>4, <4>1, BindsAppend
        <3> QED BY <3>1, <3>3, <3>4
    <2> QED BY <2>1, <2>2
<1>4. Heard(q, known, ps, last)
    BY <1>3 DEF Heard
<1> QED BY <1>1, <1>4

LEMMA KnowsAppend ==
    ASSUME NEW lane \in Seq(Downs), NEW m \in Downs, NEW known, NEW ps,
           \A d \in Attempts : ps[d].at = "admitted" => Says(m, ps[d].seat, d),
           m.type = "ROSTER" \/ Knows(lane, known, ps)
    PROVE  Knows(Append(lane, m), known, ps)
<1>1. PICK q : q = Append(lane, m)
    OBVIOUS
<1>2. Len(lane) \in Nat /\ Len(q) = Len(lane) + 1
    BY <1>1, LaneAppend
<1>3. ASSUME NEW d \in Attempts, ps[d].at = "admitted"
      PROVE  Binds(q, known, ps[d].seat, d, Len(q) + 1)
    <2>1. Says(m, ps[d].seat, d)
        BY <1>3
    <2>2. CASE m.type = "ROSTER"
        <3>1. m.owner[ps[d].seat] = d
            BY <2>1, <2>2 DEF Says
        <3> QED BY <1>1, <2>2, <3>1, BindsRoster
    <2>3. CASE Knows(lane, known, ps)
        <3>1. Binds(lane, known, ps[d].seat, d, Len(lane) + 1)
            BY <1>3, <2>3 DEF Knows
        <3>2. Len(lane) + 1 \in 1 .. Len(lane) + 1
            BY <1>2
        <3>3. Binds(q, known, ps[d].seat, d, Len(lane) + 1)
            BY <1>1, <2>1, <3>1, <3>2, BindsAppend
        <3> QED BY <1>2, <3>3, BindsLater
    <2> QED BY <2>2, <2>3
<1>4. Knows(q, known, ps)
    BY <1>3 DEF Knows
<1> QED BY <1>1, <1>4

LEMMA RelaysPrimed ==
    RelaysInv' <=> \A j \in Joins : joins'[j].at = "in" =>
        Relays(joins'[j], down'[joins'[j].inc], peers', attempts', wire')
BY DEF RelaysInv, Relays, Heard, Knows, Binds, Says

LEMMA JoinRelays ==
    ASSUME TypeOK, JoinBound, RelaysInv, NEW j \in Joins, joins[j].at = "in"
    PROVE  LET c == joins[j].inc IN
           /\ c \in Attempts /\ down[c] \in Seq(Downs)
           /\ Relays(joins[j], down[c], peers, attempts, wire)
<1>1. joins[j].inc \in Attempts
    BY JoinInc
<1> QED BY <1>1 DEF RelaysInv, TypeOK

(* Steps of the host's that send no roster and admit nobody.               *)
LEMMA NoNews ==
    ASSUME TypeOK, JoinBound, RelaysInv, UNCHANGED <<joins, attempts>>,
           wire' \subseteq wire, Kept(peers, peers'),
           \A d \in Attempts : peers'[d].at = "admitted" =>
               peers[d].at = "admitted" /\ peers'[d].seat = peers[d].seat,
           \A j \in Joins : joins[j].at = "in" => down'[joins[j].inc] = down[joins[j].inc]
    PROVE  RelaysInv'
<1>1. ASSUME NEW j \in Joins, joins'[j].at = "in"
      PROVE  Relays(joins'[j], down'[joins'[j].inc], peers', attempts', wire')
    <2>1. PICK r, c, lane, known, ps, qs :
              /\ r = joins[j] /\ c = r.inc /\ lane = down[c] /\ known = r.owner
              /\ ps = peers /\ qs = peers'
        OBVIOUS
    <2>2. c \in Attempts /\ lane \in Seq(Downs) /\ Relays(r, lane, ps, attempts, wire)
        BY <1>1, <2>1, JoinRelays
    <2>3. Heard(lane, known, qs, attempts)
        BY <2>1, <2>2, HeardKept DEF Relays
    <2>4. ASSUME qs[c].at = "admitted", c \in wire' PROVE Knows(lane, known, qs)
        <3>1. Knows(lane, known, ps)
            BY <2>1, <2>2, <2>4 DEF Relays
        <3> QED BY <2>1, <3>1 DEF Knows
    <2>5. Relays(r, lane, qs, attempts, wire')
        BY <2>1, <2>3, <2>4 DEF Relays
    <2>6. /\ joins'[j] = r /\ attempts' = attempts
          /\ down'[joins'[j].inc] = lane
        BY <1>1, <2>1
    <2> QED BY <2>1, <2>5, <2>6
<1> QED BY <1>1, RelaysPrimed

(* Steps of the host's that send something to all the members.             *)
LEMMA SomeNews ==
    ASSUME TypeOK, JoinBound, RelaysInv, UNCHANGED <<joins, attempts>>,
           wire' \subseteq wire, Kept(peers, peers'),
           NEW m \in Rosters, NEW to, Broadcast(to, m), Admitted' \subseteq to,
           \A d \in Attempts : peers'[d].at = "admitted" => m.owner[peers'[d].seat] = d
    PROVE  RelaysInv'
<1>1. m \in Downs /\ m.type = "ROSTER"
    BY DEF Downs, Rosters
<1>2. ASSUME NEW j \in Joins, joins'[j].at = "in"
      PROVE  Relays(joins'[j], down'[joins'[j].inc], peers', attempts', wire')
    <2>1. PICK r, c, lane, new, known, ps, qs :
              /\ r = joins[j] /\ c = r.inc /\ lane = down[c] /\ known = r.owner
              /\ ps = peers /\ qs = peers' /\ new = down'[c]
        OBVIOUS
    <2>2. c \in Attempts /\ lane \in Seq(Downs) /\ Relays(r, lane, ps, attempts, wire)
        BY <1>2, <2>1, JoinRelays
    <2>3. Heard(lane, known, qs, attempts)
        BY <2>1, <2>2, HeardKept DEF Relays
    <2>4. \A d \in Attempts : qs[d].at = "admitted" => Says(m, qs[d].seat, d)
        BY <2>1 DEF Says
    <2>5. new = IF c \in to /\ c \in wire THEN Append(lane, m) ELSE lane
        BY <2>1, <2>2 DEF Broadcast, Put
    <2>6. Heard(Append(lane, m), known, qs, attempts)
        BY <1>1, <2>2, <2>3, <2>4, HeardAppend
    <2>7. Heard(new, known, qs, attempts)
        BY <2>3, <2>5, <2>6
    <2>8. ASSUME qs[c].at = "admitted", c \in wire' PROVE Knows(new, known, qs)
        <3>1. c \in to /\ c \in wire
            BY <2>1, <2>2, <2>8 DEF Admitted
        <3>2. new = Append(lane, m)
            BY <2>5, <3>1
        <3> QED BY <1>1, <2>2, <2>4, <3>2, KnowsAppend
    <2>9. Relays(r, new, qs, attempts, wire')
        BY <2>1, <2>7, <2>8 DEF Relays
    <2>10. joins'[j] = r /\ attempts' = attempts /\ down'[joins'[j].inc] = new
        BY <1>2, <2>1
    <2> QED BY <2>1, <2>9, <2>10
<1> QED BY <1>2, RelaysPrimed

LEMMA AckRelays ==
    ASSUME MembersInv, LanesInv, RelaysInv, MembersInv', NEW c \in Attempts, HostAck(c)
    PROVE  RelaysInv'
<1>1. TypeOK /\ JoinBound /\ SeatBound /\ peers[c].at \in {"greeted", "admitted"}
    BY HeardFirst DEF MembersInv, HostAck
<1>2. PICK i, to, m : /\ i = peers[c].seat /\ to = Admitted \cup {c}
                      /\ m = Roster(members \cup {i}, owner)
    OBVIOUS
<1>3. /\ peers' = [peers EXCEPT ![c].at = "admitted", ![c].ready = FALSE]
      /\ Broadcast(to, m) /\ UNCHANGED <<wire, owner, joins, attempts>>
    BY <1>1, <1>2 DEF HostAck, Announce, bounds
<1>4. /\ peers \in [Attempts -> PeerTypes]
      /\ members \subseteq Seats /\ owner \in [Seats -> Incs] /\ i \in Seats
    BY <1>1, <1>2 DEF TypeOK, SeatBound, PeerTypes
<1>5. /\ peers'[c].at = "admitted" /\ peers'[c].seat = peers[c].seat
      /\ \A d \in Attempts \ {c} : peers'[d] = peers[d]
    BY <1>3, <1>4 DEF PeerTypes
<1>6. m \in Rosters /\ m.owner = owner
    BY <1>2, <1>4 DEF Roster, Rosters
<1>7. Kept(peers, peers')
    BY <1>1, <1>5 DEF Kept
<1>8. Admitted' \subseteq to
    BY <1>2, <1>5 DEF Admitted
<1>9. \A d \in Attempts : peers'[d].at = "admitted" => m.owner[peers'[d].seat] = d
    BY <1>3, <1>6 DEF MembersInv, SeatBound
<1> QED BY <1>1, <1>3, <1>6, <1>7, <1>8, <1>9, SomeNews

LEMMA RetireRelays ==
    ASSUME MembersInv, LanesInv, RelaysInv, MembersInv', NEW c \in Attempts, HostRetire(c)
    PROVE  RelaysInv'
<1>1. /\ TypeOK /\ JoinBound /\ SeatBound /\ peers \in [Attempts -> PeerTypes]
      /\ members \subseteq Seats /\ owner \in [Seats -> Incs]
    BY DEF MembersInv, TypeOK
<1>2. peers' = [peers EXCEPT ![c] = NoPeer] /\ UNCHANGED <<wire, joins, attempts>>
    BY DEF HostRetire, bounds
<1>3. /\ peers'[c].at = "none" /\ \A d \in Attempts \ {c} : peers'[d] = peers[d]
    BY <1>1, <1>2 DEF NoPeer
<1>4. /\ Kept(peers, peers')
      /\ \A d \in Attempts : peers'[d].at = "admitted" =>
             peers[d].at = "admitted" /\ peers'[d].seat = peers[d].seat
    BY <1>3 DEF Kept
<1>5. CASE peers[c].at # "admitted"
    <2>1. down' = down
        BY <1>5 DEF HostRetire
    <2> QED BY <1>1, <1>2, <1>4, <2>1, NoNews
<1>6. CASE peers[c].at = "admitted"
    <2>1. PICK i, o, to, m : /\ i = peers[c].seat /\ o = [owner EXCEPT ![i] = 0]
                             /\ to = Admitted \ {c} /\ m = Roster(members \ {i}, o)
        OBVIOUS
    <2>2. Broadcast(to, m) /\ owner' = o
        BY <1>6, <2>1 DEF HostRetire, Announce
    <2>3. m \in Rosters /\ m.owner = o
        <3>1. 0 \in Incs
            BY MembersAssumption DEF Incs
        <3>2. o \in [Seats -> Incs] /\ members \ {i} \in SUBSET Seats
            BY <1>1, <2>1, <3>1
        <3> QED BY <2>1, <3>2 DEF Roster, Rosters
    <2>4. Admitted' \subseteq to
        BY <1>3, <2>1 DEF Admitted
    <2>5. \A d \in Attempts : peers'[d].at = "admitted" => m.owner[peers'[d].seat] = d
        BY <2>2, <2>3 DEF MembersInv, SeatBound
    <2> QED BY <1>1, <1>2, <1>4, <2>2, <2>3, <2>4, <2>5, SomeNews
<1> QED BY <1>5, <1>6

LEMMA RosterRelays ==
    ASSUME MembersInv, RelaysInv, HostRoster PROVE RelaysInv'
<1>1. PICK m : m = Roster(members, owner)
    OBVIOUS
<1>2. TypeOK /\ JoinBound /\ m \in Rosters /\ m.owner = owner
    BY <1>1 DEF MembersInv, TypeOK, Roster, Rosters
<1>3. Broadcast(Admitted, m) /\ UNCHANGED <<peers, wire, joins, attempts>>
    BY <1>1 DEF HostRoster, bounds
<1>4. Kept(peers, peers') /\ Admitted' \subseteq Admitted
    BY <1>3 DEF Kept, Admitted
<1>5. \A d \in Attempts : peers'[d].at = "admitted" => m.owner[peers'[d].seat] = d
    BY <1>2, <1>3 DEF MembersInv, SeatBound
<1> QED BY <1>2, <1>3, <1>4, <1>5, SomeNews

(* A relay: its recipients have heard of its author, or will before it.    *)
LEMMA FrameRelays ==
    ASSUME MembersInv, LanesInv, RelaysInv, NEW c \in Attempts, HostFrame(c)
    PROVE  RelaysInv'
<1>1. PICK f, to : f = Head(up[c]) /\ to = Admitted \ {c}
    OBVIOUS
<1>2. TypeOK /\ JoinBound /\ Genuine(c, f) /\ f \in Frames
    BY <1>1, HeardFirst DEF MembersInv, HostFrame
<1>3. /\ Broadcast(to, f) /\ UNCHANGED <<peers, wire, joins, attempts>>
    BY <1>1, <1>2 DEF HostFrame, bounds
<1>4. f \in Downs /\ f.type = "FRAME" /\ \A i, d : Says(f, i, d)
    BY <1>2 DEF Downs, Frames, Says
<1>5. c <= attempts
    <2>1. attempts \in Nat /\ c \in Nat
        BY <1>2, MembersAssumption DEF TypeOK, Incs, Attempts
    <2>2. ~(c > attempts)
        BY <1>2 DEF MembersInv, PeersCounted, Genuine, NoPeer
    <2> QED BY <2>1, <2>2
<1>6. ASSUME NEW j \in Joins, joins'[j].at = "in"
      PROVE  Relays(joins'[j], down'[joins'[j].inc], peers', attempts', wire')
    <2>1. PICK r, d, lane, new, known :
              /\ r = joins[j] /\ d = r.inc /\ lane = down[d] /\ known = r.owner
              /\ new = down'[d]
        OBVIOUS
    <2>2. d \in Attempts /\ lane \in Seq(Downs) /\ Relays(r, lane, peers, attempts, wire)
        BY <1>2, <1>3, <1>6, <2>1, JoinRelays
    <2>3. new = IF d \in to /\ d \in wire THEN Append(lane, f) ELSE lane
        BY <1>3, <2>1, <2>2 DEF Broadcast, Put
    <2>4. Relays(r, new, peers, attempts, wire)
        <3>1. CASE d \in to /\ d \in wire
            <4>1. Knows(lane, known, peers) /\ Heard(lane, known, peers, attempts)
                BY <1>1, <2>1, <2>2, <3>1 DEF Relays, Admitted
            <4>2. f.inc = c /\ peers[c].at = "admitted" /\ f.seat = peers[c].seat
                BY <1>2 DEF Genuine
            <4>3. Heard(Append(lane, f), known, peers, attempts)
                BY <1>4, <1>5, <2>2, <4>1, <4>2, HeardAppend
            <4>4. Knows(Append(lane, f), known, peers)
                BY <1>4, <2>2, <4>1, KnowsAppend
            <4>5. new = Append(lane, f)
                BY <2>3, <3>1
            <4> QED BY <2>1, <4>3, <4>4, <4>5 DEF Relays
        <3>2. CASE ~(d \in to /\ d \in wire)
            BY <2>2, <2>3, <3>2
        <3> QED BY <3>1, <3>2
    <2> QED BY <1>3, <2>1, <2>4
<1> QED BY <1>6, RelaysPrimed

(* The other steps of the host's.                                          *)
LEMMA QuietRelays ==
    ASSUME MembersInv, LanesInv, RelaysInv, NEW c \in Attempts,
           \/ HostHello(c) \/ HostReady(c) \/ HostFastFrame(c) \/ HostPing(c) \/ Cut(c)
    PROVE  RelaysInv'
<1>1. TypeOK /\ JoinBound /\ peers \in [Attempts -> PeerTypes]
    BY DEF MembersInv, TypeOK
<1>2. CASE HostHello(c)
    <2>1. peers[c].at = "open"
        BY <1>1, <1>2, HeardFirst DEF HostHello
    <2>2. PICK i : i = FreeSeat(c)
        OBVIOUS
    <2>3. /\ peers' = [peers EXCEPT ![c].at = "greeted", ![c].seat = i]
          /\ \E m : down' = [down EXCEPT ![c] = m]
          /\ UNCHANGED <<wire, joins, attempts>>
        BY <1>2, <2>1, <2>2 DEF HostHello, bounds
    <2>4. /\ peers'[c].at = "greeted" /\ \A d \in Attempts \ {c} : peers'[d] = peers[d]
        BY <1>1, <2>3 DEF PeerTypes
    <2>5. /\ Kept(peers, peers')
          /\ \A d \in Attempts : peers'[d].at = "admitted" =>
                 peers[d].at = "admitted" /\ peers'[d].seat = peers[d].seat
        BY <2>1, <2>4 DEF Kept
    <2>6. ASSUME NEW j \in Joins, joins[j].at = "in"
          PROVE  down'[joins[j].inc] = down[joins[j].inc]
        <3>1. joins[j].inc \in Attempts /\ peers[joins[j].inc].at # "open"
            BY <1>1, <2>6, JoinAt DEF Meets, Enters
        <3> QED BY <2>1, <2>3, <3>1
    <2> QED BY <1>1, <2>3, <2>5, <2>6, NoNews
<1>3. CASE HostReady(c)
    <2>1. /\ peers' = [peers EXCEPT ![c].ready = TRUE]
          /\ UNCHANGED <<wire, down, joins, attempts>>
        BY <1>3 DEF HostReady, net, bounds
    <2>2. \A d \in Attempts : peers'[d].at = peers[d].at /\ peers'[d].seat = peers[d].seat
        BY <1>1, <2>1 DEF PeerTypes
    <2> QED BY <1>1, <2>1, <2>2, NoNews DEF Kept
<1>4. CASE HostFastFrame(c) \/ HostPing(c) \/ Cut(c)
    <2>1. UNCHANGED <<down, joins, attempts>> /\ wire' \subseteq wire
        BY <1>4 DEF HostFastFrame, HostPing, Cut, Refuse, bounds, host
    <2>2. peers' = peers \/ peers' = [peers EXCEPT ![c].closed = TRUE]
        BY <1>4 DEF HostFastFrame, HostPing, Cut, Refuse, host
    <2>3. \A d \in Attempts : peers'[d].at = peers[d].at /\ peers'[d].seat = peers[d].seat
        BY <1>1, <2>2 DEF PeerTypes
    <2> QED BY <1>1, <2>1, <2>3, NoNews DEF Kept
<1> QED BY <1>2, <1>3, <1>4

(* One join acts.                                                          *)
LEMMA OneRelays ==
    ASSUME TypeOK, JoinBound, LanesInv, RelaysInv, NEW j \in Joins, NEW c \in Attempts,
           NEW s, joins[j].inc = c, joins[j].at # "idle",
           joins' = [joins EXCEPT ![j] = s],
           UNCHANGED <<peers, wire, attempts>>,
           \A d \in Attempts \ {c} : down'[d] = down[d],
           s.at = "in" => s.inc = c /\ Relays(s, down'[c], peers, attempts, wire)
    PROVE  RelaysInv'
<1>1. \A k \in Joins : joins'[k] = IF k = j THEN s ELSE joins[k]
    BY DEF TypeOK
<1>2. ASSUME NEW k \in Joins, joins'[k].at = "in"
      PROVE  Relays(joins'[k], down'[joins'[k].inc], peers', attempts', wire')
    <2>1. CASE k = j
        <3>1. joins'[k] = s /\ s.inc = c /\ Relays(s, down'[c], peers, attempts, wire)
            BY <1>1, <1>2, <2>1
        <3> QED BY <3>1
    <2>2. CASE k # j
        <3>1. PICK d : d = joins[k].inc
            OBVIOUS
        <3>2. /\ joins'[k] = joins[k] /\ joins[k].at = "in" /\ d \in Attempts
              /\ Relays(joins[k], down[d], peers, attempts, wire)
            BY <1>1, <1>2, <2>2, <3>1, JoinRelays
        <3>3. d # c
            BY <2>2, <3>1, <3>2 DEF LanesInv, Fresh
        <3>4. down'[d] = down[d]
            BY <3>2, <3>3
        <3> QED BY <3>1, <3>2, <3>4
    <2> QED BY <2>1, <2>2
<1> QED BY <1>2, RelaysPrimed

LEMMA TakenRelays ==
    ASSUME NEW lane \in Seq(Downs), NEW n \in DOMAIN lane, NEW known, NEW now,
           \A k \in 1 .. n - 1 : lane[k].type = "FRAME",
           now = IF lane[n].type = "ROSTER" THEN lane[n].owner ELSE known,
           NEW ps, NEW last
    PROVE  /\ Heard(lane, known, ps, last) => Heard(Without(lane, n), now, ps, last)
           /\ Knows(lane, known, ps) => Knows(Without(lane, n), now, ps)
<1>1. PICK q : q = Without(lane, n)
    OBVIOUS
<1>2. /\ DOMAIN lane = 1 .. Len(lane) /\ Len(lane) \in Nat /\ n \in 1 .. Len(lane)
      /\ DOMAIN q = 1 .. Len(lane) - 1 /\ Len(q) = Len(lane) - 1
      /\ \A l \in 1 .. Len(lane) - 1 : q[l] = IF l < n THEN lane[l] ELSE lane[l + 1]
    BY <1>1, LaneWithout
<1>3. ASSUME Heard(lane, known, ps, last) PROVE Heard(q, now, ps, last)
    <2>1. ASSUME NEW y \in DOMAIN q, NEW d, d = q[y].inc, q[y].type = "FRAME"
          PROVE  /\ d <= last /\ ps[d].at \in {"none", "admitted"}
                 /\ ps[d].at = "admitted" => /\ q[y].seat = ps[d].seat
                                             /\ Binds(q, now, q[y].seat, d, y)
        <3>1. PICK x : x = IF y < n THEN y ELSE y + 1
            OBVIOUS
        <3>2. /\ x \in DOMAIN lane /\ x # n /\ q[y] = lane[x] /\ x \in 1 .. Len(lane) + 1
              /\ (IF x < n THEN x ELSE x - 1) = y
            BY <1>2, <3>1
        <3>3. /\ d <= last /\ ps[d].at \in {"none", "admitted"}
              /\ ps[d].at = "admitted" => /\ lane[x].seat = ps[d].seat
                                          /\ Binds(lane, known, lane[x].seat, d, x)
            BY <1>3, <2>1, <3>2 DEF Heard
        <3>4. ASSUME ps[d].at = "admitted" PROVE Binds(q, now, q[y].seat, d, y)
            <4>1. PICK i : i = lane[x].seat
                OBVIOUS
            <4>2. Binds(lane, known, i, d, x)
                BY <3>3, <3>4, <4>1
            <4>3. Binds(Without(lane, n), now, i, d, IF x < n THEN x ELSE x - 1)
                BY <3>2, <4>2, BindsTaken
            <4> QED BY <1>1, <3>2, <4>1, <4>3
        <3> QED BY <3>2, <3>3, <3>4
    <2> QED BY <2>1 DEF Heard
<1>4. ASSUME Knows(lane, known, ps) PROVE Knows(q, now, ps)
    <2>1. ASSUME NEW d \in Attempts, ps[d].at = "admitted"
          PROVE  Binds(q, now, ps[d].seat, d, Len(q) + 1)
        <3>1. PICK i, x : i = ps[d].seat /\ x = Len(lane) + 1
            OBVIOUS
        <3>2. Binds(lane, known, i, d, x)
            BY <1>4, <2>1, <3>1 DEF Knows
        <3>3. /\ x \in 1 .. Len(lane) + 1 /\ x # n
              /\ (IF x < n THEN x ELSE x - 1) = Len(q) + 1
            <4>1. PICK a : a = Len(lane)
                OBVIOUS
            <4>2. a \in Nat /\ n \in 1 .. a /\ x = a + 1 /\ Len(q) = a - 1
                BY <1>2, <3>1, <4>1
            <4>3. x \in 1 .. a + 1 /\ x # n /\ ~(x < n) /\ x - 1 = Len(q) + 1
                BY <4>2
            <4> QED BY <4>1, <4>3
        <3>4. Binds(Without(lane, n), now, i, d, IF x < n THEN x ELSE x - 1)
            BY <3>2, <3>3, BindsTaken
        <3> QED BY <1>1, <3>1, <3>3, <3>4
    <2> QED BY <2>1 DEF Knows
<1> QED BY <1>1, <1>3, <1>4

LEMMA ReceiveRelays ==
    ASSUME MembersInv, LanesInv, RelaysInv, NEW j \in Joins, JoinReceive(j)
    PROVE  RelaysInv'
<1>1. TypeOK /\ JoinBound /\ joins[j].at # "idle"
    BY JoinReceives DEF MembersInv
<1>2. PICK n, s, t : Took(j, n, s, t)
    BY ReceiveTook
<1>3. PICK r, c, lane, m : r = joins[j] /\ c = r.inc /\ lane = down[c] /\ m = lane[n]
    OBVIOUS
<1>4. /\ r \in JoinTypes /\ c \in Attempts /\ lane \in Seq(Downs) /\ peers[c] \in PeerTypes
      /\ Meets(r, peers[c], up[c], lane)
    BY <1>1, <1>3, JoinAt
<1>5. /\ n \in DOMAIN lane /\ Deliverable(c, n) /\ down' = [down EXCEPT ![c] = Without(@, n)]
      /\ joins' = [joins EXCEPT ![j] = s] /\ s.at = "in" /\ s.inc = c
      /\ UNCHANGED <<peers, wire, attempts>>
    BY <1>2, <1>3 DEF Took, Deliverable, host, bounds
<1>6. /\ down'[c] = Without(lane, n)
      /\ \A d \in Attempts \ {c} : down'[d] = down[d]
    BY <1>1, <1>3, <1>4, <1>5 DEF TypeOK
<1>7. CASE r.at = "hello"
    <2>1. Greets(r, peers[c], up[c], lane)
        BY <1>4, <1>7 DEF Meets
    <2>2. lane # <<>> /\ Len(lane) = 1 /\ peers[c].at # "admitted"
        BY <1>4, <1>5, <2>1 DEF Greets
    <2>3. DOMAIN Without(lane, n) = {}
        <3>1. DOMAIN Without(lane, n) = 1 .. Len(lane) - 1
            BY <1>4, <1>5, LaneWithout
        <3>2. DOMAIN Without(lane, n) = 1 .. 1 - 1
            BY <2>2, <3>1
        <3>3. 1 .. 1 - 1 = {}
            OBVIOUS
        <3> QED BY <3>2, <3>3
    <2>4. Relays(s, Without(lane, n), peers, attempts, wire)
        BY <1>5, <2>2, <2>3 DEF Relays, Heard
    <2> QED BY <1>1, <1>3, <1>4, <1>5, <1>6, <2>4, OneRelays
<1>8. CASE r.at = "in"
    <2>1. /\ m.type \in {"ROSTER", "FRAME"}
          /\ s.owner = IF m.type = "ROSTER" THEN m.owner ELSE r.owner
        BY <1>2, <1>3, <1>8 DEF Took
    <2>2. \A k \in 1 .. n - 1 : lane[k].type = "FRAME"
        BY <1>3, <1>4, <1>5 DEF Deliverable
    <2>3. Relays(r, lane, peers, attempts, wire)
        BY <1>1, <1>3, <1>8, JoinRelays
    <2>4. s.owner = IF lane[n].type = "ROSTER" THEN lane[n].owner ELSE r.owner
        BY <1>3, <2>1
    <2>5. /\ Heard(lane, r.owner, peers, attempts) =>
                 Heard(Without(lane, n), s.owner, peers, attempts)
          /\ Knows(lane, r.owner, peers) => Knows(Without(lane, n), s.owner, peers)
        BY <1>4, <1>5, <2>2, <2>4, TakenRelays
    <2>6. Relays(s, Without(lane, n), peers, attempts, wire)
        BY <1>3, <1>5, <2>3, <2>5 DEF Relays
    <2> QED BY <1>1, <1>3, <1>4, <1>5, <1>6, <2>6, OneRelays
<1> QED BY <1>1, <1>3, <1>4, <1>7, <1>8 DEF JoinTypes

LEMMA JoinQuietRelays ==
    ASSUME MembersInv, LanesInv, RelaysInv, NEW j \in Joins,
           JoinFastFrame(j) \/ JoinCapture(j) \/ JoinPing(j) \/ JoinRetire(j)
    PROVE  RelaysInv'
<1>1. /\ TypeOK /\ JoinBound /\ joins \in [Joins -> JoinTypes]
      /\ down \in [Attempts -> Seq(Downs)]
    BY DEF MembersInv, TypeOK
<1>2. PICK r, c : r = joins[j] /\ c = r.inc
    OBVIOUS
<1>3. CASE JoinFastFrame(j)
    <2>1. PICK f, s : joins' = [joins EXCEPT ![j] = s] /\ s = Keep(r, f)
        BY <1>2, <1>3 DEF JoinFastFrame
    <2>2. /\ r.at = "in" /\ UNCHANGED <<peers, wire, down, attempts>>
        BY <1>2, <1>3 DEF JoinFastFrame, host, bounds
    <2>3. s.at = r.at /\ s.inc = r.inc /\ s.owner = r.owner
        BY <1>1, <1>2, <2>1, KeepFields
    <2>4. c \in Attempts /\ Relays(r, down[c], peers, attempts, wire)
        BY <1>1, <1>2, <2>2, JoinRelays
    <2>5. Relays(s, down'[c], peers, attempts, wire)
        BY <2>2, <2>3, <2>4 DEF Relays
    <2> QED BY <1>1, <1>2, <2>1, <2>2, <2>3, <2>4, <2>5, OneRelays
<1>4. CASE JoinCapture(j) \/ JoinPing(j)
    <2>1. UNCHANGED <<peers, wire, down, attempts, joins>>
        BY <1>4 DEF JoinCapture, JoinPing, host
    <2> QED BY <1>1, <2>1, NoNews DEF Kept
<1>5. CASE JoinRetire(j)
    <2>1. PICK s : /\ joins' = [joins EXCEPT ![j] = s]
                   /\ s = [r EXCEPT !.at = "idle", !.inc = 0, !.seat = 0, !.members = {},
                                    !.left = TRUE]
        BY <1>2, <1>5 DEF JoinRetire
    <2>2. /\ r.at # "idle" /\ down' = [down EXCEPT ![c] = <<>>]
          /\ UNCHANGED <<peers, wire, attempts>>
        BY <1>2, <1>5 DEF JoinRetire, host, bounds
    <2>3. s.at = "idle"
        BY <1>1, <1>2, <2>1 DEF JoinTypes
    <2>4. c \in Attempts /\ \A d \in Attempts \ {c} : down'[d] = down[d]
        BY <1>1, <1>2, <2>2, JoinInc
    <2> QED BY <1>1, <1>2, <2>1, <2>2, <2>3, <2>4, OneRelays
<1> QED BY <1>3, <1>4, <1>5

LEMMA ConnectRelays ==
    ASSUME MembersInv, LanesInv, RelaysInv, NEW j \in Joins, Connect(j)
    PROVE  RelaysInv'
<1>1. /\ TypeOK /\ JoinBound /\ joins \in [Joins -> JoinTypes] /\ attempts \in Nat
      /\ peers \in [Attempts -> PeerTypes]
      /\ attempts < MaxAttempts /\ MaxAttempts \in Nat /\ Attempts \subseteq Nat
    BY MembersAssumption DEF MembersInv, TypeOK, Incs, Connect, Attempts
<1>2. PICK r, c, s :
          /\ r = joins[j] /\ c = attempts + 1
          /\ s = [r EXCEPT !.at = "hello", !.inc = c, !.owner = [i \in Seats |-> 0]]
    OBVIOUS
<1>3. c \in Attempts /\ c > attempts
    BY <1>1, <1>2 DEF Attempts
<1>4. peers[c] = NoPeer
    BY <1>3 DEF MembersInv, PeersCounted
<1>5. /\ attempts' = c /\ joins' = [joins EXCEPT ![j] = s]
      /\ peers' = peers \/ peers' = [peers EXCEPT ![c].at = "open"]
      /\ wire' \subseteq wire \cup {c} /\ UNCHANGED down
    BY <1>2 DEF Connect
<1>6. \A k \in Joins : joins'[k] = IF k = j THEN s ELSE joins[k]
    BY <1>1, <1>5
<1>7. /\ peers'[c].at # "admitted" /\ \A d \in Attempts \ {c} : peers'[d] = peers[d]
    BY <1>1, <1>3, <1>4, <1>5 DEF PeerTypes, NoPeer
<1>8. ASSUME NEW k \in Joins, joins'[k].at = "in"
      PROVE  Relays(joins'[k], down'[joins'[k].inc], peers', attempts', wire')
    <2>1. k # j
        <3>1. s.at = "hello"
            BY <1>1, <1>2 DEF JoinTypes
        <3> QED BY <1>6, <1>8, <3>1
    <2>2. PICK x, d, lane, ps, qs : /\ x = joins[k] /\ d = x.inc /\ lane = down[d]
                                    /\ ps = peers /\ qs = peers'
        OBVIOUS
    <2>3. /\ joins'[k] = x /\ x.at = "in" /\ d \in Attempts /\ lane \in Seq(Downs)
          /\ Relays(x, lane, ps, attempts, wire)
        BY <1>1, <1>6, <1>8, <2>1, <2>2, JoinRelays
    <2>4. d # c
        <3>1. d <= attempts
            BY <2>2 DEF LanesInv, Fresh
        <3> QED BY <1>1, <1>2, <2>3, <3>1
    <2>5. Heard(lane, x.owner, qs, c)
        <3>1. ASSUME NEW n \in DOMAIN lane, NEW e, e = lane[n].inc, lane[n].type = "FRAME"
              PROVE  /\ e <= c /\ qs[e].at \in {"none", "admitted"}
                     /\ qs[e].at = "admitted" =>
                            /\ lane[n].seat = qs[e].seat
                            /\ Binds(lane, x.owner, lane[n].seat, e, n)
            <4>1. lane[n] \in Frames
                BY <2>3, <3>1, FrameOf
            <4>2. e \in Attempts
                BY <3>1, <4>1 DEF Frames
            <4>3. /\ e <= attempts /\ ps[e].at \in {"none", "admitted"}
                  /\ ps[e].at = "admitted" =>
                         /\ lane[n].seat = ps[e].seat
                         /\ Binds(lane, x.owner, lane[n].seat, e, n)
                BY <2>3, <3>1 DEF Relays, Heard
            <4>4. e <= c /\ e # c
                BY <1>1, <1>2, <4>2, <4>3
            <4>5. qs[e] = ps[e]
                BY <1>7, <2>2, <4>2, <4>4
            <4> QED BY <4>3, <4>4, <4>5
        <3> QED BY <3>1 DEF Heard
    <2>6. ASSUME qs[d].at = "admitted", d \in wire' PROVE Knows(lane, x.owner, qs)
        <3>1. ps[d].at = "admitted" /\ d \in wire
            BY <1>5, <1>7, <2>2, <2>3, <2>4, <2>6
        <3>2. Knows(lane, x.owner, ps)
            BY <2>2, <2>3, <3>1 DEF Relays
        <3>3. \A e \in Attempts : qs[e].at = "admitted" => qs[e] = ps[e]
            BY <1>7, <2>2
        <3> QED BY <3>2, <3>3 DEF Knows
    <2>7. Relays(x, lane, qs, c, wire')
        BY <2>2, <2>5, <2>6 DEF Relays
    <2>8. down'[joins'[k].inc] = lane
        BY <1>5, <2>2, <2>3
    <2> QED BY <1>5, <2>2, <2>3, <2>7, <2>8
<1> QED BY <1>8, RelaysPrimed

LEMMA DrainRelays ==
    ASSUME MembersInv, RelaysInv, NEW j \in Joins, JoinDrainLeave(j)
    PROVE  RelaysInv'
<1>1. joins \in [Joins -> JoinTypes]
    BY DEF MembersInv, TypeOK
<1>2. UNCHANGED <<peers, wire, down, attempts>>
    BY DEF JoinDrainLeave, host, net, bounds
<1> QED BY <1>1, <1>2, DrainFields, RelaysPrimed DEF RelaysInv, Relays

LEMMA NextRelays ==
    ASSUME MembersInv, LanesInv, RelaysInv, [Next]_vars PROVE RelaysInv'
<1>1. CASE HostRoster
    BY <1>1, RosterRelays
<1>2. ASSUME NEW c \in Attempts,
             Cut(c) \/ HostReceive(c) \/ HostReady(c) \/ HostFastFrame(c)
                 \/ HostPing(c) \/ HostRetire(c)
      PROVE  RelaysInv'
    BY <1>2, NextInv, QuietRelays, AckRelays, FrameRelays, RetireRelays DEF HostReceive
<1>3. ASSUME NEW j \in Joins,
             Connect(j) \/ JoinReceive(j) \/ JoinFastFrame(j) \/ JoinCapture(j)
                 \/ JoinPing(j) \/ JoinRetire(j) \/ JoinDrainLeave(j)
      PROVE  RelaysInv'
    BY <1>3, ConnectRelays, ReceiveRelays, JoinQuietRelays, DrainRelays
<1>4. CASE UNCHANGED vars
    <2>1. UNCHANGED <<joins, down, peers, attempts, wire>>
        BY <1>4 DEF vars, host, net, bounds
    <2> QED BY <2>1, RelaysPrimed DEF RelaysInv
<1> QED BY <1>1, <1>2, <1>3, <1>4 DEF Next

LEMMA RelaysInit == Init => RelaysInv
BY DEF Init, NewJoin, RelaysInv

LEMMA RelaysHold == Spec => []RelaysInv
<1>1. MembersInv /\ LanesInv /\ RelaysInv /\ [Next]_vars => RelaysInv'
    BY NextRelays
<1> QED BY <1>1, RelaysInit, Inductive, LanesHold, PTL DEF Spec

(* A roster that binds the author is always ahead of its frames, and the   *)
(* frames are all that a later roster passes: what reaches a join over     *)
(* GAME_RELIABLE from somebody who is a member is never dropped as stale.  *)
THEOREM MembersRelaysBound == Spec => []RelaysBound
<1>1. ASSUME MembersInv, LanesInv, RelaysInv PROVE RelaysBound
    <2>1. ASSUME NEW j \in Joins, joins[j].at = "in", NEW r, NEW q,
                 r = joins[j], q = down[r.inc], NEW n \in DOMAIN q,
                 Deliverable(r.inc, n), q[n].type = "FRAME", q[n].inc \in Admitted
          PROVE  Bound(r, q[n])
        <3>1. q \in Seq(Downs) /\ Relays(r, q, peers, attempts, wire)
            BY <1>1, <2>1, JoinRelays DEF MembersInv
        <3>2. PICK d, i : d = q[n].inc /\ i = q[n].seat
            OBVIOUS
        <3>3. n = 1
            BY <2>1 DEF Deliverable
        <3>4. Binds(q, r.owner, i, d, 1)
            BY <2>1, <3>1, <3>2, <3>3 DEF Relays, Heard, Admitted
        <3>5. r.owner[i] = d
            BY <3>4 DEF Binds
        <3> QED BY <3>2, <3>5 DEF Bound
    <2> QED BY <2>1 DEF RelaysBound
<1> QED BY <1>1, Inductive, LanesHold, RelaysHold, PTL

=============================================================================

---------------------------- MODULE WorldProofs -----------------------------
(***************************************************************************)
(* What TLAPS proves of the two parts of the world that a join makes its   *)
(* own copy of: the door of Doors and the generated beds of                *)
(* ProceduralScope, for any joins and regions and however long they play.  *)
(*                                                                         *)
(* Of the door: its types with the count of peers, that no row comes back  *)
(* as a request, and that no request of a seat that was taken again is     *)
(* passed over.                                                            *)
(*                                                                         *)
(* Of the scope: its types, and that a join the host certifies has matched *)
(* the host's present catalog.  The host judges by what it has been told,  *)
(* so the invariant (ScopeInv) ties what it has learned of a join to what  *)
(* the join knows through the packets between them: Supply and Matches     *)
(* for what the join takes, Reports and Known for its ACKs, Scoped for the *)
(* regions it asks for.  Each step is first described by what it changes   *)
(* of one such link, and the link is shown to stand that.                  *)
(***************************************************************************)
EXTENDS Doors, ProceduralScope, SequenceTheorems, FiniteSetTheorems,
        WellFoundedInduction, TLAPS

-----------------------------------------------------------------------------
(* Doors.                                                                  *)

Types == HostTypes /\ JoinTypes /\ HistoryTypes

(* A copy that nobody touched since it was settled is as the join last saw *)
(* it; a seat without a join has no row.                                   *)
EchoInv ==
    \A j \in Seats :
        /\ jrow[j].seeded /\ ~jrow[j].pending /\ ~touched[j]
              => copy[j].is.open = jrow[j].observed
        /\ ~here[j] => ~jrow[j].seeded

LEMMA TypesInit == DoorInit => Types
<1> SUFFICES ASSUME DoorInit PROVE Types
    OBVIOUS
<1>1. door \in Doors_
    BY DEF DoorInit, Doors_, States
<1>2. HostTypes
    BY <1>1 DEF DoorInit, HostTypes, FreshRow, Shut, States
<1>3. JoinTypes
    BY <1>1 DEF DoorInit, JoinTypes, FreshJoinRow, Shut, States
<1>4. HistoryTypes
    BY DoorAssumption DEF DoorInit, HistoryTypes
<1> QED BY <1>2, <1>3, <1>4 DEF Types

LEMMA EchoInit == DoorInit => EchoInv
BY DEF DoorInit, EchoInv, FreshJoinRow

-----------------------------------------------------------------------------
(* The types, action by action.                                            *)
LEMMA HostMovesTypes == Types /\ HostMoves => Types'
<1> SUFFICES ASSUME Types, HostMoves PROVE Types'
    OBVIOUS
<1>1. door' \in Doors_
    BY DEF Types, HostTypes, HostMoves, Doors_
<1>2. HostTypes'
    BY <1>1 DEF Types, HostTypes, HostMoves
<1>3. JoinTypes'
    BY DEF Types, JoinTypes, HostMoves, joinVars
<1>4. UNCHANGED <<touched, unheard>>
    BY DEF HostMoves, history
<1>5. moves' \in 0 .. MaxMoves /\ streams' \in Nat /\ left' \in Nat
      /\ streams' + left' <= MaxAbsences
    BY DoorAssumption DEF Types, HistoryTypes, HostMoves
<1>6. HistoryTypes'
    BY <1>4, <1>5 DEF Types, HistoryTypes
<1> QED BY <1>2, <1>3, <1>6 DEF Types

LEMMA HostStreamsTypes == Types /\ HostStreams => Types'
<1> SUFFICES ASSUME Types, HostStreams PROVE Types'
    OBVIOUS
<1>1. door' \in Doors_
    BY DEF Types, HostTypes, HostStreams, Doors_
<1>2. HostTypes'
    BY <1>1 DEF Types, HostTypes, HostStreams
<1>3. JoinTypes'
    BY DEF Types, JoinTypes, HostStreams, joinVars
<1>4. UNCHANGED <<touched, unheard>>
    BY DEF HostStreams, history
<1>5. moves' \in 0 .. MaxMoves /\ streams' \in Nat /\ left' \in Nat
      /\ streams' + left' <= MaxAbsences
    BY DoorAssumption DEF Types, HistoryTypes, HostStreams
<1>6. HistoryTypes'
    BY <1>4, <1>5 DEF Types, HistoryTypes
<1> QED BY <1>2, <1>3, <1>6 DEF Types

LEMMA JoinMovesTypes == ASSUME NEW j \in Seats, Types, JoinMoves(j) PROVE Types'
<1>1. HostTypes'
    BY DEF Types, HostTypes, JoinMoves, hostVars
<1>2. copy' \in [Seats -> Doors_]
    <2>1. copy \in [Seats -> Doors_]
        BY DEF Types, JoinTypes
    <2> DEFINE moved == [copy[j] EXCEPT !.is = [copy[j].is EXCEPT !.open = ~copy[j].is.open]]
    <2>2. copy' = [copy EXCEPT ![j] = moved]
        BY DEF JoinMoves
    <2>3. moved \in Doors_
        <3>1. copy[j] \in [loaded : BOOLEAN, is : [open : BOOLEAN, locked : BOOLEAN]]
            BY <2>1 DEF Doors_, States
        <3> QED BY <3>1 DEF Doors_, States
    <2> HIDE DEF moved
    <2> QED BY <2>1, <2>2, <2>3
<1>3. JoinTypes'
    BY <1>2 DEF Types, JoinTypes, JoinMoves
<1>4. HistoryTypes'
    BY DoorAssumption DEF Types, HistoryTypes, JoinMoves
<1> QED BY <1>1, <1>3, <1>4 DEF Types

LEMMA JoinStreamsTypes == ASSUME NEW j \in Seats, Types, JoinStreams(j) PROVE Types'
<1>1. HostTypes'
    BY DEF Types, HostTypes, JoinStreams, hostVars
<1>2. copy' \in [Seats -> Doors_]
  <2>1. CASE copy[j].loaded
    <3>1. copy \in [Seats -> Doors_] /\ [copy[j] EXCEPT !.loaded = FALSE] \in Doors_
        BY DEF Types, JoinTypes, Doors_
    <3>2. copy' = [copy EXCEPT ![j] = [copy[j] EXCEPT !.loaded = FALSE]]
        BY <2>1 DEF JoinStreams
    <3> QED BY <3>1, <3>2
  <2>2. CASE ~copy[j].loaded
    <3>1. PICK d \in States : copy' = [copy EXCEPT ![j] = [loaded |-> TRUE, is |-> d]]
        BY <2>2 DEF JoinStreams
    <3> QED BY <3>1 DEF Types, JoinTypes, Doors_
  <2> QED BY <2>1, <2>2
<1>3. JoinTypes'
    BY <1>2 DEF Types, JoinTypes, JoinStreams
<1>4. touched' \in [Seats -> BOOLEAN]
    BY DEF Types, HistoryTypes, JoinStreams
<1>5. HistoryTypes'
    BY <1>4, DoorAssumption DEF Types, HistoryTypes, JoinStreams
<1> QED BY <1>1, <1>3, <1>5 DEF Types

LEMMA ConnectTypes == ASSUME NEW j \in Seats, Types, Connect(j) PROVE Types'
<1>1. HostTypes'
    BY DEF Types, HostTypes, Connect
<1>2. copy' \in [Seats -> Doors_]
  <2>1. [loaded |-> TRUE, is |-> door.is] \in Doors_
      BY DEF Types, HostTypes, Doors_
  <2> QED BY <2>1 DEF Types, JoinTypes, Connect
<1>4. here' \in [Seats -> BOOLEAN]
    BY DEF Types, JoinTypes, Connect
<1>5. UNCHANGED <<jrow, rows, ask>>
    BY DEF Connect
<1>7. jseqOut' = jseqOut \/ jseqOut' = [jseqOut EXCEPT ![j] = 1]
    BY DEF Connect
<1>8. jseqOut' \in [Seats -> Nat \ {0}]
  <2>1. jseqOut \in [Seats -> Nat \ {0}]
      BY DEF Types, JoinTypes
  <2>2. CASE jseqOut' = [jseqOut EXCEPT ![j] = 1]
    <3>1. 1 \in Nat \ {0}
        OBVIOUS
    <3> QED BY <2>1, <2>2, <3>1
  <2> QED BY <1>7, <2>1, <2>2
<1>6. JoinTypes'
    BY <1>2, <1>4, <1>5, <1>8 DEF Types, JoinTypes
<1>3. HistoryTypes'
    BY DEF Types, HistoryTypes, Connect, bounds
<1> QED BY <1>1, <1>3, <1>6 DEF Types

LEMMA LeaveTypes == ASSUME NEW j \in Seats, Types, Leave(j) PROVE Types'
<1>1. HostTypes'
    BY DEF Types, HostTypes, Leave
<1>2. copy' \in [Seats -> Doors_]
    BY DEF Types, JoinTypes, Leave, Doors_, Closed, Shut, States
<1>3. jrow' \in [Seats -> [seeded : BOOLEAN, pending : BOOLEAN,
                           known : States, observed : BOOLEAN]]
    BY DEF Types, JoinTypes, Leave, FreshJoinRow, Shut, States
<1>4. ask' \in [Seats -> Seq(Requests)]
  <2>1. <<>> \in Seq(Requests)
      OBVIOUS
  <2> QED BY <2>1 DEF Types, JoinTypes, Leave
<1>5. JoinTypes'
    BY <1>2, <1>3, <1>4 DEF Types, JoinTypes, Leave
<1>6. HistoryTypes'
    BY DoorAssumption DEF Types, HistoryTypes, Leave
<1> QED BY <1>1, <1>5, <1>6 DEF Types

HostRows == [seeded : BOOLEAN, known : States, due : BOOLEAN, seen : [Seats -> Nat]]

LEMMA HostEventsTypes == Types /\ HostEvents => Types'
<1> SUFFICES ASSUME Types, HostEvents PROVE Types'
    OBVIOUS
<1>1. row' \in [seeded : BOOLEAN, known : States, due : BOOLEAN, seen : [Seats -> Nat]]
  <2>1. FreshRow \in HostRows
      BY DEF FreshRow, HostRows, Shut, States
  <2>2. RetiredGuards(row.seen) \in [Seats -> Nat]
      BY DEF RetiredGuards, Types, HostTypes
  <2>3. [row EXCEPT !.due = row.due \/ conns # None, !.seen = RetiredGuards(row.seen)]
          \in HostRows
      BY <2>2 DEF Types, HostTypes, HostRows
  <2> QED BY <2>1, <2>3 DEF HostEvents, HostRows
<1>2. HostTypes'
    BY <1>1 DEF Types, HostTypes, HostEvents, None
<1>3. JoinTypes'
  <2>1. CASE UNCHANGED ask
      BY <2>1 DEF Types, JoinTypes, HostEvents
  <2>2. CASE ask' = [j \in Seats |-> <<>>]
      BY <2>2 DEF Types, JoinTypes, HostEvents
  <2> QED BY <2>1, <2>2 DEF HostEvents
<1>4. HistoryTypes'
    BY DEF Types, HistoryTypes, HostEvents, history, bounds
<1> QED BY <1>2, <1>3, <1>4 DEF Types

LEMMA HostPublishTypes == Types /\ HostPublish => Types'
<1> SUFFICES ASSUME Types, HostPublish PROVE Types'
    OBVIOUS
<1>1. HostTypes'
    BY DEF Types, HostTypes, HostPublish, Doors_
<1>2. rows' \in [Seats -> Seq(States)]
    BY DEF Types, HostTypes, JoinTypes, HostPublish, Doors_
<1>3. JoinTypes'
    BY <1>2 DEF Types, JoinTypes, HostPublish
<1>4. HistoryTypes'
    BY DEF Types, HistoryTypes, HostPublish, bounds
<1> QED BY <1>1, <1>3, <1>4 DEF Types

LEMMA HostApplyTypes == ASSUME NEW j \in Seats, Types, HostApply(j) PROVE Types'
<1>1. /\ Head(ask[j]) \in Requests /\ Tail(ask[j]) \in Seq(Requests)
    BY DEF Types, JoinTypes, HostApply
<1>2. door' \in Doors_
    BY <1>1 DEF Types, HostTypes, HostApply, Doors_, States, Requests
<1>3. row' \in [seeded : BOOLEAN, known : States, due : BOOLEAN, seen : [Seats -> Nat]]
    BY <1>1 DEF Types, HostTypes, HostApply, Requests
<1>4. HostTypes'
    BY <1>2, <1>3 DEF Types, HostTypes, HostApply
<1>5. JoinTypes'
    BY <1>1 DEF Types, JoinTypes, HostApply
<1>6. unheard' \subseteq Seats
    BY DEF Types, HistoryTypes, HostApply
<1>7. HistoryTypes'
    BY <1>6 DEF Types, HistoryTypes, HostApply, bounds
<1> QED BY <1>4, <1>5, <1>7 DEF Types

LEMMA JoinPublishTypes == ASSUME NEW j \in Seats, Types, JoinPublish(j) PROVE Types'
<1>1. HostTypes'
    BY DEF Types, HostTypes, JoinPublish, hostVars
<1>2. [seq |-> jseqOut[j], open |-> copy[j].is.open] \in Requests
    BY DEF Types, JoinTypes, Requests, Doors_, States
<1>3. ask' \in [Seats -> Seq(Requests)]
    BY <1>2 DEF Types, JoinTypes, JoinPublish
<1>4. jrow' \in [Seats -> [seeded : BOOLEAN, pending : BOOLEAN,
                           known : States, observed : BOOLEAN]]
    BY DEF Types, JoinTypes, JoinPublish, Doors_, States
<1>5. JoinTypes'
    BY <1>3, <1>4 DEF Types, JoinTypes, JoinPublish
<1>6. HistoryTypes'
    BY DEF Types, HistoryTypes, JoinPublish, bounds
<1> QED BY <1>1, <1>5, <1>6 DEF Types

(* The row that JoinApply goes by.                                         *)
Taken(j, k) ==
    IF k = 0 THEN jrow[j]
    ELSE [jrow[j] EXCEPT !.seeded = TRUE, !.pending = TRUE, !.known = rows[j][k]]

JoinRows == [seeded : BOOLEAN, pending : BOOLEAN, known : States, observed : BOOLEAN]

LEMMA TakenType ==
    ASSUME NEW j \in Seats, NEW k \in 0 .. Len(rows[j]), Types
    PROVE  /\ Taken(j, k) \in JoinRows
           /\ Settled(Taken(j, k), copy[j].is) \in JoinRows
<1>1. jrow[j] \in JoinRows /\ rows[j] \in Seq(States)
    BY DEF Types, JoinTypes, JoinRows
<1>2. k # 0 => rows[j][k] \in States
    BY <1>1
<1>3. Taken(j, k) \in JoinRows
    BY <1>1, <1>2 DEF Taken, JoinRows
<1>4. Taken(j, k).known.open \in BOOLEAN
    BY <1>3 DEF JoinRows, States
<1> QED BY <1>3, <1>4 DEF Settled, JoinRows

LEMMA JoinApplyTypes == ASSUME NEW j \in Seats, Types, JoinApply(j) PROVE Types'
<1>1. PICK k \in 0 .. Len(rows[j]) :
        /\ rows' = [rows EXCEPT ![j] = SubSeq(rows[j], k + 1, Len(rows[j]))]
        /\ IF copy[j].loaded /\ Taken(j, k).seeded
           THEN /\ jrow' = [jrow EXCEPT ![j] = Settled(Taken(j, k), copy[j].is)]
                /\ copy' = [copy EXCEPT ![j].is =
                     [open |-> IF Taken(j, k).pending THEN Taken(j, k).known.open
                                                      ELSE copy[j].is.open,
                      locked |-> Taken(j, k).known.locked]]
                /\ touched' = [touched EXCEPT ![j] = touched[j] /\ ~Taken(j, k).pending]
           ELSE /\ jrow' = [jrow EXCEPT ![j] = Taken(j, k)]
                /\ UNCHANGED <<copy, touched>>
    BY DEF JoinApply, Taken
<1>2. /\ Taken(j, k) \in JoinRows
      /\ Settled(Taken(j, k), copy[j].is) \in JoinRows
    BY TakenType
<1>3. HostTypes'
    BY DEF Types, HostTypes, JoinApply, hostVars
<1>4. rows' \in [Seats -> Seq(States)]
  <2>1. SubSeq(rows[j], k + 1, Len(rows[j])) \in Seq(States)
      BY DEF Types, JoinTypes
  <2> QED BY <1>1, <2>1 DEF Types, JoinTypes
<1>5. jrow' \in [Seats -> JoinRows]
    BY <1>1, <1>2 DEF Types, JoinTypes, JoinRows
<1>6. copy' \in [Seats -> Doors_]
  <2>1. CASE UNCHANGED copy
      BY <2>1 DEF Types, JoinTypes
  <2>2. CASE copy[j].loaded /\ Taken(j, k).seeded
    <3> DEFINE d == [open |-> IF Taken(j, k).pending THEN Taken(j, k).known.open
                                                     ELSE copy[j].is.open,
                     locked |-> Taken(j, k).known.locked]
    <3>1. Taken(j, k).known \in States /\ copy[j].is \in States
        BY <1>2 DEF Types, JoinTypes, Doors_, JoinRows
    <3>2. d \in States
        BY <3>1 DEF States
    <3>3. copy' = [copy EXCEPT ![j].is = d]
        BY <1>1, <2>2
    <3> HIDE DEF d
    <3> QED BY <3>2, <3>3 DEF Types, JoinTypes, Doors_
  <2> QED BY <1>1, <2>1, <2>2
<1>7. touched' \in [Seats -> BOOLEAN]
    BY <1>1 DEF Types, HistoryTypes
<1>8. JoinTypes'
    BY <1>4, <1>5, <1>6 DEF Types, JoinTypes, JoinApply, JoinRows
<1>9. HistoryTypes'
    BY <1>7 DEF Types, HistoryTypes, JoinApply, bounds
<1> QED BY <1>3, <1>8, <1>9 DEF Types

LEMMA NextTypes == Types /\ [DoorNext]_doorVars => Types'
<1> SUFFICES ASSUME Types, [DoorNext]_doorVars PROVE Types'
    OBVIOUS
<1>1. CASE UNCHANGED doorVars
    BY <1>1 DEF Types, HostTypes, JoinTypes, HistoryTypes, doorVars, hostVars, joinVars,
                history, bounds
<1>2. CASE DoorNext
    BY <1>2, HostMovesTypes, HostStreamsTypes, JoinMovesTypes, JoinStreamsTypes,
       ConnectTypes, LeaveTypes, HostEventsTypes, HostPublishTypes, HostApplyTypes,
       JoinPublishTypes, JoinApplyTypes
    DEF DoorNext, World, Session, HostTick, JoinTick
<1> QED BY <1>1, <1>2

-----------------------------------------------------------------------------
(* The strengthening, for the actions that touch a join.                   *)
LEMMA JoinMovesEcho == ASSUME NEW j \in Seats, Types, EchoInv, JoinMoves(j) PROVE EchoInv'
<1>1. touched' = [touched EXCEPT ![j] = TRUE]
    BY DEF JoinMoves
<1>2. \A i \in Seats \ {j} : copy'[i] = copy[i]
    BY DEF JoinMoves, Types, JoinTypes
<1> QED BY <1>1, <1>2 DEF EchoInv, JoinMoves, Types, HistoryTypes

LEMMA JoinStreamsEcho == ASSUME NEW j \in Seats, Types, EchoInv, JoinStreams(j) PROVE EchoInv'
<1>1. \A i \in Seats \ {j} : copy'[i] = copy[i] /\ touched'[i] = touched[i]
    BY DEF JoinStreams, Types, JoinTypes, HistoryTypes
<1>2. ~touched'[j] => ~touched[j] /\ copy'[j].is.open = copy[j].is.open
  <2>1. CASE copy[j].loaded
      BY <2>1 DEF JoinStreams, Types, JoinTypes, HistoryTypes, Doors_
  <2>2. CASE ~copy[j].loaded
      BY <2>2 DEF JoinStreams, Types, JoinTypes, HistoryTypes, Doors_
  <2> QED BY <2>1, <2>2
<1> QED BY <1>1, <1>2 DEF EchoInv, JoinStreams

LEMMA SessionEcho ==
    ASSUME NEW j \in Seats, Types, EchoInv, Connect(j) \/ Leave(j) PROVE EchoInv'
<1>1. \A i \in Seats \ {j} : /\ copy'[i] = copy[i] /\ touched'[i] = touched[i]
                             /\ jrow'[i] = jrow[i] /\ here'[i] = here[i]
    BY DEF Connect, Leave, Types, JoinTypes, HistoryTypes
<1>2. ~jrow'[j].seeded
  <2>1. CASE Connect(j)
      BY <2>1 DEF Connect, EchoInv
  <2>2. CASE Leave(j)
      BY <2>2 DEF Leave, Types, JoinTypes, FreshJoinRow
  <2> QED BY <2>1, <2>2
<1> QED BY <1>1, <1>2 DEF EchoInv

LEMMA JoinPublishEcho == ASSUME NEW j \in Seats, Types, EchoInv, JoinPublish(j) PROVE EchoInv'
<1>1. /\ jrow'[j].observed = copy[j].is.open /\ jrow'[j].seeded = jrow[j].seeded
      /\ \A i \in Seats \ {j} : jrow'[i] = jrow[i] /\ touched'[i] = touched[i]
    BY DEF JoinPublish, Types, JoinTypes, HistoryTypes
<1> QED BY <1>1 DEF EchoInv, JoinPublish

LEMMA JoinApplyEcho == ASSUME NEW j \in Seats, Types, EchoInv, JoinApply(j) PROVE EchoInv'
<1>1. \A i \in Seats \ {j} : /\ copy'[i] = copy[i] /\ touched'[i] = touched[i]
                             /\ jrow'[i] = jrow[i]
    BY DEF JoinApply, Types, JoinTypes, HistoryTypes
<1>2. here' = here /\ here[j]
    BY DEF JoinApply
<1>3. PICK k \in 0 .. Len(rows[j]) :
        IF copy[j].loaded /\ Taken(j, k).seeded
        THEN /\ jrow' = [jrow EXCEPT ![j] = Settled(Taken(j, k), copy[j].is)]
             /\ copy' = [copy EXCEPT ![j].is =
                  [open |-> IF Taken(j, k).pending THEN Taken(j, k).known.open
                                                   ELSE copy[j].is.open,
                   locked |-> Taken(j, k).known.locked]]
             /\ touched' = [touched EXCEPT ![j] = touched[j] /\ ~Taken(j, k).pending]
        ELSE /\ jrow' = [jrow EXCEPT ![j] = Taken(j, k)]
             /\ UNCHANGED <<copy, touched>>
    BY DEF JoinApply, Taken
<1>7. ASSUME copy[j].loaded, Taken(j, k).seeded
      PROVE  /\ jrow'[j] = Settled(Taken(j, k), copy[j].is)
             /\ copy'[j].is.open = (IF Taken(j, k).pending THEN Taken(j, k).known.open
                                                           ELSE copy[j].is.open)
             /\ touched'[j] => touched[j]
             /\ ~Taken(j, k).pending /\ touched[j] => touched'[j]
    BY <1>3, <1>7 DEF Types, JoinTypes, HistoryTypes, Doors_
<1>8. ASSUME ~(copy[j].loaded /\ Taken(j, k).seeded)
      PROVE  jrow'[j] = Taken(j, k) /\ UNCHANGED <<copy, touched>>
    BY <1>3, <1>8 DEF Types, JoinTypes
<1>4. Taken(j, k) \in JoinRows /\ jrow[j] \in JoinRows
    BY TakenType DEF Types, JoinTypes, JoinRows
<1>5. ~Taken(j, k).pending => Taken(j, k) = jrow[j]
    BY <1>4 DEF Taken, JoinRows
<1>6. jrow'[j].seeded /\ ~jrow'[j].pending /\ ~touched'[j]
        => copy'[j].is.open = jrow'[j].observed
  <2>1. CASE copy[j].loaded /\ Taken(j, k).seeded /\ Taken(j, k).pending
      BY <1>7, <1>4, <2>1 DEF Settled, JoinRows
  <2>2. CASE copy[j].loaded /\ Taken(j, k).seeded /\ ~Taken(j, k).pending
    <3>1. jrow'[j] = jrow[j] /\ copy'[j].is.open = copy[j].is.open
          /\ (touched'[j] <=> touched[j])
        BY <1>7, <1>5, <2>2 DEF Settled
    <3> QED BY <3>1 DEF EchoInv
  <2>3. CASE ~(copy[j].loaded /\ Taken(j, k).seeded) /\ Taken(j, k).pending
      BY <1>8, <2>3
  <2>4. CASE ~(copy[j].loaded /\ Taken(j, k).seeded) /\ ~Taken(j, k).pending
      BY <1>8, <1>5, <2>4 DEF EchoInv
  <2> QED BY <2>1, <2>2, <2>3, <2>4
<1> QED BY <1>1, <1>2, <1>6 DEF EchoInv

LEMMA NextEcho == Types /\ EchoInv /\ [DoorNext]_doorVars => EchoInv'
<1> SUFFICES ASSUME Types, EchoInv, [DoorNext]_doorVars PROVE EchoInv'
    OBVIOUS
<1>1. CASE UNCHANGED <<here, copy, jrow, touched>>
    BY <1>1 DEF EchoInv
<1>2. CASE \E j \in Seats :
             \/ JoinMoves(j) \/ JoinStreams(j) \/ Connect(j) \/ Leave(j)
             \/ JoinPublish(j) \/ JoinApply(j)
    BY <1>2, JoinMovesEcho, JoinStreamsEcho, SessionEcho, JoinPublishEcho, JoinApplyEcho
<1>3. HostMoves \/ HostStreams \/ HostEvents \/ HostPublish
      \/ (\E j \in Seats : HostApply(j)) \/ UNCHANGED doorVars
         => UNCHANGED <<here, copy, jrow, touched>>
    BY DEF HostMoves, HostStreams, HostEvents, HostPublish, HostApply, doorVars, joinVars,
           history
<1> QED BY <1>1, <1>2, <1>3 DEF DoorNext, World, Session, HostTick, JoinTick

(* Only a join that publishes lengthens its requests.                      *)
LEMMA RequestStep ==
    ASSUME Types, EchoInv, [DoorNext]_doorVars, NEW j \in Seats, Len(ask'[j]) > Len(ask[j])
    PROVE  touched[j]
<1>0. ask \in [Seats -> Seq(Requests)] /\ Len(ask[j]) \in Nat
    BY DEF Types, JoinTypes
<1>1. ask' # ask
    BY <1>0
<1>2. ASSUME NEW i \in Seats, JoinPublish(i) PROVE touched[j]
  <2>1. i = j
      BY <1>0, <1>2 DEF JoinPublish
  <2> QED BY <1>2, <2>1 DEF JoinPublish, EchoInv
<1>3. ASSUME NEW i \in Seats, Leave(i) PROVE FALSE
  <2>1. ask' = [ask EXCEPT ![i] = <<>>]
      BY <1>3 DEF Leave
  <2> QED BY <1>0, <2>1
<1>4. ASSUME NEW i \in Seats, HostApply(i) PROVE FALSE
  <2>1. ask' = [ask EXCEPT ![i] = Tail(ask[i])] /\ ask[i] # <<>>
      BY <1>4 DEF HostApply
  <2>2. Len(Tail(ask[i])) <= Len(ask[i])
      BY <1>0, <2>1
  <2> QED BY <1>0, <2>1, <2>2
<1>5. ASSUME HostEvents PROVE FALSE
  <2>1. ask' = [i \in Seats |-> <<>>] \/ ask' = ask
      BY <1>5 DEF HostEvents
  <2>2. CASE ask' = [i \in Seats |-> <<>>]
      BY <1>0, <2>2
  <2> QED BY <1>1, <2>1, <2>2
<1>6. HostMoves \/ HostStreams \/ HostPublish \/ UNCHANGED doorVars
      \/ (\E i \in Seats : JoinMoves(i) \/ JoinStreams(i) \/ Connect(i) \/ JoinApply(i))
         => UNCHANGED ask
    BY DEF HostMoves, HostStreams, HostPublish, JoinMoves, JoinStreams, Connect,
           JoinApply, doorVars, joinVars
<1> QED BY <1>1, <1>2, <1>3, <1>4, <1>5, <1>6
        DEF DoorNext, World, Session, HostTick, JoinTick

(* publishDoors and applyDoors: for any number of joins, doors and clicks, *)
(* a join asks the host only for what moved in its own world.              *)
THEOREM DoorsNoEcho == DoorSpec => NoEcho
<1>1. DoorInit => Types /\ EchoInv
    BY TypesInit, EchoInit
<1>2. Types /\ EchoInv /\ [DoorNext]_doorVars => (Types /\ EchoInv)'
    BY NextTypes, NextEcho
<1>3. Types /\ EchoInv /\ [DoorNext]_doorVars
        => [\A j \in Seats : Len(ask'[j]) > Len(ask[j]) => touched[j]]_doorVars
    BY RequestStep
<1> QED BY <1>1, <1>2, <1>3, PTL DEF DoorSpec, NoEcho

-----------------------------------------------------------------------------
(* The requests of a seat are numbered upwards, below its counter, and     *)
(* above what the host has seen of it - unless the host has yet to handle  *)
(* that the seat was left, which makes it forget what it has seen.         *)
SeqInv ==
    \A j \in Seats :
        /\ \A i \in 1 .. Len(ask[j]) : ask[j][i].seq < jseqOut[j]
        /\ \A i, k \in 1 .. Len(ask[j]) : i < k => ask[j][i].seq < ask[j][k].seq
        /\ leaves[j] = 0 =>
             /\ row.seen[j] < jseqOut[j]
             /\ \A i \in 1 .. Len(ask[j]) : row.seen[j] < ask[j][i].seq
        /\ ~here[j] => ask[j] = <<>> /\ (leaves[j] = 0 => row.seen[j] = 0)

LEMMA Numbered ==
    ASSUME NEW s \in Seq(Requests), NEW i \in 1 .. Len(s)
    PROVE  s[i].seq \in Nat \ {0}
<1>1. s[i] \in Requests
    OBVIOUS
<1> QED BY <1>1 DEF Requests

LEMMA SeqInit == DoorInit => SeqInv
BY DEF DoorInit, SeqInv, FreshRow

LEMMA ConnectSeq == ASSUME NEW j \in Seats, Types, SeqInv, Connect(j) PROVE SeqInv'
<1>1. /\ ask[j] = <<>> /\ UNCHANGED <<ask, row, leaves>>
      /\ leaves[j] = 0 => row.seen[j] = 0
    BY DEF Connect, SeqInv
<1>2. /\ jseqOut'[j] \in Nat \ {0}
      /\ \A i \in Seats \ {j} : jseqOut'[i] = jseqOut[i] /\ here'[i] = here[i]
      /\ here'[j]
    BY DEF Connect, Types, JoinTypes
<1>3. Len(ask[j]) = 0
    BY <1>1
<1> QED BY <1>1, <1>2, <1>3 DEF SeqInv

LEMMA LeaveSeq == ASSUME NEW j \in Seats, Types, SeqInv, Leave(j) PROVE SeqInv'
<1>1. /\ ask'[j] = <<>> /\ UNCHANGED <<row, jseqOut>> /\ leaves'[j] > 0
      /\ \A i \in Seats \ {j} : /\ ask'[i] = ask[i] /\ here'[i] = here[i]
                               /\ leaves'[i] = leaves[i]
    BY DEF Leave, Types, JoinTypes, HostTypes
<1>2. Len(ask'[j]) = 0
    BY <1>1
<1> QED BY <1>1, <1>2 DEF SeqInv

LEMMA HostEventsSeq == ASSUME Types, SeqInv, HostEvents PROVE SeqInv'
<1>1. UNCHANGED <<here, jseqOut>> /\ jseqOut \in [Seats -> Nat \ {0}]
      /\ leaves' = [j \in Seats |-> 0]
    BY DEF HostEvents, Types, JoinTypes, None
<1>2. CASE row' = FreshRow /\ ask' = [j \in Seats |-> <<>>]
    BY <1>1, <1>2 DEF SeqInv, FreshRow
<1>3. CASE row' = [row EXCEPT !.due = @ \/ conns # None, !.seen = RetiredGuards(@)]
           /\ UNCHANGED ask
  <2>1. \A j \in Seats : row'.seen[j] = IF leaves[j] > 0 THEN 0 ELSE row.seen[j]
      BY <1>3 DEF RetiredGuards, Types, HostTypes
  <2>2. \A j \in Seats : \A i \in 1 .. Len(ask[j]) : ask[j][i].seq \in Nat \ {0}
      BY Numbered DEF Types, JoinTypes
  <2>3. leaves \in [Seats -> Nat]
      BY DEF Types, HostTypes
  <2> SUFFICES ASSUME NEW j \in Seats
               PROVE  /\ row'.seen[j] < jseqOut[j]
                      /\ \A i \in 1 .. Len(ask[j]) : row'.seen[j] < ask[j][i].seq
                      /\ ~here[j] => row'.seen[j] = 0
      BY <1>1, <1>3 DEF SeqInv
  <2>4. CASE leaves[j] > 0
      BY <1>1, <2>1, <2>2, <2>4
  <2>5. CASE leaves[j] = 0
      BY <2>1, <2>5 DEF SeqInv
  <2> QED BY <2>3, <2>4, <2>5
<1> QED BY <1>2, <1>3 DEF HostEvents

LEMMA HostApplySeq == ASSUME NEW j \in Seats, Types, SeqInv, HostApply(j) PROVE SeqInv'
<1> DEFINE s == ask[j]
<1>1. /\ s \in Seq(Requests) /\ s # <<>>
      /\ ask' = [ask EXCEPT ![j] = Tail(s)] /\ ask \in [Seats -> Seq(Requests)]
      /\ UNCHANGED <<here, jseqOut, leaves>>
    BY DEF HostApply, Types, JoinTypes
<1>2. /\ Len(s) \in Nat \ {0} /\ Len(Tail(s)) = Len(s) - 1 /\ Head(s) = s[1]
      /\ \A i \in 1 .. Len(s) - 1 : Tail(s)[i] = s[i + 1]
    BY <1>1
<1>3. row'.seen = IF row.seen[j] = 0 \/ s[1].seq > row.seen[j]
                  THEN [row.seen EXCEPT ![j] = s[1].seq] ELSE row.seen
    BY <1>2 DEF HostApply, Types, HostTypes
<1>4. \A i \in Seats \ {j} : ask'[i] = ask[i] /\ row'.seen[i] = row.seen[i]
    BY <1>1, <1>3 DEF Types, HostTypes
<1>5. \A i \in 1 .. Len(s) : s[i].seq \in Nat
    BY <1>1, Numbered
<1>6. leaves[j] = 0 /\ here[j]
    BY <1>1 DEF HostApply, None, SeqInv
<1>7. row.seen[j] < s[1].seq /\ row'.seen[j] = s[1].seq
  <2>1. row.seen[j] < s[1].seq
      BY <1>2, <1>6 DEF SeqInv
  <2>2. row.seen[j] \in Nat
      BY DEF Types, HostTypes
  <2>3. s[1].seq \in Nat
    <3>1. 1 \in 1 .. Len(s)
        BY <1>2
    <3> QED BY <1>5, <3>1
  <2> QED BY <1>3, <2>1, <2>2, <2>3 DEF Types, HostTypes
<1> HIDE DEF s
<1>8. ask'[j] = Tail(s)
    BY <1>1
<1>9. /\ \A i \in 1 .. Len(s) : s[i].seq < jseqOut[j]
      /\ \A i, k \in 1 .. Len(s) : i < k => s[i].seq < s[k].seq
    BY DEF SeqInv, s
<1>10. /\ \A i \in 1 .. Len(Tail(s)) : Tail(s)[i].seq < jseqOut[j]
       /\ \A i, k \in 1 .. Len(Tail(s)) : i < k => Tail(s)[i].seq < Tail(s)[k].seq
       /\ \A i \in 1 .. Len(Tail(s)) : s[1].seq < Tail(s)[i].seq
    BY <1>2, <1>9
<1>11. s[1].seq < jseqOut[j]
    BY <1>2, <1>9
<1> SUFFICES ASSUME NEW i \in Seats
             PROVE  /\ \A n \in 1 .. Len(ask'[i]) : ask'[i][n].seq < jseqOut[i]
                    /\ \A n, k \in 1 .. Len(ask'[i]) :
                         n < k => ask'[i][n].seq < ask'[i][k].seq
                    /\ leaves[i] = 0 =>
                         /\ row'.seen[i] < jseqOut[i]
                         /\ \A n \in 1 .. Len(ask'[i]) : row'.seen[i] < ask'[i][n].seq
                    /\ ~here[i] => ask'[i] = <<>> /\ (leaves[i] = 0 => row'.seen[i] = 0)
    BY <1>1 DEF SeqInv
<1>12. CASE i # j
    BY <1>4, <1>12 DEF SeqInv
<1>13. CASE i = j
    BY <1>6, <1>7, <1>8, <1>10, <1>11, <1>13
<1> QED BY <1>12, <1>13

LEMMA JoinPublishSeq == ASSUME NEW j \in Seats, Types, SeqInv, JoinPublish(j) PROVE SeqInv'
<1> DEFINE s == ask[j]
           m == [seq |-> jseqOut[j], open |-> copy[j].is.open]
<1>1. /\ s \in Seq(Requests) /\ ask' = [ask EXCEPT ![j] = Append(s, m)]
      /\ ask \in [Seats -> Seq(Requests)] /\ jseqOut \in [Seats -> Nat \ {0}]
      /\ jseqOut' = [jseqOut EXCEPT ![j] = jseqOut[j] + 1]
      /\ UNCHANGED <<here, row, leaves>> /\ here[j]
    BY DEF JoinPublish, Types, JoinTypes, hostVars
<1>2. row.seen[j] \in Nat
    BY DEF Types, HostTypes
<1>3. /\ m.seq = jseqOut[j]
      /\ \A i \in 1 .. Len(s) : s[i].seq \in Nat
    BY <1>1, Numbered
<1>4. /\ \A i \in 1 .. Len(s) : s[i].seq < jseqOut[j]
      /\ \A i, k \in 1 .. Len(s) : i < k => s[i].seq < s[k].seq
      /\ leaves[j] = 0 => /\ row.seen[j] < jseqOut[j]
                          /\ \A i \in 1 .. Len(s) : row.seen[j] < s[i].seq
    BY DEF SeqInv
<1>5. /\ ask'[j] = Append(s, m) /\ jseqOut'[j] = jseqOut[j] + 1
      /\ \A i \in Seats \ {j} : ask'[i] = ask[i] /\ jseqOut'[i] = jseqOut[i]
    BY <1>1
<1> HIDE DEF s, m
<1>6. /\ Len(Append(s, m)) = Len(s) + 1 /\ Len(s) \in Nat
      /\ \A i \in 1 .. Len(s) : Append(s, m)[i] = s[i]
      /\ Append(s, m)[Len(s) + 1] = m
    BY <1>1
<1>7. /\ \A i \in 1 .. Len(s) + 1 : Append(s, m)[i].seq < jseqOut[j] + 1
      /\ \A i, k \in 1 .. Len(s) + 1 : i < k => Append(s, m)[i].seq < Append(s, m)[k].seq
      /\ leaves[j] = 0 => /\ row.seen[j] < jseqOut[j] + 1
                          /\ \A i \in 1 .. Len(s) + 1 : row.seen[j] < Append(s, m)[i].seq
    BY <1>1, <1>2, <1>3, <1>4, <1>6
<1> QED BY <1>1, <1>5, <1>6, <1>7 DEF SeqInv

LEMMA NextSeq == Types /\ SeqInv /\ [DoorNext]_doorVars => SeqInv'
<1> SUFFICES ASSUME Types, SeqInv, [DoorNext]_doorVars PROVE SeqInv'
    OBVIOUS
<1>1. CASE UNCHANGED <<here, jseqOut, leaves, ask, row.seen>>
    BY <1>1 DEF SeqInv
<1>2. HostMoves \/ HostStreams \/ HostPublish \/ UNCHANGED doorVars
      \/ (\E j \in Seats : JoinMoves(j) \/ JoinStreams(j) \/ JoinApply(j))
         => UNCHANGED <<here, jseqOut, leaves, ask, row.seen>>
    BY DEF HostMoves, HostStreams, HostPublish, JoinMoves, JoinStreams, JoinApply,
           doorVars, hostVars, joinVars, Types, HostTypes
<1> QED BY <1>1, <1>2, ConnectSeq, LeaveSeq, HostEventsSeq, HostApplySeq, JoinPublishSeq
        DEF DoorNext, World, Session, HostTick, JoinTick

(* doorRetirePeerSequences, onPeerDisconnected and flushOwnerWorld: for any*)
(* number of seats, whoever takes them and however often, no request is    *)
(* taken for one the host has already had.                                 *)
THEOREM DoorsSlotReusable == DoorSpec => []SlotReusable
<1>1. DoorInit => Types /\ SeqInv
    BY TypesInit, SeqInit
<1>2. Types /\ SeqInv /\ [DoorNext]_doorVars => (Types /\ SeqInv)'
    BY NextTypes, NextSeq
<1>3. Types /\ SeqInv => SlotReusable
  <2> SUFFICES ASSUME Types, SeqInv, NEW j \in Seats, leaves = None, ask[j] # <<>>
               PROVE  Head(ask[j]).seq > row.seen[j]
      BY DEF SlotReusable
  <2>1. ask[j] \in Seq(Requests) /\ 1 \in 1 .. Len(ask[j]) /\ Head(ask[j]) = ask[j][1]
      BY DEF Types, JoinTypes
  <2>2. ask[j][1].seq \in Nat /\ row.seen[j] \in Nat
      BY <2>1, Numbered DEF Types, HostTypes
  <2> QED BY <2>1, <2>2 DEF SeqInv, None
<1> QED BY <1>1, <1>2, <1>3, PTL DEF DoorSpec

-----------------------------------------------------------------------------
(* Sums.  SumFunctionOnSet takes the elements of a set in an order of its  *)
(* own.  Two tables of its partial sums cannot differ first anywhere: the  *)
(* subsets of a finite set are well-founded.                               *)
Picked(s) == CHOOSE x \in s : TRUE
Sums(f, S, h) ==
    h = [s \in SUBSET S |-> IF s = {} THEN 0 ELSE f[Picked(s)] + h[s \ {Picked(s)}]]
Table(f, S) == CHOOSE h : Sums(f, S, h)

LEMMA SumIsTable == \A f, S : SumFunctionOnSet(f, S) = Table(f, S)[S]
BY DEF SumFunctionOnSet, FoldFunctionOnSet, MapThenFoldSet, Table, Sums, Picked

LEMMA Least ==
    ASSUME NEW S, IsFiniteSet(S), NEW C, C \subseteq SUBSET S, C # {}
    PROVE  \E s \in C : \A t \in C : ~(t \subseteq s /\ t # s)
<1>1. IsWellFoundedOn(StrictSubsetOrdering(S), FiniteSubsetsOf(S))
  BY FS_StrictSubsetOrderingWellFounded
<1>2. C \subseteq FiniteSubsetsOf(S)
  BY FS_FiniteSubsetsOfFinite
<1>3. \E s \in C : \A t \in C : ~(<<t, s>> \in StrictSubsetOrdering(S))
  BY <1>1, <1>2, WFMin
<1> QED BY <1>3 DEF StrictSubsetOrdering

LEMMA PickedIsElement == \A s : s # {} => Picked(s) \in s
BY DEF Picked

LEMMA SumsAt ==
    ASSUME NEW f, NEW S, NEW h, Sums(f, S, h), NEW s \in SUBSET S
    PROVE  h[s] = IF s = {} THEN 0 ELSE f[Picked(s)] + h[s \ {Picked(s)}]
BY DEF Sums

(* Two tables of partial sums agree where both are defined.                *)
LEMMA TablesAgree ==
    ASSUME NEW f, NEW S, IsFiniteSet(S), NEW T, NEW g, NEW h, Sums(f, S, g), Sums(f, T, h),
           NEW s \in SUBSET S, s \in SUBSET T
    PROVE  g[s] = h[s]
<1> DEFINE C == {t \in SUBSET S : t \subseteq T /\ g[t] # h[t]}
<1>1. SUFFICES ASSUME C # {} PROVE FALSE
  OBVIOUS
<1>2. PICK t \in C : \A u \in C : ~(u \subseteq t /\ u # t)
  <2> HIDE DEF C
  <2>1. C \subseteq SUBSET S
    BY DEF C
  <2> QED BY <1>1, <2>1, Least
<1> DEFINE u == t \ {Picked(t)}
<1>3. /\ g[t] = IF t = {} THEN 0 ELSE f[Picked(t)] + g[u]
      /\ h[t] = IF t = {} THEN 0 ELSE f[Picked(t)] + h[u]
  BY SumsAt
<1>4. t # {}
  BY <1>3
<1>5. u \subseteq t /\ u # t /\ u \in SUBSET S /\ u \subseteq T
  BY <1>4, PickedIsElement
<1>6. g[u] = h[u]
  BY <1>2, <1>5
<1> QED BY <1>3, <1>6

LEMMA TableExists ==
    ASSUME NEW f, NEW S, IsFiniteSet(S) PROVE \E h : Sums(f, S, h)
<1> DEFINE C == {T \in SUBSET S : ~\E h : Sums(f, T, h)}
<1>1. SUFFICES ASSUME C # {} PROVE FALSE
  OBVIOUS
<1>2. PICK T \in C : \A U \in C : ~(U \subseteq T /\ U # T)
  <2> HIDE DEF C
  <2>1. C \subseteq SUBSET S
    BY DEF C
  <2> QED BY <1>1, <2>1, Least
<1>3. \A U \in SUBSET T : U # T => Sums(f, U, Table(f, U)) /\ IsFiniteSet(U)
  BY <1>2, FS_Subset DEF Table
<1> DEFINE h == [s \in SUBSET T |-> IF s = {} THEN 0
                    ELSE f[Picked(s)] + Table(f, s \ {Picked(s)})[s \ {Picked(s)}]]
<1>4. ASSUME NEW s \in SUBSET T, s # {}
      PROVE  h[s \ {Picked(s)}] = Table(f, s \ {Picked(s)})[s \ {Picked(s)}]
  <2> DEFINE u == s \ {Picked(s)}
             v == u \ {Picked(u)}
  <2>1. u \in SUBSET T /\ u # T /\ Sums(f, u, Table(f, u)) /\ IsFiniteSet(u)
    BY <1>3, <1>4, PickedIsElement
  <2>2. Table(f, u)[u] = IF u = {} THEN 0 ELSE f[Picked(u)] + Table(f, u)[v]
    <3>1. \A g : Sums(f, u, g) => g[u] = IF u = {} THEN 0 ELSE f[Picked(u)] + g[v]
      BY DEF Sums
    <3> QED BY <2>1, <3>1
  <2>3. CASE u = {}
    BY <2>1, <2>2, <2>3
  <2>4. CASE u # {}
    <3>1. v \in SUBSET T /\ v # T /\ v \subseteq u /\ Sums(f, v, Table(f, v))
      BY <1>3, <2>1, <2>4, PickedIsElement
    <3>2. Table(f, u)[v] = Table(f, v)[v]
      BY <2>1, <3>1, TablesAgree
    <3>3. h[u] = f[Picked(u)] + Table(f, v)[v]
      BY <2>1, <2>4
    <3> QED BY <2>2, <2>4, <3>2, <3>3
  <2> QED BY <2>3, <2>4
<1>5. \A s \in SUBSET T : h[s] = IF s = {} THEN 0 ELSE f[Picked(s)] + h[s \ {Picked(s)}]
  BY <1>4
<1>6. h = [s \in SUBSET T |-> IF s = {} THEN 0 ELSE f[Picked(s)] + h[s \ {Picked(s)}]]
  <2>1. h = [s \in SUBSET T |-> h[s]]
    OBVIOUS
  <2> HIDE DEF h
  <2> QED BY <1>5, <2>1
<1> HIDE DEF h
<1>7. Sums(f, T, h)
  BY <1>6 DEF Sums
<1> QED BY <1>7, <1>2

LEMMA SumStep ==
    ASSUME NEW f, NEW S, IsFiniteSet(S)
    PROVE  SumFunctionOnSet(f, S) = IF S = {} THEN 0
              ELSE f[Picked(S)] + SumFunctionOnSet(f, S \ {Picked(S)})
<1> DEFINE u == S \ {Picked(S)}
<1>1. IsFiniteSet(u) /\ u \in SUBSET S
  BY FS_Subset
<1>2. Sums(f, S, Table(f, S)) /\ Sums(f, u, Table(f, u))
  BY <1>1, TableExists DEF Table
<1>3. Table(f, S)[S] = IF S = {} THEN 0 ELSE f[Picked(S)] + Table(f, S)[u]
  <2>1. \A h : Sums(f, S, h) => h[S] = IF S = {} THEN 0 ELSE f[Picked(S)] + h[u]
    BY DEF Sums
  <2> QED BY <1>2, <2>1
<1>4. Table(f, S)[u] = Table(f, u)[u]
  BY <1>1, <1>2, TablesAgree
<1> QED BY <1>3, <1>4, SumIsTable

LEMMA SumType ==
    ASSUME NEW f, NEW S, IsFiniteSet(S), \A x \in S : f[x] \in Int
    PROVE  SumFunctionOnSet(f, S) \in Int
<1> DEFINE C == {T \in SUBSET S : SumFunctionOnSet(f, T) \notin Int}
<1>1. SUFFICES ASSUME C # {} PROVE FALSE
  OBVIOUS
<1>2. PICK T \in C : \A U \in C : ~(U \subseteq T /\ U # T)
  <2> HIDE DEF C
  <2>1. C \subseteq SUBSET S
    BY DEF C
  <2> QED BY <1>1, <2>1, Least
<1> DEFINE u == T \ {Picked(T)}
<1>3. SumFunctionOnSet(f, T) = IF T = {} THEN 0 ELSE f[Picked(T)] + SumFunctionOnSet(f, u)
  BY SumStep, FS_Subset
<1>4. T # {}
  BY <1>3
<1>5. u \subseteq T /\ u # T /\ u \in SUBSET S /\ Picked(T) \in S
  BY <1>4, PickedIsElement
<1>6. SumFunctionOnSet(f, u) \in Int
  BY <1>2, <1>5
<1> QED BY <1>3, <1>4, <1>5, <1>6

(* The order in which a sum takes its elements does not matter.            *)
LEMMA SumTakes ==
    ASSUME NEW f, NEW S, IsFiniteSet(S), \A x \in S : f[x] \in Int, NEW e \in S
    PROVE  SumFunctionOnSet(f, S) = f[e] + SumFunctionOnSet(f, S \ {e})
<1> DEFINE C == {T \in SUBSET S : \E x \in T :
                    SumFunctionOnSet(f, T) # f[x] + SumFunctionOnSet(f, T \ {x})}
<1>1. SUFFICES ASSUME C # {} PROVE FALSE
  OBVIOUS
<1>2. PICK T \in C : \A U \in C : ~(U \subseteq T /\ U # T)
  <2> HIDE DEF C
  <2>1. C \subseteq SUBSET S
    BY DEF C
  <2> QED BY <1>1, <2>1, Least
<1>3. PICK x \in T : SumFunctionOnSet(f, T) # f[x] + SumFunctionOnSet(f, T \ {x})
  OBVIOUS
<1> DEFINE p == Picked(T)
<1>4. p \in T /\ SumFunctionOnSet(f, T) = f[p] + SumFunctionOnSet(f, T \ {p})
  BY <1>3, SumStep, FS_Subset, PickedIsElement
<1>5. x # p
  BY <1>3, <1>4
<1> HIDE DEF p
<1>6. SumFunctionOnSet(f, T \ {p}) = f[x] + SumFunctionOnSet(f, (T \ {p}) \ {x})
  <2>1. T \ {p} \notin C /\ x \in T \ {p} /\ T \ {p} \in SUBSET S
    BY <1>2, <1>4, <1>5
  <2> QED BY <2>1
<1>7. SumFunctionOnSet(f, T \ {x}) = f[p] + SumFunctionOnSet(f, (T \ {x}) \ {p})
  <2>1. T \ {x} \notin C /\ p \in T \ {x} /\ T \ {x} \in SUBSET S
    BY <1>2, <1>3, <1>4, <1>5
  <2> QED BY <2>1
<1>8. (T \ {x}) \ {p} = (T \ {p}) \ {x}
  OBVIOUS
<1>9. SumFunctionOnSet(f, (T \ {p}) \ {x}) \in Int
  <2>1. IsFiniteSet((T \ {p}) \ {x}) /\ \A y \in (T \ {p}) \ {x} : f[y] \in Int
    BY FS_Subset
  <2> QED BY <2>1, SumType
<1> HIDE DEF C
<1>10. f[x] \in Int /\ f[p] \in Int
  BY <1>2, <1>3, <1>4 DEF C
<1>11. SumFunctionOnSet(f, T) = f[p] + (f[x] + SumFunctionOnSet(f, (T \ {p}) \ {x}))
  BY <1>4, <1>6
<1>12. SumFunctionOnSet(f, T \ {x}) = f[p] + SumFunctionOnSet(f, (T \ {p}) \ {x})
  BY <1>7, <1>8
<1> QED BY <1>3, <1>9, <1>10, <1>11, <1>12

LEMMA SumSame ==
    ASSUME NEW f, NEW g, NEW S, IsFiniteSet(S), \A x \in S : f[x] = g[x]
    PROVE  SumFunctionOnSet(f, S) = SumFunctionOnSet(g, S)
<1> DEFINE C == {T \in SUBSET S : SumFunctionOnSet(f, T) # SumFunctionOnSet(g, T)}
<1>1. SUFFICES ASSUME C # {} PROVE FALSE
  OBVIOUS
<1>2. PICK T \in C : \A U \in C : ~(U \subseteq T /\ U # T)
  <2> HIDE DEF C
  <2>1. C \subseteq SUBSET S
    BY DEF C
  <2> QED BY <1>1, <2>1, Least
<1> DEFINE u == T \ {Picked(T)}
<1>3. /\ SumFunctionOnSet(f, T) = IF T = {} THEN 0 ELSE f[Picked(T)] + SumFunctionOnSet(f, u)
      /\ SumFunctionOnSet(g, T) = IF T = {} THEN 0 ELSE g[Picked(T)] + SumFunctionOnSet(g, u)
  BY SumStep, FS_Subset
<1>4. T # {}
  BY <1>3
<1>5. u \subseteq T /\ u # T /\ u \in SUBSET S /\ Picked(T) \in S
  BY <1>4, PickedIsElement
<1>6. SumFunctionOnSet(f, u) = SumFunctionOnSet(g, u)
  BY <1>2, <1>5
<1> QED BY <1>3, <1>4, <1>5, <1>6

(* One term of a sum changes.                                              *)
LEMMA SumChanges ==
    ASSUME NEW f, NEW g, NEW S, IsFiniteSet(S), NEW e \in S,
           \A x \in S : f[x] \in Int /\ g[x] \in Int, \A x \in S \ {e} : g[x] = f[x]
    PROVE  SumFunctionOnSet(g, S) = SumFunctionOnSet(f, S) + (g[e] - f[e])
<1>1. /\ SumFunctionOnSet(f, S) = f[e] + SumFunctionOnSet(f, S \ {e})
      /\ SumFunctionOnSet(g, S) = g[e] + SumFunctionOnSet(g, S \ {e})
  BY SumTakes
<1>2. IsFiniteSet(S \ {e}) /\ \A x \in S \ {e} : f[x] \in Int
  BY FS_Subset
<1>3. SumFunctionOnSet(f, S \ {e}) = SumFunctionOnSet(g, S \ {e})
  BY <1>2, SumSame
<1>4. SumFunctionOnSet(f, S \ {e}) \in Int /\ f[e] \in Int /\ g[e] \in Int
  BY <1>2, SumType
<1> QED BY <1>1, <1>3, <1>4

LEMMA SumOfZeros ==
    ASSUME NEW f, NEW S, IsFiniteSet(S), \A x \in S : f[x] = 0
    PROVE  SumFunctionOnSet(f, S) = 0
<1> DEFINE C == {T \in SUBSET S : SumFunctionOnSet(f, T) # 0}
<1>1. SUFFICES ASSUME C # {} PROVE FALSE
  OBVIOUS
<1>2. PICK T \in C : \A U \in C : ~(U \subseteq T /\ U # T)
  <2> HIDE DEF C
  <2>1. C \subseteq SUBSET S
    BY DEF C
  <2> QED BY <1>1, <2>1, Least
<1> DEFINE u == T \ {Picked(T)}
<1>3. SumFunctionOnSet(f, T) = IF T = {} THEN 0 ELSE f[Picked(T)] + SumFunctionOnSet(f, u)
  BY SumStep, FS_Subset
<1>4. T # {}
  BY <1>3
<1>5. u \subseteq T /\ u # T /\ u \in SUBSET S /\ Picked(T) \in S
  BY <1>4, PickedIsElement
<1>6. SumFunctionOnSet(f, u) = 0
  BY <1>2, <1>5
<1> QED BY <1>3, <1>4, <1>5, <1>6

LEMMA SumOfOnes ==
    ASSUME NEW f, NEW S, IsFiniteSet(S), \A x \in S : f[x] = 1
    PROVE  SumFunctionOnSet(f, S) = Cardinality(S)
<1> DEFINE C == {T \in SUBSET S : SumFunctionOnSet(f, T) # Cardinality(T)}
<1>1. SUFFICES ASSUME C # {} PROVE FALSE
  OBVIOUS
<1>2. PICK T \in C : \A U \in C : ~(U \subseteq T /\ U # T)
  <2> HIDE DEF C
  <2>1. C \subseteq SUBSET S
    BY DEF C
  <2> QED BY <1>1, <2>1, Least
<1> DEFINE u == T \ {Picked(T)}
<1>3. SumFunctionOnSet(f, T) = IF T = {} THEN 0 ELSE f[Picked(T)] + SumFunctionOnSet(f, u)
  BY SumStep, FS_Subset
<1>4. T # {}
  BY <1>3, FS_EmptySet
<1>5. u \subseteq T /\ u # T /\ u \in SUBSET S /\ Picked(T) \in T /\ Picked(T) \in S
  BY <1>4, PickedIsElement
<1>6. SumFunctionOnSet(f, u) = Cardinality(u)
  BY <1>2, <1>5
<1>7. Cardinality(T) \in Nat /\ Cardinality(u) = Cardinality(T) - 1
  BY <1>5, FS_Subset, FS_CardinalityType, FS_RemoveElement
<1> QED BY <1>3, <1>4, <1>5, <1>6, <1>7

(* Who is counted: each seat that was taken since the host's last tick is  *)
(* in conns, each that was left is in leaves.                              *)
Present == {j \in Seats : here[j]}
AllCounted == peers \in Int /\ PeersCounted

LEMMA TotalIsSum ==
    ASSUME NEW count \in [Seats -> Nat] PROVE Total(count) = SumFunctionOnSet(count, Seats)
<1>1. DOMAIN count = Seats
    OBVIOUS
<1> QED BY <1>1 DEF Total, FoldFunction, SumFunctionOnSet

LEMMA TotalType ==
    ASSUME NEW count \in [Seats -> Nat] PROVE Total(count) \in Int
<1>1. IsFiniteSet(Seats) /\ \A j \in Seats : count[j] \in Int
    BY DoorAssumption
<1> QED BY <1>1, TotalIsSum, SumType

LEMMA TotalRises ==
    ASSUME NEW count \in [Seats -> Nat], NEW j \in Seats
    PROVE  Total([count EXCEPT ![j] = @ + 1]) = Total(count) + 1
<1> DEFINE more == [count EXCEPT ![j] = @ + 1]
<1>1. /\ more \in [Seats -> Nat] /\ more[j] = count[j] + 1 /\ count[j] \in Nat
      /\ \A i \in Seats \ {j} : more[i] = count[i]
    OBVIOUS
<1> HIDE DEF more
<1>2. IsFiniteSet(Seats) /\ \A i \in Seats : count[i] \in Int /\ more[i] \in Int
    BY <1>1, DoorAssumption
<1>3. SumFunctionOnSet(more, Seats) = SumFunctionOnSet(count, Seats) + (more[j] - count[j])
    BY <1>1, <1>2, SumChanges
<1>4. more[j] - count[j] = 1
    BY <1>1
<1>5. Total(more) = Total(count) + 1
    BY <1>1, <1>3, <1>4, TotalIsSum
<1> QED BY <1>5 DEF more

LEMMA TotalOfNone == Total(None) = 0
<1>1. None \in [Seats -> Nat] /\ \A j \in Seats : None[j] = 0
    BY DEF None
<1>2. SumFunctionOnSet(None, Seats) = 0
    BY <1>1, DoorAssumption, SumOfZeros
<1> QED BY <1>1, <1>2, TotalIsSum

LEMMA PresentCounts ==
    IsFiniteSet(Present) /\ Cardinality(Present) \in Nat
<1>1. Present \in SUBSET Seats
    BY DEF Present
<1> QED BY <1>1, DoorAssumption, FS_Subset, FS_CardinalityType

LEMMA CountedInit == DoorInit => AllCounted
<1> SUFFICES ASSUME DoorInit PROVE AllCounted
    OBVIOUS
<1>1. peers = 0 /\ leaves = None /\ Present = Seats
    BY DEF DoorInit, None, Present
<1> DEFINE one == [j \in Seats |-> 1]
<1>2. conns = one
    BY DEF DoorInit
<1>3. Total(one) = Cardinality(Seats)
    <2>1. one \in [Seats -> Nat] /\ \A j \in Seats : one[j] = 1
        OBVIOUS
    <2> HIDE DEF one
    <2>2. SumFunctionOnSet(one, Seats) = Cardinality(Seats)
        BY <2>1, DoorAssumption, SumOfOnes
    <2> QED BY <2>1, <2>2, TotalIsSum
<1>4. Cardinality(Seats) \in Nat
    BY DoorAssumption, FS_CardinalityType
<1> HIDE DEF one
<1>5. peers + Total(conns) - Total(leaves) = Cardinality(Present)
    BY <1>1, <1>2, <1>3, <1>4, TotalOfNone
<1> QED BY <1>1, <1>5 DEF AllCounted, PeersCounted, Present

LEMMA ConnectCounted == ASSUME NEW j \in Seats, Types, AllCounted, Connect(j) PROVE AllCounted'
<1>1. /\ conns \in [Seats -> Nat] /\ leaves \in [Seats -> Nat] /\ here \in [Seats -> BOOLEAN]
      /\ conns' = [conns EXCEPT ![j] = @ + 1] /\ UNCHANGED <<peers, leaves>>
      /\ ~here[j] /\ here' = [here EXCEPT ![j] = TRUE]
    BY DEF Types, HostTypes, JoinTypes, Connect
<1>2. Total(conns') = Total(conns) + 1
    BY <1>1, TotalRises
<1>3. Present' = Present \union {j} /\ j \notin Present
    BY <1>1 DEF Present
<1>4. Cardinality(Present') = Cardinality(Present) + 1
    BY <1>3, PresentCounts, FS_AddElement
<1>5. Total(conns) \in Int /\ Total(leaves) \in Int /\ Cardinality(Present) \in Nat
      /\ peers \in Int
    BY <1>1, TotalType, PresentCounts DEF AllCounted
<1>6. peers + Total(conns) - Total(leaves) = Cardinality(Present)
    BY DEF AllCounted, PeersCounted, Present
<1>7. peers' + Total(conns') - Total(leaves') = Cardinality(Present')
    BY <1>1, <1>2, <1>4, <1>5, <1>6
<1> QED BY <1>1, <1>5, <1>7 DEF AllCounted, PeersCounted, Present

LEMMA LeaveCounted == ASSUME NEW j \in Seats, Types, AllCounted, Leave(j) PROVE AllCounted'
<1>1. /\ conns \in [Seats -> Nat] /\ leaves \in [Seats -> Nat] /\ here \in [Seats -> BOOLEAN]
      /\ leaves' = [leaves EXCEPT ![j] = @ + 1] /\ UNCHANGED <<peers, conns>>
      /\ here[j] /\ here' = [here EXCEPT ![j] = FALSE]
    BY DEF Types, HostTypes, JoinTypes, Leave
<1>2. Total(leaves') = Total(leaves) + 1
    BY <1>1, TotalRises
<1>3. Present' = Present \ {j} /\ j \in Present
    BY <1>1 DEF Present
<1>4. Cardinality(Present') = Cardinality(Present) - 1
    BY <1>3, PresentCounts, FS_RemoveElement
<1>5. Total(conns) \in Int /\ Total(leaves) \in Int /\ Cardinality(Present) \in Nat
      /\ peers \in Int
    BY <1>1, TotalType, PresentCounts DEF AllCounted
<1>6. peers + Total(conns) - Total(leaves) = Cardinality(Present)
    BY DEF AllCounted, PeersCounted, Present
<1>7. peers' + Total(conns') - Total(leaves') = Cardinality(Present')
    BY <1>1, <1>2, <1>4, <1>5, <1>6
<1> QED BY <1>1, <1>5, <1>7 DEF AllCounted, PeersCounted, Present

LEMMA HostEventsCounted == ASSUME Types, AllCounted, HostEvents PROVE AllCounted'
<1>1. /\ conns \in [Seats -> Nat] /\ leaves \in [Seats -> Nat]
      /\ conns' = None /\ leaves' = None /\ UNCHANGED here
      /\ peers' = peers + Total(conns) - Total(leaves)
    BY DEF Types, HostTypes, HostEvents
<1>2. Total(conns) \in Int /\ Total(leaves) \in Int /\ peers \in Int
    BY <1>1, TotalType DEF AllCounted
<1>3. peers' \in Int /\ peers' = Cardinality(Present)
    BY <1>1, <1>2 DEF AllCounted, PeersCounted, Present
<1>4. Present' = Present /\ Total(conns') = 0 /\ Total(leaves') = 0
    BY <1>1, TotalOfNone DEF Present
<1>5. peers' + Total(conns') - Total(leaves') = Cardinality(Present')
    BY <1>3, <1>4
<1> QED BY <1>3, <1>5 DEF AllCounted, PeersCounted, Present

LEMMA NextCounted == Types /\ AllCounted /\ [DoorNext]_doorVars => AllCounted'
<1> SUFFICES ASSUME Types, AllCounted, [DoorNext]_doorVars PROVE AllCounted'
    OBVIOUS
<1>1. ASSUME UNCHANGED <<peers, conns, leaves, here>> PROVE AllCounted'
    BY <1>1 DEF AllCounted, PeersCounted
<1>2. HostMoves \/ HostStreams \/ HostPublish \/ UNCHANGED doorVars
        => UNCHANGED <<peers, conns, leaves, here>>
    BY DEF HostMoves, HostStreams, HostPublish, doorVars, hostVars, joinVars
<1>3. ASSUME NEW j \in Seats,
             JoinMoves(j) \/ JoinStreams(j) \/ HostApply(j) \/ JoinPublish(j) \/ JoinApply(j)
      PROVE  UNCHANGED <<peers, conns, leaves, here>>
    BY <1>3 DEF JoinMoves, JoinStreams, HostApply, JoinPublish, JoinApply, hostVars, joinVars
<1> QED BY <1>1, <1>2, <1>3, ConnectCounted, LeaveCounted, HostEventsCounted
        DEF DoorNext, World, Session, HostTick, JoinTick

(* What the host, the joins and the lanes between them hold has its type,  *)
(* for any number of joins; and with the connects and leaves the host has  *)
(* yet to drain (processNetEvents), the peers it counts are those who are  *)
(* here, so that it clears the rows when the last has gone and not before. *)
THEOREM DoorsTypeCorrect == DoorSpec => []DoorTypes
<1>1. DoorInit => Types /\ AllCounted
    BY TypesInit, CountedInit
<1>2. Types /\ AllCounted /\ [DoorNext]_doorVars => (Types /\ AllCounted)'
    BY NextTypes, NextCounted
<1>3. Types /\ AllCounted => DoorTypes
    BY DEF Types, AllCounted, DoorTypes
<1> QED BY <1>1, <1>2, <1>3, PTL DEF DoorSpec

-----------------------------------------------------------------------------
(* Sequences.  FlattenSeq joins its sequences one by one.  What it yields  *)
(* is proved by infinite descent, on the number of sequences.              *)
LEMMA Smallest ==
    ASSUME NEW S \in SUBSET Nat, S # {}
    PROVE  \E i \in S : \A k \in S : i <= k
<1> DEFINE T == {1 .. i : i \in S}
<1>1. T \subseteq FiniteSubsetsOf(Nat) /\ T # {}
    <2>1. ASSUME NEW i \in S PROVE 1 .. i \in FiniteSubsetsOf(Nat)
        <3>1. IsFiniteSet(1 .. i) /\ 1 .. i \in SUBSET Nat
            BY FS_Interval
        <3> QED BY <3>1 DEF FiniteSubsetsOf
    <2> QED BY <2>1
<1>2. PICK x \in T : \A y \in T : <<y, x>> \notin StrictSubsetOrdering(Nat)
    BY <1>1, FS_StrictSubsetOrderingWellFounded, WFMin
<1>3. PICK i \in S : x = 1 .. i
    BY <1>2
<1>4. ASSUME NEW k \in S, k < i PROVE FALSE
    <2>1. /\ 1 .. k \in SUBSET Nat /\ 1 .. i \in SUBSET Nat
          /\ 1 .. k \subseteq 1 .. i /\ 1 .. k # 1 .. i
        BY <1>4
    <2>2. <<1 .. k, x>> \in StrictSubsetOrdering(Nat)
        BY <1>3, <2>1 DEF StrictSubsetOrdering
    <2> QED BY <1>2, <2>2
<1> QED BY <1>4

Joined(s, n, g) ==
    g = [i \in 1 .. n |-> IF i = 1 THEN s[i] ELSE g[i - 1] \o s[i]]

LEMMA FlattenIsJoined ==
    ASSUME NEW s, Len(s) # 0
    PROVE  FlattenSeq(s) = (CHOOSE g : Joined(s, Len(s), g))[Len(s)]
BY DEF FlattenSeq, Joined

LEMMA JoinedExists ==
    ASSUME NEW s, NEW n \in Nat PROVE \E g : Joined(s, n, g)
<1> DEFINE C == {m \in Nat : ~\E g : Joined(s, m, g)}
<1>1. SUFFICES ASSUME C # {} PROVE FALSE
    OBVIOUS
<1>2. PICK m \in C : \A k \in C : m <= k
    <2> HIDE DEF C
    <2>1. C \in SUBSET Nat
        BY DEF C
    <2> QED BY <1>1, <2>1, Smallest
<1>3. CASE m = 0
    <2>1. Joined(s, 0, <<>>)
        BY DEF Joined
    <2> QED BY <1>2, <1>3, <2>1
<1>4. CASE m # 0
    <2>1. PICK g : Joined(s, m - 1, g)
        <3>1. m - 1 \in Nat /\ ~(m <= m - 1)
            BY <1>4
        <3> QED BY <1>2, <3>1
    <2> DEFINE h == [i \in 1 .. m |-> IF i < m THEN g[i]
                                      ELSE IF i = 1 THEN s[i] ELSE g[i - 1] \o s[i]]
    <2>2. ASSUME NEW i \in 1 .. m
          PROVE  h[i] = IF i = 1 THEN s[i] ELSE h[i - 1] \o s[i]
        <3>1. CASE i < m
            <4>1. i \in 1 .. m - 1
                BY <3>1
            <4>2. h[i] = g[i] /\ (i # 1 => h[i - 1] = g[i - 1])
                BY <3>1
            <4>3. g[i] = IF i = 1 THEN s[i] ELSE g[i - 1] \o s[i]
                BY <2>1, <4>1 DEF Joined
            <4> QED BY <4>2, <4>3
        <3>2. CASE ~(i < m)
            <4>1. h[i] = IF i = 1 THEN s[i] ELSE g[i - 1] \o s[i]
                BY <3>2
            <4>2. i # 1 => h[i - 1] = g[i - 1]
                <5>1. i # 1 => i - 1 \in 1 .. m /\ i - 1 < m
                    OBVIOUS
                <5> QED BY <5>1
            <4> QED BY <4>1, <4>2
        <3> QED BY <3>1, <3>2
    <2>3. Joined(s, m, h)
        <3>1. h = [i \in 1 .. m |-> h[i]]
            OBVIOUS
        <3> HIDE DEF h
        <3> QED BY <2>2, <3>1 DEF Joined
    <2> QED BY <1>2, <2>3
<1> QED BY <1>3, <1>4

Parts(S, s, n, t) ==
    /\ t \in Seq(S)
    /\ \A k \in DOMAIN t : \E i \in 1 .. n : \E l \in DOMAIN s[i] : t[k] = s[i][l]
    /\ \A i \in 1 .. n : \A l \in DOMAIN s[i] : \E k \in DOMAIN t : t[k] = s[i][l]

LEMMA PartsJoin ==
    ASSUME NEW S, NEW s, NEW n \in Nat \ {0}, NEW t, Parts(S, s, n, t), s[n + 1] \in Seq(S)
    PROVE  Parts(S, s, n + 1, t \o s[n + 1])
<1> DEFINE a == s[n + 1]
           u == t \o a
<1>1. /\ t \in Seq(S) /\ a \in Seq(S) /\ u \in Seq(S) /\ Len(u) = Len(t) + Len(a)
      /\ \A k \in 1 .. Len(t) + Len(a) : u[k] = IF k <= Len(t) THEN t[k] ELSE a[k - Len(t)]
    <2>1. t \in Seq(S) /\ a \in Seq(S)
        BY DEF Parts
    <2> HIDE DEF a
    <2> QED BY <2>1, ConcatProperties, Zenon
<1>2. /\ DOMAIN t = 1 .. Len(t) /\ DOMAIN a = 1 .. Len(a) /\ Len(t) \in Nat /\ Len(a) \in Nat
      /\ DOMAIN u = 1 .. Len(t) + Len(a)
    BY <1>1
<1> HIDE DEF u
<1>3. ASSUME NEW k \in DOMAIN u
      PROVE  \E i \in 1 .. n + 1 : \E l \in DOMAIN s[i] : u[k] = s[i][l]
    <2>1. CASE k <= Len(t)
        <3>1. k \in DOMAIN t /\ u[k] = t[k]
            BY <1>1, <1>2, <2>1
        <3>2. PICK i \in 1 .. n : \E l \in DOMAIN s[i] : t[k] = s[i][l]
            BY <3>1 DEF Parts
        <3>3. i \in 1 .. n + 1
            OBVIOUS
        <3> QED BY <3>1, <3>2, <3>3
    <2>2. CASE ~(k <= Len(t))
        <3>1. k - Len(t) \in DOMAIN a /\ u[k] = a[k - Len(t)]
            BY <1>1, <1>2, <2>2
        <3>2. n + 1 \in 1 .. n + 1
            OBVIOUS
        <3> QED BY <3>1, <3>2
    <2> QED BY <2>1, <2>2
<1>4. ASSUME NEW i \in 1 .. n + 1, NEW l \in DOMAIN s[i]
      PROVE  \E k \in DOMAIN u : u[k] = s[i][l]
    <2>1. CASE i = n + 1
        <3>1. l \in DOMAIN a
            BY <2>1
        <3>2. Len(t) + l \in DOMAIN u /\ u[Len(t) + l] = a[l]
            <4>1. l \in 1 .. Len(a) /\ Len(t) + l \in 1 .. Len(t) + Len(a)
                  /\ ~(Len(t) + l <= Len(t)) /\ (Len(t) + l) - Len(t) = l
                BY <1>2, <3>1
            <4> QED BY <1>1, <1>2, <4>1
        <3> QED BY <2>1, <3>2
    <2>2. CASE i # n + 1
        <3>1. i \in 1 .. n
            BY <2>2
        <3>2. PICK k \in DOMAIN t : t[k] = s[i][l]
            BY <3>1 DEF Parts
        <3>3. k \in DOMAIN u /\ u[k] = t[k]
            BY <1>1, <1>2
        <3> QED BY <3>2, <3>3
    <2> QED BY <2>1, <2>2
<1> QED BY <1>1, <1>3, <1>4 DEF Parts, u

LEMMA FlattenParts ==
    ASSUME NEW S, NEW s \in Seq(Seq(S)), s # <<>>
    PROVE  Parts(S, s, Len(s), FlattenSeq(s))
<1> DEFINE n == Len(s)
<1>1. n \in Nat /\ n # 0 /\ \A i \in 1 .. n : s[i] \in Seq(S)
    OBVIOUS
<1>2. PICK g : Joined(s, n, g) /\ FlattenSeq(s) = g[n]
    BY <1>1, FlattenIsJoined, JoinedExists
<1> DEFINE C == {m \in Nat : m \in 1 .. n /\ ~Parts(S, s, m, g[m])}
<1> HIDE DEF n
<1>3. SUFFICES ASSUME C # {} PROVE FALSE
    <2>1. n \in 1 .. n
        BY <1>1
    <2> QED BY <1>1, <1>2, <2>1 DEF n
<1>4. PICK m \in C : \A k \in C : m <= k
    <2> HIDE DEF C
    <2>1. C \in SUBSET Nat
        BY DEF C
    <2> QED BY <1>3, <2>1, Smallest
<1>5. m \in 1 .. n /\ g[m] = IF m = 1 THEN s[m] ELSE g[m - 1] \o s[m]
    BY <1>2, <1>4 DEF Joined
<1>6. CASE m = 1
    <2>1. g[m] = s[1] /\ s[1] \in Seq(S)
        BY <1>1, <1>5, <1>6
    <2>2. \A i \in 1 .. 1 : i = 1
        OBVIOUS
    <2>3. Parts(S, s, 1, s[1])
        BY <2>1, <2>2 DEF Parts
    <2> QED BY <1>4, <1>6, <2>1, <2>3
<1>7. CASE m # 1
    <2>1. m - 1 \in Nat \ {0} /\ m - 1 \in 1 .. n /\ ~(m <= m - 1) /\ (m - 1) + 1 = m
        BY <1>1, <1>5, <1>7
    <2>2. Parts(S, s, m - 1, g[m - 1])
        BY <1>4, <2>1
    <2>3. Parts(S, s, m, g[m - 1] \o s[m])
        BY <1>1, <1>5, <2>1, <2>2, PartsJoin
    <2> QED BY <1>4, <1>5, <1>7, <2>3
<1> QED BY <1>6, <1>7

-----------------------------------------------------------------------------
(* Types.                                                                  *)
BedRows == [Regions -> SUBSET Beds]
HostStates ==
    [load : 1 .. MaxLoads, live : BOOLEAN, scanned : BOOLEAN, registry : BOOLEAN,
     census : BOOLEAN, loaded : SUBSET Regions, complete : SUBSET Regions,
     epoch : [Regions -> Nat], objects : BedRows,
     requested : [Joins -> SUBSET Regions], acked : [Joins -> [Regions -> Nat]],
     committed : SUBSET Joins]
Snapshots == [epoch : Nat, whole : BOOLEAN, acked : BOOLEAN, objects : SUBSET Beds]
JoinStates ==
    [load : 0 .. MaxLoads, live : BOOLEAN, scanned : BOOLEAN, registry : BOOLEAN,
     census : BOOLEAN, loaded : SUBSET Regions, complete : SUBSET Regions,
     epoch : [Regions -> Nat], objects : BedRows, snapshot : [Regions -> Snapshots],
     requested : SUBSET Regions, reconciled : SUBSET Regions, committed : BOOLEAN]

HostOk(h) ==
    /\ h \in HostStates
    /\ \A j \in Joins, r \in Regions : h.acked[j][r] <= h.epoch[r]
JoinOk(x) ==
    x \in JoinStates /\ x.reconciled \subseteq x.complete /\ (x.live => x.load # 0)

EngineTypes ==
    /\ near \in [Games -> SUBSET Regions] /\ native \in [Games -> BedRows]
    /\ upsets \in 0 .. MaxUpsets
PlayerTypes ==
    /\ HostOk(host) /\ join \in [Joins -> JoinStates]
    /\ \A j \in Joins : JoinOk(join[j]) /\ join[j].load <= host.load
LaneTypes == up \in [Joins -> Seq(Packets)] /\ down \in [Joins -> Seq(Packets)]
ScopeTypes == EngineTypes /\ PlayerTypes /\ LaneTypes

LEMMA RegionsFinite ==
    /\ LastRegion \in Nat /\ LastRegion # 0 /\ IsFiniteSet(Regions)
    /\ \A S \in SUBSET Regions : IsFiniteSet(S) /\ Cardinality(S) \in Nat
<1>1. LastRegion \in Nat /\ LastRegion # 0
    BY ScopeAssumption
<1>2. IsFiniteSet(Regions)
    BY <1>1, FS_Interval DEF Regions
<1> QED BY <1>1, <1>2, FS_Subset, FS_CardinalityType

LEMMA PartsSuffice == ScopeTypes => TypeOK
<1> SUFFICES ASSUME ScopeTypes PROVE TypeOK
    OBVIOUS
<1>1. /\ near \in [Games -> SUBSET Regions] /\ native \in [Games -> BedRows]
      /\ upsets \in 0 .. MaxUpsets
    BY DEF ScopeTypes, EngineTypes
<1>2. /\ host.load \in 1 .. MaxLoads /\ host.complete \subseteq Regions
      /\ host.loaded \subseteq Regions /\ host.committed \subseteq Joins
    BY DEF ScopeTypes, PlayerTypes, HostOk, HostStates
<1>3. ASSUME NEW j \in Joins
      PROVE  /\ host.requested[j] \subseteq Regions
             /\ \A r \in Regions : host.acked[j][r] \in 0 .. host.epoch[r]
             /\ join[j].load \in 0 .. host.load
             /\ join[j].reconciled \subseteq join[j].complete
             /\ \A i \in 1 .. Len(up[j]) : up[j][i] \in Packets
             /\ \A i \in 1 .. Len(down[j]) : down[j][i] \in Packets
    <2>1. /\ host.requested[j] \subseteq Regions
          /\ \A r \in Regions : host.acked[j][r] \in Nat /\ host.epoch[r] \in Nat
          /\ \A r \in Regions : host.acked[j][r] <= host.epoch[r]
        BY DEF ScopeTypes, PlayerTypes, HostOk, HostStates
    <2>2. /\ join[j].load \in Nat /\ join[j].load <= host.load
          /\ join[j].reconciled \subseteq join[j].complete
        BY DEF ScopeTypes, PlayerTypes, JoinOk, JoinStates
    <2>3. up[j] \in Seq(Packets) /\ down[j] \in Seq(Packets)
        BY DEF ScopeTypes, LaneTypes
    <2> QED BY <1>2, <2>1, <2>2, <2>3
<1> QED BY <1>1, <1>2, <1>3 DEF TypeOK, BedRows

LEMMA FreshHostOk ==
    ASSUME NEW load \in 1 .. MaxLoads, NEW live \in BOOLEAN
    PROVE  HostOk(FreshHost(load, live))
<1> DEFINE h == FreshHost(load, live)
<1>1. h \in HostStates
    BY DEF FreshHost, HostStates, BedRows, Zeroes, NoBeds
<1>2. \A j \in Joins, r \in Regions : h.acked[j][r] = 0 /\ h.epoch[r] = 0
    BY DEF FreshHost, Zeroes
<1> QED BY <1>1, <1>2 DEF HostOk

LEMMA FreshJoinOk ==
    ASSUME NEW load \in 0 .. MaxLoads, NEW live \in BOOLEAN, live => load # 0
    PROVE  JoinOk(FreshJoin(load, live)) /\ FreshJoin(load, live).load = load
BY DEF FreshJoin, JoinOk, JoinStates, BedRows, Zeroes, NoBeds, NoSnapshot, Snapshots

LEMMA ScopeInitTypes == Init => ScopeTypes
<1> SUFFICES ASSUME Init PROVE ScopeTypes
    OBVIOUS
<1>1. EngineTypes
    BY ScopeAssumption DEF Init, EngineTypes, BedRows, NoBeds
<1>2. HostOk(host) /\ host.load = 1
    <2>1. 1 \in 1 .. MaxLoads
        BY ScopeAssumption
    <2> QED BY <2>1, FreshHostOk DEF Init, FreshHost
<1>3. \A j \in Joins : join[j] = FreshJoin(0, FALSE)
    BY DEF Init
<1>4. JoinOk(FreshJoin(0, FALSE)) /\ FreshJoin(0, FALSE).load = 0
    <2>1. 0 \in 0 .. MaxLoads
        BY ScopeAssumption
    <2> QED BY <2>1, FreshJoinOk
<1>5. join \in [Joins -> JoinStates]
    BY <1>4 DEF Init, JoinOk
<1>6. PlayerTypes
    <2>1. \A j \in Joins : JoinOk(join[j]) /\ join[j].load <= host.load
        <3> SUFFICES ASSUME NEW j \in Joins PROVE JoinOk(join[j]) /\ join[j].load <= host.load
            OBVIOUS
        <3>1. join[j] = FreshJoin(0, FALSE)
            BY <1>3
        <3>2. JoinOk(join[j]) /\ join[j].load = 0
            BY <1>4, <3>1, Zenon
        <3> QED BY <1>2, <3>2
    <2> QED BY <1>2, <1>5, <2>1 DEF PlayerTypes
<1>7. LaneTypes
    BY DEF Init, LaneTypes
<1> QED BY <1>1, <1>6, <1>7 DEF ScopeTypes

(* What SendSnapshots adds to every lane.                                  *)
SnapshotBlock(h, rs) ==
    FlattenSeq([r \in Regions |-> IF r \in rs THEN SnapshotOf(h, r) ELSE <<>>])

LEMMA BlockShape ==
    ASSUME NEW h, HostOk(h), NEW rs \in SUBSET Regions
    PROVE  /\ SnapshotBlock(h, rs) \in Seq(Packets)
           /\ \A k \in DOMAIN SnapshotBlock(h, rs) : \E r \in rs :
                 \/ SnapshotBlock(h, rs)[k] = Packet("BEGIN", h.load, r, h.epoch[r], {})
                 \/ SnapshotBlock(h, rs)[k]
                       = Packet("END", h.load, r, h.epoch[r], h.objects[r])
<1> DEFINE s == [r \in Regions |-> IF r \in rs THEN SnapshotOf(h, r) ELSE <<>>]
<1>1. ASSUME NEW r \in Regions
      PROVE  /\ Packet("BEGIN", h.load, r, h.epoch[r], {}) \in Packets
             /\ Packet("END", h.load, r, h.epoch[r], h.objects[r]) \in Packets
    <2>1. /\ h.load \in 1 .. MaxLoads /\ h.epoch[r] \in Nat /\ h.objects[r] \in SUBSET Beds
          /\ r \in 0 .. LastRegion
        BY RegionsFinite DEF HostOk, HostStates, BedRows, Regions
    <2> QED BY <2>1 DEF Packet, Packets
<1>2. \A r \in Regions : SnapshotOf(h, r) \in Seq(Packets)
    BY <1>1 DEF SnapshotOf
<1>3. s \in Seq(Seq(Packets)) /\ s # <<>> /\ DOMAIN s = Regions /\ Len(s) = LastRegion
    BY <1>2, RegionsFinite DEF Regions
<1>4. /\ FlattenSeq(s) \in Seq(Packets)
      /\ \A k \in DOMAIN FlattenSeq(s) : \E i \in 1 .. Len(s) : \E l \in DOMAIN s[i] :
            FlattenSeq(s)[k] = s[i][l]
    <2> HIDE DEF s
    <2> QED BY <1>3, FlattenParts DEF Parts
<1>5. ASSUME NEW k \in DOMAIN FlattenSeq(s)
      PROVE  \E r \in rs : \/ FlattenSeq(s)[k] = Packet("BEGIN", h.load, r, h.epoch[r], {})
                           \/ FlattenSeq(s)[k]
                                 = Packet("END", h.load, r, h.epoch[r], h.objects[r])
    <2>1. PICK i \in Regions : \E l \in DOMAIN s[i] : FlattenSeq(s)[k] = s[i][l]
        BY <1>3, <1>4 DEF Regions
    <2>2. PICK l \in DOMAIN s[i] : FlattenSeq(s)[k] = s[i][l]
        BY <2>1
    <2> HIDE DEF s
    <2>3. s[i] = IF i \in rs THEN SnapshotOf(h, i) ELSE <<>>
        BY DEF s
    <2>4. i \in rs
        BY <2>2, <2>3
    <2>5. l \in {1, 2}
        BY <2>2, <2>3, <2>4 DEF SnapshotOf
    <2>6. \/ s[i][l] = Packet("BEGIN", h.load, i, h.epoch[i], {})
          \/ s[i][l] = Packet("END", h.load, i, h.epoch[i], h.objects[i])
        BY <2>3, <2>4, <2>5 DEF SnapshotOf
    <2> QED BY <2>2, <2>4, <2>6
<1> QED BY <1>4, <1>5 DEF SnapshotBlock

LEMMA SnapshotsSent ==
    ASSUME LaneTypes, NEW h, HostOk(h), NEW rs \in SUBSET Regions, SendSnapshots(h, rs)
    PROVE  /\ down' \in [Joins -> Seq(Packets)]
           /\ \A j \in Joins : down'[j] = down[j] \o SnapshotBlock(h, rs)
<1>1. down' = [j \in Joins |-> down[j] \o SnapshotBlock(h, rs)]
    BY DEF SendSnapshots, SnapshotBlock
<1>2. SnapshotBlock(h, rs) \in Seq(Packets)
    BY BlockShape
<1>3. \A j \in Joins : down[j] \o SnapshotBlock(h, rs) \in Seq(Packets)
    BY <1>2, ConcatProperties DEF LaneTypes
<1> QED BY <1>1, <1>3

-----------------------------------------------------------------------------
(* What a step makes of the host.                                          *)

(* A scan: a catalog that changed has a new epoch that nobody acknowledged. *)
Catalogued(g, h) ==
    /\ h.load = g.load /\ h.live = g.live /\ h.requested = g.requested
    /\ h.committed = g.committed
    /\ \A r \in h.complete : h.epoch[r] # 0
    /\ \A r \in Regions :
         \/ /\ h.epoch[r] = g.epoch[r] /\ h.objects[r] = g.objects[r]
            /\ \A j \in Joins : h.acked[j][r] = g.acked[j][r]
         \/ h.epoch[r] = g.epoch[r] + 1 /\ \A j \in Joins : h.acked[j][r] = 0

LEMMA CensusShape ==
    ASSUME EngineTypes, HostOk(host), NEW registry \in BOOLEAN,
           NEW missed \in Misses(HostGame)
    PROVE  /\ HostOk(HostCensus(registry, missed))
           /\ Catalogued(host, HostCensus(registry, missed))
<1> DEFINE h == HostCensus(registry, missed)
           complete == near[HostGame] \ missed
           loaded == Seen(HostGame, registry, missed)
           changed  == {r \in complete : \/ host.epoch[r] = 0
                                         \/ host.objects[r] # native[HostGame][r]}
           epoch == [r \in Regions |-> IF r \in changed THEN host.epoch[r] + 1
                                                        ELSE host.epoch[r]]
           objects == [r \in Regions |-> IF r \in changed THEN native[HostGame][r]
                                                          ELSE host.objects[r]]
           acked == [j \in Joins |-> [r \in Regions |->
                        IF r \in changed THEN 0 ELSE host.acked[j][r]]]
<1>1. /\ near[HostGame] \subseteq Regions
      /\ \A r \in Regions : native[HostGame][r] \in SUBSET Beds
    BY DEF EngineTypes, Games, BedRows
<1>2. host \in HostStates
    BY DEF HostOk
<1>3. h = [host EXCEPT !.scanned = TRUE, !.registry = registry, !.census = registry,
                       !.loaded = loaded, !.complete = complete, !.epoch = epoch,
                       !.objects = objects, !.acked = acked]
    BY <1>2 DEF HostCensus, HostStates
<1>4. complete \in SUBSET Regions /\ loaded \in SUBSET Regions
    BY <1>1 DEF Seen
<1>5. /\ epoch \in [Regions -> Nat] /\ objects \in BedRows
      /\ acked \in [Joins -> [Regions -> Nat]]
    <2>1. \A r \in Regions : /\ host.epoch[r] \in Nat /\ host.objects[r] \in SUBSET Beds
                             /\ \A j \in Joins : host.acked[j][r] \in Nat
        BY <1>2 DEF HostStates, BedRows
    <2> QED BY <1>1, <2>1 DEF BedRows
<1>6. ASSUME NEW r \in Regions
      PROVE  \/ /\ epoch[r] = host.epoch[r] /\ objects[r] = host.objects[r]
                /\ \A j \in Joins : acked[j][r] = host.acked[j][r]
             \/ epoch[r] = host.epoch[r] + 1 /\ \A j \in Joins : acked[j][r] = 0
    OBVIOUS
<1>7. ASSUME NEW r \in complete PROVE epoch[r] # 0
    <2>1. r \in Regions /\ host.epoch[r] \in Nat
        BY <1>2, <1>4 DEF HostStates
    <2>2. r \notin changed => host.epoch[r] # 0
        OBVIOUS
    <2> QED BY <2>1, <2>2
<1>8. ASSUME NEW j \in Joins, NEW r \in Regions PROVE acked[j][r] <= epoch[r]
    <2>1. host.acked[j][r] <= host.epoch[r] /\ host.epoch[r] \in Nat
        BY <1>2 DEF HostOk, HostStates
    <2> HIDE DEF changed
    <2> QED BY <2>1
<1> HIDE DEF complete, loaded, epoch, objects, acked, h
<1>9. /\ h \in HostStates /\ h.acked = acked /\ h.epoch = epoch /\ h.objects = objects
      /\ h.complete = complete /\ h.load = host.load /\ h.live = host.live
      /\ h.requested = host.requested /\ h.committed = host.committed
    BY <1>2, <1>3, <1>4, <1>5 DEF HostStates
<1> QED BY <1>6, <1>7, <1>8, <1>9 DEF HostOk, Catalogued, h

(* The engines.                                                            *)
LEMMA BedsPut ==
    ASSUME EngineTypes, NEW p \in Games, NEW r \in Regions, NEW beds \in SUBSET Beds,
           native' = [native EXCEPT ![p][r] = beds]
    PROVE  native' \in [Games -> BedRows]
<1>1. native[p] \in BedRows /\ [native[p] EXCEPT ![r] = beds] \in BedRows
    BY DEF EngineTypes, BedRows
<1>2. native' = [native EXCEPT ![p] = [native[p] EXCEPT ![r] = beds]]
    OBVIOUS
<1> QED BY <1>1, <1>2 DEF EngineTypes

(* An engine changes: no packet moves, and at most a census is void.       *)
EngineMoved ==
    /\ EngineTypes' /\ UNCHANGED <<up, down>>
    /\ host' = host \/ host' = [host EXCEPT !.census = FALSE]
    /\ \A j \in Joins : join'[j] = join[j] \/ join'[j] = [join[j] EXCEPT !.census = FALSE]
    /\ join' \in [Joins -> JoinStates]

LEMMA RevisionMoved ==
    ASSUME PlayerTypes, NEW p \in Games, RevisionMoves(p)
    PROVE  /\ host' = host \/ host' = [host EXCEPT !.census = FALSE]
           /\ \A j \in Joins : \/ join'[j] = join[j]
                               \/ join'[j] = [join[j] EXCEPT !.census = FALSE]
           /\ join' \in [Joins -> JoinStates]
<1>1. CASE p = HostGame
    BY <1>1 DEF RevisionMoves, PlayerTypes
<1>2. CASE p # HostGame
    <2>1. p \in Joins /\ join[p] \in JoinStates
        BY <1>2 DEF Games, PlayerTypes
    <2>2. [join[p] EXCEPT !.census = FALSE] \in JoinStates
        BY <2>1 DEF JoinStates
    <2>3. join' = [join EXCEPT ![p] = [join[p] EXCEPT !.census = FALSE]] /\ host' = host
        BY <1>2 DEF RevisionMoves
    <2> QED BY <2>1, <2>2, <2>3 DEF PlayerTypes
<1> QED BY <1>1, <1>2

LEMMA EnginesMove ==
    ASSUME ScopeTypes, Engines PROVE EngineMoved
<1>1. EngineTypes /\ PlayerTypes
    BY DEF ScopeTypes
<1>2. PICK p \in Games, r \in Regions :
          \/ \E b \in Beds : BedBorn(p, r, b) \/ BedGone(p, r, b)
          \/ \E beds \in SUBSET Beds : StreamedIn(p, r, beds)
          \/ StreamedOut(p, r)
    BY DEF Engines
<1>3. near[p] \in SUBSET Regions /\ native[p][r] \in SUBSET Beds
    BY <1>1 DEF EngineTypes, BedRows
<1>4. ASSUME Changing(p) PROVE upsets' \in 0 .. MaxUpsets
    BY <1>1, <1>4, ScopeAssumption DEF Changing, EngineTypes
<1>5. ASSUME NEW b \in Beds, BedBorn(p, r, b) PROVE EngineMoved
    <2>1. EngineTypes'
        <3>1. native' \in [Games -> BedRows]
            <4>1. native' = [native EXCEPT ![p][r] = native[p][r] \cup {b}]
                BY <1>5 DEF BedBorn
            <4>2. native[p][r] \cup {b} \in SUBSET Beds
                BY <1>3
            <4> HIDE DEF EngineTypes
            <4> QED BY <1>1, <4>1, <4>2, BedsPut
        <3> QED BY <1>1, <1>4, <1>5, <3>1 DEF BedBorn, EngineTypes
    <2> QED BY <1>1, <1>5, <2>1, RevisionMoved DEF BedBorn, EngineMoved
<1>6. ASSUME NEW b \in Beds, BedGone(p, r, b) PROVE EngineMoved
    <2>1. EngineTypes'
        <3>1. native' \in [Games -> BedRows]
            <4>1. native' = [native EXCEPT ![p][r] = native[p][r] \ {b}]
                BY <1>6 DEF BedGone
            <4>2. native[p][r] \ {b} \in SUBSET Beds
                BY <1>3
            <4> HIDE DEF EngineTypes
            <4> QED BY <1>1, <4>1, <4>2, BedsPut
        <3> QED BY <1>1, <1>4, <1>6, <3>1 DEF BedGone, EngineTypes
    <2> QED BY <1>1, <1>6, <2>1 DEF BedGone, EngineMoved, PlayerTypes
<1>7. ASSUME NEW beds \in SUBSET Beds, StreamedIn(p, r, beds) PROVE EngineMoved
    <2>1. near' \in [Games -> SUBSET Regions]
        BY <1>1, <1>3, <1>7 DEF StreamedIn, EngineTypes
    <2>2. EngineTypes'
        BY <1>1, <1>3, <1>4, <1>7, <2>1, BedsPut DEF StreamedIn, EngineTypes
    <2> QED BY <1>1, <1>7, <2>2, RevisionMoved DEF StreamedIn, EngineMoved, PlayerTypes
<1>8. ASSUME StreamedOut(p, r) PROVE EngineMoved
    <2>1. near' \in [Games -> SUBSET Regions]
        BY <1>1, <1>3, <1>8 DEF StreamedOut, EngineTypes
    <2>2. EngineTypes'
        <3>1. native' \in [Games -> BedRows]
            <4>1. native' = [native EXCEPT ![p][r] = {}] /\ {} \in SUBSET Beds
                BY <1>8 DEF StreamedOut
            <4> HIDE DEF EngineTypes
            <4> QED BY <1>1, <4>1, BedsPut
        <3> QED BY <1>1, <1>4, <1>8, <2>1, <3>1 DEF StreamedOut, EngineTypes
    <2> QED BY <1>1, <1>8, <2>2 DEF StreamedOut, EngineMoved, PlayerTypes
<1> QED BY <1>2, <1>5, <1>6, <1>7, <1>8

LEMMA WorldUpTypes ==
    ASSUME EngineTypes, NEW p \in Games, WorldUp(p), UNCHANGED upsets PROVE EngineTypes'
<1>1. PICK beds \in [Regions -> SUBSET Beds] :
          near' = [near EXCEPT ![p] = FirstRegions[p]] /\ native' = [native EXCEPT ![p] = beds]
    BY DEF WorldUp
<1>2. FirstRegions[p] \in SUBSET Regions
    BY ScopeAssumption DEF Games, HostGame, Regions
<1> QED BY <1>1, <1>2 DEF EngineTypes, BedRows

LEMMA WorldGoneTypes ==
    ASSUME EngineTypes, NEW p \in Games, UNCHANGED upsets,
           near' = [near EXCEPT ![p] = {}], native' = [native EXCEPT ![p] = NoBeds]
    PROVE  EngineTypes'
BY DEF EngineTypes, BedRows, NoBeds

-----------------------------------------------------------------------------
(* What a scan of a join makes of it: what was reconciled is the snapshot, *)
(* a region out of sight loses its own.                                    *)
Rescanned(x, y) ==
    /\ JoinOk(y) /\ y.load = x.load /\ y.live = x.live
    /\ \A r \in Regions :
         /\ \/ /\ y.snapshot[r].epoch = x.snapshot[r].epoch
               /\ y.snapshot[r].whole = x.snapshot[r].whole
               /\ y.snapshot[r].objects = x.snapshot[r].objects
            \/ y.snapshot[r].epoch = 0 /\ ~y.snapshot[r].whole
         /\ \/ y.epoch[r] = x.epoch[r] /\ y.objects[r] = x.objects[r]
            \/ /\ y.snapshot[r].whole /\ y.epoch[r] = y.snapshot[r].epoch
               /\ y.objects[r] = y.snapshot[r].objects
    /\ y.committed => y.requested = y.loaded

(* What it sends: retirements, requests, ACKs and last the commit.         *)
Told(m, load, y, gone, asked) ==
    /\ m.load = load
    /\ \/ m.op = "RETIRE" /\ m.region \in gone
       \/ m.op = "REQUEST" /\ m.region \in asked
       \/ m.op = "ACK" /\ m.region \in Regions /\ m.epoch = y.epoch[m.region]
       \/ m.op = "COMMIT" /\ m.epoch = Cardinality(y.requested)
Says(m, op, load, r) == m.op = op /\ m.load = load /\ m.region = r
Sent(x, y, gone, asked, sent) ==
    /\ sent \in Seq(Packets) /\ gone \in SUBSET Regions /\ asked \in SUBSET Regions
    /\ gone \cap asked = {} /\ y.requested = (x.requested \ gone) \cup asked
    /\ \A k \in DOMAIN sent : /\ Told(sent[k], x.load, y, gone, asked)
                              /\ sent[k].op = "COMMIT" => k = Len(sent)
    /\ \A r \in gone : \E k \in DOMAIN sent : Says(sent[k], "RETIRE", x.load, r)
    /\ \A r \in asked : \E k \in DOMAIN sent : Says(sent[k], "REQUEST", x.load, r)

LEMMA CensusOfJoin ==
    ASSUME EngineTypes, PlayerTypes, NEW j \in Joins, NEW registry \in BOOLEAN,
           NEW missed \in Misses(j), NEW J, J = JoinCensus(j, registry, missed)
    PROVE  /\ JoinOk(J) /\ J.load = join[j].load /\ J.live = join[j].live
           /\ J.requested = join[j].requested /\ J.epoch = join[j].epoch
           /\ J.objects = join[j].objects /\ J.complete = near[j] \ missed
           /\ J.loaded = Seen(j, registry, missed)
           /\ ~registry => J.reconciled = {}
           /\ J.committed => (Regions \ J.complete) \cap (J.loaded \cup J.requested) = {}
                             \/ ~registry
           /\ \A r \in Regions :
                 J.snapshot[r] = join[j].snapshot[r] \/ J.snapshot[r] = NoSnapshot
<1> DEFINE x == join[j]
           seen == Seen(j, registry, missed)
           complete == near[j] \ missed
           lost == IF registry THEN Regions \ complete ELSE Regions
           committed == x.committed /\ x.census /\ lost \cap (seen \cup x.requested) = {}
           reconciled == x.reconciled \ lost
           snapshot == [r \in Regions |-> IF r \in seen THEN x.snapshot[r] ELSE NoSnapshot]
<1>1. x \in JoinStates /\ JoinOk(x) /\ near[j] \subseteq Regions
    BY DEF EngineTypes, PlayerTypes, Games
<1>2. J = [x EXCEPT !.scanned = TRUE, !.registry = registry, !.loaded = seen,
                    !.complete = complete, !.committed = committed,
                    !.reconciled = reconciled, !.snapshot = snapshot]
    BY <1>1 DEF JoinCensus, StillReconciled, JoinStates
<1>3. seen \in SUBSET Regions /\ complete \in SUBSET Regions /\ committed \in BOOLEAN
    BY <1>1 DEF Seen, JoinStates
<1>4. /\ reconciled \in SUBSET Regions /\ reconciled \subseteq complete
      /\ ~registry => reconciled = {}
    BY <1>1 DEF JoinStates
<1>5. snapshot \in [Regions -> Snapshots]
    BY <1>1 DEF JoinStates, NoSnapshot, Snapshots
<1>6. \A r \in Regions : snapshot[r] = x.snapshot[r] \/ snapshot[r] = NoSnapshot
    OBVIOUS
<1>7. committed => (Regions \ complete) \cap (seen \cup x.requested) = {} \/ ~registry
    OBVIOUS
<1> HIDE DEF seen, complete, committed, reconciled, snapshot, x
<1>8. /\ J \in JoinStates /\ J.load = x.load /\ J.live = x.live
      /\ J.requested = x.requested /\ J.epoch = x.epoch /\ J.objects = x.objects
      /\ J.complete = complete /\ J.loaded = seen /\ J.reconciled = reconciled
      /\ J.committed = committed /\ J.snapshot = snapshot
    <2>1. J \in JoinStates
        BY <1>1, <1>2, <1>3, <1>4, <1>5, ZenonT(60) DEF JoinStates
    <2>2. /\ J.load = x.load /\ J.live = x.live
          /\ J.requested = x.requested /\ J.epoch = x.epoch /\ J.objects = x.objects
        BY <1>1, <1>2 DEF JoinStates
    <2>3. /\ J.complete = complete /\ J.loaded = seen /\ J.reconciled = reconciled
          /\ J.committed = committed /\ J.snapshot = snapshot
        BY <1>1, <1>2 DEF JoinStates
    <2> QED BY <2>1, <2>2, <2>3
<1>9. JoinOk(J)
    BY <1>1, <1>4, <1>8 DEF JoinOk
<1> QED BY <1>4, <1>6, <1>7, <1>8, <1>9 DEF x, seen, complete

(* What a sequence of packets holds.                                       *)
LEMMA SetOfConcat ==
    ASSUME NEW S, NEW a \in Seq(S), NEW b \in Seq(S)
    PROVE  a \o b \in Seq(S) /\ ToSet(a \o b) = ToSet(a) \cup ToSet(b)
<1> DEFINE u == a \o b
<1>1. /\ u \in Seq(S) /\ Len(u) = Len(a) + Len(b)
      /\ \A k \in 1 .. Len(a) + Len(b) : u[k] = IF k <= Len(a) THEN a[k] ELSE b[k - Len(a)]
    BY ConcatProperties, Zenon
<1>2. /\ DOMAIN a = 1 .. Len(a) /\ DOMAIN b = 1 .. Len(b) /\ Len(a) \in Nat /\ Len(b) \in Nat
      /\ DOMAIN u = 1 .. Len(a) + Len(b)
    BY <1>1
<1> HIDE DEF u
<1>3. ASSUME NEW e \in ToSet(u) PROVE e \in ToSet(a) \cup ToSet(b)
    <2>1. PICK k \in DOMAIN u : e = u[k]
        BY <1>3 DEF ToSet
    <2>2. CASE k <= Len(a)
        <3>1. k \in DOMAIN a /\ e = a[k]
            BY <1>1, <1>2, <2>1, <2>2
        <3> QED BY <3>1 DEF ToSet
    <2>3. CASE ~(k <= Len(a))
        <3>1. k - Len(a) \in DOMAIN b /\ e = b[k - Len(a)]
            BY <1>1, <1>2, <2>1, <2>3
        <3> QED BY <3>1 DEF ToSet
    <2> QED BY <2>2, <2>3
<1>4. ASSUME NEW e \in ToSet(a) PROVE e \in ToSet(u)
    <2>1. PICK k \in DOMAIN a : e = a[k]
        BY <1>4 DEF ToSet
    <2>2. k \in DOMAIN u /\ u[k] = e
        BY <1>1, <1>2, <2>1
    <2> QED BY <2>2 DEF ToSet
<1>5. ASSUME NEW e \in ToSet(b) PROVE e \in ToSet(u)
    <2>1. PICK k \in DOMAIN b : e = b[k]
        BY <1>5 DEF ToSet
    <2>2. Len(a) + k \in DOMAIN u /\ u[Len(a) + k] = e
        <3>1. k \in 1 .. Len(b) /\ Len(a) + k \in 1 .. Len(a) + Len(b)
              /\ ~(Len(a) + k <= Len(a)) /\ (Len(a) + k) - Len(a) = k
            BY <1>2, <2>1
        <3> QED BY <1>1, <1>2, <2>1, <3>1
    <2> QED BY <2>2 DEF ToSet
<1>6. ToSet(u) = ToSet(a) \cup ToSet(b)
    BY <1>3, <1>4, <1>5
<1> QED BY <1>1, <1>6 DEF u

LEMMA SetOfOne ==
    ASSUME NEW S, NEW m \in S
    PROVE  <<m>> \in Seq(S) /\ \A e : e \in ToSet(<<m>>) <=> e = m
BY DEF ToSet

LEMMA SetOfNone == \A S : <<>> \in Seq(S) /\ ToSet(<<>>) = {}
BY DEF ToSet

LEMMA SetOfFlatten ==
    ASSUME NEW S, NEW s \in Seq(Seq(S)), s # <<>>
    PROVE  /\ FlattenSeq(s) \in Seq(S)
           /\ ToSet(FlattenSeq(s)) = UNION {ToSet(s[i]) : i \in 1 .. Len(s)}
<1> DEFINE t == FlattenSeq(s)
<1>1. Parts(S, s, Len(s), t)
    BY FlattenParts
<1> HIDE DEF t
<1>2. ASSUME NEW e \in ToSet(t) PROVE e \in UNION {ToSet(s[i]) : i \in 1 .. Len(s)}
    <2>1. PICK k \in DOMAIN t : e = t[k]
        BY <1>2 DEF ToSet
    <2>2. PICK i \in 1 .. Len(s) : \E l \in DOMAIN s[i] : t[k] = s[i][l]
        BY <1>1 DEF Parts
    <2>3. e \in ToSet(s[i])
        BY <2>1, <2>2 DEF ToSet
    <2> QED BY <2>3
<1>3. ASSUME NEW i \in 1 .. Len(s), NEW e \in ToSet(s[i]) PROVE e \in ToSet(t)
    <2>1. PICK l \in DOMAIN s[i] : e = s[i][l]
        BY <1>3 DEF ToSet
    <2>2. PICK k \in DOMAIN t : t[k] = s[i][l]
        BY <1>1 DEF Parts
    <2> QED BY <2>1, <2>2 DEF ToSet
<1>4. t \in Seq(S)
    BY <1>1 DEF Parts
<1> QED BY <1>2, <1>3, <1>4 DEF t

(* The packets of a scan, region by region, and at the end the commit.     *)
SendsOf(J, beds, gone, asked, acks) ==
    [r \in Regions |->
        (IF r \in gone THEN <<Control("RETIRE", J.load, r)>> ELSE <<>>)
        \o (IF r \in asked THEN <<Control("REQUEST", J.load, r)>> ELSE <<>>)
        \o (IF r \in acks
            THEN <<Packet("ACK", J.load, r, J.snapshot[r].epoch, beds[r])>> ELSE <<>>)]
SentOf(J, beds, gone, asked, acks, commits) ==
    FlattenSeq(SendsOf(J, beds, gone, asked, acks))
    \o (IF commits THEN <<Commit(J.load, Cardinality(J.loaded))>> ELSE <<>>)

LEMMA ScanSends ==
    ASSUME NEW J, JoinOk(J), J.load \in 1 .. MaxLoads, NEW gone \in SUBSET Regions,
           NEW asked \in SUBSET Regions, NEW acks \in SUBSET Regions,
           NEW beds \in BedRows, NEW commits \in BOOLEAN,
           NEW sends, NEW sent,
           sends = SendsOf(J, beds, gone, asked, acks),
           sent = SentOf(J, beds, gone, asked, acks, commits)
    PROVE  /\ sent \in Seq(Packets)
           /\ \A k \in DOMAIN sent :
                 LET m == sent[k] IN
                 /\ m.load = J.load
                 /\ \/ m.op = "RETIRE" /\ m.region \in gone
                    \/ m.op = "REQUEST" /\ m.region \in asked
                    \/ /\ m.op = "ACK" /\ m.region \in acks
                       /\ m.epoch = J.snapshot[m.region].epoch
                    \/ commits /\ m.op = "COMMIT" /\ m.epoch = Cardinality(J.loaded)
                 /\ m.op = "COMMIT" => k = Len(sent)
           /\ \A r \in gone : \E k \in DOMAIN sent : Says(sent[k], "RETIRE", J.load, r)
           /\ \A r \in asked : \E k \in DOMAIN sent : Says(sent[k], "REQUEST", J.load, r)
<1> DEFINE retire(r) == Control("RETIRE", J.load, r)
           request(r) == Control("REQUEST", J.load, r)
           ack(r) == Packet("ACK", J.load, r, J.snapshot[r].epoch, beds[r])
           last == Commit(J.load, Cardinality(J.loaded))
           flat == FlattenSeq(sends)
           tail == IF commits THEN <<last>> ELSE <<>>
<1>1. ASSUME NEW r \in Regions
      PROVE  retire(r) \in Packets /\ request(r) \in Packets /\ ack(r) \in Packets
    <2>1. r \in 0 .. LastRegion /\ J.snapshot[r].epoch \in Nat /\ beds[r] \in SUBSET Beds
        <3>1. r \in 0 .. LastRegion
            BY RegionsFinite DEF Regions
        <3>2. J.snapshot[r] \in Snapshots
            BY DEF JoinOk, JoinStates
        <3> QED BY <3>1, <3>2 DEF Snapshots, BedRows
    <2> QED BY <2>1 DEF Control, Packet, Packets
<1>2. last \in Packets
    <2>1. Cardinality(J.loaded) \in Nat /\ 0 \in 0 .. LastRegion
        BY RegionsFinite DEF JoinOk, JoinStates
    <2> QED BY <2>1 DEF Commit, Packet, Packets
<1>3. ASSUME NEW r \in Regions
      PROVE  /\ sends[r] \in Seq(Packets)
             /\ \A e : e \in ToSet(sends[r]) <=> \/ r \in gone /\ e = retire(r)
                                                 \/ r \in asked /\ e = request(r)
                                                 \/ r \in acks /\ e = ack(r)
    <2> DEFINE a == IF r \in gone THEN <<retire(r)>> ELSE <<>>
               b == IF r \in asked THEN <<request(r)>> ELSE <<>>
               c == IF r \in acks THEN <<ack(r)>> ELSE <<>>
    <2>1. sends[r] = a \o b \o c
        BY DEF SendsOf
    <2>2. a \in Seq(Packets) /\ \A e : e \in ToSet(a) <=> r \in gone /\ e = retire(r)
        <3>1. CASE r \in gone
            BY <1>1, <3>1, SetOfOne
        <3>2. CASE r \notin gone
            BY <3>2, SetOfNone
        <3> QED BY <3>1, <3>2
    <2>3. b \in Seq(Packets) /\ \A e : e \in ToSet(b) <=> r \in asked /\ e = request(r)
        <3>1. CASE r \in asked
            BY <1>1, <3>1, SetOfOne
        <3>2. CASE r \notin asked
            BY <3>2, SetOfNone
        <3> QED BY <3>1, <3>2
    <2>4. c \in Seq(Packets) /\ \A e : e \in ToSet(c) <=> r \in acks /\ e = ack(r)
        <3>1. CASE r \in acks
            BY <1>1, <3>1, SetOfOne
        <3>2. CASE r \notin acks
            BY <3>2, SetOfNone
        <3> QED BY <3>1, <3>2
    <2> HIDE DEF a, b, c, retire, request, ack
    <2>5. a \o b \in Seq(Packets) /\ ToSet(a \o b) = ToSet(a) \cup ToSet(b)
        BY <2>2, <2>3, SetOfConcat
    <2> DEFINE d == a \o b
    <2>6. d \o c \in Seq(Packets) /\ ToSet(d \o c) = ToSet(d) \cup ToSet(c)
        <3> HIDE DEF d
        <3>1. d \in Seq(Packets)
            BY <2>5 DEF d
        <3> QED BY <2>4, <3>1, SetOfConcat
    <2>7. sends[r] = d \o c
        BY <2>1
    <2>8. ToSet(sends[r]) = (ToSet(a) \cup ToSet(b)) \cup ToSet(c) /\ sends[r] \in Seq(Packets)
        BY <2>5, <2>6, <2>7
    <2>9. ASSUME NEW e
          PROVE  e \in ToSet(sends[r]) <=> \/ r \in gone /\ e = retire(r)
                                           \/ r \in asked /\ e = request(r)
                                           \/ r \in acks /\ e = ack(r)
        <3>1. e \in ToSet(sends[r]) <=> e \in ToSet(a) \/ e \in ToSet(b) \/ e \in ToSet(c)
            BY <2>8
        <3>2. e \in ToSet(a) <=> r \in gone /\ e = retire(r)
            BY <2>2, Zenon
        <3>3. e \in ToSet(b) <=> r \in asked /\ e = request(r)
            BY <2>3, Zenon
        <3>4. e \in ToSet(c) <=> r \in acks /\ e = ack(r)
            BY <2>4, Zenon
        <3> QED BY <3>1, <3>2, <3>3, <3>4, Zenon
    <2> QED BY <2>8, <2>9
<1>4. sends \in Seq(Seq(Packets)) /\ sends # <<>> /\ Len(sends) = LastRegion
    <2>1. sends = [r \in 1 .. LastRegion |-> sends[r]]
        BY DEF Regions, SendsOf
    <2>2. \A r \in 1 .. LastRegion : sends[r] \in Seq(Packets)
        BY <1>3 DEF Regions
    <2>3. LastRegion \in Nat /\ LastRegion # 0 /\ 1 \in 1 .. LastRegion
        BY RegionsFinite
    <2>4. sends \in [1 .. LastRegion -> Seq(Packets)]
        <3> DEFINE n == LastRegion
        <3> HIDE DEF n
        <3> QED BY <2>1, <2>2, Zenon
    <2>5. sends \in Seq(Seq(Packets)) /\ Len(sends) = LastRegion
        <3> HIDE DEF retire, request, ack
        <3> QED BY <2>3, <2>4
    <2>6. sends # <<>>
        BY <2>3, <2>5
    <2> QED BY <2>5, <2>6
<1>5. flat \in Seq(Packets) /\ ToSet(flat) = UNION {ToSet(sends[r]) : r \in Regions}
    BY <1>4, SetOfFlatten DEF Regions
<1>6. tail \in Seq(Packets) /\ Len(tail) = (IF commits THEN 1 ELSE 0) /\ (commits => tail[1] = last)
    BY <1>2
<1> HIDE DEF retire, request, ack, last, flat, tail
<1>7. /\ sent = flat \o tail /\ sent \in Seq(Packets) /\ Len(sent) = Len(flat) + Len(tail)
      /\ \A k \in 1 .. Len(flat) + Len(tail) :
            sent[k] = IF k <= Len(flat) THEN flat[k] ELSE tail[k - Len(flat)]
    <2>1. sent = flat \o tail
        BY DEF flat, tail, last, SentOf
    <2> DEFINE all == flat \o tail
    <2>2. /\ all \in Seq(Packets) /\ Len(all) = Len(flat) + Len(tail)
          /\ \A k \in 1 .. Len(flat) + Len(tail) :
                all[k] = IF k <= Len(flat) THEN flat[k] ELSE tail[k - Len(flat)]
        BY <1>5, <1>6, ConcatProperties, Zenon
    <2>3. sent = all
        BY <2>1
    <2> HIDE DEF all
    <2> QED BY <2>1, <2>2, <2>3
<1>8. /\ DOMAIN sent = 1 .. Len(flat) + Len(tail) /\ DOMAIN flat = 1 .. Len(flat)
      /\ Len(flat) \in Nat
    BY <1>5, <1>6, <1>7
<1>9. ASSUME NEW k \in DOMAIN sent
      PROVE  \/ k \in DOMAIN flat /\ sent[k] = flat[k]
             \/ commits /\ k = Len(sent) /\ sent[k] = last
    <2>1. CASE k <= Len(flat)
        <3>1. k \in 1 .. Len(flat) + Len(tail) /\ k \in 1 .. Len(flat)
            BY <1>6, <1>8, <2>1
        <3> QED BY <1>7, <1>8, <2>1, <3>1
    <2>2. CASE ~(k <= Len(flat))
        <3>1. commits /\ k = Len(flat) + 1
            BY <1>6, <1>8, <2>2
        <3>2. k - Len(flat) = 1 /\ k \in 1 .. Len(flat) + Len(tail) /\ k = Len(sent)
            BY <1>6, <1>7, <1>8, <3>1
        <3>3. sent[k] = tail[1]
            BY <1>7, <2>2, <3>2
        <3> QED BY <1>6, <3>1, <3>2, <3>3
    <2> QED BY <2>1, <2>2
<1>10. ASSUME NEW k \in DOMAIN flat
       PROVE  \E r \in Regions : \/ r \in gone /\ flat[k] = retire(r)
                                 \/ r \in asked /\ flat[k] = request(r)
                                 \/ r \in acks /\ flat[k] = ack(r)
    <2>1. flat[k] \in ToSet(flat)
        BY DEF ToSet
    <2>2. PICK r \in Regions : flat[k] \in ToSet(sends[r])
        BY <1>5, <2>1
    <2> QED BY <1>3, <2>2
<1>11. /\ \A r \in Regions :
             /\ retire(r).op = "RETIRE" /\ retire(r).load = J.load /\ retire(r).region = r
             /\ request(r).op = "REQUEST" /\ request(r).load = J.load /\ request(r).region = r
             /\ ack(r).op = "ACK" /\ ack(r).load = J.load /\ ack(r).region = r
             /\ ack(r).epoch = J.snapshot[r].epoch
       /\ last.op = "COMMIT" /\ last.load = J.load /\ last.epoch = Cardinality(J.loaded)
    BY DEF retire, request, ack, last, Control, Packet, Commit
<1>12. ASSUME NEW k \in DOMAIN sent
       PROVE  LET m == sent[k] IN
              /\ m.load = J.load
              /\ \/ m.op = "RETIRE" /\ m.region \in gone
                 \/ m.op = "REQUEST" /\ m.region \in asked
                 \/ /\ m.op = "ACK" /\ m.region \in acks
                    /\ m.epoch = J.snapshot[m.region].epoch
                 \/ commits /\ m.op = "COMMIT" /\ m.epoch = Cardinality(J.loaded)
              /\ m.op = "COMMIT" => k = Len(sent)
    <2>1. CASE commits /\ k = Len(sent) /\ sent[k] = last
        BY <1>11, <2>1
    <2>2. CASE k \in DOMAIN flat /\ sent[k] = flat[k]
        <3>1. PICK r \in Regions : \/ r \in gone /\ sent[k] = retire(r)
                                   \/ r \in asked /\ sent[k] = request(r)
                                   \/ r \in acks /\ sent[k] = ack(r)
            BY <1>10, <2>2
        <3>2. CASE r \in gone /\ sent[k] = retire(r)
            <4>1. sent[k].op = "RETIRE" /\ sent[k].load = J.load /\ sent[k].region = r
                BY <1>11, <3>2
            <4> QED BY <3>2, <4>1
        <3>3. CASE r \in asked /\ sent[k] = request(r)
            <4>1. sent[k].op = "REQUEST" /\ sent[k].load = J.load /\ sent[k].region = r
                BY <1>11, <3>3
            <4> QED BY <3>3, <4>1
        <3>4. CASE r \in acks /\ sent[k] = ack(r)
            <4>1. /\ sent[k].op = "ACK" /\ sent[k].load = J.load /\ sent[k].region = r
                  /\ sent[k].epoch = J.snapshot[r].epoch
                BY <1>11, <3>4
            <4> QED BY <3>4, <4>1
        <3> QED BY <3>1, <3>2, <3>3, <3>4
    <2> QED BY <1>9, <2>1, <2>2
<1>13. ASSUME NEW r \in Regions, NEW e \in ToSet(sends[r])
       PROVE  \E k \in DOMAIN sent : sent[k] = e
    <2>1. e \in ToSet(flat)
        BY <1>5, <1>13
    <2>2. PICK k \in DOMAIN flat : e = flat[k]
        BY <2>1 DEF ToSet
    <2>3. k \in 1 .. Len(flat) + Len(tail) /\ k <= Len(flat)
        BY <1>6, <1>8
    <2> QED BY <1>7, <1>8, <2>2, <2>3
<1>14. ASSUME NEW r \in gone
       PROVE  \E k \in DOMAIN sent : Says(sent[k], "RETIRE", J.load, r)
    <2>1. r \in Regions /\ retire(r) \in ToSet(sends[r])
        BY <1>3, <1>14
    <2>2. PICK k \in DOMAIN sent : sent[k] = retire(r)
        BY <1>13, <2>1
    <2>3. Says(sent[k], "RETIRE", J.load, r)
        BY <1>11, <2>1, <2>2 DEF Says
    <2> QED BY <2>3
<1>15. ASSUME NEW r \in asked
       PROVE  \E k \in DOMAIN sent : Says(sent[k], "REQUEST", J.load, r)
    <2>1. r \in Regions /\ request(r) \in ToSet(sends[r])
        BY <1>3, <1>15
    <2>2. PICK k \in DOMAIN sent : sent[k] = request(r)
        BY <1>13, <2>1
    <2>3. Says(sent[k], "REQUEST", J.load, r)
        BY <1>11, <2>1, <2>2 DEF Says
    <2> QED BY <2>3
<1> QED BY <1>7, <1>12, <1>14, <1>15

-----------------------------------------------------------------------------
(* The invariant that ties the host to one join: what the host has learned *)
(* of it, what the join has taken from the host, and what is under way.    *)

(* What is under way to a join: catalogs no newer than the host's, and of  *)
(* the newest the beds; those of a region in the order of their epochs.    *)
Supplied(h, m) ==
    /\ m.load <= h.load /\ (~h.live => m.load # h.load)
    /\ m.load = h.load =>
         /\ m.region \in Regions
         /\ m.epoch <= h.epoch[m.region]
         /\ m.op = "END" /\ m.epoch = h.epoch[m.region] => m.objects = h.objects[m.region]
Rising(lane, load) ==
    \A i, k \in DOMAIN lane :
        i < k /\ lane[i].load = load /\ lane[k].load = load /\ lane[i].region = lane[k].region
           => lane[i].epoch <= lane[k].epoch
Supply(h, lane) ==
    /\ \A k \in DOMAIN lane : Supplied(h, lane[k])
    /\ Rising(lane, h.load)

(* What a join has taken: its snapshots and what it last matched are of    *)
(* catalogs of the host, and what is under way is no older.                *)
Matched(h, x, r) ==
    /\ x.snapshot[r].epoch <= h.epoch[r]
    /\ x.snapshot[r].whole =>
         /\ x.epoch[r] <= x.snapshot[r].epoch
         /\ x.snapshot[r].epoch = h.epoch[r] => x.snapshot[r].objects = h.objects[r]
    /\ x.epoch[r] <= h.epoch[r]
    /\ x.epoch[r] = h.epoch[r] /\ h.epoch[r] # 0 => x.objects[r] = h.objects[r]
Ahead(x, lane, load) ==
    \A k \in DOMAIN lane : lane[k].load = load =>
        /\ x.epoch[lane[k].region] <= lane[k].epoch
        /\ x.snapshot[lane[k].region].epoch <= lane[k].epoch
Matches(h, x, lane) ==
    x.load = h.load => (\A r \in Regions : Matched(h, x, r)) /\ Ahead(x, lane, x.load)

(* What is under way from a join: ACKs of what it has matched.             *)
Reported(h, x, m) ==
    /\ m.load <= x.load /\ (~x.live => m.load # x.load)
    /\ m.load = x.load /\ m.op \in {"REQUEST", "RETIRE", "ACK"} => m.region \in Regions
    /\ m.load = x.load /\ x.load = h.load /\ m.op = "ACK" => m.epoch <= x.epoch[m.region]
Reports(h, x, lane) == \A k \in DOMAIN lane : Reported(h, x, lane[k])

(* What the host knows of the join's ACKs: nothing before its world lives. *)
Known(h, x, j) ==
    IF x.load = h.load /\ x.live
    THEN \A r \in Regions : h.acked[j][r] <= x.epoch[r]
    ELSE /\ h.requested[j] = {} /\ j \notin h.committed
         /\ \A r \in Regions : h.acked[j][r] = 0

(* The regions a join asks for once the first k packets of its lane have   *)
(* been taken, when it asked for those of base before them.                *)
Asks(lane, k, base, load) ==
    {r \in Regions :
        \/ r \in base /\ \A i \in 1 .. k : ~Says(lane[i], "RETIRE", load, r)
        \/ \E i \in 1 .. k : /\ Says(lane[i], "REQUEST", load, r)
                             /\ \A l \in i + 1 .. k : ~Says(lane[l], "RETIRE", load, r)}
Tells(base, x, lane) ==
    /\ Asks(lane, Len(lane), base, x.load) = x.requested
    /\ \A k \in DOMAIN lane : lane[k].op = "COMMIT" /\ lane[k].load = x.load =>
            lane[k].epoch = Cardinality(Asks(lane, k, base, x.load))

(* The lane leads from what the host counts to what the join has asked.    *)
ScopedBy(base, h, x, j, lane) ==
    /\ x.load = h.load => /\ h.requested[j] \subseteq base
                          /\ j \in h.committed => h.requested[j] = base
    /\ Tells(base, x, lane)
Scoped(h, x, j, lane) == \E base \in SUBSET Regions : ScopedBy(base, h, x, j, lane)

HostKept(h) ==
    /\ ~h.live => h = FreshHost(h.load, FALSE)
    /\ \A r \in h.complete : h.epoch[r] # 0
JoinKept(x) ==
    /\ ~x.live => x = FreshJoin(x.load, FALSE)
    /\ x.committed => x.requested = x.loaded

Linked(h, x, j, lane, back) ==
    /\ JoinKept(x)
    /\ Supply(h, lane) /\ Matches(h, x, lane)
    /\ Reports(h, x, back) /\ Known(h, x, j) /\ Scoped(h, x, j, back)
ScopeInv ==
    HostKept(host) /\ \A j \in Joins : Linked(host, join[j], j, down[j], up[j])

(* The types of one join, its host and its lanes.                          *)
LinkTypes(h, x, j, lane, back) ==
    /\ HostOk(h) /\ JoinOk(x) /\ x.load <= h.load /\ j \in Joins
    /\ lane \in Seq(Packets) /\ back \in Seq(Packets)

LEMMA LinkFields ==
    ASSUME NEW h, NEW x, NEW j, NEW lane, NEW back, LinkTypes(h, x, j, lane, back)
    PROVE  /\ h.load \in Nat /\ x.load \in Nat /\ x.load <= h.load
           /\ h.live \in BOOLEAN /\ x.live \in BOOLEAN /\ (x.live => x.load # 0)
           /\ h.requested[j] \in SUBSET Regions /\ x.requested \in SUBSET Regions
           /\ \A r \in Regions :
                /\ h.epoch[r] \in Nat /\ x.epoch[r] \in Nat /\ h.acked[j][r] \in Nat
                /\ h.acked[j][r] <= h.epoch[r] /\ x.snapshot[r] \in Snapshots
                /\ x.snapshot[r].epoch \in Nat /\ x.snapshot[r].whole \in BOOLEAN
           /\ Len(lane) \in Nat /\ DOMAIN lane = 1 .. Len(lane)
           /\ Len(back) \in Nat /\ DOMAIN back = 1 .. Len(back)
           /\ \A k \in DOMAIN lane : lane[k].load \in Nat /\ lane[k].epoch \in Nat
           /\ \A k \in DOMAIN back : back[k].load \in Nat /\ back[k].epoch \in Nat
<1>1. h \in HostStates /\ x \in JoinStates /\ j \in Joins
    BY DEF LinkTypes, HostOk, JoinOk
<1>2. /\ h.load \in Nat /\ x.load \in Nat /\ x.load <= h.load
      /\ h.live \in BOOLEAN /\ x.live \in BOOLEAN /\ (x.live => x.load # 0)
      /\ h.requested[j] \in SUBSET Regions /\ x.requested \in SUBSET Regions
    BY <1>1 DEF HostStates, JoinStates, LinkTypes, JoinOk
<1>3. ASSUME NEW r \in Regions
      PROVE  /\ h.epoch[r] \in Nat /\ x.epoch[r] \in Nat /\ h.acked[j][r] \in Nat
             /\ h.acked[j][r] <= h.epoch[r] /\ x.snapshot[r] \in Snapshots
             /\ x.snapshot[r].epoch \in Nat /\ x.snapshot[r].whole \in BOOLEAN
    <2>1. h.epoch[r] \in Nat /\ x.epoch[r] \in Nat /\ h.acked[j][r] \in Nat
        BY <1>1 DEF HostStates, JoinStates
    <2>2. x.snapshot[r] \in Snapshots
        BY <1>1 DEF JoinStates
    <2>3. h.acked[j][r] <= h.epoch[r]
        BY <1>1 DEF LinkTypes, HostOk
    <2> QED BY <2>1, <2>2, <2>3 DEF Snapshots
<1>4. ASSUME NEW s \in Seq(Packets)
      PROVE  /\ Len(s) \in Nat /\ DOMAIN s = 1 .. Len(s)
             /\ \A k \in DOMAIN s : s[k].load \in Nat /\ s[k].epoch \in Nat
    <2>1. \A k \in DOMAIN s : s[k] \in Packets
        OBVIOUS
    <2> QED BY <2>1 DEF Packets
<1>5. lane \in Seq(Packets) /\ back \in Seq(Packets)
    BY DEF LinkTypes
<1> QED BY <1>2, <1>3, <1>4, <1>5

(* Lanes from which packets were taken, and to which some were added.      *)
Dropped(t, s, n) ==
    /\ n \in 0 .. Len(s) /\ t \in Seq(Packets) /\ Len(t) = Len(s) - n
    /\ \A i \in 1 .. Len(t) : i + n \in 1 .. Len(s) /\ t[i] = s[i + n]

LEMMA TailDropped ==
    ASSUME NEW s \in Seq(Packets), s # <<>> PROVE Dropped(Tail(s), s, 1)
<1>1. Len(s) \in Nat /\ Len(s) # 0 /\ Tail(s) \in Seq(Packets) /\ Len(Tail(s)) = Len(s) - 1
    OBVIOUS
<1>2. \A i \in 1 .. Len(s) - 1 : i + 1 \in 1 .. Len(s) /\ Tail(s)[i] = s[i + 1]
    BY <1>1
<1>3. 1 \in 0 .. Len(s)
    BY <1>1
<1> QED BY <1>1, <1>2, <1>3 DEF Dropped

LEMMA FlushedDropped ==
    ASSUME NEW s \in Seq(Packets), NEW t \in Flushed(s)
    PROVE  \E n \in 0 .. Len(s) : Dropped(t, s, n)
<1>1. PICK k \in 1 .. Len(s) + 1 : t = SubSeq(s, k, Len(s))
    BY DEF Flushed
<1>2. Len(s) \in Nat /\ k \in Nat /\ k - 1 \in 0 .. Len(s)
    BY <1>1
<1>3. t = [i \in 1 .. (1 + Len(s)) - k |-> s[(i + k) - 1]]
    BY <1>1 DEF SubSeq
<1>4. (1 + Len(s)) - k \in Nat /\ (1 + Len(s)) - k = Len(s) - (k - 1)
    BY <1>2, <1>1
<1>5. ASSUME NEW i \in 1 .. (1 + Len(s)) - k
      PROVE  /\ (i + k) - 1 = i + (k - 1) /\ i + (k - 1) \in 1 .. Len(s)
             /\ s[(i + k) - 1] \in Packets
    <2>1. (i + k) - 1 = i + (k - 1) /\ i + (k - 1) \in 1 .. Len(s)
        BY <1>1, <1>2, <1>5
    <2> QED BY <2>1
<1>6. t \in Seq(Packets) /\ Len(t) = Len(s) - (k - 1)
    BY <1>3, <1>4, <1>5
<1>7. \A i \in 1 .. Len(t) : i + (k - 1) \in 1 .. Len(s) /\ t[i] = s[i + (k - 1)]
    BY <1>3, <1>4, <1>5, <1>6
<1>8. Dropped(t, s, k - 1)
    BY <1>2, <1>6, <1>7 DEF Dropped
<1> QED BY <1>2, <1>8

Extended(u, s, a) ==
    /\ u \in Seq(Packets) /\ Len(u) = Len(s) + Len(a)
    /\ \A k \in 1 .. Len(s) : k \in 1 .. Len(u) /\ u[k] = s[k]
    /\ \A k \in 1 .. Len(u) : k > Len(s) => k - Len(s) \in 1 .. Len(a) /\ u[k] = a[k - Len(s)]
    /\ \A k \in 1 .. Len(a) : k + Len(s) \in 1 .. Len(u) /\ u[k + Len(s)] = a[k]

LEMMA ConcatExtended ==
    ASSUME NEW s \in Seq(Packets), NEW a \in Seq(Packets) PROVE Extended(s \o a, s, a)
<1> DEFINE u == s \o a
<1>1. /\ u \in Seq(Packets) /\ Len(u) = Len(s) + Len(a)
      /\ \A k \in 1 .. Len(s) + Len(a) : u[k] = IF k <= Len(s) THEN s[k] ELSE a[k - Len(s)]
    BY ConcatProperties, Zenon
<1>2. Len(s) \in Nat /\ Len(a) \in Nat
    OBVIOUS
<1> HIDE DEF u
<1>3. ASSUME NEW k \in 1 .. Len(s) PROVE k \in 1 .. Len(u) /\ u[k] = s[k]
    <2>1. k \in 1 .. Len(s) + Len(a) /\ k <= Len(s)
        BY <1>2
    <2> QED BY <1>1, <2>1
<1>4. ASSUME NEW k \in 1 .. Len(u), k > Len(s)
      PROVE  k - Len(s) \in 1 .. Len(a) /\ u[k] = a[k - Len(s)]
    <2>1. k \in 1 .. Len(s) + Len(a) /\ ~(k <= Len(s)) /\ k - Len(s) \in 1 .. Len(a)
        BY <1>1, <1>2, <1>4
    <2> QED BY <1>1, <2>1
<1>5. ASSUME NEW k \in 1 .. Len(a) PROVE k + Len(s) \in 1 .. Len(u) /\ u[k + Len(s)] = a[k]
    <2>1. /\ k + Len(s) \in 1 .. Len(s) + Len(a) /\ ~(k + Len(s) <= Len(s))
          /\ (k + Len(s)) - Len(s) = k
        BY <1>2
    <2> QED BY <1>1, <2>1
<1> QED BY <1>1, <1>3, <1>4, <1>5 DEF Extended, u

-----------------------------------------------------------------------------
(* The parts of the invariant under a change of the host.                  *)

(* The host's catalog, and what it shows one join, stay.                   *)
SameCatalog(g, h) ==
    h.load = g.load /\ h.live = g.live /\ h.epoch = g.epoch /\ h.objects = g.objects
SameFace(g, h, j) ==
    /\ h.requested[j] = g.requested[j] /\ (j \in h.committed <=> j \in g.committed)
    /\ \A r \in Regions : h.acked[j][r] = g.acked[j][r]

LEMMA SupplySame ==
    ASSUME NEW g, NEW h, NEW lane, SameCatalog(g, h), Supply(g, lane) PROVE Supply(h, lane)
BY DEF SameCatalog, Supply, Supplied

LEMMA MatchesSame ==
    ASSUME NEW g, NEW h, NEW x, NEW lane, SameCatalog(g, h), Matches(g, x, lane)
    PROVE  Matches(h, x, lane)
BY DEF SameCatalog, Matches, Matched

LEMMA ReportsSame ==
    ASSUME NEW g, NEW h, NEW x, NEW lane, SameCatalog(g, h), Reports(g, x, lane)
    PROVE  Reports(h, x, lane)
BY DEF SameCatalog, Reports, Reported

LEMMA KnownSame ==
    ASSUME NEW g, NEW h, NEW x, NEW j, SameCatalog(g, h), SameFace(g, h, j), Known(g, x, j)
    PROVE  Known(h, x, j)
BY DEF SameCatalog, SameFace, Known

LEMMA ScopedSame ==
    ASSUME NEW g, NEW h, NEW x, NEW j, NEW lane, SameCatalog(g, h), SameFace(g, h, j),
           Scoped(g, x, j, lane)
    PROVE  Scoped(h, x, j, lane)
<1>1. PICK base \in SUBSET Regions : ScopedBy(base, g, x, j, lane)
    BY DEF Scoped
<1>2. ScopedBy(base, h, x, j, lane)
    BY <1>1 DEF SameCatalog, SameFace, ScopedBy
<1> QED BY <1>2 DEF Scoped

LEMMA LinkedSame ==
    ASSUME NEW g, NEW h, NEW x, NEW j, NEW lane, NEW back, SameCatalog(g, h),
           SameFace(g, h, j), Linked(g, x, j, lane, back)
    PROVE  Linked(h, x, j, lane, back)
BY SupplySame, MatchesSame, ReportsSame, KnownSame, ScopedSame DEF Linked

(* A census that is void matters to nobody.                                *)
LEMMA LinkedVoid ==
    ASSUME NEW h, NEW x, NEW y, NEW j, NEW lane, NEW back, x \in JoinStates,
           y = [x EXCEPT !.census = FALSE], Linked(h, x, j, lane, back)
    PROVE  Linked(h, y, j, lane, back)
<1>1. /\ y.load = x.load /\ y.live = x.live /\ y.epoch = x.epoch /\ y.objects = x.objects
      /\ y.snapshot = x.snapshot /\ y.requested = x.requested
      /\ y.committed = x.committed /\ y.loaded = x.loaded
    BY DEF JoinStates
<1>2. JoinKept(y)
    <2>1. ~x.live => y = x
        BY DEF Linked, JoinKept, FreshJoin, JoinStates
    <2> QED BY <1>1, <2>1 DEF Linked, JoinKept
<1>3. Matches(h, y, lane)
    BY <1>1 DEF Linked, Matches, Matched, Ahead
<1>4. Reports(h, y, back)
    BY <1>1 DEF Linked, Reports, Reported
<1>5. Known(h, y, j)
    BY <1>1 DEF Linked, Known
<1>6. Scoped(h, y, j, back)
    BY <1>1 DEF Linked, Scoped, ScopedBy, Tells
<1> QED BY <1>2, <1>3, <1>4, <1>5, <1>6 DEF Linked

(* A load is announced: nothing of it has been sent, no join is in it.     *)
Announced(g, h) ==
    /\ h.load = g.load + 1
    /\ \A j \in Joins : /\ h.requested[j] = {} /\ j \notin h.committed
                        /\ \A r \in Regions : h.acked[j][r] = 0

LEMMA LinkedAnnounced ==
    ASSUME NEW g, NEW h, NEW x, NEW j, NEW lane, NEW back, LinkTypes(g, x, j, lane, back),
           Announced(g, h), Linked(g, x, j, lane, back)
    PROVE  Linked(h, x, j, lane, back)
<1>1. /\ g.load \in Nat /\ x.load \in Nat /\ x.load <= g.load /\ h.load = g.load + 1
      /\ j \in Joins
    BY LinkFields DEF Announced, LinkTypes
<1>2. \A k \in DOMAIN lane : lane[k].load \in Nat /\ lane[k].load <= g.load
    BY LinkFields DEF Linked, Supply, Supplied
<1>3. x.load # h.load /\ \A k \in DOMAIN lane : lane[k].load # h.load /\ lane[k].load <= h.load
    BY <1>1, <1>2
<1>4. Supply(h, lane)
    BY <1>3 DEF Supply, Supplied, Rising
<1>5. Matches(h, x, lane)
    BY <1>3 DEF Matches
<1>6. Reports(h, x, back)
    BY <1>3 DEF Linked, Reports, Reported
<1>7. Known(h, x, j)
    BY <1>1, <1>3 DEF Known, Announced
<1>8. Scoped(h, x, j, back)
    <2>1. PICK base \in SUBSET Regions : ScopedBy(base, g, x, j, back)
        BY DEF Linked, Scoped
    <2>2. ScopedBy(base, h, x, j, back)
        BY <1>3, <2>1 DEF ScopedBy
    <2> QED BY <2>2 DEF Scoped
<1> QED BY <1>4, <1>5, <1>6, <1>7, <1>8 DEF Linked

(* A scan of the host: the catalogs grow, and newest snapshots follow.     *)
Offer(h, m) ==
    /\ m.load = h.load /\ m.region \in Regions /\ m.epoch = h.epoch[m.region]
    /\ m.op = "END" => m.objects = h.objects[m.region]

LEMMA BlockOffers ==
    ASSUME NEW h, HostOk(h), NEW rs \in SUBSET Regions
    PROVE  /\ SnapshotBlock(h, rs) \in Seq(Packets)
           /\ \A k \in DOMAIN SnapshotBlock(h, rs) : Offer(h, SnapshotBlock(h, rs)[k])
<1> DEFINE b == SnapshotBlock(h, rs)
<1>1. ASSUME NEW k \in DOMAIN b PROVE Offer(h, b[k])
    <2>1. PICK r \in rs : \/ b[k] = Packet("BEGIN", h.load, r, h.epoch[r], {})
                          \/ b[k] = Packet("END", h.load, r, h.epoch[r], h.objects[r])
        BY BlockShape
    <2> HIDE DEF b
    <2> QED BY <2>1 DEF Packet, Offer
<1> QED BY <1>1, BlockShape

LEMMA SupplyCatalogued ==
    ASSUME NEW g, NEW h, NEW x, NEW j, NEW lane, NEW back, LinkTypes(g, x, j, lane, back),
           HostOk(h), Catalogued(g, h), g.live, Supply(g, lane)
    PROVE  Supply(h, lane)
<1>1. h.load = g.load /\ h.live = g.live
    BY DEF Catalogued
<1>2. ASSUME NEW k \in DOMAIN lane PROVE Supplied(h, lane[k])
    <2>0. PICK m : m = lane[k]
        OBVIOUS
    <2> DEFINE r == m.region
    <2>1. Supplied(g, m) /\ m.epoch \in Nat
        BY <2>0, LinkFields DEF Supply
    <2>2. CASE m.load = g.load
        <3>1. /\ r \in Regions /\ m.epoch <= g.epoch[r] /\ g.epoch[r] \in Nat
              /\ m.op = "END" /\ m.epoch = g.epoch[r] => m.objects = g.objects[r]
            BY <2>1, <2>2, LinkFields DEF Supplied
        <3>2. \/ h.epoch[r] = g.epoch[r] /\ h.objects[r] = g.objects[r]
              \/ h.epoch[r] = g.epoch[r] + 1
            BY <3>1 DEF Catalogued
        <3>3. m.epoch <= h.epoch[r] /\ (m.epoch = h.epoch[r] => h.epoch[r] = g.epoch[r])
            BY <2>1, <3>1, <3>2
        <3>4. m.op = "END" /\ m.epoch = h.epoch[r] => m.objects = h.objects[r]
            BY <2>1, <3>1, <3>2
        <3> QED BY <2>0, <1>1, <2>1, <3>1, <3>3, <3>4 DEF Supplied
    <2>3. CASE m.load # g.load
        BY <2>0, <1>1, <2>1, <2>3 DEF Supplied
    <2> QED BY <2>0, <2>2, <2>3
<1> QED BY <1>1, <1>2 DEF Supply

LEMMA SupplyExtended ==
    ASSUME NEW h, HostOk(h), h.live, NEW lane \in Seq(Packets), NEW b \in Seq(Packets),
           NEW u, Extended(u, lane, b), Supply(h, lane), \A k \in DOMAIN b : Offer(h, b[k])
    PROVE  Supply(h, u)
<1>0. /\ Len(lane) \in Nat /\ Len(b) \in Nat /\ DOMAIN lane = 1 .. Len(lane)
      /\ DOMAIN b = 1 .. Len(b) /\ DOMAIN u = 1 .. Len(u)
    BY DEF Extended
<1>1. h.load \in Nat /\ \A r \in Regions : h.epoch[r] \in Nat
    BY DEF HostOk, HostStates
<1>2. ASSUME NEW k \in DOMAIN u
      PROVE  \/ k <= Len(lane) /\ k \in DOMAIN lane /\ u[k] = lane[k]
             \/ k > Len(lane) /\ Offer(h, u[k])
    <2>1. CASE k <= Len(lane)
        <3>1. k \in 1 .. Len(lane)
            BY <1>0, <2>1
        <3> QED BY <1>0, <2>1, <3>1 DEF Extended
    <2>2. CASE ~(k <= Len(lane))
        <3>1. k > Len(lane) /\ k \in 1 .. Len(u)
            BY <1>0, <2>2
        <3>2. k - Len(lane) \in DOMAIN b /\ u[k] = b[k - Len(lane)]
            BY <1>0, <3>1 DEF Extended
        <3> QED BY <3>1, <3>2
    <2> QED BY <2>1, <2>2
<1>3. ASSUME NEW k \in DOMAIN u PROVE Supplied(h, u[k])
    <2>1. CASE Offer(h, u[k])
        BY <1>1, <2>1 DEF Offer, Supplied
    <2>2. CASE k \in DOMAIN lane /\ u[k] = lane[k]
        BY <2>2 DEF Supply
    <2> QED BY <1>2, <2>1, <2>2
<1>4. ASSUME NEW i \in DOMAIN u, NEW k \in DOMAIN u, i < k, u[i].load = h.load,
             u[k].load = h.load, u[i].region = u[k].region
      PROVE  u[i].epoch <= u[k].epoch
    <2>1. CASE k > Len(lane) /\ Offer(h, u[k])
        <3>1. u[i].epoch <= h.epoch[u[i].region]
            BY <1>3, <1>4 DEF Supplied
        <3> QED BY <1>4, <2>1, <3>1 DEF Offer
    <2>2. CASE k <= Len(lane) /\ k \in DOMAIN lane /\ u[k] = lane[k]
        <3>1. i \in DOMAIN lane /\ u[i] = lane[i]
            <4>1. ~(i > Len(lane))
                BY <1>0, <1>4, <2>2
            <4> QED BY <1>2, <4>1
        <3> QED BY <1>4, <2>2, <3>1 DEF Supply, Rising
    <2> QED BY <1>2, <2>1, <2>2
<1> QED BY <1>3, <1>4 DEF Supply, Rising

LEMMA MatchesCatalogued ==
    ASSUME NEW g, NEW h, NEW x, NEW j, NEW lane, NEW back, LinkTypes(g, x, j, lane, back),
           HostOk(h), Catalogued(g, h), Matches(g, x, lane)
    PROVE  Matches(h, x, lane)
<1>1. h.load = g.load
    BY DEF Catalogued
<1>2. ASSUME NEW r \in Regions, Matched(g, x, r) PROVE Matched(h, x, r)
    <2>1. /\ g.epoch[r] \in Nat /\ x.epoch[r] \in Nat /\ x.snapshot[r].epoch \in Nat
        BY LinkFields
    <2>2. \/ h.epoch[r] = g.epoch[r] /\ h.objects[r] = g.objects[r]
          \/ h.epoch[r] = g.epoch[r] + 1
        BY DEF Catalogued
    <2>3. CASE h.epoch[r] = g.epoch[r] /\ h.objects[r] = g.objects[r]
        BY <1>2, <2>3 DEF Matched
    <2>4. CASE h.epoch[r] = g.epoch[r] + 1
        <3>1. /\ x.snapshot[r].epoch <= h.epoch[r] /\ x.snapshot[r].epoch # h.epoch[r]
              /\ x.epoch[r] <= h.epoch[r] /\ x.epoch[r] # h.epoch[r]
            BY <1>2, <2>1, <2>4 DEF Matched
        <3> QED BY <1>2, <3>1 DEF Matched
    <2> QED BY <2>2, <2>3, <2>4
<1> QED BY <1>1, <1>2 DEF Matches

LEMMA MatchesExtended ==
    ASSUME NEW h, NEW x, NEW j, NEW lane, NEW back, LinkTypes(h, x, j, lane, back),
           NEW b \in Seq(Packets), NEW u, Extended(u, lane, b), Matches(h, x, lane),
           \A k \in DOMAIN b : Offer(h, b[k])
    PROVE  Matches(h, x, u)
<1>0. /\ Len(lane) \in Nat /\ Len(b) \in Nat /\ DOMAIN lane = 1 .. Len(lane)
      /\ DOMAIN b = 1 .. Len(b) /\ DOMAIN u = 1 .. Len(u)
    BY DEF Extended, LinkTypes
<1>1. SUFFICES ASSUME x.load = h.load, NEW k \in DOMAIN u, u[k].load = x.load
               PROVE  /\ x.epoch[u[k].region] <= u[k].epoch
                      /\ x.snapshot[u[k].region].epoch <= u[k].epoch
    BY DEF Matches, Ahead
<1>2. CASE k <= Len(lane)
    <2>1. k \in 1 .. Len(lane)
        BY <1>0, <1>2
    <2>2. k \in DOMAIN lane /\ u[k] = lane[k]
        BY <1>0, <2>1 DEF Extended
    <2> QED BY <1>1, <2>2 DEF Matches, Ahead
<1>3. CASE ~(k <= Len(lane))
    <2>1. k > Len(lane) /\ k \in 1 .. Len(u)
        BY <1>0, <1>3
    <2>2. k - Len(lane) \in DOMAIN b /\ u[k] = b[k - Len(lane)]
        BY <1>0, <2>1 DEF Extended
    <2>3. Offer(h, u[k])
        BY <2>2
    <2> QED BY <1>1, <2>3 DEF Offer, Matches, Matched
<1> QED BY <1>2, <1>3

LEMMA LinkedCatalogued ==
    ASSUME NEW g, NEW h, NEW x, NEW j, NEW lane, NEW back, LinkTypes(g, x, j, lane, back),
           HostOk(h), Catalogued(g, h), g.live, Linked(g, x, j, lane, back)
    PROVE  Linked(h, x, j, lane, back)
<1>1. Supply(h, lane) /\ Matches(h, x, lane)
    BY SupplyCatalogued, MatchesCatalogued DEF Linked
<1>2. h.load = g.load /\ h.requested = g.requested /\ h.committed = g.committed
    BY DEF Catalogued
<1>3. Reports(h, x, back)
    BY <1>2 DEF Linked, Reports, Reported
<1>4. Known(h, x, j)
    <2>1. j \in Joins
        BY DEF LinkTypes
    <2>2. ASSUME NEW r \in Regions PROVE h.acked[j][r] = g.acked[j][r] \/ h.acked[j][r] = 0
        BY <2>1 DEF Catalogued
    <2>3. \A r \in Regions : x.epoch[r] \in Nat
        BY LinkFields
    <2> QED BY <1>2, <2>2, <2>3 DEF Linked, Known
<1>5. Scoped(h, x, j, back)
    BY <1>2 DEF Linked, Scoped, ScopedBy
<1> QED BY <1>1, <1>3, <1>4, <1>5 DEF Linked

LEMMA LinkedOffered ==
    ASSUME NEW h, NEW x, NEW j, NEW lane, NEW back, LinkTypes(h, x, j, lane, back), h.live,
           NEW b \in Seq(Packets), NEW u, Extended(u, lane, b), Linked(h, x, j, lane, back),
           \A k \in DOMAIN b : Offer(h, b[k])
    PROVE  Linked(h, x, j, u, back)
<1>1. Supply(h, u)
    BY SupplyExtended DEF Linked, LinkTypes
<1>2. Matches(h, x, u)
    BY MatchesExtended DEF Linked
<1> QED BY <1>1, <1>2 DEF Linked

-----------------------------------------------------------------------------
(* The parts of the invariant when packets are taken from a lane.          *)
LEMMA DroppedPlaces ==
    ASSUME NEW s \in Seq(Packets), NEW n, NEW t, Dropped(t, s, n)
    PROVE  /\ n \in Nat /\ n <= Len(s) /\ Len(s) \in Nat /\ Len(t) \in Nat
           /\ Len(t) = Len(s) - n /\ Len(t) + n = Len(s)
           /\ DOMAIN t = 1 .. Len(t) /\ DOMAIN s = 1 .. Len(s)
           /\ \A i \in DOMAIN t : i \in Nat /\ i + n \in DOMAIN s /\ t[i] = s[i + n]
<1>1. Len(s) \in Nat /\ n \in 0 .. Len(s) /\ t \in Seq(Packets) /\ Len(t) = Len(s) - n
    BY DEF Dropped
<1>2. n \in Nat /\ n <= Len(s) /\ Len(t) \in Nat /\ Len(t) + n = Len(s)
    BY <1>1
<1>3. DOMAIN t = 1 .. Len(t) /\ DOMAIN s = 1 .. Len(s)
    BY <1>1
<1>4. \A i \in DOMAIN t : i \in Nat /\ i + n \in DOMAIN s /\ t[i] = s[i + n]
    BY <1>2, <1>3 DEF Dropped
<1> QED BY <1>1, <1>2, <1>3, <1>4

LEMMA SupplyDropped ==
    ASSUME NEW h, NEW s \in Seq(Packets), NEW n, NEW t, Dropped(t, s, n), Supply(h, s)
    PROVE  Supply(h, t)
<1>1. n \in Nat /\ \A i \in DOMAIN t : i \in Nat /\ i + n \in DOMAIN s /\ t[i] = s[i + n]
    BY DroppedPlaces
<1>2. \A k \in DOMAIN t : Supplied(h, t[k])
    BY <1>1 DEF Supply
<1>3. ASSUME NEW i \in DOMAIN t, NEW k \in DOMAIN t, i < k, t[i].load = h.load,
             t[k].load = h.load, t[i].region = t[k].region
      PROVE  t[i].epoch <= t[k].epoch
    <2>1. i + n < k + n
        BY <1>1, <1>3
    <2>2. /\ i + n \in DOMAIN s /\ k + n \in DOMAIN s
          /\ t[i] = s[i + n] /\ t[k] = s[k + n]
        BY <1>1
    <2> QED BY <1>3, <2>1, <2>2 DEF Supply, Rising
<1> QED BY <1>2, <1>3 DEF Supply, Rising

LEMMA MatchesDropped ==
    ASSUME NEW h, NEW x, NEW s \in Seq(Packets), NEW n, NEW t, Dropped(t, s, n),
           Matches(h, x, s)
    PROVE  Matches(h, x, t)
<1>1. \A i \in DOMAIN t : i + n \in DOMAIN s /\ t[i] = s[i + n]
    BY DroppedPlaces
<1>2. ASSUME Ahead(x, s, x.load) PROVE Ahead(x, t, x.load)
    BY <1>1, <1>2 DEF Ahead
<1> QED BY <1>2 DEF Matches

LEMMA ReportsDropped ==
    ASSUME NEW h, NEW x, NEW s \in Seq(Packets), NEW n, NEW t, Dropped(t, s, n),
           Reports(h, x, s)
    PROVE  Reports(h, x, t)
<1>1. \A i \in DOMAIN t : i + n \in DOMAIN s /\ t[i] = s[i + n]
    BY DroppedPlaces
<1> QED BY <1>1 DEF Reports

(* What is asked when n packets are gone is what was asked after them.     *)
LEMMA AsksDropped ==
    ASSUME NEW s \in Seq(Packets), NEW n, NEW t, Dropped(t, s, n), NEW load, NEW base,
           NEW k \in 0 .. Len(t)
    PROVE  Asks(t, k, Asks(s, n, base, load), load) = Asks(s, k + n, base, load)
<1> DEFINE Ask(i, r) == Says(s[i], "REQUEST", load, r)
           Ret(i, r) == Says(s[i], "RETIRE", load, r)
           mid == Asks(s, n, base, load)
<1>1. n \in Nat /\ Len(t) \in Nat /\ k \in Nat /\ k <= Len(t) /\ DOMAIN t = 1 .. Len(t)
    BY DroppedPlaces
<1>2. \A i \in 1 .. k : i + n \in (n + 1) .. (k + n) /\ t[i] = s[i + n]
    <2>1. \A i \in 1 .. k : i \in DOMAIN t /\ i + n \in (n + 1) .. (k + n)
        BY <1>1
    <2> QED BY <2>1, DroppedPlaces
<1>3. \A i \in (n + 1) .. (k + n) : i - n \in 1 .. k /\ t[i - n] = s[i]
    <2>1. \A i \in (n + 1) .. (k + n) : i - n \in 1 .. k /\ (i - n) + n = i
        BY <1>1
    <2> QED BY <1>2, <2>1
<1>4. ASSUME NEW r \in Regions
      PROVE  r \in mid <=> \/ r \in base /\ \A i \in 1 .. n : ~Ret(i, r)
                           \/ \E i \in 1 .. n : Ask(i, r) /\ \A l \in i + 1 .. n : ~Ret(l, r)
    BY DEF Asks
<1>5. ASSUME NEW r \in Regions
      PROVE  r \in Asks(s, k + n, base, load)
                <=> \/ r \in base /\ \A i \in 1 .. k + n : ~Ret(i, r)
                    \/ \E i \in 1 .. k + n : Ask(i, r) /\ \A l \in i + 1 .. k + n : ~Ret(l, r)
    BY DEF Asks
<1>6. ASSUME NEW r \in Regions
      PROVE  r \in Asks(t, k, mid, load)
                <=> \/ r \in mid /\ \A i \in (n + 1) .. (k + n) : ~Ret(i, r)
                    \/ \E i \in (n + 1) .. (k + n) :
                          Ask(i, r) /\ \A l \in i + 1 .. k + n : ~Ret(l, r)
    <2>1. (\A i \in 1 .. k : ~Says(t[i], "RETIRE", load, r))
             <=> \A i \in (n + 1) .. (k + n) : ~Ret(i, r)
        BY <1>2, <1>3
    <2>2. ASSUME NEW i \in 1 .. k, Says(t[i], "REQUEST", load, r),
                 \A l \in i + 1 .. k : ~Says(t[l], "RETIRE", load, r)
          PROVE  \E o \in (n + 1) .. (k + n) : Ask(o, r) /\ \A l \in o + 1 .. k + n : ~Ret(l, r)
        <3>1. i + n \in (n + 1) .. (k + n) /\ Ask(i + n, r)
            BY <1>2, <2>2
        <3>2. ASSUME NEW l \in (i + n) + 1 .. k + n PROVE ~Ret(l, r)
            <4>1. l - n \in i + 1 .. k /\ l \in (n + 1) .. (k + n)
                BY <1>1
            <4> QED BY <1>3, <2>2, <4>1
        <3> QED BY <3>1, <3>2
    <2>3. ASSUME NEW o \in (n + 1) .. (k + n), Ask(o, r), \A l \in o + 1 .. k + n : ~Ret(l, r)
          PROVE  \E i \in 1 .. k : /\ Says(t[i], "REQUEST", load, r)
                                   /\ \A l \in i + 1 .. k : ~Says(t[l], "RETIRE", load, r)
        <3>1. o - n \in 1 .. k /\ Says(t[o - n], "REQUEST", load, r)
            BY <1>3, <2>3
        <3>2. ASSUME NEW l \in (o - n) + 1 .. k PROVE ~Says(t[l], "RETIRE", load, r)
            <4>1. l + n \in o + 1 .. k + n /\ l \in 1 .. k
                BY <1>1
            <4> QED BY <1>2, <2>3, <4>1
        <3> QED BY <3>1, <3>2
    <2>4. r \in Asks(t, k, mid, load)
             <=> \/ r \in mid /\ \A i \in 1 .. k : ~Says(t[i], "RETIRE", load, r)
                 \/ \E i \in 1 .. k : /\ Says(t[i], "REQUEST", load, r)
                                      /\ \A l \in i + 1 .. k : ~Says(t[l], "RETIRE", load, r)
        BY DEF Asks
    <2> HIDE DEF Ask, Ret, mid
    <2> QED BY <2>1, <2>2, <2>3, <2>4
<1>7. ASSUME NEW r \in Regions
      PROVE  r \in Asks(t, k, mid, load) <=> r \in Asks(s, k + n, base, load)
    <2> HIDE DEF Ask, Ret, mid
    <2>1. ASSUME r \in Asks(t, k, mid, load) PROVE r \in Asks(s, k + n, base, load)
        <3>1. CASE \E i \in (n + 1) .. (k + n) :
                      Ask(i, r) /\ \A l \in i + 1 .. k + n : ~Ret(l, r)
            <4>1. \A i \in (n + 1) .. (k + n) : i \in 1 .. k + n
                BY <1>1
            <4> QED BY <1>5, <3>1, <4>1
        <3>2. CASE r \in mid /\ \A i \in (n + 1) .. (k + n) : ~Ret(i, r)
            <4>1. CASE r \in base /\ \A i \in 1 .. n : ~Ret(i, r)
                <5>1. \A i \in 1 .. k + n : i \in 1 .. n \/ i \in (n + 1) .. (k + n)
                    BY <1>1
                <5> QED BY <1>5, <3>2, <4>1, <5>1
            <4>2. CASE \E i \in 1 .. n : Ask(i, r) /\ \A l \in i + 1 .. n : ~Ret(l, r)
                <5>1. PICK i \in 1 .. n : Ask(i, r) /\ \A l \in i + 1 .. n : ~Ret(l, r)
                    BY <4>2
                <5>2. i \in 1 .. k + n
                    BY <1>1
                <5>3. \A l \in i + 1 .. k + n : l \in i + 1 .. n \/ l \in (n + 1) .. (k + n)
                    BY <1>1
                <5> QED BY <1>5, <3>2, <5>1, <5>2, <5>3
            <4> QED BY <1>4, <3>2, <4>1, <4>2
        <3> QED BY <1>6, <2>1, <3>1, <3>2
    <2>2. ASSUME r \in Asks(s, k + n, base, load) PROVE r \in Asks(t, k, mid, load)
        <3>1. CASE r \in base /\ \A i \in 1 .. k + n : ~Ret(i, r)
            <4>1. \A i \in 1 .. n : i \in 1 .. k + n
                BY <1>1
            <4>2. \A i \in (n + 1) .. (k + n) : i \in 1 .. k + n
                BY <1>1
            <4> QED BY <1>4, <1>6, <3>1, <4>1, <4>2
        <3>2. CASE \E i \in 1 .. k + n : Ask(i, r) /\ \A l \in i + 1 .. k + n : ~Ret(l, r)
            <4>1. PICK i \in 1 .. k + n : Ask(i, r) /\ \A l \in i + 1 .. k + n : ~Ret(l, r)
                BY <3>2
            <4>2. CASE i <= n
                <5>1. i \in 1 .. n
                    BY <1>1, <4>2
                <5>2. \A l \in i + 1 .. n : l \in i + 1 .. k + n
                    BY <1>1
                <5>3. \A l \in (n + 1) .. (k + n) : l \in i + 1 .. k + n
                    BY <1>1, <4>2
                <5> QED BY <1>4, <1>6, <4>1, <5>1, <5>2, <5>3
            <4>3. CASE ~(i <= n)
                <5>1. i \in (n + 1) .. (k + n)
                    BY <1>1, <4>3
                <5> QED BY <1>6, <4>1, <5>1
            <4> QED BY <4>2, <4>3
        <3> QED BY <1>5, <2>2, <3>1, <3>2
    <2> QED BY <2>1, <2>2
<1>8. Asks(t, k, mid, load) \subseteq Regions /\ Asks(s, k + n, base, load) \subseteq Regions
    BY DEF Asks
<1> QED BY <1>7, <1>8

LEMMA TellsDropped ==
    ASSUME NEW x, NEW s \in Seq(Packets), NEW n, NEW t, Dropped(t, s, n),
           NEW base, Tells(base, x, s)
    PROVE  Tells(Asks(s, n, base, x.load), x, t)
<1> DEFINE mid == Asks(s, n, base, x.load)
<1>1. /\ n \in Nat /\ Len(t) \in Nat /\ Len(t) + n = Len(s) /\ DOMAIN t = 1 .. Len(t)
      /\ \A i \in DOMAIN t : i + n \in DOMAIN s /\ t[i] = s[i + n]
    BY DroppedPlaces
<1>2. Asks(t, Len(t), mid, x.load) = x.requested
    <2>1. Len(t) \in 0 .. Len(t)
        BY <1>1
    <2> QED BY <1>1, <2>1, AsksDropped DEF Tells
<1>3. ASSUME NEW k \in DOMAIN t, t[k].op = "COMMIT", t[k].load = x.load
      PROVE  t[k].epoch = Cardinality(Asks(t, k, mid, x.load))
    <2>1. k \in 0 .. Len(t)
        BY <1>1
    <2>2. Asks(t, k, mid, x.load) = Asks(s, k + n, base, x.load)
        BY <2>1, AsksDropped
    <2> QED BY <1>1, <1>3, <2>2 DEF Tells
<1> QED BY <1>2, <1>3 DEF Tells

LEMMA AsksNone ==
    ASSUME NEW s, NEW base \in SUBSET Regions, NEW load
    PROVE  Asks(s, 0, base, load) = base
BY DEF Asks

(* What one packet changes of it.                                          *)
LEMMA AsksOne ==
    ASSUME NEW s, NEW base \in SUBSET Regions, NEW load
    PROVE  /\ Asks(s, 1, base, load) \in SUBSET Regions
           /\ \A r \in Regions :
                /\ Says(s[1], "REQUEST", load, r) => Asks(s, 1, base, load) = base \cup {r}
                /\ Says(s[1], "RETIRE", load, r) => Asks(s, 1, base, load) = base \ {r}
           /\ s[1].load # load \/ s[1].op \notin {"REQUEST", "RETIRE"}
                 => Asks(s, 1, base, load) = base
<1> DEFINE one == Asks(s, 1, base, load)
<1>1. \A i \in 1 .. 1 : i = 1 /\ \A l : l \notin i + 1 .. 1
    OBVIOUS
<1>2. ASSUME NEW r \in Regions
      PROVE  r \in one <=> \/ r \in base /\ ~Says(s[1], "RETIRE", load, r)
                           \/ Says(s[1], "REQUEST", load, r)
    BY <1>1 DEF Asks
<1>3. one \in SUBSET Regions
    BY DEF Asks
<1> HIDE DEF one
<1>4. ASSUME NEW r \in Regions, Says(s[1], "REQUEST", load, r) PROVE one = base \cup {r}
    <2>1. \A q \in Regions : q \in one <=> q \in base \cup {r}
        BY <1>2, <1>4 DEF Says
    <2> QED BY <1>3, <2>1
<1>5. ASSUME NEW r \in Regions, Says(s[1], "RETIRE", load, r) PROVE one = base \ {r}
    <2>1. \A q \in Regions : q \in one <=> q \in base \ {r}
        BY <1>2, <1>5 DEF Says
    <2> QED BY <1>3, <2>1
<1>6. ASSUME s[1].load # load \/ s[1].op \notin {"REQUEST", "RETIRE"} PROVE one = base
    <2>1. \A q \in Regions : q \in one <=> q \in base
        BY <1>2, <1>6 DEF Says
    <2> QED BY <1>3, <2>1
<1> QED BY <1>3, <1>4, <1>5, <1>6 DEF one

(* An inbound queue is cleared.                                            *)
LEMMA LinkedFlushed ==
    ASSUME NEW h, NEW x, NEW j, NEW lane, NEW back, LinkTypes(h, x, j, lane, back),
           NEW t, NEW n, Dropped(t, lane, n), Linked(h, x, j, lane, back)
    PROVE  Linked(h, x, j, t, back)
<1>1. lane \in Seq(Packets)
    BY DEF LinkTypes
<1>2. Supply(h, t) /\ Matches(h, x, t)
    BY <1>1, SupplyDropped, MatchesDropped DEF Linked
<1> QED BY <1>2 DEF Linked

LEMMA LinkedUnheard ==
    ASSUME NEW h, NEW x, NEW j, NEW lane, NEW back, LinkTypes(h, x, j, lane, back),
           NEW t, NEW n, Dropped(t, back, n), Linked(h, x, j, lane, back),
           h.requested[j] = {}, j \notin h.committed
    PROVE  Linked(h, x, j, lane, t)
<1>1. back \in Seq(Packets)
    BY DEF LinkTypes
<1>2. Reports(h, x, t)
    BY <1>1, ReportsDropped DEF Linked
<1>3. Scoped(h, x, j, t)
    <2>1. PICK base \in SUBSET Regions : ScopedBy(base, h, x, j, back)
        BY DEF Linked, Scoped
    <2>2. Tells(Asks(back, n, base, x.load), x, t)
        BY <1>1, <2>1, TellsDropped DEF ScopedBy
    <2>3. Asks(back, n, base, x.load) \in SUBSET Regions
        BY DEF Asks
    <2>4. ScopedBy(Asks(back, n, base, x.load), h, x, j, t)
        BY <2>2 DEF ScopedBy
    <2> QED BY <2>3, <2>4 DEF Scoped
<1> QED BY <1>2, <1>3 DEF Linked

-----------------------------------------------------------------------------
(* The parts of the invariant when worlds come and go.                     *)
LEMMA LinkedHostLive ==
    ASSUME NEW g, NEW h, NEW x, NEW j, NEW lane, NEW back, LinkTypes(g, x, j, lane, back),
           NEW load, g = FreshHost(load, FALSE), h = FreshHost(load, TRUE),
           Linked(g, x, j, lane, back)
    PROVE  Linked(h, x, j, lane, back)
<1>1. /\ h.load = g.load /\ h.epoch = g.epoch /\ h.objects = g.objects
      /\ h.requested = g.requested /\ h.acked = g.acked /\ h.committed = g.committed
      /\ ~g.live /\ h.live
    BY DEF FreshHost
<1>2. \A k \in DOMAIN lane : lane[k].load <= h.load /\ lane[k].load # h.load
    BY <1>1 DEF Linked, Supply, Supplied
<1>3. Supply(h, lane)
    BY <1>2 DEF Supply, Supplied, Rising
<1>4. Matches(h, x, lane)
    <2>1. \A r \in Regions : Matched(g, x, r) => Matched(h, x, r)
        BY <1>1 DEF Matched
    <2>2. Matches(g, x, lane)
        BY DEF Linked
    <2> QED BY <1>1, <2>1, <2>2 DEF Matches
<1>5. Reports(h, x, back)
    BY <1>1 DEF Linked, Reports, Reported
<1>6. Known(h, x, j)
    BY <1>1 DEF Linked, Known
<1>7. Scoped(h, x, j, back)
    BY <1>1 DEF Linked, Scoped, ScopedBy
<1> QED BY <1>3, <1>4, <1>5, <1>6, <1>7 DEF Linked

(* A join that has forgotten all.                                          *)
Blank(y) ==
    /\ ~y.live /\ y.requested = {} /\ JoinKept(y)
    /\ \A r \in Regions : y.epoch[r] = 0 /\ y.snapshot[r].epoch = 0 /\ ~y.snapshot[r].whole

LEMMA FreshBlank ==
    ASSUME NEW load PROVE Blank(FreshJoin(load, FALSE)) /\ FreshJoin(load, FALSE).load = load
BY DEF FreshJoin, Zeroes, NoSnapshot, Blank, JoinKept

LEMMA LinkedGo ==
    ASSUME NEW h, NEW x, NEW y, NEW j, NEW lane, NEW back, LinkTypes(h, x, j, lane, back),
           y.load \in Nat, x.load < y.load, y.load <= h.load, Blank(y),
           Linked(h, x, j, lane, back)
    PROVE  Linked(h, y, j, lane, back)
<1>1. /\ h.load \in Nat /\ x.load \in Nat /\ y.load \in Nat /\ x.load < y.load
      /\ y.load <= h.load
    BY LinkFields
<1>2. /\ ~y.live /\ y.requested = {}
      /\ \A r \in Regions : /\ y.epoch[r] = 0 /\ y.snapshot[r].epoch = 0
                            /\ ~y.snapshot[r].whole
    BY DEF Blank
<1>3. JoinKept(y)
    BY DEF Blank
<1>4. Matches(h, y, lane)
    <2>1. ASSUME NEW r \in Regions PROVE Matched(h, y, r)
        <3>1. h.epoch[r] \in Nat /\ y.epoch[r] = 0 /\ y.snapshot[r].epoch = 0
            BY <1>2, LinkFields
        <3>2. ~y.snapshot[r].whole
            BY <1>2
        <3> QED BY <3>1, <3>2 DEF Matched
    <2>2. ASSUME y.load = h.load PROVE Ahead(y, lane, y.load)
        <3>1. SUFFICES ASSUME NEW k \in DOMAIN lane, lane[k].load = y.load
                       PROVE  /\ y.epoch[lane[k].region] <= lane[k].epoch
                              /\ y.snapshot[lane[k].region].epoch <= lane[k].epoch
            BY DEF Ahead
        <3>2. lane[k].epoch \in Nat
            BY LinkFields
        <3>3. lane[k].region \in Regions
            BY <2>2, <3>1 DEF Linked, Supply, Supplied
        <3>4. y.epoch[lane[k].region] = 0 /\ y.snapshot[lane[k].region].epoch = 0
            BY <1>2, <3>3
        <3> QED BY <3>2, <3>4
    <2> QED BY <2>1, <2>2 DEF Matches
<1>5. \A k \in DOMAIN back : /\ back[k].load \in Nat /\ back[k].load <= y.load
                             /\ back[k].load # y.load
    <2>1. \A k \in DOMAIN back : back[k].load \in Nat /\ back[k].load <= x.load
        BY LinkFields DEF Linked, Reports, Reported
    <2> QED BY <1>1, <2>1
<1>6. Reports(h, y, back)
    BY <1>5 DEF Reports, Reported
<1>7. /\ h.requested[j] = {} /\ j \notin h.committed
      /\ \A r \in Regions : h.acked[j][r] = 0
    BY <1>1 DEF Linked, Known
<1>8. Known(h, y, j)
    <2>1. ~y.live
        BY <1>2
    <2> QED BY <1>7, <2>1, Zenon DEF Known
<1>9. Scoped(h, y, j, back)
    <2>1. \A r \in Regions, op \in {"REQUEST", "RETIRE"} :
             \A k \in DOMAIN back : ~Says(back[k], op, y.load, r)
        BY <1>5 DEF Says
    <2>2. Asks(back, Len(back), {}, y.load) = {}
        <3>1. DOMAIN back = 1 .. Len(back)
            BY LinkFields
        <3> QED BY <2>1, <3>1 DEF Asks
    <2>3. Tells({}, y, back)
        BY <1>2, <1>5, <2>2 DEF Tells
    <2>4. ScopedBy({}, h, y, j, back)
        BY <1>7, <2>3 DEF ScopedBy
    <2> QED BY <2>4 DEF Scoped
<1> QED BY <1>3, <1>4, <1>6, <1>8, <1>9 DEF Linked

(* The world of a join comes up, with the scope reset.                     *)
Risen(x, y) ==
    /\ ~x.live /\ y.live /\ y.load = x.load /\ y.epoch = x.epoch /\ y.objects = x.objects
    /\ y.snapshot = x.snapshot /\ y.requested = x.requested /\ ~y.committed
    /\ \A r \in Regions : y.epoch[r] = 0

LEMMA FreshRisen ==
    ASSUME NEW load PROVE Risen(FreshJoin(load, FALSE), FreshJoin(load, TRUE))
BY DEF FreshJoin, Zeroes, Risen

LEMMA LinkedUp ==
    ASSUME NEW h, NEW x, NEW y, NEW j, NEW lane, NEW back, LinkTypes(h, x, j, lane, back),
           Risen(x, y), Linked(h, x, j, lane, back)
    PROVE  Linked(h, y, j, lane, back)
<1>2. /\ y.load = x.load /\ y.live /\ y.epoch = x.epoch /\ y.objects = x.objects
      /\ y.snapshot = x.snapshot /\ y.requested = x.requested /\ ~y.committed
      /\ ~x.live /\ \A r \in Regions : y.epoch[r] = 0
    BY DEF Risen
<1>3. JoinKept(y)
    BY <1>2 DEF JoinKept
<1>4. Matches(h, y, lane)
    BY <1>2 DEF Linked, Matches, Matched, Ahead
<1>5. \A k \in DOMAIN back : back[k].load <= y.load /\ back[k].load # y.load
    BY <1>2 DEF Linked, Reports, Reported
<1>6. Reports(h, y, back)
    BY <1>5 DEF Reports, Reported
<1>7. Known(h, y, j)
    <2>1. /\ h.requested[j] = {} /\ j \notin h.committed
          /\ \A r \in Regions : h.acked[j][r] = 0
        BY <1>2 DEF Linked, Known
    <2>2. \A r \in Regions : h.acked[j][r] <= y.epoch[r]
        BY <1>2, <2>1
    <2> QED BY <2>1, <2>2 DEF Known
<1>8. Scoped(h, y, j, back)
    BY <1>2 DEF Linked, Scoped, ScopedBy, Tells
<1> QED BY <1>3, <1>4, <1>6, <1>7, <1>8 DEF Linked

-----------------------------------------------------------------------------
(* A join takes a packet of a snapshot.                                    *)
LEMMA AcceptedShape ==
    ASSUME NEW s \in Snapshots, NEW m \in Packets
    PROVE  /\ Accepted(s, m) \in Snapshots
           /\ \/ Accepted(s, m) = s
              \/ /\ m.epoch > s.epoch /\ Accepted(s, m).epoch = m.epoch
                 /\ ~Accepted(s, m).whole
              \/ /\ m.op = "END" /\ m.epoch = s.epoch /\ Accepted(s, m).epoch = m.epoch
                 /\ Accepted(s, m).objects = m.objects
<1>1. m.epoch \in Nat /\ m.objects \in SUBSET Beds /\ s.epoch \in Nat
    BY DEF Packets, Snapshots
<1>2. CASE m.op = "BEGIN" /\ m.epoch > s.epoch
    <2>1. Accepted(s, m) = [NoSnapshot EXCEPT !.epoch = m.epoch]
        BY <1>2 DEF Accepted
    <2> QED BY <1>1, <1>2, <2>1 DEF NoSnapshot, Snapshots
<1>3. CASE m.op = "END" /\ m.epoch = s.epoch
    <2>1. Accepted(s, m) = [s EXCEPT !.whole = TRUE, !.acked = FALSE, !.objects = m.objects]
        BY <1>3 DEF Accepted
    <2> QED BY <1>1, <1>3, <2>1 DEF Snapshots
<1>4. CASE ~(m.op = "BEGIN" /\ m.epoch > s.epoch) /\ ~(m.op = "END" /\ m.epoch = s.epoch)
    BY <1>4 DEF Accepted
<1> QED BY <1>2, <1>3, <1>4

Took(x, y, m) ==
    \/ y = x
    \/ /\ m.load = x.load /\ m.region \in Regions
       /\ \E still \in SUBSET x.reconciled, committed \in BOOLEAN :
             /\ committed => x.committed
             /\ y = [x EXCEPT
                        !.snapshot = [x.snapshot EXCEPT
                                         ![m.region] = Accepted(x.snapshot[m.region], m)],
                        !.reconciled = still, !.committed = committed]

LEMMA TookShape ==
    ASSUME NEW x, NEW y, NEW m \in Packets, JoinOk(x), Took(x, y, m)
    PROVE  /\ JoinOk(y) /\ y.load = x.load /\ y.live = x.live /\ y.epoch = x.epoch
           /\ y.objects = x.objects /\ y.requested = x.requested /\ y.loaded = x.loaded
           /\ y.committed => x.committed
           /\ \A r \in Regions :
                \/ y.snapshot[r] = x.snapshot[r]
                \/ /\ m.load = x.load /\ m.region = r
                   /\ y.snapshot[r] = Accepted(x.snapshot[r], m)
<1>1. CASE y = x
    BY <1>1
<1>2. CASE y # x
    <2>1. m.load = x.load /\ m.region \in Regions /\ x \in JoinStates
        BY <1>2 DEF Took, JoinOk
    <2>2. PICK still \in SUBSET x.reconciled, committed \in BOOLEAN :
             /\ committed => x.committed
             /\ y = [x EXCEPT
                        !.snapshot = [x.snapshot EXCEPT
                                         ![m.region] = Accepted(x.snapshot[m.region], m)],
                        !.reconciled = still, !.committed = committed]
        BY <1>2 DEF Took
    <2> DEFINE s == [x.snapshot EXCEPT ![m.region] = Accepted(x.snapshot[m.region], m)]
    <2>3. x.snapshot \in [Regions -> Snapshots] /\ x.reconciled \subseteq Regions
        BY <2>1 DEF JoinStates
    <2>4. s \in [Regions -> Snapshots]
        BY <2>1, <2>3, AcceptedShape
    <2>5. \A r \in Regions : \/ s[r] = x.snapshot[r]
                             \/ m.region = r /\ s[r] = Accepted(x.snapshot[r], m)
        BY <2>1, <2>3
    <2>6. y = [x EXCEPT !.snapshot = s, !.reconciled = still, !.committed = committed]
        BY <2>2
    <2> HIDE DEF s
    <2>7. /\ y \in JoinStates /\ y.snapshot = s /\ y.reconciled = still
          /\ y.committed = committed /\ y.load = x.load /\ y.live = x.live
          /\ y.epoch = x.epoch /\ y.objects = x.objects /\ y.requested = x.requested
          /\ y.loaded = x.loaded /\ y.complete = x.complete
        BY <2>1, <2>3, <2>4, <2>6 DEF JoinStates
    <2>8. JoinOk(y)
        BY <2>7 DEF JoinOk
    <2>9. \A r \in Regions : \/ y.snapshot[r] = x.snapshot[r]
                             \/ /\ m.load = x.load /\ m.region = r
                                /\ y.snapshot[r] = Accepted(x.snapshot[r], m)
        BY <2>1, <2>5, <2>7
    <2>10. y.committed => x.committed
        BY <2>2, <2>7
    <2> QED BY <2>7, <2>8, <2>9, <2>10
<1> QED BY <1>1, <1>2

LEMMA LinkedTook ==
    ASSUME NEW h, NEW x, NEW y, NEW j, NEW lane, NEW back, LinkTypes(h, x, j, lane, back),
           lane # <<>>, Took(x, y, Head(lane)), x.live, Linked(h, x, j, lane, back)
    PROVE  Linked(h, y, j, Tail(lane), back)
<1>1. /\ lane \in Seq(Packets) /\ 1 \in DOMAIN lane /\ Head(lane) = lane[1]
      /\ lane[1] \in Packets /\ JoinOk(x) /\ Dropped(Tail(lane), lane, 1)
    <2>1. lane \in Seq(Packets) /\ JoinOk(x)
        BY DEF LinkTypes
    <2> QED BY <2>1, TailDropped
<1>0. Took(x, y, lane[1])
    BY <1>1
<1> DEFINE m == lane[1]
           t == Tail(lane)
<1>2. /\ JoinOk(y) /\ y.load = x.load /\ y.live = x.live /\ y.epoch = x.epoch
      /\ y.objects = x.objects /\ y.requested = x.requested /\ y.loaded = x.loaded
      /\ y.committed => x.committed
    <2>1. PICK p \in Packets : p = lane[1]
        BY <1>1
    <2>2. Took(x, y, p) /\ JoinOk(x)
        BY <1>0, <1>1, <2>1
    <2> HIDE DEF m, t
    <2> QED BY <2>2, TookShape
<1>3. \A r \in Regions : \/ y.snapshot[r] = x.snapshot[r]
                         \/ /\ m.load = x.load /\ m.region = r
                            /\ y.snapshot[r] = Accepted(x.snapshot[r], m)
    <2> HIDE DEF m
    <2>1. Took(x, y, m) /\ JoinOk(x) /\ m \in Packets
        BY <1>0, <1>1 DEF m
    <2> QED BY <2>1, TookShape
<1> HIDE DEF m
<1>4. Matches(h, y, t)
    <2>1. SUFFICES ASSUME x.load = h.load
                   PROVE  (\A r \in Regions : Matched(h, y, r)) /\ Ahead(y, t, x.load)
        BY <1>2 DEF Matches
    <2>2. /\ \A r \in Regions : Matched(h, x, r)
          /\ Ahead(x, lane, x.load) /\ Supply(h, lane) /\ Supplied(h, m)
        BY <1>1, <2>1 DEF Linked, Matches, Supply, m
    <2>3. ASSUME NEW r \in Regions, m.load = x.load, m.region = r,
                 y.snapshot[r] = Accepted(x.snapshot[r], m)
          PROVE  Matched(h, y, r)
        <3>1. /\ m.epoch \in Nat /\ x.epoch[r] \in Nat /\ h.epoch[r] \in Nat
              /\ x.snapshot[r] \in Snapshots /\ m \in Packets /\ x.snapshot[r].epoch \in Nat
            BY <1>1, LinkFields DEF m
        <3>2. /\ m.epoch <= h.epoch[r]
              /\ m.op = "END" /\ m.epoch = h.epoch[r] => m.objects = h.objects[r]
            BY <2>1, <2>2, <2>3 DEF Supplied
        <3>3. x.epoch[r] <= m.epoch
            BY <1>1, <2>2, <2>3 DEF Ahead, m
        <3>4. CASE Accepted(x.snapshot[r], m) = x.snapshot[r]
            BY <1>2, <2>2, <2>3, <3>4 DEF Matched
        <3>5. CASE /\ m.epoch > x.snapshot[r].epoch
                   /\ Accepted(x.snapshot[r], m).epoch = m.epoch
                   /\ ~Accepted(x.snapshot[r], m).whole
            BY <1>2, <2>2, <2>3, <3>2, <3>5 DEF Matched
        <3>6. CASE /\ m.op = "END" /\ m.epoch = x.snapshot[r].epoch
                   /\ Accepted(x.snapshot[r], m).epoch = m.epoch
                   /\ Accepted(x.snapshot[r], m).objects = m.objects
            BY <1>2, <2>2, <2>3, <3>2, <3>3, <3>6 DEF Matched
        <3> QED BY <3>1, <3>4, <3>5, <3>6, AcceptedShape
    <2>4. \A r \in Regions : Matched(h, y, r)
        <3>1. ASSUME NEW r \in Regions, y.snapshot[r] = x.snapshot[r] PROVE Matched(h, y, r)
            BY <1>2, <2>2, <3>1 DEF Matched
        <3> QED BY <1>3, <2>3, <3>1
    <2>5. ASSUME NEW k \in DOMAIN t, t[k].load = x.load
          PROVE  /\ y.epoch[t[k].region] <= t[k].epoch
                 /\ y.snapshot[t[k].region].epoch <= t[k].epoch
        <3>1. /\ k \in Nat /\ k + 1 \in DOMAIN lane /\ t[k] = lane[k + 1] /\ 1 < k + 1
            <4>0. Dropped(t, lane, 1) /\ lane \in Seq(Packets) /\ k \in DOMAIN t
                BY <1>1, <2>5
            <4> HIDE DEF t
            <4>1. k \in Nat /\ k + 1 \in DOMAIN lane /\ t[k] = lane[k + 1]
                BY <4>0, DroppedPlaces
            <4>2. DOMAIN t = 1 .. Len(t)
                BY <4>0, DroppedPlaces
            <4> QED BY <4>0, <4>1, <4>2
        <3>2. t[k].region \in Regions
            BY <2>1, <2>2, <2>5, <3>1 DEF Supply, Supplied
        <3>3. /\ x.epoch[t[k].region] <= t[k].epoch
              /\ x.snapshot[t[k].region].epoch <= t[k].epoch
            BY <2>2, <2>5, <3>1 DEF Ahead
        <3>4. ASSUME m.load = x.load, m.region = t[k].region PROVE m.epoch <= t[k].epoch
            BY <1>1, <2>1, <2>2, <2>5, <3>1, <3>4 DEF Supply, Rising, m
        <3>5. \/ y.snapshot[t[k].region].epoch = x.snapshot[t[k].region].epoch
              \/ /\ m.load = x.load /\ m.region = t[k].region
                 /\ y.snapshot[t[k].region].epoch = m.epoch
            <4> DEFINE r == t[k].region
            <4>1. r \in Regions /\ x.snapshot[r] \in Snapshots /\ m \in Packets
                BY <1>1, <3>2, LinkFields DEF m
            <4> HIDE DEF r
            <4>2. \/ y.snapshot[r].epoch = x.snapshot[r].epoch
                  \/ m.load = x.load /\ m.region = r /\ y.snapshot[r].epoch = m.epoch
                <5>1. \/ Accepted(x.snapshot[r], m).epoch = x.snapshot[r].epoch
                      \/ Accepted(x.snapshot[r], m).epoch = m.epoch
                    BY <4>1, AcceptedShape
                <5> QED BY <1>3, <4>1, <5>1
            <4> QED BY <4>2 DEF r
        <3> QED BY <1>2, <3>3, <3>4, <3>5
    <2> QED BY <2>4, <2>5 DEF Ahead
<1>5. Supply(h, t)
    BY <1>1, SupplyDropped DEF Linked
<1>6. JoinKept(y)
    BY <1>2 DEF Linked, JoinKept
<1>7. Reports(h, y, back)
    BY <1>2 DEF Linked, Reports, Reported
<1>8. Known(h, y, j)
    BY <1>2 DEF Linked, Known
<1>9. Scoped(h, y, j, back)
    BY <1>2 DEF Linked, Scoped, ScopedBy, Tells
<1> QED BY <1>4, <1>5, <1>6, <1>7, <1>8, <1>9 DEF Linked

-----------------------------------------------------------------------------
(* The host takes a packet of a join.                                      *)
Heard(g, h, j, m) ==
    /\ SameCatalog(g, h)
    /\ \/ m.load # g.load /\ SameFace(g, h, j)
       \/ /\ m.load = g.load /\ m.op = "REQUEST"
          /\ h.requested[j] = g.requested[j] \cup {m.region}
          /\ j \in h.committed => j \in g.committed /\ m.region \in g.requested[j]
          /\ \A r \in Regions : h.acked[j][r] = g.acked[j][r]
       \/ /\ m.load = g.load /\ m.op = "RETIRE"
          /\ h.requested[j] = g.requested[j] \ {m.region}
          /\ j \in h.committed => j \in g.committed /\ m.region \notin g.requested[j]
          /\ \A r \in Regions : h.acked[j][r] = g.acked[j][r] \/ h.acked[j][r] = 0
       \/ /\ m.load = g.load /\ m.op = "ACK"
          /\ h.requested[j] = g.requested[j] /\ (j \in h.committed <=> j \in g.committed)
          /\ \A r \in Regions : \/ h.acked[j][r] = g.acked[j][r]
                                \/ m.region = r /\ h.acked[j][r] = m.epoch
       \/ /\ m.load = g.load /\ m.op = "COMMIT"
          /\ h.requested[j] = g.requested[j]
          /\ j \in h.committed => \/ j \in g.committed
                                  \/ m.epoch = Cardinality(g.requested[j])
          /\ \A r \in Regions : h.acked[j][r] = g.acked[j][r]

(* A packet of the host's load is of a join that is alive in that load.    *)
LEMMA HeardAlive ==
    ASSUME NEW g, NEW x, NEW j, NEW lane, NEW back, LinkTypes(g, x, j, lane, back),
           NEW m, m.load = g.load, Reported(g, x, m)
    PROVE  x.load = g.load /\ x.live
BY LinkFields DEF Reported

LEMMA HeardKnown ==
    ASSUME NEW g, NEW h, NEW x, NEW j, NEW lane, NEW back, LinkTypes(g, x, j, lane, back),
           NEW m, Heard(g, h, j, m), Reported(g, x, m), Known(g, x, j)
    PROVE  Known(h, x, j)
<1>1. h.load = g.load
    BY DEF Heard, SameCatalog
<1>2. CASE m.load # g.load
    <2>1. SameCatalog(g, h) /\ SameFace(g, h, j)
        BY <1>2 DEF Heard
    <2> QED BY <2>1, KnownSame
<1>3. CASE m.load = g.load
    <2>1. x.load = g.load /\ x.live
        BY <1>3, HeardAlive
    <2>2. \A r \in Regions : x.epoch[r] \in Nat /\ g.acked[j][r] <= x.epoch[r]
        BY <2>1, LinkFields DEF Known
    <2>3. ASSUME NEW r \in Regions PROVE h.acked[j][r] <= x.epoch[r]
        <3>1. \/ h.acked[j][r] = g.acked[j][r] \/ h.acked[j][r] = 0
              \/ m.op = "ACK" /\ m.region = r /\ h.acked[j][r] = m.epoch
            BY <1>3 DEF Heard
        <3>2. m.op = "ACK" /\ m.region = r => m.epoch <= x.epoch[r]
            BY <1>3, <2>1 DEF Reported
        <3> QED BY <2>2, <3>1, <3>2
    <2> QED BY <1>1, <2>1, <2>3 DEF Known
<1> QED BY <1>2, <1>3

LEMMA CountedSame ==
    ASSUME NEW S \in SUBSET Regions, NEW T \in SUBSET Regions, S \subseteq T,
           Cardinality(S) = Cardinality(T)
    PROVE  S = T
<1>1. IsFiniteSet(T)
    BY RegionsFinite
<1> QED BY <1>1, FS_Subset

LEMMA HeardScoped ==
    ASSUME NEW g, NEW h, NEW x, NEW j, NEW lane, NEW back, LinkTypes(g, x, j, lane, back),
           back # <<>>, Heard(g, h, j, back[1]), Reported(g, x, back[1]),
           NEW base \in SUBSET Regions, ScopedBy(base, g, x, j, back)
    PROVE  ScopedBy(Asks(back, 1, base, x.load), h, x, j, Tail(back))
<1> DEFINE mid == Asks(back, 1, base, x.load)
           m == back[1]
<1>1. /\ back \in Seq(Packets) /\ 1 \in DOMAIN back /\ Dropped(Tail(back), back, 1)
      /\ h.load = g.load /\ g.requested[j] \in SUBSET Regions
    <2>1. back \in Seq(Packets)
        BY DEF LinkTypes
    <2>2. 1 \in DOMAIN back
        BY <2>1
    <2> QED BY <2>1, <2>2, TailDropped, LinkFields DEF Heard, SameCatalog
<1>2. Tells(mid, x, Tail(back))
    BY <1>1, TellsDropped DEF ScopedBy
<1>3. mid \in SUBSET Regions
    BY AsksOne
<1> HIDE DEF m, mid
<1>4. ASSUME x.load = g.load
      PROVE  h.requested[j] \subseteq mid /\ (j \in h.committed => h.requested[j] = mid)
    <2>1. /\ g.requested[j] \subseteq base
          /\ j \in g.committed => g.requested[j] = base
        BY <1>4 DEF ScopedBy
    <2>2. CASE m.load # g.load
        <3>1. mid = base
            BY <1>4, <2>2, AsksOne DEF m, mid
        <3> QED BY <2>1, <2>2, <3>1 DEF Heard, SameFace, m
    <2>3. CASE m.load = g.load /\ m.op = "REQUEST"
        <3>1. m.region \in Regions
            BY <1>4, <2>3 DEF Reported, m
        <3>2. mid = base \cup {m.region}
            BY <1>4, <2>3, <3>1, AsksOne DEF Says, m, mid
        <3>3. /\ h.requested[j] = g.requested[j] \cup {m.region}
              /\ j \in h.committed => j \in g.committed /\ m.region \in g.requested[j]
            BY <2>3 DEF Heard, m
        <3> QED BY <2>1, <3>2, <3>3
    <2>4. CASE m.load = g.load /\ m.op = "RETIRE"
        <3>1. m.region \in Regions
            BY <1>4, <2>4 DEF Reported, m
        <3>2. mid = base \ {m.region}
            BY <1>4, <2>4, <3>1, AsksOne DEF Says, m, mid
        <3>3. /\ h.requested[j] = g.requested[j] \ {m.region}
              /\ j \in h.committed => j \in g.committed /\ m.region \notin g.requested[j]
            BY <2>4 DEF Heard, m
        <3> QED BY <2>1, <3>2, <3>3
    <2>5. CASE m.load = g.load /\ m.op = "ACK"
        <3>1. mid = base
            <4>1. m.op \notin {"REQUEST", "RETIRE"}
                BY <2>5
            <4> QED BY <4>1, AsksOne DEF m, mid
        <3> QED BY <2>1, <2>5, <3>1 DEF Heard, m
    <2>6. CASE m.load = g.load /\ m.op = "COMMIT"
        <3>1. mid = base
            <4>1. m.op \notin {"REQUEST", "RETIRE"}
                BY <2>6
            <4> QED BY <4>1, AsksOne DEF m, mid
        <3>2. m.epoch = Cardinality(base)
            <4>1. m.epoch = Cardinality(mid)
                BY <1>1, <1>4, <2>6 DEF ScopedBy, Tells, m, mid
            <4> QED BY <3>1, <4>1
        <3>3. /\ h.requested[j] = g.requested[j]
              /\ j \in h.committed => \/ j \in g.committed
                                      \/ m.epoch = Cardinality(g.requested[j])
            BY <2>6 DEF Heard, m
        <3>4. m.epoch = Cardinality(g.requested[j]) => g.requested[j] = base
            BY <1>1, <2>1, <3>2, CountedSame
        <3> QED BY <2>1, <3>1, <3>3, <3>4
    <2>7. \/ m.load # g.load \/ m.op = "REQUEST" \/ m.op = "RETIRE" \/ m.op = "ACK"
          \/ m.op = "COMMIT"
        BY DEF Heard, m
    <2> QED BY <2>2, <2>3, <2>4, <2>5, <2>6, <2>7
<1>5. ScopedBy(mid, h, x, j, Tail(back))
    BY <1>1, <1>2, <1>4 DEF ScopedBy
<1> QED BY <1>5 DEF mid

LEMMA LinkedHeard ==
    ASSUME NEW g, NEW h, NEW x, NEW j, NEW lane, NEW back, LinkTypes(g, x, j, lane, back),
           back # <<>>, Heard(g, h, j, Head(back)), Linked(g, x, j, lane, back)
    PROVE  Linked(h, x, j, lane, Tail(back))
<1>1. back \in Seq(Packets) /\ 1 \in DOMAIN back /\ Dropped(Tail(back), back, 1)
    <2>1. back \in Seq(Packets)
        BY DEF LinkTypes
    <2> QED BY <2>1, TailDropped
<1>2. Heard(g, h, j, back[1])
    BY <1>1
<1>3. Reported(g, x, back[1]) /\ SameCatalog(g, h)
    BY <1>1, <1>2 DEF Linked, Reports, Heard
<1>4. Known(h, x, j)
    BY <1>2, <1>3, HeardKnown DEF Linked
<1>5. Scoped(h, x, j, Tail(back))
    <2>1. PICK base \in SUBSET Regions : ScopedBy(base, g, x, j, back)
        BY DEF Linked, Scoped
    <2>2. ScopedBy(Asks(back, 1, base, x.load), h, x, j, Tail(back))
        BY <1>2, <1>3, <2>1, HeardScoped
    <2>3. Asks(back, 1, base, x.load) \in SUBSET Regions
        BY AsksOne
    <2> QED BY <2>2, <2>3 DEF Scoped
<1>6. Reports(h, x, Tail(back))
    <2>1. Reports(g, x, Tail(back))
        BY <1>1, ReportsDropped DEF Linked
    <2> QED BY <1>3, <2>1, ReportsSame
<1>7. Supply(h, lane) /\ Matches(h, x, lane)
    BY <1>3, SupplySame, MatchesSame DEF Linked
<1> QED BY <1>4, <1>5, <1>6, <1>7 DEF Linked

-----------------------------------------------------------------------------
(* A join scans.                                                           *)
LEMMA ScannedMatches ==
    ASSUME NEW h, NEW x, NEW y, NEW j, NEW lane, NEW back, LinkTypes(h, x, j, lane, back),
           Rescanned(x, y), x.load = h.load, Matches(h, x, lane), Supply(h, lane)
    PROVE  /\ \A r \in Regions : x.epoch[r] <= y.epoch[r]
           /\ \A r \in Regions : Matched(h, y, r)
           /\ Ahead(y, lane, y.load)
<1>1. ASSUME NEW r \in Regions
      PROVE  /\ h.epoch[r] \in Nat /\ x.epoch[r] \in Nat /\ x.snapshot[r].epoch \in Nat
             /\ Matched(h, x, r)
             /\ \/ /\ y.snapshot[r].epoch = x.snapshot[r].epoch
                   /\ y.snapshot[r].whole = x.snapshot[r].whole
                   /\ y.snapshot[r].objects = x.snapshot[r].objects
                \/ y.snapshot[r].epoch = 0 /\ ~y.snapshot[r].whole
             /\ \/ y.epoch[r] = x.epoch[r] /\ y.objects[r] = x.objects[r]
                \/ /\ y.snapshot[r].whole /\ y.epoch[r] = y.snapshot[r].epoch
                   /\ y.objects[r] = y.snapshot[r].objects
    BY LinkFields DEF Rescanned, Matches
<1>2. ASSUME NEW r \in Regions
      PROVE  /\ x.epoch[r] <= y.epoch[r] /\ y.epoch[r] \in Nat /\ y.snapshot[r].epoch \in Nat
             /\ y.snapshot[r].epoch <= x.snapshot[r].epoch
             /\ y.epoch[r] <= x.epoch[r] \/ y.epoch[r] <= x.snapshot[r].epoch
             /\ Matched(h, y, r)
    <2>1. CASE y.snapshot[r].epoch = 0 /\ ~y.snapshot[r].whole
        BY <1>1, <2>1 DEF Matched
    <2>2. CASE /\ y.snapshot[r].epoch = x.snapshot[r].epoch
               /\ y.snapshot[r].whole = x.snapshot[r].whole
               /\ y.snapshot[r].objects = x.snapshot[r].objects
        <3>1. CASE y.epoch[r] = x.epoch[r] /\ y.objects[r] = x.objects[r]
            BY <1>1, <2>2, <3>1 DEF Matched
        <3>2. CASE /\ y.snapshot[r].whole /\ y.epoch[r] = y.snapshot[r].epoch
                   /\ y.objects[r] = y.snapshot[r].objects
            BY <1>1, <2>2, <3>2 DEF Matched
        <3> QED BY <1>1, <3>1, <3>2
    <2> QED BY <1>1, <2>1, <2>2
<1>3. ASSUME NEW k \in DOMAIN lane, lane[k].load = y.load
      PROVE  /\ y.epoch[lane[k].region] <= lane[k].epoch
             /\ y.snapshot[lane[k].region].epoch <= lane[k].epoch
    <2> DEFINE r == lane[k].region
    <2>1. y.load = x.load /\ lane[k].epoch \in Nat
        BY LinkFields DEF Rescanned
    <2>2. x.epoch[r] <= lane[k].epoch /\ x.snapshot[r].epoch <= lane[k].epoch
        BY <1>3, <2>1 DEF Matches, Ahead
    <2>3. r \in Regions /\ x.epoch[r] \in Nat /\ x.snapshot[r].epoch \in Nat
        <3>1. r \in Regions
            BY <1>3, <2>1 DEF Supply, Supplied
        <3> QED BY <1>1, <3>1
    <2>4. /\ y.epoch[r] \in Nat /\ y.snapshot[r].epoch \in Nat
          /\ y.snapshot[r].epoch <= x.snapshot[r].epoch
          /\ y.epoch[r] <= x.epoch[r] \/ y.epoch[r] <= x.snapshot[r].epoch
        BY <1>2, <2>3
    <2> HIDE DEF r
    <2>5. y.epoch[r] <= lane[k].epoch /\ y.snapshot[r].epoch <= lane[k].epoch
        BY <2>1, <2>2, <2>3, <2>4
    <2> QED BY <2>5 DEF r
<1> QED BY <1>2, <1>3 DEF Ahead

LEMMA AsksBefore ==
    ASSUME NEW s \in Seq(Packets), NEW a \in Seq(Packets), NEW u, Extended(u, s, a),
           NEW base, NEW load, NEW k \in 0 .. Len(s)
    PROVE  Asks(u, k, base, load) = Asks(s, k, base, load)
<1>1. Len(s) \in Nat
    OBVIOUS
<1>2. \A i \in 1 .. k : u[i] = s[i]
    <2>1. \A i \in 1 .. k : i \in 1 .. Len(s)
        BY <1>1
    <2> QED BY <2>1 DEF Extended
<1>3. ASSUME NEW r \in Regions
      PROVE  r \in Asks(u, k, base, load) <=> r \in Asks(s, k, base, load)
    <2>1. ASSUME NEW i \in 1 .. k
          PROVE  (\A l \in i + 1 .. k : ~Says(u[l], "RETIRE", load, r))
                    <=> \A l \in i + 1 .. k : ~Says(s[l], "RETIRE", load, r)
        <3>1. \A l \in i + 1 .. k : l \in 1 .. k
            BY <1>1
        <3> QED BY <1>2, <3>1
    <2>2. (\A i \in 1 .. k : ~Says(u[i], "RETIRE", load, r))
             <=> \A i \in 1 .. k : ~Says(s[i], "RETIRE", load, r)
        BY <1>2
    <2>3. (\E i \in 1 .. k : /\ Says(u[i], "REQUEST", load, r)
                             /\ \A l \in i + 1 .. k : ~Says(u[l], "RETIRE", load, r))
             <=> \E i \in 1 .. k : /\ Says(s[i], "REQUEST", load, r)
                                   /\ \A l \in i + 1 .. k : ~Says(s[l], "RETIRE", load, r)
        BY <1>2, <2>1
    <2>4. r \in Asks(u, k, base, load)
             <=> \/ r \in base /\ \A i \in 1 .. k : ~Says(u[i], "RETIRE", load, r)
                 \/ \E i \in 1 .. k : /\ Says(u[i], "REQUEST", load, r)
                                      /\ \A l \in i + 1 .. k : ~Says(u[l], "RETIRE", load, r)
        BY DEF Asks
    <2>5. r \in Asks(s, k, base, load)
             <=> \/ r \in base /\ \A i \in 1 .. k : ~Says(s[i], "RETIRE", load, r)
                 \/ \E i \in 1 .. k : /\ Says(s[i], "REQUEST", load, r)
                                      /\ \A l \in i + 1 .. k : ~Says(s[l], "RETIRE", load, r)
        BY DEF Asks
    <2> QED BY <2>2, <2>3, <2>4, <2>5, Zenon
<1>4. Asks(u, k, base, load) \subseteq Regions /\ Asks(s, k, base, load) \subseteq Regions
    BY DEF Asks
<1> QED BY <1>3, <1>4

(* The packets of a scan: each retires a region of gone or asks for one of *)
(* asked, and no region is in both.                                        *)
Block(a, load, gone, asked) ==
    /\ gone \subseteq Regions /\ asked \subseteq Regions /\ gone \cap asked = {}
    /\ \A k \in DOMAIN a : \A r \in Regions :
         /\ Says(a[k], "RETIRE", load, r) => r \in gone
         /\ Says(a[k], "REQUEST", load, r) => r \in asked
    /\ \A r \in gone : \E k \in DOMAIN a : Says(a[k], "RETIRE", load, r)
    /\ \A r \in asked : \E k \in DOMAIN a : Says(a[k], "REQUEST", load, r)

LEMMA AsksBlock ==
    ASSUME NEW a \in Seq(Packets), NEW base \in SUBSET Regions, NEW load,
           NEW gone, NEW asked, Block(a, load, gone, asked)
    PROVE  Asks(a, Len(a), base, load) = (base \ gone) \cup asked
<1>1. DOMAIN a = 1 .. Len(a) /\ Len(a) \in Nat
    OBVIOUS
<1> USE DEF Block
<1>2. ASSUME NEW r \in Regions
      PROVE  r \in Asks(a, Len(a), base, load) <=> r \in (base \ gone) \cup asked
    <2>1. (\A i \in 1 .. Len(a) : ~Says(a[i], "RETIRE", load, r)) <=> r \notin gone
        BY <1>1
    <2>2. (\E i \in 1 .. Len(a) : /\ Says(a[i], "REQUEST", load, r)
                                  /\ \A l \in i + 1 .. Len(a) : ~Says(a[l], "RETIRE", load, r))
             <=> r \in asked
        <3>1. ASSUME r \in asked
              PROVE  \E i \in 1 .. Len(a) :
                        /\ Says(a[i], "REQUEST", load, r)
                        /\ \A l \in i + 1 .. Len(a) : ~Says(a[l], "RETIRE", load, r)
            <4>1. PICK i \in 1 .. Len(a) : Says(a[i], "REQUEST", load, r)
                BY <1>1, <3>1
            <4>2. \A l \in i + 1 .. Len(a) : l \in 1 .. Len(a)
                BY <1>1
            <4>3. \A l \in 1 .. Len(a) : ~Says(a[l], "RETIRE", load, r)
                BY <2>1, <3>1
            <4> QED BY <4>1, <4>2, <4>3
        <3> QED BY <1>1, <3>1
    <2>3. r \in Asks(a, Len(a), base, load)
             <=> \/ r \in base /\ \A i \in 1 .. Len(a) : ~Says(a[i], "RETIRE", load, r)
                 \/ \E i \in 1 .. Len(a) :
                       /\ Says(a[i], "REQUEST", load, r)
                       /\ \A l \in i + 1 .. Len(a) : ~Says(a[l], "RETIRE", load, r)
        BY DEF Asks
    <2>4. r \in Asks(a, Len(a), base, load) <=> (r \in base /\ r \notin gone) \/ r \in asked
        BY <2>1, <2>2, <2>3, Zenon
    <2> QED BY <2>4
<1>3. Asks(a, Len(a), base, load) \subseteq Regions
    BY DEF Asks
<1> QED BY <1>2, <1>3

LEMMA ExtendedDropped ==
    ASSUME NEW s \in Seq(Packets), NEW a \in Seq(Packets), NEW u, Extended(u, s, a)
    PROVE  Dropped(a, u, Len(s))
<1>1. Len(s) \in Nat /\ Len(a) \in Nat /\ Len(u) = Len(s) + Len(a)
    BY DEF Extended
<1>2. Len(s) \in 0 .. Len(u) /\ Len(a) = Len(u) - Len(s)
    BY <1>1
<1> QED BY <1>2 DEF Extended, Dropped

LEMMA AsksExtended ==
    ASSUME NEW s \in Seq(Packets), NEW a \in Seq(Packets), NEW u, Extended(u, s, a),
           NEW base \in SUBSET Regions, NEW load
    PROVE  Asks(u, Len(u), base, load)
              = Asks(a, Len(a), Asks(s, Len(s), base, load), load)
<1>1. Len(s) \in Nat /\ Len(a) \in Nat /\ Len(u) = Len(a) + Len(s)
    BY DEF Extended
<1>2. Dropped(a, u, Len(s))
    BY ExtendedDropped
<1>3. Len(a) \in 0 .. Len(a) /\ Len(s) \in 0 .. Len(s)
    BY <1>1
<1>4. u \in Seq(Packets)
    BY DEF Extended
<1>5. Asks(a, Len(a), Asks(u, Len(s), base, load), load)
         = Asks(u, Len(a) + Len(s), base, load)
    BY <1>2, <1>3, <1>4, AsksDropped
<1>6. Asks(u, Len(s), base, load) = Asks(s, Len(s), base, load)
    BY <1>3, AsksBefore
<1> QED BY <1>1, <1>5, <1>6

LEMMA ScannedScoped ==
    ASSUME NEW h, NEW x, NEW y, NEW j, NEW lane, NEW back, LinkTypes(h, x, j, lane, back),
           y.load = x.load, NEW gone, NEW asked, NEW sent, Sent(x, y, gone, asked, sent),
           NEW u, Extended(u, back, sent), NEW base \in SUBSET Regions,
           ScopedBy(base, h, x, j, back)
    PROVE  ScopedBy(base, h, y, j, u)
<1>1. /\ back \in Seq(Packets) /\ sent \in Seq(Packets) /\ Len(back) \in Nat
      /\ Len(sent) \in Nat /\ DOMAIN sent = 1 .. Len(sent) /\ DOMAIN u = 1 .. Len(u)
      /\ Len(u) = Len(back) + Len(sent)
    BY DEF LinkTypes, Sent, Extended
<1>2. Asks(back, Len(back), base, x.load) = x.requested /\ x.requested \in SUBSET Regions
    BY LinkFields DEF ScopedBy, Tells
<1>3. \A k \in DOMAIN sent, r \in Regions :
          /\ Says(sent[k], "RETIRE", x.load, r) => r \in gone
          /\ Says(sent[k], "REQUEST", x.load, r) => r \in asked
    BY DEF Sent, Told, Says
<1>4. Asks(sent, Len(sent), x.requested, x.load) = (x.requested \ gone) \cup asked
    <2>1. Block(sent, x.load, gone, asked)
        BY <1>3 DEF Sent, Block
    <2> QED BY <1>1, <1>2, <2>1, AsksBlock
<1>5. Asks(u, Len(u), base, x.load) = y.requested
    BY <1>1, <1>2, <1>4, AsksExtended DEF Sent
<1>6. ASSUME NEW k \in DOMAIN u, u[k].op = "COMMIT", u[k].load = x.load
      PROVE  u[k].epoch = Cardinality(Asks(u, k, base, x.load))
    <2>1. CASE k <= Len(back)
        <3>1. k \in 1 .. Len(back) /\ k \in 0 .. Len(back) /\ k \in DOMAIN back
            BY <1>1, <2>1
        <3>2. u[k] = back[k]
            BY <3>1 DEF Extended
        <3>3. Asks(u, k, base, x.load) = Asks(back, k, base, x.load)
            BY <1>1, <3>1, AsksBefore
        <3> QED BY <1>6, <3>1, <3>2, <3>3 DEF ScopedBy, Tells
    <2>2. CASE ~(k <= Len(back))
        <3>1. k > Len(back) /\ k \in 1 .. Len(u)
            BY <1>1, <2>2
        <3>2. k - Len(back) \in DOMAIN sent /\ u[k] = sent[k - Len(back)]
            BY <1>1, <3>1 DEF Extended
        <3>3. k - Len(back) = Len(sent)
            BY <1>6, <3>2 DEF Sent
        <3>4. u[k].epoch = Cardinality(y.requested)
            BY <1>6, <3>2 DEF Sent, Told
        <3>5. k = Len(u)
            BY <1>1, <3>1, <3>3
        <3> QED BY <1>5, <3>4, <3>5
    <2> QED BY <2>1, <2>2
<1> QED BY <1>5, <1>6 DEF ScopedBy, Tells

LEMMA ScannedReports ==
    ASSUME NEW h, NEW x, NEW y, NEW j, NEW lane, NEW back, LinkTypes(h, x, j, lane, back),
           Rescanned(x, y), x.live, NEW gone, NEW asked, NEW sent,
           Sent(x, y, gone, asked, sent), NEW u, Extended(u, back, sent),
           Reports(h, x, back), x.load = h.load => \A r \in Regions : x.epoch[r] <= y.epoch[r]
    PROVE  Reports(h, y, u)
<1>1. /\ Len(back) \in Nat /\ DOMAIN sent = 1 .. Len(sent) /\ DOMAIN u = 1 .. Len(u)
      /\ DOMAIN back = 1 .. Len(back) /\ y.load = x.load /\ y.live = x.live /\ x.load \in Nat
    BY LinkFields DEF Sent, Extended, Rescanned
<1>2. SUFFICES ASSUME NEW k \in DOMAIN u PROVE Reported(h, y, u[k])
    BY DEF Reports
<1>3. CASE k <= Len(back)
    <2>1. k \in 1 .. Len(back) /\ k \in DOMAIN back
        BY <1>1, <1>3
    <2>2. u[k] = back[k] /\ Reported(h, x, back[k]) /\ back[k].epoch \in Nat
        BY <2>1, LinkFields DEF Extended, Reports
    <2>3. PICK m : m = u[k]
        OBVIOUS
    <2>4. Reported(h, x, m) /\ m.epoch \in Nat
        BY <2>2, <2>3
    <2>5. ASSUME m.load = y.load, y.load = h.load, m.op = "ACK"
          PROVE  m.epoch <= y.epoch[m.region]
        <3>1. m.region \in Regions /\ m.epoch <= x.epoch[m.region]
            BY <1>1, <2>4, <2>5 DEF Reported
        <3>2. /\ x.epoch[m.region] <= y.epoch[m.region] /\ x.epoch[m.region] \in Nat
              /\ y.epoch[m.region] \in Nat
            BY <1>1, <2>5, <3>1, LinkFields DEF Rescanned, JoinOk, JoinStates
        <3> QED BY <2>4, <3>1, <3>2
    <2>6. Reported(h, y, m)
        BY <1>1, <2>4, <2>5 DEF Reported
    <2> QED BY <2>3, <2>6
<1>4. CASE ~(k <= Len(back))
    <2>1. k > Len(back) /\ k \in 1 .. Len(u)
        BY <1>1, <1>4
    <2>2. k - Len(back) \in DOMAIN sent /\ u[k] = sent[k - Len(back)]
        BY <1>1, <2>1 DEF Extended
    <2>3. Told(u[k], x.load, y, gone, asked)
        BY <2>2 DEF Sent
    <2>4. PICK m : m = u[k]
        OBVIOUS
    <2>5. Told(m, x.load, y, gone, asked) /\ gone \subseteq Regions /\ asked \subseteq Regions
        BY <2>3, <2>4 DEF Sent
    <2>6. /\ m.load = y.load
          /\ m.op \in {"REQUEST", "RETIRE", "ACK"} => m.region \in Regions
        BY <1>1, <2>5 DEF Told
    <2>7. m.op = "ACK" => m.epoch <= y.epoch[m.region]
        <3>1. \A r \in Regions : y.epoch[r] \in Nat
            BY DEF Rescanned, JoinOk, JoinStates
        <3>2. m.op = "ACK" => m.region \in Regions /\ m.epoch = y.epoch[m.region]
            BY <2>5 DEF Told
        <3> QED BY <3>1, <3>2
    <2>8. Reported(h, y, m)
        BY <1>1, <2>6, <2>7 DEF Reported
    <2> QED BY <2>4, <2>8
<1> QED BY <1>3, <1>4

LEMMA LinkedScanned ==
    ASSUME NEW h, NEW x, NEW y, NEW j, NEW lane, NEW back, LinkTypes(h, x, j, lane, back),
           Rescanned(x, y), x.live, NEW gone, NEW asked, NEW sent,
           Sent(x, y, gone, asked, sent), NEW u, Extended(u, back, sent),
           Linked(h, x, j, lane, back)
    PROVE  Linked(h, y, j, lane, u)
<1>1. y.load = x.load /\ y.live = x.live /\ (y.committed => y.requested = y.loaded)
    BY DEF Rescanned
<1>2. JoinKept(y)
    BY <1>1 DEF JoinKept
<1>3. ASSUME x.load = h.load
      PROVE  /\ \A r \in Regions : x.epoch[r] <= y.epoch[r]
             /\ \A r \in Regions : Matched(h, y, r)
             /\ Ahead(y, lane, y.load)
    BY <1>3, ScannedMatches DEF Linked
<1>4. Matches(h, y, lane)
    BY <1>1, <1>3 DEF Matches
<1>5. Reports(h, y, u)
    BY <1>3, ScannedReports DEF Linked
<1>6. Known(h, y, j)
    <2>1. CASE x.load = h.load
        <3>1. \A r \in Regions : /\ h.acked[j][r] \in Nat /\ x.epoch[r] \in Nat
                                 /\ h.acked[j][r] <= x.epoch[r]
            BY <2>1, LinkFields DEF Linked, Known
        <3>2. \A r \in Regions : y.epoch[r] \in Nat
            BY DEF Rescanned, JoinOk, JoinStates
        <3>3. \A r \in Regions : h.acked[j][r] <= y.epoch[r]
            BY <1>3, <2>1, <3>1, <3>2
        <3> QED BY <1>1, <2>1, <3>3 DEF Known
    <2>2. CASE x.load # h.load
        BY <1>1, <2>2 DEF Linked, Known
    <2> QED BY <2>1, <2>2
<1>7. Scoped(h, y, j, u)
    <2>1. PICK base \in SUBSET Regions : ScopedBy(base, h, x, j, back)
        BY DEF Linked, Scoped
    <2>2. ScopedBy(base, h, y, j, u)
        BY <1>1, <2>1, ScannedScoped
    <2> QED BY <2>2 DEF Scoped
<1> QED BY <1>2, <1>4, <1>5, <1>6, <1>7 DEF Linked

(* What a scan of a join does.                                             *)
JoinScanned(j) ==
    /\ EngineTypes' /\ join[j].live /\ UNCHANGED <<host, down>>
    /\ \E gone, asked, sent :
         /\ Rescanned(join[j], join'[j]) /\ Sent(join[j], join'[j], gone, asked, sent)
         /\ join' = [join EXCEPT ![j] = join'[j]]
         /\ up' = [up EXCEPT ![j] = up[j] \o sent]

LEMMA ScanFaultType ==
    ASSUME EngineTypes, NEW faulty, ScanFault(faulty) PROVE upsets' \in 0 .. MaxUpsets
<1>1. upsets \in 0 .. MaxUpsets /\ MaxUpsets \in Nat
    BY ScopeAssumption DEF EngineTypes
<1>2. CASE faulty
    <2>1. upsets < MaxUpsets /\ upsets' = upsets + 1
        BY <1>2 DEF ScanFault
    <2> QED BY <1>1, <2>1
<1>3. CASE ~faulty
    BY <1>1, <1>3 DEF ScanFault
<1> QED BY <1>2, <1>3

(* What a scan makes of the join: J is the join after its census.          *)
Made(J, beds, read, done, acks, gone, fresh, still, committed) ==
    [J EXCEPT
        !.census = still,
        !.requested = (@ \ gone) \cup fresh,
        !.reconciled = (@ \ read) \cup done,
        !.committed = committed,
        !.epoch = [r \in Regions |-> IF r \in done THEN J.snapshot[r].epoch ELSE @[r]],
        !.objects = [r \in Regions |-> IF r \in done THEN beds[r] ELSE @[r]],
        !.snapshot = [r \in Regions |->
            IF r \in acks THEN [@[r] EXCEPT !.acked = TRUE] ELSE @[r]]]

Rewritten(J, census, requested, reconciled, committed, epoch, objects, snapshot) ==
    [J EXCEPT !.census = census, !.requested = requested, !.reconciled = reconciled,
              !.committed = committed, !.epoch = epoch, !.objects = objects,
              !.snapshot = snapshot]

LEMMA FieldsMade ==
    ASSUME NEW J \in JoinStates, NEW census \in BOOLEAN, NEW requested \in SUBSET Regions,
           NEW reconciled \in SUBSET Regions, NEW committed \in BOOLEAN,
           NEW epoch \in [Regions -> Nat], NEW objects \in BedRows,
           NEW snapshot \in [Regions -> Snapshots],
           NEW y, y = Rewritten(J, census, requested, reconciled, committed, epoch,
                                objects, snapshot)
    PROVE  /\ y \in JoinStates /\ y.load = J.load /\ y.live = J.live
           /\ y.requested = requested /\ y.reconciled = reconciled
           /\ y.committed = committed /\ y.epoch = epoch /\ y.objects = objects
           /\ y.snapshot = snapshot /\ y.complete = J.complete /\ y.loaded = J.loaded
BY DEF JoinStates, Rewritten

IsMade(y, J, beds, read, done, acks, gone, fresh) ==
    \E still \in BOOLEAN, committed \in BOOLEAN :
        /\ committed => (J.requested \ gone) \cup fresh = J.loaded
        /\ y = Made(J, beds, read, done, acks, gone, fresh, still, committed)
Counted(x, J) ==
    /\ JoinOk(J) /\ J.load = x.load /\ J.live = x.live
    /\ J.epoch = x.epoch /\ J.objects = x.objects
    /\ \A r \in Regions : J.snapshot[r] = x.snapshot[r] \/ J.snapshot[r] = NoSnapshot
Done(J, beds, read, done, acks) ==
    /\ read \subseteq J.complete /\ done \subseteq read /\ acks \subseteq done
    /\ \A r \in done : J.snapshot[r].whole /\ beds[r] = J.snapshot[r].objects

Scanning(x, y, J, beds, read, done, acks, gone, fresh) ==
    /\ Counted(x, J) /\ beds \in BedRows /\ Done(J, beds, read, done, acks)
    /\ fresh \in SUBSET Regions /\ IsMade(y, J, beds, read, done, acks, gone, fresh)

LEMMA ScanMakes ==
    ASSUME NEW x, NEW y, NEW J, NEW beds, NEW read, NEW done, NEW acks, NEW gone, NEW fresh,
           Scanning(x, y, J, beds, read, done, acks, gone, fresh)
    PROVE  /\ Rescanned(x, y) /\ y.requested = (J.requested \ gone) \cup fresh
           /\ \A r \in done : y.epoch[r] = J.snapshot[r].epoch
<1>0. PICK still \in BOOLEAN, committed \in BOOLEAN :
           /\ committed => (J.requested \ gone) \cup fresh = J.loaded
           /\ y = Made(J, beds, read, done, acks, gone, fresh, still, committed)
    BY Zenon DEF IsMade, Scanning
<1> DEFINE requested == (J.requested \ gone) \cup fresh
           reconciled == (J.reconciled \ read) \cup done
           epoch == [r \in Regions |-> IF r \in done THEN J.snapshot[r].epoch ELSE J.epoch[r]]
           objects == [r \in Regions |-> IF r \in done THEN beds[r] ELSE J.objects[r]]
           snapshot == [r \in Regions |-> IF r \in acks
                            THEN [J.snapshot[r] EXCEPT !.acked = TRUE] ELSE J.snapshot[r]]
<1> USE DEF Counted, Done, Scanning
<1>1. /\ J \in JoinStates /\ J.reconciled \subseteq J.complete /\ (J.live => J.load # 0)
      /\ J.complete \subseteq Regions
    BY DEF JoinOk, JoinStates
<1>2. \A r \in Regions : J.snapshot[r] \in Snapshots /\ J.snapshot[r].epoch \in Nat
    <2>1. \A r \in Regions : J.snapshot[r] \in Snapshots
        BY <1>1 DEF JoinStates
    <2> QED BY <2>1 DEF Snapshots
<1>3. y = Rewritten(J, still, requested, reconciled, committed, epoch, objects, snapshot)
    BY <1>0, <1>1 DEF JoinStates, Made, Rewritten
<1>4. requested \in SUBSET Regions /\ reconciled \in SUBSET Regions
      /\ reconciled \subseteq J.complete /\ (committed => requested = J.loaded)
    BY <1>0, <1>1 DEF JoinStates
<1>5. epoch \in [Regions -> Nat] /\ objects \in BedRows
    <2>1. \A r \in Regions : J.epoch[r] \in Nat /\ J.objects[r] \in SUBSET Beds
                             /\ beds[r] \in SUBSET Beds
        BY <1>1 DEF JoinStates, BedRows
    <2> QED BY <1>2, <2>1 DEF BedRows
<1>6. ASSUME NEW r \in Regions
      PROVE  /\ snapshot[r] \in Snapshots /\ snapshot[r].epoch = J.snapshot[r].epoch
             /\ snapshot[r].whole = J.snapshot[r].whole
             /\ snapshot[r].objects = J.snapshot[r].objects
    <2>1. J.snapshot[r] \in Snapshots
        BY <1>2
    <2>2. [J.snapshot[r] EXCEPT !.acked = TRUE] \in Snapshots
        BY <2>1 DEF Snapshots
    <2>3. snapshot[r] = J.snapshot[r] \/ snapshot[r] = [J.snapshot[r] EXCEPT !.acked = TRUE]
        OBVIOUS
    <2> HIDE DEF snapshot
    <2> QED BY <2>1, <2>2, <2>3 DEF Snapshots
<1>7. snapshot \in [Regions -> Snapshots]
    BY <1>6
<1>8. ASSUME NEW r \in Regions
      PROVE  \/ epoch[r] = J.epoch[r] /\ objects[r] = J.objects[r]
             \/ r \in done /\ epoch[r] = J.snapshot[r].epoch /\ objects[r] = beds[r]
    OBVIOUS
<1>9. \A r \in done : r \in Regions /\ epoch[r] = J.snapshot[r].epoch
    BY <1>1
<1> HIDE DEF requested, reconciled, epoch, objects, snapshot
<1>10. /\ y \in JoinStates /\ y.load = x.load /\ y.live = x.live /\ y.requested = requested
       /\ y.reconciled = reconciled /\ y.committed = committed /\ y.epoch = epoch
       /\ y.objects = objects /\ y.snapshot = snapshot /\ y.complete = J.complete
       /\ y.loaded = J.loaded /\ (y.live => y.load # 0)
    <2>1. /\ J \in JoinStates /\ requested \in SUBSET Regions
          /\ reconciled \in SUBSET Regions
        BY <1>1, <1>4
    <2>2. /\ y \in JoinStates /\ y.load = J.load /\ y.live = J.live
          /\ y.requested = requested /\ y.reconciled = reconciled
          /\ y.committed = committed /\ y.epoch = epoch /\ y.objects = objects
          /\ y.snapshot = snapshot /\ y.complete = J.complete /\ y.loaded = J.loaded
        BY <1>3, <1>5, <1>7, <2>1, FieldsMade
    <2> QED BY <1>1, <2>2
<1>11. JoinOk(y)
    BY <1>4, <1>10 DEF JoinOk
<1>12. ASSUME NEW r \in Regions
       PROVE  /\ \/ /\ y.snapshot[r].epoch = x.snapshot[r].epoch
                    /\ y.snapshot[r].whole = x.snapshot[r].whole
                    /\ y.snapshot[r].objects = x.snapshot[r].objects
                 \/ y.snapshot[r].epoch = 0 /\ ~y.snapshot[r].whole
              /\ \/ y.epoch[r] = x.epoch[r] /\ y.objects[r] = x.objects[r]
                 \/ /\ y.snapshot[r].whole /\ y.epoch[r] = y.snapshot[r].epoch
                    /\ y.objects[r] = y.snapshot[r].objects
    <2>1. \/ /\ y.snapshot[r].epoch = x.snapshot[r].epoch
             /\ y.snapshot[r].whole = x.snapshot[r].whole
             /\ y.snapshot[r].objects = x.snapshot[r].objects
          \/ y.snapshot[r].epoch = 0 /\ ~y.snapshot[r].whole
        <3>1. CASE J.snapshot[r] = x.snapshot[r]
            BY <1>6, <1>10, <3>1
        <3>2. CASE J.snapshot[r] = NoSnapshot
            BY <1>6, <1>10, <3>2 DEF NoSnapshot
        <3> QED BY <3>1, <3>2
    <2>2. CASE epoch[r] = J.epoch[r] /\ objects[r] = J.objects[r]
        BY <1>10, <2>1, <2>2
    <2>3. CASE r \in done /\ epoch[r] = J.snapshot[r].epoch /\ objects[r] = beds[r]
        BY <1>6, <1>10, <2>1, <2>3
    <2> QED BY <1>8, <2>2, <2>3
<1>13. Rescanned(x, y)
    <2>1. y.committed => y.requested = y.loaded
        BY <1>4, <1>10
    <2> QED BY <1>10, <1>11, <1>12, <2>1 DEF Rescanned
<1> QED BY <1>9, <1>10, <1>13 DEF requested

LEMMA JoinScanDone ==
    ASSUME ScopeTypes, NEW j \in Joins, NEW registry \in BOOLEAN, NEW missed \in Misses(j),
           NEW refused, NEW again, JoinScanSends(j, registry, missed, refused, again)
    PROVE  JoinScanned(j)
<1>1. EngineTypes /\ PlayerTypes /\ LaneTypes
    BY DEF ScopeTypes
<1>2. PICK J : /\ J = JoinCensus(j, registry, missed)
               /\ JoinScanFrom(J, j, registry, missed, refused, again)
    BY DEF JoinScanSends
<1> DEFINE x == join[j]
           beds == native[j]
           gone    == J.requested \ J.loaded
           read    == IF registry THEN J.complete ELSE {}
           fresh   == read \ J.requested
           done    == {r \in read : Reconciles(J, j, r)}
           acks    == {r \in done : r \notin J.reconciled \/ ~J.snapshot[r].acked}
           worked  == {r \in read \ done : J.snapshot[r].whole} \ refused
           births  == {r \in worked : native[j][r] \subseteq J.snapshot[r].objects}
           still   == registry /\ births = {}
           keeps   == J.committed /\ fresh = {} /\ read \subseteq done
           commits == still /\ ~keeps /\ J.loaded \subseteq done
           asked   == fresh \cup again
           committed == still /\ (keeps \/ commits)
           sends == [r \in Regions |->
               (IF r \in gone THEN <<Control("RETIRE", J.load, r)>> ELSE <<>>)
               \o (IF r \in asked THEN <<Control("REQUEST", J.load, r)>> ELSE <<>>)
               \o (IF r \in acks
                   THEN <<Packet("ACK", J.load, r, J.snapshot[r].epoch, beds[r])>>
                   ELSE <<>>)]
           sent == FlattenSeq(sends)
                   \o (IF commits THEN <<Commit(J.load, Cardinality(J.loaded))>> ELSE <<>>)
           y == [J EXCEPT
                !.census = still,
                !.requested = (@ \ gone) \cup fresh,
                !.reconciled = (@ \ read) \cup done,
                !.committed = committed,
                !.epoch = [r \in Regions |->
                    IF r \in done THEN J.snapshot[r].epoch ELSE @[r]],
                !.objects = [r \in Regions |->
                    IF r \in done THEN beds[r] ELSE @[r]],
                !.snapshot = [r \in Regions |->
                    IF r \in acks THEN [@[r] EXCEPT !.acked = TRUE] ELSE @[r]]]
<1>3. /\ join[j].live /\ ScanFault(~registry \/ missed # {} \/ refused # {})
      /\ again \subseteq read \ (done \cup fresh)
      /\ up' = [up EXCEPT ![j] = up[j] \o sent]
      /\ native' = [native EXCEPT ![j] =
            [r \in Regions |-> IF r \in worked THEN Worked(J, j, r) ELSE native[j][r]]]
      /\ join' = [join EXCEPT ![j] = y]
      /\ UNCHANGED <<near, host, down>>
    <2>1. /\ join[j].live /\ ScanFault(~registry \/ missed # {} \/ refused # {})
          /\ again \subseteq read \ (done \cup fresh) /\ UNCHANGED <<near, host, down>>
        BY <1>2, Zenon DEF JoinScanFrom
    <2>2. up' = [up EXCEPT ![j] = up[j] \o sent]
        BY <1>2, Zenon DEF JoinScanFrom
    <2>3. native' = [native EXCEPT ![j] =
              [r \in Regions |-> IF r \in worked THEN Worked(J, j, r) ELSE native[j][r]]]
        BY <1>2, Zenon DEF JoinScanFrom
    <2>4. join' = [join EXCEPT ![j] = y]
        BY <1>2, Zenon DEF JoinScanFrom
    <2> HIDE DEF gone, read, fresh, done, acks, worked, births, still, keeps, commits, asked,
                 committed, sends, sent, y
    <2> QED BY <2>1, <2>2, <2>3, <2>4
<1>4. /\ JoinOk(J) /\ J.load = x.load /\ J.live = x.live
      /\ J.requested = x.requested /\ J.epoch = x.epoch
      /\ J.objects = x.objects /\ J.complete = near[j] \ missed
      /\ J.loaded = Seen(j, registry, missed)
      /\ J.committed => (Regions \ J.complete) \cap (J.loaded \cup J.requested) = {}
                        \/ ~registry
      /\ \A r \in Regions : J.snapshot[r] = x.snapshot[r] \/ J.snapshot[r] = NoSnapshot
    BY <1>1, <1>2, CensusOfJoin
<1>5. /\ x \in JoinStates /\ JoinOk(x) /\ beds \in BedRows
      /\ J.complete \subseteq Regions /\ J.loaded \subseteq Regions /\ J.requested \subseteq Regions
      /\ \A r \in Regions : J.snapshot[r] \in Snapshots
    BY <1>1, <1>4 DEF EngineTypes, PlayerTypes, Games, JoinOk, JoinStates
<1>6. /\ read \subseteq J.complete /\ done \subseteq read /\ acks \subseteq done
      /\ (read # {} => registry) /\ (registry => read = J.complete /\ J.loaded = near[j])
      /\ J.complete \subseteq near[j]
      /\ \A r \in done : J.snapshot[r].whole /\ beds[r] = J.snapshot[r].objects
    BY <1>4 DEF Reconciles, Seen
<1>7. EngineTypes'
    <2>1. ASSUME NEW r \in Regions, r \in worked PROVE Worked(J, j, r) \in SUBSET Beds
        <3>1. J.snapshot[r].objects \in SUBSET Beds /\ native[j][r] \in SUBSET Beds
            BY <1>5 DEF Snapshots, BedRows
        <3> QED BY <3>1 DEF Worked
    <2>2. \A r \in Regions : native[j][r] \in SUBSET Beds
        BY <1>5 DEF BedRows
    <2> HIDE DEF worked
    <2>3. [r \in Regions |-> IF r \in worked THEN Worked(J, j, r) ELSE native[j][r]] \in BedRows
        BY <2>1, <2>2 DEF BedRows
    <2>4. native' \in [Games -> BedRows]
        BY <1>1, <1>3, <2>3 DEF EngineTypes
    <2>5. upsets' \in 0 .. MaxUpsets
        BY <1>1, <1>3, ScanFaultType
    <2> QED BY <1>1, <1>3, <2>4, <2>5 DEF EngineTypes
<1>8. commits => registry /\ J.loaded \subseteq done /\ (J.requested \ gone) \cup fresh = J.loaded
    BY <1>6
<1>9. still /\ keeps => (J.requested \ gone) \cup fresh = J.loaded
    <2>1. SUFFICES ASSUME still, keeps PROVE (J.requested \ gone) \cup fresh = J.loaded
        OBVIOUS
    <2>2. registry /\ J.committed /\ fresh = {}
        BY <2>1
    <2>3. J.loaded \subseteq J.complete
        BY <1>4, <1>5, <2>2
    <2> QED BY <1>6, <2>2, <2>3
<1>10. /\ gone \subseteq Regions /\ asked \subseteq Regions /\ gone \cap asked = {}
       /\ (J.requested \ gone) \cup fresh = (J.requested \ gone) \cup asked
    <2>1. again \subseteq read /\ again \subseteq J.requested
        BY <1>3
    <2>2. read \subseteq J.loaded
        BY <1>6
    <2> QED BY <1>5, <1>6, <2>1, <2>2
<1>11. /\ still \in BOOLEAN /\ commits \in BOOLEAN /\ (still /\ (keeps \/ commits)) \in BOOLEAN
       /\ still /\ (keeps \/ commits) => (J.requested \ gone) \cup fresh = J.loaded
    BY <1>8, <1>9
<1>12. J.load \in 1 .. MaxLoads
    <2>1. J.load \in 0 .. MaxLoads /\ J.load # 0 /\ MaxLoads \in Nat
        BY <1>3, <1>4, ScopeAssumption DEF JoinOk, JoinStates
    <2> QED BY <2>1
<1>13. /\ y = Made(J, beds, read, done, acks, gone, fresh, still, committed)
       /\ sends = SendsOf(J, beds, gone, asked, acks)
       /\ sent = SentOf(J, beds, gone, asked, acks, commits)
    BY Zenon DEF Made, SendsOf, SentOf
<1>14. fresh \subseteq Regions /\ committed \in BOOLEAN
       /\ (committed => (J.requested \ gone) \cup fresh = J.loaded)
    BY <1>5, <1>6, <1>11
<1> HIDE DEF x, beds, gone, read, fresh, done, acks, still, commits, asked, y, sends, sent,
             committed
<1>15. /\ Rescanned(x, y) /\ y.requested = (J.requested \ gone) \cup fresh
       /\ \A r \in done : y.epoch[r] = J.snapshot[r].epoch
    <2>1. Counted(x, J)
        BY <1>4 DEF Counted, x
    <2>2. Done(J, beds, read, done, acks)
        BY <1>6 DEF Done
    <2>3. beds \in BedRows /\ fresh \in SUBSET Regions /\ still \in BOOLEAN
        BY <1>5, <1>11, <1>14
    <2>4. /\ y = Made(J, beds, read, done, acks, gone, fresh, still, committed)
          /\ committed \in BOOLEAN
          /\ committed => (J.requested \ gone) \cup fresh = J.loaded
        BY <1>13, <1>14
    <2>5. IsMade(y, J, beds, read, done, acks, gone, fresh)
        BY <2>3, <2>4 DEF IsMade
    <2>6. Scanning(x, y, J, beds, read, done, acks, gone, fresh)
        BY <2>1, <2>2, <2>3, <2>5 DEF Scanning
    <2> QED BY <2>6, ScanMakes
<1>16. /\ sent \in Seq(Packets)
       /\ \A k \in DOMAIN sent :
             LET m == sent[k] IN
             /\ m.load = J.load
             /\ \/ m.op = "RETIRE" /\ m.region \in gone
                \/ m.op = "REQUEST" /\ m.region \in asked
                \/ /\ m.op = "ACK" /\ m.region \in acks
                   /\ m.epoch = J.snapshot[m.region].epoch
                \/ commits /\ m.op = "COMMIT" /\ m.epoch = Cardinality(J.loaded)
             /\ m.op = "COMMIT" => k = Len(sent)
       /\ \A r \in gone : \E k \in DOMAIN sent : Says(sent[k], "RETIRE", J.load, r)
       /\ \A r \in asked : \E k \in DOMAIN sent : Says(sent[k], "REQUEST", J.load, r)
    <2>1. acks \in SUBSET Regions /\ gone \in SUBSET Regions /\ asked \in SUBSET Regions
        BY <1>5, <1>6, <1>10
    <2> QED BY <1>4, <1>5, <1>11, <1>12, <1>13, <2>1, ScanSends
<1>17. Sent(x, y, gone, asked, sent)
    <2>1. y.requested = (x.requested \ gone) \cup asked
        BY <1>4, <1>10, <1>15
    <2>2. ASSUME NEW k \in DOMAIN sent PROVE Told(sent[k], x.load, y, gone, asked)
        <3>1. PICK m : m = sent[k]
            OBVIOUS
        <3>2. /\ m.load = x.load
              /\ \/ m.op = "RETIRE" /\ m.region \in gone
                 \/ m.op = "REQUEST" /\ m.region \in asked
                 \/ /\ m.op = "ACK" /\ m.region \in acks
                    /\ m.epoch = J.snapshot[m.region].epoch
                 \/ commits /\ m.op = "COMMIT" /\ m.epoch = Cardinality(J.loaded)
            BY <1>4, <1>16, <3>1
        <3>3. m.region \in acks => m.region \in Regions
                                   /\ y.epoch[m.region] = J.snapshot[m.region].epoch
            BY <1>5, <1>6, <1>15
        <3>4. commits => y.requested = J.loaded
            BY <1>8, <1>15
        <3>5. Told(m, x.load, y, gone, asked)
            BY <3>2, <3>3, <3>4 DEF Told
        <3> QED BY <3>1, <3>5
    <2>3. \A k \in DOMAIN sent : sent[k].op = "COMMIT" => k = Len(sent)
        BY <1>16
    <2> QED BY <1>4, <1>10, <1>16, <2>1, <2>2, <2>3 DEF Sent
<1>18. join'[j] = y
    BY <1>1, <1>3 DEF PlayerTypes
<1>19. /\ Rescanned(x, join'[j]) /\ Sent(x, join'[j], gone, asked, sent)
       /\ join' = [join EXCEPT ![j] = join'[j]]
       /\ up' = [up EXCEPT ![j] = up[j] \o sent]
    BY <1>3, <1>15, <1>17, <1>18
<1>20. EngineTypes' /\ join[j].live /\ UNCHANGED <<host, down>>
    BY <1>3, <1>7
<1> QED BY <1>19, <1>20 DEF JoinScanned, x

-----------------------------------------------------------------------------
(* What each step does, in the terms of the lemmas above.                  *)
LEMMA LinksTyped ==
    ASSUME ScopeTypes, NEW j \in Joins PROVE LinkTypes(host, join[j], j, down[j], up[j])
BY DEF ScopeTypes, PlayerTypes, LaneTypes, LinkTypes

LEMMA HostVoid ==
    ASSUME NEW g, HostOk(g), HostKept(g), NEW h, h = g \/ h = [g EXCEPT !.census = FALSE]
    PROVE  /\ HostOk(h) /\ HostKept(h) /\ SameCatalog(g, h)
           /\ \A j \in Joins : SameFace(g, h, j)
<1>1. g \in HostStates
    BY DEF HostOk
<1>2. /\ h \in HostStates /\ h.load = g.load /\ h.live = g.live /\ h.epoch = g.epoch
      /\ h.objects = g.objects /\ h.requested = g.requested /\ h.committed = g.committed
      /\ h.acked = g.acked /\ h.complete = g.complete
    BY <1>1 DEF HostStates
<1>3. ~g.live => h = g
    <2>1. SUFFICES ASSUME ~g.live PROVE h = g
        OBVIOUS
    <2>2. g.census = FALSE
        BY <2>1 DEF HostKept, FreshHost
    <2>3. [g EXCEPT !.census = FALSE] = g
        BY <1>1, <2>2 DEF HostStates
    <2> QED BY <2>3
<1> QED BY <1>2, <1>3 DEF HostOk, HostKept, SameCatalog, SameFace

LEMMA JoinVoid ==
    ASSUME NEW x, JoinOk(x), NEW y, y = x \/ y = [x EXCEPT !.census = FALSE]
    PROVE  JoinOk(y) /\ y.load = x.load
<1>1. x \in JoinStates
    BY DEF JoinOk
<1>2. /\ y \in JoinStates /\ y.load = x.load /\ y.live = x.live
      /\ y.reconciled = x.reconciled /\ y.complete = x.complete
    BY <1>1 DEF JoinStates
<1> QED BY <1>2 DEF JoinOk

LEMMA EnginesKeep ==
    ASSUME ScopeTypes, ScopeInv, Engines PROVE ScopeTypes' /\ ScopeInv'
<1>1. EngineMoved
    BY EnginesMove
<1>2. HostOk(host) /\ HostKept(host) /\ PlayerTypes /\ LaneTypes
    BY DEF ScopeTypes, PlayerTypes, ScopeInv
<1>3. host' = host \/ host' = [host EXCEPT !.census = FALSE]
    BY <1>1 DEF EngineMoved
<1>4. /\ HostOk(host') /\ HostKept(host') /\ SameCatalog(host, host')
      /\ \A j \in Joins : SameFace(host, host', j)
    BY <1>2, <1>3, HostVoid
<1>5. ASSUME NEW j \in Joins
      PROVE  /\ JoinOk(join'[j]) /\ join'[j].load <= host'.load
             /\ Linked(host', join'[j], j, down'[j], up'[j])
    <2>1. /\ join'[j] = join[j] \/ join'[j] = [join[j] EXCEPT !.census = FALSE]
          /\ down' = down /\ up' = up
        BY <1>1 DEF EngineMoved
    <2>2. JoinOk(join[j]) /\ join[j].load <= host.load /\ join[j] \in JoinStates
        BY <1>2 DEF PlayerTypes
    <2>3. JoinOk(join'[j]) /\ join'[j].load = join[j].load
        BY <2>1, <2>2, JoinVoid
    <2>4. Linked(host', join[j], j, down[j], up[j])
        BY <1>4, LinkedSame DEF ScopeInv
    <2>5. Linked(host', join'[j], j, down[j], up[j])
        BY <2>1, <2>2, <2>4, LinkedVoid
    <2>6. join'[j].load <= host'.load
        BY <1>4, <2>2, <2>3 DEF SameCatalog
    <2> QED BY <2>1, <2>3, <2>5, <2>6
<1>6. PlayerTypes'
    BY <1>1, <1>4, <1>5 DEF EngineMoved, PlayerTypes
<1>7. LaneTypes'
    BY <1>1, <1>2 DEF EngineMoved, LaneTypes
<1>8. ScopeTypes'
    BY <1>1, <1>6, <1>7 DEF EngineMoved, ScopeTypes
<1>9. ScopeInv'
    BY <1>4, <1>5 DEF ScopeInv
<1> QED BY <1>8, <1>9

(* The next load of the host: its joins are of earlier ones.               *)
LEMMA NextLoadKeeps ==
    ASSUME ScopeTypes, ScopeInv, EngineTypes', UNCHANGED <<join, up, down>>,
           HostOk(host'), HostKept(host'), Announced(host, host')
    PROVE  ScopeTypes' /\ ScopeInv'
<1>1. PlayerTypes /\ LaneTypes
    BY DEF ScopeTypes
<1>2. host.load \in Nat /\ host'.load = host.load + 1
    BY <1>1 DEF PlayerTypes, HostOk, HostStates, Announced
<1>3. ASSUME NEW j \in Joins
      PROVE  join[j].load <= host'.load /\ Linked(host', join[j], j, down[j], up[j])
    <2>1. LinkTypes(host, join[j], j, down[j], up[j])
        BY LinksTyped
    <2>2. join[j].load \in Nat /\ join[j].load <= host.load
        BY <2>1, LinkFields
    <2>3. Linked(host', join[j], j, down[j], up[j])
        BY <2>1, LinkedAnnounced DEF ScopeInv
    <2> QED BY <1>2, <2>2, <2>3
<1>4. PlayerTypes'
    BY <1>1, <1>3 DEF PlayerTypes
<1>5. LaneTypes'
    BY <1>1 DEF LaneTypes
<1>6. ScopeTypes'
    BY <1>4, <1>5 DEF ScopeTypes
<1>7. ScopeInv'
    BY <1>3 DEF ScopeInv
<1> QED BY <1>6, <1>7

LEMMA ConnectPushKeeps ==
    ASSUME ScopeTypes, ScopeInv, ConnectPush PROVE ScopeTypes' /\ ScopeInv'
<1> DEFINE f == FreshHost(host.load + 1, TRUE)
<1>1. host \in HostStates /\ HostOk(host) /\ EngineTypes
    BY DEF ScopeTypes, PlayerTypes, HostOk
<1>2. /\ host.load < MaxLoads /\ UNCHANGED <<near, native, join, up, down, upsets>>
      /\ host' = [f EXCEPT !.epoch = host.epoch, !.objects = host.objects]
    BY DEF ConnectPush
<1>3. host.load + 1 \in 1 .. MaxLoads
    BY <1>1, <1>2, ScopeAssumption DEF HostStates
<1>4. HostOk(f) /\ f \in HostStates
    BY <1>3, FreshHostOk DEF HostOk
<1>5. /\ f.load = host.load + 1 /\ f.live /\ f.complete = {} /\ f.committed = {}
      /\ f.requested = [j \in Joins |-> {}]
      /\ f.acked = [j \in Joins |-> [r \in Regions |-> 0]]
    BY DEF FreshHost, Zeroes
<1> HIDE DEF f
<1>6. /\ host' \in HostStates /\ host'.load = f.load /\ host'.live = f.live
      /\ host'.complete = f.complete /\ host'.committed = f.committed
      /\ host'.requested = f.requested /\ host'.acked = f.acked /\ host'.epoch = host.epoch
    BY <1>1, <1>2, <1>4 DEF HostStates
<1>7. \A j \in Joins : /\ host'.requested[j] = {}
                       /\ \A r \in Regions : host'.acked[j][r] = 0
    BY <1>5, <1>6
<1>8. HostOk(host')
    <2>1. \A r \in Regions : host'.epoch[r] \in Nat
        BY <1>1, <1>6 DEF HostStates
    <2> QED BY <1>6, <1>7, <2>1 DEF HostOk
<1>9. HostKept(host') /\ Announced(host, host')
    BY <1>5, <1>6, <1>7 DEF HostKept, Announced
<1>10. EngineTypes'
    BY <1>1, <1>2 DEF EngineTypes
<1> QED BY <1>2, <1>8, <1>9, <1>10, NextLoadKeeps

LEMMA HostLoadsKeeps ==
    ASSUME ScopeTypes, ScopeInv, HostLoads PROVE ScopeTypes' /\ ScopeInv'
<1>1. host \in HostStates /\ HostOk(host) /\ EngineTypes
    BY DEF ScopeTypes, PlayerTypes, HostOk
<1>2. /\ host.load < MaxLoads /\ UNCHANGED <<join, up, down, upsets>>
      /\ host' = FreshHost(host.load + 1, FALSE)
    BY DEF HostLoads
<1>3. host.load + 1 \in 1 .. MaxLoads
    BY <1>1, <1>2, ScopeAssumption DEF HostStates
<1>4. HostOk(host')
    BY <1>2, <1>3, FreshHostOk
<1>5. HostKept(host') /\ Announced(host, host')
    <2> DEFINE f == FreshHost(host.load + 1, FALSE)
    <2>1. /\ HostKept(f) /\ f.load = host.load + 1 /\ f.committed = {}
          /\ \A j \in Joins : f.requested[j] = {}
          /\ \A j \in Joins, r \in Regions : f.acked[j][r] = 0
        <3>1. /\ f.load = host.load + 1 /\ f.live = FALSE /\ f.complete = {}
              /\ f.committed = {}
            BY DEF FreshHost
        <3>2. /\ \A j \in Joins : f.requested[j] = {}
              /\ \A j \in Joins, r \in Regions : f.acked[j][r] = 0
            BY DEF FreshHost, Zeroes
        <3>3. f = FreshHost(f.load, FALSE)
            BY <3>1
        <3> HIDE DEF f
        <3>4. HostKept(f)
            BY <3>1, <3>3 DEF HostKept
        <3> QED BY <3>1, <3>2, <3>4
    <2>2. host' = f
        BY <1>2
    <2> HIDE DEF f
    <2> QED BY <2>1, <2>2 DEF Announced
<1>6. EngineTypes'
    <2>1. HostGame \in Games
        BY DEF Games
    <2> QED BY <1>1, <1>2, <2>1, WorldGoneTypes DEF HostLoads
<1> QED BY <1>2, <1>4, <1>5, <1>6, NextLoadKeeps

LEMMA HostLiveKeeps ==
    ASSUME ScopeTypes, ScopeInv, HostLive PROVE ScopeTypes' /\ ScopeInv'
<1>1. EngineTypes /\ PlayerTypes /\ LaneTypes /\ host \in HostStates
    BY DEF ScopeTypes, PlayerTypes, HostOk
<1>2. /\ ~host.live /\ host' = FreshHost(host.load, TRUE) /\ WorldUp(HostGame)
      /\ UNCHANGED <<join, down, upsets>>
    BY DEF HostLive
<1>3. host = FreshHost(host.load, FALSE)
    BY <1>2 DEF ScopeInv, HostKept
<1>4. EngineTypes'
    <2>1. HostGame \in Games /\ UNCHANGED upsets
        BY <1>2 DEF Games
    <2> QED BY <1>1, <1>2, <2>1, WorldUpTypes
<1>5. HostOk(host') /\ HostKept(host') /\ host'.load = host.load
      /\ host'.committed = {} /\ \A j \in Joins : host'.requested[j] = {}
    <2>1. host.load \in 1 .. MaxLoads
        BY <1>1 DEF HostStates
    <2>2. HostOk(host')
        BY <1>2, <2>1, FreshHostOk
    <2>3. /\ host'.load = host.load /\ host'.live /\ host'.complete = {}
          /\ host'.committed = {} /\ \A j \in Joins : host'.requested[j] = {}
        BY <1>2 DEF FreshHost
    <2> QED BY <2>2, <2>3 DEF HostKept
<1>6. up' \in [Joins -> UNION {Flushed(up[j]) : j \in Joins}]
      /\ \A j \in Joins : up'[j] \in Flushed(up[j])
    BY DEF HostLive
<1>7. ASSUME NEW j \in Joins PROVE \E n \in 0 .. Len(up[j]) : Dropped(up'[j], up[j], n)
    <2>1. up[j] \in Seq(Packets) /\ up'[j] \in Flushed(up[j])
        BY <1>1, <1>6 DEF LaneTypes
    <2> QED BY <2>1, FlushedDropped
<1>8. ASSUME NEW j \in Joins
      PROVE  up'[j] \in Seq(Packets) /\ Linked(host', join[j], j, down[j], up'[j])
    <2>1. PICK n \in 0 .. Len(up[j]) : Dropped(up'[j], up[j], n)
        BY <1>7
    <2>2. LinkTypes(host, join[j], j, down[j], up[j])
        BY LinksTyped
    <2>3. Linked(host', join[j], j, down[j], up[j])
        BY <1>2, <1>3, <2>2, LinkedHostLive DEF ScopeInv
    <2>4. LinkTypes(host', join[j], j, down[j], up[j])
        BY <1>5, <2>2 DEF LinkTypes
    <2>5. host'.requested[j] = {} /\ j \notin host'.committed
        BY <1>5
    <2>6. Linked(host', join[j], j, down[j], up'[j])
        BY <2>1, <2>3, <2>4, <2>5, LinkedUnheard
    <2> QED BY <2>1, <2>6 DEF Dropped
<1>9. LaneTypes'
    <2>1. up' \in [Joins -> Seq(Packets)]
        BY <1>6, <1>8
    <2> QED BY <1>1, <1>2, <2>1 DEF LaneTypes
<1>10. PlayerTypes'
    BY <1>1, <1>2, <1>5 DEF PlayerTypes
<1>11. ScopeTypes'
    BY <1>4, <1>9, <1>10 DEF ScopeTypes
<1>12. ScopeInv'
    BY <1>2, <1>5, <1>8 DEF ScopeInv
<1> QED BY <1>11, <1>12

(* The host offers snapshots to all.                                       *)
LEMMA OfferedTo ==
    ASSUME LaneTypes, NEW h, HostOk(h), NEW rs \in SUBSET Regions, SendSnapshots(h, rs),
           NEW j \in Joins
    PROVE  /\ down'[j] \in Seq(Packets)
           /\ \E b \in Seq(Packets) : /\ Extended(down'[j], down[j], b)
                                      /\ \A k \in DOMAIN b : Offer(h, b[k])
<1> DEFINE b == SnapshotBlock(h, rs)
<1>1. b \in Seq(Packets) /\ \A k \in DOMAIN b : Offer(h, b[k])
    BY BlockOffers
<1>2. down'[j] = down[j] \o b /\ down'[j] \in Seq(Packets) /\ down[j] \in Seq(Packets)
    BY SnapshotsSent DEF LaneTypes
<1> HIDE DEF b
<1>3. Extended(down'[j], down[j], b)
    BY <1>1, <1>2, ConcatExtended
<1> QED BY <1>1, <1>2, <1>3

LEMMA HostScanKeeps ==
    ASSUME ScopeTypes, ScopeInv, NEW registry \in BOOLEAN, NEW missed \in Misses(HostGame),
           NEW rs, HostScanSends(registry, missed, rs)
    PROVE  ScopeTypes' /\ ScopeInv'
<1>1. EngineTypes /\ PlayerTypes /\ LaneTypes /\ HostOk(host)
    BY DEF ScopeTypes, PlayerTypes
<1>2. PICK h : /\ h = HostCensus(registry, missed) /\ host.live
               /\ ScanFault(~registry \/ missed # {}) /\ rs \subseteq Due(h)
               /\ host' = h /\ SendSnapshots(h, rs)
               /\ UNCHANGED <<near, native, join, up>>
    BY DEF HostScanSends
<1>3. HostOk(h) /\ Catalogued(host, h)
    BY <1>1, <1>2, CensusShape
<1>4. rs \in SUBSET Regions
    <2>1. h.loaded \subseteq Regions
        BY <1>3 DEF HostOk, HostStates
    <2> QED BY <1>2, <2>1 DEF Due, CanSnapshot
<1>5. h.load = host.load /\ h.live = host.live /\ \A r \in h.complete : h.epoch[r] # 0
    BY <1>3 DEF Catalogued
<1>6. HostKept(host')
    BY <1>2, <1>5 DEF HostKept
<1>7. ASSUME NEW j \in Joins
      PROVE  down'[j] \in Seq(Packets) /\ Linked(host', join[j], j, down'[j], up[j])
    <2>1. LinkTypes(host, join[j], j, down[j], up[j])
        BY LinksTyped
    <2>2. Linked(h, join[j], j, down[j], up[j])
        BY <1>2, <1>3, <2>1, LinkedCatalogued DEF ScopeInv
    <2>3. LinkTypes(h, join[j], j, down[j], up[j])
        BY <1>3, <1>5, <2>1 DEF LinkTypes
    <2>4. PICK b \in Seq(Packets) : /\ Extended(down'[j], down[j], b)
                                    /\ \A k \in DOMAIN b : Offer(h, b[k])
        BY <1>1, <1>2, <1>3, <1>4, OfferedTo
    <2>5. Linked(h, join[j], j, down'[j], up[j])
        BY <1>2, <1>5, <2>2, <2>3, <2>4, LinkedOffered
    <2>6. down'[j] \in Seq(Packets)
        BY <2>4 DEF Extended
    <2> QED BY <1>2, <2>5, <2>6
<1>8. LaneTypes'
    <2>1. down' \in [Joins -> Seq(Packets)]
        BY <1>1, <1>2, <1>3, <1>4, SnapshotsSent
    <2> QED BY <1>1, <1>2, <2>1 DEF LaneTypes
<1>9. EngineTypes'
    <2>1. upsets' \in 0 .. MaxUpsets
        BY <1>1, <1>2, ScanFaultType
    <2> QED BY <1>1, <1>2, <2>1 DEF EngineTypes
<1>10. PlayerTypes'
    BY <1>1, <1>2, <1>3, <1>5 DEF PlayerTypes
<1>11. ScopeTypes'
    BY <1>8, <1>9, <1>10 DEF ScopeTypes
<1>12. ScopeInv'
    BY <1>2, <1>6, <1>7 DEF ScopeInv
<1> QED BY <1>11, <1>12

LEMMA HostScansKeep ==
    ASSUME ScopeTypes, ScopeInv, HostScan PROVE ScopeTypes' /\ ScopeInv'
<1>1. TRUE \in BOOLEAN /\ {} \in Misses(HostGame)
    BY DEF Misses
<1>2. CASE HostScans
    BY <1>1, <1>2, HostScanKeeps DEF HostScans
<1>3. CASE HostResends
    BY <1>1, <1>3, HostScanKeeps DEF HostResends
<1>4. CASE \E registry \in BOOLEAN, missed \in Misses(HostGame) :
              HostScanSends(registry, missed, {})
    BY <1>4, HostScanKeeps
<1> QED BY <1>2, <1>3, <1>4 DEF HostScan

(* One join moves: the others are as they were.                            *)
LEMMA OneJoinKeeps ==
    ASSUME ScopeTypes, ScopeInv, EngineTypes', UNCHANGED host, NEW j \in Joins,
           NEW y, NEW lane, NEW back, JoinOk(y), y.load <= host.load,
           lane \in Seq(Packets), back \in Seq(Packets), Linked(host, y, j, lane, back),
           join' = [join EXCEPT ![j] = y], down' = [down EXCEPT ![j] = lane],
           up' = [up EXCEPT ![j] = back]
    PROVE  ScopeTypes' /\ ScopeInv'
<1>1. PlayerTypes /\ LaneTypes
    BY DEF ScopeTypes
<1>2. ASSUME NEW i \in Joins
      PROVE  /\ JoinOk(join'[i]) /\ join'[i].load <= host'.load
             /\ Linked(host', join'[i], i, down'[i], up'[i])
    <2>1. CASE i = j
        <3>1. join'[i] = y /\ down'[i] = lane /\ up'[i] = back
            BY <1>1, <2>1 DEF PlayerTypes, LaneTypes
        <3> QED BY <2>1, <3>1
    <2>2. CASE i # j
        <3>1. join'[i] = join[i] /\ down'[i] = down[i] /\ up'[i] = up[i]
            BY <1>1, <2>2 DEF PlayerTypes, LaneTypes
        <3> QED BY <1>1, <3>1 DEF PlayerTypes, ScopeInv
    <2> QED BY <2>1, <2>2
<1>3. join' \in [Joins -> JoinStates]
    BY <1>1 DEF PlayerTypes, JoinOk
<1>4. PlayerTypes'
    BY <1>1, <1>2, <1>3 DEF PlayerTypes
<1>5. LaneTypes'
    BY <1>1 DEF LaneTypes
<1>6. ScopeTypes'
    BY <1>4, <1>5 DEF ScopeTypes
<1>7. ScopeInv'
    BY <1>2 DEF ScopeInv
<1> QED BY <1>6, <1>7

LEMMA SameLane ==
    ASSUME NEW l \in [Joins -> Seq(Packets)], NEW j \in Joins
    PROVE  l = [l EXCEPT ![j] = l[j]]
OBVIOUS

LEMMA JoinGoKeeps ==
    ASSUME ScopeTypes, ScopeInv, NEW j \in Joins, JoinGo(j) PROVE ScopeTypes' /\ ScopeInv'
<1>1. EngineTypes /\ PlayerTypes /\ LaneTypes
    BY DEF ScopeTypes
<1>2. PICK load \in join[j].load + 1 .. host.load :
          join' = [join EXCEPT ![j] = FreshJoin(load, FALSE)]
    BY DEF JoinGo
<1>3. EngineTypes' /\ UNCHANGED <<host, up, down>>
    <2>1. j \in Games /\ UNCHANGED upsets
        BY DEF Games, JoinGo
    <2> QED BY <1>1, <2>1, WorldGoneTypes DEF JoinGo
<1>4. LinkTypes(host, join[j], j, down[j], up[j])
    BY LinksTyped
<1>5. /\ load \in Nat /\ join[j].load < load /\ load <= host.load /\ load \in 0 .. MaxLoads
    <2>1. join[j].load \in Nat /\ host.load \in 1 .. MaxLoads /\ MaxLoads \in Nat
        BY <1>4, LinkFields, ScopeAssumption DEF LinkTypes, HostOk, HostStates
    <2> QED BY <1>2, <2>1
<1>6. PICK y : y = FreshJoin(load, FALSE)
    OBVIOUS
<1>7. JoinOk(y) /\ Blank(y) /\ y.load = load
    BY <1>5, <1>6, FreshJoinOk, FreshBlank
<1>8. Linked(host, y, j, down[j], up[j])
    BY <1>4, <1>5, <1>7, LinkedGo DEF ScopeInv
<1>9. join' = [join EXCEPT ![j] = y] /\ y.load <= host.load
    BY <1>2, <1>5, <1>6, <1>7
<1>10. down' = [down EXCEPT ![j] = down[j]] /\ up' = [up EXCEPT ![j] = up[j]]
       /\ down[j] \in Seq(Packets) /\ up[j] \in Seq(Packets)
    BY <1>1, <1>3, SameLane DEF LaneTypes
<1> QED BY <1>3, <1>7, <1>8, <1>9, <1>10, OneJoinKeeps

LEMMA JoinLiveKeeps ==
    ASSUME ScopeTypes, ScopeInv, NEW j \in Joins, JoinLive(j) PROVE ScopeTypes' /\ ScopeInv'
<1>1. EngineTypes /\ PlayerTypes /\ LaneTypes /\ j \in Games
    BY DEF ScopeTypes, Games
<1>2. /\ join[j].load # 0 /\ ~join[j].live /\ WorldUp(j) /\ UNCHANGED <<host, up, upsets>>
      /\ join' = [join EXCEPT ![j] = FreshJoin(join[j].load, TRUE)]
    BY DEF JoinLive
<1>3. PICK lane \in Flushed(down[j]) : down' = [down EXCEPT ![j] = lane]
    BY DEF JoinLive
<1>4. PICK n \in 0 .. Len(down[j]) : Dropped(lane, down[j], n)
    <2>1. down[j] \in Seq(Packets)
        BY <1>1 DEF LaneTypes
    <2> QED BY <1>3, <2>1, FlushedDropped
<1>5. EngineTypes'
    BY <1>1, <1>2, WorldUpTypes
<1>6. LinkTypes(host, join[j], j, down[j], up[j])
    BY LinksTyped
<1>7. PICK y : y = FreshJoin(join[j].load, TRUE)
    OBVIOUS
<1>8. JoinOk(y) /\ y.load = join[j].load
    <2>1. join[j].load \in 0 .. MaxLoads
        BY <1>1 DEF PlayerTypes, JoinStates
    <2> QED BY <1>2, <1>7, <2>1, FreshJoinOk
<1>9. Risen(join[j], y)
    <2>1. join[j] = FreshJoin(join[j].load, FALSE)
        BY <1>2 DEF ScopeInv, Linked, JoinKept
    <2>2. Risen(FreshJoin(join[j].load, FALSE), FreshJoin(join[j].load, TRUE))
        BY FreshRisen
    <2> QED BY <1>7, <2>1, <2>2
<1>10. Linked(host, join[j], j, lane, up[j])
    BY <1>4, <1>6, LinkedFlushed DEF ScopeInv
<1>11. LinkTypes(host, join[j], j, lane, up[j]) /\ lane \in Seq(Packets)
    BY <1>4, <1>6 DEF LinkTypes, Dropped
<1>12. Linked(host, y, j, lane, up[j])
    BY <1>9, <1>10, <1>11, LinkedUp
<1>13. join' = [join EXCEPT ![j] = y] /\ y.load <= host.load
    BY <1>2, <1>6, <1>7, <1>8 DEF LinkTypes
<1>14. up' = [up EXCEPT ![j] = up[j]] /\ up[j] \in Seq(Packets)
    BY <1>1, <1>2, SameLane DEF LaneTypes
<1> QED BY <1>2, <1>3, <1>5, <1>8, <1>11, <1>12, <1>13, <1>14, OneJoinKeeps

LEMMA JoinTakesKeeps ==
    ASSUME ScopeTypes, ScopeInv, NEW j \in Joins, JoinTakes(j) PROVE ScopeTypes' /\ ScopeInv'
<1> DEFINE m == Head(down[j])
           r == m.region
           s == Accepted(join[j].snapshot[r], m)
           kept == join[j].snapshot[r].whole /\ s.whole
<1>1. EngineTypes /\ PlayerTypes /\ LaneTypes
    BY DEF ScopeTypes
<1>2. /\ join[j].live /\ down[j] # <<>> /\ down' = [down EXCEPT ![j] = Tail(down[j])]
      /\ join' = IF m.load # join[j].load \/ r \notin join[j].loaded THEN join
                 ELSE [join EXCEPT
                         ![j].snapshot[r] = s,
                         ![j].reconciled = IF kept THEN @ ELSE @ \ {r},
                         ![j].committed = @ /\ kept]
      /\ UNCHANGED <<near, native, host, up, upsets>>
    BY DEF JoinTakes
<1>3. LinkTypes(host, join[j], j, down[j], up[j]) /\ join[j] \in JoinStates
    BY <1>1, LinksTyped DEF PlayerTypes
<1>4. down[j] \in Seq(Packets) /\ m \in Packets /\ Tail(down[j]) \in Seq(Packets)
    <2>1. down[j] \in Seq(Packets)
        BY <1>1 DEF LaneTypes
    <2>2. down[j] # <<>>
        BY <1>2
    <2> QED BY <2>1, <2>2
<1> HIDE DEF m
<1>5. \E y : join' = [join EXCEPT ![j] = y] /\ Took(join[j], y, m)
    <2>1. CASE m.load # join[j].load \/ r \notin join[j].loaded
        <3>1. join' = join
            BY <1>2, <2>1
        <3>2. join' = [join EXCEPT ![j] = join[j]]
            BY <1>1, <3>1 DEF PlayerTypes
        <3>3. Took(join[j], join[j], m)
            BY DEF Took
        <3> QED BY <3>2, <3>3
    <2>2. CASE m.load = join[j].load /\ r \in join[j].loaded
        <3> DEFINE x == join[j]
                   still == IF kept THEN x.reconciled ELSE x.reconciled \ {r}
                   committed == x.committed /\ kept
                   y == [x EXCEPT !.snapshot = [x.snapshot EXCEPT ![r] = s],
                                  !.reconciled = still, !.committed = committed]
        <3>1. join' = [join EXCEPT ![j] = y]
            BY <1>1, <1>2, <1>3, <2>2 DEF PlayerTypes
        <3>2. still \in SUBSET x.reconciled /\ committed \in BOOLEAN
              /\ (committed => x.committed) /\ r \in Regions
            BY <1>3, <2>2 DEF JoinStates
        <3>3. Took(x, y, m)
            <4> DEFINE q == m.region
            <4>1. m.load = x.load /\ q \in Regions
                BY <2>2, <3>2
            <4>2. y = [x EXCEPT !.snapshot = [x.snapshot EXCEPT
                                         ![m.region] = Accepted(x.snapshot[m.region], m)],
                                  !.reconciled = still, !.committed = committed]
                OBVIOUS
            <4> HIDE DEF y, still, committed, x
            <4> QED BY <3>2, <4>1, <4>2 DEF Took
        <3> QED BY <3>1, <3>3
    <2> QED BY <2>1, <2>2
<1>6. PICK y : join' = [join EXCEPT ![j] = y] /\ Took(join[j], y, m)
    BY <1>5
<1>7. JoinOk(y) /\ y.load = join[j].load
    BY <1>3, <1>4, <1>6, TookShape DEF LinkTypes
<1>8. Linked(host, y, j, Tail(down[j]), up[j])
    BY <1>2, <1>3, <1>6, LinkedTook DEF ScopeInv, m
<1>9. up' = [up EXCEPT ![j] = up[j]] /\ up[j] \in Seq(Packets) /\ y.load <= host.load
    BY <1>1, <1>2, <1>3, <1>7, SameLane DEF LaneTypes, LinkTypes
<1>10. EngineTypes'
    BY <1>1, <1>2 DEF EngineTypes
<1> QED BY <1>2, <1>4, <1>6, <1>7, <1>8, <1>9, <1>10, OneJoinKeeps

LEMMA JoinScanKeeps ==
    ASSUME ScopeTypes, ScopeInv, NEW j \in Joins, JoinScanned(j)
    PROVE  ScopeTypes' /\ ScopeInv'
<1>1. PlayerTypes /\ LaneTypes /\ EngineTypes' /\ join[j].live /\ UNCHANGED <<host, down>>
    BY DEF ScopeTypes, JoinScanned
<1>2. PICK gone, asked, sent :
         /\ Rescanned(join[j], join'[j]) /\ Sent(join[j], join'[j], gone, asked, sent)
         /\ join' = [join EXCEPT ![j] = join'[j]]
         /\ up' = [up EXCEPT ![j] = up[j] \o sent]
    BY DEF JoinScanned
<1>3. PICK y : y = join'[j]
    OBVIOUS
<1>4. Rescanned(join[j], y) /\ Sent(join[j], y, gone, asked, sent)
      /\ join' = [join EXCEPT ![j] = y]
    BY <1>2, <1>3
<1>5. LinkTypes(host, join[j], j, down[j], up[j])
    BY LinksTyped
<1>6. PICK u : u = up[j] \o sent
    OBVIOUS
<1>7. Extended(u, up[j], sent)
    <2>1. up[j] \in Seq(Packets) /\ sent \in Seq(Packets)
        BY <1>1, <1>4 DEF LaneTypes, Sent
    <2> QED BY <1>6, <2>1, ConcatExtended
<1>8. Linked(host, y, j, down[j], u)
    BY <1>1, <1>4, <1>5, <1>7, LinkedScanned DEF ScopeInv
<1>9. JoinOk(y) /\ y.load <= host.load /\ u \in Seq(Packets) /\ down[j] \in Seq(Packets)
    BY <1>4, <1>5, <1>7 DEF Rescanned, LinkTypes, Extended
<1>10. down' = [down EXCEPT ![j] = down[j]] /\ up' = [up EXCEPT ![j] = u]
    BY <1>1, <1>2, <1>6, SameLane DEF LaneTypes
<1> QED BY <1>1, <1>4, <1>8, <1>9, <1>10, OneJoinKeeps

LEMMA JoinScansKeep ==
    ASSUME ScopeTypes, ScopeInv, NEW j \in Joins, JoinScan(j)
    PROVE  ScopeTypes' /\ ScopeInv'
<1>1. TRUE \in BOOLEAN /\ {} \in Misses(j)
    BY DEF Misses
<1>2. CASE JoinScans(j)
    <2>1. JoinScanned(j)
        BY <1>1, <1>2, JoinScanDone DEF JoinScans
    <2> QED BY <2>1, JoinScanKeeps
<1>3. CASE JoinRescans(j)
    <2>1. JoinScanned(j)
        BY <1>1, <1>3, JoinScanDone DEF JoinRescans
    <2> QED BY <2>1, JoinScanKeeps
<1>4. CASE \E registry \in BOOLEAN, missed \in Misses(j) :
              JoinScanSends(j, registry, missed, {}, {})
    <2>1. JoinScanned(j)
        BY <1>4, JoinScanDone
    <2> QED BY <2>1, JoinScanKeeps
<1>5. CASE \E r \in near[j] : JoinScanSends(j, TRUE, {}, {r}, {})
    <2>1. JoinScanned(j)
        BY <1>1, <1>5, JoinScanDone
    <2> QED BY <2>1, JoinScanKeeps
<1> QED BY <1>2, <1>3, <1>4, <1>5 DEF JoinScan

(* The host takes a packet, and may answer with snapshots to all.          *)
Answers ==
    UNCHANGED down \/ \E rs \in SUBSET Regions : SendSnapshots(host, rs)

LEMMA AnswersLink ==
    ASSUME ScopeTypes, host.live, HostOk(host'), SameCatalog(host, host'), Answers,
           NEW i \in Joins, NEW x, NEW back, LinkTypes(host', x, i, down[i], back),
           Linked(host', x, i, down[i], back)
    PROVE  down'[i] \in Seq(Packets) /\ Linked(host', x, i, down'[i], back)
<1>1. LaneTypes /\ HostOk(host) /\ host'.live
    BY DEF ScopeTypes, PlayerTypes, SameCatalog
<1>2. CASE UNCHANGED down
    BY <1>1, <1>2 DEF LaneTypes
<1>3. CASE \E rs \in SUBSET Regions : SendSnapshots(host, rs)
    <2>1. PICK rs \in SUBSET Regions : SendSnapshots(host, rs)
        BY <1>3
    <2>2. PICK b \in Seq(Packets) : /\ Extended(down'[i], down[i], b)
                                    /\ \A k \in DOMAIN b : Offer(host, b[k])
        BY <1>1, <2>1, OfferedTo
    <2>3. \A k \in DOMAIN b : Offer(host', b[k])
        BY <2>2 DEF Offer, SameCatalog
    <2>4. down'[i] \in Seq(Packets)
        BY <2>2 DEF Extended
    <2>5. Linked(host', x, i, down'[i], back)
        <3>1. PICK h : h = host'
            OBVIOUS
        <3>2. LinkTypes(h, x, i, down[i], back) /\ h.live /\ Linked(h, x, i, down[i], back)
              /\ \A k \in DOMAIN b : Offer(h, b[k])
            BY <1>1, <2>3, <3>1
        <3>3. Linked(h, x, i, down'[i], back)
            BY <2>2, <3>2, LinkedOffered
        <3> QED BY <3>1, <3>3
    <2> QED BY <2>4, <2>5
<1> QED BY <1>2, <1>3 DEF Answers

LEMMA HostHears ==
    ASSUME ScopeTypes, ScopeInv, NEW j \in Joins, host.live, up[j] # <<>>,
           HostOk(host'), HostKept(host'), SameCatalog(host, host'),
           Heard(host, host', j, Head(up[j])),
           \A i \in Joins : i # j => SameFace(host, host', i), Answers,
           up' = [up EXCEPT ![j] = Tail(up[j])], UNCHANGED <<near, native, join, upsets>>
    PROVE  ScopeTypes' /\ ScopeInv'
<1>1. EngineTypes /\ PlayerTypes /\ LaneTypes
    BY DEF ScopeTypes
<1>2. PICK h : h = host'
    OBVIOUS
<1>3. ASSUME NEW i \in Joins
      PROVE  /\ down'[i] \in Seq(Packets) /\ up'[i] \in Seq(Packets)
             /\ Linked(host', join[i], i, down'[i], up'[i])
    <2>1. LinkTypes(host, join[i], i, down[i], up[i])
          /\ Linked(host, join[i], i, down[i], up[i])
        BY LinksTyped DEF ScopeInv
    <2>2. up'[i] \in Seq(Packets) /\ Linked(h, join[i], i, down[i], up'[i])
        <3>1. CASE i = j
            <4>1. up'[i] = Tail(up[i]) /\ up[i] # <<>> /\ Heard(host, h, i, Head(up[i]))
                BY <1>1, <1>2, <3>1 DEF LaneTypes
            <4>2. Linked(h, join[i], i, down[i], Tail(up[i]))
                BY <2>1, <4>1, LinkedHeard
            <4>3. up[i] \in Seq(Packets)
                BY <1>1 DEF LaneTypes
            <4>4. Tail(up[i]) \in Seq(Packets)
                BY <4>1, <4>3
            <4> QED BY <4>1, <4>2, <4>4
        <3>2. CASE i # j
            <4>1. up'[i] = up[i] /\ up[i] \in Seq(Packets) /\ SameFace(host, h, i)
                BY <1>1, <1>2, <3>2 DEF LaneTypes
            <4>2. Linked(h, join[i], i, down[i], up[i])
                BY <1>2, <2>1, <4>1, LinkedSame
            <4> QED BY <4>1, <4>2
        <3> QED BY <3>1, <3>2
    <2>3. LinkTypes(host', join[i], i, down[i], up'[i])
        BY <2>1, <2>2 DEF LinkTypes, SameCatalog
    <2> QED BY <1>2, <2>2, <2>3, AnswersLink
<1>4. up' \in [Joins -> Seq(Packets)] /\ down' \in [Joins -> Seq(Packets)]
    <2>1. up' \in [Joins -> Seq(Packets)]
        BY <1>1, <1>3 DEF LaneTypes
    <2>2. CASE UNCHANGED down
        BY <1>1, <2>1, <2>2 DEF LaneTypes
    <2>3. CASE \E rs \in SUBSET Regions : SendSnapshots(host, rs)
        BY <1>1, <2>1, <2>3, SnapshotsSent DEF PlayerTypes
    <2> QED BY <2>1, <2>2, <2>3 DEF Answers
<1>5. EngineTypes' /\ LaneTypes'
    BY <1>1, <1>4 DEF EngineTypes, LaneTypes
<1>6. PlayerTypes'
    BY <1>1 DEF PlayerTypes, SameCatalog
<1>7. ScopeTypes'
    BY <1>5, <1>6 DEF ScopeTypes
<1>8. ScopeInv'
    <2>1. \A i \in Joins : Linked(host', join'[i], i, down'[i], up'[i])
        BY <1>3
    <2> QED BY <2>1 DEF ScopeInv
<1> QED BY <1>7, <1>8

LEMMA HeadReported ==
    ASSUME ScopeTypes, ScopeInv, NEW j \in Joins, up[j] # <<>>
    PROVE  /\ Head(up[j]) \in Packets
           /\ Head(up[j]).load = host.load /\ Head(up[j]).op \in {"REQUEST", "RETIRE", "ACK"}
                 => Head(up[j]).region \in Regions
<1>1. PICK m : m = Head(up[j])
    OBVIOUS
<1>2. up[j] \in Seq(Packets) /\ LinkTypes(host, join[j], j, down[j], up[j])
    BY LinksTyped DEF ScopeTypes, LaneTypes
<1>3. 1 \in DOMAIN up[j] /\ m = up[j][1] /\ m \in Packets
    BY <1>1, <1>2
<1>4. Reported(host, join[j], m)
    BY <1>3 DEF ScopeInv, Linked, Reports
<1>5. m.load = host.load => join[j].load = host.load
    BY <1>2, <1>4, HeardAlive
<1> QED BY <1>1, <1>3, <1>4, <1>5 DEF Reported

LEMMA HostMoved ==
    ASSUME NEW g, HostOk(g), HostKept(g), g.live, NEW h, h \in HostStates, SameCatalog(g, h),
           h.complete = g.complete,
           \A j \in Joins, r \in Regions : h.acked[j][r] <= h.epoch[r]
    PROVE  HostOk(h) /\ HostKept(h)
BY DEF HostOk, HostKept, SameCatalog

LEMMA HostTakesRequestKeeps ==
    ASSUME ScopeTypes, ScopeInv, NEW j \in Joins, HostTakesRequest(j)
    PROVE  ScopeTypes' /\ ScopeInv'
<1>1. PICK m : m = Head(up[j])
    OBVIOUS
<1> DEFINE q == [host.requested EXCEPT ![j] = @ \cup {m.region}]
           c == IF m.region \in host.requested[j] THEN host.committed
                                                  ELSE host.committed \ {j}
<1>2. /\ host.live /\ up[j] # <<>> /\ m.load = host.load /\ m.op = "REQUEST"
      /\ up' = [up EXCEPT ![j] = Tail(up[j])] /\ UNCHANGED <<near, native, join, upsets>>
      /\ host' = [host EXCEPT !.requested[j] = @ \cup {m.region}, !.committed = c]
      /\ SendSnapshots(host, {m.region} \cap CanSnapshot(host))
    BY <1>1 DEF HostTakesRequest, HostTakes
<1>3. m.region \in Regions
    BY <1>1, <1>2, HeadReported
<1>4. HostOk(host) /\ HostKept(host) /\ host \in HostStates
    BY DEF ScopeTypes, PlayerTypes, ScopeInv, HostOk
<1>5. /\ q \in [Joins -> SUBSET Regions] /\ c \in SUBSET Joins
      /\ host.acked \in [Joins -> [Regions -> Nat]]
    BY <1>3, <1>4 DEF HostStates
<1>6. host' = [host EXCEPT !.requested = q, !.acked = host.acked, !.committed = c]
    BY <1>2, <1>4 DEF HostStates
<1>7. PICK h : h = host'
    OBVIOUS
<1>8. /\ h \in HostStates /\ SameCatalog(host, h) /\ h.complete = host.complete
      /\ h.requested = q /\ h.acked = host.acked /\ h.committed = c
    <2> HIDE DEF q, c
    <2> QED BY <1>4, <1>5, <1>6, <1>7 DEF HostStates, SameCatalog
<1>9. HostOk(h) /\ HostKept(h)
    <2>1. \A i \in Joins, r \in Regions : h.acked[i][r] <= h.epoch[r]
        BY <1>4, <1>8 DEF HostOk, SameCatalog
    <2> QED BY <1>2, <1>4, <1>8, <2>1, HostMoved
<1>10. Heard(host, h, j, m)
    <2>1. h.requested[j] = host.requested[j] \cup {m.region}
        BY <1>4, <1>8 DEF HostStates
    <2>2. j \in h.committed => j \in host.committed /\ m.region \in host.requested[j]
        BY <1>8
    <2> QED BY <1>2, <1>8, <2>1, <2>2 DEF Heard
<1>11. \A i \in Joins : i # j => SameFace(host, h, i)
    BY <1>4, <1>8 DEF HostStates, SameFace
<1>12. Answers
    BY <1>2, <1>3 DEF Answers
<1> QED BY <1>1, <1>2, <1>7, <1>8, <1>9, <1>10, <1>11, <1>12, HostHears

LEMMA HostTakesRetireKeeps ==
    ASSUME ScopeTypes, ScopeInv, NEW j \in Joins, HostTakesRetire(j)
    PROVE  ScopeTypes' /\ ScopeInv'
<1>1. PICK m : m = Head(up[j])
    OBVIOUS
<1> DEFINE q == [host.requested EXCEPT ![j] = @ \ {m.region}]
           a == [host.acked EXCEPT ![j] = [@ EXCEPT ![m.region] = 0]]
           c == IF m.region \in host.requested[j] THEN host.committed \ {j}
                                                  ELSE host.committed
<1>2. /\ host.live /\ up[j] # <<>> /\ m.load = host.load /\ m.op = "RETIRE"
      /\ up' = [up EXCEPT ![j] = Tail(up[j])] /\ UNCHANGED <<near, native, join, upsets>>
      /\ host' = [host EXCEPT !.requested[j] = @ \ {m.region}, !.acked[j][m.region] = 0,
                              !.committed = c]
      /\ UNCHANGED down
    BY <1>1 DEF HostTakesRetire, HostTakes
<1>3. m.region \in Regions
    BY <1>1, <1>2, HeadReported
<1>4. HostOk(host) /\ HostKept(host) /\ host \in HostStates
    BY DEF ScopeTypes, PlayerTypes, ScopeInv, HostOk
<1>5. /\ q \in [Joins -> SUBSET Regions] /\ c \in SUBSET Joins
      /\ a \in [Joins -> [Regions -> Nat]]
    BY <1>3, <1>4 DEF HostStates
<1>6. host' = [host EXCEPT !.requested = q, !.acked = a, !.committed = c]
    BY <1>2, <1>4 DEF HostStates
<1>7. PICK h : h = host'
    OBVIOUS
<1>8. /\ h \in HostStates /\ SameCatalog(host, h) /\ h.complete = host.complete
      /\ h.requested = q /\ h.acked = a /\ h.committed = c
    <2> HIDE DEF q, a, c
    <2> QED BY <1>4, <1>5, <1>6, <1>7 DEF HostStates, SameCatalog
<1>9. \A i \in Joins, r \in Regions : h.acked[i][r] = host.acked[i][r] \/ h.acked[i][r] = 0
    BY <1>4, <1>8 DEF HostStates
<1>10. HostOk(h) /\ HostKept(h)
    <2>1. \A i \in Joins, r \in Regions : h.acked[i][r] <= h.epoch[r]
        <3> SUFFICES ASSUME NEW i \in Joins, NEW r \in Regions
                     PROVE  h.acked[i][r] <= h.epoch[r]
            OBVIOUS
        <3>1. host.acked[i][r] <= h.epoch[r] /\ h.epoch[r] \in Nat
            BY <1>4, <1>8 DEF HostOk, SameCatalog, HostStates
        <3>2. h.acked[i][r] = host.acked[i][r] \/ h.acked[i][r] = 0
            BY <1>9
        <3> QED BY <3>1, <3>2
    <2> QED BY <1>2, <1>4, <1>8, <2>1, HostMoved
<1>11. Heard(host, h, j, m)
    <2>1. h.requested[j] = host.requested[j] \ {m.region}
        BY <1>4, <1>8 DEF HostStates
    <2>2. j \in h.committed => j \in host.committed /\ m.region \notin host.requested[j]
        BY <1>8
    <2> QED BY <1>2, <1>8, <1>9, <2>1, <2>2 DEF Heard
<1>12. \A i \in Joins : i # j => SameFace(host, h, i)
    BY <1>4, <1>8 DEF HostStates, SameFace
<1>13. Answers
    BY <1>2 DEF Answers
<1> QED BY <1>1, <1>2, <1>7, <1>8, <1>10, <1>11, <1>12, <1>13, HostHears

LEMMA HostTakesAckKeeps ==
    ASSUME ScopeTypes, ScopeInv, NEW j \in Joins, HostTakesAck(j)
    PROVE  ScopeTypes' /\ ScopeInv'
<1>1. PICK m : m = Head(up[j])
    OBVIOUS
<1>2. PICK n : n = Acked(j, m)
    OBVIOUS
<1> DEFINE a == [host.acked EXCEPT ![j] = [@ EXCEPT ![m.region] = n]]
<1>3. /\ host.live /\ up[j] # <<>> /\ m.load = host.load /\ m.op = "ACK"
      /\ up' = [up EXCEPT ![j] = Tail(up[j])] /\ UNCHANGED <<near, native, join, upsets>>
      /\ host' = [host EXCEPT !.acked[j][m.region] = n]
      /\ UNCHANGED down
    BY <1>1, <1>2 DEF HostTakesAck, HostTakes
<1>4. m.region \in Regions /\ m \in Packets
    BY <1>1, <1>3, HeadReported
<1>5. HostOk(host) /\ HostKept(host) /\ host \in HostStates
    BY DEF ScopeTypes, PlayerTypes, ScopeInv, HostOk
<1>6. /\ n \in Nat /\ n <= host.epoch[m.region]
      /\ n = m.epoch \/ n = host.acked[j][m.region]
    <2>1. /\ host.acked[j][m.region] \in Nat /\ host.epoch[m.region] \in Nat
          /\ host.acked[j][m.region] <= host.epoch[m.region] /\ m.epoch \in Nat
        BY <1>4, <1>5 DEF HostOk, HostStates, Packets
    <2>2. ExactAck(j, m) => m.epoch = host.epoch[m.region]
        BY DEF ExactAck
    <2>3. \/ ExactAck(j, m) /\ n = m.epoch
          \/ n = host.acked[j][m.region]
        BY <1>2 DEF Acked
    <2> QED BY <2>1, <2>2, <2>3
<1>7. /\ host.requested \in [Joins -> SUBSET Regions] /\ host.committed \in SUBSET Joins
      /\ a \in [Joins -> [Regions -> Nat]]
    BY <1>4, <1>5, <1>6 DEF HostStates
<1>8. host' = [host EXCEPT !.requested = host.requested, !.acked = a,
                           !.committed = host.committed]
    BY <1>3, <1>5 DEF HostStates
<1>9. PICK h : h = host'
    OBVIOUS
<1>10. /\ h \in HostStates /\ SameCatalog(host, h) /\ h.complete = host.complete
       /\ h.requested = host.requested /\ h.acked = a /\ h.committed = host.committed
    <2> HIDE DEF a
    <2> QED BY <1>5, <1>7, <1>8, <1>9 DEF HostStates, SameCatalog
<1>11. \A i \in Joins, r \in Regions :
          h.acked[i][r] = IF i = j /\ r = m.region THEN n ELSE host.acked[i][r]
    BY <1>5, <1>10 DEF HostStates
<1>12. HostOk(h) /\ HostKept(h)
    <2>1. \A i \in Joins, r \in Regions : h.acked[i][r] <= h.epoch[r]
        BY <1>5, <1>6, <1>10, <1>11 DEF HostOk, SameCatalog
    <2> QED BY <1>3, <1>5, <1>10, <2>1, HostMoved
<1>13. Heard(host, h, j, m)
    <2>1. \A r \in Regions : \/ h.acked[j][r] = host.acked[j][r]
                             \/ m.region = r /\ h.acked[j][r] = m.epoch
        BY <1>6, <1>11
    <2> QED BY <1>3, <1>10, <2>1 DEF Heard
<1>14. \A i \in Joins : i # j => SameFace(host, h, i)
    BY <1>10, <1>11 DEF SameFace
<1>15. Answers
    BY <1>3 DEF Answers
<1> QED BY <1>1, <1>3, <1>9, <1>10, <1>12, <1>13, <1>14, <1>15, HostHears

LEMMA HostTakesCommitKeeps ==
    ASSUME ScopeTypes, ScopeInv, NEW j \in Joins, HostTakesCommit(j)
    PROVE  ScopeTypes' /\ ScopeInv'
<1>1. PICK m : m = Head(up[j])
    OBVIOUS
<1> DEFINE c == IF m.epoch = Cardinality(host.requested[j]) THEN host.committed \cup {j}
                                                            ELSE host.committed
<1>2. /\ host.live /\ up[j] # <<>> /\ m.load = host.load /\ m.op = "COMMIT"
      /\ up' = [up EXCEPT ![j] = Tail(up[j])] /\ UNCHANGED <<near, native, join, upsets>>
      /\ host' = IF m.epoch = Cardinality(host.requested[j])
                 THEN [host EXCEPT !.committed = @ \cup {j}] ELSE host
      /\ UNCHANGED down
    BY <1>1 DEF HostTakesCommit, HostTakes
<1>3. HostOk(host) /\ HostKept(host) /\ host \in HostStates
    BY DEF ScopeTypes, PlayerTypes, ScopeInv, HostOk
<1>4. /\ host.requested \in [Joins -> SUBSET Regions] /\ c \in SUBSET Joins
      /\ host.acked \in [Joins -> [Regions -> Nat]]
    BY <1>3 DEF HostStates
<1>5. host' = [host EXCEPT !.requested = host.requested, !.acked = host.acked,
                           !.committed = c]
    BY <1>2, <1>3 DEF HostStates
<1>6. PICK h : h = host'
    OBVIOUS
<1>7. /\ h \in HostStates /\ SameCatalog(host, h) /\ h.complete = host.complete
      /\ h.requested = host.requested /\ h.acked = host.acked /\ h.committed = c
    <2> HIDE DEF c
    <2> QED BY <1>3, <1>4, <1>5, <1>6 DEF HostStates, SameCatalog
<1>8. HostOk(h) /\ HostKept(h)
    <2>1. \A i \in Joins, r \in Regions : h.acked[i][r] <= h.epoch[r]
        BY <1>3, <1>7 DEF HostOk, SameCatalog
    <2> QED BY <1>2, <1>3, <1>7, <2>1, HostMoved
<1>9. Heard(host, h, j, m)
    <2>1. j \in h.committed => \/ j \in host.committed
                               \/ m.epoch = Cardinality(host.requested[j])
        BY <1>7
    <2> QED BY <1>2, <1>7, <2>1 DEF Heard
<1>10. \A i \in Joins : i # j => SameFace(host, h, i)
    BY <1>7 DEF SameFace
<1>11. Answers
    BY <1>2 DEF Answers
<1> QED BY <1>1, <1>2, <1>6, <1>7, <1>8, <1>9, <1>10, <1>11, HostHears

LEMMA HostDropsKeeps ==
    ASSUME ScopeTypes, ScopeInv, NEW j \in Joins, HostDrops(j)
    PROVE  ScopeTypes' /\ ScopeInv'
<1>1. /\ host.live /\ up[j] # <<>> /\ Head(up[j]).load # host.load
      /\ up' = [up EXCEPT ![j] = Tail(up[j])]
      /\ UNCHANGED <<near, native, host, join, down, upsets>>
    BY DEF HostDrops
<1>2. HostOk(host') /\ HostKept(host')
    BY <1>1 DEF ScopeTypes, PlayerTypes, ScopeInv
<1>3. SameCatalog(host, host') /\ \A i \in Joins : SameFace(host, host', i)
    BY <1>1 DEF SameCatalog, SameFace
<1>4. Heard(host, host', j, Head(up[j]))
    BY <1>1, <1>3 DEF Heard
<1>5. Answers
    BY <1>1 DEF Answers
<1> QED BY <1>1, <1>2, <1>3, <1>4, <1>5, HostHears

-----------------------------------------------------------------------------
(* The invariant holds at the start and every step keeps it.               *)
LEMMA ScopeInitInv == Init => ScopeInv
<1> SUFFICES ASSUME Init PROVE ScopeInv
    OBVIOUS
<1>1. HostKept(host) /\ host.load = 1 /\ ~host.live
    BY DEF Init, HostKept, FreshHost
<1>2. ASSUME NEW j \in Joins PROVE Linked(host, join[j], j, down[j], up[j])
    <2>1. PICK x : x = join[j]
        OBVIOUS
    <2>2. /\ x = FreshJoin(0, FALSE) /\ x.load = 0 /\ ~x.live /\ x.requested = {}
          /\ ~x.committed
        BY <2>1 DEF Init, FreshJoin
    <2>3. up[j] = <<>> /\ down[j] = <<>> /\ Len(<<>>) = 0 /\ DOMAIN up[j] = {}
          /\ DOMAIN down[j] = {}
        BY DEF Init
    <2>4. /\ host.requested[j] = {} /\ j \notin host.committed
          /\ \A r \in Regions : host.acked[j][r] = 0
          /\ x.load # host.load
        <3>1. x.load = 0 /\ host.load = 1
            BY <1>1, <2>2
        <3>2. 0 # 1
            OBVIOUS
        <3>3. x.load # host.load
            BY <3>1, <3>2, Zenon
        <3> QED BY <3>3 DEF Init, FreshHost, Zeroes
    <2>5. JoinKept(x)
        BY <2>2 DEF JoinKept
    <2>6. Supply(host, down[j]) /\ Matches(host, x, down[j])
        <3>1. Supply(host, down[j])
            BY <2>3 DEF Supply, Rising
        <3> QED BY <2>4, <3>1 DEF Matches
    <2>7. Reports(host, x, up[j]) /\ Known(host, x, j)
        BY <2>2, <2>3, <2>4 DEF Reports, Known
    <2>8. Scoped(host, x, j, up[j])
        <3>1. {} \in SUBSET Regions
            OBVIOUS
        <3>2. Asks(up[j], Len(up[j]), {}, x.load) = {}
            BY <2>3, <3>1, AsksNone
        <3>3. Tells({}, x, up[j])
            BY <2>2, <2>3, <3>2 DEF Tells
        <3>4. ScopedBy({}, host, x, j, up[j])
            BY <2>4, <3>3 DEF ScopedBy
        <3> QED BY <3>1, <3>4 DEF Scoped
    <2> QED BY <2>1, <2>5, <2>6, <2>7, <2>8 DEF Linked
<1> QED BY <1>1, <1>2 DEF ScopeInv

LEMMA ScopeStill ==
    ASSUME ScopeTypes, ScopeInv, UNCHANGED vars PROVE ScopeTypes' /\ ScopeInv'
<1>1. UNCHANGED <<near, native, host, join, up, down, upsets>>
    BY DEF vars
<1>2. ScopeTypes'
    BY <1>1 DEF ScopeTypes, EngineTypes, PlayerTypes, LaneTypes
<1>3. ScopeInv'
    BY <1>1 DEF ScopeInv
<1> QED BY <1>2, <1>3

LEMMA ScopeNext ==
    ASSUME ScopeTypes, ScopeInv, [Next]_vars PROVE ScopeTypes' /\ ScopeInv'
<1>1. CASE Engines
    BY <1>1, EnginesKeep
<1>2. CASE ConnectPush
    BY <1>2, ConnectPushKeeps
<1>3. CASE HostLoads
    BY <1>3, HostLoadsKeeps
<1>4. CASE HostLive
    BY <1>4, HostLiveKeeps
<1>5. CASE HostScan
    BY <1>5, HostScansKeep
<1>6. ASSUME NEW j \in Joins, JoinGo(j) PROVE ScopeTypes' /\ ScopeInv'
    BY <1>6, JoinGoKeeps
<1>7. ASSUME NEW j \in Joins, JoinLive(j) PROVE ScopeTypes' /\ ScopeInv'
    BY <1>7, JoinLiveKeeps
<1>8. ASSUME NEW j \in Joins, HostTakesOne(j) PROVE ScopeTypes' /\ ScopeInv'
    BY <1>8, HostTakesRequestKeeps, HostTakesRetireKeeps, HostTakesAckKeeps,
       HostTakesCommitKeeps, HostDropsKeeps DEF HostTakesOne
<1>9. ASSUME NEW j \in Joins, JoinTakes(j) PROVE ScopeTypes' /\ ScopeInv'
    BY <1>9, JoinTakesKeeps
<1>10. ASSUME NEW j \in Joins, JoinScan(j) PROVE ScopeTypes' /\ ScopeInv'
    BY <1>10, JoinScansKeep
<1>11. CASE UNCHANGED vars
    BY <1>11, ScopeStill
<1> QED BY <1>1, <1>2, <1>3, <1>4, <1>5, <1>6, <1>7, <1>8, <1>9, <1>10, <1>11 DEF Next

LEMMA ScopeInvSuffices == ScopeTypes /\ ScopeInv => CertifiedSame
<1> SUFFICES ASSUME ScopeTypes, ScopeInv, NEW j \in Joins, PeerReady(j),
                    join[j].load = host.load
             PROVE  /\ \A r \in host.requested[j] :
                          /\ join[j].epoch[r] = host.epoch[r]
                          /\ join[j].objects[r] = host.objects[r]
                    /\ AllReady(j) /\ up[j] = <<>> => host.requested[j] = join[j].loaded
    BY DEF CertifiedSame
<1>1. PICK x : x = join[j]
    OBVIOUS
<1>2. LinkTypes(host, x, j, down[j], up[j]) /\ Linked(host, x, j, down[j], up[j])
    BY <1>1, LinksTyped DEF ScopeInv
<1>3. j \in host.committed /\ x.load = host.load
    BY <1>1 DEF PeerReady
<1>4. x.live /\ \A r \in Regions : host.acked[j][r] <= x.epoch[r]
    BY <1>2, <1>3 DEF Linked, Known
<1>5. ASSUME NEW r \in host.requested[j]
      PROVE  x.epoch[r] = host.epoch[r] /\ x.objects[r] = host.objects[r]
    <2>1. /\ r \in Regions /\ host.acked[j][r] \in Nat /\ host.epoch[r] \in Nat
          /\ x.epoch[r] \in Nat
        BY <1>2, LinkFields
    <2>2. host.acked[j][r] = host.epoch[r] /\ r \in host.complete
        BY DEF PeerReady
    <2>3. host.epoch[r] # 0
        BY <2>2 DEF ScopeInv, HostKept
    <2>4. Matched(host, x, r)
        BY <1>2, <1>3, <2>1 DEF Linked, Matches
    <2>5. x.epoch[r] = host.epoch[r]
        BY <1>4, <2>1, <2>2, <2>4 DEF Matched
    <2> QED BY <2>3, <2>4, <2>5 DEF Matched
<1>6. ASSUME AllReady(j), up[j] = <<>> PROVE host.requested[j] = x.loaded
    <2>1. PICK base \in SUBSET Regions : ScopedBy(base, host, x, j, up[j])
        BY <1>2 DEF Linked, Scoped
    <2>2. host.requested[j] = base
        BY <1>3, <2>1 DEF ScopedBy
    <2>3. x.requested = base
        <3>1. Len(up[j]) = 0
            BY <1>6
        <3> QED BY <2>1, <3>1, AsksNone DEF ScopedBy, Tells
    <2>4. x.requested = x.loaded
        BY <1>1, <1>2, <1>6 DEF AllReady, Linked, JoinKept
    <2> QED BY <2>2, <2>3, <2>4
<1> QED BY <1>1, <1>5, <1>6

(* The type invariant of the scopes, the lanes and the engines, for every  *)
(* number of joins, regions and loads (ProceduralWorldSync.cpp).           *)
THEOREM ScopeTypesHold == Spec => []TypeOK
<1>1. Init => ScopeTypes /\ ScopeInv
    BY ScopeInitTypes, ScopeInitInv
<1>2. ScopeTypes /\ ScopeInv /\ [Next]_vars => ScopeTypes' /\ ScopeInv'
    BY ScopeNext
<1>3. ScopeTypes => TypeOK
    BY PartsSuffice
<1> QED BY <1>1, <1>2, <1>3, PTL DEF Spec

(* Whatever crossed on the way, and however often a save was loaded, a     *)
(* join that the host certifies (peerReady) has last matched the host's    *)
(* present catalog in every region it asked for; and once nothing of the   *)
(* join's is under way and it finds itself ready (allLoadedRegionsReady),  *)
(* the regions it asked for are those it has loaded.                       *)
THEOREM ScopeCertifiedSame == Spec => []CertifiedSame
<1>1. Init => ScopeTypes /\ ScopeInv
    BY ScopeInitTypes, ScopeInitInv
<1>2. ScopeTypes /\ ScopeInv /\ [Next]_vars => ScopeTypes' /\ ScopeInv'
    BY ScopeNext
<1>3. ScopeTypes /\ ScopeInv => CertifiedSame
    BY ScopeInvSuffices
<1> QED BY <1>1, <1>2, <1>3, PTL DEF Spec

=============================================================================

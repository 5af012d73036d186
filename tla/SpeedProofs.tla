---------------------------- MODULE SpeedProofs ----------------------------
(***************************************************************************)
(* Proofs about SpeedConsensus: its types, that the last command wins, and *)
(* that no request is taken for an old one.                                *)
(***************************************************************************)
EXTENDS SpeedConsensus, SequenceTheorems, TLAPS

-----------------------------------------------------------------------------
(* The types, action by action.                                            *)
LEMMA TypesInit == Init => TypeOK
<1> SUFFICES ASSUME Init PROVE TypeOK
    OBVIOUS
<1>1. HostTypes
  <2>1. Start \in Speeds
      BY SpeedAssumption, Zenon
  <2> QED BY <2>1 DEF Init, HostTypes, Known
<1>2. JoinTypes
    BY DEF Init, JoinTypes, Known
<1>3. MaxClicks \in Nat /\ MaxUpsets \in Nat
    BY SpeedAssumption
<1>4. HistoryTypes
  <2>1. clicks \in 0 .. MaxClicks /\ upsets \in 0 .. MaxUpsets
      BY <1>3 DEF Init
  <2>2. last \in Speeds
      BY <1>1 DEF Init, HostTypes
  <2> QED BY <2>1, <2>2 DEF Init, HistoryTypes
<1> QED BY <1>1, <1>2, <1>4 DEF TypeOK

LEMMA ClicksTyped ==
    ASSUME clicks \in 0 .. MaxClicks, NEW pressed \in BOOLEAN, Press(pressed)
    PROVE  clicks' \in 0 .. MaxClicks
BY SpeedAssumption DEF Press

LEMMA AskedTyped ==
    ASSUME NEW button \in Buttons, NEW before, NEW after,
           before = None \/ before \in Speeds, after = None \/ after \in Speeds,
           NEW s \in Asked(button, before, after)
    PROVE  s \in Speeds
<1>1. ASSUME NEW v \in Speeds PROVE v.mult \in Mults
    BY DEF Speeds
<1>2. CASE button \in Levels
  <2>1. s = [mult |-> button.mult, paused |-> FALSE]
      BY <1>2 DEF Asked
  <2>2. button.mult \in Mults
      BY <1>2 DEF Levels
  <2> QED BY <2>1, <2>2 DEF Speeds
<1>3. CASE button \notin Levels
  <2> DEFINE known == {v.mult : v \in {before, after} \ {None}}
             held == CASE button.kind = "pause" /\ after # None -> {after.mult}
                       [] button.kind = "unpause" /\ known # {} -> known
                       [] OTHER -> Mults
  <2>1. known \subseteq Mults
      BY <1>1
  <2>2. after # None => after.mult \in Mults
      BY <1>1
  <2> HIDE DEF known
  <2>3. held \subseteq Mults
      BY <2>1, <2>2
  <2>4. s \in {[mult |-> m, paused |-> button.kind = "pause"] : m \in held}
      BY <1>3 DEF Asked, known
  <2> HIDE DEF held
  <2>5. PICK m \in held : s = [mult |-> m, paused |-> button.kind = "pause"]
      BY <2>4
  <2>6. (button.kind = "pause") \in BOOLEAN
      OBVIOUS
  <2> QED BY <2>3, <2>5, <2>6 DEF Speeds
<1> QED BY <1>2, <1>3

LEMMA WinnerTyped ==
    ASSUME TypeOK, NEW button \in Buttons \cup {None}, NEW n \in [Joins -> Nat],
           \A j \in Joins : n[j] <= Len(up[j]),
           NEW cmd \in Winners(button, n)
    PROVE  cmd \in Known
<1> DEFINE voted == UNION {Voted(j, n[j]) : j \in Joins}
<1>1. voted \subseteq Speeds
  <2>1. ASSUME NEW j \in Joins, NEW s \in Voted(j, n[j]) PROVE s \in Speeds
    <3>1. PICK i \in 1 .. n[j] : s = up[j][i].speed
        BY <2>1 DEF Voted
    <3>2. up[j] \in Seq(Requests) /\ i \in 1 .. Len(up[j])
        BY <3>1 DEF TypeOK, JoinTypes
    <3>3. up[j][i] \in Requests
        BY <3>2
    <3> QED BY <3>1, <3>3 DEF Requests
  <2> QED BY <2>1
<1>2. ASSUME NEW s \in voted PROVE Taken(s) \in Speeds
  <2>1. s \in Speeds /\ set \in Speeds
      BY <1>1, <1>2 DEF TypeOK, HostTypes
  <2>2. CASE s.paused
    <3>1. [set EXCEPT !.paused = TRUE] \in Speeds
        BY <2>1 DEF Speeds
    <3> QED BY <3>1, <2>2 DEF Taken
  <2>3. CASE ~s.paused
      BY <2>1, <2>3 DEF Taken
  <2> QED BY <2>2, <2>3
<1>3. cmd \in IF voted # {} THEN {Taken(s) : s \in voted}
              ELSE IF button # None THEN Asked(button, set, set) ELSE {None}
    BY DEF Winners
<1> HIDE DEF voted
<1>4. CASE voted # {}
    BY <1>2, <1>3, <1>4 DEF Known
<1>5. CASE voted = {} /\ button # None
  <2>1. set \in Speeds /\ button \in Buttons /\ cmd \in Asked(button, set, set)
      BY <1>3, <1>5 DEF TypeOK, HostTypes
  <2> QED BY <2>1, AskedTyped DEF Known
<1>6. CASE voted = {} /\ button = None
    BY <1>3, <1>6 DEF Known
<1> QED BY <1>4, <1>5, <1>6

LEMMA HostTypesStep ==
    ASSUME TypeOK, NEW button \in Buttons \cup {None}, NEW n \in Batches,
           NEW due \in BOOLEAN, HostTick(button, n, due)
    PROVE  TypeOK'
<1>1. n \in [Joins -> Nat] /\ \A j \in Joins : n[j] <= Len(up[j])
    BY SpeedAssumption DEF Batches
<1>2. PICK cmd \in Winners(button, n) :
        LET acts  == cmd # None /\ cmd # set /\ ~window
            fires == pend # None /\ ~window /\ ~acts
        IN /\ set' = IF acts THEN cmd ELSE IF fires THEN pend ELSE set
           /\ pend' = Waiting(cmd, acts, fires)
           /\ window' = (window \/ acts \/ (fires /\ pend # set))
           /\ down' = IF Sends(acts, fires, due)
                      THEN [j \in Joins |-> IF here[j] THEN Append(down[j], set')
                                            ELSE down[j]]
                      ELSE down
           /\ last' = (IF cmd # None THEN cmd ELSE last)
           /\ crossed' = (IF cmd # None THEN cmd = set /\ pend # None ELSE crossed)
    BY Zenon DEF HostTick
<1>3. cmd \in Known
    BY <1>1, <1>2, WinnerTyped
<1> DEFINE acts == cmd # None /\ cmd # set /\ ~window
           fires == pend # None /\ ~window /\ ~acts
<1>4. set' \in Speeds
  <2>1. acts => cmd \in Speeds
      BY <1>3 DEF Known
  <2>2. fires => pend \in Speeds
      BY DEF TypeOK, HostTypes, Known
  <2>3. set' = IF acts THEN cmd ELSE IF fires THEN pend ELSE set
      BY <1>2
  <2>4. set \in Speeds
      BY DEF TypeOK, HostTypes
  <2> HIDE DEF acts, fires
  <2> QED BY <2>1, <2>2, <2>3, <2>4
<1>5. pend' \in Known
  <2>1. pend' = Waiting(cmd, acts, fires)
      BY <1>2
  <2>2. pend \in Known /\ None \in Known
      BY DEF TypeOK, HostTypes, Known
  <2> HIDE DEF acts, fires
  <2> QED BY <2>1, <2>2, <1>3 DEF Waiting
<1>6. window' \in BOOLEAN
    BY <1>2 DEF TypeOK, HostTypes
<1>7. requests' \in [Joins -> Nat]
  <2>1. ASSUME NEW j \in Joins PROVE Seen(j, n[j]) \in Nat
    <3>1. CASE n[j] = 0
        BY <3>1 DEF Seen, TypeOK, HostTypes
    <3>2. CASE n[j] # 0
      <4>1. up[j] \in Seq(Requests) /\ n[j] \in 1 .. Len(up[j])
          BY <1>1, <3>2 DEF TypeOK, JoinTypes
      <4>2. up[j][n[j]] \in Requests
          BY <4>1
      <4>3. up[j][n[j]].seq \in Nat
          BY <4>2 DEF Requests
      <4> QED BY <4>3 DEF Seen, TypeOK, HostTypes
    <3> QED BY <3>1, <3>2
  <2>2. requests' = [j \in Joins |-> Seen(j, n[j])]
      BY DEF HostTick
  <2> QED BY <2>1, <2>2
<1>8. HostTypes'
    BY <1>4, <1>5, <1>6, <1>7 DEF HostTypes
<1>9. up' \in [Joins -> Seq(Requests)]
  <2>1. ASSUME NEW j \in Joins
        PROVE  SubSeq(up[j], n[j] + 1, Len(up[j])) \in Seq(Requests)
    <3>1. up[j] \in Seq(Requests) /\ n[j] + 1 \in 1 .. Len(up[j]) + 1
        BY <1>1 DEF TypeOK, JoinTypes
    <3> QED BY <3>1, SubSeqProperties
  <2>2. up' = [j \in Joins |-> SubSeq(up[j], n[j] + 1, Len(up[j]))]
      BY DEF HostTick
  <2> QED BY <2>1, <2>2
<1>10. down' \in [Joins -> Seq(Speeds)]
  <2>1. down \in [Joins -> Seq(Speeds)]
      BY DEF TypeOK, JoinTypes
  <2>2. ASSUME NEW j \in Joins PROVE Append(down[j], set') \in Seq(Speeds)
      BY <2>1, <1>4
  <2>3. \/ down' = down
        \/ down' = [j \in Joins |-> IF here[j] THEN Append(down[j], set')
                                    ELSE down[j]]
      BY <1>2
  <2> QED BY <2>1, <2>2, <2>3
<1>11. JoinTypes'
    BY <1>9, <1>10 DEF TypeOK, JoinTypes, HostTick
<1>12. last' \in Speeds
    BY <1>2, <1>3 DEF TypeOK, HistoryTypes, Known
<1>13. crossed' \in BOOLEAN
    BY <1>2 DEF TypeOK, HistoryTypes
<1>14. clicks' \in 0 .. MaxClicks
    BY ClicksTyped DEF TypeOK, HistoryTypes, HostTick
<1>15. HistoryTypes'
    BY <1>12, <1>13, <1>14 DEF TypeOK, HistoryTypes, HostTick
<1> QED BY <1>8, <1>11, <1>15 DEF TypeOK

LEMMA JoinTypesStep ==
    ASSUME TypeOK, NEW j \in Joins, NEW button \in Buttons \cup {None},
           NEW n \in 0 .. Len(down[j]), NEW beat \in BOOLEAN,
           JoinTick(j, button, n, beat)
    PROVE  TypeOK'
<1> DEFINE adopted == IF n > 0 THEN down[j][n] ELSE eff[j]
<1>1. adopted \in Known
  <2>1. down[j] \in Seq(Speeds) /\ eff[j] \in Known /\ Len(down[j]) \in Nat
      BY DEF TypeOK, JoinTypes
  <2>2. n > 0 => down[j][n] \in Speeds
      BY <2>1
  <2> QED BY <2>1, <2>2 DEF Known
<1>2. eff' \in [Joins -> Known]
  <2>1. eff' = [eff EXCEPT ![j] = adopted]
      BY DEF JoinTick
  <2> HIDE DEF adopted
  <2> QED BY <1>1, <2>1 DEF TypeOK, JoinTypes
<1>3. down' \in [Joins -> Seq(Speeds)]
  <2>1. down[j] \in Seq(Speeds) /\ n + 1 \in 1 .. Len(down[j]) + 1
      BY DEF TypeOK, JoinTypes
  <2>2. SubSeq(down[j], n + 1, Len(down[j])) \in Seq(Speeds)
      BY <2>1, SubSeqProperties
  <2>3. down' = [down EXCEPT ![j] = SubSeq(down[j], n + 1, Len(down[j]))]
      BY DEF JoinTick
  <2> QED BY <2>2, <2>3 DEF TypeOK, JoinTypes
<1>4. ASSUME NEW c \in BOOLEAN, NEW s \in Speeds, Request(j, c, s)
      PROVE  up' \in [Joins -> Seq(Requests)] /\ seqOut' \in [Joins -> Nat \ {0}]
  <2>1. seqOut[j] \in Nat \ {0} /\ up[j] \in Seq(Requests)
      BY DEF TypeOK, JoinTypes
  <2>2. [seq |-> seqOut[j], cmd |-> c, speed |-> s] \in Requests
      BY <2>1 DEF Requests
  <2>3. Append(up[j], [seq |-> seqOut[j], cmd |-> c, speed |-> s]) \in Seq(Requests)
      BY <2>1, <2>2
  <2>4. seqOut[j] + 1 \in Nat \ {0}
      BY <2>1
  <2> QED BY <1>4, <2>3, <2>4 DEF Request, TypeOK, JoinTypes
<1>5. up' \in [Joins -> Seq(Requests)] /\ seqOut' \in [Joins -> Nat \ {0}]
  <2>1. CASE button # None /\ \E s \in Asked(button, eff[j], adopted) : Request(j, TRUE, s)
    <3>1. PICK s \in Asked(button, eff[j], adopted) : Request(j, TRUE, s)
        BY <2>1
    <3>2. (adopted = None \/ adopted \in Speeds) /\ (eff[j] = None \/ eff[j] \in Speeds)
        BY <1>1 DEF Known, TypeOK, JoinTypes
    <3> HIDE DEF adopted
    <3>3. s \in Speeds
        BY <2>1, <3>1, <3>2, AskedTyped
    <3> QED BY <3>1, <3>3, <1>4
  <2>2. CASE adopted # None /\ Request(j, FALSE, adopted)
    <3>1. adopted \in Speeds
        BY <1>1, <2>2 DEF Known
    <3> HIDE DEF adopted
    <3> QED BY <3>1, <2>2, <1>4
  <2>3. CASE UNCHANGED <<up, seqOut>>
      BY <2>3 DEF TypeOK, JoinTypes
  <2> QED BY <2>1, <2>2, <2>3, Zenon DEF JoinTick
<1>6. JoinTypes'
    BY <1>2, <1>3, <1>5 DEF TypeOK, JoinTypes, JoinTick
<1>7. HostTypes'
    BY DEF TypeOK, HostTypes, JoinTick, hostVars
<1>8. clicks' \in 0 .. MaxClicks
    BY ClicksTyped DEF TypeOK, HistoryTypes, JoinTick
<1>9. HistoryTypes'
    BY <1>8 DEF TypeOK, HistoryTypes, JoinTick, history
<1> QED BY <1>6, <1>7, <1>9 DEF TypeOK

LEMMA ResetTypes ==
    ASSUME TypeOK, NEW s \in Speeds, HostReset(s)
    PROVE  HostTypes' /\ last' \in Speeds /\ crossed' \in BOOLEAN /\ renewed' \subseteq Joins
BY DEF HostReset, HostTypes, Known

LEMMA SessionTypes == ASSUME TypeOK, Session PROVE TypeOK'
<1>0. Upset => upsets' \in 0 .. MaxUpsets
    BY SpeedAssumption DEF Upset, TypeOK, HistoryTypes
<1>1. CASE HostReload
  <2>1. HostTypes' /\ last' \in Speeds /\ crossed' \in BOOLEAN /\ renewed' \subseteq Joins
      BY <1>1, ResetTypes DEF HostReload
  <2>2. JoinTypes'
      BY <1>1 DEF HostReload, TypeOK, JoinTypes, CounterKept, Known
  <2>3. HistoryTypes'
      BY <1>0, <1>1, <2>1 DEF HostReload, TypeOK, HistoryTypes
  <2> QED BY <2>1, <2>2, <2>3 DEF TypeOK
<1>2. ASSUME NEW j \in Joins, JoinReload(j) PROVE TypeOK'
  <2>1. PICK k \in 0 .. Len(up[j]) : up' = [up EXCEPT ![j] = SubSeq(up[j], 1, k)]
      BY <1>2 DEF JoinReload
  <2>2. up[j] \in Seq(Requests) /\ k \in 0 .. Len(up[j])
      BY DEF TypeOK, JoinTypes
  <2>3. SubSeq(up[j], 1, k) \in Seq(Requests)
      BY <2>2, SubSeqProperties
  <2>4. up' \in [Joins -> Seq(Requests)]
      BY <2>1, <2>3 DEF TypeOK, JoinTypes
  <2>5. JoinTypes'
      BY <1>2, <2>4 DEF JoinReload, TypeOK, JoinTypes, CounterKept, Known
  <2>6. HostTypes' /\ HistoryTypes'
      BY <1>0, <1>2 DEF JoinReload, TypeOK, HostTypes, HistoryTypes, hostVars, history
  <2> QED BY <2>5, <2>6 DEF TypeOK
<1>3. ASSUME NEW j \in Joins, Leave(j) PROVE TypeOK'
  <2>1. JoinTypes'
      BY <1>3 DEF Leave, TypeOK, JoinTypes, Known
  <2>2. HostTypes' /\ last' \in Speeds /\ crossed' \in BOOLEAN /\ renewed' \subseteq Joins
    <3>1. CASE UNCHANGED <<hostVars, history>>
        BY <3>1 DEF TypeOK, HostTypes, HistoryTypes, hostVars, history
    <3>2. CASE HostReset(set)
        BY <3>2, ResetTypes DEF TypeOK, HostTypes
    <3> QED BY <1>3, <3>1, <3>2 DEF Leave
  <2>3. HistoryTypes'
      BY <1>0, <1>3, <2>2 DEF Leave, TypeOK, HistoryTypes
  <2> QED BY <2>1, <2>2, <2>3 DEF TypeOK
<1>4. ASSUME NEW j \in Joins, Connect(j) PROVE TypeOK'
  <2>1. JoinTypes'
    <3>1. seqOut \in [Joins -> Nat \ {0}]
        BY DEF TypeOK, JoinTypes
    <3>2. seqOut' \in [Joins -> Nat \ {0}]
      <4>1. CASE UNCHANGED seqOut
          BY <3>1, <4>1
      <4>2. CASE seqOut' = [seqOut EXCEPT ![j] = 1]
          BY <3>1, <4>2
      <4> QED BY <1>4, <4>1, <4>2 DEF Connect
    <3>3. here' \in [Joins -> BOOLEAN] /\ UNCHANGED <<eff, up, down>>
        BY <1>4 DEF Connect, TypeOK, JoinTypes
    <3> QED BY <3>2, <3>3 DEF TypeOK, JoinTypes
  <2>2. HostTypes'
      BY <1>4 DEF Connect, TypeOK, HostTypes, hostVars
  <2>3. HistoryTypes'
      BY <1>4 DEF Connect, Outrun, TypeOK, HistoryTypes, bounds
  <2> QED BY <2>1, <2>2, <2>3 DEF TypeOK
<1>5. ASSUME NEW i \in Joins, NEW j \in Joins, Reseat(i, j) PROVE TypeOK'
  <2>1. JoinTypes'
    <3>1. seqOut \in [Joins -> Nat \ {0}] /\ here \in [Joins -> BOOLEAN]
        BY DEF TypeOK, JoinTypes
    <3>2. here' \in [Joins -> BOOLEAN] /\ seqOut' \in [Joins -> Nat \ {0}]
        BY <1>5, <3>1 DEF Reseat
    <3>3. eff' \in [Joins -> Known]
        BY <1>5 DEF Reseat, TypeOK, JoinTypes, Known
    <3>4. up' \in [Joins -> Seq(Requests)]
        BY <1>5 DEF Reseat, TypeOK, JoinTypes
    <3>5. down' \in [Joins -> Seq(Speeds)]
        BY <1>5 DEF Reseat, TypeOK, JoinTypes
    <3> QED BY <3>2, <3>3, <3>4, <3>5 DEF JoinTypes
  <2>2. HostTypes'
      BY <1>5 DEF Reseat, TypeOK, HostTypes, hostVars
  <2>3. HistoryTypes'
      BY <1>0, <1>5 DEF Reseat, Outrun, TypeOK, HistoryTypes
  <2> QED BY <2>1, <2>2, <2>3 DEF TypeOK
<1> QED BY <1>1, <1>2, <1>3, <1>4, <1>5 DEF Session

LEMMA TypesNext == TypeOK /\ [Next]_vars => TypeOK'
<1> SUFFICES ASSUME TypeOK, [Next]_vars PROVE TypeOK'
    OBVIOUS
<1>1. CASE Host
  <2>1. CASE DebounceEnds
    <3>1. HostTypes'
        BY <2>1 DEF DebounceEnds, TypeOK, HostTypes
    <3>2. JoinTypes'
        BY <2>1 DEF DebounceEnds, TypeOK, JoinTypes, joinVars
    <3>3. HistoryTypes'
        BY <2>1 DEF DebounceEnds, TypeOK, HistoryTypes, history, bounds
    <3> QED BY <3>1, <3>2, <3>3 DEF TypeOK
  <2> QED BY <1>1, <2>1, HostTypesStep DEF Host
<1>2. CASE Session
    BY <1>2, SessionTypes
<1>3. ASSUME NEW j \in Joins, Join(j) PROVE TypeOK'
    BY <1>3, JoinTypesStep DEF Join
<1>4. CASE UNCHANGED vars
    BY <1>4 DEF vars, TypeOK, HostTypes, JoinTypes, HistoryTypes, hostVars, joinVars,
                history, bounds
<1> QED BY <1>1, <1>2, <1>3, <1>4 DEF Next

(* Every speed, lane and counter keeps its type: in particular nothing is  *)
(* put into force that nobody can ask for.                                 *)
THEOREM SpeedTypeCorrect == Spec => []TypeOK
BY TypesInit, TypesNext, PTL DEF Spec

-----------------------------------------------------------------------------
(* The last command wins: the invariant is inductive as it stands.         *)
LEMMA LastHost ==
    ASSUME LastWins, NEW button, NEW n, NEW due, HostTick(button, n, due)
    PROVE  LastWins'
<1>1. PICK cmd :
        LET acts  == cmd # None /\ cmd # set /\ ~window
            fires == pend # None /\ ~window /\ ~acts
        IN /\ set' = IF acts THEN cmd ELSE IF fires THEN pend ELSE set
           /\ pend' = Waiting(cmd, acts, fires)
           /\ last' = (IF cmd # None THEN cmd ELSE last)
           /\ crossed' = (IF cmd # None THEN cmd = set /\ pend # None ELSE crossed)
    BY Zenon DEF HostTick
<1>2. CASE cmd = None
  <2>1. CASE pend # None /\ ~window
    <3>1. set' = pend /\ pend' = None /\ last' = last /\ crossed' = crossed
        BY <1>1, <1>2, <2>1 DEF Waiting
    <3> QED BY <3>1, <2>1 DEF LastWins
  <2>2. CASE ~(pend # None /\ ~window)
    <3>1. set' = set /\ pend' = pend /\ last' = last /\ crossed' = crossed
        BY <1>1, <1>2, <2>2 DEF Waiting
    <3> QED BY <3>1 DEF LastWins
  <2> QED BY <2>1, <2>2
<1>3. CASE cmd # None /\ cmd # set
  <2>1. last' = cmd
      BY <1>1, <1>3
  <2>2. CASE window
    <3>1. pend' = cmd
        BY <1>1, <1>3, <2>2 DEF Waiting
    <3> QED BY <3>1, <2>1, <1>3 DEF LastWins
  <2>3. CASE ~window
    <3>1. pend' = None /\ set' = cmd
        BY <1>1, <1>3, <2>3 DEF Waiting
    <3> QED BY <3>1, <2>1 DEF LastWins
  <2> QED BY <2>2, <2>3
<1>4. CASE cmd # None /\ cmd = set
  <2>1. CASE pend = None
    <3>1. pend' = None /\ set' = set /\ last' = cmd
        BY <1>1, <1>4, <2>1 DEF Waiting
    <3> QED BY <3>1, <1>4 DEF LastWins
  <2>2. CASE pend # None
    <3>1. crossed'
        BY <1>1, <1>4, <2>2
    <3> QED BY <3>1 DEF LastWins
  <2> QED BY <2>1, <2>2
<1> QED BY <1>2, <1>3, <1>4

LEMMA LastSession == ASSUME LastWins, Session PROVE LastWins'
<1>1. ASSUME NEW s, HostReset(s) PROVE LastWins'
    BY <1>1 DEF HostReset, LastWins
<1>2. CASE HostReload
    BY <1>1, <1>2 DEF HostReload
<1>3. ASSUME NEW j \in Joins, JoinReload(j) PROVE LastWins'
    BY <1>3 DEF JoinReload, LastWins, hostVars, history
<1>4. ASSUME NEW j \in Joins, Leave(j) PROVE LastWins'
  <2>1. CASE UNCHANGED <<hostVars, history>>
      BY <2>1 DEF LastWins, hostVars, history
  <2>2. CASE HostReset(set)
      BY <2>2, <1>1
  <2> QED BY <1>4, <2>1, <2>2 DEF Leave
<1>5. ASSUME NEW j \in Joins, Connect(j) PROVE LastWins'
    BY <1>5 DEF Connect, LastWins, hostVars
<1>6. ASSUME NEW i \in Joins, NEW j \in Joins, Reseat(i, j) PROVE LastWins'
    BY <1>6 DEF Reseat, LastWins, hostVars
<1> QED BY <1>2, <1>3, <1>4, <1>5, <1>6 DEF Session

LEMMA LastNext == LastWins /\ [Next]_vars => LastWins'
<1> SUFFICES ASSUME LastWins, [Next]_vars PROVE LastWins'
    OBVIOUS
<1>1. CASE Host
  <2>1. CASE DebounceEnds
      BY <2>1 DEF DebounceEnds, LastWins, history
  <2> QED BY <1>1, <2>1, LastHost DEF Host
<1>2. CASE Session
    BY <1>2, LastSession
<1>3. ASSUME NEW j \in Joins, Join(j) PROVE LastWins'
    BY <1>3 DEF Join, JoinTick, LastWins, hostVars, history
<1>4. CASE UNCHANGED vars
    BY <1>4 DEF vars, LastWins, hostVars, history
<1> QED BY <1>1, <1>2, <1>3, <1>4 DEF Next

(* syncSpeed, "Last processed this tick wins": for any number of joins,    *)
(* speeds and clicks, what is in force or waits is the last command the    *)
(* host took, but for a command that crossed a waiting one.                *)
THEOREM SpeedLastWins == Spec => []LastWins
<1>1. Init => LastWins
    BY DEF Init, LastWins
<1> QED BY <1>1, LastNext, PTL DEF Spec

-----------------------------------------------------------------------------
(* No request is taken for an old one.  The numbers in a lane rise, are    *)
(* below the counter of the join, and above what the host has had of it.   *)
Rising(s) == \A a, b \in 1 .. Len(s) : a < b => s[a].seq < s[b].seq
Below(s, c) == \A i \in 1 .. Len(s) : s[i].seq < c
Above(s, c) == \A i \in 1 .. Len(s) : s[i].seq > c

SeatInv(j) ==
    /\ Rising(up[j]) /\ Below(up[j], seqOut[j])
    /\ ~here[j] => up[j] = <<>>
    /\ j \notin renewed => requests[j] < seqOut[j] /\ Above(up[j], requests[j])

HeardInv == TypeOK /\ \A j \in Joins : SeatInv(j)

LEMMA LaneTyped ==
    ASSUME TypeOK, NEW j \in Joins
    PROVE  /\ up[j] \in Seq(Requests) /\ seqOut[j] \in Nat \ {0} /\ requests[j] \in Nat
           /\ \A i \in 1 .. Len(up[j]) : up[j][i].seq \in Nat \ {0}
<1>1. up[j] \in Seq(Requests) /\ seqOut[j] \in Nat \ {0} /\ requests[j] \in Nat
    BY DEF TypeOK, HostTypes, JoinTypes
<1>2. ASSUME NEW i \in 1 .. Len(up[j]) PROVE up[j][i].seq \in Nat \ {0}
  <2>1. up[j][i] \in Requests
      BY <1>1
  <2> QED BY <2>1 DEF Requests
<1> QED BY <1>1, <1>2

(* What is left of a lane when some of its head or its end is gone.        *)
LEMMA Remainder ==
    ASSUME NEW s \in Seq(Requests), \A i \in 1 .. Len(s) : s[i].seq \in Nat,
           NEW a \in 1 .. Len(s) + 1, NEW b \in 0 .. Len(s), a <= b + 1, Rising(s),
           NEW t, t = SubSeq(s, a, b)
    PROVE  /\ Rising(t)
           /\ \A c \in Nat : Below(s, c) => Below(t, c)
           /\ \A c \in Nat : Above(s, c) => Above(t, c)
           /\ a > 1 => Above(t, s[a - 1].seq)
<1>1. Len(t) \in Nat /\ \A i \in 1 .. Len(t) : t[i] = s[i + a - 1] /\ i + a - 1 \in a .. Len(s)
    BY SubSeqProperties
<1>2. Rising(t)
  <2>1. ASSUME NEW x \in 1 .. Len(t), NEW y \in 1 .. Len(t), x < y
        PROVE  t[x].seq < t[y].seq
    <3>1. /\ t[x] = s[x + a - 1] /\ t[y] = s[y + a - 1]
          /\ x + a - 1 \in 1 .. Len(s) /\ y + a - 1 \in 1 .. Len(s)
          /\ x + a - 1 < y + a - 1
        BY <1>1, <2>1
    <3> QED BY <3>1 DEF Rising
  <2> QED BY <2>1 DEF Rising
<1>3. \A c \in Nat : Below(s, c) => Below(t, c)
    BY <1>1 DEF Below
<1>4. \A c \in Nat : Above(s, c) => Above(t, c)
    BY <1>1 DEF Above
<1>5. a > 1 => Above(t, s[a - 1].seq)
  <2>1. ASSUME a > 1, NEW x \in 1 .. Len(t) PROVE t[x].seq > s[a - 1].seq
    <3>1. /\ t[x] = s[x + a - 1] /\ a - 1 < x + a - 1
          /\ x + a - 1 \in 1 .. Len(s) /\ a - 1 \in 1 .. Len(s)
        BY <1>1, <2>1
    <3>2. s[a - 1].seq < s[x + a - 1].seq
        BY <3>1 DEF Rising
    <3>3. s[a - 1].seq \in Nat /\ s[x + a - 1].seq \in Nat
        BY <3>1
    <3> QED BY <3>1, <3>2, <3>3
  <2> QED BY <2>1 DEF Above
<1> QED BY <1>2, <1>3, <1>4, <1>5

LEMMA Suffix ==
    ASSUME NEW s \in Seq(Requests), \A i \in 1 .. Len(s) : s[i].seq \in Nat,
           NEW k \in 0 .. Len(s), Rising(s), NEW t, t = SubSeq(s, k + 1, Len(s))
    PROVE  /\ Rising(t)
           /\ \A c \in Nat : Below(s, c) => Below(t, c)
           /\ \A c \in Nat : Above(s, c) => Above(t, c)
           /\ k # 0 => Above(t, s[k].seq)
<1> DEFINE a == k + 1
           b == Len(s)
<1>1. a \in 1 .. Len(s) + 1 /\ b \in 0 .. Len(s) /\ a <= b + 1
    OBVIOUS
<1>2. t = SubSeq(s, a, b)
    OBVIOUS
<1>3. k # 0 => a > 1 /\ a - 1 = k
    OBVIOUS
<1> HIDE DEF a, b
<1> QED BY <1>1, <1>2, <1>3, Remainder

LEMMA HostHears ==
    ASSUME HeardInv, NEW button, NEW n \in Batches, NEW due, HostTick(button, n, due),
           NEW j \in Joins
    PROVE  SeatInv(j)'
<1> DEFINE k == n[j]
<1>1. k \in 0 .. Len(up[j])
    BY LaneTyped, SpeedAssumption DEF HeardInv, Batches
<1>2. /\ up'[j] = SubSeq(up[j], k + 1, Len(up[j])) /\ requests'[j] = Seen(j, k)
      /\ UNCHANGED <<here, seqOut, renewed>>
    BY DEF HostTick
<1>3. /\ up[j] \in Seq(Requests) /\ seqOut[j] \in Nat \ {0} /\ requests[j] \in Nat
      /\ \A i \in 1 .. Len(up[j]) : up[j][i].seq \in Nat \ {0}
    BY LaneTyped DEF HeardInv
<1>4. SeatInv(j)
    BY DEF HeardInv
<1>5. /\ Rising(up'[j])
      /\ \A c \in Nat : Below(up[j], c) => Below(up'[j], c)
      /\ \A c \in Nat : Above(up[j], c) => Above(up'[j], c)
      /\ k # 0 => Above(up'[j], up[j][k].seq)
  <2>1. Rising(up[j]) /\ \A i \in 1 .. Len(up[j]) : up[j][i].seq \in Nat
      BY <1>3, <1>4 DEF SeatInv
  <2> HIDE DEF k
  <2> QED BY <2>1, <1>1, <1>2, <1>3, Suffix
<1>6. ~here'[j] => up'[j] = <<>>
  <2>1. ~here[j] => up[j] = <<>> /\ k = 0
      BY <1>1, <1>4 DEF SeatInv
  <2>2. SubSeq(<<>>, 1, 0) = <<>>
      OBVIOUS
  <2> QED BY <1>2, <2>1, <2>2
<1>7. CASE k = 0
  <2>1. Seen(j, k) = requests[j]
      BY <1>7 DEF Seen
  <2> HIDE DEF k
  <2> QED BY <2>1, <1>2, <1>3, <1>4, <1>5, <1>6 DEF SeatInv
<1>8. CASE k # 0
  <2>1. up[j][k].seq \in Nat /\ up[j][k].seq < seqOut[j]
      BY <1>1, <1>3, <1>4, <1>8 DEF SeatInv, Below
  <2>2. j \notin renewed => Seen(j, k) = up[j][k].seq
      BY <1>1, <1>3, <1>4, <1>8 DEF Seen, SeatInv, Above
  <2>3. Above(up'[j], up[j][k].seq)
      BY <1>1, <1>5, <1>8
  <2> HIDE DEF k
  <2> QED BY <2>1, <2>2, <2>3, <1>2, <1>3, <1>4, <1>5, <1>6 DEF SeatInv
<1> QED BY <1>7, <1>8

LEMMA JoinHears ==
    ASSUME HeardInv, NEW i \in Joins, NEW button, NEW n, NEW beat,
           JoinTick(i, button, n, beat), NEW j \in Joins
    PROVE  SeatInv(j)'
<1>1. SeatInv(j) /\ UNCHANGED <<requests, here, renewed>>
    BY DEF HeardInv, JoinTick, hostVars, history
<1>2. here[i]
    BY DEF JoinTick
<1>3. /\ up[j] \in Seq(Requests) /\ seqOut[j] \in Nat \ {0} /\ requests[j] \in Nat
      /\ \A k \in 1 .. Len(up[j]) : up[j][k].seq \in Nat \ {0}
    BY LaneTyped DEF HeardInv
<1>4. CASE UNCHANGED <<up, seqOut>>
    BY <1>1, <1>4 DEF SeatInv
<1>5. ASSUME NEW c, NEW s, Request(i, c, s) PROVE SeatInv(j)'
  <2>1. CASE i # j
    <3>1. up'[j] = up[j] /\ seqOut'[j] = seqOut[j]
        BY <1>5, <2>1 DEF Request, HeardInv, TypeOK, JoinTypes
    <3> QED BY <3>1, <1>1 DEF SeatInv
  <2>2. CASE i = j
    <3> DEFINE m == [seq |-> seqOut[j], cmd |-> c, speed |-> s]
    <3>1. up'[j] = Append(up[j], m) /\ seqOut'[j] = seqOut[j] + 1
        BY <1>5, <2>2 DEF Request, HeardInv, TypeOK, JoinTypes
    <3>2. m.seq = seqOut[j]
        OBVIOUS
    <3> HIDE DEF m
    <3>3. /\ Len(up'[j]) = Len(up[j]) + 1 /\ up'[j][Len(up[j]) + 1] = m
          /\ \A k \in 1 .. Len(up[j]) : up'[j][k] = up[j][k]
        BY <3>1, <1>3
    <3>4. Rising(up'[j])
      <4>1. ASSUME NEW x \in 1 .. Len(up'[j]), NEW y \in 1 .. Len(up'[j]), x < y
            PROVE  up'[j][x].seq < up'[j][y].seq
        <5>1. x \in 1 .. Len(up[j]) /\ up'[j][x] = up[j][x]
            BY <3>3, <4>1, <1>3
        <5>2. CASE y \in 1 .. Len(up[j])
            BY <5>1, <5>2, <4>1, <3>3, <1>1 DEF SeatInv, Rising
        <5>3. CASE y = Len(up[j]) + 1
            BY <5>1, <5>3, <3>2, <3>3, <1>1 DEF SeatInv, Below
        <5> QED BY <5>2, <5>3, <3>3, <1>3
      <4> QED BY <4>1 DEF Rising
    <3>5. Below(up'[j], seqOut'[j])
        BY <3>1, <3>2, <3>3, <1>1, <1>3 DEF SeatInv, Below
    <3>6. j \notin renewed => requests[j] < seqOut'[j] /\ Above(up'[j], requests[j])
        BY <3>1, <3>2, <3>3, <1>1, <1>3 DEF SeatInv, Above
    <3> QED BY <3>4, <3>5, <3>6, <1>1, <1>2, <2>2 DEF SeatInv
  <2> QED BY <2>1, <2>2
<1> QED BY <1>4, <1>5, Zenon DEF JoinTick

LEMMA EmptyLane ==
    /\ Rising(<<>>) /\ \A c : Below(<<>>, c) /\ Above(<<>>, c)
BY DEF Rising, Below, Above

(* A seat that has just changed hands, with nothing on its lane.           *)
LEMMA SeatTaken ==
    ASSUME NEW j \in Joins, NEW S, j \in S, renewed' = Outrun(S), UNCHANGED requests,
           up'[j] = <<>>, seqOut'[j] \in Nat \ {0}, requests[j] \in Nat
    PROVE  SeatInv(j)'
<1>1. j \notin renewed' => requests'[j] < seqOut'[j]
    BY DEF Outrun
<1> QED BY <1>1, EmptyLane DEF SeatInv

LEMMA SessionHears == ASSUME HeardInv, Session, NEW j \in Joins PROVE SeatInv(j)'
<1>1. SeatInv(j)
    BY DEF HeardInv
<1>2. /\ up[j] \in Seq(Requests) /\ seqOut[j] \in Nat \ {0} /\ requests[j] \in Nat
      /\ \A k \in 1 .. Len(up[j]) : up[j][k].seq \in Nat \ {0}
    BY LaneTyped DEF HeardInv
<1>3. CASE HostReload
  <2>1. up'[j] = <<>> /\ requests'[j] = 0 /\ seqOut'[j] = seqOut[j]
      BY <1>3 DEF HostReload, HostReset, CounterKept
  <2> QED BY <2>1, <1>2, EmptyLane DEF SeatInv
<1>4. ASSUME NEW i \in Joins, JoinReload(i) PROVE SeatInv(j)'
  <2>1. /\ UNCHANGED <<requests, renewed, here>> /\ here[i]
        /\ seqOut'[j] = seqOut[j]
      BY <1>4 DEF JoinReload, CounterKept, HeardInv, TypeOK, JoinTypes, hostVars, history
  <2>2. CASE i # j
    <3>1. up'[j] = up[j]
        BY <1>4, <2>2 DEF JoinReload, HeardInv, TypeOK, JoinTypes
    <3> QED BY <3>1, <2>1, <1>1 DEF SeatInv
  <2>3. CASE i = j
    <3>1. PICK k \in 0 .. Len(up[j]) : up'[j] = SubSeq(up[j], 1, k)
        BY <1>4, <2>3 DEF JoinReload, HeardInv, TypeOK, JoinTypes
    <3>2. 1 \in 1 .. Len(up[j]) + 1 /\ 1 <= k + 1
        BY <1>2, <3>1
    <3>3. /\ Rising(up'[j])
          /\ \A c \in Nat : Below(up[j], c) => Below(up'[j], c)
          /\ \A c \in Nat : Above(up[j], c) => Above(up'[j], c)
        BY <3>1, <3>2, <1>1, <1>2, Remainder DEF SeatInv
    <3> QED BY <3>3, <2>1, <2>3, <1>1, <1>2 DEF SeatInv
  <2> QED BY <2>2, <2>3
<1>5. ASSUME NEW i \in Joins, Leave(i) PROVE SeatInv(j)'
  <2>1. /\ up'[j] = (IF j = i THEN <<>> ELSE up[j])
        /\ here'[j] = (IF j = i THEN FALSE ELSE here[j])
        /\ seqOut' = seqOut
      BY <1>5 DEF Leave, HeardInv, TypeOK, JoinTypes
  <2>2. CASE UNCHANGED <<hostVars, history>>
    <3>1. UNCHANGED <<requests, renewed>>
        BY <2>2 DEF hostVars, history
    <3> QED BY <3>1, <2>1, <1>1, EmptyLane DEF SeatInv
  <2>3. CASE HostReset(set) /\ ~\E k \in Joins \ {i} : here[k]
    <3>1. requests'[j] = 0
        BY <2>3 DEF HostReset
    <3>2. up'[j] = <<>>
        BY <2>1, <2>3, <1>1 DEF SeatInv
    <3> QED BY <3>1, <3>2, <2>1, <1>2, EmptyLane DEF SeatInv
  <2> QED BY <1>5, <2>2, <2>3, Zenon DEF Leave
<1>6. ASSUME NEW i \in Joins, Connect(i) PROVE SeatInv(j)'
  <2>1. /\ UNCHANGED <<requests, up>> /\ ~here[i]
        /\ here'[j] = (IF j = i THEN TRUE ELSE here[j])
      BY <1>6 DEF Connect, HeardInv, TypeOK, JoinTypes, hostVars
  <2>2. CASE UNCHANGED <<seqOut, renewed>>
      BY <2>1, <2>2, <1>1 DEF SeatInv
  <2>3. CASE seqOut' = [seqOut EXCEPT ![i] = 1] /\ renewed' = Outrun({i})
    <3>1. CASE j # i
      <4>1. seqOut'[j] = seqOut[j] /\ (j \notin renewed' => j \notin renewed)
          BY <2>3, <3>1 DEF Outrun, HeardInv, TypeOK, JoinTypes
      <4> QED BY <3>1, <4>1, <2>1, <1>1 DEF SeatInv
    <3>2. CASE j = i
      <4>1. up'[j] = <<>> /\ seqOut'[j] = 1
          BY <2>1, <2>3, <3>2, <1>1 DEF SeatInv, HeardInv, TypeOK, JoinTypes
      <4> QED BY <4>1, <2>1, <2>3, <3>2, <1>2, SeatTaken
    <3> QED BY <3>1, <3>2
  <2> QED BY <1>6, <2>2, <2>3 DEF Connect
<1>7. ASSUME NEW h \in Joins, NEW i \in Joins, Reseat(h, i) PROVE SeatInv(j)'
  <2>1. /\ UNCHANGED requests /\ h # i /\ ~here[i]
        /\ seqOut' = [seqOut EXCEPT ![i] = seqOut[h], ![h] = seqOut[i]]
        /\ renewed' = Outrun({h, i})
      BY <1>7 DEF Reseat, hostVars
  <2>2. CASE j \notin {h, i}
    <3>1. up'[j] = up[j] /\ here'[j] = here[j] /\ seqOut'[j] = seqOut[j]
        BY <1>7, <2>2 DEF Reseat, HeardInv, TypeOK, JoinTypes
    <3>2. j \notin renewed' => j \notin renewed
        BY <2>1, <2>2 DEF Outrun
    <3> QED BY <3>1, <3>2, <2>1, <1>1 DEF SeatInv
  <2>3. CASE j \in {h, i}
    <3>1. up'[j] = <<>>
        BY <1>7, <2>3, <1>1 DEF Reseat, SeatInv, HeardInv, TypeOK, JoinTypes
    <3>2. seqOut'[j] \in Nat \ {0}
        BY TypesNext, <1>7 DEF HeardInv, Next, Session, TypeOK, JoinTypes
    <3> QED BY <3>1, <3>2, <2>1, <2>3, <1>2, SeatTaken
  <2> QED BY <2>2, <2>3
<1> QED BY <1>3, <1>4, <1>5, <1>6, <1>7 DEF Session

LEMMA HeardNext == HeardInv /\ [Next]_vars => HeardInv'
<1> SUFFICES ASSUME HeardInv, [Next]_vars, NEW j \in Joins PROVE SeatInv(j)'
    BY TypesNext DEF HeardInv
<1>1. CASE Host
  <2>1. CASE DebounceEnds
      BY <2>1 DEF DebounceEnds, HeardInv, SeatInv, joinVars, history
  <2> QED BY <1>1, <2>1, HostHears DEF Host
<1>2. CASE Session
    BY <1>2, SessionHears
<1>3. ASSUME NEW i \in Joins, Join(i) PROVE SeatInv(j)'
    BY <1>3, JoinHears DEF Join
<1>4. CASE UNCHANGED vars
    BY <1>4 DEF vars, HeardInv, SeatInv, hostVars, joinVars, history
<1> QED BY <1>1, <1>2, <1>3, <1>4 DEF Next

(* SpeedAdmission with the outbound counter that a reload keeps: for any   *)
(* number of joins, reloads and departures, a request is new to the host   *)
(* when it arrives, unless its process took an old seat with a lower number.*)
THEOREM SpeedHeard == Spec => []Heard
<1>1. Init => HeardInv
  <2>1. ASSUME Init, NEW j \in Joins PROVE SeatInv(j)
    <3>1. up[j] = <<>> /\ requests[j] = 0 /\ seqOut[j] = 1 /\ here[j]
        BY <2>1 DEF Init
    <3> QED BY <3>1, EmptyLane DEF SeatInv
  <2> QED BY <2>1, TypesInit DEF HeardInv
<1>2. HeardInv => Heard
    BY DEF HeardInv, SeatInv, Above, Heard
<1> QED BY <1>1, <1>2, HeardNext, PTL DEF Spec
=============================================================================

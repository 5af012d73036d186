-------------------------- MODULE HoldingsProofs ---------------------------
(***************************************************************************)
(* What TLAPS proves of what the players hold: the cats of MoneyPool and   *)
(* the units of InventoryTransfer, for any players, purse, trades and      *)
(* drags.                                                                  *)
(*                                                                         *)
(* Of the pool: its types, that a batch which moved it has a total to      *)
(* write back, that every movement is folded once and in order, and that   *)
(* no cats appear or vanish.  Of trades: their types with what is on its   *)
(* way for each drag, that a refused drag can be moved back, and that no   *)
(* units appear or vanish.                                                 *)
(*                                                                         *)
(* Both accounts are sums over lanes, joins and drags.  Nothing is proved  *)
(* of them by induction: a sum is compared with a table of the sums of all *)
(* subsets of its finite domain, and a smallest subset where the two       *)
(* differ cannot exist (WFMin).                                            *)
(***************************************************************************)
EXTENDS MoneyPool, InventoryTransfer, FiniteSetTheorems, SequenceTheorems, TLAPS

LEMMA RefuseTypes ==
    ASSUME TypeOK, NEW n \in Nat, Refuse(n) PROVE refusals' \in Nat
BY DEF TypeOK, Refuse

LEMMA CostTypes == \A answer : Cost(answer) \in Nat
BY DEF Cost

LEMMA BroadcastTypes ==
    ASSUME TypeOK, NEW total \in Nat, Broadcast(total)
    PROVE  down' \in [Joins -> Seq(Total)]
<1>1. ASSUME NEW j \in Joins
      PROVE  Append(down[j], [money |-> total]) \in Seq(Total)
  BY <1>1 DEF TypeOK, Total
<1> QED BY <1>1 DEF Broadcast

LEMMA PoolTradeTypes ==
    ASSUME TypeOK, NEW p \in Players, NEW d \in Trades, Trade(p, d) PROVE TypeOK'
BY PoolAssumption DEF Trade, TypeOK, hostVars, joinVars

LEMMA HostPublishTypes ==
    ASSUME TypeOK, NEW due \in BOOLEAN, HostPublish(due) PROVE TypeOK'
<1>1. Host \in Players
  BY DEF Players
<1>2. down' \in [Joins -> Seq(Total)]
  <2>1. ASSUME Broadcast(wallet[Host]) PROVE down' \in [Joins -> Seq(Total)]
    BY <1>1, <2>1, BroadcastTypes DEF TypeOK
  <2>2. Broadcast(wallet[Host]) \/ UNCHANGED down
    BY DEF HostPublish
  <2> QED BY <2>1, <2>2 DEF TypeOK
<1>3. poolSeen' \in [Players -> Nat \cup {Unseeded}] /\ poolTotal' \in Nat \cup {NoTotal}
  <2>1. CASE poolSeen' = [poolSeen EXCEPT ![Host] = wallet[Host]] /\ poolTotal' = wallet[Host]
    BY <1>1, <2>1 DEF TypeOK
  <2>2. CASE UNCHANGED <<poolSeen, poolTotal>>
    BY <2>2 DEF TypeOK
  <2> QED BY <2>1, <2>2 DEF HostPublish
<1>4. refusals' \in Nat
  BY RefuseTypes, CostTypes DEF HostPublish
<1> QED BY <1>2, <1>3, <1>4 DEF HostPublish, TypeOK, joinVars, bounds

LEMMA HostFoldTypes ==
    ASSUME TypeOK, NEW j \in Joins, HostFold(j) PROVE TypeOK'
<1>1. Host \in Players
  BY DEF Players
<1>2. Head(up[j]) \in Delta /\ Tail(up[j]) \in Seq(Delta)
  BY DEF HostFold, TypeOK
<1>3. Head(up[j]).seq \in Nat /\ Head(up[j]).delta \in Int
  BY <1>2 DEF Delta
<1>4. up' \in [Joins -> Seq(Delta)]
  BY <1>2 DEF HostFold, TypeOK
<1>5. /\ poolSeen' \in [Players -> Nat \cup {Unseeded}]
      /\ poolTotal' \in Nat \cup {NoTotal}
      /\ poolAckedByOwner' \in [Joins -> Nat]
      /\ owed' \in Int
  <2> DEFINE pool == IF poolTotal = NoTotal THEN wallet[Host] ELSE poolTotal
             want == pool + Head(up[j]).delta
  <2>1. pool \in Nat
    BY <1>1 DEF TypeOK
  <2>2. want \in Int /\ Clamped(want) \in Nat
    BY <1>3, <2>1 DEF Clamped
  <2>3. CASE Head(up[j]).seq <= poolAckedByOwner[j]
    BY <1>3, <2>3 DEF HostFold, TypeOK
  <2>4. CASE ~(Head(up[j]).seq <= poolAckedByOwner[j])
    <3> HIDE DEF pool, want
    <3>1. /\ poolSeen' = IF poolTotal = NoTotal THEN [poolSeen EXCEPT ![Host] = pool] ELSE poolSeen
          /\ poolTotal' = Clamped(want)
          /\ owed' = IF want < 0 THEN owed - want ELSE owed
          /\ poolAckedByOwner' = [poolAckedByOwner EXCEPT ![j] = Head(up[j]).seq]
      BY <2>4 DEF HostFold, pool, want
    <3>2. poolSeen' \in [Players -> Nat \cup {Unseeded}]
      BY <1>1, <2>1, <3>1 DEF TypeOK
    <3>3. poolTotal' \in Nat \cup {NoTotal} /\ owed' \in Int
      BY <2>2, <3>1 DEF TypeOK
    <3>4. poolAckedByOwner' \in [Joins -> Nat]
      BY <1>3, <3>1 DEF TypeOK
    <3> QED BY <3>2, <3>3, <3>4
  <2> QED BY <2>3, <2>4
<1>6. moved' \in BOOLEAN
  BY DEF HostFold, TypeOK
<1> QED BY <1>4, <1>5, <1>6 DEF HostFold, TypeOK, joinVars, bounds

LEMMA HostFoldUnreadableTypes ==
    ASSUME TypeOK, HostFoldUnreadable PROVE TypeOK'
<1>1. PICK n \in [Joins -> 0 .. MaxTrades] :
        up' = [j \in Joins |-> SubSeq(up[j], n[j] + 1, Len(up[j]))]
  BY DEF HostFoldUnreadable
<1>2. ASSUME NEW j \in Joins PROVE SubSeq(up[j], n[j] + 1, Len(up[j])) \in Seq(Delta)
  BY PoolAssumption DEF TypeOK
<1>3. up' \in [Joins -> Seq(Delta)]
  BY <1>1, <1>2
<1>4. refusals' \in Nat
  BY DEF HostFoldUnreadable, TypeOK
<1> QED BY <1>3, <1>4 DEF HostFoldUnreadable, TypeOK, joinVars, bounds

LEMMA HostFinishTypes ==
    ASSUME TypeOK, MovedHasTotal, HostFinish PROVE TypeOK'
<1>1. Host \in Players
  BY DEF Players
<1>2. moved => poolTotal \in Nat
  BY DEF HostFinish, MovedHasTotal, TypeOK
<1>3. down' \in [Joins -> Seq(Total)]
  BY <1>2, BroadcastTypes DEF HostFinish, TypeOK
<1>4. wallet' \in [Players -> Nat] /\ poolSeen' \in [Players -> Nat \cup {Unseeded}]
  BY <1>1, <1>2 DEF HostFinish, TypeOK
<1>5. refusals' \in Nat
  BY RefuseTypes, CostTypes DEF HostFinish, TypeOK
<1> QED BY <1>3, <1>4, <1>5 DEF HostFinish, TypeOK, joinVars, bounds

LEMMA JoinTickTypes ==
    ASSUME TypeOK, NEW j \in Joins, JoinTick(j) PROVE TypeOK'
<1>1. j \in Players /\ wallet[j] \in Nat /\ poolSeen[j] \in Nat \cup {Unseeded}
  BY DEF Players, TypeOK
<1>2. Movement(j) \in Delta
  BY <1>1 DEF TypeOK, Movement, Delta, Unseeded
<1>3. PICK n \in 0 .. Len(down[j]), read \in Answers, reread \in Answers, wrote \in Answers :
         /\ Refuse(Cost(read) + Cost(reread) + Cost(wrote))
         /\ IF Reports(j, read)
            THEN /\ up' = [up EXCEPT ![j] = Append(@, Movement(j))]
                 /\ poolSeq' = [poolSeq EXCEPT ![j] = @ + 1]
            ELSE UNCHANGED <<up, poolSeq>>
         /\ poolPending' = [poolPending EXCEPT ![j] =
              IF n > 0 THEN <<>> ELSE IF Reports(j, read) THEN Append(@, Movement(j)) ELSE @]
         /\ down' = [down EXCEPT ![j] = SubSeq(@, n + 1, Len(@))]
         /\ wallet' = [wallet EXCEPT ![j] =
              IF Adopts(j, n, reread, wrote) THEN down[j][n].money ELSE @]
         /\ poolSeen' = [poolSeen EXCEPT ![j] =
              Baseline(Adopts(j, n, reread, wrote), down[j][n].money,
                       IF read = "ok" THEN wallet[j] ELSE @)]
  BY DEF JoinTick
<1>4. Adopts(j, n, reread, wrote) => down[j][n].money \in Nat
  <2>1. n > 0 => down[j][n] \in Total
    BY DEF TypeOK
  <2> QED BY <2>1 DEF Adopts, Total
<1>5. up' \in [Joins -> Seq(Delta)] /\ poolSeq' \in [Joins -> Nat]
  <2>1. CASE Reports(j, read)
    <3>1. Append(up[j], Movement(j)) \in Seq(Delta) /\ poolSeq[j] + 1 \in Nat
      BY <1>2 DEF TypeOK
    <3> QED BY <1>3, <2>1, <3>1 DEF TypeOK
  <2>2. CASE ~Reports(j, read)
    BY <1>3, <2>2 DEF TypeOK
  <2> QED BY <2>1, <2>2
<1>6. poolPending' \in [Joins -> Seq(Delta)]
  BY <1>2, <1>3 DEF TypeOK
<1>7. down' \in [Joins -> Seq(Total)]
  <2>1. SubSeq(down[j], n + 1, Len(down[j])) \in Seq(Total)
    BY DEF TypeOK
  <2> QED BY <1>3, <2>1 DEF TypeOK
<1>8. wallet' \in [Players -> Nat] /\ poolSeen' \in [Players -> Nat \cup {Unseeded}]
  BY <1>1, <1>3, <1>4 DEF TypeOK, Baseline
<1>9. refusals' \in Nat
  <2>1. Cost(read) + Cost(reread) + Cost(wrote) \in Nat
    BY CostTypes
  <2> QED BY <1>3, <2>1, RefuseTypes
<1> QED BY <1>5, <1>6, <1>7, <1>8, <1>9 DEF JoinTick, TypeOK, hostVars, bounds

LEMMA ReloadTypes ==
    ASSUME TypeOK, ConnectPush \/ HostLoad \/ \E j \in Joins : JoinLive(j)
    PROVE  TypeOK'
<1>1. Host \in Players /\ Joins \subseteq Players
  BY DEF Players
<1>2. CASE ConnectPush
  BY <1>1, <1>2 DEF ConnectPush, TypeOK, hostVars, joinVars
<1>3. CASE HostLoad
  BY <1>1, <1>3, PoolAssumption DEF HostLoad, TypeOK, joinVars, NoTotal, Unseeded
<1>4. ASSUME NEW j \in Joins, JoinLive(j) PROVE TypeOK'
  BY <1>1, <1>4 DEF JoinLive, TypeOK, hostVars, bounds, Unseeded
<1> QED BY <1>2, <1>3, <1>4

LEMMA NoTotalIsNoNat == NoTotal \notin Nat
BY DEF NoTotal

LEMMA MovedHasTotalStep ==
    ASSUME TypeOK, MovedHasTotal, Next PROVE MovedHasTotal'
<1> USE DEF MovedHasTotal
<1>1. ASSUME NEW due \in BOOLEAN, HostPublish(due) PROVE MovedHasTotal'
  BY <1>1 DEF HostPublish
<1>2. ASSUME NEW j \in Joins, HostFold(j) PROVE MovedHasTotal'
  <2>1. Head(up[j]).delta \in Int
    <3>1. Head(up[j]) \in Delta
      BY <1>2 DEF HostFold, TypeOK
    <3> QED BY <3>1 DEF Delta
  <2>2. poolTotal # NoTotal => poolTotal \in Nat
    BY DEF TypeOK
  <2>3. wallet[Host] \in Nat
    BY DEF TypeOK, Players
  <2>4. CASE Head(up[j]).seq <= poolAckedByOwner[j]
    BY <1>2, <2>4 DEF HostFold
  <2>5. CASE ~(Head(up[j]).seq <= poolAckedByOwner[j])
    <3> DEFINE want == (IF poolTotal = NoTotal THEN wallet[Host] ELSE poolTotal) + Head(up[j]).delta
    <3>1. want \in Int
      BY <2>1, <2>2, <2>3
    <3>2. poolTotal' = Clamped(want)
      BY <1>2, <2>5 DEF HostFold
    <3> HIDE DEF want
    <3>3. poolTotal' \in Nat
      BY <3>1, <3>2 DEF Clamped
    <3> QED BY <3>3, NoTotalIsNoNat DEF MovedHasTotal
  <2> QED BY <2>4, <2>5
<1>3. CASE HostFoldUnreadable
  BY <1>3 DEF HostFoldUnreadable
<1>4. CASE HostFinish \/ HostLoad
  BY <1>4 DEF HostFinish, HostLoad
<1>5. CASE UNCHANGED <<folding, moved, poolTotal>>
  BY <1>5
<1> QED BY <1>1, <1>2, <1>3, <1>4, <1>5
        DEF Next, Trade, JoinTick, ConnectPush, JoinLive, hostVars

(* publishMoneyPool and applyMoneyPool keep the types of the pool's state: *)
(* no wallet and no total ever goes below zero, whatever cats the players  *)
(* spend twice.                                                            *)
THEOREM PoolTypeCorrect == Spec => []TypeOK
<1>1. Init => TypeOK /\ MovedHasTotal
  <2> SUFFICES ASSUME Init PROVE TypeOK /\ MovedHasTotal
    OBVIOUS
  <2> USE PoolAssumption DEF Init
  <2>1. wallet \in [Players -> Nat] /\ poolSeen \in [Players -> Nat \cup {Unseeded}]
    OBVIOUS
  <2>2. poolTotal \in Nat \cup {NoTotal} /\ poolAckedByOwner \in [Joins -> Nat]
    OBVIOUS
  <2>3. poolPending \in [Joins -> Seq(Delta)] /\ up \in [Joins -> Seq(Delta)] /\ down \in [Joins -> Seq(Total)]
    OBVIOUS
  <2>4. live \in [Joins -> BOOLEAN] /\ folding \in BOOLEAN /\ moved \in BOOLEAN
    OBVIOUS
  <2>5. /\ poolSeq \in [Joins -> Nat] /\ staleAck \in [Joins -> Nat] /\ owed \in Int
        /\ baked \in [Joins -> Nat]
        /\ trades \in Nat /\ pushes \in Nat /\ loads \in Nat /\ refusals \in Nat
    OBVIOUS
  <2> QED BY <2>1, <2>2, <2>3, <2>4, <2>5 DEF TypeOK, MovedHasTotal
<1>2. TypeOK /\ MovedHasTotal /\ [Next]_vars => TypeOK' /\ MovedHasTotal'
  <2> SUFFICES ASSUME TypeOK, MovedHasTotal, [Next]_vars PROVE TypeOK' /\ MovedHasTotal'
    OBVIOUS
  <2>1. CASE Next
    <3>1. MovedHasTotal'
      BY <2>1, MovedHasTotalStep
    <3>2. TypeOK'
      BY <2>1, PoolTradeTypes, HostPublishTypes, HostFoldTypes, HostFoldUnreadableTypes,
         HostFinishTypes, JoinTickTypes, ReloadTypes DEF Next
    <3> QED BY <3>1, <3>2
  <2>2. CASE UNCHANGED vars
    BY <2>2 DEF vars, TypeOK, MovedHasTotal, hostVars, joinVars, bounds
  <2> QED BY <2>1, <2>2
<1> QED BY <1>1, <1>2, PTL DEF Spec

-----------------------------------------------------------------------------
(* A refused access is never taken back.                                   *)
RefusalStays == refusals > 0 => refusals' > 0

LEMMA RefusalsStay == ASSUME TypeOK, [Next]_vars PROVE RefusalStays
<1> USE DEF RefusalStays
<1>1. ASSUME NEW n \in Nat, Refuse(n) PROVE RefusalStays
  BY <1>1 DEF TypeOK, Refuse
<1>2. ASSUME NEW due \in BOOLEAN, HostPublish(due) PROVE RefusalStays
  BY <1>1, <1>2, CostTypes DEF HostPublish
<1>3. CASE HostFoldUnreadable
  BY <1>3 DEF HostFoldUnreadable
<1>4. CASE HostFinish
  <2>1. (\E n \in Nat : Refuse(n)) \/ UNCHANGED refusals
    BY <1>4, CostTypes DEF HostFinish
  <2> QED BY <1>1, <2>1
<1>5. ASSUME NEW j \in Joins, JoinTick(j) PROVE RefusalStays
  <2>1. \E n \in Nat : Refuse(n)
    BY <1>5, CostTypes DEF JoinTick
  <2> QED BY <1>1, <2>1
<1>6. CASE UNCHANGED refusals
  BY <1>6
<1> QED BY <1>2, <1>3, <1>4, <1>5, <1>6
        DEF Next, Trade, HostFold, ConnectPush, HostLoad, JoinLive, vars

LEMMA FoldKeepsOrder ==
    ASSUME TypeOK, FoldedOnceInOrder, NEW k \in Joins, HostFold(k)
    PROVE  FoldedOnceInOrder'
<1> SUFFICES ASSUME NEW j \in Joins, live[j]
             PROVE  /\ \A i \in 1 .. Waiting(j)' : up'[j][i].seq = Delivered(j)' + i
                    /\ \/ Delivered(j)' <= staleAck'[j] /\ poolAckedByOwner'[j] = staleAck'[j]
                       \/ Delivered(j)' > staleAck'[j] /\ poolAckedByOwner'[j] = Delivered(j)'
                       \/ refusals > 0 /\ poolAckedByOwner'[j] <= Delivered(j)'
  BY DEF FoldedOnceInOrder, HostFold
<1>1. /\ up[k] \in Seq(Delta) /\ up[k] # <<>> /\ Len(up[k]) \in Nat \ {0}
      /\ up' = [up EXCEPT ![k] = Tail(@)]
      /\ UNCHANGED <<live, poolSeq, staleAck>>
  BY DEF HostFold, TypeOK, joinVars
<1>2. CASE j # k
  <2>1. up'[j] = up[j] /\ poolAckedByOwner'[j] = poolAckedByOwner[j]
    BY <1>1, <1>2 DEF TypeOK, HostFold
  <2> QED BY <1>1, <2>1 DEF FoldedOnceInOrder, Waiting, Delivered
<1>3. CASE j = k
  <2>1. Len(Tail(up[k])) = Len(up[k]) - 1 /\ \A i \in 1 .. Len(up[k]) - 1 : Tail(up[k])[i] = up[k][i + 1]
    BY <1>1
  <2>2. /\ poolSeq[k] \in Nat /\ poolAckedByOwner[k] \in Nat /\ staleAck[k] \in Nat
        /\ Waiting(k) \in Nat \ {0} /\ Delivered(k) \in Int
    BY <1>1 DEF TypeOK, Waiting, Delivered
  <2>3. Waiting(k)' = Waiting(k) - 1 /\ Delivered(k)' = Delivered(k) + 1
    BY <1>1, <2>1, <2>2 DEF Waiting, Delivered, TypeOK
  <2>4. Head(up[k]).seq = Delivered(k) + 1
    <3>1. up[k][1].seq = Delivered(k) + 1
      BY <1>3, <2>2 DEF FoldedOnceInOrder
    <3> QED BY <1>1, <3>1
  <2>5. \A i \in 1 .. Waiting(k)' : up'[k][i].seq = Delivered(k)' + i
    <3> SUFFICES ASSUME NEW i \in 1 .. Waiting(k)' PROVE up'[k][i].seq = Delivered(k)' + i
      OBVIOUS
    <3>1. up'[k][i] = up[k][i + 1] /\ i + 1 \in 1 .. Waiting(k)
      BY <1>1, <2>1, <2>2, <2>3 DEF TypeOK, Waiting
    <3>2. up[k][i + 1].seq = Delivered(k) + (i + 1)
      BY <1>3, <3>1 DEF FoldedOnceInOrder
    <3> QED BY <2>2, <2>3, <3>1, <3>2
  <2>6. poolAckedByOwner'[k] = IF Delivered(k) + 1 <= poolAckedByOwner[k]
                               THEN poolAckedByOwner[k] ELSE Delivered(k) + 1
    BY <2>4 DEF HostFold, TypeOK
  <2>7. \/ Delivered(k) <= staleAck[k] /\ poolAckedByOwner[k] = staleAck[k]
        \/ Delivered(k) > staleAck[k] /\ poolAckedByOwner[k] = Delivered(k)
        \/ refusals > 0 /\ poolAckedByOwner[k] <= Delivered(k)
    BY <1>3 DEF FoldedOnceInOrder
  <2>8. staleAck'[k] = staleAck[k]
    BY <1>1
  <2> QED BY <1>3, <2>2, <2>3, <2>5, <2>6, <2>7, <2>8
<1> QED BY <1>2, <1>3

LEMMA JoinTickKeepsOrder ==
    ASSUME TypeOK, RefusalStays, FoldedOnceInOrder, NEW k \in Joins, JoinTick(k)
    PROVE  FoldedOnceInOrder'
<1> SUFFICES ASSUME NEW j \in Joins, live[j]
             PROVE  /\ \A i \in 1 .. Waiting(j)' : up'[j][i].seq = Delivered(j)' + i
                    /\ Delivered(j)' = Delivered(j)
  BY DEF FoldedOnceInOrder, JoinTick, hostVars, RefusalStays
<1>1. \/ up' = [up EXCEPT ![k] = Append(@, Movement(k))] /\ poolSeq' = [poolSeq EXCEPT ![k] = @ + 1]
      \/ UNCHANGED <<up, poolSeq>>
  BY DEF JoinTick
<1>2. CASE UNCHANGED <<up, poolSeq>> \/ j # k
  <2>1. up'[j] = up[j] /\ poolSeq'[j] = poolSeq[j]
    BY <1>1, <1>2 DEF TypeOK
  <2> QED BY <2>1 DEF FoldedOnceInOrder, Waiting, Delivered
<1>3. CASE j = k /\ up' = [up EXCEPT ![k] = Append(@, Movement(k))]
                 /\ poolSeq' = [poolSeq EXCEPT ![k] = @ + 1]
  <2>1. /\ up[k] \in Seq(Delta) /\ poolSeq[k] \in Nat /\ Len(up[k]) \in Nat
        /\ Movement(k) \in Delta /\ Movement(k).seq = poolSeq[k] + 1
    <3>1. k \in Players
      BY DEF Players
    <3>2. wallet[k] \in Nat /\ poolSeen[k] \in Int
      BY <3>1 DEF TypeOK, Unseeded
    <3>3. up[k] \in Seq(Delta) /\ poolSeq[k] \in Nat
      BY DEF TypeOK
    <3>4. Movement(k) \in Delta /\ Movement(k).seq = poolSeq[k] + 1
      BY <3>2, <3>3 DEF Movement, Delta
    <3> QED BY <3>3, <3>4
  <2>2. up'[k] = Append(up[k], Movement(k)) /\ poolSeq'[k] = poolSeq[k] + 1
    BY <1>3 DEF TypeOK
  <2>3. Waiting(k)' = Waiting(k) + 1 /\ Delivered(k)' = Delivered(k)
    BY <2>1, <2>2 DEF Waiting, Delivered
  <2>4. ASSUME NEW i \in 1 .. Waiting(k)' PROVE up'[k][i].seq = Delivered(k)' + i
    <3>1. CASE i = Waiting(k) + 1
      BY <2>1, <2>2, <2>3, <3>1 DEF Waiting, Delivered
    <3>2. CASE i \in 1 .. Waiting(k)
      <4>1. up'[k][i] = up[k][i]
        BY <2>1, <2>2, <3>2 DEF Waiting
      <4> QED BY <1>3, <2>3, <3>2, <4>1 DEF FoldedOnceInOrder
    <3> QED BY <2>1, <2>3, <3>1, <3>2 DEF Waiting
  <2> QED BY <1>3, <2>3, <2>4
<1> QED BY <1>1, <1>2, <1>3

LEMMA LostBatchKeepsOrder ==
    ASSUME TypeOK, FoldedOnceInOrder, HostFoldUnreadable
    PROVE  FoldedOnceInOrder'
<1>1. PICK n \in [Joins -> 0 .. MaxTrades] :
        /\ \A j \in Joins : n[j] <= Len(up[j])
        /\ up' = [j \in Joins |-> SubSeq(up[j], n[j] + 1, Len(up[j]))]
  BY DEF HostFoldUnreadable
<1>2. refusals' > 0 /\ UNCHANGED <<live, poolSeq, staleAck, poolAckedByOwner>>
  BY DEF HostFoldUnreadable, joinVars
<1> SUFFICES ASSUME NEW j \in Joins, live[j]
             PROVE  /\ \A i \in 1 .. Waiting(j)' : up'[j][i].seq = Delivered(j)' + i
                    /\ \/ Delivered(j)' <= staleAck[j] /\ poolAckedByOwner[j] = staleAck[j]
                       \/ refusals' > 0 /\ poolAckedByOwner[j] <= Delivered(j)'
  BY <1>2 DEF FoldedOnceInOrder
<1>3. /\ up[j] \in Seq(Delta) /\ Len(up[j]) \in Nat /\ n[j] \in Nat /\ n[j] <= Len(up[j])
      /\ poolSeq[j] \in Nat /\ poolAckedByOwner[j] \in Nat /\ staleAck[j] \in Nat
  BY <1>1, PoolAssumption DEF TypeOK
<1>4. /\ Len(up'[j]) = Len(up[j]) - n[j]
      /\ \A i \in 1 .. Len(up[j]) - n[j] : up'[j][i] = up[j][i + n[j]]
  <2> DEFINE s == up[j]
             m == n[j]
             rest == SubSeq(s, m + 1, Len(s))
  <2>1. up'[j] = rest
    BY <1>1
  <2>2. s \in Seq(Delta) /\ Len(s) \in Nat /\ m \in Nat /\ m <= Len(s)
    BY <1>3
  <2> HIDE DEF s, m
  <2>3. Len(rest) = Len(s) - m
    BY <2>2
  <2>4. \A i \in 1 .. Len(s) - m : rest[i] = s[i + m]
    BY <2>2
  <2> QED BY <2>1, <2>3, <2>4 DEF s, m
<1>5. Waiting(j)' = Waiting(j) - n[j] /\ Delivered(j)' = Delivered(j) + n[j]
  BY <1>2, <1>3, <1>4 DEF Waiting, Delivered
<1>6. ASSUME NEW i \in 1 .. Waiting(j)' PROVE up'[j][i].seq = Delivered(j)' + i
  <2>1. i + n[j] \in 1 .. Waiting(j) /\ up'[j][i] = up[j][i + n[j]]
    BY <1>3, <1>4, <1>5 DEF Waiting
  <2>2. up[j][i + n[j]].seq = Delivered(j) + (i + n[j])
    BY <2>1 DEF FoldedOnceInOrder
  <2> QED BY <1>3, <1>5, <2>1, <2>2 DEF Waiting, Delivered
<1>7. \/ Delivered(j) <= staleAck[j] /\ poolAckedByOwner[j] = staleAck[j]
      \/ poolAckedByOwner[j] <= Delivered(j)
  BY <1>3 DEF FoldedOnceInOrder, Waiting, Delivered
<1> QED BY <1>2, <1>3, <1>5, <1>6, <1>7 DEF Waiting, Delivered

(* A join that is still loading has nothing in its lane: the push that     *)
(* sent it there fenced off what it had sent.                              *)
LoadingLaneEmpty == \A j \in Joins : ~live[j] => up[j] = <<>>

LEMMA ReloadKeepsOrder ==
    ASSUME TypeOK, FoldedOnceInOrder, LoadingLaneEmpty, NEW k \in Joins, JoinLive(k)
    PROVE  FoldedOnceInOrder'
<1> SUFFICES ASSUME NEW j \in Joins, live'[j]
             PROVE  /\ \A i \in 1 .. Waiting(j)' : up'[j][i].seq = Delivered(j)' + i
                    /\ \/ Delivered(j)' <= staleAck'[j] /\ poolAckedByOwner'[j] = staleAck'[j]
                       \/ Delivered(j)' > staleAck'[j] /\ poolAckedByOwner'[j] = Delivered(j)'
                       \/ refusals > 0 /\ poolAckedByOwner'[j] <= Delivered(j)'
  BY DEF FoldedOnceInOrder, JoinLive
<1>1. CASE j # k
  <2>1. /\ live[j] /\ up'[j] = up[j] /\ poolSeq'[j] = poolSeq[j]
        /\ staleAck'[j] = staleAck[j] /\ poolAckedByOwner'[j] = poolAckedByOwner[j]
    BY <1>1 DEF JoinLive, TypeOK, hostVars
  <2> QED BY <2>1 DEF FoldedOnceInOrder, Waiting, Delivered
<1>2. CASE j = k
  <2>1. /\ up'[k] = <<>> /\ poolSeq'[k] = 0
        /\ staleAck'[k] = poolAckedByOwner[k] /\ poolAckedByOwner'[k] = poolAckedByOwner[k]
        /\ poolAckedByOwner[k] \in Nat
    BY DEF JoinLive, TypeOK, hostVars, LoadingLaneEmpty
  <2> QED BY <1>2, <2>1 DEF Waiting, Delivered
<1> QED BY <1>1, <1>2

(* applyMoneyPool folds every delta a join reports in its current world    *)
(* exactly once and in order, whatever the number of joins, trades, pushes *)
(* and loads; the only ones it skips are numbered at or below the ack it   *)
(* kept from the join's previous world.                                    *)
THEOREM PoolFoldsOnceInOrder == Spec => []FoldedOnceInOrder
<1>1. Init => LoadingLaneEmpty /\ FoldedOnceInOrder
  BY DEF Init, LoadingLaneEmpty, FoldedOnceInOrder, Waiting, Delivered
<1>2. TypeOK /\ LoadingLaneEmpty /\ FoldedOnceInOrder /\ [Next]_vars
        => LoadingLaneEmpty' /\ FoldedOnceInOrder'
  <2> SUFFICES ASSUME TypeOK, LoadingLaneEmpty, FoldedOnceInOrder, [Next]_vars
               PROVE  LoadingLaneEmpty' /\ FoldedOnceInOrder'
    OBVIOUS
  <2> RefusalStays
    BY RefusalsStay
  <2>1. CASE UNCHANGED <<up, live, poolSeq, poolAckedByOwner, staleAck>>
    <3>1. UNCHANGED LoadingLaneEmpty
      BY <2>1 DEF LoadingLaneEmpty
    <3> QED BY <2>1, <3>1 DEF FoldedOnceInOrder, Waiting, Delivered, RefusalStays
  <2>2. ASSUME NEW j \in Joins, HostFold(j) PROVE LoadingLaneEmpty' /\ FoldedOnceInOrder'
    <3>1. LoadingLaneEmpty'
      BY <2>2 DEF HostFold, LoadingLaneEmpty, TypeOK
    <3> QED BY <2>2, <3>1, FoldKeepsOrder
  <2>3. CASE HostFoldUnreadable
    <3>1. LoadingLaneEmpty'
      BY <2>3 DEF HostFoldUnreadable, LoadingLaneEmpty, TypeOK
    <3> QED BY <2>3, <3>1, LostBatchKeepsOrder
  <2>4. ASSUME NEW j \in Joins, JoinTick(j) PROVE LoadingLaneEmpty' /\ FoldedOnceInOrder'
    <3>1. LoadingLaneEmpty'
      BY <2>4 DEF JoinTick, LoadingLaneEmpty, TypeOK
    <3> QED BY <2>4, <3>1, JoinTickKeepsOrder
  <2>5. CASE ConnectPush \/ HostLoad
    BY <2>5 DEF ConnectPush, HostLoad, LoadingLaneEmpty, FoldedOnceInOrder
  <2>6. ASSUME NEW j \in Joins, JoinLive(j) PROVE LoadingLaneEmpty' /\ FoldedOnceInOrder'
    <3>1. LoadingLaneEmpty'
      BY <2>6 DEF JoinLive, LoadingLaneEmpty, TypeOK
    <3> QED BY <2>6, <3>1, ReloadKeepsOrder
  <2> QED BY <2>1, <2>2, <2>3, <2>4, <2>5, <2>6
          DEF Next, vars, Trade, HostPublish, HostFinish, hostVars, joinVars
<1> QED BY <1>1, <1>2, PoolTypeCorrect, PTL DEF Spec
-----------------------------------------------------------------------------
(* Sums.  SumFunctionOnSet takes the elements of a set in an order of its  *)
(* own.  What it computes is proved by infinite descent: the subsets of a  *)
(* finite set are well-founded, so among those a claim fails for there is  *)
(* one such that it holds for all of that one's subsets.                   *)
Picked(s) == CHOOSE x \in s : TRUE
Sums(f, S, h) ==
    h = [s \in SUBSET S |-> IF s = {} THEN 0 ELSE f[Picked(s)] + h[s \ {Picked(s)}]]
Table(f, S) == CHOOSE h : Sums(f, S, h)

LEMMA SumIsTable == \A f, S : SumFunctionOnSet(f, S) = Table(f, S)[S]
BY DEF SumFunctionOnSet, FoldFunctionOnSet, MapThenFoldSet, Table, Sums, Picked

LEMMA Least ==
    ASSUME NEW S, IsFiniteSet(S), NEW C, C \subseteq SUBSET S, C # {}
    PROVE  \E s \in C : \A t \in C : ~(t \subseteq s /\ t # s)
<1>1. IsWellFoundedOn(StrictSubsetOrdering(S), FiniteSubsetsOf(S))
  BY FS_StrictSubsetOrderingWellFounded
<1>2. C \subseteq FiniteSubsetsOf(S)
  BY FS_FiniteSubsetsOfFinite
<1>3. \E s \in C : \A t \in C : ~(<<t, s>> \in StrictSubsetOrdering(S))
  BY <1>1, <1>2, WFMin
<1> QED BY <1>3 DEF StrictSubsetOrdering

LEMMA PickedIsElement == \A s : s # {} => Picked(s) \in s
BY DEF Picked

LEMMA SumsAt ==
    ASSUME NEW f, NEW S, NEW h, Sums(f, S, h), NEW s \in SUBSET S
    PROVE  h[s] = IF s = {} THEN 0 ELSE f[Picked(s)] + h[s \ {Picked(s)}]
BY DEF Sums

(* Two tables of partial sums agree where both are defined.                *)
LEMMA TablesAgree ==
    ASSUME NEW f, NEW S, IsFiniteSet(S), NEW T, NEW g, NEW h, Sums(f, S, g), Sums(f, T, h),
           NEW s \in SUBSET S, s \in SUBSET T
    PROVE  g[s] = h[s]
<1> DEFINE C == {t \in SUBSET S : t \subseteq T /\ g[t] # h[t]}
<1>1. SUFFICES ASSUME C # {} PROVE FALSE
  OBVIOUS
<1>2. PICK t \in C : \A u \in C : ~(u \subseteq t /\ u # t)
  <2> HIDE DEF C
  <2>1. C \subseteq SUBSET S
    BY DEF C
  <2> QED BY <1>1, <2>1, Least
<1> DEFINE u == t \ {Picked(t)}
<1>3. /\ g[t] = IF t = {} THEN 0 ELSE f[Picked(t)] + g[u]
      /\ h[t] = IF t = {} THEN 0 ELSE f[Picked(t)] + h[u]
  BY SumsAt
<1>4. t # {}
  BY <1>3
<1>5. u \subseteq t /\ u # t /\ u \in SUBSET S /\ u \subseteq T
  BY <1>4, PickedIsElement
<1>6. g[u] = h[u]
  BY <1>2, <1>5
<1> QED BY <1>3, <1>6

LEMMA TableExists ==
    ASSUME NEW f, NEW S, IsFiniteSet(S) PROVE \E h : Sums(f, S, h)
<1> DEFINE C == {T \in SUBSET S : ~\E h : Sums(f, T, h)}
<1>1. SUFFICES ASSUME C # {} PROVE FALSE
  OBVIOUS
<1>2. PICK T \in C : \A U \in C : ~(U \subseteq T /\ U # T)
  <2> HIDE DEF C
  <2>1. C \subseteq SUBSET S
    BY DEF C
  <2> QED BY <1>1, <2>1, Least
<1>3. \A U \in SUBSET T : U # T => Sums(f, U, Table(f, U)) /\ IsFiniteSet(U)
  BY <1>2, FS_Subset DEF Table
<1> DEFINE h == [s \in SUBSET T |-> IF s = {} THEN 0
                    ELSE f[Picked(s)] + Table(f, s \ {Picked(s)})[s \ {Picked(s)}]]
<1>4. ASSUME NEW s \in SUBSET T, s # {}
      PROVE  h[s \ {Picked(s)}] = Table(f, s \ {Picked(s)})[s \ {Picked(s)}]
  <2> DEFINE u == s \ {Picked(s)}
             v == u \ {Picked(u)}
  <2>1. u \in SUBSET T /\ u # T /\ Sums(f, u, Table(f, u)) /\ IsFiniteSet(u)
    BY <1>3, <1>4, PickedIsElement
  <2>2. Table(f, u)[u] = IF u = {} THEN 0 ELSE f[Picked(u)] + Table(f, u)[v]
    <3>1. \A g : Sums(f, u, g) => g[u] = IF u = {} THEN 0 ELSE f[Picked(u)] + g[v]
      BY DEF Sums
    <3> QED BY <2>1, <3>1
  <2>3. CASE u = {}
    BY <2>1, <2>2, <2>3
  <2>4. CASE u # {}
    <3>1. v \in SUBSET T /\ v # T /\ v \subseteq u /\ Sums(f, v, Table(f, v))
      BY <1>3, <2>1, <2>4, PickedIsElement
    <3>2. Table(f, u)[v] = Table(f, v)[v]
      BY <2>1, <3>1, TablesAgree
    <3>3. h[u] = f[Picked(u)] + Table(f, v)[v]
      BY <2>1, <2>4
    <3> QED BY <2>2, <2>4, <3>2, <3>3
  <2> QED BY <2>3, <2>4
<1>5. \A s \in SUBSET T : h[s] = IF s = {} THEN 0 ELSE f[Picked(s)] + h[s \ {Picked(s)}]
  BY <1>4
<1>6. h = [s \in SUBSET T |-> IF s = {} THEN 0 ELSE f[Picked(s)] + h[s \ {Picked(s)}]]
  <2>1. h = [s \in SUBSET T |-> h[s]]
    OBVIOUS
  <2> HIDE DEF h
  <2> QED BY <1>5, <2>1
<1> HIDE DEF h
<1>7. Sums(f, T, h)
  BY <1>6 DEF Sums
<1> QED BY <1>7, <1>2

LEMMA SumStep ==
    ASSUME NEW f, NEW S, IsFiniteSet(S)
    PROVE  SumFunctionOnSet(f, S) = IF S = {} THEN 0
              ELSE f[Picked(S)] + SumFunctionOnSet(f, S \ {Picked(S)})
<1> DEFINE u == S \ {Picked(S)}
<1>1. IsFiniteSet(u) /\ u \in SUBSET S
  BY FS_Subset
<1>2. Sums(f, S, Table(f, S)) /\ Sums(f, u, Table(f, u))
  BY <1>1, TableExists DEF Table
<1>3. Table(f, S)[S] = IF S = {} THEN 0 ELSE f[Picked(S)] + Table(f, S)[u]
  <2>1. \A h : Sums(f, S, h) => h[S] = IF S = {} THEN 0 ELSE f[Picked(S)] + h[u]
    BY DEF Sums
  <2> QED BY <1>2, <2>1
<1>4. Table(f, S)[u] = Table(f, u)[u]
  BY <1>1, <1>2, TablesAgree
<1> QED BY <1>3, <1>4, SumIsTable

LEMMA SumType ==
    ASSUME NEW f, NEW S, IsFiniteSet(S), \A x \in S : f[x] \in Int
    PROVE  SumFunctionOnSet(f, S) \in Int
<1> DEFINE C == {T \in SUBSET S : SumFunctionOnSet(f, T) \notin Int}
<1>1. SUFFICES ASSUME C # {} PROVE FALSE
  OBVIOUS
<1>2. PICK T \in C : \A U \in C : ~(U \subseteq T /\ U # T)
  <2> HIDE DEF C
  <2>1. C \subseteq SUBSET S
    BY DEF C
  <2> QED BY <1>1, <2>1, Least
<1> DEFINE u == T \ {Picked(T)}
<1>3. SumFunctionOnSet(f, T) = IF T = {} THEN 0 ELSE f[Picked(T)] + SumFunctionOnSet(f, u)
  BY SumStep, FS_Subset
<1>4. T # {}
  BY <1>3
<1>5. u \subseteq T /\ u # T /\ u \in SUBSET S /\ Picked(T) \in S
  BY <1>4, PickedIsElement
<1>6. SumFunctionOnSet(f, u) \in Int
  BY <1>2, <1>5
<1> QED BY <1>3, <1>4, <1>5, <1>6

(* The order in which a sum takes its elements does not matter.            *)
LEMMA SumTakes ==
    ASSUME NEW f, NEW S, IsFiniteSet(S), \A x \in S : f[x] \in Int, NEW e \in S
    PROVE  SumFunctionOnSet(f, S) = f[e] + SumFunctionOnSet(f, S \ {e})
<1> DEFINE C == {T \in SUBSET S : \E x \in T :
                    SumFunctionOnSet(f, T) # f[x] + SumFunctionOnSet(f, T \ {x})}
<1>1. SUFFICES ASSUME C # {} PROVE FALSE
  OBVIOUS
<1>2. PICK T \in C : \A U \in C : ~(U \subseteq T /\ U # T)
  <2> HIDE DEF C
  <2>1. C \subseteq SUBSET S
    BY DEF C
  <2> QED BY <1>1, <2>1, Least
<1>3. PICK x \in T : SumFunctionOnSet(f, T) # f[x] + SumFunctionOnSet(f, T \ {x})
  OBVIOUS
<1> DEFINE p == Picked(T)
<1>4. p \in T /\ SumFunctionOnSet(f, T) = f[p] + SumFunctionOnSet(f, T \ {p})
  BY <1>3, SumStep, FS_Subset, PickedIsElement
<1>5. x # p
  BY <1>3, <1>4
<1> HIDE DEF p
<1>6. SumFunctionOnSet(f, T \ {p}) = f[x] + SumFunctionOnSet(f, (T \ {p}) \ {x})
  <2>1. T \ {p} \notin C /\ x \in T \ {p} /\ T \ {p} \in SUBSET S
    BY <1>2, <1>4, <1>5
  <2> QED BY <2>1
<1>7. SumFunctionOnSet(f, T \ {x}) = f[p] + SumFunctionOnSet(f, (T \ {x}) \ {p})
  <2>1. T \ {x} \notin C /\ p \in T \ {x} /\ T \ {x} \in SUBSET S
    BY <1>2, <1>3, <1>4, <1>5
  <2> QED BY <2>1
<1>8. (T \ {x}) \ {p} = (T \ {p}) \ {x}
  OBVIOUS
<1>9. SumFunctionOnSet(f, (T \ {p}) \ {x}) \in Int
  <2>1. IsFiniteSet((T \ {p}) \ {x}) /\ \A y \in (T \ {p}) \ {x} : f[y] \in Int
    BY FS_Subset
  <2> QED BY <2>1, SumType
<1> HIDE DEF C
<1>10. f[x] \in Int /\ f[p] \in Int
  BY <1>2, <1>3, <1>4 DEF C
<1>11. SumFunctionOnSet(f, T) = f[p] + (f[x] + SumFunctionOnSet(f, (T \ {p}) \ {x}))
  BY <1>4, <1>6
<1>12. SumFunctionOnSet(f, T \ {x}) = f[p] + SumFunctionOnSet(f, (T \ {p}) \ {x})
  BY <1>7, <1>8
<1> QED BY <1>3, <1>9, <1>10, <1>11, <1>12

LEMMA SumSame ==
    ASSUME NEW f, NEW g, NEW S, IsFiniteSet(S), \A x \in S : f[x] = g[x]
    PROVE  SumFunctionOnSet(f, S) = SumFunctionOnSet(g, S)
<1> DEFINE C == {T \in SUBSET S : SumFunctionOnSet(f, T) # SumFunctionOnSet(g, T)}
<1>1. SUFFICES ASSUME C # {} PROVE FALSE
  OBVIOUS
<1>2. PICK T \in C : \A U \in C : ~(U \subseteq T /\ U # T)
  <2> HIDE DEF C
  <2>1. C \subseteq SUBSET S
    BY DEF C
  <2> QED BY <1>1, <2>1, Least
<1> DEFINE u == T \ {Picked(T)}
<1>3. /\ SumFunctionOnSet(f, T) = IF T = {} THEN 0 ELSE f[Picked(T)] + SumFunctionOnSet(f, u)
      /\ SumFunctionOnSet(g, T) = IF T = {} THEN 0 ELSE g[Picked(T)] + SumFunctionOnSet(g, u)
  BY SumStep, FS_Subset
<1>4. T # {}
  BY <1>3
<1>5. u \subseteq T /\ u # T /\ u \in SUBSET S /\ Picked(T) \in S
  BY <1>4, PickedIsElement
<1>6. SumFunctionOnSet(f, u) = SumFunctionOnSet(g, u)
  BY <1>2, <1>5
<1> QED BY <1>3, <1>4, <1>5, <1>6

(* One term of a sum changes.                                              *)
LEMMA SumChanges ==
    ASSUME NEW f, NEW g, NEW S, IsFiniteSet(S), NEW e \in S,
           \A x \in S : f[x] \in Int /\ g[x] \in Int, \A x \in S \ {e} : g[x] = f[x]
    PROVE  SumFunctionOnSet(g, S) = SumFunctionOnSet(f, S) + (g[e] - f[e])
<1>1. /\ SumFunctionOnSet(f, S) = f[e] + SumFunctionOnSet(f, S \ {e})
      /\ SumFunctionOnSet(g, S) = g[e] + SumFunctionOnSet(g, S \ {e})
  BY SumTakes
<1>2. IsFiniteSet(S \ {e}) /\ \A x \in S \ {e} : f[x] \in Int
  BY FS_Subset
<1>3. SumFunctionOnSet(f, S \ {e}) = SumFunctionOnSet(g, S \ {e})
  BY <1>2, SumSame
<1>4. SumFunctionOnSet(f, S \ {e}) \in Int /\ f[e] \in Int /\ g[e] \in Int
  BY <1>2, SumType
<1> QED BY <1>1, <1>3, <1>4

LEMMA SumOfZeros ==
    ASSUME NEW f, NEW S, IsFiniteSet(S), \A x \in S : f[x] = 0
    PROVE  SumFunctionOnSet(f, S) = 0
<1> DEFINE C == {T \in SUBSET S : SumFunctionOnSet(f, T) # 0}
<1>1. SUFFICES ASSUME C # {} PROVE FALSE
  OBVIOUS
<1>2. PICK T \in C : \A U \in C : ~(U \subseteq T /\ U # T)
  <2> HIDE DEF C
  <2>1. C \subseteq SUBSET S
    BY DEF C
  <2> QED BY <1>1, <2>1, Least
<1> DEFINE u == T \ {Picked(T)}
<1>3. SumFunctionOnSet(f, T) = IF T = {} THEN 0 ELSE f[Picked(T)] + SumFunctionOnSet(f, u)
  BY SumStep, FS_Subset
<1>4. T # {}
  BY <1>3
<1>5. u \subseteq T /\ u # T /\ u \in SUBSET S /\ Picked(T) \in S
  BY <1>4, PickedIsElement
<1>6. SumFunctionOnSet(f, u) = 0
  BY <1>2, <1>5
<1> QED BY <1>3, <1>4, <1>5, <1>6

LEMMA SumAtMost ==
    ASSUME NEW f, NEW g, NEW S, IsFiniteSet(S),
           \A x \in S : f[x] \in Int /\ g[x] \in Int /\ f[x] <= g[x]
    PROVE  SumFunctionOnSet(f, S) <= SumFunctionOnSet(g, S)
<1> DEFINE C == {T \in SUBSET S : ~(SumFunctionOnSet(f, T) <= SumFunctionOnSet(g, T))}
<1>1. SUFFICES ASSUME C # {} PROVE FALSE
  OBVIOUS
<1>2. PICK T \in C : \A U \in C : ~(U \subseteq T /\ U # T)
  <2> HIDE DEF C
  <2>1. C \subseteq SUBSET S
    BY DEF C
  <2> QED BY <1>1, <2>1, Least
<1> DEFINE u == T \ {Picked(T)}
<1>3. /\ SumFunctionOnSet(f, T) = IF T = {} THEN 0 ELSE f[Picked(T)] + SumFunctionOnSet(f, u)
      /\ SumFunctionOnSet(g, T) = IF T = {} THEN 0 ELSE g[Picked(T)] + SumFunctionOnSet(g, u)
  BY SumStep, FS_Subset
<1>4. T # {}
  BY <1>3
<1>5. u \subseteq T /\ u # T /\ u \in SUBSET S /\ Picked(T) \in S
  BY <1>4, PickedIsElement
<1>6. SumFunctionOnSet(f, u) <= SumFunctionOnSet(g, u)
  BY <1>2, <1>5
<1>7. SumFunctionOnSet(f, u) \in Int /\ SumFunctionOnSet(g, u) \in Int
  <2>1. IsFiniteSet(u) /\ \A x \in u : f[x] \in Int /\ g[x] \in Int
    BY <1>5, FS_Subset
  <2> QED BY <2>1, SumType
<1>8. f[Picked(T)] \in Int /\ g[Picked(T)] \in Int /\ f[Picked(T)] <= g[Picked(T)]
  BY <1>5
<1>9. ~(SumFunctionOnSet(f, T) <= SumFunctionOnSet(g, T))
  OBVIOUS
<1> QED BY <1>3, <1>4, <1>6, <1>7, <1>8, <1>9

LEMMA SumOfConstant ==
    ASSUME NEW c \in Int, NEW f, NEW S, IsFiniteSet(S), \A x \in S : f[x] = c
    PROVE  SumFunctionOnSet(f, S) = Cardinality(S) * c
<1> DEFINE C == {T \in SUBSET S : SumFunctionOnSet(f, T) # Cardinality(T) * c}
<1>1. SUFFICES ASSUME C # {} PROVE FALSE
  OBVIOUS
<1>2. PICK T \in C : \A U \in C : ~(U \subseteq T /\ U # T)
  <2> HIDE DEF C
  <2>1. C \subseteq SUBSET S
    BY DEF C
  <2> QED BY <1>1, <2>1, Least
<1> DEFINE u == T \ {Picked(T)}
<1>3. SumFunctionOnSet(f, T) = IF T = {} THEN 0 ELSE f[Picked(T)] + SumFunctionOnSet(f, u)
  BY SumStep, FS_Subset
<1>4. T # {}
  <2>1. Cardinality({}) = 0 /\ 0 * c = 0
    BY FS_EmptySet
  <2> QED BY <1>3, <2>1
<1>5. u \subseteq T /\ u # T /\ u \in SUBSET S /\ Picked(T) \in T /\ Picked(T) \in S
  BY <1>4, PickedIsElement
<1>6. SumFunctionOnSet(f, u) = Cardinality(u) * c
  BY <1>2, <1>5
<1>7. IsFiniteSet(T) /\ Cardinality(T) \in Nat /\ Cardinality(u) = Cardinality(T) - 1
  BY <1>5, FS_Subset, FS_RemoveElement, FS_CardinalityType
<1>8. \A k \in Int : c + (k - 1) * c = k * c
  OBVIOUS
<1> QED BY <1>3, <1>4, <1>5, <1>6, <1>7, <1>8

(* One more term.                                                          *)
LEMMA SumExtends ==
    ASSUME NEW f, NEW g, NEW S, IsFiniteSet(S), NEW e, e \notin S, g[e] \in Int,
           \A x \in S : f[x] \in Int /\ g[x] = f[x]
    PROVE  SumFunctionOnSet(g, S \union {e}) = SumFunctionOnSet(f, S) + g[e]
<1>1. IsFiniteSet(S \union {e}) /\ (S \union {e}) \ {e} = S
  BY FS_AddElement
<1>2. SumFunctionOnSet(g, S \union {e}) = g[e] + SumFunctionOnSet(g, S)
  <2>1. (\A x \in S \union {e} : g[x] \in Int) /\ e \in S \union {e}
    OBVIOUS
  <2> QED BY <1>1, <2>1, SumTakes
<1>3. SumFunctionOnSet(g, S) = SumFunctionOnSet(f, S) /\ SumFunctionOnSet(f, S) \in Int
  BY SumSame, SumType
<1> QED BY <1>2, <1>3

(* What one term gains and another loses a sum does not notice.            *)
LEMMA SumMoves ==
    ASSUME NEW f, NEW g, NEW S, IsFiniteSet(S), NEW e \in S, NEW o \in S, e # o, NEW d \in Int,
           \A x \in S : f[x] \in Int, g[e] = f[e] + d, g[o] = f[o] - d,
           \A x \in S \ {e, o} : g[x] = f[x]
    PROVE  SumFunctionOnSet(g, S) = SumFunctionOnSet(f, S)
<1> DEFINE h == [x \in S |-> IF x = e THEN f[e] + d ELSE f[x]]
<1>1. /\ \A x \in S : h[x] \in Int /\ g[x] \in Int
      /\ h[e] = f[e] + d /\ h[o] = f[o] /\ f[e] \in Int /\ f[o] \in Int
      /\ \A x \in S \ {e} : h[x] = f[x]
      /\ \A x \in S \ {o} : g[x] = h[x]
  OBVIOUS
<1> HIDE DEF h
<1>2. SumFunctionOnSet(h, S) = SumFunctionOnSet(f, S) + (h[e] - f[e])
  BY <1>1, SumChanges
<1>3. SumFunctionOnSet(g, S) = SumFunctionOnSet(h, S) + (g[o] - h[o])
  BY <1>1, SumChanges
<1>4. SumFunctionOnSet(f, S) \in Int
  BY SumType
<1> QED BY <1>1, <1>2, <1>3, <1>4

(* Renumbering the terms of a sum.                                         *)
LEMMA SumShifts ==
    ASSUME NEW n \in Nat, NEW f, NEW g, \A i \in 1 .. n + 1 : f[i] \in Int,
           \A i \in 1 .. n : g[i] = f[i + 1]
    PROVE  SumFunctionOnSet(g, 1 .. n) = SumFunctionOnSet(f, 2 .. n + 1)
<1> DEFINE Next1(T) == {i \in 2 .. n + 1 : i - 1 \in T}
           C == {T \in SUBSET (1 .. n) :
                    SumFunctionOnSet(g, T) # SumFunctionOnSet(f, Next1(T))}
<1>1. IsFiniteSet(1 .. n) /\ IsFiniteSet(2 .. n + 1)
  BY FS_Interval
<1>2. C = {}
  <2>1. SUFFICES ASSUME C # {} PROVE FALSE
    OBVIOUS
  <2>2. PICK T \in C : \A U \in C : ~(U \subseteq T /\ U # T)
    <3> DEFINE S == 1 .. n
    <3>1. C \subseteq SUBSET S /\ IsFiniteSet(S)
      BY <1>1
    <3> HIDE DEF C, S
    <3> QED BY <2>1, <3>1, Least
  <2> DEFINE p == Picked(T)
             u == T \ {p}
  <2>3. SumFunctionOnSet(g, T) = IF T = {} THEN 0 ELSE g[p] + SumFunctionOnSet(g, u)
    BY <1>1, SumStep, FS_Subset
  <2>4. T # {}
    <3>1. SumFunctionOnSet(f, {}) = 0
      BY SumStep, FS_EmptySet
    <3>2. T = {} => Next1(T) = {}
      OBVIOUS
    <3> QED BY <2>3, <3>1, <3>2
  <2>5. p \in T /\ p \in 1 .. n /\ u \subseteq T /\ u # T /\ u \in SUBSET (1 .. n)
    BY <2>4, PickedIsElement
  <2> HIDE DEF p
  <2>6. SumFunctionOnSet(g, u) = SumFunctionOnSet(f, Next1(u))
    BY <2>2, <2>5
  <2>7. Next1(u) = Next1(T) \ {p + 1} /\ p + 1 \in Next1(T)
    BY <2>5
  <2>8. SumFunctionOnSet(f, Next1(T)) = f[p + 1] + SumFunctionOnSet(f, Next1(T) \ {p + 1})
    <3>1. IsFiniteSet(Next1(T)) /\ \A i \in Next1(T) : f[i] \in Int
      BY <1>1, FS_Subset
    <3> QED BY <2>7, <3>1, SumTakes
  <2> QED BY <2>2, <2>3, <2>4, <2>5, <2>6, <2>7, <2>8
<1>3. Next1(1 .. n) = 2 .. n + 1
  OBVIOUS
<1> QED BY <1>2, <1>3

-----------------------------------------------------------------------------
(* The deltas in a lane.                                                   *)
Carried(lane) == SumFunction([i \in DOMAIN lane |-> lane[i].delta])

LEMMA CarriedSum ==
    ASSUME NEW lane \in Seq(Delta)
    PROVE  /\ Carried(lane)
                 = SumFunctionOnSet([i \in 1 .. Len(lane) |-> lane[i].delta], 1 .. Len(lane))
           /\ \A i \in 1 .. Len(lane) : lane[i].delta \in Int
           /\ IsFiniteSet(1 .. Len(lane))
<1>1. DOMAIN lane = 1 .. Len(lane) /\ \A i \in 1 .. Len(lane) : lane[i] \in Delta
  OBVIOUS
<1>2. \A i \in 1 .. Len(lane) : lane[i].delta \in Int
  BY <1>1 DEF Delta
<1>3. IsFiniteSet(1 .. Len(lane))
  BY FS_Interval
<1> QED BY <1>1, <1>2, <1>3 DEF Carried, SumFunction

LEMMA CarriedType == ASSUME NEW lane \in Seq(Delta) PROVE Carried(lane) \in Int
BY CarriedSum, SumType

LEMMA CarriedEmpty == Carried(<<>>) = 0
<1> DEFINE f == [i \in DOMAIN <<>> |-> <<>>[i].delta]
<1>1. DOMAIN f = {} /\ Carried(<<>>) = SumFunctionOnSet(f, DOMAIN f)
  BY DEF Carried, SumFunction
<1> HIDE DEF f
<1> QED BY <1>1, SumStep, FS_EmptySet

LEMMA CarriedAppend ==
    ASSUME NEW lane \in Seq(Delta), NEW m \in Delta
    PROVE  Carried(Append(lane, m)) = Carried(lane) + m.delta
<1> DEFINE n == Len(lane)
           f == [i \in 1 .. n |-> lane[i].delta]
           g == [i \in 1 .. n + 1 |-> Append(lane, m)[i].delta]
<1>1. /\ Append(lane, m) \in Seq(Delta) /\ Len(Append(lane, m)) = n + 1
      /\ \A i \in 1 .. n : g[i] = f[i] /\ f[i] \in Int
      /\ g[n + 1] = m.delta /\ m.delta \in Int /\ n \in Nat
  <2>1. /\ Append(lane, m) \in Seq(Delta) /\ Len(Append(lane, m)) = n + 1 /\ n \in Nat
        /\ \A i \in 1 .. n : Append(lane, m)[i] = lane[i]
        /\ Append(lane, m)[n + 1] = m
    OBVIOUS
  <2>2. m.delta \in Int /\ \A i \in 1 .. n : lane[i].delta \in Int
    BY CarriedSum DEF Delta
  <2>3. n + 1 \in 1 .. n + 1 /\ \A i \in 1 .. n : i \in 1 .. n + 1
    BY <2>1
  <2> QED BY <2>1, <2>2, <2>3
<1>2. Carried(lane) = SumFunctionOnSet(f, 1 .. n)
  BY CarriedSum
<1>3. Carried(Append(lane, m)) = SumFunctionOnSet(g, 1 .. n + 1)
  BY <1>1, CarriedSum
<1> HIDE DEF f, g, n
<1>4. (1 .. n + 1) \ {n + 1} = 1 .. n /\ n + 1 \in 1 .. n + 1
  BY <1>1
<1>5. /\ \A i \in 1 .. n + 1 : g[i] \in Int
      /\ IsFiniteSet(1 .. n) /\ IsFiniteSet(1 .. n + 1)
  <2>1. \A i \in 1 .. n + 1 : g[i] \in Int
    BY <1>1
  <2>2. n \in Int /\ n + 1 \in Int /\ 1 \in Int
    BY <1>1
  <2>3. IsFiniteSet(1 .. n)
    BY <2>2, FS_Interval
  <2>4. IsFiniteSet(1 .. n + 1)
    BY <2>2, FS_Interval
  <2> QED BY <2>1, <2>3, <2>4
<1>6. SumFunctionOnSet(g, 1 .. n + 1) = g[n + 1] + SumFunctionOnSet(g, 1 .. n)
  <2> DEFINE S == 1 .. n + 1
  <2>1. IsFiniteSet(S) /\ n + 1 \in S /\ \A i \in S : g[i] \in Int
    BY <1>4, <1>5
  <2> HIDE DEF S
  <2>2. SumFunctionOnSet(g, S) = g[n + 1] + SumFunctionOnSet(g, S \ {n + 1})
    BY <2>1, SumTakes
  <2> QED BY <1>4, <2>2 DEF S
<1>7. SumFunctionOnSet(g, 1 .. n) = SumFunctionOnSet(f, 1 .. n)
  BY <1>1, <1>5, SumSame
<1>8. SumFunctionOnSet(f, 1 .. n) \in Int
  BY <1>1, <1>5, SumType
<1> QED BY <1>1, <1>2, <1>3, <1>6, <1>7, <1>8

LEMMA CarriedTail ==
    ASSUME NEW lane \in Seq(Delta), lane # <<>>
    PROVE  Carried(Tail(lane)) = Carried(lane) - Head(lane).delta
<1>1. PICK n \in Nat : Len(lane) = n + 1
  <2>1. Len(lane) \in Nat /\ Len(lane) # 0
    OBVIOUS
  <2> QED BY <2>1, Len(lane) - 1 \in Nat
<1> DEFINE f == [i \in 1 .. n + 1 |-> lane[i].delta]
           g == [i \in 1 .. n |-> Tail(lane)[i].delta]
<1>2. /\ Tail(lane) \in Seq(Delta) /\ Len(Tail(lane)) = n
      /\ \A i \in 1 .. n : Tail(lane)[i] = lane[i + 1]
  BY <1>1
<1>3. /\ \A i \in 1 .. n + 1 : f[i] \in Int
      /\ \A i \in 1 .. n : g[i] = f[i + 1]
      /\ f[1] = Head(lane).delta
  <2>1. \A i \in 1 .. n + 1 : lane[i].delta \in Int
    BY <1>1, CarriedSum
  <2>2. \A i \in 1 .. n : i + 1 \in 1 .. n + 1
    OBVIOUS
  <2> QED BY <1>1, <1>2, <2>1, <2>2
<1>4. Carried(lane) = SumFunctionOnSet(f, 1 .. n + 1)
  BY <1>1, CarriedSum
<1>5. Carried(Tail(lane)) = SumFunctionOnSet(g, 1 .. n)
  BY <1>2, CarriedSum
<1> HIDE DEF f, g
<1>6. SumFunctionOnSet(g, 1 .. n) = SumFunctionOnSet(f, 2 .. n + 1)
  BY <1>3, SumShifts
<1>7. (1 .. n + 1) \ {1} = 2 .. n + 1 /\ 1 \in 1 .. n + 1
  OBVIOUS
<1>8. SumFunctionOnSet(f, 1 .. n + 1) = f[1] + SumFunctionOnSet(f, 2 .. n + 1)
  <2> DEFINE S == 1 .. n + 1
  <2>1. IsFiniteSet(S) /\ 1 \in S /\ \A i \in S : f[i] \in Int
    BY <1>1, <1>3, <1>7, CarriedSum
  <2> HIDE DEF S
  <2>2. SumFunctionOnSet(f, S) = f[1] + SumFunctionOnSet(f, S \ {1})
    BY <2>1, SumTakes
  <2> QED BY <1>7, <2>2 DEF S
<1>9. f[1] \in Int /\ SumFunctionOnSet(f, 2 .. n + 1) \in Int
  <2> DEFINE S == 2 .. n + 1
  <2>1. IsFiniteSet(S)
    <3>1. n + 1 \in Int /\ 2 \in Int
      OBVIOUS
    <3> QED BY <3>1, FS_Interval
  <2>2. \A i \in S : f[i] \in Int
    BY <1>3
  <2> HIDE DEF S
  <2>3. SumFunctionOnSet(f, S) \in Int
    BY <2>1, <2>2, SumType
  <2> QED BY <1>3, <1>7, <2>3 DEF S
<1> QED BY <1>3, <1>4, <1>5, <1>6, <1>8, <1>9

-----------------------------------------------------------------------------
(* What of a join's movement the pool has yet to take in.                  *)
Afloat(j) == InLane(j) + Unsampled(j)
AllAfloat == SumFunction([j \in Joins |-> Afloat(j)])

LEMMA AfloatType ==
    ASSUME TypeOK, NEW j \in Joins
    PROVE  /\ InLane(j) = Carried(up[j]) /\ InLane(j) \in Int
           /\ Unsampled(j) \in Int /\ Afloat(j) \in Int
<1>1. up[j] \in Seq(Delta) /\ wallet[j] \in Nat /\ poolSeen[j] \in Nat \cup {Unseeded}
  BY DEF TypeOK, Players
<1>2. InLane(j) = Carried(up[j]) /\ InLane(j) \in Int
  BY <1>1, CarriedType DEF InLane, Carried
<1>3. Unsampled(j) \in Int
  BY <1>1 DEF Unsampled
<1> QED BY <1>2, <1>3 DEF Afloat

LEMMA AfloatNext ==
    ASSUME TypeOK', NEW j \in Joins
    PROVE  /\ InLane(j)' = Carried(up'[j]) /\ Unsampled(j)' \in Int
           /\ Afloat(j)' = InLane(j)' + Unsampled(j)' /\ Afloat(j)' \in Int
<1>1. up'[j] \in Seq(Delta) /\ wallet'[j] \in Nat /\ poolSeen'[j] \in Nat \cup {Unseeded}
  BY DEF TypeOK, Players
<1>2. InLane(j)' = Carried(up'[j]) /\ InLane(j)' \in Int
  BY <1>1, CarriedType DEF InLane, Carried
<1>3. Unsampled(j)' \in Int
  BY <1>1 DEF Unsampled
<1> QED BY <1>2, <1>3 DEF Afloat

LEMMA AfloatStays ==
    ASSUME NEW j \in Joins, up'[j] = up[j], live'[j] = live[j],
           poolSeen'[j] = poolSeen[j], wallet'[j] = wallet[j]
    PROVE  Afloat(j)' = Afloat(j)
BY DEF Afloat, InLane, Unsampled

LEMMA AllAfloatType == ASSUME TypeOK PROVE AllAfloat \in Int
<1> DEFINE f == [j \in Joins |-> Afloat(j)]
<1>1. IsFiniteSet(Joins) /\ \A j \in Joins : f[j] \in Int
  BY PoolAssumption, AfloatType
<1>2. AllAfloat = SumFunctionOnSet(f, Joins)
  BY DEF AllAfloat, SumFunction
<1> HIDE DEF f
<1> QED BY <1>1, <1>2, SumType

(* A step that moves one join's money.                                     *)
LEMMA OneAfloat ==
    ASSUME TypeOK, TypeOK', NEW j \in Joins,
           \A k \in Joins \ {j} : Afloat(k)' = Afloat(k)
    PROVE  AllAfloat' = AllAfloat + (Afloat(j)' - Afloat(j))
<1> DEFINE f == [k \in Joins |-> Afloat(k)]
           g == [k \in Joins |-> Afloat(k)']
<1>1. /\ IsFiniteSet(Joins) /\ \A k \in Joins : f[k] \in Int /\ g[k] \in Int
      /\ \A k \in Joins \ {j} : g[k] = f[k]
      /\ f[j] = Afloat(j) /\ g[j] = Afloat(j)'
  BY PoolAssumption, AfloatType, AfloatNext
<1>2. AllAfloat = SumFunctionOnSet(f, Joins)
  BY DEF AllAfloat, SumFunction
<1>3. AllAfloat' = SumFunctionOnSet(g, Joins)
  BY DEF AllAfloat, SumFunction
<1> HIDE DEF f, g
<1>4. SumFunctionOnSet(g, Joins) = SumFunctionOnSet(f, Joins) + (g[j] - f[j])
  BY <1>1, SumChanges
<1> QED BY <1>1, <1>2, <1>3, <1>4

(* A step that moves none's.                                               *)
LEMMA NoneAfloat ==
    ASSUME \A k \in Joins : Afloat(k)' = Afloat(k) PROVE AllAfloat' = AllAfloat
<1> DEFINE f == [k \in Joins |-> Afloat(k)]
           g == [k \in Joins |-> Afloat(k)']
<1>1. IsFiniteSet(Joins) /\ \A k \in Joins : f[k] = g[k]
  BY PoolAssumption
<1>2. AllAfloat = SumFunctionOnSet(f, Joins)
  BY DEF AllAfloat, SumFunction
<1>3. AllAfloat' = SumFunctionOnSet(g, Joins)
  BY DEF AllAfloat, SumFunction
<1> HIDE DEF f, g
<1> QED BY <1>1, <1>2, <1>3, SumSame

(* Every join reloads.                                                     *)
LEMMA AllGrounded ==
    ASSUME \A k \in Joins : Afloat(k)' = 0 PROVE AllAfloat' = 0
<1> DEFINE g == [k \in Joins |-> Afloat(k)']
<1>1. IsFiniteSet(Joins) /\ \A k \in Joins : g[k] = 0
  BY PoolAssumption
<1>2. AllAfloat' = SumFunctionOnSet(g, Joins)
  BY DEF AllAfloat, SumFunction
<1> HIDE DEF g
<1> QED BY <1>1, <1>2, SumOfZeros

(* Between publish and the end of apply the host holds a total, and until  *)
(* something is folded it is the wallet's.                                 *)
PoolHeld == refusals = 0 /\ folding =>
    poolTotal # NoTotal /\ (~moved => poolTotal = wallet[Host])

Balance == Conservation /\ PoolHeld

LEMMA Balanced == Conservation <=> (refusals = 0 => Pool + AllAfloat = owed)
BY DEF Conservation, AllAfloat, Afloat

LEMMA PurseTypes ==
    ASSUME TypeOK
    PROVE  /\ wallet[Host] \in Nat /\ poolTotal \in Nat \cup {NoTotal} /\ owed \in Int
           /\ refusals \in Nat /\ Pool \in Int /\ AllAfloat \in Int
<1>1. wallet[Host] \in Nat /\ poolTotal \in Nat \cup {NoTotal}
  BY DEF TypeOK, Players
<1>2. Pool \in Int
  BY <1>1 DEF Pool, NoTotal
<1> QED BY <1>1, <1>2, AllAfloatType DEF TypeOK

LEMMA NoRefusal ==
    ASSUME NEW n \in Nat, refusals \in Nat, Refuse(n), refusals' = 0
    PROVE  n = 0 /\ refusals = 0
BY DEF Refuse

LEMMA PoolTradeBalances ==
    ASSUME TypeOK, TypeOK', Balance, NEW p \in Players, NEW d \in Trades, Trade(p, d)
    PROVE  Balance'
<1>1. /\ wallet' = [wallet EXCEPT ![p] = wallet[p] + d] /\ d \in Int
      /\ owed' = IF p = Host \/ poolSeen[p] # Unseeded THEN owed + d ELSE owed
      /\ p = Host => ~folding
      /\ p \in Joins => live[p]
      /\ UNCHANGED <<poolSeen, poolTotal, folding, moved, up, live, refusals>>
  BY PoolAssumption DEF Trade, hostVars
<1>2. Host \in Players /\ Host \notin Joins /\ wallet \in [Players -> Nat] /\ wallet[p] \in Nat
  BY PoolAssumption DEF TypeOK, Players
<1>3. CASE p = Host
  <2>1. AllAfloat' = AllAfloat
    <3>1. \A k \in Joins : wallet'[k] = wallet[k]
      BY <1>1, <1>2, <1>3
    <3> QED BY <1>1, <3>1, AfloatStays, NoneAfloat
  <2>2. wallet'[Host] = wallet[Host] + d /\ Pool' = Pool + d /\ owed' = owed + d
    BY <1>1, <1>2, <1>3 DEF Pool
  <2>3. PoolHeld'
    BY <1>1, <1>3 DEF PoolHeld
  <2>4. Conservation'
    <3>1. refusals = 0 => Pool + AllAfloat = owed
      BY Balanced DEF Balance
    <3>2. refusals' = 0 => Pool' + AllAfloat' = owed'
      BY <1>1, <2>1, <2>2, <3>1, PurseTypes
    <3> QED BY <3>2 DEF Conservation, AllAfloat, Afloat
  <2> QED BY <2>3, <2>4 DEF Balance
<1>4. CASE p \in Joins
  <2>1. /\ \A k \in Joins \ {p} : Afloat(k)' = Afloat(k)
        /\ wallet'[Host] = wallet[Host] /\ wallet'[p] = wallet[p] + d
    <3>1. \A k \in Joins \ {p} : wallet'[k] = wallet[k]
      BY <1>1, <1>2, <1>4 DEF Players
    <3>2. wallet'[Host] = wallet[Host] /\ wallet'[p] = wallet[p] + d
      BY <1>1, <1>2, <1>4
    <3> QED BY <1>1, <3>1, <3>2, AfloatStays
  <2>2. AllAfloat' = AllAfloat + (Afloat(p)' - Afloat(p))
    BY <1>4, <2>1, OneAfloat
  <2>3. Afloat(p)' - Afloat(p) = IF poolSeen[p] # Unseeded THEN d ELSE 0
    <3>1. InLane(p)' = InLane(p) /\ InLane(p) \in Int
      BY <1>1, <1>4, AfloatType DEF InLane
    <3>2. Unsampled(p)' = IF poolSeen[p] # Unseeded THEN Unsampled(p) + d ELSE Unsampled(p)
      <4>1. poolSeen[p] \in Nat \cup {Unseeded}
        BY <1>4 DEF TypeOK, Players
      <4> QED BY <1>1, <1>2, <1>4, <2>1, <4>1 DEF Unsampled
    <3>3. Unsampled(p) \in Int
      BY <1>4, AfloatType
    <3> QED BY <1>1, <3>1, <3>2, <3>3 DEF Afloat
  <2>4. Pool' = Pool /\ PoolHeld'
    BY <1>1, <2>1 DEF Pool, PoolHeld, Balance
  <2>5. Conservation'
    <3>1. refusals = 0 => Pool + AllAfloat = owed
      BY Balanced DEF Balance
    <3>2. owed' = IF poolSeen[p] # Unseeded THEN owed + d ELSE owed
      BY <1>1, <1>2, <1>4
    <3>3. refusals' = 0 => Pool' + AllAfloat' = owed'
      BY <1>1, <2>2, <2>3, <2>4, <3>1, <3>2, PurseTypes
    <3> QED BY <3>3 DEF Conservation, AllAfloat, Afloat
  <2> QED BY <2>4, <2>5 DEF Balance
<1> QED BY <1>3, <1>4 DEF Players

LEMMA HostPublishBalances ==
    ASSUME TypeOK, TypeOK', Balance, NEW due \in BOOLEAN, HostPublish(due) PROVE Balance'
<1>1. PICK read \in Answers :
         /\ Refuse(Cost(read))
         /\ read = "ok" => /\ poolSeen' = [poolSeen EXCEPT ![Host] = wallet[Host]]
                           /\ poolTotal' = wallet[Host]
  BY DEF HostPublish
<1>2. ~folding /\ folding' /\ ~moved' /\ UNCHANGED <<wallet, up, live, owed>>
  BY DEF HostPublish, joinVars
<1>3. SUFFICES ASSUME refusals' = 0 PROVE Balance'
  BY DEF Balance, Conservation, PoolHeld
<1>4. read = "ok" /\ refusals = 0
  <2>1. Cost(read) = 0 /\ refusals = 0
    BY <1>1, <1>3, CostTypes, NoRefusal, PurseTypes
  <2> QED BY <2>1 DEF Cost, Answers
<1>5. AllAfloat' = AllAfloat
  <2>1. \A k \in Joins : poolSeen'[k] = poolSeen[k]
    BY <1>1, <1>4, PoolAssumption DEF TypeOK, Players
  <2> QED BY <1>2, <2>1, AfloatStays, NoneAfloat
<1>6. Pool' = Pool /\ poolTotal' = wallet'[Host] /\ poolTotal' # NoTotal
  BY <1>1, <1>2, <1>4, PurseTypes DEF Pool, NoTotal
<1>7. Conservation'
  <2>1. Pool + AllAfloat = owed
    BY <1>4, Balanced DEF Balance
  <2>2. Pool' + AllAfloat' = owed'
    BY <1>2, <1>5, <1>6, <2>1
  <2> QED BY <2>2 DEF Conservation, AllAfloat, Afloat
<1> QED BY <1>6, <1>7 DEF Balance, PoolHeld

(* A delta leaves the lane for the pool, or for nothing when its number is *)
(* one the host has seen.                                                  *)
LEMMA HostFoldBalances ==
    ASSUME TypeOK, TypeOK', Balance, NEW j \in Joins, HostFold(j) PROVE Balance'
<1> DEFINE m == Head(up[j])
           pool == IF poolTotal = NoTotal THEN wallet[Host] ELSE poolTotal
           want == pool + m.delta
<1>1. /\ folding /\ folding' /\ up[j] # <<>> /\ up' = [up EXCEPT ![j] = Tail(up[j])]
      /\ UNCHANGED <<wallet, live, refusals>>
      /\ \/ owed' = owed - m.delta /\ UNCHANGED <<poolTotal, poolSeen, moved>>
         \/ /\ poolSeen' = IF poolTotal = NoTotal
                           THEN [poolSeen EXCEPT ![Host] = pool] ELSE poolSeen
            /\ poolTotal' = Clamped(want) /\ moved' = TRUE
            /\ owed' = IF want < 0 THEN owed - want ELSE owed
  BY DEF HostFold
<1>2. SUFFICES ASSUME refusals = 0 PROVE Balance'
  BY <1>1 DEF Balance, Conservation, PoolHeld
<1>3. poolTotal # NoTotal /\ pool = poolTotal /\ Pool = poolTotal /\ poolTotal \in Nat
  BY <1>1, <1>2, PurseTypes DEF Balance, PoolHeld, Pool
<1>4. up[j] \in Seq(Delta) /\ m.delta \in Int
  <2>1. up[j] \in Seq(Delta) /\ m \in Delta
    BY <1>1 DEF TypeOK
  <2> QED BY <2>1 DEF Delta
<1>5. AllAfloat' = AllAfloat - m.delta
  <2>1. \A k \in Joins : poolSeen'[k] = poolSeen[k]
    BY <1>1, <1>3
  <2>2. \A k \in Joins \ {j} : Afloat(k)' = Afloat(k)
    <3>1. \A k \in Joins \ {j} : up'[k] = up[k]
      BY <1>1 DEF TypeOK
    <3> QED BY <1>1, <2>1, <3>1, AfloatStays
  <2>3. InLane(j)' = InLane(j) - m.delta
    <3>1. up'[j] = Tail(up[j])
      BY <1>1 DEF TypeOK
    <3> QED BY <1>1, <1>4, <3>1, CarriedTail, AfloatType, AfloatNext
  <2>4. Unsampled(j)' = Unsampled(j)
    BY <1>1, <2>1 DEF Unsampled
  <2>5. Afloat(j)' - Afloat(j) = -m.delta
    <3>1. InLane(j) \in Int /\ Unsampled(j) \in Int /\ InLane(j)' \in Int /\ Unsampled(j)' \in Int
      BY <1>4, <2>3, AfloatType, AfloatNext
    <3>2. Afloat(j) = InLane(j) + Unsampled(j) /\ Afloat(j)' = InLane(j)' + Unsampled(j)'
      BY DEF Afloat
    <3> HIDE DEF m
    <3> QED BY <1>4, <2>3, <2>4, <3>1, <3>2
  <2>6. AllAfloat' = AllAfloat + (Afloat(j)' - Afloat(j))
    BY <2>2, OneAfloat
  <2>7. AllAfloat \in Int
    BY PurseTypes
  <2> HIDE DEF m
  <2> QED BY <1>4, <2>5, <2>6, <2>7
<1>6. Pool + AllAfloat = owed
  BY <1>2, Balanced DEF Balance
<1>7. Pool' = poolTotal'
  BY <1>1 DEF Pool
<1> HIDE DEF m
<1>8. CASE owed' = owed - m.delta /\ UNCHANGED <<poolTotal, poolSeen, moved>>
  <2>1. Pool' + AllAfloat' = owed'
    <3>1. Pool' = Pool /\ owed' = owed - m.delta
      BY <1>3, <1>7, <1>8
    <3>2. Pool \in Int /\ AllAfloat \in Int /\ owed \in Int
      BY <1>3, PurseTypes
    <3> QED BY <1>4, <1>5, <1>6, <3>1, <3>2
  <2>2. PoolHeld'
    BY <1>1, <1>8 DEF Balance, PoolHeld
  <2> QED BY <2>1, <2>2 DEF Balance, Conservation, AllAfloat, Afloat
<1>9. CASE /\ poolTotal' = Clamped(want) /\ moved' = TRUE
           /\ owed' = IF want < 0 THEN owed - want ELSE owed
  <2>1. want = poolTotal + m.delta /\ want \in Int
    BY <1>3, <1>4
  <2> HIDE DEF want
  <2>2. poolTotal' = (IF want < 0 THEN 0 ELSE want) /\ poolTotal' # NoTotal
    BY <1>9, <2>1 DEF Clamped, NoTotal
  <2>3. Pool' + AllAfloat' = owed'
    <3>1. /\ Pool' = (IF want < 0 THEN 0 ELSE want) /\ want = Pool + m.delta
          /\ owed' = IF want < 0 THEN owed - want ELSE owed
      BY <1>3, <1>7, <1>9, <2>1, <2>2
    <3>2. Pool \in Int /\ AllAfloat \in Int /\ owed \in Int
      BY <1>3, PurseTypes
    <3>3. CASE want < 0
      <4>1. Pool' = 0 /\ owed' = owed - want
        BY <3>1, <3>3
      <4> QED BY <1>4, <1>5, <1>6, <2>1, <3>1, <3>2, <4>1
    <3>4. CASE ~(want < 0)
      <4>1. Pool' = want /\ owed' = owed
        BY <3>1, <3>4
      <4> QED BY <1>4, <1>5, <1>6, <2>1, <3>1, <3>2, <4>1
    <3> QED BY <3>3, <3>4
  <2>4. PoolHeld'
    BY <1>9, <2>2 DEF PoolHeld
  <2> QED BY <2>3, <2>4 DEF Balance, Conservation, AllAfloat, Afloat
<1> QED BY <1>1, <1>8, <1>9

LEMMA HostFinishBalances ==
    ASSUME TypeOK, TypeOK', Balance, HostFinish PROVE Balance'
<1>1. /\ folding /\ ~folding' /\ UNCHANGED <<up, live, owed>>
      /\ moved => \E wrote \in Answers :
            /\ Refuse(Cost(wrote))
            /\ wrote = "ok" => /\ wallet' = [wallet EXCEPT ![Host] = poolTotal]
                               /\ poolSeen' = [poolSeen EXCEPT ![Host] = poolTotal]
      /\ ~moved => UNCHANGED <<wallet, poolSeen, refusals>>
  BY DEF HostFinish, joinVars
<1>2. SUFFICES ASSUME refusals' = 0 PROVE Balance'
  BY DEF Balance, Conservation, PoolHeld
<1>3. /\ refusals = 0 /\ wallet'[Host] = poolTotal
      /\ \A k \in Joins : wallet'[k] = wallet[k] /\ poolSeen'[k] = poolSeen[k]
  <2>1. CASE moved
    <3>1. PICK wrote \in Answers :
            /\ Refuse(Cost(wrote))
            /\ wrote = "ok" => /\ wallet' = [wallet EXCEPT ![Host] = poolTotal]
                               /\ poolSeen' = [poolSeen EXCEPT ![Host] = poolTotal]
      BY <1>1, <2>1
    <3>2. Cost(wrote) = 0 /\ refusals = 0
      BY <1>2, <3>1, CostTypes, NoRefusal, PurseTypes
    <3>3. wrote = "ok"
      BY <3>2 DEF Cost, Answers
    <3> QED BY <3>1, <3>2, <3>3, PoolAssumption DEF TypeOK, Players
  <2>2. CASE ~moved
    BY <1>1, <1>2, <2>2 DEF Balance, PoolHeld
  <2> QED BY <2>1, <2>2
<1>4. AllAfloat' = AllAfloat
  BY <1>1, <1>3, AfloatStays, NoneAfloat
<1>5. Pool' = Pool
  BY <1>1, <1>3 DEF Pool
<1>6. Pool + AllAfloat = owed
  BY <1>3, Balanced DEF Balance
<1>7. Pool' + AllAfloat' = owed'
  BY <1>1, <1>4, <1>5, <1>6
<1> QED BY <1>1, <1>7 DEF Balance, Conservation, PoolHeld, AllAfloat, Afloat

(* What a join had not reported goes into its lane, and nothing else moves.*)
LEMMA JoinTickBalances ==
    ASSUME TypeOK, TypeOK', Balance, NEW j \in Joins, JoinTick(j) PROVE Balance'
<1>1. PICK n \in 0 .. Len(down[j]), read \in Answers, reread \in Answers, wrote \in Answers :
         /\ Refuse(Cost(read) + Cost(reread) + Cost(wrote))
         /\ IF Reports(j, read)
            THEN /\ up' = [up EXCEPT ![j] = Append(@, Movement(j))]
                 /\ poolSeq' = [poolSeq EXCEPT ![j] = @ + 1]
            ELSE UNCHANGED <<up, poolSeq>>
         /\ poolPending' = [poolPending EXCEPT ![j] =
              IF n > 0 THEN <<>> ELSE IF Reports(j, read) THEN Append(@, Movement(j)) ELSE @]
         /\ down' = [down EXCEPT ![j] = SubSeq(@, n + 1, Len(@))]
         /\ wallet' = [wallet EXCEPT ![j] =
              IF Adopts(j, n, reread, wrote) THEN down[j][n].money ELSE @]
         /\ poolSeen' = [poolSeen EXCEPT ![j] =
              Baseline(Adopts(j, n, reread, wrote), down[j][n].money,
                       IF read = "ok" THEN wallet[j] ELSE @)]
  BY Zenon DEF JoinTick
<1>2. live[j] /\ UNCHANGED <<poolTotal, folding, moved, live, owed>>
  BY DEF JoinTick, hostVars
<1>3. SUFFICES ASSUME refusals' = 0 PROVE Balance'
  BY DEF Balance, Conservation, PoolHeld
<1>4. read = "ok" /\ refusals = 0
  <2>1. Cost(read) \in Nat /\ Cost(reread) \in Nat /\ Cost(wrote) \in Nat
    BY CostTypes
  <2>2. Cost(read) = 0 /\ refusals = 0
    BY <1>1, <1>3, <2>1, NoRefusal, PurseTypes
  <2> QED BY <2>2 DEF Cost, Answers
<1>5. /\ wallet \in [Players -> Nat] /\ poolSeen \in [Players -> Nat \cup {Unseeded}]
      /\ j \in Players /\ Host \in Players /\ j # Host /\ up[j] \in Seq(Delta)
      /\ poolSeq[j] \in Nat /\ up \in [Joins -> Seq(Delta)]
  BY PoolAssumption DEF TypeOK, Players
<1>6. wallet'[j] = poolSeen'[j]
  BY <1>1, <1>4, <1>5 DEF Baseline
<1>7. Unsampled(j)' = 0
  <2>1. wallet'[j] \in Nat
    BY <1>5 DEF TypeOK
  <2> QED BY <1>6, <2>1 DEF Unsampled
<1>8. InLane(j)' = InLane(j) + Unsampled(j)
  <2>1. CASE Reports(j, read)
    <3>1. up'[j] = Append(up[j], Movement(j)) /\ Movement(j) \in Delta
      <4>1. Movement(j) \in Delta
        BY <1>5, <2>1 DEF Movement, Delta, Reports
      <4> QED BY <1>1, <1>5, <2>1, <4>1
    <3>2. Movement(j).delta = Unsampled(j)
      BY <1>2, <2>1 DEF Movement, Unsampled, Reports
    <3> QED BY <1>5, <3>1, <3>2, CarriedAppend, AfloatType, AfloatNext
  <2>2. CASE ~Reports(j, read)
    <3>1. Unsampled(j) = 0
      BY <1>4, <1>5, <2>2 DEF Unsampled, Reports
    <3>2. InLane(j)' = InLane(j)
      BY <1>1, <2>2, AfloatType, AfloatNext
    <3> QED BY <3>1, <3>2, AfloatType
  <2> QED BY <2>1, <2>2
<1>9. AllAfloat' = AllAfloat
  <2>1. Afloat(j)' = Afloat(j)
    BY <1>7, <1>8, AfloatType, AfloatNext DEF Afloat
  <2>2. \A k \in Joins : k # j => /\ up'[k] = up[k] /\ wallet'[k] = wallet[k]
                                  /\ poolSeen'[k] = poolSeen[k]
    BY <1>1, <1>5 DEF Players
  <2>3. \A k \in Joins : k # j => Afloat(k)' = Afloat(k)
    BY <1>2, <2>2, AfloatStays
  <2> QED BY <2>1, <2>3, NoneAfloat
<1>10. wallet'[Host] = wallet[Host]
  BY <1>1, <1>5
<1>11. Pool' = Pool /\ PoolHeld'
  BY <1>2, <1>4, <1>10 DEF Pool, PoolHeld, Balance
<1>12. Pool + AllAfloat = owed
  BY <1>4, Balanced DEF Balance
<1>13. Pool' + AllAfloat' = owed'
  BY <1>2, <1>9, <1>11, <1>12
<1> QED BY <1>11, <1>13 DEF Balance, Conservation, AllAfloat, Afloat

(* A connect-push and a load cut every lane, and start the account anew.   *)
LEMMA ReloadBalances ==
    ASSUME TypeOK, TypeOK', Balance, ConnectPush \/ HostLoad PROVE Balance'
<1>1. /\ ~folding /\ folding' = folding /\ up' = [k \in Joins |-> <<>>]
      /\ live' = [k \in Joins |-> FALSE] /\ owed' = wallet'[Host]
  <2>1. CASE ConnectPush
    BY <2>1 DEF ConnectPush, hostVars
  <2>2. CASE HostLoad
    <3>1. wallet'[Host] = InitialCats
      BY <2>2 DEF HostLoad, TypeOK, Players
    <3> QED BY <2>2, <3>1 DEF HostLoad
  <2> QED BY <2>1, <2>2
<1>2. AllAfloat' = 0
  <2>1. ASSUME NEW k \in Joins PROVE Afloat(k)' = 0
    <3>1. InLane(k)' = 0
      BY <1>1, CarriedEmpty, AfloatNext
    <3>2. Unsampled(k)' = 0
      BY <1>1 DEF Unsampled
    <3> QED BY <3>1, <3>2, AfloatNext
  <2> QED BY <2>1, AllGrounded
<1>3. Pool' = owed' /\ wallet'[Host] \in Nat
  BY <1>1 DEF Pool, TypeOK, Players
<1>4. Pool' + AllAfloat' = owed'
  BY <1>1, <1>2, <1>3
<1> QED BY <1>1, <1>4 DEF Balance, Conservation, PoolHeld, AllAfloat, Afloat

LEMMA JoinLiveBalances ==
    ASSUME TypeOK, TypeOK', Balance, NEW j \in Joins, JoinLive(j) PROVE Balance'
<1>1. /\ ~live[j] /\ live' = [live EXCEPT ![j] = TRUE]
      /\ wallet' = [wallet EXCEPT ![j] = baked[j]]
      /\ poolSeen' = [poolSeen EXCEPT ![j] = Unseeded]
      /\ UNCHANGED <<poolTotal, folding, moved, up, refusals, owed>>
  BY DEF JoinLive, hostVars
<1>2. /\ wallet \in [Players -> Nat] /\ poolSeen \in [Players -> Nat \cup {Unseeded}]
      /\ j \in Players /\ Host \in Players /\ j # Host /\ live \in [Joins -> BOOLEAN]
  BY PoolAssumption DEF TypeOK, Players
<1>3. AllAfloat' = AllAfloat
  <2>1. Unsampled(j) = 0 /\ Unsampled(j)' = 0
    BY <1>1, <1>2 DEF Unsampled
  <2>2. Afloat(j)' = Afloat(j)
    BY <1>1, <2>1 DEF Afloat, InLane
  <2>3. \A k \in Joins : k # j => /\ live'[k] = live[k] /\ wallet'[k] = wallet[k]
                                  /\ poolSeen'[k] = poolSeen[k]
    BY <1>1, <1>2 DEF Players
  <2>4. \A k \in Joins : k # j => Afloat(k)' = Afloat(k)
    BY <1>1, <2>3, AfloatStays
  <2> QED BY <2>2, <2>4, NoneAfloat
<1>4. Pool' = Pool /\ PoolHeld'
  BY <1>1, <1>2 DEF Pool, PoolHeld, Balance
<1>5. Conservation'
  BY <1>1, <1>3, <1>4, Balanced DEF Balance, Conservation, AllAfloat, Afloat
<1> QED BY <1>4, <1>5 DEF Balance

LEMMA PoolInit ==
    ASSUME Init, TypeOK PROVE Balance
<1>1. AllAfloat = 0
  <2>1. ASSUME NEW k \in Joins PROVE Afloat(k) = 0
    <3>1. InLane(k) = 0
      <4>1. up[k] = <<>>
        BY DEF Init
      <4> QED BY <4>1, CarriedEmpty, AfloatType
    <3>2. Unsampled(k) = 0
      BY DEF Init, Unsampled, Players
    <3> QED BY <3>1, <3>2 DEF Afloat
  <2> DEFINE f == [k \in Joins |-> Afloat(k)]
  <2>2. IsFiniteSet(Joins) /\ (\A k \in Joins : f[k] = 0)
        /\ AllAfloat = SumFunctionOnSet(f, Joins)
    BY <2>1, PoolAssumption DEF AllAfloat, SumFunction
  <2> HIDE DEF f
  <2> QED BY <2>2, SumOfZeros
<1>2. ~folding /\ Pool = InitialCats /\ owed = InitialCats /\ InitialCats \in Nat
  BY PoolAssumption DEF Init, Pool, Players
<1> QED BY <1>1, <1>2, Balanced DEF Balance, PoolHeld

LEMMA PoolNext ==
    ASSUME TypeOK, TypeOK', Balance, [Next]_vars PROVE Balance'
<1>1. CASE UNCHANGED vars
  <2>1. UNCHANGED <<wallet, poolSeen, poolTotal, folding, moved, up, live, refusals, owed>>
    BY <1>1 DEF vars, hostVars, joinVars
  <2>2. AllAfloat' = AllAfloat /\ Pool' = Pool
    BY <2>1, AfloatStays, NoneAfloat DEF Pool
  <2>3. Conservation'
    BY <2>1, <2>2, Balanced DEF Balance, Conservation, AllAfloat, Afloat
  <2> QED BY <2>1, <2>3 DEF Balance, PoolHeld
<1>2. CASE HostFoldUnreadable
  BY <1>2 DEF HostFoldUnreadable, Balance, Conservation, PoolHeld, TypeOK
<1>3. CASE Next
  BY <1>2, <1>3, PoolTradeBalances, HostPublishBalances, HostFoldBalances,
     HostFinishBalances, JoinTickBalances, ReloadBalances, JoinLiveBalances DEF Next
<1> QED BY <1>1, <1>3

(* MoneyPool.tla's Conservation, docs/API_REFERENCE.md's shared pool, for  *)
(* any number of joins and any trades, ticks, connect-pushes and loads: as *)
(* long as the engine has refused no access to a wallet, the cats the host *)
(* holds and those its joins have moved but the host has yet to fold are   *)
(* together what the save held and the trades since then made of it.       *)
THEOREM PoolConserves == Spec => []Conservation
<1>1. Init /\ TypeOK => Balance
  BY PoolInit
<1>2. TypeOK /\ TypeOK' /\ Balance /\ [Next]_vars => Balance'
  BY PoolNext
<1>3. Balance => Conservation
  BY DEF Balance
<1> QED BY <1>1, <1>2, <1>3, PoolTypeCorrect, PTL DEF Spec

-----------------------------------------------------------------------------
(* InventoryTransfer.  One cell of a table of tables changes.              *)
LEMMA Cell ==
    ASSUME NEW S, NEW T, NEW f \in [S -> [S -> T]], NEW p \in S, NEW q \in S, NEW v
    PROVE  LET g == [f EXCEPT ![p][q] = v]
           IN  /\ g[p][q] = v
               /\ \A r, c \in S : r # p \/ c # q => g[r][c] = f[r][c]
               /\ v \in T => g \in [S -> [S -> T]]
<1> DEFINE g == [f EXCEPT ![p][q] = v]
<1>1. /\ DOMAIN g = S /\ g[p] = [f[p] EXCEPT ![q] = v]
      /\ \A r \in S : r # p => g[r] = f[r]
  OBVIOUS
<1>2. f[p] \in [S -> T] /\ \A r \in S : f[r] \in [S -> T]
  OBVIOUS
<1>3. g[p][q] = v /\ \A c \in S : c # q => g[p][c] = f[p][c]
  BY <1>1, <1>2
<1>4. \A r, c \in S : r # p \/ c # q => g[r][c] = f[r][c]
  BY <1>1, <1>3
<1>5. ASSUME v \in T PROVE g \in [S -> [S -> T]]
  <2>1. g[p] \in [S -> T]
    BY <1>1, <1>2, <1>5
  <2> QED BY <1>1, <1>2, <2>1
<1> QED BY <1>3, <1>4, <1>5

(* A real unit has left one end in p's copies and is at the other.         *)
LEMMA MovedUnits ==
    ASSUME stock \in [Traders -> [Traders -> Nat]], NEW p \in Traders,
           NEW src \in Traders, NEW dst \in Traders, src # dst,
           NEW n \in Nat, n <= stock[p][src], Moved(p, src, dst, n)
    PROVE  /\ stock' \in [Traders -> [Traders -> Nat]]
           /\ stock'[p][src] = stock[p][src] - n /\ stock'[p][dst] = stock[p][dst] + n
           /\ \A r, c \in Traders : r # p \/ c \notin {src, dst} => stock'[r][c] = stock[r][c]
<1> DEFINE f == [stock EXCEPT ![p][src] = stock[p][src] - n]
           g == [f EXCEPT ![p][dst] = f[p][dst] + n]
<1>1. stock[p][src] \in Nat /\ stock[p][dst] \in Nat /\ stock[p][src] - n \in Nat
  OBVIOUS
<1>2. /\ f \in [Traders -> [Traders -> Nat]] /\ f[p][src] = stock[p][src] - n
      /\ \A r, c \in Traders : r # p \/ c # src => f[r][c] = stock[r][c]
  BY <1>1, Cell
<1>3. stock' = g
  BY DEF Moved
<1> HIDE DEF f
<1>4. f[p][dst] + n \in Nat /\ f[p][dst] = stock[p][dst]
  BY <1>1, <1>2
<1>5. /\ g \in [Traders -> [Traders -> Nat]] /\ g[p][dst] = f[p][dst] + n
      /\ \A r, c \in Traders : r # p \/ c # dst => g[r][c] = f[r][c]
  BY <1>2, <1>4, Cell
<1> HIDE DEF g
<1>6. stock'[p][src] = stock[p][src] - n
  BY <1>2, <1>3, <1>5
<1>7. \A r, c \in Traders : r # p \/ c \notin {src, dst} => stock'[r][c] = stock[r][c]
  BY <1>2, <1>3, <1>5
<1> QED BY <1>3, <1>4, <1>5, <1>6, <1>7

Messages == Snapshots \union Verdicts

(* One message is appended to every lane of p that is open.                *)
LEMMA Sent ==
    ASSUME inventory \in [Traders -> [Traders -> Seq(Messages)]], NEW p \in Traders,
           NEW message, \A q \in Traders : message[q] \in Messages, Send(p, message)
    PROVE  /\ inventory' \in [Traders -> [Traders -> Seq(Messages)]]
           /\ \A q \in Others(p) :
                inventory'[p][q] = Append(inventory[p][q], message[q])
           /\ \A r, q \in Traders : r # p \/ q \notin Others(p) =>
                inventory'[r][q] = inventory[r][q]
<1> DEFINE row == [q \in Traders |-> IF q \in Others(p)
                                     THEN Append(inventory[p][q], message[q])
                                     ELSE inventory[p][q]]
<1>1. inventory' = [inventory EXCEPT ![p] = row]
  BY DEF Send
<1>2. row \in [Traders -> Seq(Messages)]
  <2>1. ASSUME NEW q \in Traders PROVE row[q] \in Seq(Messages)
    <3>1. inventory[p][q] \in Seq(Messages) /\ message[q] \in Messages
      OBVIOUS
    <3> QED BY <3>1
  <2> QED BY <2>1
<1>3. Others(p) \subseteq Traders
  BY DEF Others
<1>4. inventory'[p] = row /\ \A r \in Traders : r # p => inventory'[r] = inventory[r]
  BY <1>1
<1>5. \A q \in Others(p) : inventory'[p][q] = Append(inventory[p][q], message[q])
  BY <1>3, <1>4
<1>6. \A r, q \in Traders : r # p \/ q \notin Others(p) => inventory'[r][q] = inventory[r][q]
  BY <1>4
<1>7. inventory' \in [Traders -> [Traders -> Seq(Messages)]]
  BY <1>1, <1>2
<1> QED BY <1>5, <1>6, <1>7

(* What the drags of p are, by their ids below n.                          *)
DragOk(p, x) ==
    /\ x \in Drags /\ (x.src = p) # (x.dst = p) /\ x.verdict <= x.qty
    /\ x.peer \in {Peer(p, x), Unknown}
DragsOk(p, out, n) ==
    /\ out = [i \in DOMAIN out |-> out[i]] /\ DOMAIN out \subseteq 1 .. n - 1
    /\ \A i \in DOMAIN out : DragOk(p, out[i])
DragTypes ==
    /\ DOMAIN xferOut = Traders
    /\ \A p \in Traders : DragsOk(p, xferOut[p], nextXferId[p])
LatchTypes ==
    /\ xferLatch \in [Traders -> SUBSET Traders]
    /\ delta \in [Traders -> [Traders -> Int]]
    /\ \A p, c \in Traders : c \notin xferLatch[p] => delta[p][c] = 0
SnapshotTypes ==
    /\ inventory \in [Traders -> [Traders -> Seq(Messages)]]
    /\ received \in [Traders -> SUBSET Verdicts]
    /\ invRecv \in [Traders -> [Traders -> Received]]
    /\ deferred \in [Traders -> BOOLEAN]
StockTypes ==
    /\ online \subseteq Session /\ HostPlayer \in online
    /\ stock \in [Traders -> [Traders -> Nat]]
    /\ events \in [found : Nat, spent : Nat, left : Nat]
IntentTypes ==
    /\ nextXferId \in [Traders -> Nat \ {0}]
    /\ intents \in [Traders -> [Traders -> Seq(Intents)]]

LEMMA TypesSplit ==
    TradeTypes <=> StockTypes /\ IntentTypes /\ DragTypes /\ LatchTypes /\ SnapshotTypes
<1>1. DragTypes <=> /\ DOMAIN xferOut = Traders
                    /\ \A p \in Traders : /\ xferOut[p] \in [Out(p) -> Drags]
                                          /\ Out(p) \subseteq 1 .. nextXferId[p] - 1
                    /\ \A p \in Traders : \A i \in Out(p) :
                          LET x == xferOut[p][i]
                          IN  /\ (x.src = p) # (x.dst = p) /\ x.verdict <= x.qty
                              /\ x.peer \in {Peer(p, x), Unknown}
  <2>1. \A p : xferOut[p] \in [Out(p) -> Drags] <=>
                 /\ xferOut[p] = [i \in DOMAIN xferOut[p] |-> xferOut[p][i]]
                 /\ \A i \in Out(p) : xferOut[p][i] \in Drags
    BY DEF Out
  <2> QED BY Zenon, <2>1 DEF DragTypes, DragsOk, DragOk, Out
<1> QED
  BY <1>1 DEF TradeTypes, StockTypes, IntentTypes, LatchTypes, SnapshotTypes, Messages

LEMMA TypesSplitNext ==
    TradeTypes' <=> StockTypes' /\ IntentTypes' /\ DragTypes' /\ LatchTypes' /\ SnapshotTypes'
BY TypesSplit, PTL

(* What a drag does, its ends being p's own and a peer's.                  *)
EndsAre(p, peer, src, dst) == (src = p /\ dst = peer) \/ (src = peer /\ dst = p)
NewDrag(p, peer, src, dst, q) ==
    [src |-> src, dst |-> dst, qty |-> q,
     peer |-> IF invRecv[p][peer].seen THEN peer ELSE Unknown,
     verdict |-> -1, retired |-> FALSE]
NewIntent(i, src, dst, q) == [id |-> i, src |-> src, dst |-> dst, qty |-> q]

LEMMA OtherTrader ==
    ASSUME NEW p, NEW q \in Others(p) PROVE q \in Traders /\ q # p /\ q \in online
BY DEF Others

DragDone(p, peer, src, dst, q) ==
    /\ q <= stock[p][src] /\ ~Reserved(p, src) /\ Moved(p, src, dst, q)
    /\ DOMAIN xferOut' = Traders /\ \A r \in Traders : r # p => xferOut'[r] = xferOut[r]
    /\ DOMAIN xferOut'[p] = Out(p) \union {nextXferId[p]}
    /\ xferOut'[p] = [k \in DOMAIN xferOut'[p] |-> xferOut'[p][k]]
    /\ xferOut'[p][nextXferId[p]] = NewDrag(p, peer, src, dst, q)
    /\ nextXferId[p] \notin Out(p)
    /\ \A k \in Out(p) : xferOut'[p][k] = xferOut[p][k]
    /\ nextXferId' = [nextXferId EXCEPT ![p] = nextXferId[p] + 1]
    /\ intents'[p][peer] = Append(intents[p][peer], NewIntent(nextXferId[p], src, dst, q))
    /\ \A r, c \in Traders : r # p \/ c # peer => intents'[r][c] = intents[r][c]
    /\ UNCHANGED <<online, received, inventory, invRecv, deferred, events>>

LEMMA DragIs ==
    ASSUME NEW p \in Traders, NEW peer \in Others(p), NEW src, NEW dst,
           EndsAre(p, peer, src, dst), NEW q \in Nat \ {0}, IntentTypes, DragTypes,
           detectAndPublishTransfers(p, peer, src, dst, q)
    PROVE  DragDone(p, peer, src, dst, q)
<1> DEFINE i == nextXferId[p]
           x == NewDrag(p, peer, src, dst, q)
           e == NewIntent(i, src, dst, q)
<1>1. /\ q <= stock[p][src] /\ ~Reserved(p, src) /\ Moved(p, src, dst, q)
      /\ xferOut' = [xferOut EXCEPT ![p] =
                      [k \in Out(p) \union {i} |-> IF k = i THEN x ELSE xferOut[p][k]]]
      /\ nextXferId' = [nextXferId EXCEPT ![p] = i + 1]
      /\ intents' = [intents EXCEPT ![p][peer] = Append(intents[p][peer], e)]
      /\ UNCHANGED <<online, received, inventory, invRecv, deferred, events>>
  BY DEF detectAndPublishTransfers, NewDrag, NewIntent, snapshots
<1>2. peer \in Traders /\ i \in Nat \ {0} /\ Out(p) \subseteq 1 .. i - 1
  BY OtherTrader DEF IntentTypes, DragTypes, DragsOk, Out
<1>3. i \notin Out(p)
  BY <1>2
<1> HIDE DEF x, e
<1>5. /\ DOMAIN xferOut' = Traders
      /\ xferOut'[p] = [k \in Out(p) \union {i} |-> IF k = i THEN x ELSE xferOut[p][k]]
      /\ \A r \in Traders : r # p => xferOut'[r] = xferOut[r]
  BY <1>1 DEF DragTypes
<1>6. /\ intents'[p][peer] = Append(intents[p][peer], e)
      /\ \A r, c \in Traders : r # p \/ c # peer => intents'[r][c] = intents[r][c]
  BY <1>1, <1>2, Cell DEF IntentTypes
<1>7. /\ DOMAIN xferOut'[p] = Out(p) \union {i} /\ xferOut'[p][i] = x
      /\ xferOut'[p] = [k \in DOMAIN xferOut'[p] |-> xferOut'[p][k]]
      /\ \A k \in Out(p) : xferOut'[p][k] = xferOut[p][k]
  BY <1>3, <1>5
<1> QED BY <1>1, <1>3, <1>5, <1>6, <1>7 DEF x, e, DragDone

LEMMA DragTyped ==
    ASSUME TradeTypes, NEW p \in Traders, NEW peer \in Others(p), NEW src, NEW dst,
           EndsAre(p, peer, src, dst), NEW q \in Nat \ {0},
           detectAndPublishTransfers(p, peer, src, dst, q)
    PROVE  TradeTypes'
<1> DEFINE i == nextXferId[p]
           x == NewDrag(p, peer, src, dst, q)
           e == NewIntent(i, src, dst, q)
<1>1. peer \in Traders /\ peer # p /\ src \in Traders /\ dst \in Traders /\ src # dst
  BY OtherTrader DEF EndsAre
<1>2. StockTypes /\ IntentTypes /\ DragTypes /\ LatchTypes /\ SnapshotTypes
  BY TypesSplit
<1>20. DragDone(p, peer, src, dst, q)
  BY <1>2, DragIs
<1>3. i \in Nat \ {0} /\ e \in Intents
  BY <1>1, <1>2 DEF IntentTypes, NewIntent, Intents
<1>4. DragOk(p, x)
  BY <1>1 DEF DragOk, NewDrag, Drags, EndsAre, Peer
<1>5. StockTypes'
  BY <1>1, <1>2, <1>20, MovedUnits DEF DragDone, StockTypes
<1>6. IntentTypes'
  <2>1. intents[p][peer] \in Seq(Intents)
    BY <1>1, <1>2 DEF IntentTypes
  <2>2. Append(intents[p][peer], e) \in Seq(Intents)
    BY <1>3, <2>1
  <2>3. intents' = [intents EXCEPT ![p][peer] = Append(intents[p][peer], e)]
    BY DEF detectAndPublishTransfers, NewIntent
  <2>4. intents' \in [Traders -> [Traders -> Seq(Intents)]]
    <3> HIDE DEF e
    <3> QED BY <1>1, <1>2, <2>2, <2>3, Cell DEF IntentTypes
  <2> QED BY <1>2, <1>3, <2>4, <1>20 DEF DragDone, IntentTypes
<1>7. DragTypes'
  <2>1. DragsOk(p, xferOut'[p], nextXferId'[p])
    <3>1. nextXferId'[p] = i + 1 /\ DragsOk(p, xferOut[p], i)
      BY <1>2, <1>20 DEF DragDone, IntentTypes, DragTypes
    <3>2. DOMAIN xferOut'[p] \subseteq 1 .. (i + 1) - 1
      <4>1. Out(p) \subseteq 1 .. i - 1
        BY <3>1 DEF DragsOk, Out
      <4> QED BY <1>2, <1>3, <4>1, <1>20 DEF DragDone
    <3>3. \A k \in DOMAIN xferOut'[p] : DragOk(p, xferOut'[p][k])
      BY <1>2, <1>4, <3>1, <1>20 DEF DragDone, DragsOk, Out
    <3> QED BY <1>2, <3>1, <3>2, <3>3, <1>20 DEF DragDone, DragsOk
  <2>2. \A r \in Traders : r # p =>
            xferOut'[r] = xferOut[r] /\ nextXferId'[r] = nextXferId[r]
    BY <1>2, <1>20 DEF DragDone, IntentTypes
  <2> QED BY <1>2, <2>1, <2>2, <1>20 DEF DragDone, DragTypes
<1>8. LatchTypes'
  <2> DEFINE d == delta[p][peer] + Gain(p, x)
  <2>1. Gain(p, x) \in Int /\ delta[p][peer] \in Int
    BY <1>1, <1>2 DEF Gain, NewDrag, LatchTypes
  <2>2. /\ delta' = [delta EXCEPT ![p][peer] = d]
        /\ xferLatch' = [xferLatch EXCEPT ![p] =
                            IF d = 0 THEN xferLatch[p] \ {peer} ELSE xferLatch[p] \union {peer}]
    BY DEF detectAndPublishTransfers, NewDrag
  <2>3. d \in Int
    BY <2>1
  <2> HIDE DEF d
  <2>4. /\ delta' \in [Traders -> [Traders -> Int]] /\ delta'[p][peer] = d
        /\ \A r, c \in Traders : r # p \/ c # peer => delta'[r][c] = delta[r][c]
    BY <1>1, <1>2, <2>2, <2>3, Cell DEF LatchTypes
  <2>5. xferLatch' \in [Traders -> SUBSET Traders]
    BY <1>1, <1>2, <2>2 DEF LatchTypes
  <2>6. ASSUME NEW r \in Traders, NEW c \in Traders, c \notin xferLatch'[r]
        PROVE  delta'[r][c] = 0
    BY <1>1, <1>2, <2>2, <2>4, <2>6 DEF LatchTypes
  <2> QED BY <2>4, <2>5, <2>6 DEF LatchTypes
<1>9. SnapshotTypes'
  BY <1>2, <1>20 DEF DragDone, SnapshotTypes
<1> QED BY <1>5, <1>6, <1>7, <1>8, <1>9, TypesSplitNext

(* A lane of intents from p to q, p's drags being out and its next id n:   *)
(* an intent asks for a drag of p's that no verdict has answered, and as   *)
(* long as all are there the drag is still out.  The ids grow.             *)
Asks(e, x) == x.src = e.src /\ x.dst = e.dst /\ x.qty = e.qty /\ x.verdict = -1
AskedOk(p, q, e, out, n, all) ==
    /\ EndsAre(p, q, e.src, e.dst) /\ e.id \in 1 .. n - 1
    /\ e.id \in DOMAIN out => Asks(e, out[e.id])
    /\ all => e.id \in DOMAIN out
IntentLane(p, q, lane, out, n, all) ==
    /\ lane # <<>> => p # q
    /\ \A k \in 1 .. Len(lane) :
          /\ AskedOk(p, q, lane[k], out, n, all)
          /\ \A l \in 1 .. Len(lane) : k < l => lane[k].id < lane[l].id
IntentsOf(p) ==
    \A q \in Traders :
        IntentLane(p, q, intents[p][q], xferOut[p], nextXferId[p], online = Session)
IntentsInv == \A p \in Traders : IntentsOf(p)

(* A verdict for p answers a drag that has none yet, of an intent that has *)
(* left its lane, and does not exceed it.                                  *)
Fits(p, m, asked, out, n) ==
    /\ m.of # p /\ m.id \in 1 .. n - 1
    /\ m.id \in DOMAIN out => /\ Peer(p, out[m.id]) = m.of /\ out[m.id].verdict = -1
                              /\ m.moved <= out[m.id].qty
    /\ \A l \in 1 .. Len(asked) : m.id < asked[l].id
Before(m, lane) ==
    \A k \in 1 .. Len(lane) : lane[k].kind = "verdict" => m.id < lane[k].id
VerdictLane(p, q, lane, asked, out, n) ==
    \A k \in 1 .. Len(lane) : lane[k].kind = "verdict" =>
        /\ lane[k].of = q /\ Fits(p, lane[k], asked, out, n)
        /\ \A l \in 1 .. Len(lane) :
              k < l /\ lane[l].kind = "verdict" => lane[k].id < lane[l].id
VerdictsOf(p) ==
    \A q \in Traders :
        VerdictLane(p, q, inventory[q][p], intents[p][q], xferOut[p], nextXferId[p])
ReceivedOf(p) ==
    \A m \in received[p] :
        /\ Fits(p, m, intents[p][m.of], xferOut[p], nextXferId[p])
        /\ Before(m, inventory[m.of][p])
        /\ \A o \in received[p] : o.of = m.of /\ o.id = m.id => o = m
VerdictsInv == \A p \in Traders : VerdictsOf(p)
ReceivedInv == \A p \in Traders : ReceivedOf(p)

TradeInv == TradeTypes /\ IntentsInv /\ VerdictsInv /\ ReceivedInv

-----------------------------------------------------------------------------
LEMMA GameTyped ==
    ASSUME TradeTypes, NEW p \in Traders, Find(p) \/ Spend(p) PROVE TradeTypes'
<1>1. StockTypes /\ IntentTypes /\ DragTypes /\ LatchTypes /\ SnapshotTypes
  BY TypesSplit
<1>2. UNCHANGED <<online, xferOut, nextXferId, intents, xferLatch, delta, received,
                  inventory, invRecv, deferred>>
  BY DEF Find, Spend, trading, latches, snapshots
<1>3. StockTypes'
  <2>1. CASE Find(p)
    <3>1. stock[p][p] + 1 \in Nat /\ events' \in [found : Nat, spent : Nat, left : Nat]
      BY <1>1, <2>1 DEF StockTypes, Find
    <3>2. stock' \in [Traders -> [Traders -> Nat]]
      BY <1>1, <2>1, <3>1, Cell DEF StockTypes, Find
    <3> QED BY <1>1, <1>2, <3>1, <3>2 DEF StockTypes
  <2>2. CASE Spend(p)
    <3>1. stock[p][p] - 1 \in Nat /\ events' \in [found : Nat, spent : Nat, left : Nat]
      BY <1>1, <2>2 DEF StockTypes, Spend
    <3>2. stock' \in [Traders -> [Traders -> Nat]]
      BY <1>1, <2>2, <3>1, Cell DEF StockTypes, Spend
    <3> QED BY <1>1, <1>2, <3>1, <3>2 DEF StockTypes
  <2> QED BY <2>1, <2>2
<1>4. IntentTypes' /\ DragTypes' /\ LatchTypes' /\ SnapshotTypes'
  BY <1>1, <1>2 DEF IntentTypes, DragTypes, LatchTypes, SnapshotTypes
<1> QED BY <1>3, <1>4, TypesSplitNext

(* What taking the head of q's intents does, n of its units being moved.   *)
TakenDone(p, q, x, n) ==
    /\ q \in Others(p) /\ intents[q][p] # <<>> /\ x = Head(intents[q][p])
    /\ n \in 0 .. x.qty /\ n <= stock[p][x.src] /\ (Reserved(p, x.src) => n = 0)
    /\ Moved(p, x.src, x.dst, n)
    /\ intents'[q][p] = Tail(intents[q][p])
    /\ \A r, c \in Traders : r # q \/ c # p => intents'[r][c] = intents[r][c]
    /\ \E m \in Verdicts :
          /\ m.kind = "verdict" /\ m.of = p /\ m.id = x.id /\ m.moved = n
          /\ inventory'[p][q] = Append(inventory[p][q], m)
    /\ \A r \in Others(p) \ {q} : \E m \in Snapshots :
          m.kind = "snapshot" /\ inventory'[p][r] = Append(inventory[p][r], m)
    /\ \A r, c \in Traders : r # p \/ c \notin Others(p) => inventory'[r][c] = inventory[r][c]
    /\ UNCHANGED <<online, xferOut, nextXferId, received, invRecv, events>>
    /\ x \in Intents /\ EndsAre(q, p, x.src, x.dst)

LEMMA TakenIs ==
    ASSUME TradeTypes, IntentsInv, NEW p \in Traders, NEW q \in Others(p), applyTransfers(p, q)
    PROVE  TradeTypes' /\ \E x, n : TakenDone(p, q, x, n)
<1> DEFINE x == Head(intents[q][p])
<1>1. StockTypes /\ IntentTypes /\ DragTypes /\ LatchTypes /\ SnapshotTypes
  BY TypesSplit
<1>2. q \in Traders /\ q # p
  BY OtherTrader
<1>3. intents[q][p] # <<>> /\ intents[q][p] \in Seq(Intents)
  BY <1>1, <1>2 DEF applyTransfers, IntentTypes
<1>4. x \in Intents /\ x = intents[q][p][1] /\ 1 \in 1 .. Len(intents[q][p])
  BY <1>3
<1>5. EndsAre(q, p, x.src, x.dst)
  BY <1>2, <1>4 DEF IntentsInv, IntentsOf, IntentLane, AskedOk
<1>6. PICK n \in 0 .. x.qty : n <= stock[p][x.src] /\ (Reserved(p, x.src) => n = 0)
                              /\ Taken(p, q, x, n)
  BY DEF applyTransfers
<1> HIDE DEF x
<1>7. /\ x.src \in Traders /\ x.dst \in Traders /\ x.src # x.dst /\ n \in Nat
      /\ x.qty \in Nat /\ x.id \in Nat
  BY <1>2, <1>4, <1>5 DEF EndsAre, Intents
<1>8. /\ Moved(p, x.src, x.dst, n)
      /\ IF n = 0 THEN UNCHANGED latches
         ELSE /\ xferLatch' = [xferLatch EXCEPT ![p] = xferLatch[p] \union {q}]
              /\ delta' = [delta EXCEPT ![p][q] =
                              IF x.src = q THEN delta[p][q] - n ELSE delta[p][q] + n]
      /\ Judge(p, q, x, n)
      /\ intents' = [intents EXCEPT ![q][p] = Tail(intents[q][p])]
      /\ UNCHANGED <<online, xferOut, nextXferId, received, invRecv, events>>
  BY <1>6 DEF Taken, queueXferVerdict
<1>9. StockTypes'
  BY <1>1, <1>6, <1>7, <1>8, MovedUnits DEF StockTypes
<1>10. Tail(intents[q][p]) \in Seq(Intents)
  BY <1>3
<1>11. /\ intents'[q][p] = Tail(intents[q][p])
       /\ \A r, c \in Traders : r # q \/ c # p => intents'[r][c] = intents[r][c]
       /\ intents' \in [Traders -> [Traders -> Seq(Intents)]]
  BY <1>1, <1>2, <1>8, <1>10, Cell DEF IntentTypes
<1>12. LatchTypes'
  <2>1. CASE n = 0
    BY <1>1, <1>8, <2>1 DEF LatchTypes, latches
  <2>2. CASE n # 0
    <3> DEFINE d == IF x.src = q THEN delta[p][q] - n ELSE delta[p][q] + n
    <3>1. d \in Int
      BY <1>1, <1>2, <1>7 DEF LatchTypes
    <3>2. delta' = [delta EXCEPT ![p][q] = d]
      BY <1>8, <2>2
    <3> HIDE DEF d
    <3>3. /\ delta' \in [Traders -> [Traders -> Int]]
          /\ \A r, c \in Traders : r # p \/ c # q => delta'[r][c] = delta[r][c]
      BY <1>1, <1>2, <3>1, <3>2, Cell DEF LatchTypes
    <3>4. /\ xferLatch' \in [Traders -> SUBSET Traders]
          /\ xferLatch'[p] = xferLatch[p] \union {q}
          /\ \A r \in Traders : r # p => xferLatch'[r] = xferLatch[r]
      BY <1>1, <1>2, <1>8, <2>2 DEF LatchTypes
    <3> QED BY <1>1, <3>3, <3>4 DEF LatchTypes
  <2> QED BY <2>1, <2>2
<1> DEFINE pending == inventoryCommitPending(p)
           units == IF pending THEN 0 ELSE stock'[p][p]
           message == [r \in Traders |-> IF r = q THEN Verdict(p, units, pending, x.id, n)
                                         ELSE Snapshot(p, units, pending)]
<1>13. pending \in BOOLEAN /\ units \in Nat
  BY <1>9 DEF StockTypes, inventoryCommitPending
<1>14. Send(p, message) /\ deferred' = [deferred EXCEPT ![p] = deferred[p] \/ pending]
  BY <1>8 DEF Judge
<1> HIDE DEF pending, units
<1>15. Verdict(p, units, pending, x.id, n) \in Verdicts
  BY <1>7, <1>13 DEF Verdict, Verdicts
<1>16. Snapshot(p, units, pending) \in Snapshots
  BY <1>13 DEF Snapshot, Snapshots
<1>17. \A r \in Traders : message[r] \in Messages
  BY <1>15, <1>16 DEF Messages
<1>18. message[q] = Verdict(p, units, pending, x.id, n)
       /\ \A r \in Others(p) \ {q} : message[r] = Snapshot(p, units, pending)
  BY <1>2, OtherTrader
<1> HIDE DEF message
<1>19. /\ inventory' \in [Traders -> [Traders -> Seq(Messages)]]
       /\ \A r \in Others(p) : inventory'[p][r] = Append(inventory[p][r], message[r])
       /\ \A r, c \in Traders : r # p \/ c \notin Others(p) =>
            inventory'[r][c] = inventory[r][c]
  BY <1>1, <1>14, <1>17, Sent DEF SnapshotTypes
<1>20. SnapshotTypes'
  BY <1>1, <1>8, <1>13, <1>14, <1>19 DEF SnapshotTypes
<1>21. IntentTypes' /\ DragTypes'
  BY <1>1, <1>8, <1>11 DEF IntentTypes, DragTypes
<1>22. \E m \in Verdicts :
          /\ m.kind = "verdict" /\ m.of = p /\ m.id = x.id /\ m.moved = n
          /\ inventory'[p][q] = Append(inventory[p][q], m)
  BY <1>15, <1>18, <1>19 DEF Verdict
<1>23. \A r \in Others(p) \ {q} : \E m \in Snapshots :
          m.kind = "snapshot" /\ inventory'[p][r] = Append(inventory[p][r], m)
  BY <1>16, <1>18, <1>19 DEF Snapshot
<1>24. TakenDone(p, q, x, n)
  BY <1>3, <1>4, <1>5, <1>6, <1>8, <1>11, <1>19, <1>22, <1>23 DEF TakenDone, x
<1> QED BY <1>9, <1>12, <1>20, <1>21, <1>24, TypesSplitNext

LEMMA IngestTyped ==
    ASSUME TradeTypes, NEW p \in Traders, NEW q \in Others(p), ingestInv(p, q)
    PROVE  TradeTypes'
<1> DEFINE m == Head(inventory[q][p])
           got == [seen |-> TRUE, units |-> m.units, truncated |-> m.truncated, dirty |-> TRUE]
<1>1. StockTypes /\ IntentTypes /\ DragTypes /\ LatchTypes /\ SnapshotTypes
  BY TypesSplit
<1>2. q \in Traders /\ q # p
  BY OtherTrader
<1>3. inventory[q][p] # <<>> /\ inventory[q][p] \in Seq(Messages)
  BY <1>1, <1>2 DEF ingestInv, SnapshotTypes
<1>4. m \in Messages /\ Tail(inventory[q][p]) \in Seq(Messages)
  BY <1>3
<1>5. /\ inventory' = [inventory EXCEPT ![q][p] = Tail(inventory[q][p])]
      /\ invRecv' = [invRecv EXCEPT ![p][q] = got]
      /\ received' = IF m.kind = "snapshot" THEN received
                     ELSE [received EXCEPT ![p] = received[p] \union {m}]
      /\ UNCHANGED <<online, stock, xferOut, nextXferId, intents, xferLatch, delta, deferred,
                     events>>
  BY DEF ingestInv, trading, latches
<1> HIDE DEF m
<1>6. got \in Received
  BY <1>4 DEF Received, Messages, Snapshots, Verdicts
<1> HIDE DEF got
<1>7. inventory' \in [Traders -> [Traders -> Seq(Messages)]]
  BY <1>1, <1>2, <1>4, <1>5, Cell DEF SnapshotTypes
<1>8. invRecv' \in [Traders -> [Traders -> Received]]
  BY <1>1, <1>2, <1>5, <1>6, Cell DEF SnapshotTypes
<1>9. received' \in [Traders -> SUBSET Verdicts]
  <2>1. m.kind # "snapshot" => m \in Verdicts
    BY <1>4 DEF Messages, Snapshots
  <2> QED BY <1>1, <1>5, <2>1 DEF SnapshotTypes
<1>10. SnapshotTypes'
  BY <1>1, <1>5, <1>7, <1>8, <1>9 DEF SnapshotTypes
<1>11. StockTypes' /\ IntentTypes' /\ DragTypes' /\ LatchTypes'
  BY <1>1, <1>5 DEF StockTypes, IntentTypes, DragTypes, LatchTypes
<1> QED BY <1>10, <1>11, TypesSplitNext

(* The verdicts that p holds against a drag of its own.                    *)
Against(p, i) == {m \in received[p] : AnswersTo(p, m, i)}

LEMMA JudgedIs ==
    ASSUME TradeTypes, ReceivedInv, NEW p \in Traders, NEW i \in Out(p)
    PROVE  /\ DragOk(p, xferOut[p][i]) /\ DragOk(p, Judged(p, i))
           /\ Against(p, i) = {} => Judged(p, i) = xferOut[p][i]
           /\ \A m \in Against(p, i) :
                /\ m \in received[p] /\ m.id = i /\ xferOut[p][i].verdict = -1
                /\ m.of = Peer(p, xferOut[p][i])
                /\ Judged(p, i) = [xferOut[p][i] EXCEPT !.verdict = m.moved]
                /\ m.moved \in Nat /\ m.moved <= xferOut[p][i].qty
<1> DEFINE x == xferOut[p][i]
<1>1. DragOk(p, x) /\ received[p] \subseteq Verdicts
  BY TypesSplit DEF DragTypes, DragsOk, Out, SnapshotTypes
<1>2. Judged(p, i) = IF Against(p, i) = {} THEN x
                     ELSE [x EXCEPT !.verdict = (CHOOSE m \in Against(p, i) : TRUE).moved]
  BY DEF Judged, Against
<1>3. ASSUME NEW m \in Against(p, i)
      PROVE  /\ m \in received[p] /\ m.id = i /\ x.verdict = -1 /\ m.of = Peer(p, x)
             /\ m.moved \in Nat /\ m.moved <= x.qty
  <2>1. m \in received[p] /\ m.id = i /\ x.verdict = -1 /\ m.of = Peer(p, x)
    <3>1. /\ m \in received[p] /\ m.id = i /\ x.verdict = -1
          /\ m.of = IF x.peer = Unknown THEN Peer(p, x) ELSE x.peer
      BY DEF Against, AnswersTo
    <3> QED BY <1>1, <3>1 DEF DragOk
  <2>2. m.moved \in Nat
    BY <1>1, <2>1 DEF Verdicts
  <2>3. Fits(p, m, intents[p][m.of], xferOut[p], nextXferId[p])
    BY <2>1 DEF ReceivedInv, ReceivedOf
  <2> QED BY <2>1, <2>2, <2>3 DEF Fits, Out
<1>4. \A m, o \in Against(p, i) : m = o
  BY <1>3 DEF ReceivedInv, ReceivedOf
<1>5. ASSUME NEW m \in Against(p, i) PROVE Judged(p, i) = [x EXCEPT !.verdict = m.moved]
  <2>1. (CHOOSE o \in Against(p, i) : TRUE) = m
    BY <1>4
  <2> QED BY <1>2, <2>1
<1>6. ASSUME NEW m \in Against(p, i) PROVE DragOk(p, [x EXCEPT !.verdict = m.moved])
  <2>1. m.moved \in Nat /\ m.moved <= x.qty
    BY <1>3
  <2> QED BY <1>1, <2>1 DEF DragOk, Drags, Peer
<1>7. DragOk(p, Judged(p, i))
  BY <1>1, <1>2, <1>5, <1>6
<1> QED BY <1>1, <1>2, <1>3, <1>5, <1>7

LEMMA AcksTyped ==
    ASSUME TradeTypes, ReceivedInv, NEW p \in Traders, applyXferAcks(p) PROVE TradeTypes'
<1>1. StockTypes /\ IntentTypes /\ DragTypes /\ LatchTypes /\ SnapshotTypes
  BY TypesSplit
<1>2. /\ received' = [received EXCEPT ![p] = {}]
      /\ xferOut' = [xferOut EXCEPT ![p] = [i \in Out(p) |-> Judged(p, i)]]
      /\ UNCHANGED <<online, stock, nextXferId, intents, xferLatch, delta, inventory, invRecv,
                     deferred, events>>
  BY DEF applyXferAcks, latches, snapshots
<1>3. DragTypes'
  <2>1. /\ DOMAIN xferOut' = Traders /\ xferOut'[p] = [i \in Out(p) |-> Judged(p, i)]
        /\ \A r \in Traders : r # p => xferOut'[r] = xferOut[r]
    BY <1>1, <1>2 DEF DragTypes
  <2>2. DragsOk(p, xferOut'[p], nextXferId[p])
    <3>1. DOMAIN xferOut'[p] = Out(p) /\ Out(p) \subseteq 1 .. nextXferId[p] - 1
      BY <1>1, <2>1 DEF DragTypes, DragsOk, Out
    <3>2. xferOut'[p] = [i \in DOMAIN xferOut'[p] |-> xferOut'[p][i]]
      BY <2>1
    <3>3. \A i \in Out(p) : DragOk(p, xferOut'[p][i])
      BY <2>1, JudgedIs
    <3> QED BY <3>1, <3>2, <3>3 DEF DragsOk
  <2> QED BY <1>1, <1>2, <2>1, <2>2 DEF DragTypes
<1>4. StockTypes' /\ IntentTypes' /\ LatchTypes' /\ SnapshotTypes'
  BY <1>1, <1>2 DEF StockTypes, IntentTypes, LatchTypes, SnapshotTypes
<1> QED BY <1>3, <1>4, TypesSplitNext

(* What settling drag i of p does.                                         *)
SettledDone(p, i, x) ==
    /\ i \in Out(p) /\ x = xferOut[p][i] /\ x \in Drags /\ x.verdict \in Nat
    /\ x.src \in Traders /\ x.dst \in Traders /\ x.src # x.dst
    /\ x.qty - x.verdict \in Nat /\ x.qty - x.verdict <= stock[p][x.dst]
    /\ Moved(p, x.dst, x.src, x.qty - x.verdict)
    /\ DOMAIN xferOut' = Traders /\ \A r \in Traders : r # p => xferOut'[r] = xferOut[r]
    /\ xferOut'[p] = [k \in Out(p) \ {i} |-> xferOut[p][k]]
    /\ UNCHANGED <<online, nextXferId, intents, inventory, received, deferred, events>>

LEMMA SettleIs ==
    ASSUME TradeTypes, NEW p \in Traders, SettleDrag(p)
    PROVE  TradeTypes' /\ \E i, x : SettledDone(p, i, x)
<1>1. StockTypes /\ IntentTypes /\ DragTypes /\ LatchTypes /\ SnapshotTypes
  BY TypesSplit
<1>2. PICK i \in Out(p) :
         LET x == xferOut[p][i]
             refused == x.qty - x.verdict
             peer == Peer(p, x)
         IN  /\ received[p] = {} /\ x.verdict >= 0 /\ ~x.retired
             /\ stock[p][x.dst] >= refused
             /\ Moved(p, x.dst, x.src, refused)
             /\ Released(p, peer, -Gain(p, x))
             /\ invRecv' = [invRecv EXCEPT ![p][peer].dirty = invRecv[p][peer].seen]
             /\ xferOut' = [xferOut EXCEPT ![p] = Restrict(@, Out(p) \ {i})]
             /\ UNCHANGED <<online, nextXferId, intents, inventory, received, deferred, events>>
  BY DEF SettleDrag
<1> DEFINE x == xferOut[p][i]
           refused == x.qty - x.verdict
           peer == Peer(p, x)
<1>3. DragOk(p, x) /\ DragsOk(p, xferOut[p], nextXferId[p])
  BY <1>1 DEF DragTypes, DragsOk, Out
<1>4. /\ x \in Drags /\ x.src \in Traders /\ x.dst \in Traders /\ x.src # x.dst
      /\ peer \in Traders /\ peer # p
  BY <1>3 DEF DragOk, Drags, Peer
<1>5. x.verdict \in Nat /\ refused \in Nat /\ refused <= stock[p][x.dst]
  <2>1. stock[p][x.dst] \in Nat
    BY <1>1, <1>4 DEF StockTypes
  <2>2. x.qty \in Nat /\ x.verdict \in Nat \union {-1} /\ x.verdict <= x.qty
    BY <1>3 DEF DragOk, Drags
  <2>3. x.verdict \in Nat
    BY <1>2, <2>2
  <2> QED BY <1>2, <2>1, <2>2, <2>3
<1>6. /\ Moved(p, x.dst, x.src, refused) /\ Released(p, peer, -Gain(p, x))
      /\ invRecv' = [invRecv EXCEPT ![p][peer].dirty = invRecv[p][peer].seen]
      /\ xferOut' = [xferOut EXCEPT ![p] = [k \in Out(p) \ {i} |-> xferOut[p][k]]]
      /\ UNCHANGED <<online, nextXferId, intents, inventory, received, deferred, events>>
  BY <1>2 DEF Restrict
<1>7. Gain(p, x) \in Int
  BY <1>4 DEF Gain, Drags
<1> HIDE DEF x, refused, peer
<1>8. StockTypes'
  BY <1>1, <1>4, <1>5, <1>6, MovedUnits DEF StockTypes
<1>9. LatchTypes'
  <2> DEFINE sum == delta[p][peer] + (-Gain(p, x))
  <2>1. CASE peer \notin xferLatch[p]
    BY <1>1, <1>6, <2>1 DEF LatchTypes, Released, latches
  <2>2. CASE peer \in xferLatch[p]
    <3>1. /\ delta' = [delta EXCEPT ![p][peer] = sum]
          /\ xferLatch' = [xferLatch EXCEPT ![p] =
                              IF sum = 0 THEN xferLatch[p] \ {peer} ELSE xferLatch[p]]
      BY <1>6, <2>2 DEF Released
    <3>2. sum \in Int
      BY <1>1, <1>4, <1>7 DEF LatchTypes
    <3> HIDE DEF sum
    <3>3. /\ delta' \in [Traders -> [Traders -> Int]] /\ delta'[p][peer] = sum
          /\ \A r, c \in Traders : r # p \/ c # peer => delta'[r][c] = delta[r][c]
      BY <1>1, <1>4, <3>1, <3>2, Cell DEF LatchTypes
    <3>4. xferLatch' \in [Traders -> SUBSET Traders]
      BY <1>1, <3>1 DEF LatchTypes
    <3>5. ASSUME NEW r \in Traders, NEW c \in Traders, c \notin xferLatch'[r]
          PROVE  delta'[r][c] = 0
      BY <1>1, <1>4, <2>2, <3>1, <3>3, <3>5 DEF LatchTypes
    <3> QED BY <3>3, <3>4, <3>5 DEF LatchTypes
  <2> QED BY <2>1, <2>2
<1>10. SnapshotTypes'
  <2>1. invRecv[p][peer] \in Received
    BY <1>1, <1>4 DEF SnapshotTypes
  <2> DEFINE v == [invRecv[p][peer] EXCEPT !.dirty = invRecv[p][peer].seen]
  <2>2. v \in Received
    BY <2>1 DEF Received
  <2>3. invRecv' = [invRecv EXCEPT ![p][peer] = v]
    BY <1>6
  <2> HIDE DEF v
  <2>4. invRecv' \in [Traders -> [Traders -> Received]]
    BY <1>1, <1>4, <2>2, <2>3, Cell DEF SnapshotTypes
  <2> QED BY <1>1, <1>6, <2>4 DEF SnapshotTypes
<1>11. /\ DOMAIN xferOut' = Traders /\ \A r \in Traders : r # p => xferOut'[r] = xferOut[r]
       /\ xferOut'[p] = [k \in Out(p) \ {i} |-> xferOut[p][k]]
  BY <1>1, <1>6 DEF DragTypes
<1>12. DragTypes'
  <2>1. DOMAIN xferOut'[p] = Out(p) \ {i} /\ Out(p) \subseteq 1 .. nextXferId[p] - 1
    BY <1>3, <1>11 DEF DragsOk, Out
  <2>2. \A k \in Out(p) \ {i} : DragOk(p, xferOut'[p][k])
    BY <1>3, <1>11 DEF DragsOk, Out
  <2>3. xferOut'[p] = [k \in DOMAIN xferOut'[p] |-> xferOut'[p][k]]
    BY <1>11
  <2>4. DragsOk(p, xferOut'[p], nextXferId[p])
    BY <2>1, <2>2, <2>3 DEF DragsOk
  <2> QED BY <1>1, <1>6, <1>11, <2>4 DEF DragTypes
<1>13. IntentTypes'
  BY <1>1, <1>6 DEF IntentTypes
<1>14. SettledDone(p, i, x)
  BY <1>4, <1>5, <1>6, <1>11 DEF SettledDone, x, refused
<1> QED BY <1>8, <1>9, <1>10, <1>12, <1>13, <1>14, TypesSplitNext

LEMMA ApplyTyped ==
    ASSUME TradeTypes, NEW p \in Traders, NEW c \in Others(p), applyInventories(p, c)
    PROVE  TradeTypes'
<1> DEFINE copy == IF invRecv[p][c].truncated /\ stock[p][c] > invRecv[p][c].units
                   THEN stock[p][c] ELSE invRecv[p][c].units
           got == [invRecv[p][c] EXCEPT !.dirty = FALSE]
<1>1. StockTypes /\ IntentTypes /\ DragTypes /\ LatchTypes /\ SnapshotTypes
  BY TypesSplit
<1>2. c \in Traders /\ c # p
  BY OtherTrader
<1>3. /\ xferLatch' = [xferLatch EXCEPT ![p] = xferLatch[p] \ {c}]
      /\ delta' = [delta EXCEPT ![p][c] = 0]
      /\ invRecv' = [invRecv EXCEPT ![p][c] = got]
      /\ stock' = [stock EXCEPT ![p][c] = copy]
      /\ UNCHANGED <<online, xferOut, nextXferId, intents, received, inventory, deferred, events>>
  BY DEF applyInventories, trading
<1>4. copy \in Nat /\ got \in Received
  <2>1. invRecv[p][c] \in Received /\ stock[p][c] \in Nat
    BY <1>1, <1>2 DEF StockTypes, SnapshotTypes
  <2> QED BY <2>1 DEF Received
<1> HIDE DEF copy, got
<1>5. StockTypes'
  BY <1>1, <1>2, <1>3, <1>4, Cell DEF StockTypes
<1>6. LatchTypes'
  <2>1. /\ delta' \in [Traders -> [Traders -> Int]] /\ delta'[p][c] = 0
        /\ \A r, d \in Traders : r # p \/ d # c => delta'[r][d] = delta[r][d]
    BY <1>1, <1>2, <1>3, Cell DEF LatchTypes
  <2>2. xferLatch' \in [Traders -> SUBSET Traders]
    BY <1>1, <1>3 DEF LatchTypes
  <2>3. ASSUME NEW r \in Traders, NEW d \in Traders, d \notin xferLatch'[r]
        PROVE  delta'[r][d] = 0
    BY <1>1, <1>3, <2>1, <2>3 DEF LatchTypes
  <2> QED BY <2>1, <2>2, <2>3 DEF LatchTypes
<1>7. SnapshotTypes'
  <2>1. invRecv' \in [Traders -> [Traders -> Received]]
    BY <1>1, <1>2, <1>3, <1>4, Cell DEF SnapshotTypes
  <2> QED BY <1>1, <1>3, <2>1 DEF SnapshotTypes
<1>8. IntentTypes' /\ DragTypes'
  BY <1>1, <1>3 DEF IntentTypes, DragTypes
<1> QED BY <1>5, <1>6, <1>7, <1>8, TypesSplitNext

(* What publishing own contents does.                                      *)
Published(p) ==
    /\ \A r \in Others(p) : \E m \in Snapshots :
          m.kind = "snapshot" /\ inventory'[p][r] = Append(inventory[p][r], m)
    /\ \A r, c \in Traders : r # p \/ c \notin Others(p) => inventory'[r][c] = inventory[r][c]
    /\ UNCHANGED <<online, stock, xferOut, nextXferId, intents, received, events>>

LEMMA PublishIs ==
    ASSUME TradeTypes, NEW p \in Traders,
           publishDeferredInventoryCommits(p) \/ publishInventories(p)
    PROVE  TradeTypes' /\ Published(p)
<1> DEFINE m == Snapshot(p, stock[p][p], FALSE)
           message == [q \in Traders |-> m]
<1>1. StockTypes /\ IntentTypes /\ DragTypes /\ LatchTypes /\ SnapshotTypes
  BY TypesSplit
<1>2. /\ Send(p, message) /\ deferred' \in [Traders -> BOOLEAN]
      /\ UNCHANGED <<online, stock, xferOut, nextXferId, intents, xferLatch, delta, received,
                     invRecv, events>>
  BY <1>1 DEF publishDeferredInventoryCommits, publishInventories, Publish, trading, latches,
              SnapshotTypes
<1>3. m \in Snapshots /\ m.kind = "snapshot"
  BY <1>1 DEF Snapshot, Snapshots, StockTypes
<1>4. (\A r \in Traders : message[r] = m) /\ \A r \in Traders : message[r] \in Messages
  BY <1>3 DEF Messages
<1> HIDE DEF message, m
<1>5. /\ inventory' \in [Traders -> [Traders -> Seq(Messages)]]
      /\ \A r \in Others(p) : inventory'[p][r] = Append(inventory[p][r], message[r])
      /\ \A r, c \in Traders : r # p \/ c \notin Others(p) =>
            inventory'[r][c] = inventory[r][c]
  BY <1>1, <1>2, <1>4, Sent DEF SnapshotTypes
<1>6. Published(p)
  BY <1>2, <1>3, <1>4, <1>5, OtherTrader DEF Published
<1>7. SnapshotTypes'
  BY <1>1, <1>2, <1>5 DEF SnapshotTypes
<1>8. StockTypes' /\ IntentTypes' /\ DragTypes' /\ LatchTypes'
  BY <1>1, <1>2 DEF StockTypes, IntentTypes, DragTypes, LatchTypes
<1> QED BY <1>6, <1>7, <1>8, TypesSplitNext

(* A player leaves: what concerned only those who stay is kept, and the    *)
(* drags that are not forgotten may be retired.                            *)
Here(q) ==
    LET stay == online \ {q}
    IN  IF stay = {HostPlayer} THEN {} ELSE stay \intersect Traders
LeftDone(q) ==
    /\ online' # Session
    /\ \A p \in Here(q) : xferOut'[p] = Retire(xferOut[p], q) /\ received'[p] = received[p]
    /\ \A p \in Traders \ Here(q) : xferOut'[p] = <<>> /\ received'[p] = {}
    /\ \A p, r \in Traders : IF p \in Here(q) /\ r \in Here(q)
                             THEN intents'[p][r] = intents[p][r] /\ inventory'[p][r] = inventory[p][r]
                             ELSE intents'[p][r] = <<>> /\ inventory'[p][r] = <<>>
    /\ UNCHANGED <<stock, nextXferId>>

LEMMA RetireIs ==
    ASSUME NEW out, NEW q
    PROVE  /\ DOMAIN Retire(out, q) = DOMAIN out
           /\ Retire(out, q) = [i \in DOMAIN Retire(out, q) |-> Retire(out, q)[i]]
           /\ \A i \in DOMAIN out : \E b \in BOOLEAN :
                Retire(out, q)[i] = [out[i] EXCEPT !.retired = b]
BY DEF Retire

LEMMA RetireOk ==
    ASSUME NEW p \in Traders, NEW x, DragOk(p, x), NEW b \in BOOLEAN
    PROVE  LET y == [x EXCEPT !.retired = b]
           IN  /\ DragOk(p, y) /\ y.src = x.src /\ y.dst = x.dst /\ y.qty = x.qty
               /\ y.verdict = x.verdict /\ Peer(p, y) = Peer(p, x)
BY DEF DragOk, Drags, Peer

LEMMA LeftIs ==
    ASSUME TradeTypes, NEW q \in online, onPeerDisconnected(q)
    PROVE  TradeTypes' /\ LeftDone(q)
<1> DEFINE here == Here(q)
<1>1. StockTypes /\ IntentTypes /\ DragTypes /\ LatchTypes /\ SnapshotTypes
  BY TypesSplit
<1>2. /\ q # HostPlayer /\ online' = online \ {q} /\ events' = [events EXCEPT !.left = events.left + 1]
      /\ xferOut' = [p \in Traders |-> IF p \in here THEN Retire(xferOut[p], q) ELSE <<>>]
      /\ intents' = [p \in Traders |-> [r \in Traders |->
                        IF {p, r} \subseteq here THEN intents[p][r] ELSE <<>>]]
      /\ inventory' = [p \in Traders |-> [r \in Traders |->
                        IF {p, r} \subseteq here THEN inventory[p][r] ELSE <<>>]]
      /\ invRecv' = [p \in Traders |-> [c \in Traders |->
                        IF {p, c} \subseteq here THEN invRecv[p][c] ELSE Nothing]]
      /\ xferLatch' = [p \in Traders |-> IF p \in here THEN xferLatch[p] ELSE {}]
      /\ delta' = [p \in Traders |-> IF p \in here THEN delta[p] ELSE [c \in Traders |-> 0]]
      /\ received' = [p \in Traders |-> IF p \in here THEN received[p] ELSE {}]
      /\ deferred' = [p \in Traders |-> p \in here /\ deferred[p]]
      /\ UNCHANGED <<stock, nextXferId>>
  BY DEF onPeerDisconnected, Here
<1>3. here \subseteq Traders
  BY DEF Here
<1> HIDE DEF here
<1>4. LeftDone(q)
  <2>1. online' # Session
    BY <1>1, <1>2 DEF StockTypes
  <2>2. \A p, r \in Traders : IF p \in here /\ r \in here
             THEN intents'[p][r] = intents[p][r] /\ inventory'[p][r] = inventory[p][r]
             ELSE intents'[p][r] = <<>> /\ inventory'[p][r] = <<>>
    BY <1>2
  <2> QED BY <1>2, <1>3, <2>1, <2>2 DEF LeftDone, here
<1>5. StockTypes'
  <2>1. events \in [found : Nat, spent : Nat, left : Nat]
    BY <1>1 DEF StockTypes
  <2>2. events.left + 1 \in Nat
    BY <2>1
  <2>3. events' \in [found : Nat, spent : Nat, left : Nat]
    BY <1>2, <2>1, <2>2
  <2> QED BY <1>1, <1>2, <2>3 DEF StockTypes
<1>6. IntentTypes'
  <2>1. \A p, r \in Traders : intents[p][r] \in Seq(Intents) /\ <<>> \in Seq(Intents)
    BY <1>1 DEF IntentTypes
  <2> QED BY <1>1, <1>2, <2>1 DEF IntentTypes
<1>7. DragTypes'
  <2>1. ASSUME NEW p \in Traders PROVE DragsOk(p, xferOut'[p], nextXferId'[p])
    <3>1. DragsOk(p, xferOut[p], nextXferId[p]) /\ nextXferId' = nextXferId
      BY <1>1, <1>2 DEF DragTypes
    <3>2. CASE p \notin here
      <4>1. xferOut'[p] = <<>>
        BY <1>2, <3>2
      <4> QED BY <3>1, <4>1 DEF DragsOk
    <3>3. CASE p \in here
      <4>1. xferOut'[p] = Retire(xferOut[p], q)
        BY <1>2, <3>3
      <4>2. \A i \in DOMAIN xferOut[p] : DragOk(p, Retire(xferOut[p], q)[i])
        <5>1. SUFFICES ASSUME NEW i \in DOMAIN xferOut[p]
                       PROVE  DragOk(p, Retire(xferOut[p], q)[i])
          OBVIOUS
        <5>2. PICK b \in BOOLEAN :
                 Retire(xferOut[p], q)[i] = [xferOut[p][i] EXCEPT !.retired = b]
          BY <5>1 DEF Retire
        <5> QED BY <3>1, <5>2, RetireOk DEF DragsOk
      <4> QED BY <3>1, <4>1, <4>2, RetireIs DEF DragsOk
    <3> QED BY <3>2, <3>3
  <2> QED BY <1>2, <2>1 DEF DragTypes
<1>8. LatchTypes'
  BY <1>1, <1>2 DEF LatchTypes
<1>9. SnapshotTypes'
  <2>1. Nothing \in Received
    BY DEF Nothing, Received
  <2>2. \A p, r \in Traders : inventory[p][r] \in Seq(Messages) /\ <<>> \in Seq(Messages)
    BY <1>1 DEF SnapshotTypes
  <2>3. inventory' \in [Traders -> [Traders -> Seq(Messages)]]
    BY <1>2, <2>2
  <2>4. invRecv' \in [Traders -> [Traders -> Received]]
    BY <1>1, <1>2, <2>1 DEF SnapshotTypes
  <2>5. received' \in [Traders -> SUBSET Verdicts] /\ deferred' \in [Traders -> BOOLEAN]
    BY <1>1, <1>2 DEF SnapshotTypes
  <2> QED BY <2>3, <2>4, <2>5 DEF SnapshotTypes
<1> QED BY <1>4, <1>5, <1>6, <1>7, <1>8, <1>9, TypesSplitNext

LEMMA RestTyped ==
    ASSUME TradeTypes, UNCHANGED tradeVars PROVE TradeTypes'
<1>1. StockTypes /\ IntentTypes /\ DragTypes /\ LatchTypes /\ SnapshotTypes
  BY TypesSplit
<1>2. StockTypes' /\ IntentTypes' /\ DragTypes' /\ LatchTypes' /\ SnapshotTypes'
  BY <1>1 DEF tradeVars, StockTypes, IntentTypes, DragTypes, LatchTypes, SnapshotTypes
<1> QED BY <1>2, TypesSplitNext

LEMMA TradeInitTyped ==
    ASSUME TradeInit PROVE TradeTypes
<1>1. StockTypes
  BY TransferAssumption DEF TradeInit, StockTypes
<1>2. IntentTypes
  BY DEF TradeInit, IntentTypes
<1>3. DragTypes
  BY DEF TradeInit, DragTypes, DragsOk
<1>4. LatchTypes
  BY DEF TradeInit, LatchTypes
<1>5. SnapshotTypes
  BY DEF TradeInit, SnapshotTypes, Nothing, Received
<1> QED BY <1>1, <1>2, <1>3, <1>4, <1>5, TypesSplit

-----------------------------------------------------------------------------
(* What becomes of a drag that an intent or a verdict is about.            *)
Kept(out, after, i) ==
    i \in DOMAIN after =>
        /\ i \in DOMAIN out /\ after[i].src = out[i].src /\ after[i].dst = out[i].dst
        /\ after[i].qty = out[i].qty /\ after[i].verdict = out[i].verdict

LEMMA AskedTail ==
    ASSUME NEW p, NEW q, NEW lane \in Seq(Intents), lane # <<>>, NEW out, NEW n, NEW all,
           IntentLane(p, q, lane, out, n, all)
    PROVE  /\ IntentLane(p, q, Tail(lane), out, n, all)
           /\ \A k \in 1 .. Len(Tail(lane)) : /\ Tail(lane)[k] = lane[k + 1]
                                              /\ k + 1 \in 1 .. Len(lane)
                                              /\ Head(lane).id < Tail(lane)[k].id
<1>1. /\ Len(lane) \in Nat \ {0} /\ Len(Tail(lane)) = Len(lane) - 1 /\ Head(lane) = lane[1]
      /\ \A k \in 1 .. Len(Tail(lane)) : Tail(lane)[k] = lane[k + 1]
  OBVIOUS
<1>2. \A k \in 1 .. Len(Tail(lane)) : k + 1 \in 1 .. Len(lane)
  BY <1>1
<1>3. 1 \in 1 .. Len(lane) /\ \A k \in 1 .. Len(Tail(lane)) : 1 < k + 1
  BY <1>1
<1>4. \A k \in 1 .. Len(Tail(lane)) : Head(lane).id < Tail(lane)[k].id
  BY <1>1, <1>2, <1>3 DEF IntentLane
<1>5. \A k, l \in 1 .. Len(Tail(lane)) : k < l => Tail(lane)[k].id < Tail(lane)[l].id
  <2>1. \A k, l \in 1 .. Len(Tail(lane)) : k < l => k + 1 < l + 1
    BY <1>1
  <2> QED BY <1>1, <1>2, <2>1 DEF IntentLane
<1>6. IntentLane(p, q, Tail(lane), out, n, all)
  <2>1. \A k \in 1 .. Len(Tail(lane)) : AskedOk(p, q, Tail(lane)[k], out, n, all)
    BY <1>1, <1>2 DEF IntentLane
  <2> QED BY <1>5, <2>1 DEF IntentLane
<1> QED BY <1>1, <1>2, <1>4, <1>6

LEMMA AskedKept ==
    ASSUME NEW p, NEW q, NEW lane \in Seq(Intents), NEW out, NEW after, NEW n \in Nat,
           NEW m \in Nat, n <= m, NEW all, NEW still, IntentLane(p, q, lane, out, n, all),
           \A k \in 1 .. Len(lane) : Kept(out, after, lane[k].id),
           still => /\ all
                    /\ \A k \in 1 .. Len(lane) :
                          lane[k].id \in DOMAIN out => lane[k].id \in DOMAIN after
    PROVE  IntentLane(p, q, lane, after, m, still)
<1>1. ASSUME NEW k \in 1 .. Len(lane) PROVE AskedOk(p, q, lane[k], after, m, still)
  <2>1. AskedOk(p, q, lane[k], out, n, all) /\ Kept(out, after, lane[k].id)
    BY DEF IntentLane
  <2>2. lane[k].id \in 1 .. m - 1
    BY <2>1 DEF AskedOk
  <2> QED BY <2>1, <2>2 DEF AskedOk, Kept, Asks
<1> QED BY <1>1 DEF IntentLane

LEMMA AskedAppend ==
    ASSUME NEW p, NEW q, p # q, NEW lane \in Seq(Intents), NEW out, NEW n \in Nat, NEW all,
           IntentLane(p, q, lane, out, n, all), NEW e \in Intents, e.id = n,
           AskedOk(p, q, e, out, n + 1, all)
    PROVE  IntentLane(p, q, Append(lane, e), out, n + 1, all)
<1>1. /\ Len(lane) \in Nat /\ Len(Append(lane, e)) = Len(lane) + 1
      /\ \A k \in 1 .. Len(lane) : Append(lane, e)[k] = lane[k]
      /\ Append(lane, e)[Len(lane) + 1] = e
  OBVIOUS
<1>2. \A k \in 1 .. Len(lane) + 1 : k \in 1 .. Len(lane) \/ k = Len(lane) + 1
  BY <1>1
<1>3. ASSUME NEW k \in 1 .. Len(lane) PROVE AskedOk(p, q, lane[k], out, n + 1, all)
  <2>1. AskedOk(p, q, lane[k], out, n, all)
    BY DEF IntentLane
  <2>2. lane[k].id \in 1 .. (n + 1) - 1
    BY <2>1 DEF AskedOk
  <2> QED BY <2>1, <2>2 DEF AskedOk
<1>4. \A k \in 1 .. Len(lane) + 1 : AskedOk(p, q, Append(lane, e)[k], out, n + 1, all)
  BY <1>1, <1>2, <1>3
<1>5. ASSUME NEW k \in 1 .. Len(lane) + 1, NEW l \in 1 .. Len(lane) + 1, k < l
      PROVE  Append(lane, e)[k].id < Append(lane, e)[l].id
  <2>1. k \in 1 .. Len(lane)
    BY <1>1, <1>5
  <2>2. CASE l \in 1 .. Len(lane)
    BY <1>1, <1>5, <2>1, <2>2 DEF IntentLane
  <2>3. CASE l = Len(lane) + 1
    <3>1. lane[k].id \in 1 .. n - 1
      BY <2>1 DEF IntentLane, AskedOk
    <3> QED BY <1>1, <2>1, <2>3, <3>1
  <2> QED BY <1>2, <2>2, <2>3
<1> QED BY <1>1, <1>4, <1>5 DEF IntentLane

LEMMA FitsKept ==
    ASSUME NEW p, NEW m, NEW asked, NEW after, NEW out, NEW still, NEW n \in Nat, NEW k \in Nat,
           Fits(p, m, asked, out, n), n <= k, Kept(out, still, m.id),
           \A l \in 1 .. Len(after) :
              (after[l].id \in Nat /\ n <= after[l].id) \/ \E i \in 1 .. Len(asked) : after[l] = asked[i]
    PROVE  Fits(p, m, after, still, k)
<1>1. m.id \in 1 .. k - 1 /\ m.id \in 1 .. n - 1 /\ m.of # p
  BY DEF Fits
<1>2. m.id \in DOMAIN still => /\ Peer(p, still[m.id]) = m.of /\ still[m.id].verdict = -1
                              /\ m.moved <= still[m.id].qty
  BY DEF Fits, Kept, Peer
<1>3. ASSUME NEW l \in 1 .. Len(after) PROVE m.id < after[l].id
  <2>1. CASE \E i \in 1 .. Len(asked) : after[l] = asked[i]
    BY <2>1 DEF Fits
  <2>2. CASE after[l].id \in Nat /\ n <= after[l].id
    BY <1>1, <2>2
  <2> QED BY <2>1, <2>2
<1> QED BY <1>1, <1>2, <1>3 DEF Fits

LEMMA LaneKept ==
    ASSUME NEW p, NEW q, NEW lane, NEW asked, NEW after, NEW out, NEW still, NEW n, NEW k,
           VerdictLane(p, q, lane, asked, out, n),
           \A i \in 1 .. Len(lane) :
              lane[i].kind = "verdict" /\ Fits(p, lane[i], asked, out, n)
                 => Fits(p, lane[i], after, still, k)
    PROVE  VerdictLane(p, q, lane, after, still, k)
BY DEF VerdictLane

LEMMA Appended ==
    ASSUME NEW S, NEW lane \in Seq(S), NEW m \in S
    PROVE  /\ Append(lane, m) \in Seq(S) /\ Len(Append(lane, m)) = Len(lane) + 1
           /\ Len(lane) \in Nat
           /\ \A k \in 1 .. Len(lane) : Append(lane, m)[k] = lane[k]
           /\ Append(lane, m)[Len(lane) + 1] = m
           /\ \A k \in 1 .. Len(lane) + 1 : k \in 1 .. Len(lane) \/ k = Len(lane) + 1
<1>1. /\ Append(lane, m) \in Seq(S) /\ Len(Append(lane, m)) = Len(lane) + 1
      /\ Len(lane) \in Nat /\ Append(lane, m)[Len(lane) + 1] = m
      /\ \A k \in 1 .. Len(lane) : Append(lane, m)[k] = lane[k]
  OBVIOUS
<1>2. \A k \in 1 .. Len(lane) + 1 : k \in 1 .. Len(lane) \/ k = Len(lane) + 1
  BY <1>1
<1> QED BY <1>1, <1>2

LEMMA Tailed ==
    ASSUME NEW S, NEW lane \in Seq(S), lane # <<>>
    PROVE  /\ Tail(lane) \in Seq(S) /\ 1 \in 1 .. Len(lane) /\ Head(lane) = lane[1]
           /\ \A k \in 1 .. Len(Tail(lane)) :
                Tail(lane)[k] = lane[k + 1] /\ k + 1 \in 1 .. Len(lane) /\ 1 < k + 1
           /\ \A k, l \in 1 .. Len(Tail(lane)) : k < l => k + 1 < l + 1
<1>1. /\ Tail(lane) \in Seq(S) /\ Len(lane) \in Nat \ {0} /\ Len(Tail(lane)) = Len(lane) - 1
      /\ Head(lane) = lane[1] /\ \A k \in 1 .. Len(Tail(lane)) : Tail(lane)[k] = lane[k + 1]
  OBVIOUS
<1>2. \A k \in 1 .. Len(Tail(lane)) : k + 1 \in 1 .. Len(lane) /\ 1 < k + 1
  BY <1>1
<1>3. \A k, l \in 1 .. Len(Tail(lane)) : k < l => k + 1 < l + 1
  BY <1>1
<1> QED BY <1>1, <1>2, <1>3

LEMMA LaneTail ==
    ASSUME NEW p, NEW q, NEW lane \in Seq(Messages), lane # <<>>, NEW asked, NEW out, NEW n,
           VerdictLane(p, q, lane, asked, out, n)
    PROVE  /\ VerdictLane(p, q, Tail(lane), asked, out, n)
           /\ Head(lane).kind = "verdict" =>
                /\ Head(lane).of = q /\ Fits(p, Head(lane), asked, out, n)
                /\ Before(Head(lane), Tail(lane))
<1>1. Head(lane).kind = "verdict" =>
          Head(lane).of = q /\ Fits(p, Head(lane), asked, out, n)
  BY Tailed DEF VerdictLane
<1>2. Head(lane).kind = "verdict" => Before(Head(lane), Tail(lane))
  BY Tailed DEF VerdictLane, Before
<1>3. VerdictLane(p, q, Tail(lane), asked, out, n)
  BY Tailed DEF VerdictLane
<1> QED BY <1>1, <1>2, <1>3

(* A snapshot is no verdict, and a verdict on the head of the intents is   *)
(* later than all the others there are.                                    *)
Fresh(m, asked) ==
    m.kind = "verdict" => \E k \in 1 .. Len(asked) : m.id = asked[k].id

LEMMA LaneAppend ==
    ASSUME NEW p, NEW q, NEW lane \in Seq(Messages), NEW asked, NEW after, NEW out, NEW n,
           NEW m \in Messages, VerdictLane(p, q, lane, asked, out, n), Fresh(m, asked),
           m.kind = "verdict" => m.of = q /\ Fits(p, m, after, out, n),
           \A i \in 1 .. Len(lane) :
              lane[i].kind = "verdict" /\ Fits(p, lane[i], asked, out, n)
                 => Fits(p, lane[i], after, out, n)
    PROVE  VerdictLane(p, q, Append(lane, m), after, out, n)
<1> DEFINE new == Append(lane, m)
<1>1. /\ Len(new) = Len(lane) + 1 /\ new[Len(lane) + 1] = m /\ Len(lane) \in Nat
      /\ \A k \in 1 .. Len(lane) : new[k] = lane[k]
      /\ \A k \in 1 .. Len(lane) + 1 : k \in 1 .. Len(lane) \/ k = Len(lane) + 1
  BY Appended
<1> HIDE DEF new
<1>2. ASSUME NEW k \in 1 .. Len(lane) + 1, new[k].kind = "verdict"
      PROVE  new[k].of = q /\ Fits(p, new[k], after, out, n)
  BY <1>1, <1>2 DEF VerdictLane
<1>3. ASSUME NEW k \in 1 .. Len(lane) + 1, NEW l \in 1 .. Len(lane) + 1, k < l,
             new[k].kind = "verdict", new[l].kind = "verdict"
      PROVE  new[k].id < new[l].id
  <2>1. k \in 1 .. Len(lane) /\ new[k] = lane[k]
    BY <1>1, <1>3
  <2>2. CASE l \in 1 .. Len(lane)
    BY <1>1, <1>3, <2>1, <2>2 DEF VerdictLane
  <2>3. CASE l = Len(lane) + 1
    <3>1. Fits(p, lane[k], asked, out, n)
      BY <1>3, <2>1 DEF VerdictLane
    <3>2. new[l] = m /\ m.kind = "verdict"
      BY <1>1, <1>3, <2>3
    <3> QED BY <2>1, <3>1, <3>2 DEF Fits, Fresh
  <2> QED BY <1>1, <2>2, <2>3
<1> QED BY <1>1, <1>2, <1>3 DEF VerdictLane, new

LEMMA BeforeAppend ==
    ASSUME NEW o, NEW lane \in Seq(Messages), NEW m \in Messages, Before(o, lane),
           m.kind = "verdict" => o.id < m.id
    PROVE  Before(o, Append(lane, m))
<1> DEFINE new == Append(lane, m)
<1>1. /\ Len(new) = Len(lane) + 1 /\ new[Len(lane) + 1] = m
      /\ \A k \in 1 .. Len(lane) : new[k] = lane[k]
      /\ \A k \in 1 .. Len(lane) + 1 : k \in 1 .. Len(lane) \/ k = Len(lane) + 1
  BY Appended
<1> HIDE DEF new
<1> QED BY <1>1 DEF Before, new

-----------------------------------------------------------------------------
(* The invariant, player by player: its intents, the verdicts that come    *)
(* back to it and its drags.                                               *)
PlayerInv(p) == IntentsOf(p) /\ VerdictsOf(p) /\ ReceivedOf(p)

LEMMA LaneTypes ==
    ASSUME TradeTypes
    PROVE  /\ \A p, q \in Traders : /\ intents[p][q] \in Seq(Intents)
                                    /\ inventory[p][q] \in Seq(Messages)
           /\ \A p \in Traders : /\ received[p] \subseteq Verdicts
                                 /\ nextXferId[p] \in Nat \ {0}
           /\ \A m \in Verdicts : m \in Messages /\ m.of \in Traders /\ m.kind = "verdict"
                                  /\ m.id \in Nat /\ m.moved \in Nat
           /\ \A m \in Snapshots : m \in Messages /\ m.kind = "snapshot"
           /\ \A e \in Intents : e.id \in Nat /\ e.qty \in Nat
<1>1. IntentTypes /\ SnapshotTypes
  BY TypesSplit
<1>2. \A p, q \in Traders : intents[p][q] \in Seq(Intents) /\ inventory[p][q] \in Seq(Messages)
  BY <1>1 DEF IntentTypes, SnapshotTypes
<1>3. \A p \in Traders : received[p] \subseteq Verdicts /\ nextXferId[p] \in Nat \ {0}
  BY <1>1 DEF IntentTypes, SnapshotTypes
<1>4. \A m \in Verdicts : m \in Messages /\ m.of \in Traders /\ m.kind = "verdict"
                          /\ m.id \in Nat /\ m.moved \in Nat
  BY DEF Verdicts, Messages
<1>5. \A m \in Snapshots : m \in Messages /\ m.kind = "snapshot"
  BY DEF Snapshots, Messages
<1> QED BY <1>2, <1>3, <1>4, <1>5 DEF Intents

LEMMA PlayerMail ==
    ASSUME TradeTypes, NEW r \in Traders, PlayerInv(r), online' = Session => online = Session,
           \A c \in Traders : intents'[r][c] = intents[r][c],
           xferOut'[r] = xferOut[r], nextXferId'[r] = nextXferId[r], received'[r] = received[r],
           \A c \in Traders : \/ inventory'[c][r] = inventory[c][r]
                              \/ \E m \in Snapshots :
                                    inventory'[c][r] = Append(inventory[c][r], m)
    PROVE  PlayerInv(r)'
<1>1. IntentsOf(r)'
  BY DEF PlayerInv, IntentsOf, IntentLane, AskedOk
<1>2. VerdictsOf(r)'
  <2>1. SUFFICES ASSUME NEW c \in Traders
                 PROVE  VerdictLane(r, c, inventory'[c][r], intents[r][c], xferOut[r], nextXferId[r])
    BY DEF VerdictsOf
  <2>2. VerdictLane(r, c, inventory[c][r], intents[r][c], xferOut[r], nextXferId[r])
    BY DEF PlayerInv, VerdictsOf
  <2>3. CASE \E m \in Snapshots : inventory'[c][r] = Append(inventory[c][r], m)
    <3>1. PICK m \in Snapshots : inventory'[c][r] = Append(inventory[c][r], m)
      BY <2>3
    <3>2. m \in Messages /\ m.kind # "verdict" /\ inventory[c][r] \in Seq(Messages)
      BY LaneTypes
    <3> QED BY <2>2, <3>1, <3>2, LaneAppend DEF Fresh
  <2> QED BY <2>2, <2>3
<1>3. ReceivedOf(r)'
  <2>1. SUFFICES ASSUME NEW m \in received[r]
                 PROVE  /\ Fits(r, m, intents'[r][m.of], xferOut[r], nextXferId[r])
                        /\ Before(m, inventory'[m.of][r])
                        /\ \A o \in received[r] : o.of = m.of /\ o.id = m.id => o = m
    BY DEF ReceivedOf
  <2>2. m.of \in Traders
    BY LaneTypes
  <2>3. /\ Fits(r, m, intents[r][m.of], xferOut[r], nextXferId[r])
        /\ Before(m, inventory[m.of][r])
        /\ \A o \in received[r] : o.of = m.of /\ o.id = m.id => o = m
    BY DEF PlayerInv, ReceivedOf
  <2>4. Before(m, inventory'[m.of][r])
    <3>1. CASE \E o \in Snapshots : inventory'[m.of][r] = Append(inventory[m.of][r], o)
      <4>1. PICK o \in Snapshots : inventory'[m.of][r] = Append(inventory[m.of][r], o)
        BY <3>1
      <4>2. o \in Messages /\ o.kind # "verdict" /\ inventory[m.of][r] \in Seq(Messages)
        BY <2>2, LaneTypes
      <4> QED BY <2>3, <4>1, <4>2, BeforeAppend
    <3> QED BY <2>2, <2>3, <3>1
  <2> QED BY <2>2, <2>3, <2>4
<1> QED BY <1>1, <1>2, <1>3 DEF PlayerInv

LEMMA PlayerDrags ==
    ASSUME TradeTypes, NEW p \in Traders, PlayerInv(p), NEW peer \in Others(p), NEW src, NEW dst,
           EndsAre(p, peer, src, dst), NEW q \in Nat \ {0}, DragDone(p, peer, src, dst, q)
    PROVE  PlayerInv(p)'
<1> DEFINE i == nextXferId[p]
           e == NewIntent(i, src, dst, q)
           out == xferOut[p]
           after == xferOut'[p]
<1>1. peer \in Traders /\ peer # p /\ src \in Traders /\ dst \in Traders
  BY OtherTrader DEF EndsAre
<1>2. i \in Nat \ {0} /\ nextXferId'[p] = i + 1 /\ Out(p) \subseteq 1 .. i - 1
  BY LaneTypes, TypesSplit DEF DragDone, DragTypes, DragsOk, Out, IntentTypes
<1>3. e \in Intents /\ e.id = i
  BY <1>1, <1>2 DEF Intents, NewIntent
<1>4. /\ DOMAIN after = Out(p) \union {i} /\ after[i] = NewDrag(p, peer, src, dst, q)
      /\ \A k \in Out(p) : after[k] = out[k]
      /\ intents'[p][peer] = Append(intents[p][peer], e)
      /\ \A c \in Traders : c # peer => intents'[p][c] = intents[p][c]
      /\ UNCHANGED <<online, received, inventory>>
  BY <1>1 DEF DragDone
<1> HIDE DEF i, e, out, after
<1>5. \A k \in Nat : k # i => Kept(out, after, k)
  BY <1>4 DEF Kept, Out, out
<1>6. AskedOk(p, peer, e, after, i + 1, online = Session)
  <2>1. e.id \in 1 .. (i + 1) - 1 /\ e.id \in DOMAIN after
    BY <1>2, <1>3, <1>4
  <2>2. EndsAre(p, peer, e.src, e.dst)
    BY DEF e, NewIntent
  <2>3. Asks(e, after[e.id])
    BY <1>3, <1>4 DEF e, NewIntent, NewDrag, Asks
  <2> QED BY <2>1, <2>2, <2>3 DEF AskedOk
<1>7. ASSUME NEW c \in Traders
      PROVE  IntentLane(p, c, intents[p][c], after, i, online = Session)
  <2>1. IntentLane(p, c, intents[p][c], out, i, online = Session)
    BY DEF PlayerInv, IntentsOf, i, out
  <2>2. \A k \in 1 .. Len(intents[p][c]) : intents[p][c][k].id \in 1 .. i - 1
    BY <2>1 DEF IntentLane, AskedOk
  <2>3. \A k \in 1 .. Len(intents[p][c]) : Kept(out, after, intents[p][c][k].id)
    BY <1>2, <1>5, <2>2
  <2>4. \A k \in 1 .. Len(intents[p][c]) :
            intents[p][c][k].id \in DOMAIN out => intents[p][c][k].id \in DOMAIN after
    BY <1>4 DEF Out, out
  <2>5. intents[p][c] \in Seq(Intents) /\ i \in Nat /\ i <= i
    BY <1>2, LaneTypes
  <2> QED BY <2>1, <2>3, <2>4, <2>5, AskedKept
<1>8. ASSUME NEW c \in Traders
      PROVE  IntentLane(p, c, intents'[p][c], after, i + 1, online = Session)
  <2>0. intents[p][c] \in Seq(Intents) /\ i \in Nat /\ i + 1 \in Nat /\ i <= i + 1
    BY <1>2, LaneTypes
  <2>1. CASE c = peer
    <3>1. IntentLane(p, peer, intents[p][peer], after, i, online = Session)
          /\ intents[p][peer] \in Seq(Intents)
      BY <1>1, <1>7, LaneTypes
    <3>2. IntentLane(p, peer, Append(intents[p][peer], e), after, i + 1, online = Session)
      BY <1>1, <1>3, <1>6, <2>0, <3>1, AskedAppend
    <3> QED BY <1>4, <2>1, <3>2
  <2>2. CASE c # peer
    <3>1. \A k \in 1 .. Len(intents[p][c]) : Kept(after, after, intents[p][c][k].id)
      BY DEF Kept
    <3>2. IntentLane(p, c, intents[p][c], after, i + 1, online = Session)
      BY <1>7, <2>0, <3>1, AskedKept
    <3> QED BY <1>4, <2>2, <3>2
  <2> QED BY <2>1, <2>2
<1>9. ASSUME NEW c \in Traders, NEW m, Fits(p, m, intents[p][c], out, i)
      PROVE  Fits(p, m, intents'[p][c], after, i + 1)
  <2>1. Kept(out, after, m.id)
    BY <1>2, <1>5, <1>9 DEF Fits
  <2>2. \A l \in 1 .. Len(intents'[p][c]) :
            \/ intents'[p][c][l].id \in Nat /\ i <= intents'[p][c][l].id
            \/ \E k \in 1 .. Len(intents[p][c]) : intents'[p][c][l] = intents[p][c][k]
    <3>1. intents[p][c] \in Seq(Intents) /\ e.id \in Nat /\ i <= e.id
      BY <1>2, <1>3, LaneTypes
    <3>2. CASE c = peer
      <4> DEFINE lane == intents[p][c]
      <4>1. intents'[p][c] = Append(lane, e) /\ lane \in Seq(Intents) /\ e \in Intents
        BY <1>3, <1>4, <3>1, <3>2
      <4> HIDE DEF lane
      <4>2. \A l \in 1 .. Len(Append(lane, e)) :
               Append(lane, e)[l] = e \/ \E k \in 1 .. Len(lane) : Append(lane, e)[l] = lane[k]
        BY <4>1, Appended
      <4> QED BY <3>1, <4>1, <4>2 DEF lane
    <3>3. CASE c # peer
      BY <1>4, <3>3
    <3> QED BY <3>2, <3>3
  <2>3. i \in Nat /\ i + 1 \in Nat /\ i <= i + 1
    BY <1>2
  <2> QED BY <1>9, <2>1, <2>2, <2>3, FitsKept
<1>10. IntentsOf(p)'
  BY <1>2, <1>4, <1>8 DEF IntentsOf, after
<1>11. VerdictsOf(p)'
  <2>1. ASSUME NEW c \in Traders
        PROVE  VerdictLane(p, c, inventory[c][p], intents'[p][c], after, i + 1)
    <3>1. VerdictLane(p, c, inventory[c][p], intents[p][c], out, i)
      BY DEF PlayerInv, VerdictsOf, i, out
    <3> QED BY <1>9, <3>1, LaneKept
  <2> QED BY <1>2, <1>4, <2>1 DEF VerdictsOf, after
<1>12. ReceivedOf(p)'
  <2>1. \A m \in received[p] : m.of \in Traders
    BY LaneTypes
  <2>2. \A m \in received[p] : Fits(p, m, intents[p][m.of], out, i)
    BY DEF PlayerInv, ReceivedOf, i, out
  <2>3. \A m \in received[p] : Fits(p, m, intents'[p][m.of], after, i + 1)
    BY <1>9, <2>1, <2>2
  <2> QED BY <1>2, <1>4, <2>3 DEF PlayerInv, ReceivedOf, after
<1> QED BY <1>10, <1>11, <1>12 DEF PlayerInv

LEMMA PlayerAnswered ==
    ASSUME TradeTypes, NEW p \in Traders, NEW q \in Traders, PlayerInv(q), NEW x, NEW n,
           TakenDone(p, q, x, n)
    PROVE  PlayerInv(q)'
<1> DEFINE lane == intents[q][p]
           out == xferOut[q]
           i == nextXferId[q]
<1>1. q \in Traders /\ q # p /\ lane \in Seq(Intents) /\ lane # <<>> /\ x = Head(lane)
      /\ x \in Intents /\ EndsAre(q, p, x.src, x.dst) /\ n \in 0 .. x.qty /\ i \in Nat \ {0}
  BY OtherTrader, LaneTypes DEF TakenDone
<1>2. PICK m \in Verdicts : /\ m.kind = "verdict" /\ m.of = p /\ m.id = x.id /\ m.moved = n
                            /\ inventory'[p][q] = Append(inventory[p][q], m)
  BY DEF TakenDone
<1>3. /\ intents'[q][p] = Tail(lane) /\ \A c \in Traders : c # p => intents'[q][c] = intents[q][c]
      /\ \A c \in Traders : c # p => inventory'[c][q] = inventory[c][q]
      /\ UNCHANGED <<online, xferOut, nextXferId, received>>
  BY <1>1 DEF TakenDone
<1> HIDE DEF lane, out, i
<1>4. IntentLane(q, p, lane, out, i, online = Session)
  BY DEF PlayerInv, IntentsOf, lane, out, i
<1>5. /\ IntentLane(q, p, Tail(lane), out, i, online = Session)
      /\ \A k \in 1 .. Len(Tail(lane)) : /\ Tail(lane)[k] = lane[k + 1]
                                         /\ k + 1 \in 1 .. Len(lane)
                                         /\ x.id < Tail(lane)[k].id
  BY <1>1, <1>4, AskedTail
<1>6. AskedOk(q, p, x, out, i, online = Session) /\ 1 \in 1 .. Len(lane) /\ x = lane[1]
  BY <1>1, <1>4, Tailed DEF IntentLane
<1>7. Fits(q, m, Tail(lane), out, i)
  <2>1. m.of # q /\ m.id \in 1 .. i - 1
    BY <1>1, <1>2, <1>6 DEF AskedOk
  <2>2. ASSUME m.id \in DOMAIN out
        PROVE  /\ Peer(q, out[m.id]) = m.of /\ out[m.id].verdict = -1
               /\ m.moved <= out[m.id].qty
    <3>1. Asks(x, out[m.id])
      BY <1>2, <1>6, <2>2 DEF AskedOk
    <3>2. Peer(q, out[m.id]) = p
      BY <1>1, <3>1 DEF Asks, Peer, EndsAre
    <3>3. n <= x.qty
      BY <1>1, LaneTypes
    <3> QED BY <1>2, <3>1, <3>2, <3>3 DEF Asks
  <2>3. \A l \in 1 .. Len(Tail(lane)) : m.id < Tail(lane)[l].id
    BY <1>2, <1>5
  <2> QED BY <2>1, <2>2, <2>3 DEF Fits
<1>8. ASSUME NEW o, Fits(q, o, lane, out, i) PROVE Fits(q, o, Tail(lane), out, i)
  BY <1>5, <1>8 DEF Fits
<1>9. m \in Messages /\ inventory[p][q] \in Seq(Messages) /\ Fresh(m, lane)
  <2>1. m \in Messages /\ inventory[p][q] \in Seq(Messages)
    BY <1>1, LaneTypes
  <2> QED BY <1>2, <1>6, <2>1 DEF Fresh
<1>10. VerdictLane(q, p, inventory[p][q], lane, out, i)
  BY DEF PlayerInv, VerdictsOf, lane, out, i
<1>11. VerdictLane(q, p, Append(inventory[p][q], m), Tail(lane), out, i)
  BY <1>2, <1>7, <1>8, <1>9, <1>10, LaneAppend
<1>12. IntentsOf(q)'
  <2>1. ASSUME NEW c \in Traders
        PROVE  IntentLane(q, c, intents'[q][c], out, i, online = Session)
    BY <1>3, <1>5 DEF PlayerInv, IntentsOf, out, i
  <2> QED BY <1>3, <2>1 DEF IntentsOf, out, i
<1>13. VerdictsOf(q)'
  <2>1. ASSUME NEW c \in Traders
        PROVE  VerdictLane(q, c, inventory'[c][q], intents'[q][c], out, i)
    <3>1. CASE c = p
      BY <1>2, <1>3, <1>11, <3>1
    <3>2. CASE c # p
      BY <1>3, <3>2 DEF PlayerInv, VerdictsOf, out, i
    <3> QED BY <3>1, <3>2
  <2> QED BY <1>3, <2>1 DEF VerdictsOf, out, i
<1>14. ReceivedOf(q)'
  <2>1. SUFFICES ASSUME NEW o \in received[q]
                 PROVE  /\ Fits(q, o, intents'[q][o.of], out, i)
                        /\ Before(o, inventory'[o.of][q])
                        /\ \A w \in received[q] : w.of = o.of /\ w.id = o.id => w = o
    BY <1>3 DEF ReceivedOf, out, i
  <2>2. o.of \in Traders
    BY <1>1, LaneTypes
  <2>3. /\ Fits(q, o, intents[q][o.of], out, i) /\ Before(o, inventory[o.of][q])
        /\ \A w \in received[q] : w.of = o.of /\ w.id = o.id => w = o
    BY DEF PlayerInv, ReceivedOf, out, i
  <2>4. CASE o.of = p
    <3>1. Fits(q, o, lane, out, i)
      BY <2>3, <2>4 DEF lane
    <3>2. o.id < m.id
      BY <1>2, <1>6, <3>1 DEF Fits
    <3>3. Before(o, Append(inventory[p][q], m))
      BY <1>9, <2>3, <2>4, <3>2, BeforeAppend
    <3> QED BY <1>2, <1>3, <1>8, <2>3, <2>4, <3>1, <3>3
  <2>5. CASE o.of # p
    BY <1>3, <2>2, <2>3, <2>5
  <2> QED BY <2>4, <2>5
<1> QED BY <1>12, <1>13, <1>14 DEF PlayerInv

LEMMA PlayerIngests ==
    ASSUME TradeTypes, NEW p \in Traders, PlayerInv(p), NEW q \in Others(p), ingestInv(p, q)
    PROVE  PlayerInv(p)'
<1> DEFINE lane == inventory[q][p]
           m == Head(lane)
           out == xferOut[p]
           i == nextXferId[p]
<1>1. q \in Traders /\ q # p /\ lane # <<>> /\ lane \in Seq(Messages) /\ m \in Messages
  <2>1. q \in Traders /\ q # p /\ lane # <<>> /\ lane \in Seq(Messages)
    BY OtherTrader, LaneTypes DEF ingestInv
  <2> QED BY <2>1
<1>2. /\ inventory' = [inventory EXCEPT ![q][p] = Tail(lane)]
      /\ received' = IF m.kind = "snapshot" THEN received
                     ELSE [received EXCEPT ![p] = received[p] \union {m}]
      /\ UNCHANGED <<online, xferOut, nextXferId, intents>>
  BY DEF ingestInv, trading
<1> HIDE DEF lane, m, out, i
<1>3. /\ inventory'[q][p] = Tail(lane)
      /\ \A c \in Traders : c # q => inventory'[c][p] = inventory[c][p]
  <2>1. inventory \in [Traders -> [Traders -> Seq(Messages)]] /\ Tail(lane) \in Seq(Messages)
    BY <1>1, TypesSplit DEF SnapshotTypes
  <2> QED BY <1>1, <1>2, <2>1, Cell
<1>4. \/ received'[p] = received[p]
      \/ m.kind = "verdict" /\ received'[p] = received[p] \union {m}
  <2>1. m.kind \in {"snapshot", "verdict"}
    BY <1>1 DEF Messages, Snapshots, Verdicts
  <2>2. received \in [Traders -> SUBSET Verdicts]
    BY TypesSplit DEF SnapshotTypes
  <2> QED BY <1>2, <2>1, <2>2
<1>5. VerdictLane(p, q, lane, intents[p][q], out, i)
  BY <1>1 DEF PlayerInv, VerdictsOf, lane, out, i
<1>6. /\ VerdictLane(p, q, Tail(lane), intents[p][q], out, i)
      /\ m.kind = "verdict" => m.of = q /\ Fits(p, m, intents[p][q], out, i)
                               /\ Before(m, Tail(lane))
  BY <1>1, <1>5, LaneTail DEF m
<1>7. IntentsOf(p)'
  BY <1>2 DEF PlayerInv, IntentsOf
<1>8. VerdictsOf(p)'
  <2>1. ASSUME NEW c \in Traders
        PROVE  VerdictLane(p, c, inventory'[c][p], intents[p][c], out, i)
    BY <1>3, <1>6 DEF PlayerInv, VerdictsOf, out, i
  <2> QED BY <1>2, <2>1 DEF VerdictsOf, out, i
<1>9. ASSUME NEW o \in received[p]
      PROVE  /\ o.of \in Traders /\ Fits(p, o, intents[p][o.of], out, i)
             /\ Before(o, inventory'[o.of][p])
             /\ m.kind = "verdict" => ~(o.of = m.of /\ o.id = m.id)
             /\ \A w \in received[p] : w.of = o.of /\ w.id = o.id => w = o
  <2>1. o.of \in Traders /\ o.id \in Nat
    BY LaneTypes
  <2>2. /\ Fits(p, o, intents[p][o.of], out, i) /\ Before(o, inventory[o.of][p])
        /\ \A w \in received[p] : w.of = o.of /\ w.id = o.id => w = o
    BY DEF PlayerInv, ReceivedOf, out, i
  <2>3. CASE o.of # q
    BY <1>3, <1>6, <2>1, <2>2, <2>3
  <2>4. CASE o.of = q
    <3>1. Before(o, lane)
      BY <2>2, <2>4 DEF lane
    <3>2. Before(o, Tail(lane))
      BY <1>1, <3>1, Tailed DEF Before
    <3>3. m.kind = "verdict" => o.id < m.id
      BY <1>1, <3>1, Tailed DEF Before, m
    <3>4. m.kind = "verdict" => o.id # m.id
      BY <2>1, <3>3
    <3> QED BY <1>3, <2>1, <2>2, <2>4, <3>2, <3>4
  <2> QED BY <2>3, <2>4
<1>10. ReceivedOf(p)'
  <2>1. CASE received'[p] = received[p]
    BY <1>2, <1>9, <2>1 DEF ReceivedOf, out, i
  <2>2. CASE m.kind = "verdict" /\ received'[p] = received[p] \union {m}
    BY <1>2, <1>3, <1>6, <1>9, <2>2 DEF ReceivedOf, out, i
  <2> QED BY <1>4, <2>1, <2>2
<1> QED BY <1>7, <1>8, <1>10 DEF PlayerInv

(* No verdict that p holds is about a drag whose intent is on its way or   *)
(* whose verdict is.                                                       *)
LEMMA Unanswered ==
    ASSUME TradeTypes, ReceivedInv, NEW p \in Traders, PlayerInv(p), NEW c \in Traders
    PROVE  /\ \A k \in 1 .. Len(intents[p][c]) : intents[p][c][k].id \in Out(p) =>
                 Against(p, intents[p][c][k].id) = {}
           /\ \A k \in 1 .. Len(inventory[c][p]) :
                 inventory[c][p][k].kind = "verdict" /\ inventory[c][p][k].id \in Out(p) =>
                 Against(p, inventory[c][p][k].id) = {}
<1>1. ASSUME NEW k \in 1 .. Len(intents[p][c]), intents[p][c][k].id \in Out(p),
             NEW m \in Against(p, intents[p][c][k].id)
      PROVE  FALSE
  <2> DEFINE e == intents[p][c][k]
  <2>1. EndsAre(p, c, e.src, e.dst) /\ Asks(e, xferOut[p][e.id]) /\ p # c
    BY <1>1 DEF PlayerInv, IntentsOf, IntentLane, AskedOk, Out
  <2>2. Peer(p, xferOut[p][e.id]) = c
    BY <2>1 DEF EndsAre, Asks, Peer
  <2>3. m \in received[p] /\ m.id = e.id /\ m.of = c
    BY <1>1, <2>2, JudgedIs
  <2>4. m.id < e.id
    BY <2>3 DEF PlayerInv, ReceivedOf, Fits
  <2>5. m.id \in Nat
    BY <2>3, LaneTypes
  <2> QED BY <2>3, <2>4, <2>5
<1>2. ASSUME NEW k \in 1 .. Len(inventory[c][p]), inventory[c][p][k].kind = "verdict",
             inventory[c][p][k].id \in Out(p), NEW m \in Against(p, inventory[c][p][k].id)
      PROVE  FALSE
  <2> DEFINE v == inventory[c][p][k]
  <2>1. v.of = c /\ Peer(p, xferOut[p][v.id]) = v.of
    BY <1>2 DEF PlayerInv, VerdictsOf, VerdictLane, Fits, Out
  <2>2. m \in received[p] /\ m.id = v.id /\ m.of = c
    BY <1>2, <2>1, JudgedIs
  <2>3. m.id < v.id
    BY <1>2, <2>2 DEF PlayerInv, ReceivedOf, Before
  <2>4. m.id \in Nat
    BY <2>2, LaneTypes
  <2> QED BY <2>2, <2>3, <2>4
<1> QED BY <1>1, <1>2

LEMMA PlayerJudges ==
    ASSUME TradeTypes, ReceivedInv, NEW p \in Traders, PlayerInv(p), applyXferAcks(p)
    PROVE  PlayerInv(p)'
<1> DEFINE out == xferOut[p]
           after == xferOut'[p]
           i == nextXferId[p]
<1>1. /\ received'[p] = {} /\ after = [k \in Out(p) |-> Judged(p, k)]
      /\ UNCHANGED <<online, nextXferId, intents, inventory>>
  BY TypesSplit DEF applyXferAcks, snapshots, SnapshotTypes, DragTypes
<1>2. \A k \in Out(p) : Against(p, k) = {} => Kept(out, after, k)
  BY <1>1, JudgedIs DEF Kept, Out
<1>3. DOMAIN after = DOMAIN out /\ DOMAIN out = Out(p) /\ i \in Nat /\ i <= i
  BY <1>1, LaneTypes DEF Out
<1>4. \A k : k \notin DOMAIN out => Kept(out, after, k)
  BY <1>3 DEF Kept
<1> HIDE DEF out, after, i
<1>5. ASSUME NEW c \in Traders PROVE IntentLane(p, c, intents[p][c], after, i, online = Session)
  <2>1. IntentLane(p, c, intents[p][c], out, i, online = Session)
    BY DEF PlayerInv, IntentsOf, out, i
  <2>2. \A k \in 1 .. Len(intents[p][c]) : Kept(out, after, intents[p][c][k].id)
    BY <1>2, <1>3, <1>4, Unanswered
  <2>3. intents[p][c] \in Seq(Intents)
    BY LaneTypes
  <2> QED BY <1>3, <2>1, <2>2, <2>3, AskedKept
<1>6. ASSUME NEW c \in Traders
      PROVE  VerdictLane(p, c, inventory[c][p], intents[p][c], after, i)
  <2>1. VerdictLane(p, c, inventory[c][p], intents[p][c], out, i)
    BY DEF PlayerInv, VerdictsOf, out, i
  <2>2. \A k \in 1 .. Len(inventory[c][p]) : inventory[c][p][k].kind = "verdict" =>
            Kept(out, after, inventory[c][p][k].id)
    BY <1>2, <1>3, <1>4, Unanswered
  <2>3. ASSUME NEW k \in 1 .. Len(inventory[c][p]), inventory[c][p][k].kind = "verdict",
               Fits(p, inventory[c][p][k], intents[p][c], out, i)
        PROVE  Fits(p, inventory[c][p][k], intents[p][c], after, i)
    BY <1>3, <2>2, <2>3, FitsKept
  <2> QED BY <2>1, <2>3, LaneKept
<1> QED BY <1>1, <1>5, <1>6 DEF PlayerInv, IntentsOf, VerdictsOf, ReceivedOf, after, i

LEMMA PlayerSettles ==
    ASSUME TradeTypes, NEW p \in Traders, PlayerInv(p), NEW i, NEW x, SettledDone(p, i, x)
    PROVE  PlayerInv(p)'
<1> DEFINE out == xferOut[p]
           after == xferOut'[p]
           n == nextXferId[p]
<1>1. /\ i \in Out(p) /\ out[i].verdict \in Nat /\ after = [k \in Out(p) \ {i} |-> out[k]]
      /\ UNCHANGED <<online, nextXferId, intents, inventory, received>>
  BY DEF SettledDone
<1>2. DOMAIN out = Out(p) /\ DOMAIN after = Out(p) \ {i} /\ n \in Nat /\ n <= n
  BY <1>1, LaneTypes DEF Out
<1>3. \A k : Kept(out, after, k)
  BY <1>1, <1>2 DEF Kept
<1> HIDE DEF out, after, n
<1>4. ASSUME NEW c \in Traders PROVE IntentLane(p, c, intents[p][c], after, n, online = Session)
  <2>1. IntentLane(p, c, intents[p][c], out, n, online = Session)
    BY DEF PlayerInv, IntentsOf, out, n
  <2>2. \A k \in 1 .. Len(intents[p][c]) :
            intents[p][c][k].id \in DOMAIN out => intents[p][c][k].id # i
    <3>1. out[i].verdict # -1
      BY <1>1
    <3> QED BY <2>1, <3>1 DEF IntentLane, AskedOk, Asks
  <2>3. \A k \in 1 .. Len(intents[p][c]) :
            intents[p][c][k].id \in DOMAIN out => intents[p][c][k].id \in DOMAIN after
    BY <1>2, <2>2
  <2>4. intents[p][c] \in Seq(Intents)
    BY LaneTypes
  <2> QED BY <1>2, <1>3, <2>1, <2>3, <2>4, AskedKept
<1>5. ASSUME NEW m, NEW asked, Fits(p, m, asked, out, n) PROVE Fits(p, m, asked, after, n)
  BY <1>2, <1>3, <1>5, FitsKept
<1>6. ASSUME NEW c \in Traders
      PROVE  VerdictLane(p, c, inventory[c][p], intents[p][c], after, n)
  <2>1. VerdictLane(p, c, inventory[c][p], intents[p][c], out, n)
    BY DEF PlayerInv, VerdictsOf, out, n
  <2> QED BY <1>5, <2>1, LaneKept
<1>7. ReceivedOf(p)'
  BY <1>1, <1>5 DEF PlayerInv, ReceivedOf, out, after, n
<1> QED BY <1>1, <1>4, <1>6, <1>7 DEF PlayerInv, IntentsOf, VerdictsOf, after, n

LEMMA PlayerLeft ==
    ASSUME TradeTypes, NEW p \in Traders, PlayerInv(p), NEW q \in online, LeftDone(q)
    PROVE  PlayerInv(p)'
<1> DEFINE out == xferOut[p]
           after == xferOut'[p]
           n == nextXferId[p]
<1>1. \A k : Kept(out, after, k)
  <2>1. CASE p \in Here(q)
    <3>1. after = Retire(out, q) /\ \A k \in DOMAIN out : DragOk(p, out[k])
      BY <2>1, TypesSplit DEF LeftDone, DragTypes, DragsOk
    <3>2. \A k \in DOMAIN out :
             after[k] = [out[k] EXCEPT !.retired = @ \/ out[k].peer \in {q, Unknown}]
      BY <3>1 DEF Retire
    <3>3. ASSUME NEW k \in DOMAIN out
          PROVE  /\ after[k].src = out[k].src /\ after[k].dst = out[k].dst
                 /\ after[k].qty = out[k].qty /\ after[k].verdict = out[k].verdict
      <4>1. out[k] \in Drags
        BY <3>1 DEF DragOk
      <4>2. after[k] = [out[k] EXCEPT !.retired = @ \/ out[k].peer \in {q, Unknown}]
        BY <3>2
      <4> QED BY <4>1, <4>2 DEF Drags
    <3>4. DOMAIN after = DOMAIN out
      BY <3>1, RetireIs
    <3> QED BY <3>3, <3>4 DEF Kept
  <2>2. CASE p \notin Here(q)
    BY <2>2 DEF LeftDone, Kept
  <2> QED BY <2>1, <2>2
<1>2. /\ online' # Session /\ nextXferId' = nextXferId /\ n \in Nat /\ n <= n
      /\ \A c \in Traders : intents'[p][c] \in {intents[p][c], <<>>}
      /\ \A c \in Traders : \/ intents'[p][c] = <<>> /\ inventory'[c][p] = <<>>
                            \/ intents'[p][c] = intents[p][c] /\ inventory'[c][p] = inventory[c][p]
      /\ received'[p] \in {received[p], {}}
  BY LaneTypes DEF LeftDone
<1> HIDE DEF out, after, n
<1>3. ASSUME NEW c \in Traders PROVE IntentLane(p, c, intents'[p][c], after, n, FALSE)
  <2>1. IntentLane(p, c, intents[p][c], out, n, online = Session)
    BY DEF PlayerInv, IntentsOf, out, n
  <2>2. intents[p][c] \in Seq(Intents)
    BY LaneTypes
  <2>3. IntentLane(p, c, intents[p][c], after, n, FALSE)
    BY <1>1, <1>2, <2>1, <2>2, AskedKept
  <2>4. IntentLane(p, c, <<>>, after, n, FALSE)
    BY DEF IntentLane
  <2> QED BY <1>2, <2>3, <2>4
<1>4. ASSUME NEW m, NEW c \in Traders, Fits(p, m, intents[p][c], out, n)
      PROVE  Fits(p, m, intents'[p][c], after, n)
  <2>1. \A l \in 1 .. Len(intents'[p][c]) :
            \E k \in 1 .. Len(intents[p][c]) : intents'[p][c][l] = intents[p][c][k]
    BY <1>2
  <2>2. Kept(out, after, m.id) /\ n \in Nat /\ n <= n
    BY <1>1, <1>2
  <2> QED BY <1>4, <2>1, <2>2, FitsKept
<1>5. ASSUME NEW c \in Traders
      PROVE  VerdictLane(p, c, inventory'[c][p], intents'[p][c], after, n)
  <2>1. VerdictLane(p, c, inventory[c][p], intents[p][c], out, n)
    BY DEF PlayerInv, VerdictsOf, out, n
  <2>2. VerdictLane(p, c, inventory[c][p], intents'[p][c], after, n)
    BY <1>4, <2>1, LaneKept
  <2>3. VerdictLane(p, c, <<>>, intents'[p][c], after, n)
    BY DEF VerdictLane
  <2> QED BY <1>2, <2>2, <2>3
<1>6. ReceivedOf(p)'
  <2>1. \A m \in received[p] : m.of \in Traders
    BY LaneTypes
  <2>2. \A m \in received[p] : /\ Fits(p, m, intents[p][m.of], out, n)
                               /\ Before(m, inventory[m.of][p])
                               /\ \A o \in received[p] : o.of = m.of /\ o.id = m.id => o = m
    BY DEF PlayerInv, ReceivedOf, out, n
  <2>3. \A m \in received[p] : Fits(p, m, intents'[p][m.of], after, n)
    BY <1>4, <2>1, <2>2
  <2>4. \A m \in received[p] : Before(m, inventory'[m.of][p])
    BY <1>2, <2>1, <2>2 DEF Before
  <2> QED BY <1>2, <2>2, <2>3, <2>4 DEF ReceivedOf, after, n
<1>7. IntentsOf(p)'
  BY <1>2, <1>3 DEF IntentsOf, IntentLane, AskedOk, after, n
<1>8. VerdictsOf(p)'
  BY <1>2, <1>5 DEF VerdictsOf, after, n
<1> QED BY <1>6, <1>7, <1>8 DEF PlayerInv

-----------------------------------------------------------------------------
LEMMA TradeInvSplit == TradeInv <=> TradeTypes /\ \A p \in Traders : PlayerInv(p)
BY DEF TradeInv, IntentsInv, VerdictsInv, ReceivedInv, PlayerInv

LEMMA TradeInvSplitNext == TradeInv' <=> TradeTypes' /\ \A p \in Traders : PlayerInv(p)'
BY DEF TradeInv, IntentsInv, VerdictsInv, ReceivedInv, PlayerInv

LEMMA TradeInitInv ==
    ASSUME TradeInit PROVE TradeInv
<1>1. TradeTypes
  BY TradeInitTyped
<1>2. ASSUME NEW p \in Traders PROVE PlayerInv(p)
  <2>1. (\A q \in Traders : intents[p][q] = <<>> /\ inventory[q][p] = <<>>) /\ received[p] = {}
    BY DEF TradeInit
  <2> QED BY <2>1 DEF PlayerInv, IntentsOf, IntentLane, VerdictsOf, VerdictLane, ReceivedOf
<1> QED BY <1>1, <1>2, TradeInvSplit

LEMMA DragKeeps ==
    ASSUME TradeInv, NEW p \in Traders, NEW peer \in Others(p), NEW src, NEW dst,
           EndsAre(p, peer, src, dst), NEW q \in Nat \ {0},
           detectAndPublishTransfers(p, peer, src, dst, q)
    PROVE  TradeInv' /\ DragDone(p, peer, src, dst, q)
<1>1. TradeTypes /\ TradeTypes' /\ DragDone(p, peer, src, dst, q)
  BY DragTyped, DragIs, TypesSplit DEF TradeInv
<1>2. ASSUME NEW r \in Traders PROVE PlayerInv(r)'
  <2>1. PlayerInv(r)
    BY TradeInvSplit
  <2>2. CASE r # p
    <3>1. nextXferId'[r] = nextXferId[r]
      BY <1>1, <2>2, TypesSplit DEF DragDone, IntentTypes
    <3> QED BY <1>1, <2>1, <2>2, <3>1, PlayerMail DEF DragDone
  <2> QED BY <1>1, <2>1, <2>2, PlayerDrags
<1> QED BY <1>1, <1>2, TradeInvSplitNext

LEMMA TakenKeeps ==
    ASSUME TradeInv, NEW p \in Traders, NEW q \in Others(p), applyTransfers(p, q)
    PROVE  TradeInv' /\ \E x, n : TakenDone(p, q, x, n)
<1>1. TradeTypes /\ TradeTypes' /\ \E x, n : TakenDone(p, q, x, n)
  BY TakenIs DEF TradeInv
<1>2. PICK x, n : TakenDone(p, q, x, n)
  BY <1>1
<1>3. q \in Traders /\ q # p
  BY OtherTrader
<1>4. ASSUME NEW r \in Traders PROVE PlayerInv(r)'
  <2>1. PlayerInv(r)
    BY TradeInvSplit
  <2>2. CASE r # q
    <3>1. \A c \in Traders : intents'[r][c] = intents[r][c]
      BY <1>2, <2>2 DEF TakenDone
    <3>2. \A c \in Traders : \/ inventory'[c][r] = inventory[c][r]
                             \/ \E m \in Snapshots :
                                   inventory'[c][r] = Append(inventory[c][r], m)
      BY <1>2, <2>2 DEF TakenDone
    <3> QED BY <1>1, <1>2, <2>1, <3>1, <3>2, PlayerMail DEF TakenDone
  <2> QED BY <1>1, <1>2, <1>3, <2>1, <2>2, PlayerAnswered
<1> QED BY <1>1, <1>4, TradeInvSplitNext

LEMMA IngestKeeps ==
    ASSUME TradeInv, NEW p \in Traders, NEW q \in Others(p), ingestInv(p, q) PROVE TradeInv'
<1>1. TradeTypes /\ TradeTypes'
  BY IngestTyped DEF TradeInv
<1>2. ASSUME NEW r \in Traders PROVE PlayerInv(r)'
  <2>1. PlayerInv(r)
    BY TradeInvSplit
  <2>2. CASE r # p
    <3>1. inventory \in [Traders -> [Traders -> Seq(Messages)]]
          /\ received \in [Traders -> SUBSET Verdicts] /\ q \in Traders
      BY <1>1, TypesSplit, OtherTrader DEF SnapshotTypes
    <3>2. /\ inventory' = [inventory EXCEPT ![q][p] = Tail(inventory[q][p])]
          /\ received' \in {received,
                            [received EXCEPT ![p] = received[p] \union {Head(inventory[q][p])}]}
          /\ UNCHANGED <<online, xferOut, nextXferId, intents>>
      BY DEF ingestInv, trading
    <3>3. \A c \in Traders : inventory'[c][r] = inventory[c][r]
      BY <2>2, <3>1, <3>2
    <3>4. received'[r] = received[r]
      BY <2>2, <3>1, <3>2
    <3> QED BY <1>1, <2>1, <3>2, <3>3, <3>4, PlayerMail
  <2> QED BY <1>1, <2>1, <2>2, PlayerIngests
<1> QED BY <1>1, <1>2, TradeInvSplitNext

LEMMA AcksKeep ==
    ASSUME TradeInv, NEW p \in Traders, applyXferAcks(p) PROVE TradeInv'
<1>1. TradeTypes /\ TradeTypes' /\ ReceivedInv
  BY AcksTyped DEF TradeInv
<1>2. ASSUME NEW r \in Traders PROVE PlayerInv(r)'
  <2>1. PlayerInv(r)
    BY TradeInvSplit
  <2>2. CASE r # p
    <3>1. xferOut'[r] = xferOut[r] /\ received'[r] = received[r]
          /\ UNCHANGED <<online, nextXferId, intents, inventory>>
      BY <1>1, <2>2, TypesSplit DEF applyXferAcks, snapshots, DragTypes, SnapshotTypes
    <3> QED BY <1>1, <2>1, <3>1, PlayerMail
  <2> QED BY <1>1, <2>1, <2>2, PlayerJudges
<1> QED BY <1>1, <1>2, TradeInvSplitNext

LEMMA SettleKeeps ==
    ASSUME TradeInv, NEW p \in Traders, SettleDrag(p)
    PROVE  TradeInv' /\ \E i, x : SettledDone(p, i, x)
<1>1. TradeTypes /\ TradeTypes' /\ \E i, x : SettledDone(p, i, x)
  BY SettleIs DEF TradeInv
<1>2. PICK i, x : SettledDone(p, i, x)
  BY <1>1
<1>3. ASSUME NEW r \in Traders PROVE PlayerInv(r)'
  <2>1. PlayerInv(r)
    BY TradeInvSplit
  <2>2. CASE r # p
    BY <1>1, <1>2, <2>1, <2>2, PlayerMail DEF SettledDone
  <2> QED BY <1>1, <1>2, <2>1, <2>2, PlayerSettles
<1> QED BY <1>1, <1>3, TradeInvSplitNext

(* Steps that touch neither a drag nor an intent.                          *)
Quiet == UNCHANGED <<online, xferOut, nextXferId, intents, received>>

LEMMA QuietKeeps ==
    ASSUME TradeInv, TradeTypes', Quiet,
           \A r, c \in Traders : \/ inventory'[c][r] = inventory[c][r]
                                 \/ \E m \in Snapshots :
                                       inventory'[c][r] = Append(inventory[c][r], m)
    PROVE  TradeInv'
<1>1. TradeTypes
  BY DEF TradeInv
<1>2. ASSUME NEW r \in Traders PROVE PlayerInv(r)'
  <2>1. PlayerInv(r)
    BY TradeInvSplit
  <2> QED BY <1>1, <2>1, PlayerMail DEF Quiet
<1> QED BY <1>2, TradeInvSplitNext

LEMMA GameKeeps ==
    ASSUME TradeInv, NEW p \in Traders, Find(p) \/ Spend(p) PROVE TradeInv'
<1>1. Quiet /\ inventory' = inventory
  BY DEF Find, Spend, trading, snapshots, Quiet
<1> QED BY <1>1, GameTyped, QuietKeeps DEF TradeInv

LEMMA ApplyKeeps ==
    ASSUME TradeInv, NEW p \in Traders, NEW c \in Others(p), applyInventories(p, c)
    PROVE  TradeInv'
<1>1. Quiet /\ inventory' = inventory
  BY DEF applyInventories, trading, Quiet
<1> QED BY <1>1, ApplyTyped, QuietKeeps DEF TradeInv

LEMMA PublishKeeps ==
    ASSUME TradeInv, NEW p \in Traders,
           publishDeferredInventoryCommits(p) \/ publishInventories(p)
    PROVE  TradeInv' /\ Published(p)
<1>1. TradeTypes' /\ Published(p)
  BY PublishIs DEF TradeInv
<1>2. Quiet
  BY <1>1 DEF Published, Quiet
<1>3. \A r, c \in Traders : \/ inventory'[c][r] = inventory[c][r]
                            \/ \E m \in Snapshots :
                                  inventory'[c][r] = Append(inventory[c][r], m)
  BY <1>1 DEF Published
<1> QED BY <1>1, <1>2, <1>3, QuietKeeps

LEMMA LeftKeeps ==
    ASSUME TradeInv, NEW q \in online, onPeerDisconnected(q) PROVE TradeInv' /\ LeftDone(q)
<1>1. TradeTypes /\ TradeTypes' /\ LeftDone(q)
  BY LeftIs DEF TradeInv
<1>2. ASSUME NEW p \in Traders PROVE PlayerInv(p)'
  BY <1>1, TradeInvSplit, PlayerLeft
<1> QED BY <1>1, <1>2, TradeInvSplitNext

LEMMA RestKeeps ==
    ASSUME TradeInv, UNCHANGED tradeVars PROVE TradeInv'
<1>1. Quiet /\ inventory' = inventory
  BY DEF tradeVars, Quiet
<1> QED BY <1>1, RestTyped, QuietKeeps DEF TradeInv

(* What a step may be.                                                     *)
LEMMA TradeSteps ==
    ASSUME TradeTypes, [TradeNext]_tradeVars
    PROVE  \/ UNCHANGED tradeVars
           \/ \E q \in online : onPeerDisconnected(q)
           \/ \E p \in Traders :
                \/ Find(p) \/ Spend(p)
                \/ applyXferAcks(p) \/ SettleDrag(p)
                \/ publishDeferredInventoryCommits(p) \/ publishInventories(p)
                \/ \E q \in Others(p) :
                      applyTransfers(p, q) \/ ingestInv(p, q) \/ applyInventories(p, q)
                \/ \E peer \in Others(p) : \E q \in Nat \ {0} : \E src, dst :
                      /\ EndsAre(p, peer, src, dst)
                      /\ detectAndPublishTransfers(p, peer, src, dst, q)
<1>1. ASSUME NEW p \in Traders, Drag(p)
      PROVE  \E peer \in Others(p) : \E q \in Nat \ {0} : \E src, dst :
                EndsAre(p, peer, src, dst) /\ detectAndPublishTransfers(p, peer, src, dst, q)
  <2>0. PICK peer \in Others(p) : \E q \in 1 .. stock[p][p] + stock[p][peer] :
              \/ detectAndPublishTransfers(p, peer, p, peer, q)
              \/ detectAndPublishTransfers(p, peer, peer, p, q)
    BY <1>1 DEF Drag
  <2>1. PICK q \in 1 .. stock[p][p] + stock[p][peer] :
              \/ detectAndPublishTransfers(p, peer, p, peer, q)
              \/ detectAndPublishTransfers(p, peer, peer, p, q)
    BY <2>0
  <2>2. q \in Nat \ {0}
    <3>1. stock[p][p] \in Nat /\ stock[p][peer] \in Nat
      BY TypesSplit, OtherTrader DEF StockTypes
    <3> QED BY <3>1
  <2>3. EndsAre(p, peer, p, peer) /\ EndsAre(p, peer, peer, p)
    BY DEF EndsAre
  <2> QED BY <2>1, <2>2, <2>3
<1> QED BY <1>1 DEF TradeNext, Tick

LEMMA TradeNextInv ==
    ASSUME TradeInv, [TradeNext]_tradeVars PROVE TradeInv'
BY TradeSteps, DragKeeps, TakenKeeps, IngestKeeps, AcksKeep, SettleKeeps, GameKeeps,
   ApplyKeeps, PublishKeeps, LeftKeeps, RestKeeps DEF TradeInv

LEMMA TradeInductive == TradeSpec => []TradeInv
<1>1. TradeInit => TradeInv
  BY TradeInitInv
<1>2. TradeInv /\ [TradeNext]_tradeVars => TradeInv'
  BY TradeNextInv
<1> QED BY <1>1, <1>2, PTL DEF TradeSpec

(* InventoryTransfer.tla's TradeTypes: for any players and any drags the   *)
(* copies never show fewer than no units, a drag lies between its player's *)
(* squad and a peer's, and no verdict is for more than was asked.          *)
THEOREM TradeTypesHold == TradeSpec => []TradeTypes
<1>1. TradeInv => TradeTypes
  BY DEF TradeInv
<1> QED BY <1>1, TradeInductive, PTL

-----------------------------------------------------------------------------
(* What of a drag x is still at c and may have to go back, and the sum of  *)
(* it over drags.                                                          *)
Due(c, x) == IF x.dst # c THEN 0 ELSE IF x.verdict >= 0 THEN x.qty - x.verdict ELSE x.qty
DueOf(c, out) == [i \in DOMAIN out |-> Due(c, out[i])]
DueSum(c, out) == SumFunctionOnSet(DueOf(c, out), DOMAIN out)
ReversibleOf(p) == \A c \in Traders : stock[p][c] >= DueSum(c, xferOut[p])

LEMMA ReversibleSplit == Reversible <=> \A p \in Traders : ReversibleOf(p)
<1>1. \A p, c : SumFunction([i \in Out(p) |-> Awaiting(p, c, i)]) = DueSum(c, xferOut[p])
  BY DEF SumFunction, DueSum, DueOf, Due, Awaiting, Out
<1> QED BY <1>1 DEF Reversible, ReversibleOf

LEMMA ReversibleSplitNext == Reversible' <=> \A p \in Traders : ReversibleOf(p)'
<1>1. \A p, c : SumFunction([i \in Out(p)' |-> Awaiting(p, c, i)'])
                = DueSum(c, xferOut'[p])
  BY DEF SumFunction, DueSum, DueOf, Due, Awaiting, Out
<1> QED BY <1>1 DEF Reversible, ReversibleOf

LEMMA DueTypes ==
    ASSUME NEW p, NEW out, NEW n \in Nat, DragsOk(p, out, n), NEW c
    PROVE  /\ IsFiniteSet(DOMAIN out)
           /\ \A i \in DOMAIN out : Due(c, out[i]) \in Nat /\ DueOf(c, out)[i] = Due(c, out[i])
           /\ DueSum(c, out) \in Int
<1>1. IsFiniteSet(DOMAIN out)
  <2>1. IsFiniteSet(1 .. n - 1) /\ DOMAIN out \subseteq 1 .. n - 1
    BY FS_Interval DEF DragsOk
  <2> QED BY <2>1, FS_Subset
<1>2. ASSUME NEW i \in DOMAIN out PROVE Due(c, out[i]) \in Nat
  <2>1. /\ out[i].qty \in Nat /\ out[i].verdict \in Nat \union {-1}
        /\ out[i].verdict <= out[i].qty
    BY DEF DragsOk, DragOk, Drags
  <2> QED BY <2>1 DEF Due
<1>3. \A i \in DOMAIN out : DueOf(c, out)[i] = Due(c, out[i])
  BY DEF DueOf
<1>4. DueSum(c, out) \in Int
  BY <1>1, <1>2, <1>3, SumType DEF DueSum
<1> QED BY <1>1, <1>2, <1>3, <1>4

LEMMA NothingDue ==
    ASSUME NEW p, NEW out, NEW n \in Nat, DragsOk(p, out, n), NEW c,
           \A i \in DOMAIN out : out[i].dst # c
    PROVE  DueSum(c, out) = 0
<1>1. IsFiniteSet(DOMAIN out) /\ \A i \in DOMAIN out : DueOf(c, out)[i] = 0
  BY DueTypes DEF Due
<1> QED BY <1>1, SumOfZeros DEF DueSum

(* after is out with the drag i more.                                      *)
LEMMA DueAdds ==
    ASSUME NEW p, NEW out, NEW after, NEW n \in Nat, NEW k \in Nat,
           DragsOk(p, out, n), DragsOk(p, after, k), NEW c, NEW i,
           i \notin DOMAIN out, DOMAIN after = DOMAIN out \union {i},
           \A l \in DOMAIN out : after[l] = out[l]
    PROVE  DueSum(c, after) = DueSum(c, out) + Due(c, after[i])
<1>1. IsFiniteSet(DOMAIN out) /\ \A l \in DOMAIN out : DueOf(c, out)[l] \in Int
  BY DueTypes
<1>2. \A l \in DOMAIN after : Due(c, after[l]) \in Int /\ DueOf(c, after)[l] = Due(c, after[l])
  BY DueTypes
<1>3. \A l \in DOMAIN out : DueOf(c, after)[l] = DueOf(c, out)[l]
  BY <1>2 DEF DueOf
<1>4. i \in DOMAIN after
  OBVIOUS
<1>5. SumFunctionOnSet(DueOf(c, after), DOMAIN out \union {i})
      = SumFunctionOnSet(DueOf(c, out), DOMAIN out) + DueOf(c, after)[i]
  BY <1>1, <1>2, <1>3, <1>4, SumExtends
<1> QED BY <1>2, <1>4, <1>5 DEF DueSum

LEMMA DueAtMost ==
    ASSUME NEW p, NEW out, NEW after, NEW n \in Nat, DragsOk(p, out, n), DragsOk(p, after, n),
           DOMAIN after = DOMAIN out, NEW c,
           \A i \in DOMAIN out : Due(c, after[i]) <= Due(c, out[i])
    PROVE  DueSum(c, after) <= DueSum(c, out)
<1>1. IsFiniteSet(DOMAIN out)
  BY DueTypes
<1>2. \A i \in DOMAIN out : DueOf(c, out)[i] \in Int /\ DueOf(c, out)[i] = Due(c, out[i])
  BY DueTypes
<1>3. \A i \in DOMAIN out : DueOf(c, after)[i] \in Int /\ DueOf(c, after)[i] = Due(c, after[i])
  BY DueTypes
<1>4. \A i \in DOMAIN out : DueOf(c, after)[i] <= DueOf(c, out)[i]
  BY <1>2, <1>3
<1>5. SumFunctionOnSet(DueOf(c, after), DOMAIN out) <= SumFunctionOnSet(DueOf(c, out), DOMAIN out)
  BY <1>1, <1>2, <1>3, <1>4, SumAtMost
<1> QED BY <1>5 DEF DueSum

LEMMA TypesOfPlayer ==
    ASSUME TradeTypes, NEW p \in Traders
    PROVE  /\ DragsOk(p, xferOut[p], nextXferId[p]) /\ nextXferId[p] \in Nat
           /\ \A c \in Traders : stock[p][c] \in Nat
           /\ \A c \in Traders : ~Reserved(p, c) => DueSum(c, xferOut[p]) = 0
<1>1. DragsOk(p, xferOut[p], nextXferId[p]) /\ nextXferId[p] \in Nat
  BY TypesSplit DEF DragTypes, IntentTypes
<1>2. \A c \in Traders : stock[p][c] \in Nat
  BY TypesSplit DEF StockTypes
<1>3. ASSUME NEW c \in Traders, ~Reserved(p, c) PROVE DueSum(c, xferOut[p]) = 0
  <2>1. \A i \in DOMAIN xferOut[p] : xferOut[p][i].dst # c
    BY <1>3 DEF Reserved, Out
  <2> QED BY <1>1, <2>1, NothingDue
<1> QED BY <1>1, <1>2, <1>3

(* Each step keeps for its player what has to go back, and the others' is  *)
(* left alone.                                                             *)
LEMMA OthersReversible ==
    ASSUME NEW r \in Traders, ReversibleOf(r), xferOut'[r] = xferOut[r],
           \A c \in Traders : stock'[r][c] = stock[r][c]
    PROVE  ReversibleOf(r)'
BY DEF ReversibleOf

LEMMA DragReversible ==
    ASSUME TradeTypes, TradeTypes', NEW p \in Traders, ReversibleOf(p),
           NEW peer \in Others(p), NEW src, NEW dst, EndsAre(p, peer, src, dst),
           NEW q \in Nat \ {0}, DragDone(p, peer, src, dst, q)
    PROVE  /\ ReversibleOf(p)'
           /\ \A r \in Traders \ {p} : \A c \in Traders : stock'[r][c] = stock[r][c]
<1> DEFINE out == xferOut[p]
           after == xferOut'[p]
           i == nextXferId[p]
<1>1. peer \in Traders /\ src \in Traders /\ dst \in Traders /\ src # dst
  BY OtherTrader DEF EndsAre
<1>2. /\ stock'[p][src] = stock[p][src] - q /\ stock'[p][dst] = stock[p][dst] + q
      /\ \A r, c \in Traders : r # p \/ c \notin {src, dst} => stock'[r][c] = stock[r][c]
  <2>1. /\ stock \in [Traders -> [Traders -> Nat]] /\ q \in Nat
        /\ q <= stock[p][src] /\ Moved(p, src, dst, q)
    BY TypesSplit DEF DragDone, StockTypes
  <2> QED BY <1>1, <2>1, MovedUnits
<1>3. /\ DragsOk(p, out, i) /\ i \in Nat /\ \A c \in Traders : stock[p][c] \in Nat
      /\ ~Reserved(p, src) => DueSum(src, out) = 0
  BY <1>1, TypesOfPlayer
<1>4. DragsOk(p, after, nextXferId'[p]) /\ nextXferId'[p] \in Nat /\ \A c \in Traders : stock'[p][c] \in Nat
  BY TypesSplitNext DEF DragTypes, IntentTypes, StockTypes
<1>5. /\ DOMAIN after = DOMAIN out \union {i} /\ i \notin DOMAIN out
      /\ after[i] = NewDrag(p, peer, src, dst, q) /\ \A l \in DOMAIN out : after[l] = out[l]
      /\ ~Reserved(p, src) /\ q <= stock[p][src]
  BY DEF DragDone, Out
<1> DEFINE n == nextXferId'[p]
<1> HIDE DEF out, after, i, n
<1>6. \A c : DueSum(c, after) = DueSum(c, out) + Due(c, after[i]) /\ DueSum(c, out) \in Int
  <2> TAKE c
  <2>1. DueSum(c, after) = DueSum(c, out) + Due(c, after[i])
    <3>1. DragsOk(p, after, n) /\ n \in Nat
      BY <1>4 DEF n, after
    <3> QED BY <1>3, <1>5, <3>1, DueAdds
  <2> QED BY <1>3, <2>1, DueTypes
<1>7. \A c : Due(c, after[i]) = IF c = dst THEN q ELSE 0
  BY <1>5 DEF Due, NewDrag
<1>8. ASSUME NEW c \in Traders PROVE stock'[p][c] >= DueSum(c, after)
  <2>1. stock[p][c] >= DueSum(c, out)
    BY DEF ReversibleOf, out
  <2>2. CASE c = src
    BY <1>1, <1>2, <1>3, <1>5, <1>6, <1>7, <2>2
  <2>3. CASE c = dst
    BY <1>1, <1>2, <1>3, <1>5, <1>6, <1>7, <2>1, <2>3
  <2>4. CASE c \notin {src, dst}
    BY <1>1, <1>2, <1>3, <1>5, <1>6, <1>7, <2>1, <2>4
  <2> QED BY <2>2, <2>3, <2>4
<1> QED BY <1>2, <1>8 DEF ReversibleOf, after

LEMMA TakenReversible ==
    ASSUME TradeTypes, TradeTypes', NEW p \in Traders, ReversibleOf(p), NEW q, NEW x, NEW n,
           TakenDone(p, q, x, n)
    PROVE  /\ ReversibleOf(p)'
           /\ \A r \in Traders \ {p} : \A c \in Traders : stock'[r][c] = stock[r][c]
<1>1. /\ x.src \in Traders /\ x.dst \in Traders /\ x.src # x.dst /\ x.qty \in Nat
      /\ n \in Nat /\ n <= stock[p][x.src] /\ (Reserved(p, x.src) => n = 0)
      /\ Moved(p, x.src, x.dst, n) /\ xferOut' = xferOut
  <2>1. q \in Traders /\ q # p /\ x \in Intents /\ EndsAre(q, p, x.src, x.dst)
    BY OtherTrader DEF TakenDone
  <2>2. x.qty \in Nat
    BY <2>1 DEF Intents
  <2> QED BY <2>1, <2>2 DEF TakenDone, EndsAre
<1>2. /\ stock'[p][x.src] = stock[p][x.src] - n /\ stock'[p][x.dst] = stock[p][x.dst] + n
      /\ \A r, c \in Traders : r # p \/ c \notin {x.src, x.dst} => stock'[r][c] = stock[r][c]
  BY <1>1, MovedUnits, TypesSplit DEF StockTypes
<1>3. ASSUME NEW c \in Traders PROVE stock'[p][c] >= DueSum(c, xferOut[p])
  <2>1. stock[p][c] >= DueSum(c, xferOut[p]) /\ stock[p][c] \in Nat /\ DueSum(c, xferOut[p]) \in Int
    BY TypesOfPlayer, DueTypes DEF ReversibleOf
  <2>2. n = 0 \/ DueSum(x.src, xferOut[p]) = 0
    BY <1>1, TypesOfPlayer
  <2>3. stock'[p][c] \in Nat
    BY TypesSplitNext DEF StockTypes
  <2>4. CASE c = x.src
    BY <1>1, <1>2, <2>1, <2>2, <2>3, <2>4
  <2>5. CASE c = x.dst
    BY <1>1, <1>2, <2>1, <2>5
  <2>6. CASE c \notin {x.src, x.dst}
    BY <1>1, <1>2, <2>1, <2>6
  <2> QED BY <2>4, <2>5, <2>6
<1> QED BY <1>1, <1>2, <1>3 DEF ReversibleOf

LEMMA SettleReversible ==
    ASSUME TradeTypes, TradeTypes', NEW p \in Traders, ReversibleOf(p), NEW i, NEW x,
           SettledDone(p, i, x)
    PROVE  /\ ReversibleOf(p)'
           /\ \A r \in Traders \ {p} : \A c \in Traders : stock'[r][c] = stock[r][c]
<1> DEFINE out == xferOut[p]
           after == xferOut'[p]
           n == nextXferId[p]
           refused == x.qty - x.verdict
<1>1. /\ x.src \in Traders /\ x.dst \in Traders /\ x.src # x.dst /\ refused \in Nat
      /\ refused <= stock[p][x.dst] /\ Moved(p, x.dst, x.src, refused)
      /\ i \in DOMAIN out /\ x = out[i] /\ x.verdict \in Nat
      /\ after = [k \in DOMAIN out \ {i} |-> out[k]] /\ nextXferId'[p] = n
  BY DEF SettledDone, Out
<1> HIDE DEF refused
<1>2. /\ stock'[p][x.dst] = stock[p][x.dst] - refused /\ stock'[p][x.src] = stock[p][x.src] + refused
      /\ \A r, c \in Traders : r # p \/ c \notin {x.dst, x.src} => stock'[r][c] = stock[r][c]
  BY <1>1, MovedUnits, TypesSplit DEF StockTypes
<1>3. DragsOk(p, out, n) /\ n \in Nat /\ \A c \in Traders : stock[p][c] \in Nat
  BY TypesOfPlayer
<1>4. DragsOk(p, after, n)
  BY <1>1, TypesSplitNext DEF DragTypes
<1> HIDE DEF out, after, n
<1>5. /\ i \notin DOMAIN after /\ DOMAIN out = DOMAIN after \union {i}
      /\ \A l \in DOMAIN after : out[l] = after[l]
  BY <1>1
<1>6. ASSUME NEW c PROVE DueSum(c, out) = DueSum(c, after) + Due(c, out[i]) /\ DueSum(c, after) \in Int
  BY <1>3, <1>4, <1>5, DueAdds, DueTypes
<1>7. \A c : Due(c, out[i]) = IF c = x.dst THEN refused ELSE 0
  BY <1>1 DEF Due, refused
<1>8. ASSUME NEW c \in Traders PROVE stock'[p][c] >= DueSum(c, after)
  <2>1. stock[p][c] >= DueSum(c, out) /\ stock[p][c] \in Nat
    BY <1>3 DEF ReversibleOf, out
  <2>2. /\ DueSum(c, out) = DueSum(c, after) + (IF c = x.dst THEN refused ELSE 0)
        /\ DueSum(c, after) \in Int
    BY <1>6, <1>7
  <2>3. stock'[p][c] = IF c = x.dst THEN stock[p][c] - refused
                       ELSE IF c = x.src THEN stock[p][c] + refused ELSE stock[p][c]
    BY <1>1, <1>2
  <2> QED BY <1>1, <2>1, <2>2, <2>3
<1> QED BY <1>2, <1>8 DEF ReversibleOf, after

LEMMA AcksReversible ==
    ASSUME TradeTypes, ReceivedInv, NEW p \in Traders, ReversibleOf(p), applyXferAcks(p)
    PROVE  ReversibleOf(p)' /\ \A r \in Traders \ {p} : xferOut'[r] = xferOut[r]
<1> DEFINE out == xferOut[p]
           after == xferOut'[p]
           n == nextXferId[p]
<1>1. /\ after = [i \in DOMAIN out |-> Judged(p, i)] /\ UNCHANGED <<stock, nextXferId>>
      /\ \A r \in Traders \ {p} : xferOut'[r] = xferOut[r]
  BY TypesSplit DEF applyXferAcks, DragTypes, Out
<1>2. DragsOk(p, out, n) /\ n \in Nat /\ \A c \in Traders : stock[p][c] \in Nat
  BY TypesOfPlayer
<1>3. DragsOk(p, after, n)
  BY <1>1, AcksTyped, TypesSplitNext DEF DragTypes
<1>4. ASSUME NEW c, NEW i \in DOMAIN out PROVE Due(c, after[i]) <= Due(c, out[i])
  <2>1. after[i] = Judged(p, i) /\ i \in Out(p)
    BY <1>1 DEF Out
  <2>2. out[i] \in Drags
    BY <1>2 DEF DragsOk, DragOk
  <2>3. CASE Against(p, i) = {}
    <3>1. after[i] = out[i]
      BY <2>1, <2>3, JudgedIs
    <3>2. Due(c, out[i]) \in Nat
      BY <1>2, DueTypes
    <3> QED BY <3>1, <3>2
  <2>4. ASSUME NEW m \in Against(p, i) PROVE Due(c, after[i]) <= Due(c, out[i])
    <3>1. /\ after[i] = [out[i] EXCEPT !.verdict = m.moved] /\ out[i].verdict = -1
          /\ m.moved \in Nat /\ m.moved <= out[i].qty
      BY <2>1, JudgedIs
    <3>2. after[i].dst = out[i].dst /\ after[i].qty = out[i].qty /\ after[i].verdict = m.moved
          /\ out[i].qty \in Nat
      BY <2>2, <3>1 DEF Drags
    <3> QED BY <3>1, <3>2 DEF Due
  <2> QED BY <2>3, <2>4
<1> HIDE DEF out, after, n
<1>5. ASSUME NEW c \in Traders PROVE stock'[p][c] >= DueSum(c, after)
  <2>1. stock[p][c] >= DueSum(c, out) /\ stock[p][c] \in Nat
    BY <1>2 DEF ReversibleOf, out
  <2>2. DOMAIN after = DOMAIN out
    BY <1>1
  <2>3. DueSum(c, after) <= DueSum(c, out)
    BY <1>2, <1>3, <1>4, <2>2, DueAtMost
  <2>4. DueSum(c, after) \in Int /\ DueSum(c, out) \in Int
    BY <1>2, <1>3, DueTypes
  <2> QED BY <1>1, <2>1, <2>3, <2>4
<1> QED BY <1>1, <1>5 DEF ReversibleOf, after

LEMMA GameReversible ==
    ASSUME TradeTypes, Reversible, NEW p \in Traders, Find(p) \/ Spend(p) PROVE Reversible'
<1>1. ASSUME NEW r \in Traders PROVE ReversibleOf(r)'
  <2>1. ReversibleOf(r) /\ xferOut' = xferOut
    BY ReversibleSplit DEF Find, Spend, trading
  <2>2. stock \in [Traders -> [Traders -> Nat]]
    BY TypesSplit DEF StockTypes
  <2>3. CASE r # p
    <3>1. stock'[r] = stock[r]
      BY <2>2, <2>3 DEF Find, Spend
    <3> QED BY <2>1, <3>1 DEF ReversibleOf
  <2>4. CASE r = p
    <3>1. \A c \in Traders : /\ stock[p][c] >= DueSum(c, xferOut[p]) /\ stock[p][c] \in Nat
                             /\ DueSum(c, xferOut[p]) \in Int
      BY <2>1, <2>4, TypesOfPlayer, DueTypes DEF ReversibleOf
    <3>2. \A c \in Traders : c # p => stock'[p][c] = stock[p][c]
      BY <2>2 DEF Find, Spend
    <3>3. stock'[p][p] >= DueSum(p, xferOut[p])
      <4>1. CASE Find(p)
        <5>1. stock'[p][p] = stock[p][p] + 1
          BY <2>2, <4>1 DEF Find
        <5> QED BY <3>1, <5>1
      <4>2. CASE Spend(p)
        <5>1. stock'[p][p] = stock[p][p] - 1 /\ stock[p][p] > 0 /\ ~Reserved(p, p)
          BY <2>2, <4>2 DEF Spend
        <5>2. DueSum(p, xferOut[p]) = 0
          BY <5>1, TypesOfPlayer
        <5> QED BY <3>1, <5>1, <5>2
      <4> QED BY <4>1, <4>2
    <3> QED BY <2>1, <2>4, <3>1, <3>2, <3>3 DEF ReversibleOf
  <2> QED BY <2>3, <2>4
<1> QED BY <1>1, ReversibleSplitNext

LEMMA ApplyReversible ==
    ASSUME TradeTypes, TradeTypes', Reversible, NEW p \in Traders, NEW c \in Others(p),
           applyInventories(p, c)
    PROVE  Reversible'
<1>1. c \in Traders
  BY OtherTrader
<1>2. stock \in [Traders -> [Traders -> Nat]] /\ \A r, k \in Traders : stock'[r][k] \in Nat
  BY TypesSplit, TypesSplitNext DEF StockTypes
<1>3. xferOut' = xferOut /\ ~Reserved(p, c)
      /\ \A r, k \in Traders : r # p \/ k # c => stock'[r][k] = stock[r][k]
  BY <1>1, <1>2 DEF applyInventories, trading
<1>4. DueSum(c, xferOut[p]) = 0
  BY <1>1, <1>3, TypesOfPlayer
<1>5. ASSUME NEW r \in Traders, NEW k \in Traders PROVE stock'[r][k] >= DueSum(k, xferOut[r])
  <2>1. stock[r][k] >= DueSum(k, xferOut[r])
    BY ReversibleSplit DEF ReversibleOf
  <2>2. CASE r = p /\ k = c
    BY <1>1, <1>2, <1>4, <2>2
  <2> QED BY <1>3, <2>1, <2>2
<1> QED BY <1>3, <1>5, ReversibleSplitNext DEF ReversibleOf

LEMMA LeftReversible ==
    ASSUME TradeTypes, Reversible, NEW q \in online, LeftDone(q) PROVE Reversible'
<1>1. ASSUME NEW p \in Traders, NEW c \in Traders PROVE stock'[p][c] >= DueSum(c, xferOut'[p])
  <2> DEFINE out == xferOut[p]
             n == nextXferId[p]
  <2>1. DragsOk(p, out, n) /\ n \in Nat /\ stock[p][c] \in Nat
    BY TypesOfPlayer
  <2>2. stock[p][c] >= DueSum(c, out) /\ stock'[p][c] = stock[p][c]
    BY ReversibleSplit DEF ReversibleOf, LeftDone
  <2>3. CASE p \in Here(q)
    <3> DEFINE after == Retire(out, q)
    <3>1. xferOut'[p] = after
      BY <2>3 DEF LeftDone
    <3>2. DOMAIN after = DOMAIN out
          /\ \A i \in DOMAIN out : \E b \in BOOLEAN : after[i] = [out[i] EXCEPT !.retired = b]
      BY RetireIs
    <3> HIDE DEF after, out, n
    <3>3. \A i \in DOMAIN out : DueOf(c, out)[i] = DueOf(c, after)[i]
      <4>1. ASSUME NEW i \in DOMAIN out PROVE Due(c, after[i]) = Due(c, out[i])
        <5>1. DragOk(p, out[i])
          BY <2>1 DEF DragsOk
        <5>2. PICK b \in BOOLEAN : after[i] = [out[i] EXCEPT !.retired = b]
          BY <3>2
        <5>3. after[i].dst = out[i].dst /\ after[i].qty = out[i].qty
              /\ after[i].verdict = out[i].verdict
          BY <5>1, <5>2, RetireOk
        <5> QED BY <5>3 DEF Due
      <4> QED BY <3>2, <4>1 DEF DueOf
    <3>4. DueSum(c, after) = DueSum(c, out)
      <4>1. IsFiniteSet(DOMAIN out)
        BY <2>1, DueTypes
      <4>2. SumFunctionOnSet(DueOf(c, out), DOMAIN out) = SumFunctionOnSet(DueOf(c, after), DOMAIN out)
        BY <3>3, <4>1, SumSame
      <4> QED BY <3>2, <4>2 DEF DueSum
    <3> QED BY <2>2, <3>1, <3>4
  <2>4. CASE p \notin Here(q)
    <3>1. xferOut'[p] = <<>>
      BY <2>4 DEF LeftDone
    <3>2. DueSum(c, <<>>) = 0
      BY FS_EmptySet, SumOfZeros DEF DueSum
    <3> QED BY <2>1, <2>2, <3>1, <3>2
  <2> QED BY <2>3, <2>4
<1> QED BY <1>1, ReversibleSplitNext DEF ReversibleOf

LEMMA ReversibleNext ==
    ASSUME TradeInv, TradeInv', Reversible, [TradeNext]_tradeVars PROVE Reversible'
<1>1. TradeTypes /\ TradeTypes' /\ ReceivedInv
  BY DEF TradeInv
<1>2. \A r \in Traders : ReversibleOf(r)
  BY ReversibleSplit
<1>3. ASSUME UNCHANGED <<stock, xferOut>> PROVE Reversible'
  BY <1>2, <1>3, ReversibleSplitNext DEF ReversibleOf
<1>4. ASSUME NEW p \in Traders, ReversibleOf(p)',
             \A r \in Traders \ {p} : \A c \in Traders : stock'[r][c] = stock[r][c],
             \A r \in Traders \ {p} : xferOut'[r] = xferOut[r]
      PROVE  Reversible'
  BY <1>2, <1>4, OthersReversible, ReversibleSplitNext
<1>5. ASSUME NEW p \in Traders, NEW peer \in Others(p), NEW q \in Nat \ {0}, NEW src, NEW dst,
             EndsAre(p, peer, src, dst), detectAndPublishTransfers(p, peer, src, dst, q)
      PROVE  Reversible'
  <2>1. DragDone(p, peer, src, dst, q)
    BY <1>5, DragKeeps
  <2>2. ReversibleOf(p)' /\ \A r \in Traders \ {p} : \A c \in Traders : stock'[r][c] = stock[r][c]
    BY <1>1, <1>2, <1>5, <2>1, DragReversible
  <2>3. \A r \in Traders \ {p} : xferOut'[r] = xferOut[r]
    BY <2>1 DEF DragDone
  <2> QED BY <1>4, <2>2, <2>3
<1>6. ASSUME NEW p \in Traders, NEW q \in Others(p), applyTransfers(p, q) PROVE Reversible'
  <2>1. PICK x, n : TakenDone(p, q, x, n)
    BY <1>6, TakenKeeps
  <2>2. ReversibleOf(p)' /\ \A r \in Traders \ {p} : \A c \in Traders : stock'[r][c] = stock[r][c]
    BY <1>1, <1>2, <2>1, TakenReversible
  <2>3. \A r \in Traders \ {p} : xferOut'[r] = xferOut[r]
    BY <2>1 DEF TakenDone
  <2> QED BY <1>4, <2>2, <2>3
<1>7. ASSUME NEW p \in Traders, SettleDrag(p) PROVE Reversible'
  <2>1. PICK i, x : SettledDone(p, i, x)
    BY <1>7, SettleKeeps
  <2> QED BY <1>1, <1>2, <1>4, <2>1, SettleReversible DEF SettledDone
<1>8. ASSUME NEW p \in Traders, applyXferAcks(p) PROVE Reversible'
  <2>1. stock' = stock
    BY <1>8 DEF applyXferAcks
  <2> QED BY <1>1, <1>2, <1>4, <1>8, <2>1, AcksReversible
<1>9. ASSUME NEW p \in Traders, NEW c \in Others(p), applyInventories(p, c) PROVE Reversible'
  BY <1>1, <1>9, ApplyReversible
<1>10. ASSUME NEW p \in Traders, Find(p) \/ Spend(p) PROVE Reversible'
  BY <1>1, <1>10, GameReversible
<1>11. ASSUME NEW p \in Traders, NEW q \in Others(p), ingestInv(p, q) PROVE Reversible'
  BY <1>3, <1>11 DEF ingestInv, trading
<1>12. ASSUME NEW p \in Traders, publishDeferredInventoryCommits(p) \/ publishInventories(p)
       PROVE  Reversible'
  BY <1>3, <1>12, PublishKeeps DEF Published
<1>13. ASSUME NEW q \in online, onPeerDisconnected(q) PROVE Reversible'
  BY <1>1, <1>13, LeftKeeps, LeftReversible
<1>14. CASE UNCHANGED tradeVars
  BY <1>3, <1>14 DEF tradeVars
<1> QED BY <1>1, <1>5, <1>6, <1>7, <1>8, <1>9, <1>10, <1>11, <1>12, <1>13, <1>14, TradeSteps

(* InventoryTransfer.tla's Reversible: the units whose verdict is out are  *)
(* still where they were put, whatever snapshots, trades of others and the *)
(* game do in between, so that applyXferAcks can move every refusal back.  *)
THEOREM TradeReversible == TradeSpec => []Reversible
<1>1. TradeInit => Reversible
  <2> SUFFICES ASSUME TradeInit PROVE Reversible
    OBVIOUS
  <2>1. ASSUME NEW p \in Traders, NEW c \in Traders PROVE stock[p][c] >= DueSum(c, xferOut[p])
    <3>1. xferOut[p] = <<>> /\ stock[p][c] \in Nat
      BY TransferAssumption DEF TradeInit
    <3>2. DueSum(c, <<>>) = 0
      BY FS_EmptySet, SumOfZeros DEF DueSum
    <3> QED BY <3>1, <3>2
  <2> QED BY <2>1, ReversibleSplit DEF ReversibleOf
<1>2. TradeInv /\ TradeInv' /\ Reversible /\ [TradeNext]_tradeVars => Reversible'
  BY ReversibleNext
<1> QED BY <1>1, <1>2, TradeInductive, PTL DEF TradeSpec

-----------------------------------------------------------------------------
(* The units that p's copy has too few, or too many, for the drag x while  *)
(* the verdicts V on it are on their way, and the sum of them over drags.  *)
Owes(p, x, V) ==
    LET unmoved == IF x.verdict >= 0 THEN x.qty - x.verdict
                   ELSE IF V = {} THEN x.qty ELSE x.qty - (CHOOSE m \in V : TRUE).moved
    IN  IF x.src = p THEN unmoved ELSE -unmoved
OwesOf(p, out, ons) == [i \in DOMAIN out |-> Owes(p, out[i], ons[i])]
OwesSum(p, out, ons) == SumFunctionOnSet(OwesOf(p, out, ons), DOMAIN out)
Ons(p) == [i \in Out(p) |-> VerdictsOn(p, i)]
Books == [p \in Traders |-> Holding(p)]

LEMMA RangeOfAppend ==
    ASSUME NEW S, NEW s \in Seq(S), NEW e \in S
    PROVE  Range(Append(s, e)) = Range(s) \union {e}
<1>1. /\ DOMAIN Append(s, e) = 1 .. Len(s) + 1 /\ DOMAIN s = 1 .. Len(s) /\ Len(s) \in Nat
      /\ \A k \in 1 .. Len(s) : Append(s, e)[k] = s[k]
      /\ Append(s, e)[Len(s) + 1] = e
  OBVIOUS
<1>2. ASSUME NEW v \in Range(Append(s, e)) PROVE v \in Range(s) \union {e}
  <2>1. PICK k \in 1 .. Len(s) + 1 : v = Append(s, e)[k]
    BY <1>1, <1>2 DEF Range
  <2>2. k \in 1 .. Len(s) \/ k = Len(s) + 1
    BY <1>1, <2>1
  <2> QED BY <1>1, <2>1, <2>2 DEF Range
<1>3. ASSUME NEW v \in Range(s) PROVE v \in Range(Append(s, e))
  <2>1. PICK k \in 1 .. Len(s) : v = s[k]
    BY <1>1, <1>3 DEF Range
  <2>2. k \in 1 .. Len(s) + 1
    BY <1>1
  <2> QED BY <1>1, <2>1, <2>2 DEF Range
<1>4. e \in Range(Append(s, e))
  <2>1. Len(s) + 1 \in 1 .. Len(s) + 1
    BY <1>1
  <2> QED BY <1>1, <2>1 DEF Range
<1> QED BY <1>2, <1>3, <1>4

LEMMA RangeOfTail ==
    ASSUME NEW S, NEW s \in Seq(S), s # <<>>
    PROVE  Range(s) = Range(Tail(s)) \union {Head(s)}
<1>1. /\ DOMAIN Tail(s) = 1 .. Len(s) - 1 /\ DOMAIN s = 1 .. Len(s) /\ Len(s) \in Nat \ {0}
      /\ \A k \in 1 .. Len(s) - 1 : Tail(s)[k] = s[k + 1]
      /\ Head(s) = s[1]
  OBVIOUS
<1>2. ASSUME NEW v \in Range(s) PROVE v \in Range(Tail(s)) \union {Head(s)}
  <2>1. PICK k \in 1 .. Len(s) : v = s[k]
    BY <1>1, <1>2 DEF Range
  <2>2. CASE k = 1
    BY <1>1, <2>1, <2>2
  <2>3. CASE k # 1
    <3>1. k - 1 \in 1 .. Len(s) - 1 /\ (k - 1) + 1 = k
      BY <1>1, <2>3
    <3>2. v = Tail(s)[k - 1]
      BY <1>1, <2>1, <3>1
    <3> QED BY <1>1, <3>1, <3>2 DEF Range
  <2> QED BY <2>2, <2>3
<1>3. ASSUME NEW v \in Range(Tail(s)) PROVE v \in Range(s)
  <2>1. PICK k \in 1 .. Len(s) - 1 : v = Tail(s)[k]
    BY <1>1, <1>3 DEF Range
  <2>2. k + 1 \in 1 .. Len(s) /\ v = s[k + 1]
    BY <1>1, <2>1
  <2> QED BY <1>1, <2>2 DEF Range
<1>4. Head(s) \in Range(s)
  <2>1. 1 \in 1 .. Len(s)
    BY <1>1
  <2> QED BY <1>1, <2>1 DEF Range
<1> QED BY <1>2, <1>3, <1>4

LEMMA PledgedIs ==
    /\ \A p, i : Pledged(p, i) = Owes(p, xferOut[p][i], VerdictsOn(p, i))
    /\ \A p, i : Pledged(p, i)' = Owes(p, xferOut'[p][i], VerdictsOn(p, i)')
BY DEF Pledged, Unmoved, Owes

LEMMA HoldingIs == \A p : Holding(p) = stock[p][p] + OwesSum(p, xferOut[p], Ons(p))
<1> TAKE p
<1>1. [i \in Out(p) |-> Pledged(p, i)] = OwesOf(p, xferOut[p], Ons(p))
  BY PledgedIs DEF OwesOf, Ons, Out
<1> QED BY <1>1 DEF Holding, SumFunction, OwesSum, Out

LEMMA HoldingIsNext == \A p : Holding(p)' = stock'[p][p] + OwesSum(p, xferOut'[p], Ons(p)')
<1> TAKE p
<1>1. [i \in Out(p)' |-> Pledged(p, i)'] = OwesOf(p, xferOut'[p], Ons(p)')
  BY PledgedIs DEF OwesOf, Ons, Out
<1> QED BY <1>1 DEF Holding, SumFunction, OwesSum, Out

LEMMA ConservedIs ==
    Conserved <=> (online = Session =>
        SumFunctionOnSet(Books, Traders)
        = Cardinality(Traders) * Units + events.found - events.spent)
BY DEF Conserved, Books, SumFunction

LEMMA ConservedIsNext ==
    Conserved' <=> (online' = Session =>
        SumFunctionOnSet(Books', Traders)
        = Cardinality(Traders) * Units + events'.found - events'.spent)
BY DEF Conserved, Books, SumFunction

(* At most one verdict on a drag is under way, and none when it is known.  *)
LEMMA OneVerdict ==
    ASSUME TradeTypes, NEW p \in Traders, PlayerInv(p), NEW i \in Out(p)
    PROVE  /\ \A m, o \in VerdictsOn(p, i) : m = o
           /\ \A m \in VerdictsOn(p, i) :
                /\ m \in Verdicts /\ m.of = Peer(p, xferOut[p][i])
                /\ xferOut[p][i].verdict = -1
<1> DEFINE c == Peer(p, xferOut[p][i])
           lane == inventory[c][p]
<1>1. c \in Traders
  BY TypesOfPlayer DEF DragsOk, DragOk, Drags, Out, Peer
<1>2. received[p] \subseteq Verdicts /\ lane \in Seq(Messages)
  BY <1>1, LaneTypes
<1>3. ASSUME NEW m \in received[p], m.id = i
      PROVE  /\ m.of = c /\ xferOut[p][i].verdict = -1 /\ Before(m, lane)
             /\ \A o \in received[p] : o.of = c /\ o.id = i => o = m
  BY <1>3 DEF PlayerInv, ReceivedOf, Fits, Out
<1>4. ASSUME NEW k \in 1 .. Len(lane), lane[k].kind = "verdict", lane[k].id = i
      PROVE  /\ lane[k].of = c /\ xferOut[p][i].verdict = -1 /\ lane[k] \in Verdicts
             /\ \A l \in 1 .. Len(lane) :
                   k < l /\ lane[l].kind = "verdict" => lane[k].id < lane[l].id
  <2>1. VerdictLane(p, c, lane, intents[p][c], xferOut[p], nextXferId[p])
    BY <1>1 DEF PlayerInv, VerdictsOf
  <2>2. lane[k] \in Verdicts
    <3>1. lane[k] \in Messages
      BY <1>2
    <3>2. "verdict" # "snapshot"
      OBVIOUS
    <3> QED BY <1>4, <3>1, <3>2 DEF Messages, Snapshots
  <2> QED BY <1>4, <2>1, <2>2 DEF VerdictLane, Fits, Out
<1>5. i \in Nat
  <2>1. Out(p) \subseteq 1 .. nextXferId[p] - 1
    BY TypesOfPlayer DEF DragsOk, Out
  <2> QED BY <2>1
<1>6. ASSUME NEW m \in VerdictsOn(p, i)
      PROVE  /\ m.kind = "verdict" /\ m.id = i
             /\ m \in received[p] \/ \E k \in 1 .. Len(lane) : m = lane[k]
  BY <1>2, <1>6 DEF VerdictsOn, Range
<1>7. ASSUME NEW m \in VerdictsOn(p, i)
      PROVE  m \in Verdicts /\ m.of = c /\ xferOut[p][i].verdict = -1
  BY <1>2, <1>3, <1>4, <1>6, <1>7
<1>8. ASSUME NEW m \in received[p], m.id = i, NEW k \in 1 .. Len(lane),
             lane[k].kind = "verdict", lane[k].id = i
      PROVE  FALSE
  <2>1. m.id < lane[k].id
    BY <1>3, <1>8 DEF Before
  <2> QED BY <1>5, <1>8, <2>1
<1>9. ASSUME NEW k \in 1 .. Len(lane), lane[k].kind = "verdict", lane[k].id = i,
             NEW l \in 1 .. Len(lane), lane[l].kind = "verdict", lane[l].id = i
      PROVE  k = l
  <2>1. ~(k < l) /\ ~(l < k)
    BY <1>4, <1>5, <1>9
  <2> QED BY <2>1
<1>10. ASSUME NEW m \in VerdictsOn(p, i), NEW o \in VerdictsOn(p, i) PROVE m = o
  <2>1. CASE m \in received[p] /\ o \in received[p]
    BY <1>3, <1>6, <2>1
  <2>2. CASE m \in received[p] /\ o \notin received[p]
    <3>1. PICK k \in 1 .. Len(lane) : o = lane[k]
      BY <1>6, <2>2
    <3> QED BY <1>6, <1>8, <2>2, <3>1
  <2>3. CASE m \notin received[p] /\ o \in received[p]
    <3>1. PICK k \in 1 .. Len(lane) : m = lane[k]
      BY <1>6, <2>3
    <3> QED BY <1>6, <1>8, <2>3, <3>1
  <2>4. CASE m \notin received[p] /\ o \notin received[p]
    <3>1. PICK k \in 1 .. Len(lane) : m = lane[k]
      BY <1>6, <2>4
    <3>2. PICK l \in 1 .. Len(lane) : o = lane[l]
      BY <1>6, <2>4
    <3> QED BY <1>6, <1>9, <3>1, <3>2
  <2> QED BY <2>1, <2>2, <2>3, <2>4
<1> QED BY <1>7, <1>10

LEMMA OwesTyped ==
    ASSUME NEW p, NEW x \in Drags, NEW V, \A m \in V : m.moved \in Nat
    PROVE  Owes(p, x, V) \in Int
<1>1. x.qty \in Nat /\ x.verdict \in Nat \union {-1}
  BY DEF Drags
<1>2. V # {} => (CHOOSE m \in V : TRUE) \in V
  OBVIOUS
<1> QED BY <1>1, <1>2 DEF Owes

LEMMA BooksTyped ==
    ASSUME TradeTypes, NEW p \in Traders, PlayerInv(p)
    PROVE  /\ IsFiniteSet(Out(p)) /\ DOMAIN xferOut[p] = Out(p)
           /\ \A i \in Out(p) : /\ OwesOf(p, xferOut[p], Ons(p))[i] \in Int
                                /\ OwesOf(p, xferOut[p], Ons(p))[i]
                                   = Owes(p, xferOut[p][i], VerdictsOn(p, i))
           /\ OwesSum(p, xferOut[p], Ons(p)) \in Int /\ Holding(p) \in Int
<1>1. IsFiniteSet(Out(p)) /\ DOMAIN xferOut[p] = Out(p)
  BY TypesOfPlayer, DueTypes DEF Out
<1>2. ASSUME NEW i \in Out(p)
      PROVE  /\ OwesOf(p, xferOut[p], Ons(p))[i] = Owes(p, xferOut[p][i], VerdictsOn(p, i))
             /\ Owes(p, xferOut[p][i], VerdictsOn(p, i)) \in Int
  <2>1. xferOut[p][i] \in Drags
    BY TypesOfPlayer DEF DragsOk, DragOk, Out
  <2>2. \A m \in VerdictsOn(p, i) : m.moved \in Nat
    BY OneVerdict DEF Verdicts
  <2>3. OwesOf(p, xferOut[p], Ons(p))[i] = Owes(p, xferOut[p][i], VerdictsOn(p, i))
    BY <1>1 DEF OwesOf, Ons
  <2> QED BY <2>1, <2>2, <2>3, OwesTyped
<1>3. OwesSum(p, xferOut[p], Ons(p)) \in Int
  BY <1>1, <1>2, SumType DEF OwesSum
<1>4. stock[p][p] \in Int
  BY TypesOfPlayer
<1> QED BY <1>1, <1>2, <1>3, <1>4, HoldingIs

(* Who takes no part in a step keeps what he holds, but for his stock.     *)
LEMMA HoldingQuiet ==
    ASSUME TradeTypes, NEW r \in Traders, xferOut'[r] = xferOut[r], received'[r] = received[r],
           \A c \in Traders : \/ inventory'[c][r] = inventory[c][r]
                              \/ \E m \in Snapshots :
                                    inventory'[c][r] = Append(inventory[c][r], m)
    PROVE  /\ Holding(r)' = stock'[r][r] + OwesSum(r, xferOut[r], Ons(r))
           /\ stock'[r][r] = stock[r][r] => Holding(r)' = Holding(r)
<1>1. ASSUME NEW i \in Out(r) PROVE VerdictsOn(r, i)' = VerdictsOn(r, i)
  <2> DEFINE c == Peer(r, xferOut[r][i])
  <2>1. c \in Traders
    BY TypesOfPlayer DEF DragsOk, DragOk, Drags, Out, Peer
  <2>2. CASE inventory'[c][r] = inventory[c][r]
    BY <2>2 DEF VerdictsOn, Peer
  <2>3. ASSUME NEW m \in Snapshots, inventory'[c][r] = Append(inventory[c][r], m)
        PROVE  VerdictsOn(r, i)' = VerdictsOn(r, i)
    <3>1. m.kind = "snapshot" /\ inventory[c][r] \in Seq(Messages) /\ m \in Messages
      BY <2>1, LaneTypes
    <3>2. Range(inventory'[c][r]) = Range(inventory[c][r]) \union {m}
      BY <2>3, <3>1, RangeOfAppend
    <3>3. m.kind # "verdict"
      BY <3>1
    <3>4. VerdictsOn(r, i)' = {o \in received[r] \union Range(inventory'[c][r]) :
                                 o.kind = "verdict" /\ o.id = i}
      BY DEF VerdictsOn, Peer
    <3> QED BY <3>2, <3>3, <3>4 DEF VerdictsOn
  <2> QED BY <2>1, <2>2, <2>3
<1>2. Ons(r)' = Ons(r)
  BY <1>1 DEF Ons, Out
<1> QED BY <1>2, HoldingIs, HoldingIsNext

(* No verdict names a drag that is yet to come.                            *)
LEMMA NoVerdictYet ==
    ASSUME TradeTypes, NEW p \in Traders, PlayerInv(p), NEW c \in Traders
    PROVE  \A m \in received[p] \union Range(inventory[c][p]) :
              m.kind = "verdict" => m.id # nextXferId[p]
<1> DEFINE lane == inventory[c][p]
<1>1. received[p] \subseteq Verdicts /\ lane \in Seq(Messages) /\ nextXferId[p] \in Nat
  BY LaneTypes
<1>2. ASSUME NEW m \in received[p] PROVE m.id # nextXferId[p]
  <2>1. m.id \in 1 .. nextXferId[p] - 1
    BY DEF PlayerInv, ReceivedOf, Fits
  <2> QED BY <1>1, <2>1
<1>3. ASSUME NEW k \in 1 .. Len(lane), lane[k].kind = "verdict" PROVE lane[k].id # nextXferId[p]
  <2>1. lane[k].id \in 1 .. nextXferId[p] - 1
    BY <1>3 DEF PlayerInv, VerdictsOf, VerdictLane, Fits
  <2> QED BY <1>1, <2>1
<1> QED BY <1>1, <1>2, <1>3 DEF Range

LEMMA DragBooks ==
    ASSUME TradeTypes, NEW p \in Traders, PlayerInv(p), NEW peer \in Others(p), NEW src, NEW dst,
           EndsAre(p, peer, src, dst), NEW q \in Nat \ {0}, DragDone(p, peer, src, dst, q)
    PROVE  Holding(p)' = Holding(p) /\ \A r \in Traders \ {p} : stock'[r][r] = stock[r][r]
<1> DEFINE out == xferOut[p]
           after == xferOut'[p]
<1>0. PICK i, x : i = nextXferId[p] /\ x = NewDrag(p, peer, src, dst, q)
  OBVIOUS
<1>1. peer \in Traders /\ peer # p /\ src \in Traders /\ dst \in Traders /\ src # dst
  BY OtherTrader DEF EndsAre
<1>2. /\ stock'[p][src] = stock[p][src] - q /\ stock'[p][dst] = stock[p][dst] + q
      /\ \A r, c \in Traders : r # p \/ c \notin {src, dst} => stock'[r][c] = stock[r][c]
  <2>1. /\ stock \in [Traders -> [Traders -> Nat]] /\ q \in Nat
        /\ q <= stock[p][src] /\ Moved(p, src, dst, q)
    BY TypesSplit DEF DragDone, StockTypes
  <2> QED BY <1>1, <2>1, MovedUnits
<1>3. /\ DOMAIN after = DOMAIN out \union {i} /\ i \notin DOMAIN out /\ DOMAIN out = Out(p)
      /\ after[i] = x /\ (\A l \in DOMAIN out : after[l] = out[l])
      /\ received' = received /\ inventory' = inventory
  BY <1>0 DEF DragDone, Out
<1> HIDE DEF after
<1>4. \A l \in Out(p) : VerdictsOn(p, l)' = VerdictsOn(p, l)
  BY <1>3 DEF VerdictsOn, Peer, after
<1>5. VerdictsOn(p, i)' = {}
  <2>1. Peer(p, x) = peer
    BY <1>0, <1>1 DEF Peer, NewDrag, EndsAre
  <2>2. VerdictsOn(p, i)' = {m \in received'[p] \union Range(inventory'[Peer(p, after[i])][p]) :
                                m.kind = "verdict" /\ m.id = i}
    BY DEF VerdictsOn, Peer, after
  <2>3. VerdictsOn(p, i)' = {m \in received[p] \union Range(inventory[peer][p]) :
                                m.kind = "verdict" /\ m.id = i}
    BY <1>3, <2>1, <2>2
  <2> QED BY <1>0, <1>1, <2>3, NoVerdictYet
<1>6. Ons(p)' = [l \in DOMAIN after |-> VerdictsOn(p, l)']
  BY DEF Ons, Out, after
<1> DEFINE f == OwesOf(p, out, Ons(p))
           g == OwesOf(p, after, Ons(p)')
<1>7. \A l \in DOMAIN out : f[l] \in Int /\ f[l] = Owes(p, out[l], VerdictsOn(p, l))
  BY <1>3, BooksTyped
<1>8. \A l \in DOMAIN after : g[l] = Owes(p, after[l], VerdictsOn(p, l)')
  BY <1>6 DEF OwesOf
<1>9. g[i] = IF src = p THEN q ELSE -q
  <2>1. g[i] = Owes(p, x, {})
    BY <1>3, <1>5, <1>8
  <2> QED BY <1>0, <2>1 DEF Owes, NewDrag
<1>10. \A l \in DOMAIN out : g[l] = f[l]
  BY <1>3, <1>4, <1>7, <1>8
<1> HIDE DEF f, g, out
<1>11. SumFunctionOnSet(g, DOMAIN out \union {i}) = SumFunctionOnSet(f, DOMAIN out) + g[i]
  <2>1. IsFiniteSet(DOMAIN out) /\ g[i] \in Int
    BY <1>9, BooksTyped DEF out
  <2> QED BY <1>3, <1>7, <1>10, <2>1, SumExtends
<1>12. OwesSum(p, after, Ons(p)') = OwesSum(p, out, Ons(p)) + (IF src = p THEN q ELSE -q)
  BY <1>3, <1>9, <1>11 DEF OwesSum, f, g
<1>13. stock'[p][p] = stock[p][p] - (IF src = p THEN q ELSE -q)
  <2>1. stock[p][p] \in Int
    BY TypesOfPlayer
  <2>2. CASE src = p /\ dst = peer
    BY <1>2, <2>1, <2>2
  <2>3. CASE src = peer /\ dst = p
    BY <1>1, <1>2, <2>1, <2>3
  <2> QED BY <2>2, <2>3 DEF EndsAre
<1>14. stock[p][p] \in Int /\ OwesSum(p, out, Ons(p)) \in Int
  BY TypesOfPlayer, BooksTyped DEF out
<1>15. Holding(p)' = Holding(p)
  <2>1. Holding(p) = stock[p][p] + OwesSum(p, out, Ons(p))
    BY HoldingIs DEF out
  <2>2. Holding(p)' = stock'[p][p] + OwesSum(p, after, Ons(p)')
    BY HoldingIsNext DEF after
  <2> QED BY <1>12, <1>13, <1>14, <2>1, <2>2
<1> QED BY <1>2, <1>15

LEMMA SettleBooks ==
    ASSUME TradeTypes, NEW p \in Traders, PlayerInv(p), NEW i, NEW x, SettledDone(p, i, x)
    PROVE  Holding(p)' = Holding(p) /\ \A r \in Traders \ {p} : stock'[r][r] = stock[r][r]
<1> DEFINE out == xferOut[p]
           after == xferOut'[p]
           refused == x.qty - x.verdict
<1>1. /\ x.src \in Traders /\ x.dst \in Traders /\ x.src # x.dst /\ refused \in Nat
      /\ refused <= stock[p][x.dst] /\ Moved(p, x.dst, x.src, refused)
      /\ i \in DOMAIN out /\ x = out[i] /\ x.verdict \in Nat
      /\ after = [k \in DOMAIN out \ {i} |-> out[k]]
      /\ received' = received /\ inventory' = inventory
  BY DEF SettledDone, Out
<1> HIDE DEF refused
<1>2. /\ stock'[p][x.dst] = stock[p][x.dst] - refused /\ stock'[p][x.src] = stock[p][x.src] + refused
      /\ \A r, c \in Traders : r # p \/ c \notin {x.dst, x.src} => stock'[r][c] = stock[r][c]
  BY <1>1, MovedUnits, TypesSplit DEF StockTypes
<1> HIDE DEF after
<1>3. /\ DOMAIN after = DOMAIN out \ {i} /\ DOMAIN out = Out(p)
      /\ \A l \in DOMAIN after : after[l] = out[l]
  BY <1>1 DEF Out
<1>4. \A l \in DOMAIN after : VerdictsOn(p, l)' = VerdictsOn(p, l)
  BY <1>1, <1>3 DEF VerdictsOn, Peer, after
<1>5. Ons(p)' = [l \in DOMAIN after |-> VerdictsOn(p, l)']
  BY DEF Ons, Out, after
<1> DEFINE f == OwesOf(p, out, Ons(p))
           g == OwesOf(p, after, Ons(p)')
<1>6. \A l \in DOMAIN out : f[l] \in Int /\ f[l] = Owes(p, out[l], VerdictsOn(p, l))
  BY <1>3, BooksTyped
<1>7. \A l \in DOMAIN after : g[l] = Owes(p, after[l], VerdictsOn(p, l)')
  BY <1>5 DEF OwesOf
<1>8. \A l \in DOMAIN after : g[l] = f[l] /\ g[l] \in Int
  BY <1>3, <1>4, <1>6, <1>7
<1>9. f[i] = IF x.src = p THEN refused ELSE -refused
  <2>1. f[i] = Owes(p, x, VerdictsOn(p, i)) /\ x.verdict >= 0
    BY <1>1, <1>6
  <2> QED BY <2>1 DEF Owes, refused
<1>10. IsFiniteSet(DOMAIN after)
  <2>1. IsFiniteSet(DOMAIN out)
    BY <1>3, BooksTyped
  <2> QED BY <1>3, <2>1, FS_Subset
<1> HIDE DEF f, g, out
<1>11. SumFunctionOnSet(f, DOMAIN after \union {i}) = SumFunctionOnSet(g, DOMAIN after) + f[i]
  <2>1. f[i] \in Int /\ i \notin DOMAIN after
    BY <1>1, <1>3, <1>6
  <2> QED BY <1>8, <1>10, <2>1, SumExtends
<1>12. DOMAIN after \union {i} = DOMAIN out
  BY <1>1, <1>3
<1>13. OwesSum(p, out, Ons(p)) = OwesSum(p, after, Ons(p)') + (IF x.src = p THEN refused ELSE -refused)
  BY <1>9, <1>11, <1>12 DEF OwesSum, f, g
<1>14. (x.src = p) # (x.dst = p)
  <2>1. DragsOk(p, out, nextXferId[p])
    BY TypesOfPlayer DEF out
  <2> QED BY <1>1, <2>1 DEF DragsOk, DragOk
<1>15. stock'[p][p] = stock[p][p] + (IF x.src = p THEN refused ELSE -refused)
  BY <1>1, <1>2, <1>14
<1>16. stock[p][p] \in Int /\ OwesSum(p, after, Ons(p)') \in Int
  <2>1. SumFunctionOnSet(g, DOMAIN after) \in Int
    BY <1>8, <1>10, SumType
  <2> QED BY <2>1, TypesOfPlayer DEF OwesSum, g
<1>17. Holding(p)' = Holding(p)
  <2>1. Holding(p) = stock[p][p] + OwesSum(p, out, Ons(p))
    BY HoldingIs DEF out
  <2>2. Holding(p)' = stock'[p][p] + OwesSum(p, after, Ons(p)')
    BY HoldingIsNext DEF after
  <2> QED BY <1>1, <1>13, <1>15, <1>16, <2>1, <2>2
<1> QED BY <1>1, <1>2, <1>14, <1>17

(* As long as nobody has left, no drag is retired.                         *)
NoneRetired ==
    online = Session => \A p \in Traders : \A i \in Out(p) : ~xferOut[p][i].retired

LEMMA AcksBooks ==
    ASSUME TradeTypes, ReceivedInv, NEW p \in Traders, PlayerInv(p),
           \A i \in Out(p) : ~xferOut[p][i].retired, applyXferAcks(p)
    PROVE  Holding(p)' = Holding(p) /\ \A i \in Out(p)' : ~xferOut'[p][i].retired
<1> DEFINE out == xferOut[p]
           after == xferOut'[p]
<1>1. /\ after = [i \in Out(p) |-> Judged(p, i)] /\ received'[p] = {}
      /\ UNCHANGED <<stock, inventory>> /\ DOMAIN out = Out(p)
  BY TypesSplit DEF applyXferAcks, DragTypes, SnapshotTypes, snapshots, Out
<1>2. DOMAIN after = Out(p)
  BY <1>1
<1> HIDE DEF after
<1>3. ASSUME NEW i \in Out(p)
      PROVE  /\ Owes(p, after[i], VerdictsOn(p, i)') = Owes(p, out[i], VerdictsOn(p, i))
             /\ ~after[i].retired
  <2> DEFINE x == out[i]
             lane == inventory[Peer(p, x)][p]
  <2>1. /\ DragOk(p, x) /\ ~x.retired /\ after[i] = Judged(p, i)
        /\ Peer(p, x) \in Traders /\ received[p] \subseteq Verdicts
    <3>1. DragOk(p, x)
      BY <1>1, TypesOfPlayer DEF DragsOk
    <3> QED BY <1>1, <3>1, LaneTypes DEF DragOk, Drags, Peer
  <2>2. VerdictsOn(p, i) = {m \in received[p] \union Range(lane) : m.kind = "verdict" /\ m.id = i}
    BY DEF VerdictsOn
  <2>3. VerdictsOn(p, i)' = {m \in Range(lane) : m.kind = "verdict" /\ m.id = i}
    <3>1. Peer(p, after[i]) = Peer(p, x)
      <4>1. CASE Against(p, i) = {}
        BY <2>1, <4>1, JudgedIs
      <4>2. ASSUME NEW m \in Against(p, i) PROVE Peer(p, after[i]) = Peer(p, x)
        <5>1. after[i] = [x EXCEPT !.verdict = m.moved]
          BY <2>1, JudgedIs
        <5> QED BY <2>1, <5>1 DEF DragOk, Drags, Peer
      <4> QED BY <4>1, <4>2
    <3>2. VerdictsOn(p, i)' = {m \in received'[p] \union Range(inventory'[Peer(p, after[i])][p]) :
                                 m.kind = "verdict" /\ m.id = i}
      BY DEF VerdictsOn, after, Peer
    <3> QED BY <1>1, <3>1, <3>2
  <2>4. CASE x.verdict >= 0
    <3>1. x.verdict # -1
      BY <2>4
    <3>2. after[i] = x
      BY <2>1, <3>1, JudgedIs
    <3> QED BY <2>1, <2>4, <3>2 DEF Owes
  <2>5. CASE ~(x.verdict >= 0) /\ Against(p, i) = {}
    <3>1. x.verdict = -1 /\ x.peer \in {Peer(p, x), Unknown}
      BY <2>1, <2>5 DEF DragOk, Drags
    <3>2. \A m \in received[p] : m.id # i
      <4>1. ASSUME NEW m \in received[p], m.id = i PROVE FALSE
        <5>1. m \in VerdictsOn(p, i)
          BY <2>1, <2>2, <4>1 DEF Verdicts
        <5>2. m.of = Peer(p, x)
          BY <5>1, OneVerdict
        <5> QED BY <2>1, <2>5, <3>1, <4>1, <5>2 DEF Against, AnswersTo
      <4> QED BY <4>1
    <3>3. VerdictsOn(p, i)' = VerdictsOn(p, i)
      BY <2>2, <2>3, <3>2
    <3>4. after[i] = x
      BY <2>1, <2>5, JudgedIs
    <3> QED BY <2>1, <3>3, <3>4
  <2>6. ASSUME ~(x.verdict >= 0), NEW m \in Against(p, i)
        PROVE  /\ Owes(p, after[i], VerdictsOn(p, i)') = Owes(p, out[i], VerdictsOn(p, i))
               /\ ~after[i].retired
    <3>1. /\ m \in received[p] /\ m.id = i /\ after[i] = [x EXCEPT !.verdict = m.moved]
          /\ m.moved \in Nat
      BY <2>1, JudgedIs
    <3>2. m \in VerdictsOn(p, i)
      BY <2>1, <2>2, <3>1 DEF Verdicts
    <3>3. (CHOOSE o \in VerdictsOn(p, i) : TRUE) = m
      <4>1. \A o \in VerdictsOn(p, i) : o = m
        BY <3>2, OneVerdict
      <4> QED BY <3>2, <4>1
    <3>4. after[i].src = x.src /\ after[i].qty = x.qty /\ after[i].verdict = m.moved
          /\ after[i].retired = x.retired
      BY <2>1, <3>1 DEF DragOk, Drags
    <3>5. Owes(p, x, VerdictsOn(p, i)) = IF x.src = p THEN x.qty - m.moved ELSE -(x.qty - m.moved)
      BY <2>6, <3>2, <3>3 DEF Owes
    <3>6. Owes(p, after[i], VerdictsOn(p, i)') = IF x.src = p THEN x.qty - m.moved
                                                 ELSE -(x.qty - m.moved)
      BY <3>1, <3>4 DEF Owes
    <3> QED BY <2>1, <3>4, <3>5, <3>6
  <2> QED BY <2>4, <2>5, <2>6
<1>4. OwesOf(p, after, Ons(p)') = OwesOf(p, out, Ons(p))
  <2>1. Ons(p)' = [i \in Out(p) |-> VerdictsOn(p, i)']
    BY <1>2 DEF Ons, Out, after
  <2> HIDE DEF out
  <2> QED BY <1>1, <1>2, <1>3, <2>1 DEF OwesOf, Ons
<1>5. OwesSum(p, after, Ons(p)') = OwesSum(p, out, Ons(p))
  BY <1>1, <1>2, <1>4 DEF OwesSum
<1>6. Holding(p)' = Holding(p)
  BY <1>1, <1>5, HoldingIs, HoldingIsNext DEF after
<1> QED BY <1>2, <1>3, <1>6 DEF Out, after

LEMMA IngestBooks ==
    ASSUME TradeTypes, NEW p \in Traders, PlayerInv(p), NEW q \in Others(p), ingestInv(p, q)
    PROVE  Holding(p)' = Holding(p)
<1> DEFINE lane == inventory[q][p]
           m == Head(lane)
<1>1. q \in Traders /\ q # p /\ lane \in Seq(Messages) /\ lane # <<>> /\ received[p] \subseteq Verdicts
  BY OtherTrader, LaneTypes DEF ingestInv
<1>2. /\ inventory'[q][p] = Tail(lane)
      /\ \A c \in Traders \ {q} : inventory'[c][p] = inventory[c][p]
      /\ received'[p] = IF m.kind = "snapshot" THEN received[p] ELSE received[p] \union {m}
      /\ UNCHANGED <<stock, xferOut>>
  <2>1. /\ inventory \in [Traders -> [Traders -> Seq(Messages)]]
        /\ received \in [Traders -> SUBSET Verdicts]
    BY TypesSplit DEF SnapshotTypes
  <2>2. /\ inventory' = [inventory EXCEPT ![q][p] = Tail(lane)]
        /\ received' = IF m.kind = "snapshot" THEN received
                       ELSE [received EXCEPT ![p] = received[p] \union {m}]
        /\ UNCHANGED <<stock, xferOut>>
    BY DEF ingestInv, trading
  <2> QED BY <1>1, <2>1, <2>2
<1>3. /\ Range(lane) = Range(Tail(lane)) \union {m} /\ m \in Messages
      /\ lane[1] = m /\ 1 \in 1 .. Len(lane)
  BY <1>1, RangeOfTail
<1> HIDE DEF lane, m
<1>4. ASSUME NEW i \in Out(p) PROVE VerdictsOn(p, i)' = VerdictsOn(p, i)
  <2> DEFINE c == Peer(p, xferOut[p][i])
  <2>1. c \in Traders
    BY TypesOfPlayer DEF DragsOk, DragOk, Drags, Out, Peer
  <2>2. /\ VerdictsOn(p, i) = {o \in received[p] \union Range(inventory[c][p]) :
                                 o.kind = "verdict" /\ o.id = i}
        /\ VerdictsOn(p, i)' = {o \in received'[p] \union Range(inventory'[c][p]) :
                                  o.kind = "verdict" /\ o.id = i}
    BY <1>2 DEF VerdictsOn, Peer
  <2>3. m.kind = "snapshot" \/ m.kind = "verdict"
    BY <1>3 DEF Messages, Snapshots, Verdicts
  <2>4. CASE c = q
    BY <1>2, <1>3, <2>2, <2>3, <2>4 DEF lane
  <2>5. CASE c # q
    <3>1. m.kind = "verdict" => m.id # i
      <4>1. m.kind = "verdict" =>
                m.of = q /\ Fits(p, m, intents[p][q], xferOut[p], nextXferId[p])
        BY <1>1, <1>3 DEF PlayerInv, VerdictsOf, VerdictLane, lane
      <4> QED BY <2>5, <4>1 DEF Fits, Out
    <3> QED BY <1>2, <2>1, <2>2, <2>3, <2>5, <3>1
  <2> QED BY <2>4, <2>5
<1>5. Ons(p)' = Ons(p)
  BY <1>2, <1>4 DEF Ons, Out
<1> QED BY <1>2, <1>5, HoldingIs, HoldingIsNext

(* Of a drag that p has taken and could move n units of, n more are where  *)
(* its player q believes them, and n have changed hands.                   *)
LEMMA TakenBooks ==
    ASSUME TradeInv, online = Session, NEW p \in Traders, NEW q, NEW x, NEW n,
           TakenDone(p, q, x, n)
    PROVE  LET d == IF x.src = q THEN n ELSE -n
           IN  /\ q \in Traders /\ q # p /\ d \in Int
               /\ Holding(p)' = Holding(p) + d /\ Holding(q)' = Holding(q) - d
               /\ \A r \in Traders \ {p, q} : Holding(r)' = Holding(r)
<1> DEFINE d == IF x.src = q THEN n ELSE -n
           out == xferOut[q]
           lane == inventory[p][q]
<1>0. PICK i : i = x.id
  OBVIOUS
<1>1. /\ q \in Traders /\ q # p /\ x \in Intents /\ EndsAre(q, p, x.src, x.dst)
      /\ intents[q][p] # <<>> /\ x = Head(intents[q][p])
      /\ n \in 0 .. x.qty /\ n <= stock[p][x.src] /\ Moved(p, x.src, x.dst, n)
      /\ UNCHANGED <<xferOut, received>>
  BY OtherTrader DEF TakenDone
<1>2. /\ x.src \in Traders /\ x.dst \in Traders /\ x.src # x.dst /\ i \in Nat /\ x.qty \in Nat
      /\ n \in Nat /\ d \in Int
  BY <1>0, <1>1 DEF EndsAre, Intents
<1>3. PICK m \in Verdicts : /\ m.kind = "verdict" /\ m.of = p /\ m.id = i /\ m.moved = n
                            /\ inventory'[p][q] = Append(lane, m)
  BY <1>0 DEF TakenDone
<1>4. /\ stock'[p][x.src] = stock[p][x.src] - n /\ stock'[p][x.dst] = stock[p][x.dst] + n
      /\ \A r, c \in Traders : r # p \/ c \notin {x.src, x.dst} => stock'[r][c] = stock[r][c]
  <2>1. stock \in [Traders -> [Traders -> Nat]]
    BY TypesSplit DEF TradeInv, StockTypes
  <2>2. /\ x.src \in Traders /\ x.dst \in Traders /\ x.src # x.dst
        /\ n \in Nat /\ n <= stock[p][x.src] /\ Moved(p, x.src, x.dst, n)
    BY <1>1, <1>2
  <2> QED BY <2>1, <2>2, MovedUnits
<1>5. TradeTypes /\ \A r \in Traders : PlayerInv(r)
  BY TradeInvSplit
<1>6. Holding(p)' = Holding(p) + d
  <2>1. \A c \in Traders : inventory'[c][p] = inventory[c][p]
    BY DEF TakenDone, Others
  <2>2. Holding(p)' = stock'[p][p] + OwesSum(p, xferOut[p], Ons(p))
    BY <1>1, <1>5, <2>1, HoldingQuiet
  <2>3. stock[p][p] \in Int /\ OwesSum(p, xferOut[p], Ons(p)) \in Int
    BY <1>5, TypesOfPlayer, BooksTyped
  <2>4. stock'[p][p] = stock[p][p] + d
    <3>1. CASE x.src = q /\ x.dst = p
      BY <1>2, <1>4, <2>3, <3>1
    <3>2. CASE x.src = p /\ x.dst = q
      BY <1>1, <1>2, <1>4, <2>3, <3>2
    <3> QED BY <1>1, <3>1, <3>2 DEF EndsAre
  <2>5. Holding(p) = stock[p][p] + OwesSum(p, xferOut[p], Ons(p))
    BY HoldingIs
  <2> QED BY <1>2, <2>2, <2>3, <2>4, <2>5
<1>7. ASSUME NEW r \in Traders \ {p, q} PROVE Holding(r)' = Holding(r)
  <2>1. \A c \in Traders : \/ inventory'[c][r] = inventory[c][r]
                           \/ \E o \in Snapshots :
                                 inventory'[c][r] = Append(inventory[c][r], o)
    BY DEF TakenDone
  <2>2. stock'[r][r] = stock[r][r]
    BY <1>4
  <2> QED BY <1>1, <1>5, <2>1, <2>2, HoldingQuiet
<1>8. /\ i \in Out(q) /\ out[i].src = x.src /\ out[i].dst = x.dst /\ out[i].qty = x.qty
      /\ out[i].verdict = -1 /\ Peer(q, out[i]) = p
  <2>1. intents[q][p] \in Seq(Intents)
    BY <1>1, <1>5, LaneTypes
  <2>2. x = intents[q][p][1] /\ 1 \in 1 .. Len(intents[q][p])
    BY <1>1, <2>1
  <2>3. AskedOk(q, p, x, out, nextXferId[q], online = Session)
    <3>1. IntentLane(q, p, intents[q][p], out, nextXferId[q], online = Session)
      BY <1>1, <1>5 DEF PlayerInv, IntentsOf
    <3> QED BY <2>2, <3>1 DEF IntentLane
  <2> QED BY <1>0, <1>1, <2>3 DEF AskedOk, Asks, EndsAre, Peer, Out
<1>9. VerdictsOn(q, i) = {}
  <2>1. intents[q][p] \in Seq(Intents)
    BY <1>1, <1>5, LaneTypes
  <2>2. x = intents[q][p][1] /\ 1 \in 1 .. Len(intents[q][p])
    BY <1>1, <2>1
  <2>3. ASSUME NEW v \in received[q], v.id = i PROVE FALSE
    <3>1. v \in Verdicts
      BY <1>1, <1>5, <2>3, LaneTypes
    <3>2. v \in VerdictsOn(q, i)
      BY <2>3, <3>1 DEF VerdictsOn, Verdicts
    <3>3. v.of = p
      BY <1>1, <1>5, <1>8, <3>2, OneVerdict
    <3>4. Fits(q, v, intents[q][p], out, nextXferId[q])
      BY <1>1, <1>5, <2>3, <3>3 DEF PlayerInv, ReceivedOf
    <3>5. v.id < i
      BY <1>0, <2>2, <3>4 DEF Fits
    <3> QED BY <1>2, <2>3, <3>5
  <2>4. ASSUME NEW k \in 1 .. Len(lane), lane[k].kind = "verdict", lane[k].id = i PROVE FALSE
    <3>1. Fits(q, lane[k], intents[q][p], out, nextXferId[q])
      BY <1>1, <1>5, <2>4 DEF PlayerInv, VerdictsOf, VerdictLane
    <3>2. lane[k].id < i
      BY <1>0, <2>2, <3>1 DEF Fits
    <3> QED BY <1>2, <2>4, <3>2
  <2>5. lane \in Seq(Messages)
    BY <1>1, <1>5, LaneTypes
  <2>6. VerdictsOn(q, i) = {v \in received[q] \union Range(lane) : v.kind = "verdict" /\ v.id = i}
    BY <1>8 DEF VerdictsOn
  <2> QED BY <2>3, <2>4, <2>5, <2>6 DEF Range
<1>10. Range(inventory'[p][q]) = Range(lane) \union {m}
  <2>1. lane \in Seq(Messages) /\ m \in Messages
    BY <1>1, <1>5, LaneTypes
  <2> QED BY <1>3, <2>1, RangeOfAppend
<1>11. VerdictsOn(q, i)' = {m}
  <2>1. /\ VerdictsOn(q, i) = {v \in received[q] \union Range(lane) : v.kind = "verdict" /\ v.id = i}
        /\ VerdictsOn(q, i)' = {v \in received[q] \union Range(inventory'[p][q]) :
                                   v.kind = "verdict" /\ v.id = i}
    BY <1>1, <1>8 DEF VerdictsOn, Peer
  <2> QED BY <1>3, <1>9, <1>10, <2>1
<1>12. ASSUME NEW l \in Out(q), l # i PROVE VerdictsOn(q, l)' = VerdictsOn(q, l)
  <2> DEFINE c == Peer(q, out[l])
  <2>1. c \in Traders
    <3>1. DragsOk(q, out, nextXferId[q])
      BY <1>1, <1>5, TypesOfPlayer
    <3> QED BY <1>1, <3>1 DEF DragsOk, DragOk, Drags, Out, Peer
  <2>2. /\ VerdictsOn(q, l) = {v \in received[q] \union Range(inventory[c][q]) :
                                  v.kind = "verdict" /\ v.id = l}
        /\ VerdictsOn(q, l)' = {v \in received[q] \union Range(inventory'[c][q]) :
                                   v.kind = "verdict" /\ v.id = l}
    BY <1>1 DEF VerdictsOn, Peer
  <2>3. CASE c = p
    BY <1>3, <1>10, <1>12, <2>2, <2>3
  <2>4. CASE c # p
    <3>1. inventory'[c][q] = inventory[c][q]
      BY <1>1, <2>1, <2>4 DEF TakenDone
    <3> QED BY <2>2, <3>1
  <2> QED BY <2>3, <2>4
<1> DEFINE f == OwesOf(q, out, Ons(q))
           g == OwesOf(q, out, Ons(q)')
<1>13. Ons(q)' = [l \in Out(q) |-> VerdictsOn(q, l)']
  BY <1>1 DEF Ons, Out
<1>14. /\ IsFiniteSet(Out(q)) /\ DOMAIN out = Out(q)
       /\ \A l \in Out(q) : f[l] \in Int /\ f[l] = Owes(q, out[l], VerdictsOn(q, l))
  BY <1>1, <1>5, BooksTyped
<1>15. \A l \in Out(q) : g[l] = Owes(q, out[l], VerdictsOn(q, l)')
  BY <1>13, <1>14 DEF OwesOf
<1>16. f[i] = IF x.src = q THEN x.qty ELSE -x.qty
  BY <1>2, <1>8, <1>9, <1>14 DEF Owes
<1>17. g[i] = IF x.src = q THEN x.qty - n ELSE -(x.qty - n)
  <2>1. (CHOOSE v \in {m} : TRUE) = m /\ {m} # {}
    OBVIOUS
  <2>2. g[i] = Owes(q, out[i], {m})
    BY <1>8, <1>11, <1>15
  <2>3. out[i].src = x.src /\ out[i].qty = x.qty /\ out[i].verdict = -1 /\ m.moved = n
    BY <1>3, <1>8
  <2> HIDE DEF g, out
  <2> QED BY <1>2, <2>1, <2>2, <2>3 DEF Owes
<1>18. \A l \in Out(q) \ {i} : g[l] = f[l]
  BY <1>12, <1>14, <1>15
<1> HIDE DEF f, g
<1>19. \A l \in Out(q) : g[l] \in Int
  BY <1>2, <1>14, <1>17, <1>18
<1>20. SumFunctionOnSet(g, Out(q)) = SumFunctionOnSet(f, Out(q)) + (g[i] - f[i])
  BY <1>8, <1>14, <1>18, <1>19, SumChanges
<1>21. Holding(q)' = Holding(q) - d
  <2>1. Holding(q) = stock[q][q] + SumFunctionOnSet(f, Out(q))
    BY <1>14, HoldingIs DEF OwesSum, f
  <2>2. Holding(q)' = stock'[q][q] + SumFunctionOnSet(g, Out(q))
    BY <1>1, <1>14, HoldingIsNext DEF OwesSum, g
  <2>3. stock'[q][q] = stock[q][q] /\ stock[q][q] \in Int
    BY <1>1, <1>4, <1>5, TypesOfPlayer
  <2>4. SumFunctionOnSet(f, Out(q)) \in Int
    BY <1>14, SumType
  <2>5. g[i] - f[i] = -d
    BY <1>2, <1>16, <1>17
  <2>6. SumFunctionOnSet(g, Out(q)) = SumFunctionOnSet(f, Out(q)) - d
    BY <1>2, <1>20, <2>4, <2>5
  <2> QED BY <1>2, <2>1, <2>2, <2>3, <2>4, <2>6
<1> QED BY <1>1, <1>2, <1>6, <1>7, <1>21

-----------------------------------------------------------------------------
LEMMA BooksAre ==
    ASSUME TradeInv
    PROVE  /\ IsFiniteSet(Traders) /\ Cardinality(Traders) * Units \in Int
           /\ \A p \in Traders : Books[p] = Holding(p) /\ Holding(p) \in Int
           /\ \A p \in Traders : Books'[p] = Holding(p)'
           /\ SumFunctionOnSet(Books, Traders) \in Int
           /\ events.found \in Nat /\ events.spent \in Nat /\ online \subseteq Session
<1>1. IsFiniteSet(Traders)
  BY TransferAssumption, FS_Subset
<1>2. Cardinality(Traders) * Units \in Int
  <2>1. Cardinality(Traders) \in Nat /\ Units \in Nat
    BY <1>1, TransferAssumption, FS_CardinalityType
  <2>2. \A a, b \in Nat : a * b \in Int
    OBVIOUS
  <2> QED BY <2>1, <2>2
<1>3. \A p \in Traders : Books[p] = Holding(p) /\ Holding(p) \in Int
  BY TradeInvSplit, BooksTyped DEF Books
<1>4. \A p \in Traders : Books'[p] = Holding(p)'
  BY DEF Books
<1>5. SumFunctionOnSet(Books, Traders) \in Int
  BY <1>1, <1>3, SumType
<1> QED BY <1>1, <1>2, <1>3, <1>4, <1>5, TypesSplit DEF TradeInv, StockTypes

(* Everybody holds what he held.                                           *)
LEMMA BooksKept ==
    ASSUME TradeInv, Conserved, UNCHANGED <<online, events>>,
           \A p \in Traders : Holding(p)' = Holding(p)
    PROVE  Conserved'
<1>1. SumFunctionOnSet(Books', Traders) = SumFunctionOnSet(Books, Traders)
  <2>1. IsFiniteSet(Traders) /\ \A p \in Traders : Books[p] = Books'[p]
    BY BooksAre
  <2> QED BY <2>1, SumSame
<1> QED BY <1>1, ConservedIs, ConservedIsNext

LEMMA QuietBooks ==
    ASSUME TradeInv, Conserved, Quiet, events' = events,
           \A r \in Traders : stock'[r][r] = stock[r][r],
           \A r, c \in Traders : \/ inventory'[c][r] = inventory[c][r]
                                 \/ \E m \in Snapshots :
                                       inventory'[c][r] = Append(inventory[c][r], m)
    PROVE  Conserved'
<1>1. ASSUME NEW p \in Traders PROVE Holding(p)' = Holding(p)
  BY HoldingQuiet DEF TradeInv, Quiet
<1> QED BY <1>1, BooksKept DEF Quiet

(* One player's step, the others taking no part.                           *)
LEMMA OwnBooks ==
    ASSUME TradeInv, Conserved, UNCHANGED <<online, events>>, NEW p \in Traders,
           Holding(p)' = Holding(p),
           \A r \in Traders \ {p} :
              /\ xferOut'[r] = xferOut[r] /\ received'[r] = received[r]
              /\ stock'[r][r] = stock[r][r]
              /\ \A c \in Traders : inventory'[c][r] = inventory[c][r]
    PROVE  Conserved'
<1>1. ASSUME NEW r \in Traders \ {p} PROVE Holding(r)' = Holding(r)
  BY HoldingQuiet DEF TradeInv
<1> QED BY <1>1, BooksKept

LEMMA GameBooks ==
    ASSUME TradeInv, Conserved, NEW p \in Traders, Find(p) \/ Spend(p) PROVE Conserved'
<1> DEFINE d == events'.found - events'.spent - (events.found - events.spent)
<1>1. /\ UNCHANGED <<online, xferOut, received, inventory>>
      /\ \A r \in Traders \ {p} : stock'[r][r] = stock[r][r]
      /\ stock'[p][p] = stock[p][p] + d /\ d \in Int /\ stock[p][p] \in Int
      /\ events'.found \in Nat /\ events'.spent \in Nat
  <2>1. stock \in [Traders -> [Traders -> Nat]] /\ events \in [found : Nat, spent : Nat, left : Nat]
    BY TypesSplit DEF TradeInv, StockTypes
  <2>2. CASE Find(p)
    <3>1. /\ events'.found = events.found + 1 /\ events'.spent = events.spent
          /\ stock'[p][p] = stock[p][p] + 1 /\ \A r \in Traders \ {p} : stock'[r][r] = stock[r][r]
      BY <2>1, <2>2 DEF Find
    <3> QED BY <2>1, <2>2, <3>1 DEF Find, trading, snapshots
  <2>3. CASE Spend(p)
    <3>1. /\ events'.spent = events.spent + 1 /\ events'.found = events.found
          /\ stock'[p][p] = stock[p][p] - 1 /\ \A r \in Traders \ {p} : stock'[r][r] = stock[r][r]
      BY <2>1, <2>3 DEF Spend
    <3> QED BY <2>1, <2>3, <3>1 DEF Spend, trading, snapshots
  <2> QED BY <2>2, <2>3
<1>2. ASSUME NEW r \in Traders \ {p} PROVE Holding(r)' = Holding(r)
  BY <1>1, HoldingQuiet DEF TradeInv
<1>3. Holding(p)' = Holding(p) + d
  <2>1. Holding(p)' = stock'[p][p] + OwesSum(p, xferOut[p], Ons(p))
    BY <1>1, HoldingQuiet DEF TradeInv
  <2>2. OwesSum(p, xferOut[p], Ons(p)) \in Int
    BY TradeInvSplit, BooksTyped
  <2> HIDE DEF d
  <2> QED BY <1>1, <2>1, <2>2, HoldingIs
<1>4. SumFunctionOnSet(Books', Traders) = SumFunctionOnSet(Books, Traders) + d
  <2> HIDE DEF d
  <2>1. /\ IsFiniteSet(Traders) /\ \A r \in Traders : Books[r] = Holding(r) /\ Books[r] \in Int
        /\ \A r \in Traders : Books'[r] = Holding(r)'
    BY BooksAre
  <2>2. \A r \in Traders : Books'[r] \in Int
    BY <1>1, <1>2, <1>3, <2>1
  <2>3. \A r \in Traders \ {p} : Books'[r] = Books[r]
    BY <1>2, <2>1
  <2>4. SumFunctionOnSet(Books', Traders) = SumFunctionOnSet(Books, Traders) + (Books'[p] - Books[p])
    BY <2>1, <2>2, <2>3, SumChanges
  <2> QED BY <1>1, <1>3, <2>1, <2>4
<1> QED BY <1>1, <1>4, BooksAre, ConservedIs, ConservedIsNext

LEMMA TakenConserves ==
    ASSUME TradeInv, Conserved, NEW p \in Traders, NEW q, NEW x, NEW n, TakenDone(p, q, x, n)
    PROVE  Conserved'
<1>1. UNCHANGED <<online, events>>
  BY DEF TakenDone
<1>2. CASE online # Session
  BY <1>1, <1>2 DEF Conserved
<1>3. CASE online = Session
  <2>1. PICK d \in Int :
           /\ q \in Traders /\ q # p
           /\ Holding(p)' = Holding(p) + d /\ Holding(q)' = Holding(q) - d
           /\ \A r \in Traders \ {p, q} : Holding(r)' = Holding(r)
    BY <1>3, TakenBooks
  <2>2. SumFunctionOnSet(Books', Traders) = SumFunctionOnSet(Books, Traders)
    <3>1. /\ IsFiniteSet(Traders) /\ \A r \in Traders : Books[r] \in Int
          /\ Books'[p] = Books[p] + d /\ Books'[q] = Books[q] - d
          /\ \A r \in Traders \ {p, q} : Books'[r] = Books[r]
      BY <2>1, BooksAre
    <3> QED BY <2>1, <3>1, SumMoves
  <2> QED BY <1>1, <2>2, ConservedIs, ConservedIsNext
<1> QED BY <1>2, <1>3

(* No drag is retired but by a leave.                                      *)
LEMMA RetiredNext ==
    ASSUME TradeInv, TradeInv', NoneRetired, [TradeNext]_tradeVars PROVE NoneRetired'
<1>1. TradeTypes /\ ReceivedInv /\ \A p \in Traders : PlayerInv(p)
  BY TradeInvSplit DEF TradeInv
<1> SUFFICES ASSUME online' = Session, NEW r \in Traders, NEW k \in Out(r)'
             PROVE  ~xferOut'[r][k].retired
  BY DEF NoneRetired
<1>2. ASSUME UNCHANGED <<online, xferOut>> PROVE ~xferOut'[r][k].retired
  BY <1>2 DEF NoneRetired, Out
<1>3. ASSUME NEW p \in Traders, NEW peer \in Others(p), NEW q \in Nat \ {0}, NEW src, NEW dst,
             EndsAre(p, peer, src, dst), detectAndPublishTransfers(p, peer, src, dst, q)
      PROVE  ~xferOut'[r][k].retired
  <2>1. DragDone(p, peer, src, dst, q)
    BY <1>3, DragKeeps
  <2>2. CASE r # p
    BY <2>1, <2>2 DEF DragDone, NoneRetired, Out
  <2>3. CASE r = p
    BY <2>1, <2>3 DEF DragDone, NoneRetired, Out, NewDrag
  <2> QED BY <2>2, <2>3
<1>4. ASSUME NEW p \in Traders, NEW q \in Others(p), applyTransfers(p, q)
      PROVE  UNCHANGED <<online, xferOut>>
  BY <1>4, TakenKeeps DEF TakenDone
<1>5. ASSUME NEW p \in Traders, SettleDrag(p) PROVE ~xferOut'[r][k].retired
  <2>1. PICK i, x : SettledDone(p, i, x)
    BY <1>5, SettleKeeps
  <2> QED BY <2>1 DEF SettledDone, NoneRetired, Out
<1>6. ASSUME NEW p \in Traders, applyXferAcks(p) PROVE ~xferOut'[r][k].retired
  <2>1. online' = online
    BY <1>6 DEF applyXferAcks
  <2>2. CASE r = p
    BY <1>1, <1>6, <2>1, <2>2, AcksBooks DEF NoneRetired
  <2>3. CASE r # p
    <3>1. xferOut'[r] = xferOut[r]
      BY <1>1, <1>6, <2>3, TypesSplit DEF applyXferAcks, DragTypes
    <3> QED BY <2>1, <3>1 DEF NoneRetired, Out
  <2> QED BY <2>2, <2>3
<1>7. ASSUME NEW q \in online, onPeerDisconnected(q) PROVE FALSE
  BY <1>7, LeftKeeps DEF LeftDone
<1>8. ASSUME NEW p \in Traders,
             \/ Find(p) \/ Spend(p)
             \/ \E q \in Others(p) : ingestInv(p, q) \/ applyInventories(p, q)
      PROVE  UNCHANGED <<online, xferOut>>
  BY <1>8 DEF Find, Spend, ingestInv, applyInventories, trading
<1>9. ASSUME NEW p \in Traders, publishDeferredInventoryCommits(p) \/ publishInventories(p)
      PROVE  UNCHANGED <<online, xferOut>>
  BY <1>9, PublishKeeps DEF Published
<1>10. CASE UNCHANGED tradeVars
  BY <1>2, <1>10 DEF tradeVars
<1> QED BY <1>1, <1>2, <1>3, <1>4, <1>5, <1>6, <1>7, <1>8, <1>9, <1>10, TradeSteps

LEMMA ConservedNext ==
    ASSUME TradeInv, NoneRetired, Conserved, [TradeNext]_tradeVars PROVE Conserved'
<1>1. TradeTypes /\ ReceivedInv /\ \A p \in Traders : PlayerInv(p)
  BY TradeInvSplit DEF TradeInv
<1>2. ASSUME NEW p \in Traders, NEW peer \in Others(p), NEW q \in Nat \ {0}, NEW src, NEW dst,
             EndsAre(p, peer, src, dst), detectAndPublishTransfers(p, peer, src, dst, q)
      PROVE  Conserved'
  <2>1. DragDone(p, peer, src, dst, q)
    BY <1>2, DragKeeps
  <2>2. Holding(p)' = Holding(p) /\ \A r \in Traders \ {p} : stock'[r][r] = stock[r][r]
    BY <1>1, <1>2, <2>1, DragBooks
  <2>3. /\ UNCHANGED <<online, events, received, inventory>>
        /\ \A r \in Traders \ {p} : xferOut'[r] = xferOut[r]
    BY <2>1 DEF DragDone
  <2> QED BY <2>2, <2>3, OwnBooks
<1>3. ASSUME NEW p \in Traders, NEW q \in Others(p), applyTransfers(p, q) PROVE Conserved'
  <2>1. PICK x, n : TakenDone(p, q, x, n)
    BY <1>3, TakenKeeps
  <2> QED BY <2>1, TakenConserves
<1>4. ASSUME NEW p \in Traders, SettleDrag(p) PROVE Conserved'
  <2>1. PICK i, x : SettledDone(p, i, x)
    BY <1>4, SettleKeeps
  <2>2. Holding(p)' = Holding(p) /\ \A r \in Traders \ {p} : stock'[r][r] = stock[r][r]
    BY <1>1, <2>1, SettleBooks
  <2>3. /\ UNCHANGED <<online, events, received, inventory>>
        /\ \A r \in Traders \ {p} : xferOut'[r] = xferOut[r]
    BY <2>1 DEF SettledDone
  <2> QED BY <2>2, <2>3, OwnBooks
<1>5. ASSUME NEW p \in Traders, applyXferAcks(p) PROVE Conserved'
  <2>1. /\ UNCHANGED <<online, events, stock, inventory>>
        /\ \A r \in Traders \ {p} : xferOut'[r] = xferOut[r] /\ received'[r] = received[r]
    BY <1>1, <1>5, TypesSplit DEF applyXferAcks, snapshots, DragTypes, SnapshotTypes
  <2>2. CASE online # Session
    BY <2>1, <2>2 DEF Conserved
  <2>3. CASE online = Session
    <3>1. Holding(p)' = Holding(p)
      BY <1>1, <1>5, <2>3, AcksBooks DEF NoneRetired
    <3> QED BY <2>1, <3>1, OwnBooks
  <2> QED BY <2>2, <2>3
<1>6. ASSUME NEW p \in Traders, NEW q \in Others(p), ingestInv(p, q) PROVE Conserved'
  <2>1. q \in Traders
    BY OtherTrader
  <2>2. /\ inventory \in [Traders -> [Traders -> Seq(Messages)]]
        /\ received \in [Traders -> SUBSET Verdicts]
    BY <1>1, TypesSplit DEF SnapshotTypes
  <2>3. /\ inventory' = [inventory EXCEPT ![q][p] = Tail(inventory[q][p])]
        /\ received' \in {received,
                          [received EXCEPT ![p] = received[p] \union {Head(inventory[q][p])}]}
        /\ UNCHANGED <<online, events, stock, xferOut>>
    BY <1>6 DEF ingestInv, trading
  <2>4. \A r \in Traders \ {p} : /\ received'[r] = received[r]
                                 /\ \A c \in Traders : inventory'[c][r] = inventory[c][r]
    BY <2>1, <2>2, <2>3
  <2>5. Holding(p)' = Holding(p)
    BY <1>1, <1>6, IngestBooks
  <2> QED BY <2>3, <2>4, <2>5, OwnBooks
<1>7. ASSUME NEW p \in Traders, NEW c \in Others(p), applyInventories(p, c) PROVE Conserved'
  <2>1. c \in Traders /\ c # p /\ stock \in [Traders -> [Traders -> Nat]]
    BY <1>1, OtherTrader, TypesSplit DEF StockTypes
  <2>2. Quiet /\ UNCHANGED <<inventory, events>>
    BY <1>7 DEF applyInventories, trading, Quiet
  <2>3. \A r \in Traders : stock'[r][r] = stock[r][r]
    BY <1>7, <2>1 DEF applyInventories
  <2> QED BY <2>2, <2>3, QuietBooks
<1>8. ASSUME NEW p \in Traders, Find(p) \/ Spend(p) PROVE Conserved'
  BY <1>8, GameBooks
<1>9. ASSUME NEW p \in Traders, publishDeferredInventoryCommits(p) \/ publishInventories(p)
      PROVE  Conserved'
  <2>1. Published(p)
    BY <1>9, PublishKeeps
  <2>2. Quiet /\ UNCHANGED <<stock, events>>
    BY <2>1 DEF Published, Quiet
  <2>3. \A r, c \in Traders : \/ inventory'[c][r] = inventory[c][r]
                              \/ \E m \in Snapshots :
                                    inventory'[c][r] = Append(inventory[c][r], m)
    BY <2>1 DEF Published
  <2> QED BY <2>2, <2>3, QuietBooks
<1>10. ASSUME NEW q \in online, onPeerDisconnected(q) PROVE Conserved'
  BY <1>10, LeftKeeps, ConservedIsNext DEF LeftDone
<1>11. CASE UNCHANGED tradeVars
  <2>1. Quiet /\ UNCHANGED <<stock, events, inventory>>
    BY <1>11 DEF tradeVars, Quiet
  <2> QED BY <2>1, QuietBooks
<1> QED BY <1>1, <1>2, <1>3, <1>4, <1>5, <1>6, <1>7, <1>8, <1>9, <1>10, <1>11, TradeSteps

(* InventoryTransfer.tla's Conserved: a trade neither loses nor makes      *)
(* units, however many players trade at once, whatever their peers could   *)
(* move of it and in whatever order intents, verdicts and snapshots are    *)
(* taken (detectAndPublishTransfers, applyTransfers, applyXferAcks).       *)
THEOREM TradeConserves == TradeSpec => []Conserved
<1>1. TradeInit => NoneRetired /\ Conserved
  <2> SUFFICES ASSUME TradeInit PROVE NoneRetired /\ Conserved
    OBVIOUS
  <2>1. TradeInv /\ \A p \in Traders : xferOut[p] = <<>>
    BY TradeInitInv DEF TradeInit
  <2>2. NoneRetired
    BY <2>1 DEF NoneRetired, Out
  <2>3. \A p \in Traders : Holding(p) = Units
    <3>1. \A p, ons : OwesSum(p, <<>>, ons) = 0
      BY FS_EmptySet, SumOfZeros DEF OwesSum
    <3>2. \A p \in Traders : stock[p][p] = Units /\ Units \in Nat
      BY TransferAssumption DEF TradeInit
    <3> QED BY <2>1, <3>1, <3>2, HoldingIs
  <2>4. SumFunctionOnSet(Books, Traders) = Cardinality(Traders) * Units
    BY <2>1, <2>3, BooksAre, SumOfConstant, TransferAssumption
  <2>5. events.found = 0 /\ events.spent = 0
    BY DEF TradeInit
  <2> QED BY <2>1, <2>2, <2>4, <2>5, BooksAre, ConservedIs
<1>2. TradeInv /\ TradeInv' /\ NoneRetired /\ Conserved /\ [TradeNext]_tradeVars
      => NoneRetired' /\ Conserved'
  BY RetiredNext, ConservedNext
<1> QED BY <1>1, <1>2, TradeInductive, PTL DEF TradeSpec
=============================================================================

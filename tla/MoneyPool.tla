------------------------------ MODULE MoneyPool ------------------------------
(***************************************************************************)
(* The shared money pool (protocol 52).                                    *)
(*                                                                         *)
(* Kenshi keeps one player wallet per world.  Every player's engine has    *)
(* its own copy of it; a join reports how its copy MOVED (a numbered       *)
(* delta), the host folds the deltas into its own wallet, which is the     *)
(* pool, and broadcasts the TOTAL.  publishMoneyPool and applyMoneyPool    *)
(* run once a tick, in this order, on the game thread of every player.     *)
(*                                                                         *)
(* up[j] and down[j] are the reliable, ordered lane between join j and the *)
(* host, with the receiver's Inbound queue at its end.                     *)
(***************************************************************************)
EXTENDS Integers, SequencesExt

CONSTANTS
    Host,         \* the hosting player
    Joins,        \* the joined players
    InitialCats,  \* the wallet stored in the save
    Trades,       \* the amounts one trade can move a wallet by
    MaxTrades,    \* bound: trades in a behaviour
    MaxPushes,    \* bound: connect-pushes in a behaviour
    MaxLoads,     \* bound: host loads in a behaviour
    MaxLane,      \* bound: a join this far behind gets no further resend
    MaxRefusals   \* bound: wallet accesses the engine refuses

ASSUME PoolAssumption ==
    /\ IsFiniteSet(Joins) /\ Host \notin Joins
    /\ InitialCats \in Nat
    /\ Trades \subseteq Int \ {0}
    /\ MaxTrades \in Nat /\ MaxPushes \in Nat /\ MaxLoads \in Nat
    /\ MaxLane \in Nat \ {0}
    /\ MaxRefusals \in Nat

Players == Joins \cup {Host}
Unseeded == -1
NoTotal  == -1

VARIABLES
    wallet,            \* the engine's player wallet, one copy per player
    poolSeen,          \* poolSeen_: the wallet value last observed or written
    poolTotal,         \* host: poolTotal_
    poolAckedByOwner,  \* host: last folded delta of each join
    poolSeq,           \* join: number of its last delta
    poolPending,       \* join: deltas reported since the last total adopted
    up,                \* join -> host: MoneyDeltaPackets
    down,              \* host -> join: MoneyPackets
    live,              \* the join runs the host's current world
    baked,             \* the wallet in the save the join is loading
    folding,           \* host: between publish and the end of apply
    moved,             \* host: the batch being applied folded something
    trades, pushes, loads,  \* counters of the bounds
    refusals,          \* wallet accesses the engine has refused
    owed,              \* history: what the pool should hold, see Conservation
    staleAck           \* history: the ack the host held when the join restarted

hostVars == <<poolTotal, poolAckedByOwner, folding, moved>>
joinVars == <<poolSeq, poolPending>>
bounds   == <<trades, pushes, loads>>
vars == <<wallet, poolSeen, hostVars, joinVars, up, down, live, baked, bounds,
          refusals, owed, staleAck>>

(* engine::readPlayerWallet and writePlayerWallet report failure.          *)
Answers == {"ok", "refused"}
Cost(answer) == IF answer = "refused" THEN 1 ELSE 0
Refuse(n) == refusals + n <= MaxRefusals /\ refusals' = refusals + n

Init ==
    /\ wallet = [p \in Players |-> InitialCats]
    /\ poolSeen = [p \in Players |-> Unseeded]
    /\ poolTotal = NoTotal
    /\ poolAckedByOwner = [j \in Joins |-> 0]
    /\ poolSeq = [j \in Joins |-> 0]
    /\ poolPending = [j \in Joins |-> <<>>]
    /\ up = [j \in Joins |-> <<>>]
    /\ down = [j \in Joins |-> <<>>]
    /\ live = [j \in Joins |-> TRUE]
    /\ baked = [j \in Joins |-> InitialCats]
    /\ folding = FALSE /\ moved = FALSE
    /\ trades = 0 /\ pushes = 0 /\ loads = 0 /\ refusals = 0
    /\ owed = InitialCats
    /\ staleAck = [j \in Joins |-> 0]

-----------------------------------------------------------------------------
(* The engine: a trade, sale, hire or fine moves a player's wallet, which  *)
(* it never overdraws.  A move made before the first sample of a world is  *)
(* taken for part of the save (the seed rule) and so owes the pool nothing.*)
Trade(p, d) ==
    /\ trades < MaxTrades /\ trades' = trades + 1
    /\ p \in Joins => live[p]
    /\ p = Host => ~folding
    /\ wallet[p] + d >= 0
    /\ wallet' = [wallet EXCEPT ![p] = @ + d]
    /\ owed' = IF p = Host \/ poolSeen[p] # Unseeded THEN owed + d ELSE owed
    /\ UNCHANGED <<poolSeen, hostVars, joinVars, up, down, live, baked, pushes,
                   loads, refusals, staleAck>>

(* One MoneyPacket to every join.  Its ackSeq is always 0 on the wire.     *)
Broadcast(total) ==
    down' = [j \in Joins |-> Append(down[j], [money |-> total])]

(* Fault: only a change is sent, never a safety resend.                    *)
HostPublishOnChange(due) ==
    /\ ~folding /\ folding' = TRUE /\ moved' = FALSE
    /\ poolSeen' = [poolSeen EXCEPT ![Host] = wallet[Host]]
    /\ poolTotal' = wallet[Host]
    /\ IF due /\ poolSeen[Host] # Unseeded /\ wallet[Host] # poolTotal
       THEN Broadcast(wallet[Host]) ELSE UNCHANGED down
    /\ UNCHANGED <<wallet, poolAckedByOwner, joinVars, up, live, baked, bounds,
                   refusals, owed, staleAck>>

(* publishMoneyPool on the host: seed, or mirror the wallet; the change    *)
(* gate (a timer) decides whether the total goes out in this tick.         *)
HostPublish(due) ==
    /\ ~folding /\ folding' = TRUE /\ moved' = FALSE
    /\ \E read \in Answers :
      /\ Refuse(Cost(read))
      /\ IF read = "ok"
         THEN /\ poolSeen' = [poolSeen EXCEPT ![Host] = wallet[Host]]
              /\ poolTotal' = wallet[Host]
              /\ IF due /\ poolSeen[Host] # Unseeded
                 THEN /\ \A j \in Joins : Len(down[j]) < MaxLane
                      /\ Broadcast(wallet[Host])
                 ELSE UNCHANGED down
         ELSE UNCHANGED <<poolSeen, poolTotal, down>>
    /\ UNCHANGED <<wallet, poolAckedByOwner, joinVars, up, live, baked, bounds,
                   owed, staleAck>>

(* Two players can spend the same cats before either delta lands: the pool *)
(* absorbs the shortfall.                                                  *)
Clamped(want) == IF want < 0 THEN 0 ELSE want

(* One turn of applyMoneyPool's loop on the host, over any interleaving of *)
(* the joins' deltas.  A delta at or below the join's ack is skipped; the  *)
(* others are folded, the pool clamped at zero.                            *)
HostFold(j) ==
    /\ folding /\ up[j] # <<>>
    /\ LET m    == Head(up[j])
           pool == IF poolTotal = NoTotal THEN wallet[Host] ELSE poolTotal
           want == pool + m.delta
       IN IF m.seq <= poolAckedByOwner[j]
          THEN /\ owed' = owed - m.delta
               /\ UNCHANGED <<poolTotal, poolAckedByOwner, poolSeen, moved>>
          ELSE /\ poolSeen' = IF poolTotal = NoTotal
                              THEN [poolSeen EXCEPT ![Host] = pool] ELSE poolSeen
               /\ poolTotal' = Clamped(want)
               /\ owed' = IF want < 0 THEN owed - want ELSE owed
               /\ poolAckedByOwner' = [poolAckedByOwner EXCEPT ![j] = m.seq]
               /\ moved' = TRUE
    /\ up' = [up EXCEPT ![j] = Tail(@)]
    /\ UNCHANGED <<wallet, joinVars, down, live, baked, folding, bounds, refusals,
                   staleAck>>

(* The fold found neither a total nor a readable wallet: applyMoneyPool    *)
(* returns with the batch already drained, so every delta in it is lost.   *)
(* There is no total because publish, too, could not read the wallet in    *)
(* this tick: the two count as one refusal.                                *)
HostFoldUnreadable ==
    /\ folding /\ poolTotal = NoTotal
    /\ refusals > 0 /\ UNCHANGED refusals
    /\ \E n \in [Joins -> 0 .. MaxTrades] :
         /\ \E j \in Joins : n[j] > 0
         /\ \A j \in Joins : n[j] <= Len(up[j])
         /\ up' = [j \in Joins |-> SubSeq(up[j], n[j] + 1, Len(up[j]))]
    /\ folding' = FALSE
    /\ UNCHANGED <<wallet, poolSeen, poolTotal, poolAckedByOwner, moved, joinVars,
                   down, live, baked, bounds, owed, staleAck>>

(* The end of applyMoneyPool on the host: write the pool back and publish. *)
HostFinish ==
    /\ folding /\ folding' = FALSE
    /\ IF moved
       THEN /\ \E wrote \in Answers :
              /\ Refuse(Cost(wrote))
              /\ IF wrote = "ok"
                 THEN /\ wallet' = [wallet EXCEPT ![Host] = poolTotal]
                      /\ poolSeen' = [poolSeen EXCEPT ![Host] = poolTotal]
                 ELSE UNCHANGED <<wallet, poolSeen>>
            /\ Broadcast(poolTotal)
       ELSE UNCHANGED <<wallet, poolSeen, down, refusals>>
    /\ UNCHANGED <<poolTotal, poolAckedByOwner, moved, joinVars, up, live, baked,
                   bounds, owed, staleAck>>

(* One tick of a join.  publishMoneyPool seeds, or reports the movement    *)
(* since poolSeen; applyMoneyPool drains n totals, adopts the newest one as*)
(* it stands and forgets the deltas that were pending.                     *)
MovementPostIncrement(j) == [seq |-> poolSeq[j], delta |-> wallet[j] - poolSeen[j]]
Movement(j) == [seq |-> poolSeq[j] + 1, delta |-> wallet[j] - poolSeen[j]]
Reports(j, read) == read = "ok" /\ poolSeen[j] # Unseeded /\ wallet[j] # poolSeen[j]
Adopts(j, n, reread, wrote) ==
    n > 0 /\ reread = "ok" /\ (wrote = "ok" \/ wallet[j] = down[j][n].money)
BaselineNoEcho(adopts, total, sampled) == sampled
Baseline(adopts, total, sampled) == IF adopts THEN total ELSE sampled

JoinTick(j) ==
    /\ live[j]
    /\ \E n \in 0 .. Len(down[j]), read \in Answers, reread \in Answers, wrote \in Answers :
         /\ Refuse(Cost(read) + Cost(reread) + Cost(wrote))
         /\ IF Reports(j, read)
            THEN /\ up' = [up EXCEPT ![j] = Append(@, Movement(j))]
                 /\ poolSeq' = [poolSeq EXCEPT ![j] = @ + 1]
            ELSE UNCHANGED <<up, poolSeq>>
         /\ poolPending' = [poolPending EXCEPT ![j] =
              IF n > 0 THEN <<>> ELSE IF Reports(j, read) THEN Append(@, Movement(j)) ELSE @]
         /\ down' = [down EXCEPT ![j] = SubSeq(@, n + 1, Len(@))]
         /\ wallet' = [wallet EXCEPT ![j] =
              IF Adopts(j, n, reread, wrote) THEN down[j][n].money ELSE @]
         /\ poolSeen' = [poolSeen EXCEPT ![j] =
              Baseline(Adopts(j, n, reread, wrote), down[j][n].money,
                       IF read = "ok" THEN wallet[j] ELSE @)]
    /\ UNCHANGED <<hostVars, live, baked, bounds, owed, staleAck>>

-----------------------------------------------------------------------------
(* A player connects: the host bakes a save and sends every join, the ones *)
(* already playing included, into it.  The lanes of the old worlds are     *)
(* fenced off; the host itself is not reset and keeps poolAckedByOwner.    *)
ConnectPush ==
    /\ pushes < MaxPushes /\ pushes' = pushes + 1
    /\ ~folding
    /\ live' = [j \in Joins |-> FALSE]
    /\ baked' = [j \in Joins |-> wallet[Host]]
    /\ up' = [j \in Joins |-> <<>>]
    /\ down' = [j \in Joins |-> <<>>]
    /\ owed' = wallet[Host]
    /\ UNCHANGED <<wallet, poolSeen, hostVars, joinVars, trades, loads,
                   refusals, staleAck>>

(* The host loads a save: Replicator::resetSession runs on the host too.   *)
HostLoad ==
    /\ loads < MaxLoads /\ loads' = loads + 1
    /\ ~folding
    /\ wallet' = [wallet EXCEPT ![Host] = InitialCats]
    /\ poolSeen' = [poolSeen EXCEPT ![Host] = Unseeded]
    /\ poolTotal' = NoTotal
    /\ poolAckedByOwner' = [j \in Joins |-> 0]
    /\ live' = [j \in Joins |-> FALSE]
    /\ baked' = [j \in Joins |-> InitialCats]
    /\ up' = [j \in Joins |-> <<>>]
    /\ down' = [j \in Joins |-> <<>>]
    /\ owed' = InitialCats
    /\ UNCHANGED <<folding, moved, joinVars, trades, pushes, refusals, staleAck>>

(* The join's load completes: its world-reload edge runs resetSession.     *)
JoinLive(j) ==
    /\ ~live[j]
    /\ live' = [live EXCEPT ![j] = TRUE]
    /\ wallet' = [wallet EXCEPT ![j] = baked[j]]
    /\ poolSeen' = [poolSeen EXCEPT ![j] = Unseeded]
    /\ poolSeq' = [poolSeq EXCEPT ![j] = 0]
    /\ poolPending' = [poolPending EXCEPT ![j] = <<>>]
    /\ staleAck' = [staleAck EXCEPT ![j] = poolAckedByOwner[j]]
    /\ UNCHANGED <<hostVars, up, down, baked, bounds, refusals, owed>>

Next ==
    \/ \E p \in Players, d \in Trades : Trade(p, d)
    \/ \E due \in BOOLEAN : HostPublish(due)
    \/ \E j \in Joins : HostFold(j)
    \/ HostFoldUnreadable
    \/ HostFinish
    \/ \E j \in Joins : JoinTick(j)
    \/ ConnectPush
    \/ HostLoad
    \/ \E j \in Joins : JoinLive(j)

Spec == Init /\ [][Next]_vars

(* Every game loop keeps ticking, a drained batch is folded to its end, a  *)
(* load in progress completes, and the safety resend is a timer that keeps *)
(* coming due.                                                             *)
Fairness ==
    /\ SF_vars(HostPublish(TRUE))
    /\ WF_vars(HostFinish)
    /\ \A j \in Joins : SF_vars(HostFold(j)) /\ WF_vars(JoinTick(j)) /\ WF_vars(JoinLive(j))

FairSpec == Spec /\ Fairness

-----------------------------------------------------------------------------
Delta == [seq : Nat, delta : Int]
Total == [money : Nat]

TypeOK ==
    /\ wallet \in [Players -> Nat]
    /\ poolSeen \in [Players -> Nat \cup {Unseeded}]
    /\ poolTotal \in Nat \cup {NoTotal}
    /\ poolAckedByOwner \in [Joins -> Nat]
    /\ poolSeq \in [Joins -> Nat]
    /\ poolPending \in [Joins -> Seq(Delta)]
    /\ up \in [Joins -> Seq(Delta)]
    /\ down \in [Joins -> Seq(Total)]
    /\ live \in [Joins -> BOOLEAN]
    /\ baked \in [Joins -> Nat]
    /\ folding \in BOOLEAN /\ moved \in BOOLEAN
    /\ trades \in Nat /\ pushes \in Nat /\ loads \in Nat /\ refusals \in Nat
    /\ owed \in Int
    /\ staleAck \in [Joins -> Nat]

(* A batch that folded something has a pool to write back.                 *)
MovedHasTotal == folding /\ moved => poolTotal # NoTotal

(* applyMoneyPool on the host: every delta a live join has reported is     *)
(* either folded, once and in order, or still waiting in its lane - except *)
(* the ones numbered at or below the ack the host kept from the join's     *)
(* previous world, which are skipped, and a batch lost to a refused read.  *)
Waiting(j)   == Len(up[j])
Delivered(j) == poolSeq[j] - Waiting(j)
FoldedOnceInOrder ==
    \A j \in Joins : live[j] =>
        /\ \A i \in 1 .. Waiting(j) : up[j][i].seq = Delivered(j) + i
        /\ \/ Delivered(j) <= staleAck[j] /\ poolAckedByOwner[j] = staleAck[j]
           \/ Delivered(j) > staleAck[j] /\ poolAckedByOwner[j] = Delivered(j)
           \/ refusals > 0 /\ poolAckedByOwner[j] <= Delivered(j)

(* The pool conserves cats: what the host holds, plus every join's unfolded*)
(* and unsampled movement, is the save's wallet plus every trade made in   *)
(* this world; the overdraft clamp adds the shortfall it absorbed and a    *)
(* skipped delta takes its movement back.  A wallet access the engine      *)
(* refused may lose a movement, so the claim is made while it refused none.*)
Pool == IF folding THEN poolTotal ELSE wallet[Host]
InLane(j) == SumFunction([i \in DOMAIN up[j] |-> up[j][i].delta])
Unsampled(j) == IF live[j] /\ poolSeen[j] # Unseeded THEN wallet[j] - poolSeen[j] ELSE 0
Conservation == refusals = 0 =>
    Pool + SumFunction([j \in Joins |-> InLane(j) + Unsampled(j)]) = owed

(* Once trading stops, every player's wallet shows the same cats, whatever *)
(* accesses the engine refused before.                                     *)
Convergence == <>[](\A j \in Joins : wallet[j] = wallet[Host])
=============================================================================

------------------------- MODULE InventoryTransfer -------------------------
(***************************************************************************)
(* Trades between the squads of two players and the snapshots that keep    *)
(* every copy of an inventory like its owner's (sync/ReplicatorItems.cpp,  *)
(* with the native reservations of game/EngineInternal.cpp).               *)
(*                                                                         *)
(* Every player owns one actor's inventory and holds a copy of the others. *)
(* A drag between an own and a peer's inventory happens at once in the     *)
(* local copies and is announced as an intent; the peer moves what it can  *)
(* and answers with a verdict and its own contents; what it did not move   *)
(* is moved back.  Until then snapshots wait: outgoing ones for the        *)
(* verdict, incoming ones for the latch that the move has left.            *)
(*                                                                         *)
(* One kind of item is modelled, by its number of units.  The streams are  *)
(* reliable and ordered, but an intent and an inventory have each their    *)
(* own inbound queue.                                                      *)
(***************************************************************************)
EXTENDS Integers, SequencesExt

CONSTANTS
    Session,    \* the players who are connected when trading begins
    HostPlayer,
    Traders,    \* the players whose inventories are modelled
    Unknown,    \* MAX_PLAYERS: a peer whose inventory was not seen yet
    Units,      \* units each player starts with
    MaxDrags,   \* bound: drags of all players
    MaxEvents   \* bound: units spent or found, and joins that leave

ASSUME TransferAssumption ==
    /\ HostPlayer \in Traders /\ Traders \subseteq Session
    /\ IsFiniteSet(Session) /\ Unknown \notin Session
    /\ Units \in Nat /\ MaxDrags \in Nat /\ MaxEvents \in Nat

VARIABLES
    online,
    stock,       \* stock[p][c]: units in p's copy of c's inventory
    xferOut,     \* xferOut_: p's unsettled drags, by their id
    nextXferId,
    xferLatch,   \* xferLatch_: containers of peers with a latch, ...
    delta,       \* ... and its delta
    intents,     \* intents[p][q]: sent by p, not yet taken by q
    inventory,   \* inventory[p][q]: snapshots and verdicts on the way
    received,    \* receivedXferAcks_
    invRecv,     \* invRecv_: the last snapshot of each container
    deferred,    \* deferredInvCommits_: an own snapshot is owed
    events       \* history: units found and spent, joins that left

tradeVars == <<online, stock, xferOut, nextXferId, xferLatch, delta, intents,
          inventory, received, invRecv, deferred, events>>
trading == <<xferOut, nextXferId, intents>>
snapshots == <<inventory, invRecv, deferred>>
latches == <<xferLatch, delta>>

Nothing == [seen |-> FALSE, units |-> 0, truncated |-> FALSE, dirty |-> FALSE]

TradeInit ==
    /\ online = Session
    /\ stock = [p \in Traders |-> [c \in Traders |-> Units]]
    /\ xferOut = [p \in Traders |-> <<>>] /\ nextXferId = [p \in Traders |-> 1]
    /\ xferLatch = [p \in Traders |-> {}]
    /\ delta = [p \in Traders |-> [c \in Traders |-> 0]]
    /\ intents = [p \in Traders |-> [q \in Traders |-> <<>>]]
    /\ inventory = [p \in Traders |-> [q \in Traders |-> <<>>]]
    /\ received = [p \in Traders |-> {}]
    /\ invRecv = [p \in Traders |-> [c \in Traders |-> Nothing]]
    /\ deferred = [p \in Traders |-> FALSE]
    /\ events = [found |-> 0, spent |-> 0, left |-> 0]

-----------------------------------------------------------------------------
Eventful == events.found + events.spent + events.left < MaxEvents
Others(p) == (online \intersect Traders) \ {p}
(* Fault: units that await a verdict are not reserved.                     *)
ReservedNever(p, c) == FALSE

Out(p) == DOMAIN xferOut[p]
Reserved(p, c) == \E i \in Out(p) : xferOut[p][i].dst = c  \* transferVerdictPending

(* itemTransferPending of the destination, or an unsettled drag of an own  *)
(* end: of the two ends of a drag one is always the player's own.          *)
inventoryCommitPending(p) == Out(p) # {}

(* A real unit changes place in the copies of p.                           *)
Moved(p, src, dst, n) ==
    stock' = [stock EXCEPT ![p][src] = @ - n, ![p][dst] = @ + n]

\* The peer end of a drag, and the sign of the units it gains by it.
Peer(p, x) == IF x.src = p THEN x.dst ELSE x.src
Gain(p, x) == IF x.src = p THEN x.qty ELSE -x.qty

Snapshot(p, n, truncated) ==
    [kind |-> "snapshot", of |-> p, units |-> n, truncated |-> truncated]
Verdict(p, n, truncated, i, moved) ==
    [kind |-> "verdict", of |-> p, units |-> n, truncated |-> truncated,
     id |-> i, moved |-> moved]
Send(p, message) ==
    inventory' = [inventory EXCEPT ![p] =
        [q \in Traders |-> IF q \in Others(p) THEN Append(@[q], message[q])
                           ELSE @[q]]]

-----------------------------------------------------------------------------
(* The player drags q units between an own and a peer's inventory, and the *)
(* completed drag is announced.  Observers drop intents, so only the peer  *)
(* is sent one.                                                            *)
detectAndPublishTransfers(p, peer, src, dst, q) ==
    LET i == nextXferId[p]
        x == [src |-> src, dst |-> dst, qty |-> q,
              peer |-> IF invRecv[p][peer].seen THEN peer ELSE Unknown,
              verdict |-> -1, retired |-> FALSE]
        d == delta[p][peer] + Gain(p, x)
    IN  /\ SumFunction(nextXferId) < MaxDrags + Cardinality(Traders)
        /\ q <= stock[p][src] /\ ~Reserved(p, src)
        /\ Moved(p, src, dst, q)
        /\ xferOut' = [xferOut EXCEPT ![p] =
                          [k \in Out(p) \union {i} |-> IF k = i THEN x ELSE @[k]]]
        /\ nextXferId' = [nextXferId EXCEPT ![p] = i + 1]
        /\ intents' = [intents EXCEPT ![p][peer] =
                          Append(@, [id |-> i, src |-> src, dst |-> dst, qty |-> q])]
        /\ delta' = [delta EXCEPT ![p][peer] = d]
        /\ xferLatch' = [xferLatch EXCEPT ![p] =
                            IF d = 0 THEN @ \ {peer} ELSE @ \union {peer}]
        /\ UNCHANGED <<online, received, snapshots, events>>

Drag(p) ==
    \E peer \in Others(p) : \E q \in 1..stock[p][p] + stock[p][peer] :
        \/ detectAndPublishTransfers(p, peer, p, peer, q)
        \/ detectAndPublishTransfers(p, peer, peer, p, q)

(* The game changes an own inventory: units are found or made, eaten or    *)
(* spent.  Units that await a verdict cannot be removed.                   *)
Find(p) == /\ Eventful
           /\ events' = [events EXCEPT !.found = @ + 1]
           /\ stock' = [stock EXCEPT ![p][p] = @ + 1]
           /\ UNCHANGED <<online, trading, latches, received, snapshots>>
Spend(p) == /\ Eventful
            /\ stock[p][p] > 0 /\ ~Reserved(p, p)
            /\ events' = [events EXCEPT !.spent = @ + 1]
            /\ stock' = [stock EXCEPT ![p][p] = @ - 1]
            /\ UNCHANGED <<online, trading, latches, received, snapshots>>

-----------------------------------------------------------------------------
(* An intent of q is taken: what can be moved is moved, a peer's end gets  *)
(* a latch, and the verdict leaves in one batch with the own contents, or  *)
(* with an empty incomplete description when those await a verdict too.    *)
Judge(p, q, x, moved) ==
    LET pending == inventoryCommitPending(p)
        units == IF pending THEN 0 ELSE stock'[p][p]
    IN  /\ Send(p, [r \in Traders |->
                      IF r = q THEN Verdict(p, units, pending, x.id, moved)
                      ELSE Snapshot(p, units, pending)])
        /\ deferred' = [deferred EXCEPT ![p] = @ \/ pending]

queueXferVerdictWhole(p, q, x, n) ==  \* Fault: partial moves are not told.
    Judge(p, q, x, IF n > 0 THEN x.qty ELSE 0)

queueXferVerdict(p, q, x, n) == Judge(p, q, x, n)

Taken(p, q, x, n) ==
    /\ Moved(p, x.src, x.dst, n)
    /\ IF n = 0 THEN UNCHANGED latches
       ELSE /\ xferLatch' = [xferLatch EXCEPT ![p] = @ \union {q}]
            /\ delta' = [delta EXCEPT ![p][q] = IF x.src = q THEN @ - n ELSE @ + n]
    /\ queueXferVerdict(p, q, x, n)
    /\ intents' = [intents EXCEPT ![q][p] = Tail(@)]
    /\ UNCHANGED <<online, xferOut, nextXferId, received, invRecv, events>>

(* Fault: a verdict waits until the own drags are settled.                 *)
applyTransfersWaiting(p, q) ==
    /\ ~inventoryCommitPending(p) /\ intents[q][p] # <<>>
    /\ LET x == Head(intents[q][p])
       IN  \E n \in 0 .. x.qty : n <= stock[p][x.src] /\ Taken(p, q, x, n)

\* Nothing is moved out of a reserved end, and the other may have no room.
applyTransfers(p, q) ==
    /\ intents[q][p] # <<>>
    /\ LET x == Head(intents[q][p])
       IN  \E n \in 0 .. x.qty :
             /\ n <= stock[p][x.src] /\ (Reserved(p, x.src) => n = 0)
             /\ Taken(p, q, x, n)

-----------------------------------------------------------------------------
(* A snapshot is cached, the verdict that came with it is kept for later.  *)
ingestInv(p, q) ==
    /\ inventory[q][p] # <<>>
    /\ LET m == Head(inventory[q][p])
       IN  /\ invRecv' = [invRecv EXCEPT ![p][q] =
                 [seen |-> TRUE, units |-> m.units, truncated |-> m.truncated,
                  dirty |-> TRUE]]
           /\ received' = IF m.kind = "snapshot" THEN received
                          ELSE [received EXCEPT ![p] = @ \union {m}]
    /\ inventory' = [inventory EXCEPT ![q][p] = Tail(@)]
    /\ UNCHANGED <<online, stock, trading, latches, deferred, events>>

(* The first loop of applyXferAcks: a verdict counts once, from the peer   *)
(* that has the other end.                                                 *)
AnswersTo(p, m, i) ==
    LET x == xferOut[p][i]
    IN  /\ m.id = i /\ x.verdict = -1 /\ ~x.retired
        /\ m.of = IF x.peer = Unknown THEN Peer(p, x) ELSE x.peer

Judged(p, i) ==
    LET ms == {m \in received[p] : AnswersTo(p, m, i)}
    IN  IF ms = {} THEN xferOut[p][i]
        ELSE [xferOut[p][i] EXCEPT !.verdict = (CHOOSE m \in ms : TRUE).moved]

applyXferAcks(p) ==
    /\ received[p] # {} /\ received' = [received EXCEPT ![p] = {}]
    /\ xferOut' = [xferOut EXCEPT ![p] = [i \in Out(p) |-> Judged(p, i)]]
    /\ UNCHANGED <<online, stock, nextXferId, intents, latches,
                   snapshots, events>>

(* Fault: the latch goes with the first of its drags.                      *)
ReleasedFirst(p, peer, d) ==
    /\ xferLatch' = [xferLatch EXCEPT ![p] = @ \ {peer}]
    /\ UNCHANGED delta

Released(p, peer, d) ==
    LET sum == delta[p][peer] + d
    IN  IF peer \notin xferLatch[p] THEN UNCHANGED latches
        ELSE /\ delta' = [delta EXCEPT ![p][peer] = sum]
             /\ xferLatch' = [xferLatch EXCEPT ![p] =
                                IF sum = 0 THEN @ \ {peer} ELSE @]

(* The second loop: what the peer refused is moved back, on a later tick   *)
(* when the source has no room for it now, and the drag is settled.        *)
SettleDrag(p) == \E i \in Out(p) :
    LET x == xferOut[p][i]
        refused == x.qty - x.verdict
        peer == Peer(p, x)
    IN  /\ received[p] = {} /\ x.verdict >= 0 /\ ~x.retired
        /\ stock[p][x.dst] >= refused
        /\ Moved(p, x.dst, x.src, refused)
        /\ Released(p, peer, -Gain(p, x))
        /\ invRecv' = [invRecv EXCEPT ![p][peer].dirty = invRecv[p][peer].seen]
        /\ xferOut' = [xferOut EXCEPT ![p] = Restrict(@, Out(p) \ {i})]
        /\ UNCHANGED <<online, nextXferId, intents, inventory, received, deferred,
                       events>>

-----------------------------------------------------------------------------
(* A cached snapshot of c becomes p's copy, whole or not at all: a drag    *)
(* into it must be settled, and a latch is only released by contents that  *)
(* are those of the copy.                                                  *)
LatchHolds(p, c) ==
    /\ c \in xferLatch[p]
    /\ \/ \E i \in Out(p) : c \in {xferOut[p][i].src, xferOut[p][i].dst}
       \/ invRecv[p][c].units # stock[p][c]

(* Fault: every snapshot is applied as an incomplete one.                  *)
applyInventoriesAdditive(p, c) ==
    /\ received[p] = {}
    /\ c # p /\ invRecv[p][c].dirty
    /\ ~Reserved(p, c) /\ ~LatchHolds(p, c)
    /\ xferLatch' = [xferLatch EXCEPT ![p] = @ \ {c}]
    /\ delta' = [delta EXCEPT ![p][c] = 0]
    /\ invRecv' = [invRecv EXCEPT ![p][c].dirty = FALSE]
    /\ stock' = [stock EXCEPT ![p][c] =
                   IF @ > invRecv[p][c].units THEN @ ELSE invRecv[p][c].units]
    /\ UNCHANGED <<online, trading, received, inventory, deferred, events>>

applyInventories(p, c) ==
    /\ received[p] = {}
    /\ c # p /\ invRecv[p][c].dirty
    /\ ~Reserved(p, c) /\ ~LatchHolds(p, c)
    /\ xferLatch' = [xferLatch EXCEPT ![p] = @ \ {c}]
    /\ delta' = [delta EXCEPT ![p][c] = 0]
    /\ invRecv' = [invRecv EXCEPT ![p][c].dirty = FALSE]
    /\ stock' = [stock EXCEPT ![p][c] =
                   IF invRecv[p][c].truncated /\ @ > invRecv[p][c].units
                   THEN @ ELSE invRecv[p][c].units]
    /\ UNCHANGED <<online, trading, received, inventory, deferred, events>>

Publish(p) ==
    /\ ~inventoryCommitPending(p)
    /\ Send(p, [q \in Traders |-> Snapshot(p, stock[p][p], FALSE)])
    /\ UNCHANGED <<online, stock, trading, latches, received, invRecv, events>>

publishDeferredChanged(p) ==      \* Fault: contents as last sent are skipped.
    /\ \E q \in Others(p) : invRecv[q][p].units # stock[p][p]
    /\ deferred[p] /\ deferred' = [deferred EXCEPT ![p] = FALSE] /\ Publish(p)

publishDeferredInventoryCommits(p) ==
    deferred[p] /\ deferred' = [deferred EXCEPT ![p] = FALSE] /\ Publish(p)

(* A change is published once it has settled, and all of it now and then   *)
(* again.  Bound: not before the last publication was taken, and not when  *)
(* every copy is already like it.                                          *)
publishInventories(p) ==
    /\ \A q \in Others(p) : inventory[p][q] = <<>>
    /\ \E q \in Others(p) : invRecv[q][p].units # stock[p][p] \/ ~invRecv[q][p].seen
                             \/ stock[q][p] # stock[p][p]
    /\ UNCHANGED deferred /\ Publish(p)

-----------------------------------------------------------------------------
(* A join leaves.  Drags that await its verdict are retired, and so are    *)
(* those whose peer is not known yet.  The host alone starts afresh.       *)
Retire(out, q) ==
    [i \in DOMAIN out |-> [out[i] EXCEPT !.retired = @ \/ out[i].peer \in {q, Unknown}]]

onPeerDisconnected(q) ==
    LET stay == online \ {q}
        alone == stay = {HostPlayer}
        here == IF alone THEN {} ELSE stay \intersect Traders
    IN  /\ q # HostPlayer /\ Eventful
        /\ online' = stay /\ events' = [events EXCEPT !.left = @ + 1]
        /\ xferOut' = [p \in Traders |-> IF p \in here THEN Retire(xferOut[p], q) ELSE <<>>]
        /\ intents' = [p \in Traders |-> [r \in Traders |->
                          IF {p, r} \subseteq here THEN intents[p][r] ELSE <<>>]]
        /\ inventory' = [p \in Traders |-> [r \in Traders |->
                          IF {p, r} \subseteq here THEN inventory[p][r] ELSE <<>>]]
        /\ invRecv' = [p \in Traders |-> [c \in Traders |->
                          IF {p, c} \subseteq here THEN invRecv[p][c] ELSE Nothing]]
        /\ xferLatch' = [p \in Traders |-> IF p \in here THEN xferLatch[p] ELSE {}]
        /\ delta' = [p \in Traders |-> IF p \in here THEN delta[p] ELSE [c \in Traders |-> 0]]
        /\ received' = [p \in Traders |-> IF p \in here THEN received[p] ELSE {}]
        /\ deferred' = [p \in Traders |-> p \in here /\ deferred[p]]
        /\ UNCHANGED <<stock, nextXferId>>

-----------------------------------------------------------------------------
Tick(p) ==
    \/ \E q \in Others(p) : applyTransfers(p, q) \/ ingestInv(p, q)
    \/ applyXferAcks(p) \/ SettleDrag(p)
    \/ \E c \in Others(p) : applyInventories(p, c)
    \/ publishDeferredInventoryCommits(p) \/ publishInventories(p)

TradeNext ==
    \/ \E p \in online \intersect Traders : Tick(p) \/ Drag(p) \/ Find(p) \/ Spend(p)
    \/ \E q \in online : onPeerDisconnected(q)

TradeSpec == TradeInit /\ [][TradeNext]_tradeVars

(* Every handler is called on every tick, and a source that has no room    *)
(* for what was refused gets some.                                         *)
FairTradeSpec ==
    /\ TradeSpec
    /\ \A p \in Traders :
         /\ WF_tradeVars(applyXferAcks(p)) /\ WF_tradeVars(SettleDrag(p))
         /\ WF_tradeVars(publishDeferredInventoryCommits(p))
         /\ WF_tradeVars(publishInventories(p))
         /\ \A q \in Traders \ {p} :
              /\ WF_tradeVars(applyTransfers(p, q)) /\ WF_tradeVars(ingestInv(p, q))
              /\ WF_tradeVars(applyInventories(p, q))

-----------------------------------------------------------------------------
Drags == [src : Traders, dst : Traders, qty : Nat \ {0},
          peer : Traders \union {Unknown}, verdict : Nat \union {-1},
          retired : BOOLEAN]
Intents == [id : Nat, src : Traders, dst : Traders, qty : Nat \ {0}]
Snapshots == [kind : {"snapshot"}, of : Traders, units : Nat, truncated : BOOLEAN]
Verdicts == [kind : {"verdict"}, of : Traders, units : Nat, truncated : BOOLEAN,
             id : Nat, moved : Nat]
Received == [seen : BOOLEAN, units : Nat, truncated : BOOLEAN, dirty : BOOLEAN]

(* The types, with what a drag is: its ends are the player's own and that  *)
(* of a peer, and no peer moves more than was asked of it.                 *)
TradeTypes ==
    /\ online \subseteq Session /\ HostPlayer \in online
    /\ stock \in [Traders -> [Traders -> Nat]]
    /\ nextXferId \in [Traders -> Nat \ {0}]
    /\ DOMAIN xferOut = Traders
    /\ \A p \in Traders : /\ xferOut[p] \in [Out(p) -> Drags]
                          /\ Out(p) \subseteq 1 .. nextXferId[p] - 1
    /\ xferLatch \in [Traders -> SUBSET Traders]
    /\ delta \in [Traders -> [Traders -> Int]]
    /\ intents \in [Traders -> [Traders -> Seq(Intents)]]
    /\ inventory \in [Traders -> [Traders -> Seq(Snapshots \union Verdicts)]]
    /\ received \in [Traders -> SUBSET Verdicts]
    /\ invRecv \in [Traders -> [Traders -> Received]]
    /\ deferred \in [Traders -> BOOLEAN]
    /\ events \in [found : Nat, spent : Nat, left : Nat]
    /\ \A p \in Traders : \A i \in Out(p) :
          LET x == xferOut[p][i]
          IN  /\ (x.src = p) # (x.dst = p) /\ x.verdict <= x.qty
              /\ x.peer \in {Peer(p, x), Unknown}
    /\ \A p, c \in Traders : c \notin xferLatch[p] => delta[p][c] = 0

(* What of a drag its peer has not moved: all of it until the verdict.     *)
VerdictsOn(p, i) ==
    {m \in received[p] \union Range(inventory[Peer(p, xferOut[p][i])][p]) :
        m.kind = "verdict" /\ m.id = i}
Unmoved(p, i) ==
    LET x == xferOut[p][i]
    IN  IF x.verdict >= 0 THEN x.qty - x.verdict
        ELSE IF VerdictsOn(p, i) = {} THEN x.qty
        ELSE x.qty - (CHOOSE m \in VerdictsOn(p, i) : TRUE).moved
Pledged(p, i) == IF xferOut[p][i].src = p THEN Unmoved(p, i) ELSE -Unmoved(p, i)
Holding(p) == stock[p][p] + SumFunction([i \in Out(p) |-> Pledged(p, i)])

(* Units are neither lost nor made by a trade: what the owners have is     *)
(* what they started with and what was found less what was spent, but for  *)
(* the units of a drag in flight that its peer has not moved, which are    *)
(* double or missing until they are moved back (Replicator.h, "A refusal   *)
(* reverses the actual unaccepted units").                                 *)
Conserved ==
    online = Session =>
        SumFunction([p \in Traders |-> Holding(p)])
        = Cardinality(Traders) * Units + events.found - events.spent

(* Every refusal can be reversed: whatever snapshots, trades of others and *)
(* the game do in between, the units whose verdict is out are still where  *)
(* they were put (transferVerdictPending, itemTransferPending).            *)
Awaiting(p, c, i) ==
    LET x == xferOut[p][i]
    IN  IF x.dst # c THEN 0 ELSE IF x.verdict >= 0 THEN x.qty - x.verdict ELSE x.qty
Reversible ==
    \A p, c \in Traders :
        stock[p][c] >= SumFunction([i \in Out(p) |-> Awaiting(p, c, i)])

(* Every drag is settled, simultaneous ones too, unless a player left      *)
(* while it was out (ReplicatorItems.cpp:208, "The verdict must still      *)
(* leave": waiting would deadlock).                                        *)
Settles ==
    \A p \in Traders : \A i \in 1 .. MaxDrags :
        (i \in Out(p)) ~> (i \in Out(p) => xferOut[p][i].retired)

(* An owner whose verdict left without its contents publishes them later   *)
(* (Plugin.cpp:1855: "Transfer commits must converge"), unless a retired   *)
(* drag pins them.                                                         *)
CommitsFollow ==
    \A p \in Traders :
        deferred[p] ~> (~deferred[p] \/ \E i \in Out(p) : xferOut[p][i].retired)

(* The dead ends of a copy: a latch that no snapshot will match, because   *)
(* the owner's units changed before it had published the trade, or the     *)
(* copy was out of date when the trade was applied to it; and an owner who *)
(* is gone or whose retired drag holds back what it publishes.  The first  *)
(* is not what Replicator.h:1637 says: "A peer snapshot is held as a whole *)
(* until its owner has incorporated the move".                             *)
Pinned(p) == \E i \in Out(p) : xferOut[p][i].retired
LatchStuck(p, c) ==
    /\ c \in xferLatch[p] /\ invRecv[p][c].units # stock[p][c]
    /\ events.found + events.spent > 0

(* Once the trading ends every copy becomes, and stays, what its owner     *)
(* has, short of those dead ends.                                          *)
CopiesAgree ==
    \A p \in Traders : \A c \in Traders \ {p} :
        <>[](\/ stock[p][c] = stock[c][c]
             \/ {p, c} \ online # {} \/ Pinned(c) \/ Pinned(p)
             \/ LatchStuck(p, c))

=============================================================================

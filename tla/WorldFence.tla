------------------------------ MODULE WorldFence ------------------------------
(***************************************************************************)
(* The world fence of NetLink.                                             *)
(*                                                                         *)
(* Gameplay packets describe the world they were captured in, and the host *)
(* may load another one, or bring every join into a fresh copy of its own, *)
(* at any time.  A world has a token, drawn by the host.  A LOAD_GO tells  *)
(* a join the token and the load id of the world to load; READY tells the  *)
(* host it lives there.  In between neither side sends or accepts gameplay *)
(* frames for the other.  LOAD_GO travels on the SAVE_BULK lane, READY and *)
(* the gameplay frames on GAME_RELIABLE: each lane is in order, the two    *)
(* are not.                                                                *)
(*                                                                         *)
(* Every frame carries, as history, the world it was captured in: its      *)
(* token, its author and, for a join, the load id of the author's copy.    *)
(* Appending to pending stands for both outcomes of sendNative, since a    *)
(* frame that is not blocked may be drained at once.  What a bump makes    *)
(* stale is dropped when it is taken from its queue, not when the bump     *)
(* clears the queue: nothing else looks at it in between.                  *)
(***************************************************************************)
EXTENDS Integers, Sequences

CONSTANTS
    Joins,      \* the joining players
    Host,       \* the host, as the author of a frame
    MaxAdmits,  \* bound: admissions in a behaviour
    MaxLoads,   \* bound: worlds the host loads after its first
    MaxPushes,  \* bound: connect-pushes
    MaxFrames   \* bound: gameplay packets captured

ASSUME FenceAssumption ==
    /\ Host \notin Joins
    /\ MaxAdmits \in Nat /\ MaxLoads \in Nat /\ MaxPushes \in Nat
    /\ MaxFrames \in Nat

VARIABLES
    \* the host
    hostWorld,   \* token of the world its engine runs
    loading,     \* between its load edge and its reload edge
    worldToken,  \* worldToken_
    sendEpoch,   \* sendEpoch_
    loadIdOut,   \* g_loadIdOut
    publications,\* publications_: captured packets the worker has yet to take
    peers,       \* peers_: ready, expectedLoadId and expectedWorld of each join
    pending,     \* pending_[GAME_RELIABLE] of each join
    inbound,     \* Inbound's world queues
    \* the network
    link,        \* the joins that are admitted
    bulk,        \* LOAD_GOs on the way to each join
    down, up,    \* GAME_RELIABLE to and from each join
    \* the joins
    joins,
    \* history
    hasty,       \* worlds a join reported ready for before the host's swap
    \* bounds
    admits, pushes, frames

hostVars == <<hostWorld, loading, worldToken, sendEpoch, loadIdOut, publications,
              peers, pending, inbound>>
netVars == <<link, bulk, down, up>>
vars == <<hostVars, netVars, joins, hasty, admits, pushes, frames>>

NoWorld == [token |-> 0, id |-> 0]
NewPeer == [ready |-> FALSE, load |-> 0, world |-> 0]

(* A join's NetLink and the world its engine runs.  latestLoadWorld_ is     *)
(* left out: it is set and cleared together with worldToken_.              *)
NewJoin ==
    [world |-> NoWorld,     \* what its engine runs
     token |-> 0,           \* worldToken_
     latest |-> 0,          \* latestLoadId_
     epoch |-> 0,           \* sendEpoch_
     localReady |-> FALSE,  \* localReady_
     ready |-> FALSE,       \* the host's Peer.ready
     go |-> NoWorld,        \* LOAD_GO in Inbound, the newest
     target |-> NoWorld,    \* the load its engine is in
     live |-> 0,            \* pendingReadyLoadId, once that world is live
     publications |-> <<>>,
     pending |-> <<>>,      \* pending_[GAME_RELIABLE], its gameplay frames
     control |-> NoWorld,   \* and the READY among them
     inbound |-> {}]

Init ==
    /\ hostWorld = 1 /\ worldToken = 1 /\ loading = FALSE
    /\ sendEpoch = 0 /\ loadIdOut = 0
    /\ publications = <<>> /\ inbound = {}
    /\ peers = [j \in Joins |-> NewPeer]
    /\ pending = [j \in Joins |-> <<>>]
    /\ link = {}
    /\ bulk = [j \in Joins |-> <<>>]
    /\ down = [j \in Joins |-> <<>>] /\ up = [j \in Joins |-> <<>>]
    /\ joins = [j \in Joins |-> NewJoin]
    /\ hasty = {}
    /\ admits = 0 /\ pushes = 0 /\ frames = 0

-----------------------------------------------------------------------------
(* A frame stamped with the token and the epoch of the moment it is sent.  *)
Stamped(p, token, epoch) ==
    [type |-> "WORLD", world |-> token, epoch |-> epoch, origin |-> p.origin]

(* drainPending purges the frames that are not.                            *)
Fresh(f, token, epoch) == f.epoch = epoch /\ f.world = token

(* The host's side of the gate: it may send to and hear from a join.       *)
Open(j) == peers[j].ready /\ peers[j].world = worldToken

(* The join's side.                                                        *)
JoinOpen(r) == r.localReady /\ r.ready

(* currentReady                                                            *)
CurrentReady(r, p) == r.localReady /\ p.id = r.latest /\ p.token = r.token

-----------------------------------------------------------------------------
(* The network.                                                            *)

(* HELLO, WELCOME and SESSION_ACK in one step.                             *)
Admit(j) ==
    /\ j \notin link /\ admits < MaxAdmits /\ admits' = admits + 1
    /\ link' = link \cup {j}
    /\ peers' = [peers EXCEPT ![j] = NewPeer]
    /\ joins' = [joins EXCEPT ![j].ready = TRUE]
    /\ UNCHANGED <<hostWorld, loading, worldToken, sendEpoch, loadIdOut, publications,
                   pending, inbound, bulk, down, up, hasty, pushes, frames>>

(* The connection is retired on both sides, and the join's worker starts   *)
(* over: its tokens and queues are cleared before the next attempt, its    *)
(* engine stays in the world it runs.  What waits for its game thread      *)
(* stays until the game thread drains the leave, or for good: nothing here *)
(* depends on when.                                                        *)
Drop(j) ==
    /\ j \in link
    /\ link' = link \ {j}
    /\ pending' = [pending EXCEPT ![j] = <<>>]
    /\ inbound' = {f \in inbound : f.by # j}
    /\ bulk' = [bulk EXCEPT ![j] = <<>>]
    /\ down' = [down EXCEPT ![j] = <<>>] /\ up' = [up EXCEPT ![j] = <<>>]
    /\ joins' = [joins EXCEPT ![j] =
          [@ EXCEPT !.epoch = joins[j].epoch + 1, !.token = 0, !.latest = 0,
                    !.localReady = FALSE, !.ready = FALSE,
                    !.publications = <<>>, !.pending = <<>>, !.control = NoWorld]]
    /\ UNCHANGED <<hostWorld, loading, worldToken, sendEpoch, loadIdOut, publications,
                   peers, hasty, admits, pushes, frames>>

-----------------------------------------------------------------------------
(* The host.                                                               *)

(* queueLoadGo                                                             *)
QueueLoadGo(q, token) ==
    Append(q, [type |-> "GO", id |-> loadIdOut + 1, token |-> token])

(* Fault: LOAD_GO is queued before the token is drawn.                     *)
HostLoadBeforeRotation ==
    /\ ~loading /\ worldToken <= MaxLoads
    /\ loading' = TRUE
    /\ worldToken' = worldToken + 1 /\ sendEpoch' = sendEpoch + 1
    /\ publications' = QueueLoadGo(publications, worldToken)
    /\ loadIdOut' = loadIdOut + 1
    /\ UNCHANGED <<hostWorld, peers, pending, inbound, netVars, joins, hasty, admits,
                   pushes, frames>>

(* driveLoadSync's load edge: bumpSessionEpoch draws the token of the new  *)
(* world, and the LOAD_GO follows.  The engine swaps later.                *)
HostLoad ==
    /\ ~loading /\ worldToken <= MaxLoads
    /\ loading' = TRUE
    /\ worldToken' = worldToken + 1 /\ sendEpoch' = sendEpoch + 1
    /\ publications' = QueueLoadGo(publications, worldToken + 1)
    /\ loadIdOut' = loadIdOut + 1
    /\ UNCHANGED <<hostWorld, peers, pending, inbound, netVars, joins, hasty, admits,
                   pushes, frames>>

(* Fault: the reload edge flushes the inbound queues only.                 *)
HostReloadWithoutBump ==
    /\ loading /\ loading' = FALSE
    /\ hostWorld' = worldToken
    /\ inbound' = {}
    /\ UNCHANGED <<sendEpoch, publications, worldToken, loadIdOut, peers, pending,
                   netVars, joins, hasty, admits, pushes, frames>>

(* sessionResetForWorldReload on the host's reload edge.                   *)
HostReload ==
    /\ loading /\ loading' = FALSE
    /\ hostWorld' = worldToken
    /\ inbound' = {}
    /\ sendEpoch' = sendEpoch + 1
    /\ UNCHANGED <<publications, worldToken, loadIdOut, peers, pending, netVars,
                   joins, hasty, admits, pushes, frames>>

(* A connect-push settles: every join is brought into a copy, under the    *)
(* token the host has drawn last, also when its own swap is still to come. *)
ConnectPush ==
    /\ link # {} /\ pushes < MaxPushes /\ pushes' = pushes + 1
    /\ publications' = QueueLoadGo(publications, worldToken)
    /\ loadIdOut' = loadIdOut + 1
    /\ UNCHANGED <<hostWorld, loading, worldToken, sendEpoch, peers, pending, inbound,
                   netVars, joins, hasty, admits, frames>>

(* The game thread publishes a gameplay packet.                            *)
HostCapture ==
    /\ frames < MaxFrames /\ frames' = frames + 1
    /\ publications' = Append(publications,
          [type |-> "WORLD", epoch |-> sendEpoch,
           origin |-> [by |-> Host, token |-> hostWorld, id |-> 0]])
    /\ UNCHANGED <<hostWorld, loading, worldToken, sendEpoch, loadIdOut, peers,
                   pending, inbound, netVars, joins, hasty, admits, pushes>>

(* Fault: a LOAD_GO for the token the join already has keeps it ready.     *)
ExpectKeepsReady(peer, p) ==
    [ready |-> peer.ready /\ peer.world = p.token,
     load |-> p.id, world |-> p.token]

(* sendNative on a LOAD_GO: the join is not ready until it says so.        *)
Expect(peer, p) ==
    [ready |-> peer.ready /\ peer.load = p.id /\ peer.world = p.token,
     load |-> p.id, world |-> p.token]

(* The worker takes the oldest publication and broadcasts it; a gameplay   *)
(* packet published before the last bump is dropped.                       *)
HostPublish ==
    /\ publications # <<>> /\ publications' = Tail(publications)
    /\ LET p == Head(publications) IN
       \/ /\ p.type = "GO"
          /\ peers' = [j \in Joins |-> IF j \in link THEN Expect(peers[j], p)
                                       ELSE peers[j]]
          /\ bulk' = [j \in Joins |-> IF j \in link THEN Append(bulk[j], p)
                                      ELSE bulk[j]]
          /\ UNCHANGED pending
       \/ /\ p.type = "WORLD" /\ p.epoch = sendEpoch
          /\ pending' = [j \in Joins |->
                IF j \in link THEN Append(pending[j], Stamped(p, worldToken, sendEpoch))
                ELSE pending[j]]
          /\ UNCHANGED <<peers, bulk>>
       \/ /\ p.type = "WORLD" /\ p.epoch # sendEpoch
          /\ UNCHANGED <<peers, bulk, pending>>
    /\ UNCHANGED <<hostWorld, loading, worldToken, sendEpoch, loadIdOut, inbound,
                   link, down, up, joins, hasty, admits, pushes, frames>>

(* drainPending: a stale frame is purged, any other goes out unless the    *)
(* join is not ready for it.                                               *)
HostDrain(j) ==
    /\ pending[j] # <<>>
    /\ LET f == Head(pending[j]) IN
       \/ /\ Fresh(f, worldToken, sendEpoch) /\ Open(j)
          /\ down' = [down EXCEPT ![j] = Append(@, f)]
       \/ ~Fresh(f, worldToken, sendEpoch) /\ UNCHANGED down
    /\ pending' = [pending EXCEPT ![j] = Tail(@)]
    /\ UNCHANGED <<hostWorld, loading, worldToken, sendEpoch, loadIdOut, publications,
                   peers, inbound, link, bulk, up, joins, hasty, admits, pushes,
                   frames>>

(* worldCurrent on the host.                                               *)
Accepts(j, f) == f.world = worldToken /\ Open(j)

(* A gameplay frame of a join's is queued for the game thread and relayed  *)
(* to the other joins, or dropped.                                         *)
HostReceiveFrame(j) ==
    /\ up[j] # <<>> /\ Head(up[j]).type = "WORLD"
    /\ up' = [up EXCEPT ![j] = Tail(@)]
    /\ LET f == Head(up[j]) IN
       \/ /\ Accepts(j, f)
          /\ inbound' = inbound \cup {f.origin}
          /\ pending' = [k \in Joins |->
                IF k \in link \ {j}
                THEN Append(pending[k], Stamped(f, worldToken, sendEpoch))
                ELSE pending[k]]
       \/ ~Accepts(j, f) /\ UNCHANGED <<inbound, pending>>
    /\ UNCHANGED <<hostWorld, loading, worldToken, sendEpoch, loadIdOut, publications,
                   peers, link, bulk, down, joins, hasty, admits, pushes, frames>>

IsExpected(j, p) ==
    p.id = peers[j].load /\ p.token = peers[j].world /\ p.token = worldToken

(* WORLD_READY opens the host's side of the gate if it is the load the     *)
(* join was last sent.  Nothing asks whether the host's own engine is in   *)
(* that world yet; hasty remembers a world that was opened before it was.  *)
HostReceiveReady(j) ==
    /\ up[j] # <<>> /\ Head(up[j]).type = "READY"
    /\ up' = [up EXCEPT ![j] = Tail(@)]
    /\ peers' = IF IsExpected(j, Head(up[j]))
                THEN [peers EXCEPT ![j].ready = TRUE] ELSE peers
    /\ hasty' = IF loading /\ IsExpected(j, Head(up[j]))
                THEN hasty \cup {worldToken} ELSE hasty
    /\ UNCHANGED <<hostWorld, loading, worldToken, sendEpoch, loadIdOut, publications,
                   pending, inbound, link, bulk, down, joins, admits, pushes, frames>>

-----------------------------------------------------------------------------
(* The joins.                                                              *)

(* LOAD_GO: the join's gate closes and what it queued or was sent for the  *)
(* old world goes.                                                         *)
JoinReceiveGo(j) ==
    /\ bulk[j] # <<>> /\ bulk' = [bulk EXCEPT ![j] = Tail(@)]
    /\ LET p == Head(bulk[j]) r == joins[j] IN
       joins' = [joins EXCEPT ![j] =
          [r EXCEPT !.token = p.token, !.latest = p.id, !.epoch = r.epoch + 1,
                    !.localReady = FALSE, !.ready = FALSE, !.inbound = {},
                    !.go = [token |-> p.token, id |-> p.id]]]
    /\ UNCHANGED <<hostVars, link, down, up, hasty, admits, pushes, frames>>

(* A gameplay frame of the host's, or one it relays.                       *)
JoinReceiveFrame(j) ==
    /\ down[j] # <<>> /\ down' = [down EXCEPT ![j] = Tail(@)]
    /\ LET f == Head(down[j]) r == joins[j] IN
       joins' = IF f.world = r.token /\ JoinOpen(r)
                THEN [joins EXCEPT ![j].inbound = @ \cup {f.origin}] ELSE joins
    /\ UNCHANGED <<hostVars, link, bulk, up, hasty, admits, pushes, frames>>

(* driveLoadSync: the game thread follows the newest LOAD_GO.  A LOAD_GO    *)
(* that is drained during a load waits for its end here.                   *)
JoinFollow(j) ==
    LET r == joins[j] IN
    /\ r.go # NoWorld /\ r.target = NoWorld
    /\ joins' = [joins EXCEPT ![j] = [r EXCEPT !.target = r.go, !.go = NoWorld,
                                               !.live = 0]]
    /\ UNCHANGED <<hostVars, netVars, hasty, admits, pushes, frames>>

(* The reload edge: sessionResetForWorldReload, then noteJoinWorldLive.    *)
JoinReload(j) ==
    LET r == joins[j] IN
    /\ r.target # NoWorld
    /\ joins' = [joins EXCEPT ![j] =
          [r EXCEPT !.world = r.target, !.target = NoWorld, !.live = r.target.id,
                    !.epoch = r.epoch + 1, !.localReady = FALSE, !.inbound = {}]]
    /\ UNCHANGED <<hostVars, netVars, hasty, admits, pushes, frames>>

(* tickProceduralWorld and queueWorldReady, once the loaded regions are    *)
(* reconciled with the host's.                                             *)
JoinWorldReady(j) ==
    LET r == joins[j] IN
    /\ j \in link /\ r.live # 0
    /\ joins' = [joins EXCEPT ![j] =
          IF r.live = r.latest
          THEN [r EXCEPT !.live = 0, !.localReady = TRUE,
                         !.publications = Append(@,
                            [type |-> "READY", id |-> r.latest, token |-> r.token])]
          ELSE [r EXCEPT !.live = 0]]
    /\ UNCHANGED <<hostVars, netVars, hasty, admits, pushes, frames>>

(* The join's game thread publishes a gameplay packet.                     *)
JoinCapture(j) ==
    LET r == joins[j] IN
    /\ frames < MaxFrames /\ frames' = frames + 1
    /\ r.world # NoWorld
    /\ joins' = [joins EXCEPT ![j].publications = Append(@,
          [type |-> "WORLD", epoch |-> r.epoch,
           origin |-> [by |-> j, token |-> r.world.token, id |-> r.world.id]])]
    /\ UNCHANGED <<hostVars, netVars, hasty, admits, pushes>>

(* The join's worker takes its oldest publication: a gameplay packet       *)
(* published before the last bump and a READY for another load are         *)
(* dropped.                                                                *)
JoinPublish(j) ==
    LET r == joins[j]
        p == Head(r.publications)
        taken == [r EXCEPT !.publications = Tail(@)]
    IN /\ j \in link /\ r.publications # <<>>
       /\ joins' = [joins EXCEPT ![j] =
             IF p.type = "READY" /\ CurrentReady(r, p)
             THEN [taken EXCEPT !.control = [token |-> p.token, id |-> p.id]]
             ELSE IF p.type = "WORLD" /\ p.epoch = r.epoch /\ r.token # 0
             THEN [taken EXCEPT !.pending = Append(@, Stamped(p, r.token, r.epoch))]
             ELSE taken]
       /\ UNCHANGED <<hostVars, netVars, hasty, admits, pushes, frames>>

(* drainPending: READY passes the gameplay frames that the closed gate     *)
(* holds back, and opens the join's side of the gate.                      *)
JoinDrainReady(j) ==
    LET r == joins[j] IN
    /\ r.control # NoWorld
    /\ \/ /\ CurrentReady(r, r.control)
          /\ up' = [up EXCEPT ![j] = Append(@,
                [type |-> "READY", id |-> r.control.id, token |-> r.control.token])]
          /\ joins' = [joins EXCEPT ![j].control = NoWorld, ![j].ready = TRUE]
       \/ /\ ~CurrentReady(r, r.control)
          /\ joins' = [joins EXCEPT ![j].control = NoWorld]
          /\ UNCHANGED up
    /\ UNCHANGED <<hostVars, link, bulk, down, hasty, admits, pushes, frames>>

(* drainPending for the gameplay frames.                                   *)
JoinDrain(j) ==
    LET r == joins[j] f == Head(r.pending) IN
    /\ r.pending # <<>>
    /\ \/ /\ Fresh(f, r.token, r.epoch) /\ JoinOpen(r)
          /\ up' = [up EXCEPT ![j] = Append(@, f)]
       \/ ~Fresh(f, r.token, r.epoch) /\ UNCHANGED up
    /\ joins' = [joins EXCEPT ![j].pending = Tail(@)]
    /\ UNCHANGED <<hostVars, link, bulk, down, hasty, admits, pushes, frames>>

-----------------------------------------------------------------------------
JoinStep(j) ==
    \/ JoinReceiveGo(j) \/ JoinReceiveFrame(j) \/ JoinFollow(j) \/ JoinReload(j)
    \/ JoinWorldReady(j) \/ JoinPublish(j) \/ JoinDrainReady(j) \/ JoinDrain(j)

HostStep(j) == HostDrain(j) \/ HostReceiveFrame(j) \/ HostReceiveReady(j)

Next ==
    \/ HostLoad \/ HostReload \/ ConnectPush \/ HostCapture \/ HostPublish
    \/ \E j \in Joins : \/ Admit(j) \/ Drop(j) \/ JoinCapture(j)
                        \/ HostStep(j) \/ JoinStep(j)

Spec == Init /\ [][Next]_vars

(* The workers and the game threads run, engines finish a load.            *)
FairSpec ==
    /\ Spec
    /\ WF_vars(HostReload) /\ WF_vars(HostPublish)
    /\ \A j \in Joins :
         /\ WF_vars(HostDrain(j)) /\ WF_vars(HostReceiveFrame(j) \/ HostReceiveReady(j))
         /\ WF_vars(JoinReceiveGo(j)) /\ WF_vars(JoinReceiveFrame(j))
         /\ WF_vars(JoinFollow(j)) /\ WF_vars(JoinReload(j))
         /\ WF_vars(JoinWorldReady(j)) /\ WF_vars(JoinPublish(j))
         /\ WF_vars(JoinDrainReady(j)) /\ WF_vars(JoinDrain(j))

-----------------------------------------------------------------------------
Tokens == 0 .. worldToken
LoadIds == 0 .. loadIdOut
Worlds == [token : Tokens, id : LoadIds]
Origins == [by : Joins \cup {Host}, token : Tokens, id : LoadIds]
Frames == [type : {"WORLD"}, world : Tokens, epoch : Nat, origin : Origins]
Packets == [type : {"WORLD"}, epoch : Nat, origin : Origins]
Gos == [type : {"GO"}, id : LoadIds, token : Tokens]
Readies == [type : {"READY"}, id : LoadIds, token : Tokens]

JoinTypes ==
    [world : Worlds, token : Tokens, latest : LoadIds, epoch : Nat,
     localReady : BOOLEAN, ready : BOOLEAN, go : Worlds, target : Worlds,
     live : LoadIds, publications : Seq(Packets \cup Readies),
     pending : Seq(Frames), control : Worlds, inbound : SUBSET Origins]

(* The types of the NetLinks' state.                                       *)
TypeOK ==
    /\ {hostWorld, worldToken} \subseteq Nat /\ loading \in BOOLEAN
    /\ hostWorld \in Tokens /\ sendEpoch \in Nat /\ loadIdOut \in Nat
    /\ publications \in Seq(Packets \cup Gos)
    /\ peers \in [Joins -> [ready : BOOLEAN, load : LoadIds, world : Tokens]]
    /\ pending \in [Joins -> Seq(Frames)]
    /\ inbound \subseteq Origins /\ link \subseteq Joins
    /\ bulk \in [Joins -> Seq(Gos)]
    /\ down \in [Joins -> Seq(Frames)] /\ up \in [Joins -> Seq(Frames \cup Readies)]
    /\ joins \in [Joins -> JoinTypes] /\ hasty \subseteq Tokens

(* Plugin.cpp "fence publications", docs/API_REFERENCE.md "host-coordinated *)
(* world token fence messages before dispatch/relay": what waits for the   *)
(* game thread was captured in the world the engine runs, on the host, on  *)
(* a join, and for a frame the host relays from one join to another.  The  *)
(* exception: a join that reports ready before the host's own swap opens   *)
(* the gate between the world the host is leaving and the one it loads.    *)
WorldFence ==
    /\ \A o \in inbound :
          \/ o.token = hostWorld
          \/ loading /\ worldToken \in hasty /\ o.token = worldToken
    /\ \A j \in Joins : \A o \in joins[j].inbound :
          LET w == joins[j].world.token IN
          \/ o.token = w
          \/ o.by = Host /\ w \in hasty /\ o.token = w - 1

(* The host accepts a join's frame only from the copy of the world it last *)
(* sent that join into, though the token of two copies is the same.        *)
AcceptsCurrentCopy ==
    [][\A o \in inbound' \ inbound : o.id = peers[o.by].load]_vars

(* A join that was sent a LOAD_GO comes to exchange gameplay with the host *)
(* in the host's world, or it leaves.                                      *)
GateOpens ==
    \A j \in Joins :
        (j \in link /\ peers[j].load # 0)
            ~> (j \notin link \/ (Open(j) /\ JoinOpen(joins[j])
                                  /\ joins[j].token = worldToken))
=============================================================================

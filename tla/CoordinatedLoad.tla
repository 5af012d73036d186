--------------------------- MODULE CoordinatedLoad ---------------------------
(***************************************************************************)
(* Bringing a join into the host's world (protocols 31 and 32, and the     *)
(* push-save-on-connect).                                                  *)
(*                                                                         *)
(* When a player connects, the host bakes a save of its live world, waits  *)
(* for the folder to settle and announces it with a LOAD_GO.  A join whose *)
(* own copy of the save matches the fingerprint loads it; any other join   *)
(* answers LOAD_NACK and loads once the host has streamed the folder.  A   *)
(* load of the host's is announced the same way.  Until every connected    *)
(* join has reported READY for its last LOAD_GO the host is held.          *)
(*                                                                         *)
(* The content of a save folder is the set of versions its files come      *)
(* from: {} is a missing folder, {v} a whole save, {v, w} a torn one.      *)
(* toJoin[j] and toHost[j] are the reliable SAVE_BULK lane with the        *)
(* receiver's Inbound queue at its end.                                    *)
(***************************************************************************)
EXTENDS Integers, SequencesExt, FiniteSetsExt

CONSTANTS
    Joins,      \* the joining players
    Names,      \* save names
    First,      \* the save the host's game was loaded from
    None,       \* the empty string, and "nothing going on"
    MaxAdmits,  \* bound: admissions in a behaviour
    MaxSaves,   \* bound: saves the players ask for
    MaxLoads,   \* bound: loads the host's player asks for
    MaxRestarts,\* bound: restarts of the host's process
    Allowed     \* what the players and the scheduling may do, see Environment

(* "edges"   a join reconnects before the host has drained its leave;      *)
(* "crowd"   a player connects while another is being brought in;          *)
(* "user"    the host's player saves or loads meanwhile;                   *)
(* "both"    one session sees several admissions and saves or loads of the *)
(*           host's player;                                                *)
(* "overlap" a LOAD_GO reaches a join whose engine is still in a load;     *)
(* "early"   a join reconciles its world before the host's own swap began. *)
Environment == {"edges", "crowd", "user", "both", "overlap", "early"}

ASSUME LoadAssumption ==
    /\ None \notin Names /\ First \in Names
    /\ MaxAdmits \in Nat /\ MaxSaves \in Nat /\ MaxLoads \in Nat
    /\ MaxRestarts \in Nat
    /\ Allowed \subseteq Environment

VARIABLES
    \* the host's engine
    phase,            \* "title" until gameplay starts, "live", "swap"
    currentGame,      \* the save last written or loaded
    signal,           \* SaveManager's one signal: the request not yet taken up
    disk,             \* version of each save folder, 0 when there is none
    version,          \* versions handed out
    \* the host's session
    savePending,      \* g_savePending: the save the watch waits for
    watchBase,        \* the version the watch was armed on
    bootstrapName,    \* g_bootstrapName, None unless g_bootstrapArmed
    loadIdOut,        \* g_loadIdOut
    loadXferPending,  \* g_loadXferPending
    send,             \* the transfer in flight
    xferId,           \* g_sendXferId
    peerCount,        \* g_peerCount
    connected, expectedLoadId,  \* g_session.connected, expectedLoadId
    scope,            \* load id of the scope commit held for each join
    conns, leaves,    \* Inbound's connect and leave queues
    \* the network
    link, toJoin, toHost,
    \* the joins
    join,
    \* history and bounds
    overtaken,        \* versions replaced while on their way to a join
    cut,              \* saves whose last transfer was broken off
    sentGo,           \* load id of the last LOAD_GO sent on the link
    admits, saves, loads, restarts

engine  == <<phase, currentGame, signal, disk, version>>
saving  == <<savePending, watchBase, bootstrapName>>
sending == <<loadXferPending, send, xferId, cut>>
session == <<peerCount, connected, expectedLoadId>>
net     == <<link, toJoin, toHost>>
bounds  == <<admits, saves, loads, restarts>>
vars == <<engine, saving, sending, session, loadIdOut, scope, conns, leaves,
          net, join, overtaken, sentGo, bounds>>

(* A join before its first session.  It may hold a copy of the host's save *)
(* from an earlier one.  told is history: the version announced by the     *)
(* LOAD_GO a load was asked for, carried along to the world it ends in.    *)
FreshJoin(copies) ==
    [seen |-> 0,          \* g_loadIdSeen
     told |-> 0,          \* version announced by the LOAD_GO last taken
     pend |-> 0,          \* pendingReadyLoadId
     issued |-> FALSE,    \* pendingReadyLoadIssued
     ready |-> 0,         \* readyLoadId
     live |-> FALSE,      \* proceduralLive
     latch |-> None,      \* g_loadAfterCommit
     recv |-> None,       \* the transfer being received
     copies |-> copies,   \* content of its own save folders
     signal |-> None,     \* LOADGAME: the load the engine was asked for
     swap |-> None,       \* the load the engine is in
     world |-> [id |-> 0, told |-> 0, content |-> {}]]   \* what its engine runs

Init ==
    /\ savePending = None /\ watchBase = 0 /\ bootstrapName = None
    /\ loadXferPending = None /\ send = None /\ xferId = 0 /\ cut = {}
    /\ peerCount = 0 /\ connected = {}
    /\ expectedLoadId = [j \in Joins |-> 0]
    /\ scope = [j \in Joins |-> 0]
    /\ loadIdOut = 0 /\ conns = <<>> /\ leaves = <<>>
    /\ phase \in {"title", "live"}
    /\ currentGame = First
    /\ signal = None /\ version = 1
    /\ disk = [n \in Names |-> IF n = currentGame THEN 1 ELSE 0]
    /\ link = [j \in Joins |-> FALSE]
    /\ toJoin = [j \in Joins |-> <<>>] /\ toHost = [j \in Joins |-> <<>>]
    /\ \E old \in {{}, {1}} :
         join = [j \in Joins |-> FreshJoin([n \in Names |->
                                    IF n = currentGame THEN old ELSE {}])]
    /\ overtaken = {} /\ sentGo = [j \in Joins |-> 0]
    /\ admits = 0 /\ saves = 0 /\ loads = 0 /\ restarts = 0

-----------------------------------------------------------------------------
Online == {j \in Joins : link[j]}

(* Fault: any scope commit ends the wait.                                  *)
JoinReadyOnce(j) == expectedLoadId[j] = 0 \/ scope[j] # 0

(* hostWaitingForJoinLoad.  The latch proceduralReadyLoad is left out: a    *)
(* join's scope commit is lost only where the code clears the latch too.   *)
JoinReady(j) == expectedLoadId[j] = 0 \/ scope[j] = expectedLoadId[j]
Held == /\ peerCount > 0
        /\ bootstrapName # None \/ \E j \in connected : ~JoinReady(j)

(* Some player is on the way into the host's world, or a save on its way   *)
(* to the players.                                                         *)
Serving ==
    \/ conns # <<>> \/ savePending # None \/ send # None
    \/ loadXferPending # None
    \/ \E j \in Online : \/ toJoin[j] # <<>> \/ toHost[j] # <<>>
                         \/ join[j].latch # None \/ join[j].pend # 0
                         \/ expectedLoadId[j] # scope[j]

Broadcast(m) ==
    toJoin' = [j \in Joins |-> IF link[j] THEN Append(toJoin[j], m) ELSE toJoin[j]]

(* Fault: the load id is bumped once by the edge and once by the packet.   *)
AnnounceTwice(n) ==
    /\ loadIdOut' = loadIdOut + 2
    /\ Broadcast([type |-> "LOAD_GO", id |-> loadIdOut + 2, name |-> n,
                  version |-> disk[n]])
    /\ sentGo' = [j \in Joins |-> IF link[j] THEN loadIdOut + 2 ELSE sentGo[j]]
    /\ expectedLoadId' = [j \in Joins |-> IF j \in connected THEN loadIdOut + 2
                                          ELSE expectedLoadId[j]]

(* queueLoadGo and expectJoinLoad: the LOAD_GO goes to every admitted join, *)
(* the host waits for those whose connect edge it has drained.             *)
Announce(n) ==
    /\ loadIdOut' = loadIdOut + 1
    /\ Broadcast([type |-> "LOAD_GO", id |-> loadIdOut + 1, name |-> n,
                  version |-> disk[n]])
    /\ sentGo' = [j \in Joins |-> IF link[j] THEN loadIdOut + 1 ELSE sentGo[j]]
    /\ expectedLoadId' = [j \in Joins |-> IF j \in connected THEN loadIdOut + 1
                                          ELSE expectedLoadId[j]]

(* The engine is asked to save or to load and does so later.  It holds one *)
(* signal: a request replaces the one it has not taken up yet.             *)
Asked(type) == signal # None /\ signal.type = type
Ask(type, n) == signal' = [type |-> type, name |-> n] /\ currentGame' = n

(* SaveManager::save: the detour queues an edge, and driveSaveSync arms the *)
(* watch on the folder in place of the one it had.                         *)
Save(n) ==
    /\ Ask("SAVE", n)
    /\ savePending' = n /\ watchBase' = disk[n]
    /\ UNCHANGED <<disk, version>>

-----------------------------------------------------------------------------
(* The network: a join is admitted, or its connection is retired.          *)
Admit(j) ==
    /\ admits < MaxAdmits /\ admits' = admits + 1
    /\ ~link[j]
    /\ "edges" \in Allowed \/ ~Contains(leaves, j)
    /\ "crowd" \in Allowed \/ phase = "title" \/ ~Serving
    /\ "both" \in Allowed \/ admits = 0 \/ saves + loads = 0
    /\ link' = [link EXCEPT ![j] = TRUE]
    /\ conns' = Append(conns, j)
    /\ UNCHANGED <<engine, saving, sending, session, loadIdOut, scope, leaves,
                   toJoin, toHost, join, overtaken, sentGo, saves, loads, restarts>>

Becomes(j, r) == join' = [join EXCEPT ![j] = r]
Lost(r) ==
    IF r.recv = None THEN r ELSE [r EXCEPT !.recv = [r.recv EXCEPT !.lost = TRUE]]

(* What was on the lanes is lost; a transfer being received has a hole.    *)
Drop(j) ==
    /\ link[j]
    /\ link' = [link EXCEPT ![j] = FALSE]
    /\ toJoin' = [toJoin EXCEPT ![j] = <<>>]
    /\ toHost' = [toHost EXCEPT ![j] = <<>>]
    /\ leaves' = Append(leaves, j)
    /\ sentGo' = [sentGo EXCEPT ![j] = 0]
    /\ Becomes(j, Lost(join[j]))
    /\ UNCHANGED <<engine, saving, sending, session, loadIdOut, scope, conns,
                   overtaken, bounds>>

-----------------------------------------------------------------------------
(* The host.                                                               *)

(* armConnectPush, with bootstrapName the current save.                    *)
ArmConnectPush == bootstrapName' = currentGame /\ Save(currentGame)

(* The gameplay-start edge of mainLoop_hook: the joins that connected while *)
(* the host was still at the title are brought in now.                     *)
GameplayStart ==
    /\ phase = "title" /\ phase' = "live"
    /\ IF peerCount > 0 THEN ArmConnectPush
       ELSE UNCHANGED <<currentGame, signal, disk, version, saving>>
    /\ UNCHANGED <<sending, session, loadIdOut, scope, conns, leaves, net, join,
                   overtaken, sentGo, bounds>>

(* Only a host in a game can bake: at the title a connect is just counted. *)
BakeForConnects ==
    /\ IF conns = <<>> \/ phase = "title"
       THEN UNCHANGED <<currentGame, signal, disk, version, saving>>
       ELSE ArmConnectPush
    /\ UNCHANGED phase

(* processNetEvents: every connect of the batch, then every leave, in every *)
(* tick, those at the title and in the middle of a swap included.          *)
ProcessNetEvents ==
    /\ conns \o leaves # <<>>
    /\ conns' = <<>> /\ leaves' = <<>>
    /\ connected' = (connected \cup ToSet(conns)) \ ToSet(leaves)
    /\ expectedLoadId' = [j \in Joins |-> IF Contains(conns \o leaves, j) THEN 0
                                          ELSE expectedLoadId[j]]
    /\ scope' = [j \in Joins |-> IF Contains(leaves, j) THEN 0 ELSE scope[j]]
    /\ peerCount' = Max({0, peerCount + Len(conns) - Len(leaves)})
    /\ BakeForConnects
    /\ UNCHANGED <<sending, loadIdOut, net, join, overtaken, sentGo, bounds>>

(* A save of the host's player, or one a join asked for with SAVE_REQ.     *)
SaveEdge(n) ==
    /\ phase # "title" /\ saves < MaxSaves /\ saves' = saves + 1
    /\ "user" \in Allowed \/ ~Serving
    /\ "both" \in Allowed \/ admits <= 1
    /\ Save(n)
    /\ UNCHANGED <<phase, bootstrapName, sending, session, loadIdOut, scope, conns,
                   leaves, net, join, overtaken, sentGo, admits, loads, restarts>>

(* The versions on their way to a join: announced, being sent, or about to *)
(* be loaded.                                                              *)
InTransit ==
    (IF send = None THEN {} ELSE {send.first})
    \cup (UNION {{m.version : m \in ToSet(toJoin[j])} : j \in Joins})
    \cup {join[j].recv.first : j \in {k \in Joins : join[k].recv # None}}
    \cup {join[j].signal.told : j \in {k \in Joins : join[k].signal # None}}
    \cup {join[j].told : j \in {k \in Joins : join[k].latch # None}}

(* The engine writes the folder it was asked to save, over the old one.    *)
SaveLands ==
    /\ Asked("SAVE") /\ signal' = None
    /\ version' = version + 1
    /\ disk' = [disk EXCEPT ![signal.name] = version + 1]
    /\ overtaken' = overtaken \cup ({disk[signal.name]} \cap InTransit)
    /\ UNCHANGED <<phase, currentGame, saving, sending, session, loadIdOut, scope,
                   conns, leaves, net, join, sentGo, bounds>>

(* savexfer::beginSend.  It replaces a transfer in flight without a word   *)
(* to its receivers.                                                       *)
BeginSend(n) ==
    /\ xferId' = xferId + 1
    /\ cut' = (cut \cup IF send = None THEN {} ELSE {send.name}) \ {n}
    /\ send' = [id |-> xferId + 1, name |-> n, first |-> disk[n]]
    /\ Broadcast([type |-> "SAVE_BEGIN", id |-> xferId + 1, name |-> n,
                  version |-> disk[n]])

(* tickWatch reports the folder settled: a connect-push is announced, any  *)
(* other save is streamed to the joins.                                    *)
WatchSettled ==
    /\ phase # "title" /\ savePending # None
    /\ disk[savePending] # watchBase
    /\ savePending' = None
    /\ watchBase' = 0
    /\ IF bootstrapName = savePending
       THEN /\ Announce(savePending)
            /\ bootstrapName' = None
            /\ UNCHANGED <<sending, peerCount, connected>>
       ELSE /\ IF peerCount > 0 THEN BeginSend(savePending)
               ELSE UNCHANGED <<send, xferId, cut, toJoin>>
            /\ UNCHANGED <<bootstrapName, loadXferPending, session, loadIdOut,
                           sentGo>>
    /\ UNCHANGED <<engine, scope, conns, leaves, link, toHost, join, overtaken,
                   bounds>>

(* A load of the host's player, or one a join asked for with LOAD_REQ, and *)
(* driveLoadSync's edge for it: savexfer::abortAll, which takes the watch  *)
(* off whatever save it was on, then the announcement.                     *)
HostLoad(n) ==
    /\ phase # "title" /\ disk[n] # 0
    /\ loads < MaxLoads /\ loads' = loads + 1
    /\ "user" \in Allowed \/ ~Serving
    /\ "both" \in Allowed \/ admits <= 1
    /\ Ask("LOAD", n)
    /\ savePending' = None /\ watchBase' = 0 /\ send' = None
    /\ Announce(n)
    /\ UNCHANGED <<phase, disk, version, bootstrapName, loadXferPending, xferId, cut,
                   peerCount, connected, scope, conns, leaves, link, toHost, join,
                   overtaken, admits, saves, restarts>>

(* The engine takes up the load: the world goes.                           *)
SwapStart ==
    /\ Asked("LOAD") /\ signal' = None /\ phase' = "swap"
    /\ UNCHANGED <<currentGame, disk, version, saving, sending, session,
                   loadIdOut, scope, conns, leaves, net, join, overtaken, sentGo,
                   bounds>>

(* The reload edge: sessionResetForWorldReload drops every scope.          *)
SwapEnd ==
    /\ phase = "swap" /\ phase' = "live"
    /\ scope' = [j \in Joins |-> 0]
    /\ UNCHANGED <<currentGame, signal, disk, version, saving, sending, session,
                   loadIdOut, conns, leaves, net, join, overtaken, sentGo, bounds>>

(* driveLoadSync: a NACK of an earlier GO is ignored.                      *)
AcceptsNack(m) == m.id = loadIdOut

(* The host handles a join's message.  READY stands for the scope commit   *)
(* and the clock packets that carry readyLoadId; the controls that arrive  *)
(* during the host's swap are flushed at its reload edge.                  *)
HostReceive(j) ==
    /\ phase # "title" /\ toHost[j] # <<>>
    /\ toHost' = [toHost EXCEPT ![j] = Tail(@)]
    /\ LET m == Head(toHost[j]) IN
       /\ loadXferPending' = IF m.type = "LOAD_NACK" /\ AcceptsNack(m)
                             THEN m.name ELSE loadXferPending
       /\ scope' = IF m.type = "READY" /\ m.id = loadIdOut /\ phase # "swap"
                   THEN [scope EXCEPT ![j] = m.id] ELSE scope
    /\ UNCHANGED <<engine, saving, send, xferId, cut, session, loadIdOut, conns, leaves,
                   link, toJoin, join, overtaken, sentGo, bounds>>

(* Fault: a request that meets a transfer in flight is dropped.            *)
StartFallbackOrForget ==
    /\ loadXferPending # None /\ phase = "live"
    /\ IF send = None THEN BeginSend(loadXferPending)
       ELSE UNCHANGED <<xferId, send, cut, toJoin>>
    /\ loadXferPending' = None
    /\ UNCHANGED <<engine, saving, session, loadIdOut, scope, conns, leaves, link,
                   toHost, join, overtaken, sentGo, bounds>>

(* driveLoadSync: the fallback transfer a NACK asked for.                  *)
StartFallback ==
    /\ loadXferPending # None /\ phase = "live" /\ send = None
    /\ BeginSend(loadXferPending)
    /\ loadXferPending' = None
    /\ UNCHANGED <<engine, saving, session, loadIdOut, scope, conns, leaves, link,
                   toHost, join, overtaken, sentGo, bounds>>

(* tickSend reads and queues the rest of the folder.  When the folder was  *)
(* rewritten since BEGIN it may instead fail to open or read a file, and   *)
(* gives the transfer up without telling anyone.                           *)
FinishSend ==
    /\ send # None /\ send' = None
    /\ \/ /\ Broadcast([type |-> "SAVE_DONE", id |-> send.id,
                        version |-> disk[send.name]])
          /\ UNCHANGED cut
       \/ /\ disk[send.name] # send.first \/ (Asked("SAVE") /\ signal.name = send.name)
          /\ cut' = cut \cup {send.name}
          /\ UNCHANGED toJoin
    /\ UNCHANGED <<engine, saving, loadXferPending, xferId, session, loadIdOut, scope,
                   conns, leaves, link, toHost, join, overtaken, sentGo, bounds>>

(* The host's process restarts at the title screen, its save folders kept. *)
HostRestart ==
    /\ restarts < MaxRestarts /\ restarts' = restarts + 1
    /\ savePending' = None /\ watchBase' = 0 /\ bootstrapName' = None
    /\ loadXferPending' = None /\ send' = None /\ xferId' = 0 /\ cut' = {}
    /\ peerCount' = 0 /\ connected' = {}
    /\ expectedLoadId' = [j \in Joins |-> 0]
    /\ scope' = [j \in Joins |-> 0]
    /\ loadIdOut' = 0 /\ conns' = <<>> /\ leaves' = <<>>
    /\ phase' = "title" /\ signal' = None
    /\ link' = [j \in Joins |-> FALSE]
    /\ toJoin' = [j \in Joins |-> <<>>] /\ toHost' = [j \in Joins |-> <<>>]
    /\ join' = [j \in Joins |-> Lost(join[j])]
    /\ sentGo' = [j \in Joins |-> 0]
    /\ UNCHANGED <<currentGame, disk, version, overtaken, admits, saves, loads>>

-----------------------------------------------------------------------------
(* The joins.                                                              *)
hostVars == <<engine, saving, sending, session, loadIdOut, scope, conns, leaves,
              overtaken, sentGo, bounds, link>>

Received(j, type) == toJoin[j] # <<>> /\ Head(toJoin[j]).type = type
Consume(j) == toJoin' = [toJoin EXCEPT ![j] = Tail(@)]

(* onSaveBegin: a new transfer replaces the one being received.            *)
JoinSaveBegin(j) ==
    /\ Received(j, "SAVE_BEGIN") /\ Consume(j)
    /\ LET m == Head(toJoin[j])
           begun == [id |-> m.id, name |-> m.name, first |-> m.version,
                     lost |-> FALSE]
       IN Becomes(j, [join[j] EXCEPT !.recv = begun])
    /\ UNCHANGED <<hostVars, toHost>>

(* onSaveDone: the transfer is this one and every file's CRC matches.      *)
Verifies(j, m) ==
    /\ join[j].recv # None /\ join[j].recv.id = m.id
    /\ ~join[j].recv.lost

(* loadSave sets the engine's one LOADGAME signal.                         *)
Issue(r, n) ==
    [r EXCEPT !.signal = [id |-> r.pend, told |-> r.told, name |-> n],
              !.issued = TRUE, !.latch = None]

(* onSaveDone, then driveLoadSync's latch: the verified folder replaces    *)
(* the join's copy and, when it is the one waited for, is loaded.          *)
JoinSaveDone(j) ==
    /\ Received(j, "SAVE_DONE") /\ Consume(j)
    /\ LET m == Head(toJoin[j])
           r == join[j]
           name == r.recv.name
           copies == [r.copies EXCEPT ![name] = {r.recv.first, m.version}]
           kept == [r EXCEPT !.recv = None, !.copies = copies]
       IN Becomes(j, IF r.recv = None \/ r.recv.id # m.id THEN r
                     ELSE IF ~Verifies(j, m) THEN [r EXCEPT !.recv = None]
                     ELSE IF r.latch = name THEN Issue(kept, name)
                     ELSE kept)
    /\ UNCHANGED <<hostVars, toHost>>

(* Fault: any copy of the save is loaded, whatever its fingerprint.        *)
MatchesByName(j, m) == join[j].copies[m.name] # {}

(* The fingerprints agree.                                                 *)
Matches(j, m) == join[j].copies[m.name] = {m.version}

(* driveLoadSync on LOAD_GO: follow the host, or ask for the folder.       *)
JoinLoadGo(j) ==
    /\ Received(j, "LOAD_GO") /\ Consume(j)
    /\ "overlap" \in Allowed \/ (join[j].signal = None /\ join[j].swap = None)
    /\ LET m == Head(toJoin[j])
           r == [join[j] EXCEPT !.seen = m.id, !.told = m.version, !.pend = m.id,
                                !.issued = FALSE, !.ready = 0, !.live = FALSE]
       IN IF m.id <= join[j].seen
          THEN UNCHANGED <<join, toHost>>
          ELSE \/ /\ Matches(j, m)
                  /\ Becomes(j, Issue(r, m.name))
                  /\ UNCHANGED toHost
               \/ /\ ~Matches(j, m)
                  /\ Becomes(j, [r EXCEPT !.latch = m.name])
                  /\ toHost' = [toHost EXCEPT ![j] = Append(@,
                         [type |-> "LOAD_NACK", id |-> m.id, name |-> m.name])]
    /\ UNCHANGED hostVars

(* The join's engine takes up the load it was asked for.                   *)
JoinSwapStart(j) ==
    /\ join[j].signal # None /\ join[j].swap = None
    /\ LET r == join[j]
           swap == [id |-> r.signal.id, told |-> r.signal.told,
                    content |-> r.copies[r.signal.name]]
       IN Becomes(j, [r EXCEPT !.swap = swap, !.signal = None])
    /\ UNCHANGED <<hostVars, toJoin, toHost>>

(* noteJoinWorldLive.                                                      *)
WorldLive(r) == r.pend # 0 /\ r.issued

(* The world is live: sessionResetForWorldReload, then noteJoinWorldLive.  *)
JoinSwapEnd(j) ==
    /\ join[j].swap # None
    /\ LET r == join[j] IN
       Becomes(j, [r EXCEPT !.world = r.swap, !.swap = None, !.live = WorldLive(r)])
    /\ UNCHANGED <<hostVars, toJoin, toHost>>

Reported(r) == [r EXCEPT !.ready = r.pend, !.pend = 0, !.issued = FALSE]

(* Fault: READY goes out when the load has been issued, not once it lives. *)
JoinReportReadyOnIssue(j) ==
    /\ join[j].pend # 0 /\ join[j].issued
    /\ link[j] /\ sentGo[j] = join[j].pend /\ join[j].pend = loadIdOut
    /\ phase = "live" /\ ("early" \in Allowed \/ ~Asked("LOAD"))
    /\ Becomes(j, Reported(join[j]))
    /\ toHost' = [toHost EXCEPT ![j] = Append(@, [type |-> "READY",
                                                 id |-> join[j].pend])]
    /\ UNCHANGED <<hostVars, toJoin>>

(* tickProceduralWorld on the join: every loaded region has been           *)
(* reconciled with a snapshot of the host's, which answers for its last    *)
(* load id only and on the link that brought the LOAD_GO; the scope commit *)
(* and READY go out once.                                                  *)
JoinReportReady(j) ==
    /\ join[j].live /\ join[j].pend # 0 /\ join[j].issued
    /\ link[j] /\ sentGo[j] = join[j].pend /\ join[j].pend = loadIdOut
    /\ phase = "live" /\ ("early" \in Allowed \/ ~Asked("LOAD"))
    /\ Becomes(j, Reported(join[j]))
    /\ toHost' = [toHost EXCEPT ![j] = Append(@, [type |-> "READY",
                                                 id |-> join[j].pend])]
    /\ UNCHANGED <<hostVars, toJoin>>

-----------------------------------------------------------------------------
JoinStep(j) ==
    \/ JoinSaveBegin(j) \/ JoinSaveDone(j) \/ JoinLoadGo(j)
    \/ JoinSwapStart(j) \/ JoinSwapEnd(j) \/ JoinReportReady(j)

HostStep ==
    \/ ProcessNetEvents \/ SaveLands \/ WatchSettled \/ SwapStart \/ SwapEnd
    \/ StartFallback \/ FinishSend \/ \E j \in Joins : HostReceive(j)

PlayerStep ==
    \/ GameplayStart \/ HostRestart
    \/ \E n \in Names : SaveEdge(n) \/ HostLoad(n)
    \/ \E j \in Joins : Admit(j) \/ Drop(j)

Next == HostStep \/ PlayerStep \/ \E j \in Joins : JoinStep(j)

Spec == Init /\ [][Next]_vars

(* Game threads tick, engines finish what they began, the network delivers *)
(* while the link is up.  Players need not do anything.                    *)
FairSpec ==
    /\ Spec
    /\ WF_vars(ProcessNetEvents) /\ WF_vars(SaveLands) /\ WF_vars(WatchSettled)
    /\ WF_vars(SwapStart) /\ WF_vars(SwapEnd)
    /\ WF_vars(StartFallback) /\ WF_vars(FinishSend)
    /\ \A j \in Joins : WF_vars(HostReceive(j)) /\ WF_vars(JoinStep(j))

-----------------------------------------------------------------------------
Ids == 0 .. MaxAdmits + MaxLoads
Versions == 0 .. version
Contents == SUBSET Versions
Messages ==
    [type : {"LOAD_GO"}, id : Ids, name : Names, version : Versions]
    \cup [type : {"SAVE_BEGIN"}, id : Nat, name : Names, version : Versions]
    \cup [type : {"SAVE_DONE"}, id : Nat, version : Versions]
Answers ==
    [type : {"LOAD_NACK"}, id : Ids, name : Names]
    \cup [type : {"READY"}, id : Ids]

(* The types of the host's and the joins' session state.                   *)
TypeOK ==
    /\ phase \in {"title", "live", "swap"}
    /\ currentGame \in Names
    /\ signal \in [type : {"SAVE", "LOAD"}, name : Names] \cup {None}
    /\ disk \in [Names -> Versions] /\ version \in Nat
    /\ {savePending, bootstrapName, loadXferPending} \subseteq Names \cup {None}
    /\ cut \subseteq Names
    /\ watchBase \in Versions /\ loadIdOut \in Ids /\ xferId \in Nat
    /\ send \in [id : Nat, name : Names, first : Versions] \cup {None}
    /\ peerCount \in Nat /\ connected \subseteq Joins
    /\ {expectedLoadId, scope, sentGo} \subseteq [Joins -> Ids]
    /\ {conns, leaves} \subseteq Seq(Joins)
    /\ link \in [Joins -> BOOLEAN]
    /\ \A j \in Joins :
         /\ toJoin[j] \in Seq(Messages) /\ toHost[j] \in Seq(Answers)
         /\ join[j].latch \in Names \cup {None}
         /\ {join[j].seen, join[j].pend, join[j].ready} \subseteq Ids
         /\ join[j].copies \in [Names -> Contents]

(* README.md "pause the host simulation until every connected join reports *)
(* the READY id for its current LOAD_GO after the new world becomes live":  *)
(* no host runs on while a join whose connect it has drained has yet to    *)
(* enter the world last announced to it.                                   *)
HeldWhileLoading ==
    \A j \in Joins :
        (/\ link[j] /\ sentGo[j] # 0 /\ ~Contains(conns, j)
         /\ join[j].world.id # sentGo[j]) => Held

(* driveLoadSync: "LOAD_GO: verify our on-disk copy and follow the host".  *)
(* A join's world is, file for file, the save announced by the LOAD_GO it  *)
(* was loaded for, unless the host wrote that save anew while the version  *)
(* announced or one of those received was still on its way.                *)
LoadsAnnounced ==
    \A j \in Joins : LET w == join[j].world IN
        w.id # 0 => \/ w.content = {w.told}
                    \/ (w.content \cup {w.told}) \cap overtaken # {}

(* SaveXfer.h: "both clients load the identical file".  The folder a join  *)
(* loads is one save of the host's, never a mix of two.                    *)
LoadsWholeSave ==
    \A j \in Joins : Cardinality(join[j].world.content) <= 1

(* Wire.h on readyLoadId, "most recent LOAD_GO whose new world is live": a *)
(* join reports READY for the world its engine runs.                       *)
ReadyMeansLive ==
    \A j \in Joins : join[j].ready # 0 => join[j].world.id = join[j].ready

(* A connect-push is armed and the watch is not on its save: nothing will  *)
(* announce it, short of another save of that name.  A load clears the     *)
(* watch (Plugin.cpp:768), a save of another name takes it (Plugin.cpp:616) *)
(* and neither touches g_bootstrapArmed.                                   *)
PushLost == bootstrapName # None /\ savePending # bootstrapName

(* A join waits for a folder whose transfer was replaced by another one's  *)
(* (SaveXfer.cpp:437) or given up (SaveXfer.cpp:217); neither is told to   *)
(* anyone.                                                                 *)
Deserted == \E j \in connected : join[j].latch \in cut

(* The hold ends, by the joins' READY or by their leaving, unless its push *)
(* was lost or a join's transfer broken off.  It would not if a leaver     *)
(* kept its place, or if a join that has refused a copy with a NACK were   *)
(* not served.                                                             *)
HoldReleases == Held ~> (~Held \/ PushLost \/ Deserted)

=============================================================================

# Verification of KenshiCoop4up

TLA+ models of the co-op plugin for Kenshi, TLC runs of them on small
instances, and TLAPS proofs for any instance. The reference is the C++ under
`src/src/`; paths below are relative to `src/src/plugin/` unless they begin
with `src/`.

## 1. The system

A HOST and up to three JOINs each run Kenshi with the plugin. There is no
server: the host's game is the world, a join's game is a copy of it, loaded
from a save the host made. In every process two threads meet: the **game
thread** (`mainLoop_hook` in `Plugin.cpp`, once per engine tick) and the **net
worker** (`NetLink::threadLoop`). The game thread publishes packets into
`publications_`, the worker hands what it receives to the game thread through
the queues of `core/Inbound.h`.

| component | state it keeps | operations | hard behaviour | what makes it correct |
|---|---|---|---|---|
| Shared money pool (`sync/ReplicatorChannels.cpp`) | wallet copy, sampled value, pool total, ack and sequence per join | publish, apply, reset on a world reload | movements of several joins in flight across echoes, lost totals, reloads, refused wallet accesses | each movement folded once and in order, no cats made or lost, all wallets agree in the end |
| Coordinated save and load, connect-push (`Plugin.cpp`, `sync/SaveXfer.cpp`) | session, pending load ids, save watch, transfer in flight, latch | connect/leave edges, save edge, settled folder, LOAD_GO, NACK, transfer, READY | players coming and going while another is brought in; host restart; stale answers | host held exactly while a join is on its way, every join loads the announced save, the hold ends |
| Save transfer and commit on disk (`sync/SaveXfer.cpp`) | staging folder, `__old` folder, CRCs, last transfer sent | begin, chunk, done (two renames) | crash between the renames, mixed batches, refused operations, a link that drops | what can be loaded is one whole save, never an older one; an acknowledged save is in place |
| NetLink world fence (`net/NetLink.cpp`) | world token, epochs, readiness of both ends, pending frames | LOAD_GO, READY, publish, drain, receive, relay | two lanes that overtake each other, packets captured before a swap and sent after | no packet is applied in a world other than its own, the gate opens again |
| NetLink handshake, seats and roster (`net/NetLink.cpp`) | peers, seat bindings, member mask, last roster, incarnations | HELLO, WELCOME, SESSION_ACK, roster, relay, retirement | a join that is back before its old connection is known dead, seats taken again, an unordered lane | one owner per seat, no frame credited to another, nobody refused, all end with one view |
| Inventory replication and transfer (`sync/ReplicatorItems.cpp`) | stacks, drags, latches, verdicts, deferred commits | drag, intent, verdict, snapshot, retire | simultaneous trades in both directions, partial moves, a player leaving in mid trade | units conserved, refusals reversible, verdicts come, copies agree |
| Doors and locks (`sync/ReplicatorChannels.cpp`, `sync/LockAuthority.h`) | rows, last sampled and applied value, sequences per seat | sample, send, apply, request | requests crossing rows, doors streamed out, reused seats | requests only for what moved, copies end as the host's |
| Speed consensus (`sync/ReplicatorChannels.cpp`, `sync/SpeedAdmission.h`) | speed in force, command in debounce, request numbers | click, heartbeat, settle, broadcast | commands that meet in the debounce, echoes of an older speed, reloads | the last command wins, everybody follows |
| Procedural world scope (`sync/ProceduralWorldSync.cpp`, `core/ProceduralWorldState.h`) | catalogs, epochs, snapshots, scope per peer, census fence | scan, request, snapshot, reconcile, ACK, retire, commit | engines that change under it, incomplete scans, ACKs of an older catalog | a certified join holds the host's beds; certification comes |
| Updater (`net/UpdatePackage.cpp`, `net/RuntimeImages.h`) | staged, installed and set-aside images, journal, marker | stage, set aside, promote, verify, mark, recover | the process dies at any file operation; images mapped while they are renamed | one version in a session, nothing needed is lost, recovery ends |
| World items (`sync/ReplicatorItems.cpp`) | tracked ground items, pending pickups | drop, pickup, prune, rehome | spatial queries of the engine that flicker | no item duplicated or lost (not modelled) |
| Cell authority and census (`sync/ReplicatorAuthority.cpp`, `sync/NpcCensusLedger.h`) | owner of cells, claims, census ledger | claim, release, host override | players moving between cells, leaving | at most one author per NPC (not modelled) |
| Other sampled channels (`sync/ReplicatorChannels.cpp`) | last sent and seen value and sequence per object | sample, send, apply | safety resends, reused seats | receivers converge (not modelled) |
| Clock (`sync/ReplicatorChannels.cpp`) | clock offset, slew, brake | report, slew, brake | round trips that vary | clocks stay close (not modelled) |
| Spawn, proxies, drive, interpolation, combat (`sync/ReplicatorSpawn.cpp`, `ReplicatorDrive.cpp`, `Interp.cpp`) | bindings of peers' bodies to local ones | mint, bind, drive, despawn | engine objects that stream out | a body is driven by one author (not modelled) |
| Environment items (`core/EnvironmentItemsState.h`) | intents and results per item | request, apply, retire | retries and leaving players | one taker per item (not modelled) |
| Transport, UI, configuration, engine adapters, tests | | | | not modelled, section 7 |

The components meet as follows. NetLink's handshake admits a player; the
connect and leave edges reach `processNetEvents`, which counts the peers and
arms the connect-push. `driveSaveSync` announces the settled save with a
LOAD_GO, or streams it to a join that has no copy of it; the join's
`driveLoadSync` loads it, `tickProceduralWorld` makes its generated beds the
host's and then reports READY, which ends the host's hold and opens NetLink's
gate. Every world reload resets the replicator (`resetSession`), which is what
restarts the numbering of the money deltas, so that the fence has to keep old
packets out; the request counters of doors and speed survive a reload and are
retired by seat. Money, doors, speed and inventories are users of the lanes
that the fence guards. The updater runs before any of this and beside it.

## 2. The modules

Every module takes its neighbours as they are: no two share a variable. What
one proves of a boundary is what the next assumes of it, and where it is not,
section 7 says so.

**MoneyPool.** `wallet[p]` is the engine's wallet in each process, `poolSeen`,
`poolTotal`, `poolAckedByOwner`, `poolSeq` and `poolPending` are the members of
`Replicator`. One tick of the host is `HostPublish`, any number of `HostFold`
(one turn of the loop in `applyMoneyPool`) and `HostFinish`; one tick of a join
is `JoinTick`, with the samples and the adoption in the order of the code.
`MaxRefusals` lets wallet reads and writes be refused; a wallet that publish
and fold both fail to read within one tick counts once. `ConnectPush`,
`HostLoad` and `JoinLive` are the session edges. `owed` is a history variable:
what the pool should hold. `staleAck` remembers the ack that the host still
held when the join's numbering began again.

**CoordinatedLoad.** Both roles of `driveSaveSync` and `driveLoadSync`, the
connect and leave edges, the watch on the save folder, the fallback transfer,
the READY report and the host's hold (`hostWaitingForJoinLoad`). A save folder
is the set of versions its files come from, so that a torn copy is
representable. `toJoin` and `toHost` are the SAVE_BULK lane; `join[j]` holds a
join's `g_session`, its latch, transfer, folders and engine. `signal` is the one
request `SaveManager` keeps for the engine, which a newer one replaces. Connects
and leaves are drained in every tick, at the title and during the host's own
load too; only a host in a game bakes for them, and `GameplayStart` makes up for
those that came before. History: `told` (the version a join's LOAD_GO
announced), `overtaken` (versions the host replaced while they were on their
way), `cut` (saves whose last transfer was broken off), `sentGo`. The constant
`Allowed` names the parts of the environment a run includes:

| word | what may happen | in |
|---|---|---|
| `crowd` | a player connects while another is being brought in | load_hold, load_release, load_torn |
| `user` | the host's player saves or loads while a player is brought in | load_release |
| `both` | several admissions and also a save or load in one session | load_hold |
| `early` | a join reports READY before the host's engine took up its own load | load_hold |
| `edges` | a join reconnects before the host has drained its leave | no run |
| `overlap` | a LOAD_GO reaches a join that is still in a load | no run |

`both` only keeps load_release small. The last two are hazards that the code
does not withstand. With `edges` all connects of a batch are handled before its
leaves (`Plugin.cpp:539`), and a seat left and taken again in one batch ends up
empty. With `overlap` a load that completes reports READY for the newest
LOAD_GO, which may name a load that has not begun (`Plugin.cpp:438`); only
LoadAnnounced, which is proved for every `Allowed`, speaks of them. `early` is
left out where the hold has to end: the host's own reset forgets the scope
commit of a READY that came before it, the join sends it once, and the host
stays held (`Plugin.cpp:424`).

**SaveTransfer.** The transfer that CoordinatedLoad takes as one step: BEGIN,
the chunks and DONE from the sender, with its window (`Room`), and the join's
staging folder, verification and the removals and renames of `onSaveDone`, each
a step that may be refused or be the last one the process makes. What is in the
inbound queues of one tick is handled by kind, as `pumpSaveReceive` does
(`todo`). A transfer's number stands for the content it streams, so that a
folder shows which transfer each of its chunks came from. `harmed`, `orphaned`
and `spoiled` are history: transfers a fault happened to, names whose only copy
was the one set aside when a commit began, and names whose staging folder kept
files the system would not let go.

**WorldFence.** The tokens, epochs and readiness of NetLink on the host and on
every join, and the two lanes: `bulk` (LOAD_GO) and `up`/`down`
(GAME_RELIABLE). A gameplay frame carries as history where it was captured:
author, token and load id of the author's copy. Three abstractions keep it
small. A frame always waits in `pending` before it is sent. A stale frame is
dropped when it is taken from its queue rather than when the bump purges the
queue; nothing reads the queue in between. READY passes the gameplay frames
that the gate holds back, so it waits in a field of its own (`control`).
Nothing keeps a join from being ready before the host has made its own swap;
`hasty` is history, the worlds this happened to.

**Members.** Who is in the session. An attempt to connect is an incarnation and
stands for its connection. `peers[c]` is the host's peer, `owner` and `members`
what a roster tells, `joins[j]` the join's view. GAME_RELIABLE (`up`, `down`,
the latter with `pending_` before it: a session control passes the frames that
wait for READY) keeps its order, GAME_STATE (`fastUp`, `fastDown`) keeps none:
it is a set from which frames may stay undelivered for ever, which is how they
are lost. `Cut` is a dead transport, a close or an admission that timed out, of
one connection or of all; each side learns of it on its own. The game threads
never consume `inbound`, so that every frame ever delivered is still there to be
compared with the binding of its seat. Only a join that has lost its host
flushes it: `JoinRetire`, the worker's step, leaves the queue alone and sets
`left`, and `JoinDrainLeave`, the game thread's, empties it later, by when the
worker may have joined again, in another seat. Readiness is one step here and is
WorldFence's subject. The host's process, session tokens, names and the replay
numbers of retransmitted controls are left out.

**InventoryTransfer.** Trades between the squads of two players for one kind of
item, by its units: `stock[p][c]` is p's copy of c's inventory, `xferOut[p]` p's
unsettled drags by their ids (`xferOut_` is a list the code searches by id),
`xferLatch` and `delta` the latches that hold back
a peer's snapshot until it shows the move. The handlers keep the names of the
source (`applyTransfers`, `applyInventories`, `publishInventories`, ...) and
run in any order. Intents and snapshots have queues of their own. Spending and
finding units and leaving are the environment; a drag that can never be settled
(`retired`) stays as in the code.

**Doors.** One door in every world. The lanes are ordered and doors share only
the sender's counter, so that one door stands for all; a reload clears the rows
on both sides and is left to the fence. `conns` and `leaves` are the edges the
host has not drained yet, so that a seat can be taken again before the rows of
its former player are forgotten. `touched` and `unheard` are history.

**SpeedConsensus.** Clicks and heartbeats of all players, the debounce, the
settled speed and its resend. Every click carries a whole speed, multiplier and
pause, as the code's command does: an unpause may carry an older multiplier of
that player's. A seat is taken again by the same process, by one that counts
from one (`Connect`), or by a player who comes back from another seat and goes on
counting (`Reseat`), before the host has retired his old connection or after.
`crossed` and `renewed` are history: the last command asked for the speed in
force while another waited; seats whose number on record is not below what the
process that took them will send.

**ProceduralScope.** The host's catalog of generated beds and the join's copy
of it. A scan of an engine is one step, with the census, the catalog or the
reconciliation, and everything it sends; a packet is one step. `near` and
`native` are the engines: regions and beds loaded. Births move the revision and
void a running census; a removal and a region that streams out do not, the next
scan sees them. `epoch`, `objects` of a join are what it last matched.

**UpdatePackage** and **AtomicPackage.** The four-image transaction of the
updater with a step for every rename, removal, flush and write, the recovery of
the next launch, and the gate that keeps companions from being loaded while
images are renamed. `disk[s][i]` is what lies under each name. AtomicPackage is
what a player is promised: the package is one version at any time.
`AtomicUpdate` is the refinement: the installed version is the one the next
launch would settle on (`Installed`), the running one the session's.

`MC*` modules give model values and symmetry for TLC; `*Proofs` modules hold
the proofs.

## 3. Runs

| run | instance | shows |
|---|---|---|
| money | 2 joins, 2 cats, trades -2 and +1, 2 trades, 1 push, 1 host load, 1 refused wallet access, lanes of 1, fair | FoldedOnceInOrder, Conservation, Convergence |
| load_hold | 2 joins, 1 save name, 2 admissions, 1 host load, 1 restart of the host, `crowd`, `both`, `early` | TypeOK, HeldWhileLoading, ReadyMeansLive |
| load_release | 2 joins, 2 save names, 2 admissions or 1 with 1 save and 1 load, `crowd`, `user`, fair | LoadsAnnounced, HoldReleases |
| load_torn | 2 joins, 1 save name, 2 admissions, `crowd` (a violation) | a bake rewrites the folder that is being streamed |
| save | 2 transfers of one save of two files, 1 crash, 2 refused file operations, 1 drop, fair | TypeOK, FinalWhole, NeverBack, AckMeansInPlace, Lands |
| fence | 2 joins, 2 admissions, 1 host load, 1 connect-push, 1 frame, READY at any time, fair | WorldFence, AcceptsCurrentCopy, GateOpens |
| members | 2 joins, 2 seats, 3 attempts, 1 cut (of one connection or all) or early PING, 1 frame, fair | SeatsHeld, Attributed, RelaysBound, NoneRefused, EndsSettled |
| trade | the host and a join trade, a third player may leave; 1 unit each, 2 drags, 1 unit found or spent or player gone, fair | TradeTypes, Conserved, Reversible, Settles, CommitsFollow, CopiesAgree |
| doors | 2 joins, 2 movements, 1 stream-out or departure, fair | SlotReusable, NoEcho, Converges |
| speed | 2 joins, 2 multipliers, 3 clicks or heartbeats, 2 reloads, departures or changes of seat, 4 of all together, fair | Heard, LastWins, Converges |
| scope | 1 join, 2 regions of one bed, 2 loads, 1 upset of an engine or a scan, fair | TypeOK, CertifiedSame, Certifies |
| update | 4 images of which one does not change, 3 deaths, 3 refused operations, fair | OneVersion, Recoverable, AtomicUpdate, Recovers |

A type invariant is a property of a run in the modules with the richest messages
only; section 5 has it proved for every module.

**What the less obvious ones say.** HoldReleases subsumes that a NACK is served
and that a connect-push is announced: without either the host stays held, and
both were seen to fail it when the code for them is changed. WorldFence speaks
of worlds, AcceptsCurrentCopy of copies of one world. CertifiedSame is what
ProceduralWorldSync.h says of the certificate: not that the engines agree at
this moment (they may change after a scan) but that the join last matched the
catalog the host has now, and that the regions it asked for are those it has
loaded. Certifies is claimed of a join that has loaded no region but the
host's: the host sends no snapshot of a region it has not loaded, and such a
join never becomes ready. Convergence, Converges, EndsSettled and CopiesAgree
say `<>[]`: not only reached but kept.

**Exceptions.** Where the code falls short of the plain property in a way a
reader can decide to accept, the exception is a named part of it, as narrow as
the code allows: `staleAck` and a refused access (money), `renewed` and
`crossed` (speed), `unheard` (doors), an early PING and a leave that is not
drained (members), `retired` drags and `LatchStuck` (trade), `harmed`,
`orphaned`, `spoiled` (save), `hasty` (fence), `overtaken` (LoadsAnnounced),
`PushLost` and `Deserted` (HoldReleases), `CoreGone` and `MarkerAstray`
(update). Each is a hazard in `PROJECT.json` with its line. PushLost and Deserted
are dead ends of the host's hold. A load of the host's takes the folder watch off
the save being baked (`Plugin.cpp:768`), and a save under another name takes it
for itself (`Plugin.cpp:616`); neither clears `g_bootstrapArmed`. After such a
load every join may report READY for its current LOAD_GO, and the host is held
all the same. A transfer that is given up, or replaced by another, is not
retried for the join that waits for it (`SaveXfer.cpp:217`, `:437`).

**Bounds.** Two joins are the least with a relay, a second claimant for the
same cats, and a bystander of a connect-push; one is enough for the scope, as
the host keeps each join's scope apart and snapshots are broadcast. Two trades,
one larger than what remains after the other, reach the overdraft clamp and a
movement that crosses an echo. Two admissions are two players, or one who comes
back; three attempts are two players of whom one comes back, in his own seat or,
after an outage, in the other's, or before his old connection is retired.
Two save names are one the push waits for and one that takes its watch; a push
and a load are two announcements with NACKs for either. One load and one push
give two epochs to confuse, in either order. One frame suffices for the fence and the roster because their properties
speak of frames one by one and frames do not influence each other: they only
wait in the same queues. Two drags of one unit each may be simultaneous, in
either direction, of the same unit one after the other, and of two units at
once, of which the peer may move one. Two transfers are one cut off or followed
by another, two files of two and one chunks a file boundary and a chunk
boundary. Three deaths are one in the update, one in the recovery and one in the
recovery of that. Two movements of a door by different players cross; three
clicks are a command in force, one in debounce and one that meets it, and with
two changes of seats two clicks are the number on record and the one compared
with it. Two regions, of which the join comes up with one, give a region to stream in and
one to leave. Lanes are bounded by `MaxLane` only where a resend timer could
otherwise fill them without end (money, speed); in the scope a resend happens
only while nothing is under way either way, since the timer (`REQUEST_MS`) is
longer than a transit.

**Deadlock** is checked in money, whose ticks go on for ever. It is not checked
where the system may come to rest: every player may have left for good (fence,
load_*, members), the transfers may be done (save), every drag settled or pinned
(trade), nothing move any more (doors, speed, scope), or the core image be gone,
without which nothing launches (update).

**Fairness.** Weak fairness of the game threads' and workers' steps: the loops
of `mainLoop_hook` and `threadLoop` run as long as the process does. Engines
finish a load they began, and a lane delivers while its link is up. Strong
fairness only for timers that keep coming due but not in every tick: a publish
that is due in MoneyPool and the safety resend in SpeedConsensus, and for
folding a waiting delta, which is possible only during the host's own tick. In
doors a streamed-out door comes back, in save only the join's handlers are fair,
in scope the resend timers run out, in update a process that ended is launched
again. Players owe nothing: no trade, click, movement, save, load, connect,
drop or capture is fair.

## 4. What the violation shows

`LoadsWholeSave`: "both clients load the identical file" (`sync/SaveXfer.h:10`).
Nothing keeps the bake for a second player from rewriting the folder that a
fallback transfer is reading. The CRCs are computed from what is read, so the
receiver verifies and loads a mix of two saves. LoadsAnnounced says how far it
goes: a join's world is the save announced to it unless the host wrote that very
save anew while it was on its way.

The latch that no snapshot can release is at odds with a comment too
(`sync/Replicator.h:1637`), and is kept as the exception `LatchStuck` of
CopiesAgree rather than as a run of its own.

## 5. What is proved

TLAPS proves 34 theorems, for any set of joins (finite where they are counted or
summed over), any number of images and any bounds. The bounds on admissions,
loads, attempts, frames, clicks, drags, deaths and the like are guards that no
proof uses but to know that they are numbers, so what is proved holds however
long the session lasts. The assumptions are the modules' own, on their constants
(`PoolAssumption`, `FenceAssumption`, `LoadAssumption` and so on), which TLC
evaluates in every run, and for two theorems about CoordinatedLoad which parts
of its environment are left out. Every safety property of every passing run is
the subject of a theorem.

| proofs | theorem | property |
|---|---|---|
| HoldingsProofs (MoneyPool) | PoolTypeCorrect, PoolFoldsOnceInOrder, PoolConserves | FoldedOnceInOrder, Conservation |
| HoldingsProofs (InventoryTransfer) | TradeTypesHold, TradeReversible, TradeConserves | TradeTypes, Reversible, Conserved |
| CoordinatedLoadProofs | LoadTypesHold, LoadReadyMeansLive, LoadHeldWhileLoading, LoadAnnounced | TypeOK, ReadyMeansLive, HeldWhileLoading, LoadsAnnounced |
| SaveTransferProofs | SaveTypes, SaveFinalWhole, SaveAcknowledged, SaveNeverBack | TypeOK, FinalWhole, AckMeansInPlace, NeverBack |
| WorldFenceProofs | FenceTypeCorrect, FenceHolds, FenceCurrentCopy | WorldFence, AcceptsCurrentCopy |
| MembersProofs | MembersTypeCorrect, MembersSeatsHeld, MembersAttributed, MembersNoneRefused, MembersRelaysBound | SeatsHeld, Attributed, NoneRefused, RelaysBound |
| WorldProofs (Doors) | DoorsTypeCorrect, DoorsSlotReusable, DoorsNoEcho | SlotReusable, NoEcho |
| WorldProofs (ProceduralScope) | ScopeTypesHold, ScopeCertifiedSame | TypeOK, CertifiedSame |
| SpeedProofs | SpeedTypeCorrect, SpeedHeard, SpeedLastWins | Heard, LastWins |
| UpdatePackageProofs | UpdateTypeCorrect, UpdateOneVersion, UpdateRecoverable, UpdateAtomic | OneVersion, Recoverable, AtomicUpdate |

- **MoneyPool.** `PoolTypeCorrect`: the clamp keeps the pool and every wallet at
  or above zero although deltas are signed. It needs `MovedHasTotal`: a batch
  that folded something has a total to write back. `PoolFoldsOnceInOrder`
  relates the sequence a join is at, the deltas on its lane and the ack on the
  host: the lane holds consecutive numbers that end at the join's, and what has
  left it is what the host acked, unless it lies at or below the ack that
  survived a reload or a batch was lost to a wallet the engine would not read
  (`RefusalStays`). It needs `LoadingLaneEmpty`: a join that is loading has
  nothing on its lane. `PoolConserves` accounts for the cats: what the host
  holds and what the joins have moved but the host has not folded is `owed`.
  Its invariant `Balance` adds where the host's own total stands between publish
  and the end of apply (`PoolHeld`).
- **Sums.** Conservation, Conserved and Reversible are sums over lanes, joins and
  drags, which the community modules define by recursion. What such a sum does
  when a term changes, comes, goes or is renumbered (`SumChanges`, `SumExtends`,
  `SumShifts`, ...) is proved without induction. The subsets of a finite set
  are well-founded under inclusion (`WFMin`), so a claim about all partial sums
  that fails somewhere fails for a smallest subset, and of that one the element
  the sum takes first gives a smaller one.
- **InventoryTransfer.** `TradeInv` follows each drag on its way. `IntentsInv`:
  an intent on its lane is about a drag no verdict has answered, and the drag is
  still out while all players are online. `VerdictsInv`: a verdict on its lane is
  for a drag whose intent has left the other lane, is the only one, and moves no
  more than was asked; `ReceivedInv` says the same of the verdicts that wait for
  `applyXferAcks`. `TradeReversible` is an induction over `Reversible` itself:
  each step leaves at every container the units its player's drags may have to
  take back (`DueSum`), which is what the native reservation and the refusal of
  snapshots under a latch are for. `TradeConserves` keeps a book per player:
  the sum of the books moves only by what is found and spent, since of a drag
  that was taken in part the units moved leave the book of one player and enter
  the other's (`TakenBooks`), and a verdict closes its entry without moving any.
  It needs `NoneRetired`, and is stated while all players are online.
- **CoordinatedLoad.** `HoldInv` relates the announcements of a link (`sentGo`),
  the lanes (`Carried`), the stage of the one load a join is in (`OneLoad`), who
  is a member (`Seats`), what the host waits for (`Awaited`), and that a host at
  the title has announced nothing and watches nothing (`AtTitle`). `Settled` is its
  heart: a join that has answered its last LOAD_GO, or whose answer is on its
  way, runs that world and has no other pending. `LoadReadyMeansLive` assumes
  that no LOAD_GO reaches a join in the middle of a load (`"overlap"` not in
  `Allowed`), `LoadHeldWhileLoading` also that no seat is left and taken again
  within one batch of edges; without these the code does not have the property
  (section 2). Restarts of the host, crowds, user saves and early READYs are
  covered. `LoadAnnounced` assumes nothing of `Allowed`: crowds, loads and saves
  at any moment, overlapping loads and restarts are all covered. Its invariant
  `Fresh` follows the versions. Every one on its way, in a LOAD_GO, a transfer or
  a folder being received, is the host's current one of that name or was
  overtaken (`SendFresh`, `LaneFresh`, `JoinFresh`), and a transfer's number
  names one save on a lane, so that the end of a transfer is never taken for
  that of another name's.
- **SaveTransfer.** `SaveInv`: what is on its way belongs to transfers that were
  begun, in order (`Streamed`), no chunk is newer than the transfer its folder
  is taken for (`Aged`), the staging folder holds the chunks the checksums took
  and nothing else but what the system would not delete (`Receiving`), and at
  each step of the commit which folder holds a whole save (`Swapping`). Then a
  folder that can be loaded is whole (`SaveFinalWhole`), an acknowledged transfer
  is in place (`SaveAcknowledged`) and no step brings back an older copy
  (`SaveNeverBack`), for any number of deaths and refused operations at any
  point.
- **WorldFence.** `FenceTypeCorrect` and `FenceHolds`. The property speaks of
  the last queue on a frame's way only and is not inductive. `FenceInv` adds one
  part for each place: `HostInv`, `QueueFenced` and `JoinFenced` (what waits
  since the last bump was captured in the world that is running),
  and `LanesTruthful` (a frame on its way names its own world). The receiving
  gate is opened by READY, which may come while the host is still to swap: then
  the world is in `hasty`, and what the host captures until it swaps (`Leaving`)
  goes out under the new world's token (`Of`). The frames this concerns are the
  ones the property names, and no others pass. That a READY names the world the
  join runs rests on load ids being handed out in order and standing for one
  token each (`LoadIdsGrow`, `LoadIdsNameTokens`, `UnlinkedIdle`).
  `FenceCurrentCopy` is not about worlds but about copies of one, which
  no token tells apart. `CopyInv` follows the load id: along a join's lane the
  ids never fall, none is past the load the join follows, and a join the host
  takes for ready has nothing older left on its lane.
- **Members.** `MembersTypeCorrect`, `MembersSeatsHeld`, `MembersAttributed`.
  The invariant `MembersInv` is the types with `PeersCounted` (the host never
  has more peers than seats), `SeatBound` (a greeted peer's seat is bound to it,
  and no other peer has one), `MembersSeated`, `HostAttributed` (what waits on
  the host is an admitted peer's, in its seat) and `JoinBound`: what waits on a
  join is what its bindings let pass, and what waits there from an earlier
  session, until its game thread drains the leave, is under a seat that is not
  bound yet, under the join's own, or under one bound as it was (`JoinFits`).
  That nothing joins it under the own seat takes `NoEcho`: no member is sent its
  own frames. That a HELLO always finds a seat is a
  pigeonhole (`SeatLeft`: the other peers cannot hold all seats), and that it
  gets the lowest one needs the least element of a set of naturals
  (`LowestSeat`). `MembersNoneRefused` (nobody who keeps to the protocol is
  thrown out) needs `LanesInv`: what a connection may carry at each stage of its
  handshake, on all four lanes at once. `MembersRelaysBound` (no reliable frame
  of a member is dropped as stale) needs `RelaysInv`: the roster that binds a
  frame's author is ahead of it on the lane or known already, and no roster
  between the two unbinds him, which again needs that a join has heard of every
  member, or will before what is sent to it next.
- **Doors.** `DoorsTypeCorrect`, `DoorsSlotReusable` and `DoorsNoEcho`. The
  latter two need `SeqInv` (requests in a lane are numbered in order, above what
  the host has seen of the seat unless its edges have not been drained) and
  `EchoInv` (a copy nobody touched is as the join last saw it). The types include
  `PeersCounted`: the peers the host counts, with the connects it has yet to
  drain and without the leaves, are those who are here, which takes the same
  lemmas on sums as the pool.
- **ProceduralScope.** `ScopeTypesHold` and `ScopeCertifiedSame`. The host
  certifies a join by what it was told, so `ScopeInv` ties the two through the
  packets between them, join by join (`Linked`). `Supply`: snapshots under way
  are of catalogs no newer than the host's, those of a region in the order of
  their epochs, and one of the present epoch has the present beds. `Matches`:
  the same of what the join has taken and last matched, and what is under way is
  no older. `Reports` and `Known`: an ACK, on its way or counted, is of something
  the join has matched, in the load it is alive in. `Scoped`: there is a set of
  regions such that the requests and retirements on the lane lead from it to
  those the join has asked for, every commit on the lane counts what is asked at
  its place, and a host that holds the join committed holds exactly that set.
  A commit names a number and not the regions; that it is enough rests on what
  the host holds being a subset of what was asked, of the same size. What
  `FlattenSeq` makes of a scan's packets is proved by infinite descent (`Smallest`).
- **SpeedConsensus.** `SpeedTypeCorrect`, `SpeedHeard`, `SpeedLastWins`.
  LastWins is inductive as it stands; Heard needs `SeatInv`: the requests of
  a lane are numbered in order, below the join's next and above what the host
  keeps of the seat, and a seat that changes hands starts with an empty lane
  (`SeatTaken`).
- **UpdatePackage.** `UpdateTypeCorrect`, `UpdateOneVersion`,
  `UpdateRecoverable` and `UpdateAtomic`, the refinement of AtomicPackage. The
  invariant `UpdateInv` states for every step of the transaction what may lie
  under each name (`FilesInv`, `StepInv`), what is mapped and loaded
  (`ProcessTypes`, `SessionInv`) and that a version a session has run is not
  taken back (`RanInv`). Every step then maps to a step of AtomicPackage or to
  none.

Each proof has one lemma per action and one step per part of the invariant that
the action can disturb. The inductive invariants were model-checked before they
were proved.

## 6. What is only model-checked

All liveness (Convergence, HoldReleases, GateOpens, EndsSettled, Lands, Settles,
CommitsFollow, CopiesAgree, Converges, Certifies, Recovers) depends on fairness
and ENABLED and stays with TLC. No safety property is left to it alone.
Of CoordinatedLoad with `overlap` or `edges` only LoadsAnnounced is claimed, and
proved; no run includes them.

## 7. What is not modelled

Parts of modelled components:

- **Inventory.** Operations of shops, extractions with their checkpoints, bags,
  drops to the ground, and a trader who comes back. A drag has one end
  that is the dragger's own: a drag between the squads of two other players,
  which the code announces as well, is left out, and the run has two traders.
  There is always room for what is moved back, in one step. Conserved is stated while
  all players are online.
- **CoordinatedLoad.** Timeouts of the watch, failed commits and the teardown
  they cause. A save lands in one step. Session controls that wait in Inbound
  are lost with the link; in the code they survive a retirement
  (`core/Inbound.h:952`), and a game thread that is busy with a load may handle
  an old LOAD_GO on the next connection.
- **Speed.** The clock slew and the brake are control loops over real numbers.
  One sequence number guards the reports of all joins there
  (`ReplicatorChannels.cpp:3120`), a hazard without a property.
- **Scope.** Logical ids and their bindings, lookups of a fixture, saved beds
  that are adopted, players who leave, the limits on regions and epochs, and the
  lag between the host's LOAD_GO and its own swap. A join that reconciled
  against the old world in that lag has sent its commit, the host's reset
  forgets it, and the join sends it only once; it is taken to need longer to load
  a world than the host to leave its own.
- **Fence and members.** Queues have no limit; the code ends the session when a
  join that is loading has 4096 frames waiting (`NetLink.cpp:563`). Load ids of
  a restarted host, which a surviving join takes for duplicates
  (`Plugin.cpp:894`), are allowed in load_hold and excluded where the hold has
  to end. In the run of Members one player comes back at most.

Components:

- **World items.** What was dropped or picked up is decided from spatial queries
  that may miss an item for several ticks; a model would rest on a bound that
  the source does not state.
- **Cell authority and NPC census.** The owner of a cell follows from distances
  between moving squads, with hysteresis; it needs an abstract geometry first.
- **Other sampled channels** (factions, building doors, deeds, research,
  production) repeat the pattern of Doors and MoneyPool: a sample, a change
  gate, a safety resend. **Environment items** repeat that of ProceduralScope
  and the verdicts of InventoryTransfer.
- **Spawn, drive, interpolation, combat.** Floating-point motion and engine data
  between samples; TLC has no reals, and what remains is single latches.
- **Transport** (Steam sockets, UDP): pure I/O. The modules assume ordered lanes
  that lose nothing while connected, which is what `TransportApi.h` asks of a
  backend, and GAME_STATE without either.
- **UI, configuration, invitations, crash dumps, simulators**: nothing shared
  between players. **Engine adapters**: their answers are inputs of the models.

These adapters, the UI and the floating-point code are most of the plugin's
lines: the modules stand for about a fifteenth of them, and modelling every
component of the previous list would not bring that to a third.

Assumptions on timing, each named where it is used: a save is announced to a
join that is not in a load (`overlap`), where the hold has to end and in
ProceduralScope a join is ready no earlier than the host has made its own swap,
and a swap is long enough for its edges to be seen (`Plugin.cpp:1511`).

## 8. Plan

Proofs: safety halves of the liveness properties that can be stated without
fairness, such as that a held host always has something to wait for
(CoordinatedLoad), or that a trade which is still out has a packet or a latch to
settle it (InventoryTransfer).

Models: environment items on top of the scope; cell authority with an abstract
geometry (a squad is near some cells); extractions with checkpoints in
InventoryTransfer; queue limits and the session's failure in WorldFence.

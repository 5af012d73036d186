--------------------------- MODULE ProceduralScope ---------------------------
(***************************************************************************)
(* The procedural world scope (sync/ProceduralWorldSync.cpp, with          *)
(* core/ProceduralWorldState.h).  Every game generates the beds of a       *)
(* region by itself, so after a load the host keeps a catalog of the beds  *)
(* of each region it has loaded, numbered by an epoch, and each join asks  *)
(* for the regions it has loaded, makes its own beds the same and says so. *)
(* The host lets the world run (Plugin.cpp, hostWaitingForJoinLoad) once   *)
(* peerReady holds for every join.                                         *)
(*                                                                         *)
(* One update() of the source handles the packets that have come and,      *)
(* every 250 ms, scans the engine.  Here a scan is one step and a packet   *)
(* is one step: a packet handled in the middle of a scan is one handled    *)
(* right after it, since what the scan sends then is either sent again or  *)
(* decided by timers, which are left open.                                 *)
(*                                                                         *)
(* Left out: the rows of a snapshot one by one (a snapshot is its BEGIN    *)
(* and its END, the lane is ordered and nothing comes in between), the     *)
(* logical ids and the hands bound to them, beds of the save itself that   *)
(* are adopted, the limits of 256 regions and 2^32 epochs, and players     *)
(* that leave: one that returns is pushed a load of its own (NewLoad).     *)
(* The lag between the host's LOAD_GO and its own swap is left out: a join *)
(* is taken to need longer to load a world than the host to leave its own. *)
(***************************************************************************)
EXTENDS Integers, Sequences, FiniteSets, SequencesExt

CONSTANTS
    Joins,        \* the joins
    LastRegion,   \* the regions are 1 .. LastRegion, in the order of the map
    FirstRegions, \* FirstRegions[p]: the regions the world of p comes up with
    Beds,         \* descriptors of beds, one set for every region
    MaxLoads,     \* bound: loads announced
    MaxUpsets     \* bound: births, removals and streaming in the engines,
                  \* incomplete scans and refused engine calls

ASSUME ScopeAssumption ==
    /\ LastRegion \in Nat \ {0}
    /\ FirstRegions \in [{"host"} \cup Joins -> (SUBSET (1 .. LastRegion)) \ {{}}]
    /\ MaxLoads \in Nat \ {0} /\ MaxUpsets \in Nat

VARIABLES
    near,      \* near[p]: the regions the engine of p has loaded
    native,    \* native[p][r]: the generated beds of r in the engine of p
    host,      \* the host's ProceduralWorldSync
    join,      \* join[j]: the ProceduralWorldSync of j
    up, down,  \* packets from and to j, oldest first
    upsets

vars == <<near, native, host, join, up, down, upsets>>

Regions == 1 .. LastRegion
HostGame == "host"
Games == {HostGame} \cup Joins

NoSnapshot == [epoch |-> 0, whole |-> FALSE, acked |-> FALSE, objects |-> {}]
NoBeds == [r \in Regions |-> {}]
Zeroes == [r \in Regions |-> 0]

(* What reset() leaves of the host's state, at a load.                     *)
FreshHost(load, live) ==
    [load |-> load, live |-> live, scanned |-> FALSE, registry |-> FALSE,
     census |-> FALSE, loaded |-> {}, complete |-> {},
     epoch |-> Zeroes, objects |-> NoBeds,
     requested |-> [j \in Joins |-> {}],
     acked |-> [j \in Joins |-> Zeroes],
     committed |-> {}]

FreshJoin(load, live) ==
    [load |-> load, live |-> live, scanned |-> FALSE, registry |-> FALSE,
     census |-> FALSE, loaded |-> {}, complete |-> {},
     epoch |-> Zeroes, objects |-> NoBeds,
     snapshot |-> [r \in Regions |-> NoSnapshot],
     requested |-> {}, reconciled |-> {}, committed |-> FALSE]

Packet(op, load, r, epoch, objects) ==
    [op |-> op, load |-> load, region |-> r, epoch |-> epoch, objects |-> objects]
Control(op, load, r) == Packet(op, load, r, 0, {})
\* a SCOPE_COMMIT names no region: it counts them
Commit(load, n) == Packet("COMMIT", load, 0, n, {})

Packets == [op : {"REQUEST", "RETIRE", "ACK", "COMMIT", "BEGIN", "END"},
            load : 1 .. MaxLoads, region : 0 .. LastRegion, epoch : Nat,
            objects : SUBSET Beds]

-----------------------------------------------------------------------------
(* What the host and a join believe.                                       *)

(* ProceduralWorldSync::peerReady, and active_.                            *)
PeerReady(j) ==
    /\ host.live /\ host.scanned /\ host.registry /\ host.census
    /\ j \in host.committed
    /\ \A r \in host.requested[j] :
          /\ r \in host.loaded \cap host.complete
          /\ host.acked[j][r] = host.epoch[r]

(* ProceduralWorldSync::allLoadedRegionsReady, on a join.                  *)
AllReady(j) ==
    /\ join[j].live /\ join[j].scanned /\ join[j].registry /\ join[j].census
    /\ join[j].committed
    /\ join[j].loaded \subseteq join[j].complete \cap join[j].reconciled

(* What a census may find of the regions the engine of p has loaded: an    *)
(* incomplete registry lists some of them, and in a region that is still   *)
(* being made the beds cannot be counted.                                  *)
Seen(p, registry, missed) == IF registry THEN near[p] ELSE near[p] \ missed
Misses(p) == {{}} \cup {{r} : r \in near[p]}

-----------------------------------------------------------------------------
(* The engines.                                                            *)

Live(p) == IF p = HostGame THEN host.live ELSE join[p].live

(* proceduralOriginRevision moves: no census of p is current any more.     *)
RevisionMoves(p) ==
    IF p = HostGame
    THEN host' = [host EXCEPT !.census = FALSE] /\ UNCHANGED join
    ELSE join' = [join EXCEPT ![p].census = FALSE] /\ UNCHANGED host

Changing(p) == Live(p) /\ upsets < MaxUpsets /\ upsets' = upsets + 1

(* A generated bed is born: the hook moves the revision.                   *)
BedBorn(p, r, b) ==
    /\ Changing(p) /\ r \in near[p] /\ b \notin native[p][r]
    /\ native' = [native EXCEPT ![p][r] = @ \cup {b}]
    /\ RevisionMoves(p)
    /\ UNCHANGED <<near, up, down>>

(* A bed goes: no hook sees it, the next scan does.                        *)
BedGone(p, r, b) ==
    /\ Changing(p) /\ b \in native[p][r]
    /\ native' = [native EXCEPT ![p][r] = @ \ {b}]
    /\ UNCHANGED <<near, host, join, up, down>>

(* A region is streamed in, with the beds its engine gives it, or out.     *)
StreamedIn(p, r, beds) ==
    /\ Changing(p) /\ r \notin near[p]
    /\ near' = [near EXCEPT ![p] = @ \cup {r}]
    /\ native' = [native EXCEPT ![p][r] = beds]
    /\ IF beds = {} THEN UNCHANGED <<host, join>> ELSE RevisionMoves(p)
    /\ UNCHANGED <<up, down>>

StreamedOut(p, r) ==
    /\ Changing(p) /\ r \in near[p] /\ near[p] # {r}
    /\ near' = [near EXCEPT ![p] = @ \ {r}]
    /\ native' = [native EXCEPT ![p][r] = {}]
    /\ UNCHANGED <<host, join, up, down>>

-----------------------------------------------------------------------------
(* Loads.                                                                  *)

(* A connect-push announces a load and the host plays on: update() finds   *)
(* a new load id, forgets what joins asked for and keeps its catalog.      *)
ConnectPush ==
    /\ host.live /\ host.load < MaxLoads
    /\ host' = [FreshHost(host.load + 1, TRUE) EXCEPT
                   !.epoch = host.epoch, !.objects = host.objects]
    /\ UNCHANGED <<near, native, join, up, down, upsets>>

(* The host loads a save: its world goes.                                  *)
HostLoads ==
    /\ host.live /\ host.load < MaxLoads
    /\ host' = FreshHost(host.load + 1, FALSE)
    /\ near' = [near EXCEPT ![HostGame] = {}]
    /\ native' = [native EXCEPT ![HostGame] = NoBeds]
    /\ UNCHANGED <<join, up, down, upsets>>

(* A world comes up with its regions and the beds generated in them.       *)
WorldUp(p) ==
    \E beds \in [Regions -> SUBSET Beds] :
        /\ \A r \in Regions \ FirstRegions[p] : beds[r] = {}
        /\ near' = [near EXCEPT ![p] = FirstRegions[p]]
        /\ native' = [native EXCEPT ![p] = beds]

(* What is left of a lane when an inbound queue is cleared: what the       *)
(* network thread had not put there yet.                                   *)
Flushed(lane) == {SubSeq(lane, k, Len(lane)) : k \in 1 .. Len(lane) + 1}

(* The host's world is live: sessionResetForWorldReload resets the scope   *)
(* and clears what joins faster than the host have sent.                   *)
HostLive ==
    /\ ~host.live
    /\ host' = FreshHost(host.load, TRUE)
    /\ WorldUp(HostGame)
    /\ up' \in {u \in [Joins -> UNION {Flushed(up[j]) : j \in Joins}] :
                   \A j \in Joins : u[j] \in Flushed(up[j])}
    /\ UNCHANGED <<join, down, upsets>>

(* A LOAD_GO reaches the join, the newest or an earlier one: it resets its *)
(* scope and loads the save.                                               *)
JoinGo(j) ==
    /\ \E load \in join[j].load + 1 .. host.load :
          join' = [join EXCEPT ![j] = FreshJoin(load, FALSE)]
    /\ near' = [near EXCEPT ![j] = {}]
    /\ native' = [native EXCEPT ![j] = NoBeds]
    /\ UNCHANGED <<host, up, down, upsets>>

(* The join's world is live (noteJoinWorldLive, after the reset).          *)
JoinLive(j) ==
    /\ join[j].load # 0 /\ ~join[j].live
    /\ join' = [join EXCEPT ![j] = FreshJoin(join[j].load, TRUE)]
    /\ WorldUp(j)
    /\ \E lane \in Flushed(down[j]) : down' = [down EXCEPT ![j] = lane]
    /\ UNCHANGED <<host, up, upsets>>

-----------------------------------------------------------------------------
(* The host.                                                               *)

(* sendSnapshot, of the regions in rs, to whoever listens.                 *)
SnapshotOf(h, r) ==
    <<Packet("BEGIN", h.load, r, h.epoch[r], {}),
      Packet("END", h.load, r, h.epoch[r], h.objects[r])>>

SendSnapshots(h, rs) ==
    down' = [j \in Joins |->
                down[j] \o FlattenSeq([r \in Regions |->
                               IF r \in rs THEN SnapshotOf(h, r) ELSE <<>>])]

CanSnapshot(h) ==
    IF h.registry
    THEN {r \in h.loaded \cap h.complete : h.epoch[r] # 0}
    ELSE {}

(* The regions some join asked for and has not acknowledged.               *)
Due(h) == {r \in CanSnapshot(h) :
              \E j \in Joins : r \in h.requested[j] /\ h.acked[j][r] # h.epoch[r]}

(* The state after the census and updateHostCatalog of what it read: a     *)
(* catalog that changed has a new epoch, which nobody has acknowledged.    *)
HostCensus(registry, missed) ==
    LET complete == near[HostGame] \ missed
        changed  == {r \in complete : \/ host.epoch[r] = 0
                                      \/ host.objects[r] # native[HostGame][r]}
    IN [host EXCEPT
          !.scanned = TRUE, !.registry = registry, !.census = registry,
          !.loaded = Seen(HostGame, registry, missed), !.complete = complete,
          !.epoch = [r \in Regions |-> IF r \in changed THEN @[r] + 1 ELSE @[r]],
          !.objects = [r \in Regions |-> IF r \in changed THEN native[HostGame][r]
                                                          ELSE @[r]],
          !.acked = [j \in Joins |-> [r \in Regions |->
                        IF r \in changed THEN 0 ELSE @[j][r]]]]

(* A scan may be incomplete, of the registry or of a region.               *)
ScanFault(faulty) ==
    IF faulty THEN upsets < MaxUpsets /\ upsets' = upsets + 1 ELSE UNCHANGED upsets

(* A scan of the host that sends what is in rs again: its timers decide.   *)
HostScanSends(registry, missed, rs) ==
    \E h \in {HostCensus(registry, missed)} :
    /\ host.live
    /\ ScanFault(~registry \/ missed # {})
    /\ rs \subseteq Due(h)
    /\ rs # {} => \A j \in Joins : up[j] = <<>> /\ down[j] = <<>>
    /\ host' = h
    /\ SendSnapshots(h, rs)
    /\ UNCHANGED <<near, native, join, up>>

(* A scan that finds nothing wrong, before and REQUEST_MS after the last   *)
(* snapshot.                                                               *)
HostScans == HostScanSends(TRUE, {}, {})
HostResends == HostScanSends(TRUE, {}, Due(HostCensus(TRUE, {})))

HostScan ==
    \/ HostScans
    \/ HostResends
    \/ /\ upsets < MaxUpsets
       /\ \E registry \in BOOLEAN, missed \in Misses(HostGame) :
             HostScanSends(registry, missed, {})

(* The packets, in the order of the lane.                                  *)
HostTakes(j, op) ==
    /\ host.live /\ host.scanned
    /\ up[j] # <<>> /\ Head(up[j]).load = host.load /\ Head(up[j]).op = op
    /\ up' = [up EXCEPT ![j] = Tail(@)]
    /\ UNCHANGED <<near, native, join, upsets>>

(* PeerScope::accept of a REQUEST: a new region undoes the commit.  It is  *)
(* answered with the snapshot, new or not.                                 *)
HostTakesRequest(j) ==
    LET r == Head(up[j]).region IN
    /\ HostTakes(j, "REQUEST")
    /\ host' = [host EXCEPT
                  !.requested[j] = @ \cup {r},
                  !.committed = IF r \in host.requested[j] THEN @ ELSE @ \ {j}]
    /\ SendSnapshots(host, {r} \cap CanSnapshot(host))

HostTakesRetire(j) ==
    LET r == Head(up[j]).region IN
    /\ HostTakes(j, "RETIRE")
    /\ host' = [host EXCEPT
                  !.requested[j] = @ \ {r},
                  !.acked[j][r] = 0,
                  !.committed = IF r \in host.requested[j] THEN @ \ {j} ELSE @]
    /\ UNCHANGED down

ExactAck(j, m) ==
    /\ host.registry /\ m.region \in host.loaded \cap host.complete
    /\ m.region \in host.requested[j]
    /\ m.epoch = host.epoch[m.region] /\ m.objects = host.objects[m.region]

\* Fault: an ACK of an older catalog counts for the present one.
AckedAtAll(j, m) ==
    IF m.region \in host.requested[j] THEN host.epoch[m.region]
                                      ELSE host.acked[j][m.region]
Acked(j, m) == IF ExactAck(j, m) THEN m.epoch ELSE host.acked[j][m.region]

HostTakesAck(j) ==
    LET m == Head(up[j]) IN
    /\ HostTakes(j, "ACK")
    /\ host' = [host EXCEPT !.acked[j][m.region] = Acked(j, m)]
    /\ UNCHANGED down

(* PeerScope::accept of a SCOPE_COMMIT: it counts the regions asked for.   *)
HostTakesCommit(j) ==
    /\ HostTakes(j, "COMMIT")
    /\ host' = IF Head(up[j]).epoch = Cardinality(host.requested[j])
               THEN [host EXCEPT !.committed = @ \cup {j}] ELSE host
    /\ UNCHANGED down

(* A packet of another load is read and dropped.                           *)
HostDrops(j) ==
    /\ host.live /\ host.scanned
    /\ up[j] # <<>> /\ Head(up[j]).load # host.load
    /\ up' = [up EXCEPT ![j] = Tail(@)]
    /\ UNCHANGED <<near, native, host, join, down, upsets>>

-----------------------------------------------------------------------------
(* A join.                                                                 *)

(* RegionSnapshot::accept: a newer BEGIN opens, the END of the same epoch  *)
(* completes, and completes again what was complete so that it is          *)
(* acknowledged again.                                                     *)
\* Fault: the END of a snapshot sent again asks for no ACK.
AcceptedOnce(s, m) ==
    CASE m.op = "BEGIN" /\ m.epoch > s.epoch ->
            [NoSnapshot EXCEPT !.epoch = m.epoch]
      [] m.op = "END" /\ m.epoch = s.epoch ->
            [s EXCEPT !.whole = TRUE, !.objects = m.objects]
      [] OTHER -> s

Accepted(s, m) ==
    CASE m.op = "BEGIN" /\ m.epoch > s.epoch ->
            [NoSnapshot EXCEPT !.epoch = m.epoch]
      [] m.op = "END" /\ m.epoch = s.epoch ->
            [s EXCEPT !.whole = TRUE, !.acked = FALSE, !.objects = m.objects]
      [] OTHER -> s

JoinTakes(j) ==
    LET m == Head(down[j])
        r == m.region
        s == Accepted(join[j].snapshot[r], m)
        kept == join[j].snapshot[r].whole /\ s.whole
    IN /\ join[j].live /\ join[j].scanned /\ down[j] # <<>>
       /\ down' = [down EXCEPT ![j] = Tail(@)]
       /\ join' = IF m.load # join[j].load \/ r \notin join[j].loaded THEN join
                  ELSE [join EXCEPT
                          ![j].snapshot[r] = s,
                          ![j].reconciled = IF kept THEN @ ELSE @ \ {r},
                          ![j].committed = @ /\ kept]
       /\ UNCHANGED <<near, native, host, up, upsets>>

\* Fault: a region read only in part stays reconciled.
StaysReconciled(j, lost) == join[j].reconciled
StillReconciled(j, lost) == join[j].reconciled \ lost

(* The join's own census.  A region that was not read whole is not         *)
(* reconciled; the snapshot of one that is gone is forgotten.              *)
JoinCensus(j, registry, missed) ==
    LET J        == join[j]
        seen     == Seen(j, registry, missed)
        complete == near[j] \ missed
        lost     == IF registry THEN Regions \ complete ELSE Regions
    IN [J EXCEPT
          !.scanned = TRUE, !.registry = registry,
          !.loaded = seen, !.complete = complete,
          !.committed = @ /\ J.census /\ lost \cap (seen \cup J.requested) = {},
          !.reconciled = StillReconciled(j, lost),
          !.snapshot = [r \in Regions |-> IF r \in seen THEN @[r] ELSE NoSnapshot]]

(* reconcile() of region r in the state J: it stops at a removal or at a   *)
(* creation, to read the engine again, and is done when a census shows     *)
(* exactly the beds of the snapshot.                                       *)
Reconciles(J, j, r) ==
    J.snapshot[r].whole /\ native[j][r] = J.snapshot[r].objects

Worked(J, j, r) ==
    LET wanted == J.snapshot[r].objects IN
    IF native[j][r] \subseteq wanted THEN wanted ELSE native[j][r] \cap wanted

(* The rest of a scan: retirements, requests, reconciliation, ACKs and,    *)
(* when all is done and the revision stood still, the commit.  The engine  *)
(* may refuse to work on some regions; those in again are asked for again, *)
(* as the timer decides.                                                   *)
JoinScanFrom(J, j, registry, missed, refused, again) ==
    LET gone    == J.requested \ J.loaded
        read    == IF registry THEN J.complete ELSE {}
        fresh   == read \ J.requested
        done    == {r \in read : Reconciles(J, j, r)}
        acks    == {r \in done : r \notin J.reconciled \/ ~J.snapshot[r].acked}
        worked  == {r \in read \ done : J.snapshot[r].whole} \ refused
        births  == {r \in worked : native[j][r] \subseteq J.snapshot[r].objects}
        still   == registry /\ births = {}
        keeps   == J.committed /\ fresh = {} /\ read \subseteq done
        commits == still /\ ~keeps /\ J.loaded \subseteq done
        sends(r) ==
            (IF r \in gone THEN <<Control("RETIRE", J.load, r)>> ELSE <<>>)
            \o (IF r \in fresh \cup again
                THEN <<Control("REQUEST", J.load, r)>> ELSE <<>>)
            \o (IF r \in acks
                THEN <<Packet("ACK", J.load, r, J.snapshot[r].epoch, native[j][r])>>
                ELSE <<>>)
        sent == FlattenSeq([r \in Regions |-> sends(r)])
                \o (IF commits THEN <<Commit(J.load, Cardinality(J.loaded))>> ELSE <<>>)
    IN /\ join[j].live
       /\ ScanFault(~registry \/ missed # {} \/ refused # {})
       /\ refused \subseteq {r \in read \ done : J.snapshot[r].whole}
       /\ again \subseteq read \ (done \cup fresh)
       /\ again # {} => up[j] = <<>> /\ down[j] = <<>>
       /\ up' = [up EXCEPT ![j] = @ \o sent]
       /\ native' = [native EXCEPT ![j] =
             [r \in Regions |-> IF r \in worked THEN Worked(J, j, r) ELSE @[r]]]
       /\ join' = [join EXCEPT ![j] =
             [J EXCEPT
                !.census = still,
                !.requested = (@ \ gone) \cup fresh,
                !.reconciled = (@ \ read) \cup done,
                !.committed = still /\ (keeps \/ commits),
                !.epoch = [r \in Regions |->
                    IF r \in done THEN J.snapshot[r].epoch ELSE @[r]],
                !.objects = [r \in Regions |->
                    IF r \in done THEN native[j][r] ELSE @[r]],
                !.snapshot = [r \in Regions |->
                    IF r \in acks THEN [@[r] EXCEPT !.acked = TRUE] ELSE @[r]]]]
       /\ UNCHANGED <<near, host, down>>

JoinScanSends(j, registry, missed, refused, again) ==
    \E J \in {JoinCensus(j, registry, missed)} :
        JoinScanFrom(J, j, registry, missed, refused, again)

(* A scan that finds nothing wrong, before and REQUEST_MS after the last   *)
(* request.                                                                *)
JoinScans(j) == JoinScanSends(j, TRUE, {}, {}, {})
JoinRescans(j) ==
    LET J == JoinCensus(j, TRUE, {}) IN
    JoinScanSends(j, TRUE, {}, {},
        {r \in near[j] \cap J.requested : ~Reconciles(J, j, r)})

JoinScan(j) ==
    \/ JoinScans(j)
    \/ JoinRescans(j)
    \/ /\ upsets < MaxUpsets
       /\ \/ \E registry \in BOOLEAN, missed \in Misses(j) :
                JoinScanSends(j, registry, missed, {}, {})
          \/ \E r \in near[j] : JoinScanSends(j, TRUE, {}, {r}, {})

-----------------------------------------------------------------------------
Init ==
    /\ near = [p \in Games |-> {}]
    /\ native = [p \in Games |-> NoBeds]
    /\ host = FreshHost(1, FALSE)
    /\ join = [j \in Joins |-> FreshJoin(0, FALSE)]
    /\ up = [j \in Joins |-> <<>>]
    /\ down = [j \in Joins |-> <<>>]
    /\ upsets = 0

Engines ==
    \E p \in Games, r \in Regions :
        \/ \E b \in Beds : BedBorn(p, r, b) \/ BedGone(p, r, b)
        \/ \E beds \in SUBSET Beds : StreamedIn(p, r, beds)
        \/ StreamedOut(p, r)

HostTakesOne(j) ==
    \/ HostTakesRequest(j)
    \/ HostTakesRetire(j)
    \/ HostTakesAck(j)
    \/ HostTakesCommit(j)
    \/ HostDrops(j)

Next ==
    \/ Engines
    \/ ConnectPush
    \/ HostLoads
    \/ HostLive
    \/ HostScan
    \/ \E j \in Joins :
          \/ JoinGo(j)
          \/ JoinLive(j)
          \/ HostTakesOne(j)
          \/ JoinTakes(j)
          \/ JoinScan(j)

(* The game loops run and scan, loads complete, and the timers of what is  *)
(* sent again run out: a packet is not under way for ever in between.      *)
Fairness ==
    /\ WF_vars(HostLive \/ HostScans)
    /\ WF_vars(HostResends)
    /\ \A j \in Joins :
          /\ WF_vars(JoinGo(j) \/ JoinLive(j) \/ JoinScans(j))
          /\ WF_vars(HostTakesOne(j))
          /\ WF_vars(JoinTakes(j))
          /\ WF_vars(JoinRescans(j))

Spec == Init /\ [][Next]_vars /\ Fairness

-----------------------------------------------------------------------------
(* Type invariant of the scopes, the lanes and the engines.                *)
TypeOK ==
    /\ near \in [Games -> SUBSET Regions]
    /\ native \in [Games -> [Regions -> SUBSET Beds]]
    /\ host.load \in 1 .. MaxLoads
    /\ host.complete \subseteq Regions /\ host.loaded \subseteq Regions
    /\ host.committed \subseteq Joins
    /\ \A j \in Joins :
          /\ host.requested[j] \subseteq Regions
          /\ \A r \in Regions : host.acked[j][r] \in 0 .. host.epoch[r]
          /\ join[j].load \in 0 .. host.load
          /\ join[j].reconciled \subseteq join[j].complete
          /\ \A i \in 1 .. Len(up[j]) : up[j][i] \in Packets
          /\ \A i \in 1 .. Len(down[j]) : down[j][i] \in Packets
    /\ upsets \in 0 .. MaxUpsets

(* ProceduralWorldSync.h: "HOST certification additionally requires the    *)
(* JOIN's ordered reliable scope commit after its ACKs/retirements".  When *)
(* the host finds a join ready, each region the join asked for holds, as   *)
(* the join last matched it, the beds of the host's present catalog; and   *)
(* once nothing of the join's is under way and it finds itself ready, the  *)
(* regions asked for are those it has loaded.                              *)
CertifiedSame ==
    \A j \in Joins : PeerReady(j) /\ join[j].load = host.load =>
        /\ \A r \in host.requested[j] :
              /\ join[j].epoch[r] = host.epoch[r]
              /\ join[j].objects[r] = host.objects[r]
        /\ AllReady(j) /\ up[j] = <<>> => host.requested[j] = join[j].loaded

(* hostWaitingForJoinLoad ends the hold by peerReady, and the join's READY *)
(* waits for allLoadedRegionsReady: once the engines stand still both come *)
(* true and stay so, whatever crossed on the way, for a join that has      *)
(* loaded no region but the host's.                                        *)
Certifies ==
    <>[](\A j \in Joins :
            /\ join[j].load = host.load
            /\ near[j] \subseteq near[HostGame] => PeerReady(j) /\ AllReady(j))
=============================================================================

--------------------------- MODULE WorldFenceProofs ---------------------------
(***************************************************************************)
(* What TLAPS proves of WorldFence for any joins, loads, pushes and frames.*)
(*                                                                         *)
(* WorldFence is not inductive: that a frame which passes both tests of    *)
(* its receiver was captured in the receiver's world depends on what waits *)
(* in every queue on its way, and that a join reports ready for the world  *)
(* it runs on the order in which load ids are handed out.  FenceInv says   *)
(* so, one part for each place.  Tokens do not tell two copies of one world*)
(* apart: that the host accepts frames of the last copy only rests on the  *)
(* order of a join's lane, which CopyInv follows from the join's capture   *)
(* to the host's gate.                                                     *)
(***************************************************************************)
EXTENDS WorldFence, SequencesExt, SequenceTheorems, TLAPS

(* LOAD_GOs stand in a queue in the order of their load ids.               *)
Increasing(s) ==
    \A m, n \in 1 .. Len(s) :
        m < n /\ s[m].type = "GO" /\ s[n].type = "GO" => s[m].id < s[n].id

(* A capture of world w, or of the host's in the world it was leaving for  *)
(* w when a join had already reported ready for w.                         *)
Of(w, o) == o.token = w \/ (o.by = Host /\ w \in hasty /\ o.token = w - 1)

(* What may go out to the joins under the host's token: a capture of the   *)
(* world it names, or the host's own until the engine swaps.               *)
Leaving(o) == o.token = worldToken \/ (loading /\ o.by = Host /\ o.token = worldToken - 1)

(* Outside of a load the host's engine runs the announced world, during    *)
(* one the world before it.  What it captured since the last bump is of    *)
(* the world it runs, and so is what it has yet to apply, unless a join    *)
(* reported ready early.                                                   *)
HostInv ==
    /\ worldToken >= 1
    /\ hostWorld = IF loading THEN worldToken - 1 ELSE worldToken
    /\ \A p \in ToSet(publications) : p.type = "WORLD" =>
          /\ p.epoch <= sendEpoch
          /\ p.epoch = sendEpoch => p.origin.by = Host /\ p.origin.token = hostWorld
    /\ \A o \in inbound :
          o.token = hostWorld \/ (loading /\ worldToken \in hasty /\ o.token = worldToken)
    /\ Increasing(publications)

(* During a load the gate is open only to a join that reported ready early *)
(* and what the host has queued for a join since the last bump may go out. *)
QueueFenced(j) ==
    /\ loading /\ Open(j) => worldToken \in hasty
    /\ \A f \in ToSet(pending[j]) :
          f.epoch <= sendEpoch /\ (f.epoch = sendEpoch => Leaving(f.origin))

(* A frame on its way names the world it was captured in, but for the      *)
(* host's own to a join that reported ready early.                         *)
LanesTruthful(j) ==
    /\ \A f \in ToSet(down[j]) : Of(f.world, f.origin)
    /\ \A f \in ToSet(up[j]) : f.type = "WORLD" => f.origin.token = f.world

(* A join that reported ready runs the world it was told to, and what it   *)
(* captured since the last bump, or has yet to apply, is of the world it   *)
(* runs.                                                                   *)
JoinFenced(r) ==
    /\ r.localReady => r.world.token = r.token
    /\ \A p \in ToSet(r.publications) : p.type = "WORLD" =>
          p.epoch <= r.epoch /\ (p.epoch = r.epoch => p.origin.token = r.world.token)
    /\ \A f \in ToSet(r.pending) :
          f.epoch <= r.epoch /\ (f.epoch = r.epoch => f.origin.token = r.world.token)
    /\ \A o \in r.inbound : Of(r.world.token, o)

(* A load id stands for one token wherever a join still knows it.          *)
LoadIdsNameTokens(r) ==
    /\ r.live # 0 => r.world.id = r.live
    /\ r.latest # 0 => \A w \in {r.world, r.target, r.go} :
                           w.id = r.latest => w.token = r.token

(* Load ids grow from the join through its lane to the publications.       *)
Known(r) == {r.world.id, r.target.id, r.go.id, r.latest}
LoadIdsGrow(j) ==
    /\ Increasing(bulk[j])
    /\ \A p \in ToSet(bulk[j]) : \A id \in Known(joins[j]) : id < p.id
    /\ \A p \in ToSet(publications) : p.type = "GO" =>
          /\ peers[j].load < p.id
          /\ \A id \in Known(joins[j]) : id < p.id
          /\ \A q \in ToSet(bulk[j]) : q.id < p.id

(* A join without a connection has no token, and nothing on its lane.      *)
UnlinkedIdle(j) == j \notin link => joins[j].token = 0 /\ bulk[j] = <<>>

JoinInv(j) ==
    /\ QueueFenced(j) /\ LanesTruthful(j)
    /\ JoinFenced(joins[j]) /\ LoadIdsNameTokens(joins[j])
    /\ LoadIdsGrow(j) /\ UnlinkedIdle(j)

FenceInv == HostInv /\ \A j \in Joins : JoinInv(j)

-----------------------------------------------------------------------------
(* Sequences as the sets of their elements.                                *)
LEMMA SetOfTail ==
    ASSUME NEW S, NEW s \in Seq(S), s # <<>>
    PROVE  Head(s) \in ToSet(s) /\ ToSet(Tail(s)) \subseteq ToSet(s) /\ Tail(s) \in Seq(S)
BY DEF ToSet

LEMMA SetOfAppend ==
    ASSUME NEW S, NEW s \in Seq(S), NEW e \in S
    PROVE  ToSet(Append(s, e)) = ToSet(s) \cup {e} /\ Append(s, e) \in Seq(S)
<1>1. \A i \in 1 .. Len(s) : Append(s, e)[i] = s[i]
  OBVIOUS
<1>2. Append(s, e)[Len(s) + 1] = e /\ Len(Append(s, e)) = Len(s) + 1
  OBVIOUS
<1> QED BY <1>1, <1>2 DEF ToSet

LEMMA SetOfEmpty == ToSet(<<>>) = {}
BY DEF ToSet

LEMMA SeqGrows ==
    ASSUME NEW S, NEW T, S \subseteq T, NEW s \in Seq(S) PROVE s \in Seq(T)
OBVIOUS

LEMMA SeqElement ==
    ASSUME NEW S, NEW s \in Seq(S), NEW e \in ToSet(s) PROVE e \in S
BY DEF ToSet

-----------------------------------------------------------------------------
(* Types.                                                                  *)
LEMMA TypesKept ==
    ASSUME UNCHANGED <<worldToken, loadIdOut>>
    PROVE  /\ Tokens' = Tokens /\ LoadIds' = LoadIds /\ Worlds' = Worlds
           /\ Origins' = Origins /\ Frames' = Frames /\ Packets' = Packets
           /\ Gos' = Gos /\ Readies' = Readies /\ JoinTypes' = JoinTypes
<1>1. Tokens' = Tokens /\ LoadIds' = LoadIds
  BY DEF Tokens, LoadIds
<1>2. Worlds' = Worlds /\ Origins' = Origins
  BY <1>1 DEF Worlds, Origins
<1>3. Frames' = Frames /\ Packets' = Packets /\ Gos' = Gos /\ Readies' = Readies
  BY <1>1, <1>2 DEF Frames, Packets, Gos, Readies
<1> QED BY <1>1, <1>2, <1>3 DEF JoinTypes

LEMMA NoWorldTypes == TypeOK => 0 \in Tokens /\ 0 \in LoadIds /\ NoWorld \in Worlds
BY DEF TypeOK, Tokens, LoadIds, NoWorld, Worlds

LEMMA HostTypes == TypeOK => worldToken \in Tokens /\ worldToken \in Nat /\ sendEpoch \in Nat
BY DEF TypeOK, Tokens

LEMMA AdmitTypes == ASSUME TypeOK, NEW j \in Joins, Admit(j) PROVE TypeOK'
<1>1. UNCHANGED <<worldToken, loadIdOut>>
  BY DEF Admit
<1>2. joins' \in [Joins -> JoinTypes]
  <2> DEFINE s == [joins[j] EXCEPT !.ready = TRUE]
  <2>1. joins' = [joins EXCEPT ![j] = s] /\ joins[j] \in JoinTypes
    BY DEF Admit, TypeOK
  <2>2. s \in JoinTypes
    BY <2>1 DEF JoinTypes
  <2> HIDE DEF s
  <2> QED BY <2>1, <2>2 DEF TypeOK
<1>3. peers' \in [Joins -> [ready : BOOLEAN, load : LoadIds, world : Tokens]]
  <2>1. NewPeer \in [ready : BOOLEAN, load : LoadIds, world : Tokens]
    BY NoWorldTypes DEF NewPeer
  <2> QED BY <2>1 DEF Admit, TypeOK
<1> QED BY <1>1, <1>2, <1>3, TypesKept DEF Admit, TypeOK

LEMMA DropTypes == ASSUME TypeOK, NEW j \in Joins, Drop(j) PROVE TypeOK'
<1>1. UNCHANGED <<worldToken, loadIdOut>>
  BY DEF Drop
<1>2. joins' \in [Joins -> JoinTypes]
  <2> DEFINE r == joins[j]
             left == [r EXCEPT !.epoch = r.epoch + 1, !.token = 0, !.latest = 0,
                               !.localReady = FALSE, !.ready = FALSE,
                               !.publications = <<>>, !.pending = <<>>,
                               !.control = NoWorld]
  <2>1. r \in JoinTypes
    BY DEF TypeOK
  <2>2. /\ 0 \in Tokens /\ 0 \in LoadIds /\ NoWorld \in Worlds /\ r.epoch + 1 \in Nat
        /\ <<>> \in Seq(Packets \cup Readies) /\ <<>> \in Seq(Frames) /\ {} \in SUBSET Origins
    BY <2>1, NoWorldTypes DEF JoinTypes
  <2>3. left \in JoinTypes
    BY <2>1, <2>2 DEF JoinTypes
  <2>4. joins' = [joins EXCEPT ![j] = left]
    BY DEF Drop
  <2> QED BY <2>3, <2>4 DEF TypeOK
<1>3. /\ bulk' \in [Joins -> Seq(Gos)] /\ down' \in [Joins -> Seq(Frames)]
      /\ up' \in [Joins -> Seq(Frames \cup Readies)] /\ pending' \in [Joins -> Seq(Frames)]
      /\ inbound' \subseteq Origins /\ link' \subseteq Joins
  BY DEF Drop, TypeOK
<1> QED BY <1>1, <1>2, <1>3, TypesKept DEF Drop, TypeOK

LEMMA TypesGrow ==
    ASSUME TypeOK, worldToken' \in Nat, worldToken <= worldToken',
           loadIdOut' \in Nat, loadIdOut <= loadIdOut'
    PROVE  /\ Tokens \subseteq Tokens' /\ LoadIds \subseteq LoadIds'
           /\ Origins \subseteq Origins' /\ Frames \subseteq Frames'
           /\ Packets \subseteq Packets' /\ Gos \subseteq Gos' /\ Readies \subseteq Readies'
           /\ JoinTypes \subseteq JoinTypes'
<1>1. Tokens \subseteq Tokens' /\ LoadIds \subseteq LoadIds'
  BY DEF Tokens, LoadIds, TypeOK
<1>2. Worlds \subseteq Worlds' /\ Origins \subseteq Origins'
  BY <1>1 DEF Worlds, Origins
<1>3. Frames \subseteq Frames' /\ Packets \subseteq Packets' /\ Gos \subseteq Gos'
      /\ Readies \subseteq Readies'
  BY <1>1, <1>2 DEF Frames, Packets, Gos, Readies
<1>4. JoinTypes \subseteq JoinTypes'
  <2>1. /\ Seq(Packets \cup Readies) \subseteq Seq((Packets \cup Readies)')
        /\ Seq(Frames) \subseteq Seq(Frames') /\ SUBSET Origins \subseteq SUBSET Origins'
    BY <1>2, <1>3, SeqGrows
  <2> QED BY <1>1, <1>2, <2>1 DEF JoinTypes
<1> QED BY <1>1, <1>2, <1>3, <1>4

(* A step of the host's that announces a load.                             *)
LEMMA AnnounceTypes ==
    ASSUME TypeOK, worldToken' \in Nat, worldToken <= worldToken',
           loadIdOut' = loadIdOut + 1, hostWorld' = hostWorld, loading' \in BOOLEAN,
           sendEpoch' \in Nat, publications' = QueueLoadGo(publications, worldToken'),
           UNCHANGED <<peers, pending, inbound, netVars, joins, hasty>>
    PROVE  TypeOK'
<1>1. loadIdOut' \in Nat /\ loadIdOut <= loadIdOut'
  BY DEF TypeOK
<1>2. /\ Tokens \subseteq Tokens' /\ LoadIds \subseteq LoadIds'
      /\ Origins \subseteq Origins' /\ Frames \subseteq Frames'
      /\ Packets \subseteq Packets' /\ Gos \subseteq Gos' /\ Readies \subseteq Readies'
      /\ JoinTypes \subseteq JoinTypes'
  BY <1>1, TypesGrow
<1>3. publications' \in Seq((Packets \cup Gos)')
  <2>1. publications \in Seq((Packets \cup Gos)')
    BY <1>2, SeqGrows DEF TypeOK
  <2>2. [type |-> "GO", id |-> loadIdOut + 1, token |-> worldToken'] \in Gos'
    BY <1>1 DEF Gos, Tokens, LoadIds
  <2> QED BY <2>1, <2>2 DEF QueueLoadGo
<1>4. /\ pending' \in [Joins -> Seq(Frames')] /\ bulk' \in [Joins -> Seq(Gos')]
      /\ down' \in [Joins -> Seq(Frames')] /\ up' \in [Joins -> Seq((Frames \cup Readies)')]
  <2>1. /\ Seq(Frames) \subseteq Seq(Frames') /\ Seq(Gos) \subseteq Seq(Gos')
        /\ Seq(Frames \cup Readies) \subseteq Seq((Frames \cup Readies)')
    BY <1>2, SeqGrows
  <2> QED BY <2>1 DEF TypeOK, netVars
<1>5. peers' \in [Joins -> [ready : BOOLEAN, load : LoadIds', world : Tokens']]
  BY <1>2 DEF TypeOK
<1>6. joins' \in [Joins -> JoinTypes']
  BY <1>2 DEF TypeOK
<1> QED BY <1>1, <1>2, <1>3, <1>4, <1>5, <1>6 DEF TypeOK, netVars

LEMMA HostEdgeTypes ==
    ASSUME TypeOK, HostLoad \/ ConnectPush \/ HostReload \/ HostCapture PROVE TypeOK'
<1>1. CASE HostLoad
  BY <1>1, AnnounceTypes DEF HostLoad, TypeOK
<1>2. CASE ConnectPush
  <2>1. worldToken' = worldToken /\ publications' = QueueLoadGo(publications, worldToken')
    BY <1>2 DEF ConnectPush
  <2>2. /\ UNCHANGED <<hostWorld, loading, sendEpoch, peers, pending, inbound, netVars, joins, hasty>>
        /\ loadIdOut' = loadIdOut + 1
    BY <1>2 DEF ConnectPush
  <2> QED BY <2>1, <2>2, AnnounceTypes DEF TypeOK
<1>3. CASE HostReload
  <2>1. UNCHANGED <<worldToken, loadIdOut>>
    BY <1>3 DEF HostReload
  <2>2. loading' \in BOOLEAN /\ hostWorld' = worldToken /\ sendEpoch' = sendEpoch + 1
        /\ inbound' = {}
    BY <1>3 DEF HostReload
  <2>3. UNCHANGED <<publications, peers, pending, link, bulk, down, up, joins, hasty>>
    BY <1>3 DEF HostReload, netVars
  <2> QED BY <2>1, <2>2, <2>3, HostTypes, TypesKept DEF TypeOK
<1>4. CASE HostCapture
  <2>1. UNCHANGED <<worldToken, loadIdOut>>
    BY <1>4 DEF HostCapture
  <2> DEFINE p == [type |-> "WORLD", epoch |-> sendEpoch,
                   origin |-> [by |-> Host, token |-> hostWorld, id |-> 0]]
  <2>2. p \in Packets
    BY NoWorldTypes DEF TypeOK, Packets, Origins
  <2>3. publications' \in Seq(Packets \cup Gos)
    BY <1>4, <2>2 DEF HostCapture, TypeOK
  <2> QED BY <1>4, <2>1, <2>3, TypesKept DEF HostCapture, TypeOK, netVars
<1> QED BY <1>1, <1>2, <1>3, <1>4

LEMMA StampedTypes ==
    ASSUME TypeOK, NEW p, p.origin \in Origins, NEW token \in Tokens, NEW epoch \in Nat
    PROVE  Stamped(p, token, epoch) \in Frames
BY DEF Stamped, Frames

LEMMA HostPublishTypes == ASSUME TypeOK, HostPublish PROVE TypeOK'
<1>1. UNCHANGED <<worldToken, loadIdOut>>
  BY DEF HostPublish
<1> DEFINE p == Head(publications)
<1>2. p \in Packets \cup Gos /\ publications' \in Seq(Packets \cup Gos)
  BY DEF HostPublish, TypeOK
<1>3. /\ peers' \in [Joins -> [ready : BOOLEAN, load : LoadIds, world : Tokens]]
      /\ bulk' \in [Joins -> Seq(Gos)] /\ pending' \in [Joins -> Seq(Frames)]
  <2>1. CASE p.type = "GO"
    <3>1. p \in Gos /\ p.id \in LoadIds /\ p.token \in Tokens
      BY <1>2, <2>1 DEF Packets, Gos
    <3>2. \A j \in Joins : Expect(peers[j], p) \in [ready : BOOLEAN, load : LoadIds, world : Tokens]
      BY <3>1 DEF Expect, TypeOK
    <3>3. /\ peers' = [j \in Joins |-> IF j \in link THEN Expect(peers[j], p) ELSE peers[j]]
          /\ bulk' = [j \in Joins |-> IF j \in link THEN Append(bulk[j], p) ELSE bulk[j]]
          /\ pending' = pending
      BY <2>1 DEF HostPublish
    <3> HIDE DEF p
    <3>4. bulk' \in [Joins -> Seq(Gos)]
      BY <3>1, <3>3 DEF TypeOK
    <3>5. peers' \in [Joins -> [ready : BOOLEAN, load : LoadIds, world : Tokens]]
      BY <3>2, <3>3 DEF TypeOK
    <3> QED BY <3>3, <3>4, <3>5 DEF TypeOK
  <2>2. CASE p.type = "WORLD"
    <3>1. p.origin \in Origins
      BY <1>2, <2>2 DEF Packets, Gos
    <3>2. Stamped(p, worldToken, sendEpoch) \in Frames
      BY <3>1, HostTypes, StampedTypes
    <3>3. /\ UNCHANGED <<peers, bulk>>
          /\ \/ pending' = pending
             \/ pending' = [j \in Joins |->
                   IF j \in link THEN Append(pending[j], Stamped(p, worldToken, sendEpoch))
                   ELSE pending[j]]
      BY <2>2 DEF HostPublish
    <3> HIDE DEF p
    <3>4. pending' \in [Joins -> Seq(Frames)]
      <4>1. CASE pending' = pending
        BY <4>1 DEF TypeOK
      <4>2. CASE pending' = [j \in Joins |->
                   IF j \in link THEN Append(pending[j], Stamped(p, worldToken, sendEpoch))
                   ELSE pending[j]]
        BY <3>2, <4>2 DEF TypeOK
      <4> QED BY <3>3, <4>1, <4>2
    <3> QED BY <3>3, <3>4 DEF TypeOK
  <2> QED BY <1>2, <2>1, <2>2 DEF Packets, Gos
<1> QED BY <1>1, <1>2, <1>3, TypesKept DEF HostPublish, TypeOK

LEMMA HostStepTypes == ASSUME TypeOK, NEW j \in Joins, HostStep(j) PROVE TypeOK'
<1>1. CASE HostDrain(j)
  <2>1. UNCHANGED <<worldToken, loadIdOut>>
    BY <1>1 DEF HostDrain
  <2>2. Head(pending[j]) \in Frames /\ Tail(pending[j]) \in Seq(Frames)
    BY <1>1 DEF HostDrain, TypeOK
  <2>3. down' \in [Joins -> Seq(Frames)] /\ pending' \in [Joins -> Seq(Frames)]
    <3>1. pending' = [pending EXCEPT ![j] = Tail(pending[j])]
      BY <1>1 DEF HostDrain
    <3>2. \/ down' = [down EXCEPT ![j] = Append(down[j], Head(pending[j]))]
          \/ down' = down
      BY <1>1 DEF HostDrain
    <3>3. Append(down[j], Head(pending[j])) \in Seq(Frames)
      BY <2>2 DEF TypeOK
    <3> QED BY <2>2, <3>1, <3>2, <3>3 DEF TypeOK
  <2> QED BY <1>1, <2>1, <2>3, TypesKept DEF HostDrain, TypeOK
<1>2. CASE HostReceiveFrame(j)
  <2>1. UNCHANGED <<worldToken, loadIdOut>>
    BY <1>2 DEF HostReceiveFrame
  <2> DEFINE f == Head(up[j])
  <2>2. f \in Frames /\ Tail(up[j]) \in Seq(Frames \cup Readies)
    <3>1. f \in Frames \cup Readies /\ f.type = "WORLD"
      BY <1>2 DEF HostReceiveFrame, TypeOK
    <3>2. f \in Frames
      BY <3>1 DEF Readies
    <3> QED BY <1>2, <3>2 DEF HostReceiveFrame, TypeOK
  <2>3. f.origin \in Origins /\ Stamped(f, worldToken, sendEpoch) \in Frames
    <3>1. f.origin \in Origins
      BY <2>2 DEF Frames
    <3> QED BY <3>1, HostTypes, StampedTypes
  <2>4. up' \in [Joins -> Seq(Frames \cup Readies)]
    BY <1>2, <2>2 DEF HostReceiveFrame, TypeOK
  <2>5. inbound' \subseteq Origins /\ pending' \in [Joins -> Seq(Frames)]
    <3>1. \/ UNCHANGED <<inbound, pending>>
          \/ /\ inbound' = inbound \cup {f.origin}
             /\ pending' = [k \in Joins |->
                   IF k \in link \ {j}
                   THEN Append(pending[k], Stamped(f, worldToken, sendEpoch)) ELSE pending[k]]
      BY <1>2 DEF HostReceiveFrame
    <3> HIDE DEF f
    <3>2. \A k \in Joins : Append(pending[k], Stamped(f, worldToken, sendEpoch)) \in Seq(Frames)
      BY <2>3 DEF TypeOK
    <3>3. inbound \subseteq Origins /\ pending \in [Joins -> Seq(Frames)]
      BY DEF TypeOK
    <3>4. inbound' \subseteq Origins
      BY <2>3, <3>1, <3>3
    <3>5. pending' \in [Joins -> Seq(Frames)]
      <4>1. CASE UNCHANGED pending
        BY <3>3, <4>1
      <4>2. CASE pending' = [k \in Joins |->
                   IF k \in link \ {j}
                   THEN Append(pending[k], Stamped(f, worldToken, sendEpoch)) ELSE pending[k]]
        BY <3>2, <3>3, <4>2
      <4> QED BY <3>1, <4>1, <4>2
    <3> QED BY <3>4, <3>5
  <2> QED BY <1>2, <2>1, <2>4, <2>5, TypesKept DEF HostReceiveFrame, TypeOK
<1>3. CASE HostReceiveReady(j)
  <2>1. UNCHANGED <<worldToken, loadIdOut>>
    BY <1>3 DEF HostReceiveReady
  <2>2. up' \in [Joins -> Seq(Frames \cup Readies)]
    BY <1>3 DEF HostReceiveReady, TypeOK
  <2>3. peers' \in [Joins -> [ready : BOOLEAN, load : LoadIds, world : Tokens]]
    BY <1>3 DEF HostReceiveReady, TypeOK
  <2>4. hasty' \subseteq Tokens
    BY <1>3, HostTypes DEF HostReceiveReady, TypeOK
  <2> QED BY <1>3, <2>1, <2>2, <2>3, <2>4, TypesKept DEF HostReceiveReady, TypeOK
<1> QED BY <1>1, <1>2, <1>3 DEF HostStep

(* A step of one join's, which also takes from or adds to its lanes.       *)
LEMMA JoinTypesKept ==
    ASSUME TypeOK, UNCHANGED <<hostVars, hasty, link>>, joins' \in [Joins -> JoinTypes],
           bulk' \in [Joins -> Seq(Gos)], down' \in [Joins -> Seq(Frames)],
           up' \in [Joins -> Seq(Frames \cup Readies)]
    PROVE  TypeOK'
<1>1. UNCHANGED <<worldToken, loadIdOut>>
  BY DEF hostVars
<1> QED BY <1>1, TypesKept DEF TypeOK, hostVars

LEMMA JoinTypesFields ==
    ASSUME NEW r \in JoinTypes
    PROVE  /\ r.world \in Worlds /\ r.token \in Tokens /\ r.latest \in LoadIds
           /\ r.epoch \in Nat /\ r.go \in Worlds /\ r.target \in Worlds
           /\ r.live \in LoadIds /\ r.publications \in Seq(Packets \cup Readies)
           /\ r.pending \in Seq(Frames) /\ r.control \in Worlds /\ r.inbound \in SUBSET Origins
BY DEF JoinTypes

LEMMA JoinReceiveTypes ==
    ASSUME TypeOK, NEW j \in Joins, JoinReceiveGo(j) \/ JoinReceiveFrame(j) PROVE TypeOK'
<1> DEFINE r == joins[j]
<1>1. r \in JoinTypes
  BY DEF TypeOK
<1>2. CASE JoinReceiveGo(j)
  <2> DEFINE p == Head(bulk[j])
             told == [r EXCEPT !.token = p.token, !.latest = p.id, !.epoch = r.epoch + 1,
                               !.localReady = FALSE, !.ready = FALSE, !.inbound = {},
                               !.go = [token |-> p.token, id |-> p.id]]
  <2>1. p \in Gos /\ bulk' \in [Joins -> Seq(Gos)]
    BY <1>2 DEF JoinReceiveGo, TypeOK
  <2>2. /\ p.token \in Tokens /\ p.id \in LoadIds /\ r.epoch + 1 \in Nat
        /\ [token |-> p.token, id |-> p.id] \in Worlds /\ {} \in SUBSET Origins
    BY <1>1, <2>1, JoinTypesFields DEF Gos, Worlds
  <2>3. joins' = [joins EXCEPT ![j] = told]
    BY <1>2 DEF JoinReceiveGo
  <2>4. told \in JoinTypes
    <3> HIDE DEF p
    <3> QED BY <1>1, <2>2 DEF JoinTypes
  <2>5. joins' \in [Joins -> JoinTypes]
    BY <2>3, <2>4 DEF TypeOK
  <2>6. UNCHANGED <<hostVars, hasty, link, down, up>>
    BY <1>2 DEF JoinReceiveGo
  <2> QED BY <2>1, <2>5, <2>6, JoinTypesKept DEF TypeOK
<1>3. CASE JoinReceiveFrame(j)
  <2> DEFINE f == Head(down[j])
  <2>1. f \in Frames /\ down' \in [Joins -> Seq(Frames)]
    BY <1>3 DEF JoinReceiveFrame, TypeOK
  <2>2. r.inbound \cup {f.origin} \in SUBSET Origins
    BY <1>1, <2>1, JoinTypesFields DEF Frames
  <2>3. \/ joins' = joins
        \/ joins' = [joins EXCEPT ![j] = [r EXCEPT !.inbound = r.inbound \cup {f.origin}]]
    BY <1>3 DEF JoinReceiveFrame
  <2>4. [r EXCEPT !.inbound = r.inbound \cup {f.origin}] \in JoinTypes
    BY <1>1, <2>2 DEF JoinTypes
  <2>5. joins' \in [Joins -> JoinTypes]
    BY <2>3, <2>4 DEF TypeOK
  <2>6. UNCHANGED <<hostVars, hasty, link, bulk, up>>
    BY <1>3 DEF JoinReceiveFrame
  <2> QED BY <2>1, <2>5, <2>6, JoinTypesKept DEF TypeOK
<1> QED BY <1>2, <1>3

LEMMA JoinEngineTypes ==
    ASSUME TypeOK, NEW j \in Joins, JoinFollow(j) \/ JoinReload(j) \/ JoinWorldReady(j)
    PROVE  TypeOK'
<1> DEFINE r == joins[j]
<1>1. r \in JoinTypes
  BY DEF TypeOK
<1>2. UNCHANGED <<hostVars, hasty, link, bulk, down, up>>
  BY DEF JoinFollow, JoinReload, JoinWorldReady, netVars
<1>3. ASSUME NEW s \in JoinTypes, joins' = [joins EXCEPT ![j] = s] PROVE TypeOK'
  <2>1. joins' \in [Joins -> JoinTypes]
    BY <1>3 DEF TypeOK
  <2> QED BY <1>2, <2>1, JoinTypesKept DEF TypeOK
<1>4. CASE JoinFollow(j)
  <2>1. [r EXCEPT !.target = r.go, !.go = NoWorld, !.live = 0] \in JoinTypes
    BY <1>1, NoWorldTypes DEF JoinTypes
  <2> QED BY <1>3, <1>4, <2>1 DEF JoinFollow
<1>5. CASE JoinReload(j)
  <2>1. r.target \in Worlds /\ r.target.id \in LoadIds /\ r.epoch + 1 \in Nat
        /\ {} \in SUBSET Origins /\ NoWorld \in Worlds
    BY <1>1, NoWorldTypes, JoinTypesFields DEF Worlds
  <2>2. [r EXCEPT !.world = r.target, !.target = NoWorld, !.live = r.target.id,
                  !.epoch = r.epoch + 1, !.localReady = FALSE, !.inbound = {}] \in JoinTypes
    BY <1>1, <2>1 DEF JoinTypes
  <2> QED BY <1>3, <1>5, <2>2 DEF JoinReload
<1>6. CASE JoinWorldReady(j)
  <2> DEFINE ready == [type |-> "READY", id |-> r.latest, token |-> r.token]
  <2>1. Append(r.publications, ready) \in Seq(Packets \cup Readies)
    <3>1. ready \in Readies
      BY <1>1, JoinTypesFields DEF Readies
    <3> QED BY <1>1, <3>1, JoinTypesFields
  <2>2. /\ [r EXCEPT !.live = 0, !.localReady = TRUE,
                     !.publications = Append(r.publications, ready)] \in JoinTypes
        /\ [r EXCEPT !.live = 0] \in JoinTypes
    <3> HIDE DEF ready
    <3> QED BY <1>1, <2>1, NoWorldTypes DEF JoinTypes
  <2>3. \/ joins' = [joins EXCEPT ![j] = [r EXCEPT !.live = 0, !.localReady = TRUE,
                     !.publications = Append(r.publications, ready)]]
        \/ joins' = [joins EXCEPT ![j] = [r EXCEPT !.live = 0]]
    BY <1>6 DEF JoinWorldReady
  <2> QED BY <1>3, <2>2, <2>3
<1> QED BY <1>4, <1>5, <1>6

LEMMA JoinSendTypes ==
    ASSUME TypeOK, NEW j \in Joins,
           JoinCapture(j) \/ JoinPublish(j) \/ JoinDrainReady(j) \/ JoinDrain(j)
    PROVE  TypeOK'
<1> DEFINE r == joins[j]
<1>1. r \in JoinTypes
  BY DEF TypeOK
<1>2. UNCHANGED <<hostVars, hasty, link, bulk, down>>
  BY DEF JoinCapture, JoinPublish, JoinDrainReady, JoinDrain, netVars
<1>3. ASSUME NEW s \in JoinTypes, joins' = [joins EXCEPT ![j] = s],
             up' \in [Joins -> Seq(Frames \cup Readies)]
      PROVE  TypeOK'
  <2>1. joins' \in [Joins -> JoinTypes]
    BY <1>3 DEF TypeOK
  <2> QED BY <1>2, <1>3, <2>1, JoinTypesKept DEF TypeOK
<1>4. CASE JoinCapture(j)
  <2> DEFINE p == [type |-> "WORLD", epoch |-> r.epoch,
                   origin |-> [by |-> j, token |-> r.world.token, id |-> r.world.id]]
  <2>1. Append(r.publications, p) \in Seq(Packets \cup Readies)
    <3>1. r.world.token \in Tokens /\ r.world.id \in LoadIds /\ r.epoch \in Nat
      BY <1>1, JoinTypesFields DEF Worlds
    <3>2. p \in Packets
      BY <3>1 DEF Packets, Origins
    <3> QED BY <1>1, <3>2, JoinTypesFields
  <2>2. [r EXCEPT !.publications = Append(r.publications, p)] \in JoinTypes
    <3> HIDE DEF p
    <3> QED BY <1>1, <2>1 DEF JoinTypes
  <2>3. joins' = [joins EXCEPT ![j] = [r EXCEPT !.publications = Append(r.publications, p)]]
    BY <1>4 DEF JoinCapture
  <2>4. up' = up
    BY <1>4 DEF JoinCapture, netVars
  <2> QED BY <1>3, <2>2, <2>3, <2>4 DEF TypeOK
<1>5. CASE JoinPublish(j)
  <2> DEFINE p == Head(r.publications)
             taken == [r EXCEPT !.publications = Tail(r.publications)]
  <2>1. r.publications # <<>> /\ up' = up
    BY <1>5 DEF JoinPublish, netVars
  <2>2. p \in Packets \cup Readies /\ Tail(r.publications) \in Seq(Packets \cup Readies)
    BY <1>1, <2>1, JoinTypesFields, SetOfTail, SeqElement
  <2>3. taken \in JoinTypes /\ taken.pending = r.pending
    BY <1>1, <2>2 DEF JoinTypes
  <2>4. CASE p.type = "READY" /\ CurrentReady(r, p)
    <3>1. [token |-> p.token, id |-> p.id] \in Worlds
      BY <2>2, <2>4 DEF Packets, Readies, Worlds
    <3>2. [taken EXCEPT !.control = [token |-> p.token, id |-> p.id]] \in JoinTypes
      <4> HIDE DEF p, taken
      <4> QED BY <2>3, <3>1 DEF JoinTypes
    <3>3. joins' = [joins EXCEPT ![j] = [taken EXCEPT !.control = [token |-> p.token, id |-> p.id]]]
      BY <1>5, <2>4 DEF JoinPublish
    <3> QED BY <1>3, <2>1, <3>2, <3>3 DEF TypeOK
  <2>5. CASE p.type = "WORLD" /\ p.epoch = r.epoch /\ r.token # 0
    <3>1. p.origin \in Origins
      BY <2>2, <2>5 DEF Packets, Readies
    <3>2. Append(r.pending, Stamped(p, r.token, r.epoch)) \in Seq(Frames)
      BY <1>1, <3>1, JoinTypesFields, StampedTypes
    <3>3. [taken EXCEPT !.pending = Append(r.pending, Stamped(p, r.token, r.epoch))] \in JoinTypes
      <4> HIDE DEF p, taken
      <4> QED BY <2>3, <3>2 DEF JoinTypes
    <3>4. joins' = [joins EXCEPT ![j] =
             [taken EXCEPT !.pending = Append(r.pending, Stamped(p, r.token, r.epoch))]]
      BY <1>5, <2>3, <2>5 DEF JoinPublish
    <3> QED BY <1>3, <2>1, <3>3, <3>4 DEF TypeOK
  <2>6. CASE /\ ~(p.type = "READY" /\ CurrentReady(r, p))
             /\ ~(p.type = "WORLD" /\ p.epoch = r.epoch /\ r.token # 0)
    <3>1. joins' = [joins EXCEPT ![j] = taken]
      BY <1>5, <2>6 DEF JoinPublish
    <3> QED BY <1>3, <2>1, <2>3, <3>1 DEF TypeOK
  <2> QED BY <2>4, <2>5, <2>6
<1>6. CASE JoinDrainReady(j)
  <2>1. /\ [r EXCEPT !.control = NoWorld, !.ready = TRUE] \in JoinTypes
        /\ [r EXCEPT !.control = NoWorld] \in JoinTypes
    BY <1>1, NoWorldTypes DEF JoinTypes
  <2>2. [type |-> "READY", id |-> r.control.id, token |-> r.control.token] \in Readies
    BY <1>1, JoinTypesFields DEF Worlds, Readies
  <2>3. up' \in [Joins -> Seq(Frames \cup Readies)]
    <3> DEFINE m == [type |-> "READY", id |-> r.control.id, token |-> r.control.token]
    <3>1. up' = [up EXCEPT ![j] = Append(up[j], m)] \/ up' = up
      BY <1>6 DEF JoinDrainReady
    <3>2. Append(up[j], m) \in Seq(Frames \cup Readies)
      BY <2>2 DEF TypeOK
    <3> HIDE DEF m
    <3> QED BY <3>1, <3>2 DEF TypeOK
  <2>4. \/ joins' = [joins EXCEPT ![j] = [r EXCEPT !.control = NoWorld, !.ready = TRUE]]
        \/ joins' = [joins EXCEPT ![j] = [r EXCEPT !.control = NoWorld]]
    BY <1>6 DEF JoinDrainReady, TypeOK
  <2> QED BY <1>3, <2>1, <2>3, <2>4
<1>7. CASE JoinDrain(j)
  <2>1. r.pending # <<>>
    BY <1>7 DEF JoinDrain
  <2>2. Head(r.pending) \in Frames /\ Tail(r.pending) \in Seq(Frames)
    BY <1>1, <2>1, JoinTypesFields, SetOfTail, SeqElement
  <2>3. [r EXCEPT !.pending = Tail(r.pending)] \in JoinTypes
    BY <1>1, <2>2 DEF JoinTypes
  <2>4. joins' = [joins EXCEPT ![j] = [r EXCEPT !.pending = Tail(r.pending)]]
    BY <1>7 DEF JoinDrain
  <2>5. up' \in [Joins -> Seq(Frames \cup Readies)]
    <3>1. up' = [up EXCEPT ![j] = Append(up[j], Head(r.pending))] \/ up' = up
      BY <1>7 DEF JoinDrain
    <3>2. Append(up[j], Head(r.pending)) \in Seq(Frames \cup Readies)
      BY <2>2 DEF TypeOK
    <3> QED BY <3>1, <3>2 DEF TypeOK
  <2> QED BY <1>3, <2>3, <2>4, <2>5
<1> QED BY <1>4, <1>5, <1>6, <1>7

(* No token, load id, epoch or queue of the NetLinks leaves its type: load *)
(* ids and tokens in flight never exceed the ones the host has handed out. *)
THEOREM FenceTypeCorrect == Spec => []TypeOK
<1>1. Init => TypeOK
  <2> SUFFICES ASSUME Init PROVE TypeOK
    OBVIOUS
  <2>1. worldToken = 1 /\ loadIdOut = 0 /\ 0 \in Tokens /\ 1 \in Tokens /\ 0 \in LoadIds
    BY DEF Init, Tokens, LoadIds
  <2>2. NoWorld \in Worlds
    BY <2>1 DEF NoWorld, Worlds
  <2>3. NewJoin \in JoinTypes
    BY <2>1, <2>2 DEF NewJoin, JoinTypes
  <2>4. NewPeer \in [ready : BOOLEAN, load : LoadIds, world : Tokens]
    BY <2>1 DEF NewPeer
  <2>5. /\ publications \in Seq(Packets \cup Gos) /\ pending \in [Joins -> Seq(Frames)]
        /\ bulk \in [Joins -> Seq(Gos)] /\ down \in [Joins -> Seq(Frames)]
        /\ up \in [Joins -> Seq(Frames \cup Readies)]
    BY DEF Init
  <2>6. /\ joins \in [Joins -> JoinTypes]
        /\ peers \in [Joins -> [ready : BOOLEAN, load : LoadIds, world : Tokens]]
    BY <2>3, <2>4 DEF Init
  <2>7. /\ hostWorld = 1 /\ sendEpoch = 0 /\ inbound = {} /\ link = {}
        /\ loading = FALSE
    BY DEF Init
  <2>8. /\ {hostWorld, worldToken} \subseteq Nat /\ sendEpoch \in Nat /\ loadIdOut \in Nat
        /\ hostWorld \in Tokens
    BY <2>1, <2>7
  <2>9. /\ loading \in BOOLEAN /\ inbound \subseteq Origins /\ link \subseteq Joins
        /\ hasty \subseteq Tokens
    BY <2>7 DEF Init
  <2> QED BY <2>5, <2>6, <2>8, <2>9 DEF TypeOK
<1>2. TypeOK /\ [Next]_vars => TypeOK'
  <2> SUFFICES ASSUME TypeOK, [Next]_vars PROVE TypeOK'
    OBVIOUS
  <2>1. CASE UNCHANGED vars
    <3>1. UNCHANGED <<hostVars, hasty, netVars, joins, worldToken, loadIdOut>>
      BY <2>1 DEF vars, hostVars
    <3> QED BY <3>1, TypesKept DEF TypeOK, hostVars, netVars
  <2>2. CASE Next
    BY <2>2, AdmitTypes, DropTypes, HostEdgeTypes, HostPublishTypes, HostStepTypes,
       JoinReceiveTypes, JoinEngineTypes, JoinSendTypes DEF Next, JoinStep
  <2> QED BY <2>1, <2>2
<1> QED BY <1>1, <1>2, PTL DEF Spec

-----------------------------------------------------------------------------
LEMMA IncreasingTail ==
    ASSUME NEW S, NEW s \in Seq(S), s # <<>>, Increasing(s)
    PROVE  /\ Increasing(Tail(s))
           /\ Head(s).type = "GO" => \A q \in ToSet(Tail(s)) : q.type = "GO" => Head(s).id < q.id
<1>1. Len(Tail(s)) = Len(s) - 1 /\ \A i \in 1 .. Len(s) - 1 : Tail(s)[i] = s[i + 1]
  OBVIOUS
<1>2. Increasing(Tail(s))
  <2> SUFFICES ASSUME NEW m \in 1 .. Len(Tail(s)), NEW n \in 1 .. Len(Tail(s)), m < n,
                      Tail(s)[m].type = "GO", Tail(s)[n].type = "GO"
               PROVE  Tail(s)[m].id < Tail(s)[n].id
    BY DEF Increasing
  <2>1. /\ m + 1 \in 1 .. Len(s) /\ n + 1 \in 1 .. Len(s) /\ m + 1 < n + 1
        /\ Tail(s)[m] = s[m + 1] /\ Tail(s)[n] = s[n + 1]
    BY <1>1
  <2> QED BY <2>1 DEF Increasing
<1>3. ASSUME Head(s).type = "GO", NEW q \in ToSet(Tail(s)), q.type = "GO"
      PROVE  Head(s).id < q.id
  <2>1. PICK i \in 1 .. Len(s) - 1 : q = s[i + 1]
    BY <1>1 DEF ToSet
  <2>2. Head(s) = s[1] /\ 1 \in 1 .. Len(s) /\ i + 1 \in 1 .. Len(s) /\ 1 < i + 1
    BY <2>1
  <2> QED BY <1>3, <2>1, <2>2 DEF Increasing
<1> QED BY <1>2, <1>3

LEMMA IncreasingAppend ==
    ASSUME NEW S, NEW s \in Seq(S), NEW e \in S, Increasing(s),
           e.type = "GO" => \A q \in ToSet(s) : q.type = "GO" => q.id < e.id
    PROVE  Increasing(Append(s, e))
<1>1. /\ Len(Append(s, e)) = Len(s) + 1 /\ Append(s, e)[Len(s) + 1] = e
      /\ \A i \in 1 .. Len(s) : Append(s, e)[i] = s[i] /\ s[i] \in ToSet(s)
  BY DEF ToSet
<1> SUFFICES ASSUME NEW m \in 1 .. Len(Append(s, e)), NEW n \in 1 .. Len(Append(s, e)), m < n,
                    Append(s, e)[m].type = "GO", Append(s, e)[n].type = "GO"
             PROVE  Append(s, e)[m].id < Append(s, e)[n].id
  BY DEF Increasing
<1>2. m \in 1 .. Len(s) /\ (n \in 1 .. Len(s) \/ n = Len(s) + 1)
  BY <1>1
<1>3. CASE n \in 1 .. Len(s)
  BY <1>1, <1>2, <1>3 DEF Increasing
<1>4. CASE n = Len(s) + 1
  BY <1>1, <1>2, <1>4
<1> QED BY <1>2, <1>3, <1>4

LEMMA IncreasingEmpty == Increasing(<<>>)
BY DEF Increasing

(* What the types say of ids, tokens and epochs in queues.                 *)
LEMMA HostBounds ==
    ASSUME TypeOK
    PROVE  /\ worldToken \in Nat /\ loadIdOut \in Nat /\ sendEpoch \in Nat /\ hostWorld \in Nat
           /\ publications \in Seq(Packets \cup Gos)
           /\ \A p \in ToSet(publications) :
                 \/ p.type = "WORLD" /\ p.epoch \in Nat
                 \/ p.type = "GO" /\ p.id \in 0 .. loadIdOut /\ p.token \in 0 .. worldToken
<1>1. \A p \in ToSet(publications) : p \in Packets \cup Gos
  BY SeqElement DEF TypeOK
<1> QED BY <1>1 DEF TypeOK, Packets, Gos, LoadIds, Tokens

LEMMA LaneBounds ==
    ASSUME TypeOK, NEW j \in Joins
    PROVE  /\ peers[j].world \in 0 .. worldToken /\ peers[j].load \in 0 .. loadIdOut
           /\ bulk[j] \in Seq(Gos) /\ pending[j] \in Seq(Frames)
           /\ down[j] \in Seq(Frames) /\ up[j] \in Seq(Frames \cup Readies)
           /\ \A p \in ToSet(bulk[j]) :
                 p.type = "GO" /\ p.id \in 0 .. loadIdOut /\ p.token \in 0 .. worldToken
           /\ \A f \in ToSet(pending[j]) : f.epoch \in Nat
           /\ \A p \in ToSet(up[j]) :
                 p.type = "READY" => p.token \in 0 .. worldToken /\ p.id \in 0 .. loadIdOut
<1>1. /\ bulk[j] \in Seq(Gos) /\ pending[j] \in Seq(Frames)
      /\ down[j] \in Seq(Frames) /\ up[j] \in Seq(Frames \cup Readies)
  BY DEF TypeOK
<1>2. /\ \A p \in ToSet(bulk[j]) : p \in Gos
      /\ \A f \in ToSet(pending[j]) : f \in Frames
      /\ \A p \in ToSet(up[j]) : p \in Frames \cup Readies
  BY <1>1, SeqElement
<1>3. peers[j].world \in 0 .. worldToken /\ peers[j].load \in 0 .. loadIdOut
  BY DEF TypeOK, Tokens, LoadIds
<1> QED BY <1>1, <1>2, <1>3 DEF Gos, Frames, Readies, Tokens, LoadIds

LEMMA JoinBounds ==
    ASSUME NEW r \in JoinTypes, TypeOK
    PROVE  /\ r.token \in 0 .. worldToken /\ r.control.token \in 0 .. worldToken
           /\ r.live \in 0 .. loadIdOut /\ r.epoch \in Nat
           /\ \A id \in Known(r) : id \in 0 .. loadIdOut
           /\ r.publications \in Seq(Packets \cup Readies) /\ r.pending \in Seq(Frames)
           /\ \A p \in ToSet(r.publications) :
                 \/ p.type = "WORLD" /\ p.epoch \in Nat
                 \/ p.type = "READY" /\ p.token \in 0 .. worldToken
           /\ \A f \in ToSet(r.pending) : f.epoch \in Nat
<1>1. /\ \A p \in ToSet(r.publications) : p \in Packets \cup Readies
      /\ \A f \in ToSet(r.pending) : f \in Frames
  BY JoinTypesFields, SeqElement
<1>2. \A id \in Known(r) : id \in 0 .. loadIdOut
  BY JoinTypesFields DEF Known, Worlds, LoadIds
<1> QED BY <1>1, <1>2, JoinTypesFields DEF Worlds, Packets, Readies, Frames, Tokens, LoadIds

(* A step that, of what concerns a join, only moves frames, and only frames *)
(* of the world the host runs.                                             *)
LEMMA FrameStep ==
    ASSUME NEW k \in Joins, JoinInv(k), sendEpoch \in Nat,
           joins'[k] = joins[k], peers'[k] = peers[k], bulk'[k] = bulk[k],
           k \in link' <=> k \in link,
           \A f \in ToSet(pending'[k]) :
              f \in ToSet(pending[k]) \/ (f.epoch = sendEpoch /\ Leaving(f.origin)),
           \A f \in ToSet(down'[k]) : f \in ToSet(down[k]) \/ Of(f.world, f.origin),
           ToSet(up'[k]) \subseteq ToSet(up[k]),
           ToSet(publications') \subseteq ToSet(publications), hasty \subseteq hasty',
           UNCHANGED <<hostWorld, loading, worldToken, sendEpoch, loadIdOut>>
    PROVE  JoinInv(k)'
<1>1. QueueFenced(k)' /\ LanesTruthful(k)'
  BY DEF JoinInv, QueueFenced, LanesTruthful, Open, Leaving, Of
<1>2. JoinFenced(joins[k])' /\ LoadIdsNameTokens(joins[k])' /\ UnlinkedIdle(k)'
  BY DEF JoinInv, JoinFenced, LoadIdsNameTokens, UnlinkedIdle, Of
<1>3. LoadIdsGrow(k)'
  BY DEF JoinInv, LoadIdsGrow
<1> QED BY <1>1, <1>2, <1>3 DEF JoinInv

(* A join that a step leaves alone.                                        *)
LEMMA OtherJoin ==
    ASSUME TypeOK, NEW k \in Joins, JoinInv(k), joins'[k] = joins[k], peers'[k] = peers[k],
           pending'[k] = pending[k], bulk'[k] = bulk[k], down'[k] = down[k], up'[k] = up[k],
           k \in link' <=> k \in link,
           UNCHANGED <<hostWorld, loading, worldToken, sendEpoch, loadIdOut, publications,
                       hasty>>
    PROVE  JoinInv(k)'
BY FrameStep, HostBounds

-----------------------------------------------------------------------------
(* The host's steps.                                                       *)
LEMMA AdmitFences == ASSUME TypeOK, FenceInv, NEW j \in Joins, Admit(j) PROVE FenceInv'
<1>1. /\ j \notin link /\ link' = link \cup {j} /\ peers' = [peers EXCEPT ![j] = NewPeer]
      /\ joins' = [joins EXCEPT ![j].ready = TRUE]
      /\ UNCHANGED <<hostWorld, loading, worldToken, sendEpoch, loadIdOut, publications,
                     pending, inbound, bulk, down, up, hasty>>
  BY DEF Admit
<1>2. HostInv'
  BY <1>1 DEF FenceInv, HostInv
<1>3. ASSUME NEW k \in Joins, k # j PROVE JoinInv(k)'
  BY <1>1, <1>3, OtherJoin DEF TypeOK, FenceInv
<1>4. JoinInv(j)'
  <2> DEFINE r == joins[j]
             s == [r EXCEPT !.ready = TRUE]
  <2>1. joins'[j] = s /\ peers'[j] = NewPeer /\ JoinInv(j) /\ r \in JoinTypes
    BY <1>1 DEF TypeOK, FenceInv
  <2>2. /\ s.world = r.world /\ s.token = r.token /\ s.latest = r.latest /\ s.epoch = r.epoch
        /\ s.localReady = r.localReady /\ s.go = r.go /\ s.target = r.target /\ s.live = r.live
        /\ s.publications = r.publications /\ s.pending = r.pending /\ s.control = r.control
        /\ s.inbound = r.inbound
    BY <2>1 DEF JoinTypes
  <2>3. r.token = 0 /\ bulk[j] = <<>> /\ worldToken >= 1 /\ ToSet(bulk[j]) = {}
    BY <1>1, <2>1, SetOfEmpty DEF FenceInv, HostInv, JoinInv, UnlinkedIdle
  <2>4. QueueFenced(j)' /\ LanesTruthful(j)'
    BY <1>1, <2>1 DEF JoinInv, QueueFenced, LanesTruthful, Open, NewPeer, Leaving, Of
  <2>5. JoinFenced(joins[j])' /\ LoadIdsNameTokens(joins[j])' /\ UnlinkedIdle(j)'
    BY <1>1, <2>1, <2>2 DEF JoinInv, JoinFenced, LoadIdsNameTokens, UnlinkedIdle, Of
  <2>6. LoadIdsGrow(j)'
    <3>1. \A p \in ToSet(publications) : p.type = "GO" => 0 < p.id
      BY <2>1, HostBounds, JoinBounds DEF JoinInv, LoadIdsGrow, Known
    <3>2. Known(s) = Known(r)
      BY <2>2 DEF Known
    <3>3. peers'[j].load = 0 /\ LoadIdsGrow(j)
      BY <2>1 DEF JoinInv, NewPeer
    <3>4. Known(joins[j])' = Known(joins[j])
      BY <2>1, <3>2
    <3>5. bulk' = bulk /\ publications' = publications
      BY <1>1
    <3> HIDE DEF r, s
    <3> QED BY <3>1, <3>3, <3>4, <3>5 DEF LoadIdsGrow
  <2> QED BY <2>4, <2>5, <2>6 DEF JoinInv
<1> QED BY <1>2, <1>3, <1>4 DEF FenceInv

LEMMA DropFences == ASSUME TypeOK, FenceInv, NEW j \in Joins, Drop(j) PROVE FenceInv'
<1> DEFINE r == joins[j]
           s == [r EXCEPT !.epoch = r.epoch + 1, !.token = 0, !.latest = 0,
                          !.localReady = FALSE, !.ready = FALSE,
                          !.publications = <<>>, !.pending = <<>>,
                          !.control = NoWorld]
<1>1. /\ link' = link \ {j} /\ pending' = [pending EXCEPT ![j] = <<>>]
      /\ inbound' = {f \in inbound : f.by # j} /\ bulk' = [bulk EXCEPT ![j] = <<>>]
      /\ down' = [down EXCEPT ![j] = <<>>] /\ up' = [up EXCEPT ![j] = <<>>]
      /\ joins' = [joins EXCEPT ![j] = s]
      /\ UNCHANGED <<hostWorld, loading, worldToken, sendEpoch, loadIdOut, publications,
                     peers, hasty>>
  BY DEF Drop
<1>2. HostInv'
  BY <1>1 DEF FenceInv, HostInv
<1>3. ASSUME NEW k \in Joins, k # j PROVE JoinInv(k)'
  BY <1>1, <1>3, OtherJoin DEF TypeOK, FenceInv
<1>4. JoinInv(j)'
  <2>1. joins'[j] = s /\ JoinInv(j) /\ r \in JoinTypes
    BY <1>1 DEF TypeOK, FenceInv
  <2>2. /\ s.world = r.world /\ s.token = 0 /\ s.latest = 0
        /\ s.localReady = FALSE /\ s.go = r.go /\ s.target = r.target /\ s.live = r.live
        /\ s.publications = <<>> /\ s.pending = <<>> /\ s.control = NoWorld
        /\ s.inbound = r.inbound
    BY <2>1 DEF JoinTypes
  <2>3. /\ bulk'[j] = <<>> /\ pending'[j] = <<>> /\ down'[j] = <<>> /\ up'[j] = <<>>
        /\ worldToken >= 1 /\ worldToken \in Nat
    BY <1>1, HostBounds DEF TypeOK, FenceInv, HostInv
  <2>4. QueueFenced(j)' /\ LanesTruthful(j)'
    BY <1>1, <2>1, <2>3, SetOfEmpty DEF JoinInv, QueueFenced, LanesTruthful, Open
  <2>5. JoinFenced(joins[j])' /\ LoadIdsNameTokens(joins[j])' /\ UnlinkedIdle(j)'
    <3>1. \A o \in s.inbound : Of(s.world.token, o)
      BY <2>1, <2>2 DEF JoinInv, JoinFenced
    <3>2. hasty' = hasty /\ s.publications = <<>> /\ s.pending = <<>> /\ ~s.localReady
      BY <1>1, <2>2
    <3>3. LoadIdsNameTokens(joins[j])' /\ UnlinkedIdle(j)'
      BY <1>1, <2>1, <2>2, <2>3 DEF JoinInv, LoadIdsNameTokens, UnlinkedIdle
    <3> HIDE DEF s
    <3>4. JoinFenced(joins[j])'
      BY <2>1, <3>1, <3>2, SetOfEmpty DEF JoinFenced, Of
    <3> QED BY <3>3, <3>4
  <2>6. LoadIdsGrow(j)'
    <3>1. Known(s) = {r.world.id, r.target.id, r.go.id, 0}
      BY <2>2 DEF Known
    <3>2. \A p \in ToSet(publications) : p.type = "GO" => \A id \in Known(s) : id < p.id
      BY <2>1, <3>1, HostBounds, JoinBounds DEF JoinInv, LoadIdsGrow, Known
    <3> QED BY <1>1, <2>1, <2>3, <3>2, SetOfEmpty, IncreasingEmpty DEF JoinInv, LoadIdsGrow
  <2> QED BY <2>4, <2>5, <2>6 DEF JoinInv
<1> QED BY <1>2, <1>3, <1>4 DEF FenceInv

(* A LOAD_GO that the host queues under a new token, or under the one it   *)
(* runs, has a load id nobody has seen.                                    *)
LEMMA AnnounceFences ==
    ASSUME TypeOK, FenceInv, NEW token \in Nat,
           publications' = QueueLoadGo(publications, token),
           UNCHANGED <<peers, bulk, joins, hasty>>
    PROVE  /\ Increasing(publications)' /\ \A k \in Joins : LoadIdsGrow(k)'
           /\ ToSet(publications') = ToSet(publications)
                 \cup {[type |-> "GO", id |-> loadIdOut + 1, token |-> token]}
<1> DEFINE go == [type |-> "GO", id |-> loadIdOut + 1, token |-> token]
           S == Packets \cup Gos \cup {go}
<1>1. publications \in Seq(S) /\ go \in S /\ publications' = Append(publications, go)
  BY HostBounds, SeqGrows DEF QueueLoadGo
<1>2. ToSet(publications') = ToSet(publications) \cup {go}
  BY <1>1, SetOfAppend
<1>3. \A q \in ToSet(publications) : q.type = "GO" => q.id < go.id
  BY HostBounds
<1>4. Increasing(publications)'
  <2> HIDE DEF go, S
  <2>1. Increasing(Append(publications, go))
    BY <1>1, <1>3, IncreasingAppend DEF FenceInv, HostInv
  <2> QED BY <1>1, <2>1
<1>5. ASSUME NEW k \in Joins PROVE LoadIdsGrow(k)'
  <2>1. /\ peers[k].load < go.id /\ \A id \in Known(joins[k]) : id < go.id
        /\ \A q \in ToSet(bulk[k]) : q.id < go.id
    <3>1. joins[k] \in JoinTypes
      BY DEF TypeOK
    <3> QED BY <3>1, HostBounds, LaneBounds, JoinBounds
  <2>2. LoadIdsGrow(k)
    BY DEF FenceInv, JoinInv
  <2> QED BY <1>2, <2>1, <2>2 DEF LoadIdsGrow
<1> QED BY <1>2, <1>4, <1>5

LEMMA HostLoadFences == ASSUME TypeOK, FenceInv, HostLoad PROVE FenceInv'
<1>1. /\ ~loading /\ loading' = TRUE /\ worldToken' = worldToken + 1
      /\ sendEpoch' = sendEpoch + 1 /\ loadIdOut' = loadIdOut + 1
      /\ publications' = QueueLoadGo(publications, worldToken + 1)
      /\ UNCHANGED <<hostWorld, peers, pending, inbound, link, bulk, down, up, joins, hasty>>
  BY DEF HostLoad, netVars
<1> DEFINE go == [type |-> "GO", id |-> loadIdOut + 1, token |-> worldToken + 1]
<1>2. /\ Increasing(publications)' /\ \A k \in Joins : LoadIdsGrow(k)'
      /\ ToSet(publications') = ToSet(publications) \cup {go}
  BY <1>1, HostBounds, AnnounceFences
<1>3. ASSUME NEW k \in Joins PROVE JoinInv(k)'
  <2>1. JoinInv(k) /\ joins[k] \in JoinTypes
    BY DEF FenceInv, TypeOK
  <2>2. QueueFenced(k)' /\ LanesTruthful(k)'
    <3>1. ~Open(k)'
      BY <1>1, HostBounds, LaneBounds DEF Open
    <3>2. \A f \in ToSet(pending[k]) : f.epoch < sendEpoch'
      BY <1>1, <2>1, HostBounds, LaneBounds DEF JoinInv, QueueFenced
    <3>3. QueueFenced(k)'
      BY <1>1, <3>1, <3>2, HostBounds, LaneBounds DEF QueueFenced
    <3> QED BY <1>1, <2>1, <3>3 DEF JoinInv, LanesTruthful, Of
  <2>3. JoinFenced(joins[k])' /\ LoadIdsNameTokens(joins[k])' /\ UnlinkedIdle(k)'
    BY <1>1, <2>1 DEF JoinInv, JoinFenced, LoadIdsNameTokens, UnlinkedIdle, Of
  <2> QED BY <1>2, <2>2, <2>3 DEF JoinInv
<1>4. HostInv'
  <2>1. \A p \in ToSet(publications) : p.type = "WORLD" => p.epoch < sendEpoch'
    BY <1>1, HostBounds DEF FenceInv, HostInv
  <2> QED BY <1>1, <1>2, <2>1, HostBounds DEF FenceInv, HostInv
<1> QED BY <1>3, <1>4 DEF FenceInv

LEMMA HostReloadFences == ASSUME TypeOK, FenceInv, HostReload PROVE FenceInv'
<1>1. /\ ~loading' /\ hostWorld' = worldToken /\ inbound' = {} /\ sendEpoch' = sendEpoch + 1
      /\ UNCHANGED <<publications, worldToken, loadIdOut, peers, pending, link, bulk,
                     down, up, joins, hasty>>
  BY DEF HostReload, netVars
<1>2. HostInv'
  <2>1. \A p \in ToSet(publications) : p.type = "WORLD" => p.epoch < sendEpoch'
    BY <1>1, HostBounds DEF FenceInv, HostInv
  <2> QED BY <1>1, <2>1, HostBounds DEF FenceInv, HostInv
<1>3. ASSUME NEW k \in Joins PROVE JoinInv(k)'
  <2>1. JoinInv(k)
    BY DEF FenceInv
  <2>2. QueueFenced(k)'
    <3>1. \A f \in ToSet(pending[k]) : f.epoch < sendEpoch' /\ f.epoch <= sendEpoch'
      BY <1>1, <2>1, HostBounds, LaneBounds DEF JoinInv, QueueFenced
    <3> QED BY <1>1, <3>1, HostBounds, LaneBounds DEF QueueFenced
  <2>3. /\ LanesTruthful(k)' /\ JoinFenced(joins[k])' /\ LoadIdsNameTokens(joins[k])'
        /\ UnlinkedIdle(k)'
    BY <1>1, <2>1 DEF JoinInv, LanesTruthful, JoinFenced, LoadIdsNameTokens, UnlinkedIdle, Of
  <2>4. LoadIdsGrow(k)'
    BY <1>1, <2>1 DEF JoinInv, LoadIdsGrow
  <2> QED BY <2>2, <2>3, <2>4 DEF JoinInv
<1> QED BY <1>2, <1>3 DEF FenceInv

LEMMA ConnectPushFences == ASSUME TypeOK, FenceInv, ConnectPush PROVE FenceInv'
<1>1. /\ publications' = QueueLoadGo(publications, worldToken)
      /\ UNCHANGED <<hostWorld, loading, worldToken, sendEpoch, peers, pending, inbound,
                     link, bulk, down, up, joins, hasty>>
  BY DEF ConnectPush, netVars
<1> DEFINE go == [type |-> "GO", id |-> loadIdOut + 1, token |-> worldToken]
<1>2. /\ Increasing(publications)' /\ \A k \in Joins : LoadIdsGrow(k)'
      /\ ToSet(publications') = ToSet(publications) \cup {go}
  BY <1>1, HostBounds, AnnounceFences
<1>3. ASSUME NEW k \in Joins PROVE JoinInv(k)'
  <2>1. JoinInv(k)
    BY DEF FenceInv
  <2>2. QueueFenced(k)' /\ LanesTruthful(k)'
    BY <1>1, <2>1 DEF JoinInv, QueueFenced, LanesTruthful, Open, Leaving, Of
  <2>3. JoinFenced(joins[k])' /\ LoadIdsNameTokens(joins[k])' /\ UnlinkedIdle(k)'
    BY <1>1, <2>1 DEF JoinInv, JoinFenced, LoadIdsNameTokens, UnlinkedIdle, Of
  <2> QED BY <1>2, <2>2, <2>3 DEF JoinInv
<1>4. HostInv'
  BY <1>1, <1>2 DEF FenceInv, HostInv
<1> QED BY <1>3, <1>4 DEF FenceInv

LEMMA HostCaptureFences == ASSUME TypeOK, FenceInv, HostCapture PROVE FenceInv'
<1> DEFINE p == [type |-> "WORLD", epoch |-> sendEpoch,
                 origin |-> [by |-> Host, token |-> hostWorld, id |-> 0]]
           S == Packets \cup Gos \cup {p}
<1>1. /\ publications' = Append(publications, p)
      /\ UNCHANGED <<hostWorld, loading, worldToken, sendEpoch, loadIdOut, peers,
                     pending, inbound, link, bulk, down, up, joins, hasty>>
  BY DEF HostCapture, netVars
<1>2. /\ publications \in Seq(S) /\ p \in S /\ p.type = "WORLD" /\ p.epoch = sendEpoch
      /\ p.origin.by = Host /\ p.origin.token = hostWorld
  BY HostBounds, SeqGrows
<1> HIDE DEF p, S
<1>3. ToSet(publications') = ToSet(publications) \cup {p}
  BY <1>1, <1>2, SetOfAppend
<1>4. Increasing(publications)'
  <2>1. Increasing(Append(publications, p))
    BY <1>2, IncreasingAppend DEF FenceInv, HostInv
  <2> QED BY <1>1, <2>1
<1>5. HostInv'
  BY <1>1, <1>2, <1>3, <1>4, HostBounds DEF FenceInv, HostInv
<1>6. ASSUME NEW k \in Joins PROVE JoinInv(k)'
  <2>1. JoinInv(k)
    BY DEF FenceInv
  <2>2. QueueFenced(k)' /\ LanesTruthful(k)'
    BY <1>1, <2>1 DEF JoinInv, QueueFenced, LanesTruthful, Open, Leaving, Of
  <2>3. JoinFenced(joins[k])' /\ LoadIdsNameTokens(joins[k])' /\ UnlinkedIdle(k)'
    BY <1>1, <2>1 DEF JoinInv, JoinFenced, LoadIdsNameTokens, UnlinkedIdle, Of
  <2>4. LoadIdsGrow(k)'
    BY <1>1, <1>2, <1>3, <2>1 DEF JoinInv, LoadIdsGrow
  <2> QED BY <2>2, <2>3, <2>4 DEF JoinInv
<1> QED BY <1>5, <1>6 DEF FenceInv

LEMMA ExpectNotReady ==
    ASSUME NEW peer, NEW p, peer.load # p.id
    PROVE  ~Expect(peer, p).ready /\ Expect(peer, p).load = p.id
BY DEF Expect

(* A LOAD_GO closes the host's side of the gate for every join it is for.  *)
LEMMA PublishGoFences ==
    ASSUME TypeOK, FenceInv, NEW k \in Joins, k \in link, publications # <<>>,
           Head(publications).type = "GO", publications' = Tail(publications),
           peers'[k] = Expect(peers[k], Head(publications)),
           bulk'[k] = Append(bulk[k], Head(publications)),
           UNCHANGED <<hostWorld, loading, worldToken, sendEpoch, loadIdOut, pending,
                       link, down, up, joins, hasty>>
    PROVE  JoinInv(k)'
<1> DEFINE p == Head(publications)
<1>1. /\ JoinInv(k) /\ HostInv /\ LoadIdsGrow(k) /\ joins[k] \in JoinTypes
      /\ p \in ToSet(publications) /\ p.type = "GO"
      /\ ToSet(publications') \subseteq ToSet(publications)
  BY HostBounds, SetOfTail DEF FenceInv, JoinInv, TypeOK
<1>2. /\ p \in Gos /\ p.id \in 0 .. loadIdOut /\ loadIdOut \in Nat
  <2>1. p \in Packets \cup Gos
    BY <1>1, HostBounds, SeqElement
  <2> QED BY <1>1, <2>1, HostBounds DEF Packets
<1>3. /\ peers[k].load < p.id /\ \A id \in Known(joins[k]) : id < p.id
      /\ \A q \in ToSet(bulk[k]) : q.id < p.id
  BY <1>1 DEF LoadIdsGrow
<1>4. ~peers'[k].ready /\ peers'[k].load = p.id
  <2>1. peers[k].load # p.id
    BY <1>2, <1>3, LaneBounds
  <2> QED BY <2>1, ExpectNotReady
<1>5. ToSet(bulk'[k]) = ToSet(bulk[k]) \cup {p}
  BY <1>2, LaneBounds, SetOfAppend
<1>6. Increasing(bulk[k])'
  <2>1. bulk[k] \in Seq(Gos) /\ Increasing(bulk[k])
    BY <1>1, LaneBounds DEF LoadIdsGrow
  <2> HIDE DEF p
  <2>2. Increasing(Append(bulk[k], p))
    BY <1>2, <1>3, <2>1, IncreasingAppend
  <2> QED BY <2>2 DEF p
<1>7. LoadIdsGrow(k)'
  <2>1. \A q \in ToSet(publications') : q.type = "GO" => p.id < q.id
    BY <1>1, HostBounds, IncreasingTail DEF HostInv
  <2> HIDE DEF p
  <2>2. \A q \in ToSet(bulk'[k]) : \A id \in Known(joins[k]) : id < q.id
    BY <1>1, <1>3, <1>5 DEF LoadIdsGrow
  <2>3. \A q \in ToSet(publications') : q.type = "GO" =>
           /\ peers'[k].load < q.id /\ \A id \in Known(joins[k]) : id < q.id
           /\ \A g \in ToSet(bulk'[k]) : g.id < q.id
    BY <1>1, <1>4, <1>5, <2>1 DEF LoadIdsGrow
  <2>4. Known(joins[k])' = Known(joins[k])
    OBVIOUS
  <2> QED BY <1>6, <2>2, <2>3, <2>4 DEF LoadIdsGrow
<1>8. QueueFenced(k)' /\ LanesTruthful(k)'
  BY <1>1, <1>4 DEF JoinInv, QueueFenced, LanesTruthful, Open, Leaving, Of
<1>9. JoinFenced(joins[k])' /\ LoadIdsNameTokens(joins[k])' /\ UnlinkedIdle(k)'
  BY <1>1 DEF JoinInv, JoinFenced, LoadIdsNameTokens, UnlinkedIdle, Of
<1> QED BY <1>7, <1>8, <1>9 DEF JoinInv

LEMMA HostPublishFences == ASSUME TypeOK, FenceInv, HostPublish PROVE FenceInv'
<1> DEFINE p == Head(publications)
           f == Stamped(p, worldToken, sendEpoch)
<1>1. /\ publications # <<>> /\ publications' = Tail(publications)
      /\ UNCHANGED <<hostWorld, loading, worldToken, sendEpoch, loadIdOut, inbound,
                     link, down, up, joins, hasty>>
  BY DEF HostPublish
<1>2. /\ p \in ToSet(publications) /\ ToSet(publications') \subseteq ToSet(publications)
      /\ Increasing(publications)'
  BY <1>1, HostBounds, SetOfTail, IncreasingTail DEF FenceInv, HostInv
<1>3. HostInv'
  BY <1>1, <1>2 DEF FenceInv, HostInv
<1>4. ASSUME NEW k \in Joins PROVE JoinInv(k)'
  <2>1. JoinInv(k) /\ sendEpoch \in Nat
    BY HostBounds DEF FenceInv
  <2>2. CASE /\ p.type = "GO"
             /\ peers' = [j \in Joins |-> IF j \in link THEN Expect(peers[j], p)
                                          ELSE peers[j]]
             /\ bulk' = [j \in Joins |-> IF j \in link THEN Append(bulk[j], p)
                                         ELSE bulk[j]]
             /\ UNCHANGED pending
    <3>1. CASE k \in link
      BY <1>1, <2>2, <3>1, PublishGoFences
    <3>2. CASE k \notin link
      BY <1>1, <1>2, <2>1, <2>2, <3>2, FrameStep
    <3> QED BY <3>1, <3>2
  <2>3. CASE /\ p.type = "WORLD" /\ p.epoch = sendEpoch
             /\ pending' = [j \in Joins |->
                   IF j \in link THEN Append(pending[j], f) ELSE pending[j]]
             /\ UNCHANGED <<peers, bulk>>
    <3>1. Leaving(p.origin)
      BY <1>2, <2>3 DEF FenceInv, HostInv, Leaving
    <3>2. f.epoch = sendEpoch /\ Leaving(f.origin) /\ f \in Frames
      <4>1. p \in Packets
        BY <1>2, <2>3, HostBounds, SeqElement DEF Gos
      <4> QED BY <3>1, <4>1, HostTypes DEF Stamped, Frames, Packets
    <3>3. \A g \in ToSet(pending'[k]) : g \in ToSet(pending[k]) \/ g = f
      <4> HIDE DEF f
      <4> QED BY <2>3, <3>2, LaneBounds, SetOfAppend
    <3> HIDE DEF f
    <3> QED BY <1>1, <1>2, <2>1, <2>3, <3>2, <3>3, FrameStep
  <2>4. CASE /\ p.type = "WORLD" /\ p.epoch # sendEpoch
             /\ UNCHANGED <<peers, bulk, pending>>
    BY <1>1, <1>2, <2>1, <2>4, FrameStep
  <2> QED BY <2>2, <2>3, <2>4 DEF HostPublish
<1> QED BY <1>3, <1>4 DEF FenceInv

LEMMA HostDrainFences == ASSUME TypeOK, FenceInv, NEW j \in Joins, HostDrain(j) PROVE FenceInv'
<1> DEFINE f == Head(pending[j])
<1>1. /\ pending[j] # <<>> /\ pending' = [pending EXCEPT ![j] = Tail(@)]
      /\ \/ /\ Fresh(f, worldToken, sendEpoch) /\ Open(j)
            /\ down' = [down EXCEPT ![j] = Append(@, f)]
         \/ UNCHANGED down
      /\ UNCHANGED <<hostWorld, loading, worldToken, sendEpoch, loadIdOut, publications,
                     peers, inbound, link, bulk, up, joins, hasty>>
  BY DEF HostDrain
<1>2. HostInv'
  BY <1>1 DEF FenceInv, HostInv
<1>3. ASSUME NEW k \in Joins, k # j PROVE JoinInv(k)'
  BY <1>1, <1>3, OtherJoin DEF TypeOK, FenceInv
<1>4. JoinInv(j)'
  <2>1. JoinInv(j) /\ HostInv /\ sendEpoch \in Nat
    BY HostBounds DEF FenceInv
  <2>2. /\ f \in ToSet(pending[j]) /\ f \in Frames
        /\ ToSet(pending'[j]) \subseteq ToSet(pending[j])
    <3>1. f \in ToSet(pending[j]) /\ ToSet(Tail(pending[j])) \subseteq ToSet(pending[j])
      BY <1>1, LaneBounds, SetOfTail
    <3>2. pending'[j] = Tail(pending[j])
      BY <1>1 DEF TypeOK
    <3> QED BY <3>1, <3>2, LaneBounds, SeqElement
  <2> HIDE DEF f
  <2>3. \A g \in ToSet(down'[j]) : g \in ToSet(down[j]) \/ Of(g.world, g.origin)
    <3>1. CASE UNCHANGED down
      BY <3>1
    <3>2. CASE /\ Fresh(f, worldToken, sendEpoch) /\ Open(j)
               /\ down' = [down EXCEPT ![j] = Append(@, f)]
      <4>1. Of(f.world, f.origin)
        BY <2>1, <2>2, <3>2 DEF JoinInv, QueueFenced, Fresh, Leaving, Of
      <4>2. ToSet(down'[j]) = ToSet(down[j]) \cup {f}
        <5>1. down'[j] = Append(down[j], f)
          BY <3>2 DEF TypeOK
        <5> QED BY <5>1, <2>2, LaneBounds, SetOfAppend
      <4> QED BY <4>1, <4>2
    <3> QED BY <1>1, <3>1, <3>2
  <2> QED BY <1>1, <2>1, <2>2, <2>3, FrameStep
<1> QED BY <1>2, <1>3, <1>4 DEF FenceInv

(* The head of a join's lane to the host.                                  *)
LEMMA TakeUp ==
    ASSUME TypeOK, NEW j \in Joins, up[j] # <<>>, up' = [up EXCEPT ![j] = Tail(@)]
    PROVE  /\ Head(up[j]) \in ToSet(up[j]) /\ Head(up[j]) \in Frames \cup Readies
           /\ \A k \in Joins : ToSet(up'[k]) \subseteq ToSet(up[k])
<1>1. Head(up[j]) \in ToSet(up[j]) /\ ToSet(Tail(up[j])) \subseteq ToSet(up[j])
  BY LaneBounds, SetOfTail
<1>2. \A k \in Joins : up'[k] = IF k = j THEN Tail(up[j]) ELSE up[k]
  BY DEF TypeOK
<1> QED BY <1>1, <1>2, LaneBounds, SeqElement

LEMMA HostReceiveFrameFences ==
    ASSUME TypeOK, FenceInv, NEW j \in Joins, HostReceiveFrame(j) PROVE FenceInv'
<1> DEFINE f == Head(up[j])
           g == Stamped(f, worldToken, sendEpoch)
<1>1. /\ up[j] # <<>> /\ f.type = "WORLD" /\ up' = [up EXCEPT ![j] = Tail(@)]
      /\ UNCHANGED <<hostWorld, loading, worldToken, sendEpoch, loadIdOut, publications,
                     peers, link, bulk, down, joins, hasty>>
  BY DEF HostReceiveFrame
<1>2. /\ f \in ToSet(up[j]) /\ f \in Frames
      /\ \A k \in Joins : ToSet(up'[k]) \subseteq ToSet(up[k])
  BY <1>1, TakeUp DEF Readies
<1>3. JoinInv(j) /\ HostInv /\ sendEpoch \in Nat
  BY HostBounds DEF FenceInv
<1>4. CASE /\ Accepts(j, f) /\ inbound' = inbound \cup {f.origin}
           /\ pending' = [k \in Joins |->
                 IF k \in link \ {j} THEN Append(pending[k], g) ELSE pending[k]]
  <2>1. f.origin.token = worldToken /\ (loading => worldToken \in hasty)
    BY <1>1, <1>2, <1>3, <1>4 DEF JoinInv, QueueFenced, LanesTruthful, Accepts
  <2>2. g.epoch = sendEpoch /\ Leaving(g.origin) /\ g \in Frames
    BY <1>2, <2>1, HostTypes DEF Stamped, Frames, Leaving
  <2> HIDE DEF f, g
  <2>3. HostInv'
    BY <1>1, <1>3, <1>4, <2>1 DEF HostInv
  <2>4. ASSUME NEW k \in Joins PROVE JoinInv(k)'
    <3>1. \A q \in ToSet(pending'[k]) : q \in ToSet(pending[k]) \/ q = g
      BY <1>4, <2>2, LaneBounds, SetOfAppend
    <3>2. JoinInv(k)
      BY DEF FenceInv
    <3> QED BY <1>1, <1>2, <1>3, <2>2, <3>1, <3>2, FrameStep
  <2> QED BY <2>3, <2>4 DEF FenceInv
<1>5. CASE UNCHANGED <<inbound, pending>>
  <2>1. HostInv'
    BY <1>1, <1>3, <1>5 DEF HostInv
  <2>2. ASSUME NEW k \in Joins PROVE JoinInv(k)'
    BY <1>1, <1>2, <1>3, <1>5, FrameStep DEF FenceInv
  <2> QED BY <2>1, <2>2 DEF FenceInv
<1> QED BY <1>4, <1>5 DEF HostReceiveFrame

LEMMA HostReceiveReadyFences ==
    ASSUME TypeOK, FenceInv, NEW j \in Joins, HostReceiveReady(j) PROVE FenceInv'
<1> DEFINE p == Head(up[j])
<1>1. /\ up[j] # <<>> /\ p.type = "READY" /\ up' = [up EXCEPT ![j] = Tail(@)]
      /\ peers' = IF IsExpected(j, p) THEN [peers EXCEPT ![j].ready = TRUE] ELSE peers
      /\ UNCHANGED <<hostWorld, loading, worldToken, sendEpoch, loadIdOut, publications,
                     pending, inbound, link, bulk, down, joins>>
      /\ hasty \subseteq hasty' /\ (loading /\ IsExpected(j, p) => worldToken \in hasty')
  BY DEF HostReceiveReady
<1>2. /\ p \in ToSet(up[j]) /\ \A k \in Joins : ToSet(up'[k]) \subseteq ToSet(up[k])
  BY <1>1, TakeUp
<1>3. JoinInv(j) /\ sendEpoch \in Nat
  BY HostBounds DEF FenceInv
<1>4. HostInv'
  BY <1>1 DEF FenceInv, HostInv
<1> HIDE DEF p
<1>5. ASSUME NEW k \in Joins, k # j PROVE JoinInv(k)'
  <2>1. peers'[k] = peers[k] /\ JoinInv(k)
    BY <1>1, <1>5 DEF TypeOK, FenceInv
  <2> QED BY <1>1, <1>2, <1>3, <2>1, FrameStep
<1>6. JoinInv(j)'
  <2>1. CASE IsExpected(j, p)
    <3>1. peers'[j].load = peers[j].load /\ peers'[j].world = peers[j].world
      BY <1>1, <2>1 DEF TypeOK
    <3>2. QueueFenced(j)' /\ LanesTruthful(j)'
      BY <1>1, <1>2, <1>3, <2>1 DEF JoinInv, QueueFenced, LanesTruthful, Leaving, Of
    <3>3. JoinFenced(joins[j])' /\ LoadIdsNameTokens(joins[j])' /\ UnlinkedIdle(j)'
      BY <1>1, <1>3 DEF JoinInv, JoinFenced, LoadIdsNameTokens, UnlinkedIdle, Of
    <3>4. LoadIdsGrow(j)'
      BY <1>1, <1>3, <3>1 DEF JoinInv, LoadIdsGrow
    <3> QED BY <3>2, <3>3, <3>4 DEF JoinInv
  <2>2. CASE ~IsExpected(j, p)
    BY <1>1, <1>2, <1>3, <2>2, FrameStep
  <2> QED BY <2>1, <2>2
<1> QED BY <1>4, <1>5, <1>6 DEF FenceInv

-----------------------------------------------------------------------------
(* The joins' steps.                                                       *)
LEMMA JoinFacts ==
    ASSUME TypeOK, FenceInv, NEW j \in Joins
    PROVE  /\ joins[j] \in JoinTypes /\ HostInv /\ QueueFenced(j) /\ LanesTruthful(j)
           /\ JoinFenced(joins[j]) /\ LoadIdsNameTokens(joins[j])
           /\ LoadIdsGrow(j) /\ UnlinkedIdle(j)
BY DEF TypeOK, FenceInv, JoinInv

(* A join's step disturbs that join's part of the invariant only.          *)
LEMMA JoinPart ==
    ASSUME TypeOK, FenceInv, NEW j \in Joins, NEW s, joins' = [joins EXCEPT ![j] = s],
           UNCHANGED <<hostVars, hasty, link>>,
           \A k \in Joins : k # j => bulk'[k] = bulk[k] /\ down'[k] = down[k] /\ up'[k] = up[k],
           LanesTruthful(j)', JoinFenced(s), LoadIdsNameTokens(s), LoadIdsGrow(j)',
           UnlinkedIdle(j)'
    PROVE  FenceInv'
<1>1. UNCHANGED <<hostWorld, loading, worldToken, sendEpoch, loadIdOut, publications,
                  peers, pending, inbound, link, hasty>>
  BY DEF hostVars
<1>2. HostInv'
  BY <1>1 DEF FenceInv, HostInv
<1>3. ASSUME NEW k \in Joins, k # j PROVE JoinInv(k)'
  <2>1. joins'[k] = joins[k] /\ JoinInv(k)
    BY <1>3 DEF TypeOK, FenceInv
  <2> QED BY <1>1, <1>3, <2>1, OtherJoin
<1>4. JoinInv(j)'
  <2>1. joins'[j] = s
    BY DEF TypeOK
  <2>2. QueueFenced(j)'
    BY <1>1, JoinFacts DEF QueueFenced, Open, Leaving
  <2>3. JoinFenced(joins[j])' /\ LoadIdsNameTokens(joins[j])'
    BY <1>1, <2>1 DEF JoinFenced, LoadIdsNameTokens, Of
  <2> QED BY <2>2, <2>3 DEF JoinInv
<1> QED BY <1>2, <1>3, <1>4 DEF FenceInv

(* No id appears in a join but by a LOAD_GO.                               *)
LEMMA KnownKept ==
    ASSUME TypeOK, FenceInv, NEW j \in Joins, NEW s, joins' = [joins EXCEPT ![j] = s],
           UNCHANGED <<hostVars, bulk>>, Known(s) \subseteq Known(joins[j]) \cup {0}
    PROVE  LoadIdsGrow(j)'
<1>1. Known(joins[j])' = Known(s)
  <2>1. joins'[j] = s
    BY DEF TypeOK
  <2> QED BY <2>1 DEF Known
<1>2. UNCHANGED <<publications, peers, bulk>>
  BY DEF hostVars
<1>3. LoadIdsGrow(j) /\ joins[j] \in JoinTypes /\ joins[j].latest \in Known(joins[j])
  BY JoinFacts DEF Known
<1>4. /\ \A p \in ToSet(bulk[j]) : 0 < p.id
      /\ \A p \in ToSet(publications) : p.type = "GO" => 0 < p.id
  BY <1>3, JoinBounds, LaneBounds, HostBounds DEF LoadIdsGrow
<1> QED BY <1>1, <1>2, <1>3, <1>4 DEF LoadIdsGrow

LEMMA JoinReceiveGoFences ==
    ASSUME TypeOK, FenceInv, NEW j \in Joins, JoinReceiveGo(j) PROVE FenceInv'
<1> DEFINE r == joins[j]
           p == Head(bulk[j])
           s == [r EXCEPT !.token = p.token, !.latest = p.id, !.epoch = r.epoch + 1,
                          !.localReady = FALSE, !.ready = FALSE, !.inbound = {},
                          !.go = [token |-> p.token, id |-> p.id]]
<1>1. /\ bulk[j] # <<>> /\ bulk' = [bulk EXCEPT ![j] = Tail(@)]
      /\ joins' = [joins EXCEPT ![j] = s]
      /\ UNCHANGED <<hostVars, hasty, link, down, up>>
  BY DEF JoinReceiveGo
<1>2. /\ s.token = p.token /\ s.latest = p.id /\ s.epoch = r.epoch + 1
      /\ ~s.localReady /\ s.inbound = {} /\ s.go.token = p.token /\ s.go.id = p.id
      /\ s.world = r.world /\ s.target = r.target /\ s.live = r.live
      /\ s.publications = r.publications /\ s.pending = r.pending /\ s.control = r.control
  <2> HIDE DEF p
  <2> QED BY JoinFacts DEF JoinTypes
<1>3. /\ p \in ToSet(bulk[j]) /\ bulk'[j] = Tail(bulk[j])
      /\ ToSet(bulk'[j]) \subseteq ToSet(bulk[j]) /\ Increasing(bulk'[j])
      /\ \A q \in ToSet(bulk'[j]) : p.id < q.id
  <2>1. bulk'[j] = Tail(bulk[j])
    BY <1>1 DEF TypeOK
  <2>2. Increasing(bulk[j]) /\ bulk[j] \in Seq(Gos)
    BY JoinFacts, LaneBounds DEF LoadIdsGrow
  <2>3. p \in ToSet(bulk[j]) /\ ToSet(Tail(bulk[j])) \subseteq ToSet(bulk[j])
    BY <1>1, <2>2, SetOfTail
  <2>4. p.type = "GO" /\ \A q \in ToSet(Tail(bulk[j])) : q.type = "GO"
    BY <2>3, LaneBounds
  <2> QED BY <1>1, <2>1, <2>2, <2>3, <2>4, IncreasingTail
<1>4. joins'[j] = s /\ \A id \in Known(r) : id < p.id
  BY <1>1, <1>3, JoinFacts DEF TypeOK, LoadIdsGrow
<1> HIDE DEF p, s
<1>5. JoinFenced(s)
  <2>1. /\ \A q \in ToSet(r.publications) : q.type = "WORLD" =>
              q.epoch <= s.epoch /\ q.epoch # s.epoch
        /\ \A f \in ToSet(r.pending) : f.epoch <= s.epoch /\ f.epoch # s.epoch
    BY <1>2, JoinFacts, JoinBounds DEF JoinFenced
  <2> QED BY <1>2, <2>1 DEF JoinFenced
<1>6. LoadIdsNameTokens(s)
  <2>1. r.world.id # p.id /\ r.target.id # p.id
    BY <1>4, JoinFacts, JoinBounds DEF Known
  <2> QED BY <1>2, <2>1, JoinFacts DEF LoadIdsNameTokens
<1>7. LoadIdsGrow(j)'
  <2>1. Known(joins[j])' \subseteq Known(r) \cup {p.id}
    BY <1>2, <1>4 DEF Known
  <2>2. UNCHANGED <<publications, peers>>
    BY <1>1 DEF hostVars
  <2> QED BY <1>3, <2>1, <2>2, JoinFacts DEF LoadIdsGrow
<1>8. LanesTruthful(j)' /\ UnlinkedIdle(j)'
  BY <1>1, JoinFacts DEF LanesTruthful, UnlinkedIdle, Of
<1>9. \A k \in Joins : k # j => bulk'[k] = bulk[k]
  BY <1>1 DEF TypeOK
<1> QED BY <1>1, <1>5, <1>6, <1>7, <1>8, <1>9, JoinPart

(* Steps of a join that touch none of its lanes.                           *)
LEMMA JoinInside ==
    ASSUME TypeOK, FenceInv, NEW j \in Joins, NEW s, joins' = [joins EXCEPT ![j] = s],
           UNCHANGED <<hostVars, hasty, netVars>>,
           JoinFenced(s), LoadIdsNameTokens(s), Known(s) \subseteq Known(joins[j]) \cup {0},
           s.token = joins[j].token
    PROVE  FenceInv'
<1>1. UNCHANGED <<hostVars, hasty, link, bulk, down, up>>
  BY DEF netVars
<1>2. joins'[j] = s
  BY DEF TypeOK
<1>3. LanesTruthful(j)' /\ UnlinkedIdle(j)'
  BY <1>1, <1>2, JoinFacts DEF LanesTruthful, UnlinkedIdle, Of
<1>4. LoadIdsGrow(j)'
  BY <1>1, KnownKept
<1> QED BY <1>1, <1>3, <1>4, JoinPart

LEMMA JoinReceiveFrameFences ==
    ASSUME TypeOK, FenceInv, NEW j \in Joins, JoinReceiveFrame(j) PROVE FenceInv'
<1> DEFINE r == joins[j]
           f == Head(down[j])
           s == [r EXCEPT !.inbound = r.inbound \cup {f.origin}]
<1>1. /\ down[j] # <<>> /\ down' = [down EXCEPT ![j] = Tail(@)]
      /\ \/ f.world = r.token /\ JoinOpen(r) /\ joins' = [joins EXCEPT ![j] = s]
         \/ joins' = [joins EXCEPT ![j] = r]
      /\ UNCHANGED <<hostVars, hasty, link, bulk, up>>
  <2>1. [joins EXCEPT ![j] = r] = joins
    BY DEF TypeOK
  <2> QED BY <2>1 DEF JoinReceiveFrame
<1>2. f \in ToSet(down[j]) /\ ToSet(down'[j]) \subseteq ToSet(down[j])
  <2>1. down'[j] = Tail(down[j])
    BY <1>1 DEF TypeOK
  <2> QED BY <1>1, <2>1, LaneBounds, SetOfTail
<1>3. /\ s.world = r.world /\ s.token = r.token /\ s.latest = r.latest /\ s.epoch = r.epoch
      /\ s.localReady = r.localReady /\ s.go = r.go /\ s.target = r.target /\ s.live = r.live
      /\ s.publications = r.publications /\ s.pending = r.pending /\ s.control = r.control
      /\ s.inbound = r.inbound \cup {f.origin}
  <2> HIDE DEF f
  <2> QED BY JoinFacts DEF JoinTypes
<1>4. \A k \in Joins : k # j => down'[k] = down[k]
  BY <1>1 DEF TypeOK
<1> HIDE DEF f, s
<1>5. ASSUME NEW t, t = r \/ (t = s /\ f.world = r.token /\ JoinOpen(r)),
             joins' = [joins EXCEPT ![j] = t]
      PROVE  FenceInv'
  <2>1. /\ t.world = r.world /\ t.token = r.token /\ t.latest = r.latest /\ t.epoch = r.epoch
        /\ t.localReady = r.localReady /\ t.go = r.go /\ t.target = r.target
        /\ t.live = r.live /\ t.publications = r.publications /\ t.pending = r.pending
        /\ t.control = r.control
    BY <1>3, <1>5
  <2>2. \A o \in t.inbound : Of(r.world.token, o)
    BY <1>2, <1>3, <1>5, JoinFacts DEF LanesTruthful, JoinFenced, JoinOpen
  <2>3. JoinFenced(t) /\ LoadIdsNameTokens(t) /\ Known(t) = Known(r)
    BY <2>1, <2>2, JoinFacts DEF JoinFenced, LoadIdsNameTokens, Known
  <2>4. joins'[j] = t
    BY <1>5 DEF TypeOK
  <2>5. LoadIdsGrow(j)'
    BY <1>1, <1>5, <2>3, KnownKept
  <2>6. LanesTruthful(j)' /\ UnlinkedIdle(j)'
    BY <1>1, <1>2, <2>1, <2>4, JoinFacts DEF LanesTruthful, UnlinkedIdle, Of
  <2> QED BY <1>1, <1>4, <1>5, <2>3, <2>5, <2>6, JoinPart
<1> QED BY <1>1, <1>5

LEMMA JoinFollowFences ==
    ASSUME TypeOK, FenceInv, NEW j \in Joins, JoinFollow(j) PROVE FenceInv'
<1> DEFINE r == joins[j]
           s == [r EXCEPT !.target = r.go, !.go = NoWorld, !.live = 0]
<1>1. joins' = [joins EXCEPT ![j] = s] /\ UNCHANGED <<hostVars, hasty, netVars>>
  BY DEF JoinFollow
<1>2. /\ s.world = r.world /\ s.token = r.token /\ s.latest = r.latest /\ s.epoch = r.epoch
      /\ s.localReady = r.localReady /\ s.go = NoWorld /\ s.target = r.go /\ s.live = 0
      /\ s.publications = r.publications /\ s.pending = r.pending /\ s.control = r.control
      /\ s.inbound = r.inbound
  BY JoinFacts DEF JoinTypes
<1> HIDE DEF s
<1>3. JoinFenced(s)
  BY <1>2, JoinFacts DEF JoinFenced
<1>4. LoadIdsNameTokens(s) /\ Known(s) \subseteq Known(r) \cup {0}
  BY <1>2, JoinFacts DEF LoadIdsNameTokens, Known, NoWorld
<1> QED BY <1>1, <1>2, <1>3, <1>4, JoinInside

LEMMA JoinReloadFences ==
    ASSUME TypeOK, FenceInv, NEW j \in Joins, JoinReload(j) PROVE FenceInv'
<1> DEFINE r == joins[j]
           s == [r EXCEPT !.world = r.target, !.target = NoWorld, !.live = r.target.id,
                          !.epoch = r.epoch + 1, !.localReady = FALSE, !.inbound = {}]
<1>1. joins' = [joins EXCEPT ![j] = s] /\ UNCHANGED <<hostVars, hasty, netVars>>
  BY DEF JoinReload
<1>2. /\ s.world = r.target /\ s.token = r.token /\ s.latest = r.latest
      /\ s.epoch = r.epoch + 1 /\ ~s.localReady /\ s.go = r.go /\ s.target = NoWorld
      /\ s.live = r.target.id /\ s.publications = r.publications /\ s.pending = r.pending
      /\ s.control = r.control /\ s.inbound = {}
  BY JoinFacts DEF JoinTypes
<1> HIDE DEF s
<1>3. JoinFenced(s)
  <2>1. /\ \A q \in ToSet(r.publications) : q.type = "WORLD" =>
              q.epoch <= s.epoch /\ q.epoch # s.epoch
        /\ \A f \in ToSet(r.pending) : f.epoch <= s.epoch /\ f.epoch # s.epoch
    BY <1>2, JoinFacts, JoinBounds DEF JoinFenced
  <2> QED BY <1>2, <2>1 DEF JoinFenced
<1>4. LoadIdsNameTokens(s) /\ Known(s) \subseteq Known(r) \cup {0}
  BY <1>2, JoinFacts DEF LoadIdsNameTokens, Known, NoWorld
<1> QED BY <1>1, <1>2, <1>3, <1>4, JoinInside

LEMMA JoinWorldReadyFences ==
    ASSUME TypeOK, FenceInv, NEW j \in Joins, JoinWorldReady(j) PROVE FenceInv'
<1> DEFINE r == joins[j]
           ready == [type |-> "READY", id |-> r.latest, token |-> r.token]
           s == [r EXCEPT !.live = 0, !.localReady = TRUE,
                          !.publications = Append(r.publications, ready)]
           t == [r EXCEPT !.live = 0]
<1>1. /\ r.live # 0
      /\ \/ r.live = r.latest /\ joins' = [joins EXCEPT ![j] = s]
         \/ joins' = [joins EXCEPT ![j] = t]
      /\ UNCHANGED <<hostVars, hasty, netVars>>
  BY DEF JoinWorldReady
<1>2. ready \in Readies /\ ToSet(Append(r.publications, ready)) = ToSet(r.publications) \cup {ready}
  <2>1. ready \in Readies
    BY JoinFacts, JoinTypesFields DEF Readies
  <2> HIDE DEF ready
  <2> QED BY <2>1, JoinFacts, JoinTypesFields, SetOfAppend
<1>3. /\ s.world = r.world /\ s.token = r.token /\ s.latest = r.latest /\ s.epoch = r.epoch
      /\ s.go = r.go /\ s.target = r.target /\ s.live = 0
      /\ s.publications = Append(r.publications, ready)
      /\ s.pending = r.pending /\ s.control = r.control /\ s.inbound = r.inbound
  BY JoinFacts DEF JoinTypes
<1>4. /\ t.world = r.world /\ t.token = r.token /\ t.latest = r.latest /\ t.epoch = r.epoch
      /\ t.localReady = r.localReady /\ t.go = r.go /\ t.target = r.target /\ t.live = 0
      /\ t.publications = r.publications /\ t.pending = r.pending /\ t.control = r.control
      /\ t.inbound = r.inbound
  BY JoinFacts DEF JoinTypes
<1> HIDE DEF s, t
<1>5. CASE r.live = r.latest /\ joins' = [joins EXCEPT ![j] = s]
  <2>1. r.world.token = r.token
    BY <1>1, <1>5, JoinFacts DEF LoadIdsNameTokens
  <2>2. ready.type = "READY"
    OBVIOUS
  <2> HIDE DEF ready
  <2>3. JoinFenced(s)
    BY <1>2, <1>3, <2>1, <2>2, JoinFacts DEF JoinFenced
  <2>4. LoadIdsNameTokens(s) /\ Known(s) = Known(r)
    BY <1>3, JoinFacts DEF LoadIdsNameTokens, Known
  <2> QED BY <1>1, <1>3, <1>5, <2>3, <2>4, JoinInside
<1>6. CASE joins' = [joins EXCEPT ![j] = t]
  <2>1. JoinFenced(t)
    BY <1>4, JoinFacts DEF JoinFenced
  <2>2. LoadIdsNameTokens(t) /\ Known(t) = Known(r)
    BY <1>4, JoinFacts DEF LoadIdsNameTokens, Known
  <2> QED BY <1>1, <1>4, <1>6, <2>1, <2>2, JoinInside
<1> QED BY <1>1, <1>5, <1>6

LEMMA JoinCaptureFences ==
    ASSUME TypeOK, FenceInv, NEW j \in Joins, JoinCapture(j) PROVE FenceInv'
<1> DEFINE r == joins[j]
           p == [type |-> "WORLD", epoch |-> r.epoch,
                 origin |-> [by |-> j, token |-> r.world.token, id |-> r.world.id]]
           s == [r EXCEPT !.publications = Append(r.publications, p)]
<1>1. joins' = [joins EXCEPT ![j] = s] /\ UNCHANGED <<hostVars, hasty, netVars>>
  BY DEF JoinCapture
<1>2. ToSet(Append(r.publications, p)) = ToSet(r.publications) \cup {p}
  <2>1. p \in Packets
    <3>1. r.world.token \in Tokens /\ r.world.id \in LoadIds /\ r.epoch \in Nat
      BY JoinFacts, JoinTypesFields DEF Worlds
    <3> QED BY <3>1 DEF Packets, Origins
  <2> HIDE DEF p
  <2> QED BY <2>1, JoinFacts, JoinTypesFields, SetOfAppend
<1>3. p.type = "WORLD" /\ p.epoch = r.epoch /\ p.origin.token = r.world.token
  OBVIOUS
<1>4. /\ s.world = r.world /\ s.token = r.token /\ s.latest = r.latest /\ s.epoch = r.epoch
      /\ s.localReady = r.localReady /\ s.go = r.go /\ s.target = r.target
      /\ s.live = r.live /\ s.publications = Append(r.publications, p)
      /\ s.pending = r.pending /\ s.control = r.control /\ s.inbound = r.inbound
  BY JoinFacts DEF JoinTypes
<1> HIDE DEF p, s
<1>5. JoinFenced(s)
  BY <1>2, <1>3, <1>4, JoinFacts, JoinBounds DEF JoinFenced
<1>6. LoadIdsNameTokens(s) /\ Known(s) = Known(r)
  BY <1>4, JoinFacts DEF LoadIdsNameTokens, Known
<1> QED BY <1>1, <1>4, <1>5, <1>6, JoinInside

LEMMA JoinPublishFences ==
    ASSUME TypeOK, FenceInv, NEW j \in Joins, JoinPublish(j) PROVE FenceInv'
<1> DEFINE r == joins[j]
           p == Head(r.publications)
           f == Stamped(p, r.token, r.epoch)
           taken == [r EXCEPT !.publications = Tail(r.publications)]
           w == [token |-> p.token, id |-> p.id]
           s == [taken EXCEPT !.control = w]
           t == [taken EXCEPT !.pending = Append(taken.pending, f)]
<1>1. /\ r.publications # <<>> /\ UNCHANGED <<hostVars, hasty, netVars>>
      /\ \/ p.type = "READY" /\ joins' = [joins EXCEPT ![j] = s]
         \/ /\ p.type = "WORLD" /\ p.epoch = r.epoch
            /\ joins' = [joins EXCEPT ![j] = t]
         \/ joins' = [joins EXCEPT ![j] = taken]
  BY DEF JoinPublish
<1>2. /\ p \in ToSet(r.publications)
      /\ ToSet(Tail(r.publications)) \subseteq ToSet(r.publications)
      /\ p \in Packets \cup Readies
  <2>1. r.publications \in Seq(Packets \cup Readies)
    BY JoinFacts, JoinTypesFields
  <2>2. /\ p \in ToSet(r.publications)
        /\ ToSet(Tail(r.publications)) \subseteq ToSet(r.publications)
    BY <1>1, <2>1, SetOfTail
  <2> QED BY <2>1, <2>2, SeqElement
<1>3. /\ taken.world = r.world /\ taken.token = r.token /\ taken.latest = r.latest
      /\ taken.epoch = r.epoch /\ taken.localReady = r.localReady /\ taken.go = r.go
      /\ taken.target = r.target /\ taken.live = r.live
      /\ taken.publications = Tail(r.publications) /\ taken.pending = r.pending
      /\ taken.control = r.control /\ taken.inbound = r.inbound
  <2> HIDE DEF p
  <2> QED BY JoinFacts DEF JoinTypes
<1>4. /\ s.world = r.world /\ s.token = r.token /\ s.latest = r.latest
      /\ s.epoch = r.epoch /\ s.localReady = r.localReady /\ s.go = r.go
      /\ s.target = r.target /\ s.live = r.live
      /\ s.publications = Tail(r.publications) /\ s.pending = r.pending
      /\ s.control = w /\ s.inbound = r.inbound
  <2> HIDE DEF p, w
  <2> QED BY JoinFacts DEF JoinTypes
<1>5. /\ t.world = r.world /\ t.token = r.token /\ t.latest = r.latest
      /\ t.epoch = r.epoch /\ t.localReady = r.localReady /\ t.go = r.go
      /\ t.target = r.target /\ t.live = r.live
      /\ t.publications = Tail(r.publications) /\ t.pending = Append(r.pending, f)
      /\ t.control = r.control /\ t.inbound = r.inbound
  <2> HIDE DEF p, f
  <2> QED BY JoinFacts DEF JoinTypes
<1> HIDE DEF p, w, taken, s, t
<1>7. CASE p.type = "READY" /\ joins' = [joins EXCEPT ![j] = s]
  <2>1. JoinFenced(s)
    BY <1>2, <1>4, JoinFacts DEF JoinFenced
  <2>2. LoadIdsNameTokens(s) /\ Known(s) = Known(r)
    BY <1>4, JoinFacts DEF LoadIdsNameTokens, Known
  <2> QED BY <1>1, <1>4, <1>7, <2>1, <2>2, JoinInside
<1>8. CASE p.type = "WORLD" /\ p.epoch = r.epoch /\ joins' = [joins EXCEPT ![j] = t]
  <2>1. p.origin.token = r.world.token
    BY <1>2, <1>8, JoinFacts DEF JoinFenced
  <2>2. f.epoch = r.epoch /\ f.origin.token = r.world.token /\ f \in Frames
    <3>1. p \in Packets
      BY <1>2, <1>8 DEF Readies
    <3> QED BY <2>1, <3>1, JoinFacts, JoinTypesFields DEF Stamped, Frames, Packets
  <2> HIDE DEF f
  <2>3. ToSet(t.pending) = ToSet(r.pending) \cup {f}
    BY <1>5, <2>2, JoinFacts, JoinTypesFields, SetOfAppend
  <2>4. JoinFenced(t)
    BY <1>2, <1>5, <2>2, <2>3, JoinFacts, JoinBounds DEF JoinFenced
  <2>5. LoadIdsNameTokens(t) /\ Known(t) = Known(r)
    BY <1>5, JoinFacts DEF LoadIdsNameTokens, Known
  <2> QED BY <1>1, <1>5, <1>8, <2>4, <2>5, JoinInside
<1>9. CASE joins' = [joins EXCEPT ![j] = taken]
  <2>1. JoinFenced(taken)
    BY <1>2, <1>3, JoinFacts DEF JoinFenced
  <2>2. LoadIdsNameTokens(taken) /\ Known(taken) = Known(r)
    BY <1>3, JoinFacts DEF LoadIdsNameTokens, Known
  <2> QED BY <1>1, <1>3, <1>9, <2>1, <2>2, JoinInside
<1> QED BY <1>1, <1>7, <1>8, <1>9

(* What a join sends names the world it was captured in.                   *)
LEMMA JoinSends ==
    ASSUME TypeOK, FenceInv, NEW j \in Joins, NEW s, joins' = [joins EXCEPT ![j] = s],
           UNCHANGED <<hostVars, hasty, link, bulk, down>>, NEW m \in Frames \cup Readies,
           up' = up \/ up' = [up EXCEPT ![j] = Append(@, m)],
           up' # up /\ m.type = "WORLD" => m.origin.token = m.world,
           s.world = joins[j].world, s.token = joins[j].token, s.latest = joins[j].latest,
           s.epoch = joins[j].epoch, s.localReady = joins[j].localReady, s.go = joins[j].go,
           s.target = joins[j].target, s.live = joins[j].live,
           s.publications = joins[j].publications, s.inbound = joins[j].inbound,
           ToSet(s.pending) \subseteq ToSet(joins[j].pending)
    PROVE  FenceInv'
<1>1. /\ \A k \in Joins : k # j => up'[k] = up[k]
      /\ \A q \in ToSet(up'[j]) : q \in ToSet(up[j]) \/ (q = m /\ up' # up)
  <2>1. CASE up' = up
    BY <2>1
  <2>2. CASE up' # up
    <3>1. /\ up'[j] = Append(up[j], m)
          /\ \A k \in Joins : k # j => up'[k] = up[k]
      BY <2>2 DEF TypeOK
    <3>2. up[j] \in Seq(Frames \cup Readies)
      BY LaneBounds
    <3>3. ToSet(Append(up[j], m)) = ToSet(up[j]) \cup {m}
      BY <3>2, SetOfAppend
    <3> QED BY <2>2, <3>1, <3>3
  <2> QED BY <2>1, <2>2
<1>2. joins'[j] = s
  BY DEF TypeOK
<1>3. JoinFenced(s) /\ LoadIdsNameTokens(s) /\ Known(s) = Known(joins[j])
  BY JoinFacts DEF JoinFenced, LoadIdsNameTokens, Known
<1>4. LoadIdsGrow(j)'
  BY <1>3, KnownKept
<1>5. LanesTruthful(j)' /\ UnlinkedIdle(j)'
  BY <1>1, <1>2, JoinFacts DEF LanesTruthful, UnlinkedIdle, Of
<1> QED BY <1>1, <1>3, <1>4, <1>5, JoinPart

LEMMA JoinDrainReadyFences ==
    ASSUME TypeOK, FenceInv, NEW j \in Joins, JoinDrainReady(j) PROVE FenceInv'
<1> DEFINE r == joins[j]
           m == [type |-> "READY", id |-> r.control.id, token |-> r.control.token]
           s == [r EXCEPT !.control = NoWorld, !.ready = TRUE]
           t == [r EXCEPT !.control = NoWorld]
<1>1. /\ UNCHANGED <<hostVars, hasty, link, bulk, down>>
      /\ \/ up' = [up EXCEPT ![j] = Append(@, m)] /\ joins' = [joins EXCEPT ![j] = s]
         \/ up' = up /\ joins' = [joins EXCEPT ![j] = t]
  <2>1. /\ [joins EXCEPT ![j].control = NoWorld] = [joins EXCEPT ![j] = t]
        /\ [joins EXCEPT ![j].control = NoWorld, ![j].ready = TRUE]
              = [joins EXCEPT ![j] = s]
    BY DEF TypeOK
  <2> QED BY <2>1 DEF JoinDrainReady
<1>2. m \in Readies /\ m.type = "READY"
  BY JoinFacts, JoinTypesFields DEF Worlds, Readies
<1>3. /\ s.world = r.world /\ s.token = r.token /\ s.latest = r.latest /\ s.epoch = r.epoch
      /\ s.localReady = r.localReady /\ s.go = r.go /\ s.target = r.target
      /\ s.live = r.live /\ s.publications = r.publications
      /\ s.pending = r.pending /\ s.control = NoWorld /\ s.inbound = r.inbound
  BY JoinFacts DEF JoinTypes
<1>4. /\ t.world = r.world /\ t.token = r.token /\ t.latest = r.latest /\ t.epoch = r.epoch
      /\ t.localReady = r.localReady /\ t.go = r.go /\ t.target = r.target
      /\ t.live = r.live /\ t.publications = r.publications
      /\ t.pending = r.pending /\ t.control = NoWorld /\ t.inbound = r.inbound
  BY JoinFacts DEF JoinTypes
<1> HIDE DEF m, s, t
<1>5. CASE up' = [up EXCEPT ![j] = Append(@, m)] /\ joins' = [joins EXCEPT ![j] = s]
  BY <1>1, <1>2, <1>3, <1>5, JoinSends
<1>6. CASE up' = up /\ joins' = [joins EXCEPT ![j] = t]
  BY <1>1, <1>2, <1>4, <1>6, JoinSends
<1> QED BY <1>1, <1>5, <1>6

LEMMA JoinDrainFences ==
    ASSUME TypeOK, FenceInv, NEW j \in Joins, JoinDrain(j) PROVE FenceInv'
<1> DEFINE r == joins[j]
           f == Head(r.pending)
           s == [r EXCEPT !.pending = Tail(r.pending)]
<1>1. /\ r.pending # <<>> /\ UNCHANGED <<hostVars, hasty, link, bulk, down>>
      /\ joins' = [joins EXCEPT ![j] = s]
      /\ \/ /\ Fresh(f, r.token, r.epoch) /\ JoinOpen(r)
            /\ up' = [up EXCEPT ![j] = Append(@, f)]
         \/ up' = up
  BY DEF JoinDrain
<1>2. f \in ToSet(r.pending) /\ ToSet(Tail(r.pending)) \subseteq ToSet(r.pending) /\ f \in Frames
  <2>1. r.pending \in Seq(Frames)
    BY JoinFacts, JoinTypesFields
  <2> QED BY <1>1, <2>1, SetOfTail, SeqElement
<1>3. /\ s.world = r.world /\ s.token = r.token /\ s.latest = r.latest /\ s.epoch = r.epoch
      /\ s.localReady = r.localReady /\ s.go = r.go /\ s.target = r.target
      /\ s.live = r.live /\ s.publications = r.publications
      /\ s.pending = Tail(r.pending) /\ s.control = r.control /\ s.inbound = r.inbound
  BY JoinFacts DEF JoinTypes
<1> HIDE DEF f, s
<1>4. ToSet(s.pending) \subseteq ToSet(r.pending)
  BY <1>2, <1>3 DEF Frames
<1>5. CASE /\ Fresh(f, r.token, r.epoch) /\ JoinOpen(r)
           /\ up' = [up EXCEPT ![j] = Append(@, f)]
  <2>1. f.origin.token = f.world
    BY <1>2, <1>5, JoinFacts DEF JoinFenced, Fresh, JoinOpen
  <2> QED BY <1>1, <1>2, <1>3, <1>4, <1>5, <2>1, JoinSends
<1>6. CASE up' = up
  BY <1>1, <1>2, <1>3, <1>4, <1>6, JoinSends
<1> QED BY <1>1, <1>5, <1>6

-----------------------------------------------------------------------------
LEMMA FenceInit == ASSUME Init PROVE FenceInv
<1>1. /\ hostWorld = 1 /\ worldToken = 1 /\ ~loading /\ publications = <<>>
      /\ inbound = {}
  BY DEF Init
<1>2. HostInv
  BY <1>1, SetOfEmpty, IncreasingEmpty DEF HostInv
<1>3. ASSUME NEW j \in Joins PROVE JoinInv(j)
  <2>1. /\ joins[j] = NewJoin /\ bulk[j] = <<>> /\ down[j] = <<>> /\ up[j] = <<>>
        /\ pending[j] = <<>>
    BY DEF Init
  <2>2. QueueFenced(j) /\ LanesTruthful(j)
    BY <1>1, <2>1, SetOfEmpty DEF QueueFenced, LanesTruthful
  <2>3. JoinFenced(joins[j]) /\ LoadIdsNameTokens(joins[j]) /\ UnlinkedIdle(j)
    BY <2>1, SetOfEmpty DEF JoinFenced, LoadIdsNameTokens, UnlinkedIdle, NewJoin, NoWorld
  <2>4. LoadIdsGrow(j)
    BY <1>1, <2>1, SetOfEmpty, IncreasingEmpty DEF LoadIdsGrow
  <2> QED BY <2>2, <2>3, <2>4 DEF JoinInv
<1> QED BY <1>2, <1>3 DEF FenceInv

LEMMA FenceNext == ASSUME TypeOK, FenceInv, [Next]_vars PROVE FenceInv'
<1>1. CASE UNCHANGED vars
  <2>1. UNCHANGED <<hostWorld, loading, worldToken, sendEpoch, loadIdOut, publications,
                    peers, pending, inbound, link, bulk, down, up, joins, hasty>>
    BY <1>1 DEF vars, hostVars, netVars
  <2>2. HostInv'
    BY <2>1 DEF FenceInv, HostInv
  <2>3. ASSUME NEW k \in Joins PROVE JoinInv(k)'
    BY <2>1, OtherJoin DEF FenceInv
  <2> QED BY <2>2, <2>3 DEF FenceInv
<1>2. ASSUME NEW j \in Joins, HostStep(j) PROVE FenceInv'
  BY <1>2, HostDrainFences, HostReceiveFrameFences, HostReceiveReadyFences DEF HostStep
<1>3. ASSUME NEW j \in Joins, JoinStep(j) PROVE FenceInv'
  BY <1>3, JoinReceiveGoFences, JoinReceiveFrameFences, JoinFollowFences,
     JoinReloadFences, JoinWorldReadyFences, JoinPublishFences, JoinDrainReadyFences,
     JoinDrainFences DEF JoinStep
<1>4. CASE Next
  BY <1>2, <1>3, <1>4, HostLoadFences, HostReloadFences, ConnectPushFences,
     HostCaptureFences, HostPublishFences, AdmitFences, DropFences, JoinCaptureFences
     DEF Next
<1> QED BY <1>1, <1>4

LEMMA FenceInductive == Spec => [](TypeOK /\ FenceInv)
<1>1. Init => FenceInv
  BY FenceInit
<1>2. TypeOK /\ FenceInv /\ [Next]_vars => FenceInv'
  BY FenceNext
<1> QED BY <1>1, <1>2, FenceTypeCorrect, PTL DEF Spec

(* WorldFence.tla's WorldFence, docs/API_REFERENCE.md's "fence messages    *)
(* before dispatch/relay", for any number of joins, loads, connect-pushes, *)
(* drops and frames: what waits for a game thread, the host's or a join's, *)
(* was captured in the world that its engine runs, but for what crosses    *)
(* the gate that a join's early READY opened before the host's own swap.   *)
THEOREM FenceHolds == Spec => []WorldFence
<1>1. FenceInv => WorldFence
  BY DEF FenceInv, HostInv, JoinInv, JoinFenced, WorldFence, Of
<1> QED BY <1>1, FenceInductive, PTL

-----------------------------------------------------------------------------
(* Which copy a frame comes from.  The load ids on a lane, of the READYs   *)
(* and of the copies the frames were captured in, never fall; none is past *)
(* the load the join follows, nor that past the load the host expects; and *)
(* from a join the host takes for ready nothing older is left on its lane. *)
CopyOf(e) == IF e.type = "WORLD" THEN e.origin.id ELSE e.id
Rising(lane) ==
    \A m, n \in 1 .. Len(lane) : m < n => CopyOf(lane[m]) <= CopyOf(lane[n])
LaneCopies(j, latest, peer, lane) ==
    /\ Rising(lane)
    /\ \A e \in ToSet(lane) :
           /\ e.type = "WORLD" => e.origin.by = j
           /\ CopyOf(e) <= latest /\ (peer.ready => peer.load <= CopyOf(e))

(* What a join captured since its last bump is of the copy it lives in,    *)
(* which is the one it follows once it has reported ready.                 *)
OwnCopies(j, r) ==
    /\ \A p \in ToSet(r.publications) : p.type = "WORLD" =>
           p.origin.by = j /\ (p.epoch = r.epoch => p.origin.id = r.world.id)
    /\ \A f \in ToSet(r.pending) :
           f.origin.by = j /\ (f.epoch = r.epoch => f.origin.id = r.world.id)
    /\ r.localReady => r.world.id = r.latest

Expected(r, peer, gos, linked) ==
    /\ r.latest <= peer.load /\ \A p \in ToSet(gos) : p.id <= peer.load
    /\ linked /\ peer.ready => r.latest = peer.load

Silent(r, lane) ==
    lane = <<>> /\ ~r.localReady /\ r.control = NoWorld /\ r.latest = 0

Copies(j, r, peer, gos, lane, linked) ==
    /\ LaneCopies(j, r.latest, peer, lane) /\ OwnCopies(j, r)
    /\ Expected(r, peer, gos, linked) /\ (~linked => Silent(r, lane))

CopyInv == \A j \in Joins : Copies(j, joins[j], peers[j], bulk[j], up[j], j \in link)

-----------------------------------------------------------------------------
LEMMA CopyTypes ==
    ASSUME TypeOK, NEW e \in Frames \cup Readies
    PROVE  CopyOf(e) \in Nat /\ (e.type = "WORLD" => CopyOf(e) = e.origin.id)
BY DEF TypeOK, CopyOf, Frames, Readies, Origins, LoadIds

LEMMA RisingTail ==
    ASSUME NEW S, NEW s \in Seq(S), s # <<>>, Rising(s)
    PROVE  Rising(Tail(s)) /\ \A e \in ToSet(Tail(s)) : CopyOf(Head(s)) <= CopyOf(e)
<1>1. Len(Tail(s)) = Len(s) - 1 /\ \A i \in 1 .. Len(s) - 1 : Tail(s)[i] = s[i + 1]
  OBVIOUS
<1>2. Rising(Tail(s))
  <2> SUFFICES ASSUME NEW m \in 1 .. Len(Tail(s)), NEW n \in 1 .. Len(Tail(s)), m < n
               PROVE  CopyOf(Tail(s)[m]) <= CopyOf(Tail(s)[n])
    BY DEF Rising
  <2>1. /\ m + 1 \in 1 .. Len(s) /\ n + 1 \in 1 .. Len(s) /\ m + 1 < n + 1
        /\ Tail(s)[m] = s[m + 1] /\ Tail(s)[n] = s[n + 1]
    BY <1>1
  <2> QED BY <2>1 DEF Rising
<1>3. ASSUME NEW e \in ToSet(Tail(s)) PROVE CopyOf(Head(s)) <= CopyOf(e)
  <2>1. PICK i \in 1 .. Len(s) - 1 : e = s[i + 1]
    BY <1>1 DEF ToSet
  <2>2. Head(s) = s[1] /\ 1 \in 1 .. Len(s) /\ i + 1 \in 1 .. Len(s) /\ 1 < i + 1
    BY <2>1
  <2> QED BY <2>1, <2>2 DEF Rising
<1> QED BY <1>2, <1>3

LEMMA RisingAppend ==
    ASSUME NEW S, NEW s \in Seq(S), NEW e \in S, Rising(s),
           \A q \in ToSet(s) : CopyOf(q) <= CopyOf(e)
    PROVE  Rising(Append(s, e))
<1>1. /\ Len(Append(s, e)) = Len(s) + 1 /\ Append(s, e)[Len(s) + 1] = e
      /\ \A i \in 1 .. Len(s) : Append(s, e)[i] = s[i] /\ s[i] \in ToSet(s)
  BY DEF ToSet
<1> SUFFICES ASSUME NEW m \in 1 .. Len(Append(s, e)), NEW n \in 1 .. Len(Append(s, e)), m < n
             PROVE  CopyOf(Append(s, e)[m]) <= CopyOf(Append(s, e)[n])
  BY DEF Rising
<1>2. m \in 1 .. Len(s) /\ (n \in 1 .. Len(s) \/ n = Len(s) + 1)
  BY <1>1
<1>3. CASE n \in 1 .. Len(s)
  BY <1>1, <1>2, <1>3 DEF Rising
<1>4. CASE n = Len(s) + 1
  BY <1>1, <1>2, <1>4
<1> QED BY <1>2, <1>3, <1>4

LEMMA RisingEmpty == Rising(<<>>)
BY DEF Rising

(* The receiver takes the oldest element of a lane, its sender appends.    *)
LEMMA LaneTaken ==
    ASSUME NEW S, NEW lane \in Seq(S), lane # <<>>, NEW j, NEW latest, NEW peer,
           LaneCopies(j, latest, peer, lane)
    PROVE  LaneCopies(j, latest, peer, Tail(lane))
BY SetOfTail, RisingTail DEF LaneCopies

LEMMA LaneSent ==
    ASSUME TypeOK, NEW lane \in Seq(Frames \cup Readies), NEW e \in Frames \cup Readies,
           NEW j, NEW latest, NEW peer, LaneCopies(j, latest, peer, lane),
           e.type = "WORLD" => e.origin.by = j, CopyOf(e) = latest, latest \in Nat,
           peer.ready => peer.load = latest
    PROVE  LaneCopies(j, latest, peer, Append(lane, e))
<1>1. ToSet(Append(lane, e)) = ToSet(lane) \cup {e}
  BY SetOfAppend
<1>2. \A q \in ToSet(lane) : CopyOf(q) <= CopyOf(e)
  BY DEF LaneCopies
<1>3. Rising(Append(lane, e))
  BY <1>2, RisingAppend DEF LaneCopies
<1> QED BY <1>1, <1>3 DEF LaneCopies

(* A step that leaves the fields of a join these parts name.               *)
LEMMA CopiesStay ==
    ASSUME NEW j, NEW r, NEW s, NEW peer, NEW gos, NEW lane, NEW linked \in BOOLEAN,
           Copies(j, r, peer, gos, lane, linked),
           s.publications = r.publications, s.pending = r.pending, s.epoch = r.epoch,
           s.world = r.world, s.latest = r.latest, s.localReady = r.localReady,
           s.control = r.control
    PROVE  Copies(j, s, peer, gos, lane, linked)
BY DEF Copies, OwnCopies, Expected, Silent

LEMMA CopyPrimed ==
    ASSUME \A j \in Joins : Copies(j, joins'[j], peers'[j], bulk'[j], up'[j], j \in link')
    PROVE  CopyInv'
BY DEF CopyInv

LEMMA CopyFacts ==
    ASSUME TypeOK, FenceInv, CopyInv, NEW j \in Joins
    PROVE  /\ Copies(j, joins[j], peers[j], bulk[j], up[j], j \in link)
           /\ joins[j] \in JoinTypes /\ joins[j].latest \in Nat /\ peers[j].load \in Nat
           /\ up[j] \in Seq(Frames \cup Readies) /\ \A e \in ToSet(up[j]) : CopyOf(e) \in Nat
<1>1. joins[j] \in JoinTypes
  BY DEF TypeOK
<1>2. joins[j].latest \in Nat /\ peers[j].load \in Nat
  BY <1>1, JoinTypesFields, LaneBounds DEF TypeOK, LoadIds
<1>3. \A e \in ToSet(up[j]) : CopyOf(e) \in Nat
  BY LaneBounds, SeqElement, CopyTypes
<1> QED BY <1>1, <1>2, <1>3, LaneBounds DEF CopyInv

(* A step that leaves a join, its lane and what the host expects of it.    *)
LEMMA CopiesElsewhere ==
    ASSUME CopyInv, NEW k \in Joins, joins'[k] = joins[k], peers'[k] = peers[k],
           bulk'[k] = bulk[k], up'[k] = up[k], k \in link' <=> k \in link
    PROVE  Copies(k, joins'[k], peers'[k], bulk'[k], up'[k], k \in link')
<1>1. (k \in link') = (k \in link)
  OBVIOUS
<1> QED BY <1>1 DEF CopyInv

LEMMA CopiesUntouched ==
    ASSUME CopyInv, UNCHANGED <<joins, peers, bulk, up, link>> PROVE CopyInv'
BY CopiesElsewhere, CopyPrimed

LEMMA CopyInit == ASSUME Init PROVE CopyInv
<1> SUFFICES ASSUME NEW j \in Joins
             PROVE  Copies(j, joins[j], peers[j], bulk[j], up[j], j \in link)
  BY DEF CopyInv
<1>1. joins[j] = NewJoin /\ peers[j] = NewPeer /\ bulk[j] = <<>> /\ up[j] = <<>>
  BY DEF Init
<1>2. LaneCopies(j, joins[j].latest, peers[j], up[j]) /\ OwnCopies(j, joins[j])
  BY <1>1, SetOfEmpty, RisingEmpty DEF LaneCopies, OwnCopies, NewJoin
<1>3. Expected(joins[j], peers[j], bulk[j], j \in link) /\ Silent(joins[j], up[j])
  BY <1>1, SetOfEmpty DEF Expected, Silent, NewJoin, NewPeer
<1> QED BY <1>2, <1>3 DEF Copies

-----------------------------------------------------------------------------
(* The host's steps.                                                       *)
LEMMA AdmitCopies ==
    ASSUME TypeOK, FenceInv, CopyInv, NEW j \in Joins, Admit(j) PROVE CopyInv'
<1> DEFINE r == joins[j]
           s == [r EXCEPT !.ready = TRUE]
<1>1. /\ j \notin link /\ link' = link \cup {j} /\ peers' = [peers EXCEPT ![j] = NewPeer]
      /\ joins' = [joins EXCEPT ![j] = s] /\ UNCHANGED <<bulk, up>>
  BY DEF Admit
<1>2. ASSUME NEW k \in Joins, k # j
      PROVE  Copies(k, joins'[k], peers'[k], bulk'[k], up'[k], k \in link')
  BY <1>1, <1>2, CopiesElsewhere DEF TypeOK
<1>3. Copies(j, joins'[j], peers'[j], bulk'[j], up'[j], j \in link')
  <2>1. /\ joins'[j] = s /\ peers'[j] = NewPeer /\ j \in link'
        /\ Copies(j, r, peers[j], bulk[j], up[j], j \in link) /\ UnlinkedIdle(j)
    BY <1>1, CopyFacts, JoinFacts DEF TypeOK
  <2>2. /\ s.world = r.world /\ s.latest = r.latest /\ s.epoch = r.epoch
        /\ s.localReady = r.localReady /\ s.publications = r.publications
        /\ s.pending = r.pending /\ s.control = r.control
    BY CopyFacts DEF JoinTypes
  <2>3. bulk[j] = <<>> /\ up[j] = <<>> /\ s.latest = 0
    BY <1>1, <2>1, <2>2 DEF UnlinkedIdle, Copies, Silent
  <2> HIDE DEF s
  <2>4. OwnCopies(j, s)
    BY <2>1, <2>2 DEF Copies, OwnCopies
  <2>5. LaneCopies(j, s.latest, NewPeer, <<>>) /\ Expected(s, NewPeer, <<>>, TRUE)
    BY <2>3, SetOfEmpty, RisingEmpty DEF LaneCopies, Expected, NewPeer
  <2>6. Copies(j, s, NewPeer, <<>>, <<>>, TRUE)
    BY <2>4, <2>5 DEF Copies
  <2> QED BY <1>1, <2>1, <2>3, <2>6
<1> QED BY <1>2, <1>3, CopyPrimed

LEMMA DropCopies ==
    ASSUME TypeOK, FenceInv, CopyInv, NEW j \in Joins, Drop(j) PROVE CopyInv'
<1> DEFINE r == joins[j]
           s == [r EXCEPT !.epoch = r.epoch + 1, !.token = 0, !.latest = 0,
                          !.localReady = FALSE, !.ready = FALSE,
                          !.publications = <<>>, !.pending = <<>>,
                          !.control = NoWorld]
<1>1. /\ link' = link \ {j} /\ bulk' = [bulk EXCEPT ![j] = <<>>]
      /\ up' = [up EXCEPT ![j] = <<>>] /\ joins' = [joins EXCEPT ![j] = s]
      /\ peers' = peers
  BY DEF Drop
<1>2. ASSUME NEW k \in Joins, k # j
      PROVE  Copies(k, joins'[k], peers'[k], bulk'[k], up'[k], k \in link')
  BY <1>1, <1>2, CopiesElsewhere DEF TypeOK
<1>3. Copies(j, joins'[j], peers'[j], bulk'[j], up'[j], j \in link')
  <2>1. joins'[j] = s /\ bulk'[j] = <<>> /\ up'[j] = <<>> /\ (j \in link') = FALSE
    BY <1>1 DEF TypeOK
  <2>2. /\ s.latest = 0 /\ ~s.localReady /\ s.publications = <<>>
        /\ s.pending = <<>> /\ s.control = NoWorld
    BY CopyFacts DEF JoinTypes
  <2> HIDE DEF s
  <2>3. OwnCopies(j, s) /\ Silent(s, <<>>)
    BY <2>2, SetOfEmpty DEF OwnCopies, Silent
  <2>4. LaneCopies(j, s.latest, peers[j], <<>>) /\ Expected(s, peers[j], <<>>, FALSE)
    BY <2>2, SetOfEmpty, RisingEmpty, CopyFacts DEF LaneCopies, Expected
  <2>5. Copies(j, s, peers[j], <<>>, <<>>, FALSE)
    BY <2>3, <2>4 DEF Copies
  <2> QED BY <1>1, <2>1, <2>5
<1> QED BY <1>2, <1>3, CopyPrimed

(* LOAD_GO: the host expects a load later than any the join has heard of.  *)
LEMMA GoCopies ==
    ASSUME TypeOK, FenceInv, CopyInv, NEW p \in ToSet(publications), p.type = "GO",
           peers' = [j \in Joins |-> IF j \in link THEN Expect(peers[j], p) ELSE peers[j]],
           bulk' = [j \in Joins |-> IF j \in link THEN Append(bulk[j], p) ELSE bulk[j]],
           UNCHANGED <<joins, up, link>>
    PROVE  CopyInv'
<1>1. ASSUME NEW k \in Joins, k \notin link
      PROVE  Copies(k, joins'[k], peers'[k], bulk'[k], up'[k], k \in link')
  BY <1>1, CopiesElsewhere
<1>2. ASSUME NEW k \in Joins, k \in link
      PROVE  Copies(k, joins'[k], peers'[k], bulk'[k], up'[k], k \in link')
  <2> DEFINE r == joins[k]
             peer == Expect(peers[k], p)
  <2>1. /\ peers'[k] = peer /\ bulk'[k] = Append(bulk[k], p) /\ r = joins'[k]
        /\ Copies(k, r, peers[k], bulk[k], up[k], k \in link)
    BY <1>2, CopyFacts
  <2>2. peers[k].load < p.id /\ p.id \in Nat /\ p \in Gos
    <3>1. p \in Packets \cup Gos
      BY SeqElement, HostBounds
    <3> QED BY <3>1, JoinFacts, HostBounds DEF LoadIdsGrow, Packets
  <2>3. ToSet(Append(bulk[k], p)) = ToSet(bulk[k]) \cup {p}
    BY <2>2, LaneBounds, SetOfAppend
  <2>4. ~peer.ready /\ peer.load = p.id
    <3>1. peers[k].load # p.id
      BY <2>2, CopyFacts
    <3>2. peer.ready = (peers[k].ready /\ peers[k].load = p.id /\ peers[k].world = p.token)
      BY DEF Expect
    <3>3. peer.load = p.id
      BY DEF Expect
    <3> HIDE DEF peer
    <3> QED BY <3>1, <3>2, <3>3
  <2> HIDE DEF peer
  <2>5. LaneCopies(k, r.latest, peer, up[k])
    BY <2>1, <2>4 DEF Copies, LaneCopies
  <2>6. Expected(r, peer, Append(bulk[k], p), TRUE)
    <3>1. \A q \in ToSet(bulk[k]) : q.id \in Nat /\ q.id <= peers[k].load
      BY <2>1, LaneBounds DEF Copies, Expected, TypeOK
    <3>2. r.latest <= peers[k].load
      BY <2>1 DEF Copies, Expected
    <3> QED BY <2>2, <2>3, <2>4, <3>1, <3>2, CopyFacts DEF Expected
  <2>7. Copies(k, r, peer, Append(bulk[k], p), up[k], TRUE)
    BY <2>1, <2>5, <2>6 DEF Copies
  <2> QED BY <1>2, <2>1, <2>7
<1> QED BY <1>1, <1>2, CopyPrimed

LEMMA HostPublishCopies ==
    ASSUME TypeOK, FenceInv, CopyInv, HostPublish PROVE CopyInv'
<1> DEFINE p == Head(publications)
<1>1. publications # <<>> /\ UNCHANGED <<joins, up, link>>
  BY DEF HostPublish
<1>2. p \in ToSet(publications)
  BY <1>1, HostBounds, SetOfTail
<1>3. \/ /\ p.type = "GO"
         /\ peers' = [j \in Joins |-> IF j \in link THEN Expect(peers[j], p) ELSE peers[j]]
         /\ bulk' = [j \in Joins |-> IF j \in link THEN Append(bulk[j], p) ELSE bulk[j]]
      \/ UNCHANGED <<peers, bulk>>
  BY DEF HostPublish
<1> HIDE DEF p
<1> QED BY <1>1, <1>2, <1>3, GoCopies, CopiesUntouched

LEMMA HostReceiveCopies ==
    ASSUME TypeOK, FenceInv, CopyInv, NEW j \in Joins,
           HostReceiveFrame(j) \/ HostReceiveReady(j)
    PROVE  CopyInv'
<1> DEFINE e == Head(up[j])
<1>1. /\ up[j] # <<>> /\ up' = [up EXCEPT ![j] = Tail(up[j])] /\ UNCHANGED <<joins, bulk, link>>
      /\ \/ peers' = peers
         \/ /\ e.type = "READY" /\ IsExpected(j, e)
            /\ peers' = [peers EXCEPT ![j].ready = TRUE]
  BY DEF HostReceiveFrame, HostReceiveReady
<1>2. ASSUME NEW k \in Joins, k # j
      PROVE  Copies(k, joins'[k], peers'[k], bulk'[k], up'[k], k \in link')
  BY <1>1, <1>2, CopiesElsewhere DEF TypeOK
<1>3. Copies(j, joins'[j], peers'[j], bulk'[j], up'[j], j \in link')
  <2> DEFINE r == joins[j]
             peer == peers[j]
  <2>1. /\ Copies(j, r, peer, bulk[j], up[j], j \in link) /\ up[j] \in Seq(Frames \cup Readies)
        /\ joins'[j] = r /\ bulk'[j] = bulk[j] /\ up'[j] = Tail(up[j])
    BY <1>1, CopyFacts DEF TypeOK
  <2>2. LaneCopies(j, r.latest, peer, Tail(up[j]))
    BY <1>1, <2>1, LaneTaken DEF Copies
  <2>3. j \in link
    BY <1>1, <2>1 DEF Copies, Silent
  <2>4. CASE peers' = peers
    <3>1. Copies(j, r, peer, bulk[j], Tail(up[j]), TRUE)
      BY <2>1, <2>2, <2>3 DEF Copies
    <3> QED BY <1>1, <2>1, <2>3, <2>4, <3>1
  <2>5. CASE /\ e.type = "READY" /\ IsExpected(j, e)
             /\ peers' = [peers EXCEPT ![j].ready = TRUE]
    <3> DEFINE q == [peer EXCEPT !.ready = TRUE]
    <3>1. peers'[j] = q /\ q.load = peer.load /\ q.ready
      BY <2>5 DEF TypeOK
    <3> HIDE DEF q
    <3>2. e \in ToSet(up[j]) /\ CopyOf(e) = peer.load
      BY <1>1, <2>1, <2>5, SetOfTail DEF IsExpected, CopyOf
    <3>3. r.latest = peer.load
      BY <2>1, <3>2, CopyFacts DEF Copies, LaneCopies, Expected
    <3>4. \A f \in ToSet(Tail(up[j])) : peer.load <= CopyOf(f)
      BY <1>1, <2>1, <3>2, RisingTail DEF Copies, LaneCopies
    <3>5. LaneCopies(j, r.latest, q, Tail(up[j]))
      BY <2>2, <3>1, <3>4 DEF LaneCopies
    <3>6. Expected(r, q, bulk[j], TRUE)
      BY <2>1, <2>3, <3>1, <3>3 DEF Copies, Expected
    <3>7. Copies(j, r, q, bulk[j], Tail(up[j]), TRUE)
      BY <2>1, <3>5, <3>6 DEF Copies
    <3> QED BY <1>1, <2>1, <2>3, <3>1, <3>7
  <2> QED BY <1>1, <2>4, <2>5
<1> QED BY <1>2, <1>3, CopyPrimed

-----------------------------------------------------------------------------
(* The joins' steps disturb that join's part only.                         *)
LEMMA JoinCopies ==
    ASSUME TypeOK, CopyInv, NEW j \in Joins, NEW s, joins' = [joins EXCEPT ![j] = s],
           UNCHANGED <<peers, link>>,
           \A k \in Joins : k # j => bulk'[k] = bulk[k] /\ up'[k] = up[k],
           Copies(j, s, peers[j], bulk'[j], up'[j], j \in link)
    PROVE  CopyInv'
<1>1. ASSUME NEW k \in Joins, k # j
      PROVE  Copies(k, joins'[k], peers'[k], bulk'[k], up'[k], k \in link')
  BY <1>1, CopiesElsewhere DEF TypeOK
<1>2. joins'[j] = s
  BY DEF TypeOK
<1> QED BY <1>1, <1>2, CopyPrimed

LEMMA JoinReceiveGoCopies ==
    ASSUME TypeOK, FenceInv, CopyInv, NEW j \in Joins, JoinReceiveGo(j) PROVE CopyInv'
<1> DEFINE r == joins[j]
           p == Head(bulk[j])
           s == [r EXCEPT !.token = p.token, !.latest = p.id, !.epoch = r.epoch + 1,
                          !.localReady = FALSE, !.ready = FALSE, !.inbound = {},
                          !.go = [token |-> p.token, id |-> p.id]]
<1>1. /\ bulk[j] # <<>> /\ bulk' = [bulk EXCEPT ![j] = Tail(@)]
      /\ joins' = [joins EXCEPT ![j] = s]
      /\ UNCHANGED <<peers, link, up>>
  BY DEF JoinReceiveGo, hostVars
<1>2. /\ s.latest = p.id /\ s.epoch = r.epoch + 1 /\ ~s.localReady
      /\ s.publications = r.publications /\ s.pending = r.pending
  <2> HIDE DEF p
  <2> QED BY CopyFacts DEF JoinTypes
<1>3. /\ p \in ToSet(bulk[j]) /\ bulk'[j] = Tail(bulk[j]) /\ up'[j] = up[j]
      /\ ToSet(Tail(bulk[j])) \subseteq ToSet(bulk[j]) /\ p.id \in Nat
  <2>1. p \in ToSet(bulk[j]) /\ ToSet(Tail(bulk[j])) \subseteq ToSet(bulk[j])
    BY <1>1, LaneBounds, SetOfTail
  <2> QED BY <1>1, <2>1, LaneBounds DEF TypeOK
<1>4. /\ Copies(j, r, peers[j], bulk[j], up[j], j \in link) /\ j \in link
      /\ r.latest < p.id /\ p.id <= peers[j].load
  <2>1. Copies(j, r, peers[j], bulk[j], up[j], j \in link)
    BY CopyFacts
  <2>2. j \in link
    BY <1>1, JoinFacts DEF UnlinkedIdle
  <2>3. r.latest < p.id
    BY <1>3, JoinFacts DEF LoadIdsGrow, Known
  <2> QED BY <1>3, <2>1, <2>2, <2>3 DEF Copies, Expected
<1> HIDE DEF p, s
<1>5. ~peers[j].ready
  BY <1>3, <1>4, CopyFacts DEF Copies, Expected
<1>6. OwnCopies(j, s)
  <2>1. /\ \A q \in ToSet(r.publications) : q.type = "WORLD" => q.epoch # s.epoch
        /\ \A f \in ToSet(r.pending) : f.epoch # s.epoch
    BY <1>2, JoinFacts, JoinBounds DEF JoinFenced
  <2> QED BY <1>2, <1>4, <2>1 DEF Copies, OwnCopies
<1>7. LaneCopies(j, s.latest, peers[j], up[j])
  BY <1>2, <1>3, <1>4, <1>5, CopyFacts DEF Copies, LaneCopies
<1>8. Expected(s, peers[j], Tail(bulk[j]), TRUE)
  BY <1>2, <1>3, <1>4, <1>5 DEF Copies, Expected
<1>9. Copies(j, s, peers[j], Tail(bulk[j]), up[j], TRUE)
  BY <1>6, <1>7, <1>8 DEF Copies
<1>10. \A k \in Joins : k # j => bulk'[k] = bulk[k] /\ up'[k] = up[k]
  BY <1>1 DEF TypeOK
<1> QED BY <1>1, <1>3, <1>4, <1>9, <1>10, JoinCopies

(* Steps of a join inside: its lanes stay.                                 *)
LEMMA JoinCopiesInside ==
    ASSUME TypeOK, CopyInv, NEW j \in Joins, NEW s, joins' = [joins EXCEPT ![j] = s],
           UNCHANGED <<peers, link, bulk, up>>, s.latest = joins[j].latest,
           OwnCopies(j, s), j \notin link => ~s.localReady /\ s.control = NoWorld
    PROVE  CopyInv'
<1>1. Copies(j, joins[j], peers[j], bulk[j], up[j], j \in link)
  BY DEF CopyInv
<1>2. Copies(j, s, peers[j], bulk[j], up[j], j \in link)
  BY <1>1 DEF Copies, Expected, Silent
<1> QED BY <1>2, JoinCopies

LEMMA JoinEngineCopies ==
    ASSUME TypeOK, FenceInv, CopyInv, NEW j \in Joins,
           JoinReceiveFrame(j) \/ JoinFollow(j) \/ JoinReload(j)
    PROVE  CopyInv'
<1> DEFINE r == joins[j]
<1>1. /\ UNCHANGED <<peers, link, bulk, up>>
      /\ Copies(j, r, peers[j], bulk[j], up[j], j \in link) /\ r \in JoinTypes
  BY CopyFacts DEF JoinReceiveFrame, JoinFollow, JoinReload, hostVars, netVars
<1>2. CASE JoinReceiveFrame(j)
  <2> DEFINE f == Head(down[j])
             s == [r EXCEPT !.inbound = r.inbound \cup {f.origin}]
  <2>1. joins' = joins \/ joins' = [joins EXCEPT ![j] = s]
    BY <1>2 DEF JoinReceiveFrame
  <2>2. /\ s.world = r.world /\ s.latest = r.latest /\ s.epoch = r.epoch
        /\ s.localReady = r.localReady /\ s.publications = r.publications
        /\ s.pending = r.pending /\ s.control = r.control
    <3> HIDE DEF f
    <3> QED BY <1>1 DEF JoinTypes
  <2> HIDE DEF s
  <2>3. OwnCopies(j, s) /\ (j \notin link => ~s.localReady /\ s.control = NoWorld)
    BY <1>1, <2>2 DEF Copies, OwnCopies, Silent
  <2> QED BY <1>1, <2>1, <2>2, <2>3, JoinCopiesInside, CopiesUntouched
<1>3. CASE JoinFollow(j)
  <2> DEFINE s == [r EXCEPT !.target = r.go, !.go = NoWorld, !.live = 0]
  <2>1. joins' = [joins EXCEPT ![j] = s]
    BY <1>3 DEF JoinFollow
  <2>2. /\ s.world = r.world /\ s.latest = r.latest /\ s.epoch = r.epoch
        /\ s.localReady = r.localReady /\ s.publications = r.publications
        /\ s.pending = r.pending /\ s.control = r.control
    BY <1>1 DEF JoinTypes
  <2> HIDE DEF s
  <2>3. OwnCopies(j, s) /\ (j \notin link => ~s.localReady /\ s.control = NoWorld)
    BY <1>1, <2>2 DEF Copies, OwnCopies, Silent
  <2> QED BY <1>1, <2>1, <2>2, <2>3, JoinCopiesInside
<1>4. CASE JoinReload(j)
  <2> DEFINE s == [r EXCEPT !.world = r.target, !.target = NoWorld, !.live = r.target.id,
                            !.epoch = r.epoch + 1, !.localReady = FALSE, !.inbound = {}]
  <2>1. joins' = [joins EXCEPT ![j] = s]
    BY <1>4 DEF JoinReload
  <2>2. /\ s.latest = r.latest /\ s.epoch = r.epoch + 1 /\ ~s.localReady
        /\ s.publications = r.publications /\ s.pending = r.pending
        /\ s.control = r.control
    BY <1>1 DEF JoinTypes
  <2> HIDE DEF s
  <2>3. /\ \A q \in ToSet(r.publications) : q.type = "WORLD" => q.epoch # s.epoch
        /\ \A f \in ToSet(r.pending) : f.epoch # s.epoch
    BY <2>2, JoinFacts, JoinBounds DEF JoinFenced
  <2>4. OwnCopies(j, s) /\ (j \notin link => ~s.localReady /\ s.control = NoWorld)
    BY <1>1, <2>2, <2>3 DEF Copies, OwnCopies, Silent
  <2> QED BY <1>1, <2>1, <2>2, <2>4, JoinCopiesInside
<1> QED BY <1>2, <1>3, <1>4

LEMMA JoinWorldReadyCopies ==
    ASSUME TypeOK, FenceInv, CopyInv, NEW j \in Joins, JoinWorldReady(j) PROVE CopyInv'
<1> DEFINE r == joins[j]
           ready == [type |-> "READY", id |-> r.latest, token |-> r.token]
           s == [r EXCEPT !.live = 0, !.localReady = TRUE,
                          !.publications = Append(r.publications, ready)]
           t == [r EXCEPT !.live = 0]
<1>1. /\ UNCHANGED <<peers, link, bulk, up>> /\ r.live # 0 /\ j \in link
      /\ \/ r.live = r.latest /\ joins' = [joins EXCEPT ![j] = s]
         \/ joins' = [joins EXCEPT ![j] = t]
  BY DEF JoinWorldReady, hostVars, netVars
<1>2. ToSet(Append(r.publications, ready)) = ToSet(r.publications) \cup {ready}
  <2>1. ready \in Readies
    BY JoinFacts, JoinTypesFields DEF Readies
  <2> HIDE DEF ready
  <2> QED BY <2>1, JoinFacts, JoinTypesFields, SetOfAppend
<1>3. /\ s.world = r.world /\ s.latest = r.latest /\ s.epoch = r.epoch /\ s.localReady
      /\ s.publications = Append(r.publications, ready)
      /\ s.pending = r.pending /\ s.control = r.control
  BY JoinFacts DEF JoinTypes
<1>4. /\ t.world = r.world /\ t.latest = r.latest /\ t.epoch = r.epoch
      /\ t.localReady = r.localReady /\ t.publications = r.publications
      /\ t.pending = r.pending /\ t.control = r.control
  BY JoinFacts DEF JoinTypes
<1>5. ready.type = "READY" /\ OwnCopies(j, r)
  BY CopyFacts DEF Copies
<1> HIDE DEF ready, s, t
<1>6. CASE r.live = r.latest /\ joins' = [joins EXCEPT ![j] = s]
  <2>1. r.world.id = r.latest
    BY <1>1, <1>6, JoinFacts DEF LoadIdsNameTokens
  <2>2. OwnCopies(j, s)
    BY <1>2, <1>3, <1>5, <2>1 DEF OwnCopies
  <2> QED BY <1>1, <1>3, <1>6, <2>2, JoinCopiesInside
<1>7. CASE joins' = [joins EXCEPT ![j] = t]
  <2>1. OwnCopies(j, t)
    BY <1>4, <1>5 DEF OwnCopies
  <2> QED BY <1>1, <1>4, <1>7, <2>1, JoinCopiesInside
<1> QED BY <1>1, <1>6, <1>7

LEMMA JoinCaptureCopies ==
    ASSUME TypeOK, FenceInv, CopyInv, NEW j \in Joins, JoinCapture(j) PROVE CopyInv'
<1> DEFINE r == joins[j]
           p == [type |-> "WORLD", epoch |-> r.epoch,
                 origin |-> [by |-> j, token |-> r.world.token, id |-> r.world.id]]
           s == [r EXCEPT !.publications = Append(r.publications, p)]
<1>1. joins' = [joins EXCEPT ![j] = s] /\ UNCHANGED <<peers, link, bulk, up>>
  BY DEF JoinCapture, hostVars, netVars
<1>2. ToSet(Append(r.publications, p)) = ToSet(r.publications) \cup {p}
  <2>1. r.world.token \in Tokens /\ r.world.id \in LoadIds /\ r.epoch \in Nat
    BY JoinFacts, JoinTypesFields DEF Worlds
  <2>2. p \in Packets
    BY <2>1 DEF Packets, Origins
  <2> HIDE DEF p
  <2> QED BY <2>2, JoinFacts, JoinTypesFields, SetOfAppend
<1>3. p.origin.by = j /\ p.origin.id = r.world.id
  OBVIOUS
<1>4. /\ s.world = r.world /\ s.latest = r.latest /\ s.epoch = r.epoch
      /\ s.localReady = r.localReady /\ s.publications = Append(r.publications, p)
      /\ s.pending = r.pending /\ s.control = r.control
  BY JoinFacts DEF JoinTypes
<1> HIDE DEF p, s
<1>5. Copies(j, r, peers[j], bulk[j], up[j], j \in link)
  BY CopyFacts
<1>6. OwnCopies(j, s) /\ (j \notin link => ~s.localReady /\ s.control = NoWorld)
  BY <1>2, <1>3, <1>4, <1>5 DEF Copies, OwnCopies, Silent
<1> QED BY <1>1, <1>4, <1>6, JoinCopiesInside

LEMMA JoinPublishCopies ==
    ASSUME TypeOK, FenceInv, CopyInv, NEW j \in Joins, JoinPublish(j) PROVE CopyInv'
<1> DEFINE r == joins[j]
           p == Head(r.publications)
           f == Stamped(p, r.token, r.epoch)
           taken == [r EXCEPT !.publications = Tail(r.publications)]
           w == [token |-> p.token, id |-> p.id]
           s == [taken EXCEPT !.control = w]
           t == [taken EXCEPT !.pending = Append(taken.pending, f)]
<1>1. /\ j \in link /\ r.publications # <<>> /\ UNCHANGED <<peers, link, bulk, up>>
      /\ \/ joins' = [joins EXCEPT ![j] = s]
         \/ /\ p.type = "WORLD" /\ p.epoch = r.epoch
            /\ joins' = [joins EXCEPT ![j] = t]
         \/ joins' = [joins EXCEPT ![j] = taken]
  BY DEF JoinPublish, hostVars, netVars
<1>2. /\ p \in ToSet(r.publications)
      /\ ToSet(Tail(r.publications)) \subseteq ToSet(r.publications)
      /\ p \in Packets \cup Readies
  <2>1. r.publications \in Seq(Packets \cup Readies)
    BY JoinFacts, JoinTypesFields
  <2>2. /\ p \in ToSet(r.publications)
        /\ ToSet(Tail(r.publications)) \subseteq ToSet(r.publications)
    BY <1>1, <2>1, SetOfTail
  <2> QED BY <2>1, <2>2, SeqElement
<1>3. /\ taken.world = r.world /\ taken.latest = r.latest /\ taken.epoch = r.epoch
      /\ taken.localReady = r.localReady /\ taken.publications = Tail(r.publications)
      /\ taken.pending = r.pending
  <2> HIDE DEF p
  <2> QED BY JoinFacts DEF JoinTypes
<1>4. /\ s.world = r.world /\ s.latest = r.latest /\ s.epoch = r.epoch
      /\ s.localReady = r.localReady /\ s.publications = Tail(r.publications)
      /\ s.pending = r.pending
  <2> HIDE DEF p, w
  <2> QED BY JoinFacts DEF JoinTypes
<1>5. /\ t.world = r.world /\ t.latest = r.latest /\ t.epoch = r.epoch
      /\ t.localReady = r.localReady /\ t.publications = Tail(r.publications)
      /\ t.pending = Append(r.pending, f)
  <2> HIDE DEF p, f
  <2> QED BY JoinFacts DEF JoinTypes
<1>6. OwnCopies(j, r)
  BY CopyFacts DEF Copies
<1> HIDE DEF p, w, taken, s, t
<1>7. CASE joins' = [joins EXCEPT ![j] = s]
  <2>1. OwnCopies(j, s)
    BY <1>2, <1>4, <1>6 DEF OwnCopies
  <2> QED BY <1>1, <1>4, <1>7, <2>1, JoinCopiesInside
<1>8. CASE p.type = "WORLD" /\ p.epoch = r.epoch /\ joins' = [joins EXCEPT ![j] = t]
  <2>1. p.origin.by = j /\ p.origin.id = r.world.id
    BY <1>2, <1>6, <1>8 DEF OwnCopies
  <2>2. p.origin \in Origins
    BY <1>2, <1>8 DEF Packets, Readies
  <2>3. f.origin = p.origin /\ f \in Frames
    BY <2>2, JoinFacts, JoinTypesFields, StampedTypes DEF Stamped
  <2> HIDE DEF f
  <2>4. ToSet(t.pending) = ToSet(r.pending) \cup {f}
    BY <1>5, <2>3, JoinFacts, JoinTypesFields, SetOfAppend
  <2>5. OwnCopies(j, t)
    BY <1>2, <1>5, <1>6, <2>1, <2>3, <2>4 DEF OwnCopies
  <2> QED BY <1>1, <1>5, <1>8, <2>5, JoinCopiesInside
<1>9. CASE joins' = [joins EXCEPT ![j] = taken]
  <2>1. OwnCopies(j, taken)
    BY <1>2, <1>3, <1>6 DEF OwnCopies
  <2> QED BY <1>1, <1>3, <1>9, <2>1, JoinCopiesInside
<1> QED BY <1>1, <1>7, <1>8, <1>9

(* What a join sends is of the load it follows, or later than it.          *)
LEMMA JoinSendCopies ==
    ASSUME TypeOK, FenceInv, CopyInv, NEW j \in Joins, NEW s,
           joins' = [joins EXCEPT ![j] = s], UNCHANGED <<peers, link, bulk>>,
           NEW m \in Frames \cup Readies,
           \/ up' = up
           \/ /\ up' = [up EXCEPT ![j] = Append(@, m)]
              /\ j \in link /\ CopyOf(m) = joins[j].latest
              /\ m.type = "WORLD" => m.origin.by = j,
           s.latest = joins[j].latest, OwnCopies(j, s),
           j \notin link => ~s.localReady /\ s.control = NoWorld
    PROVE  CopyInv'
<1> DEFINE r == joins[j]
<1>1. Copies(j, r, peers[j], bulk[j], up[j], j \in link)
  BY CopyFacts
<1>2. CASE up' = up
  BY <1>2, JoinCopiesInside
<1>3. CASE /\ up' = [up EXCEPT ![j] = Append(@, m)]
           /\ j \in link /\ CopyOf(m) = r.latest
           /\ m.type = "WORLD" => m.origin.by = j
  <2>1. up'[j] = Append(up[j], m) /\ \A k \in Joins : k # j => up'[k] = up[k]
    BY <1>3 DEF TypeOK
  <2>2. peers[j].ready => peers[j].load = r.latest
    BY <1>1, <1>3 DEF Copies, Expected
  <2>3. LaneCopies(j, r.latest, peers[j], Append(up[j], m))
    BY <1>1, <1>3, <2>2, CopyFacts, LaneSent DEF Copies
  <2>4. Copies(j, s, peers[j], bulk[j], Append(up[j], m), TRUE)
    BY <1>1, <1>3, <2>3 DEF Copies, Expected
  <2>5. Copies(j, s, peers[j], bulk'[j], up'[j], j \in link)
    BY <1>3, <2>1, <2>4
  <2> QED BY <2>1, <2>5, JoinCopies
<1> QED BY <1>2, <1>3

LEMMA JoinDrainReadyCopies ==
    ASSUME TypeOK, FenceInv, CopyInv, NEW j \in Joins, JoinDrainReady(j) PROVE CopyInv'
<1> DEFINE r == joins[j]
           m == [type |-> "READY", id |-> r.control.id, token |-> r.control.token]
           s == [r EXCEPT !.control = NoWorld, !.ready = TRUE]
           t == [r EXCEPT !.control = NoWorld]
<1>1. /\ UNCHANGED <<peers, link, bulk>> /\ r.control # NoWorld
      /\ \/ /\ CurrentReady(r, r.control)
            /\ up' = [up EXCEPT ![j] = Append(@, m)] /\ joins' = [joins EXCEPT ![j] = s]
         \/ up' = up /\ joins' = [joins EXCEPT ![j] = t]
  <2>1. /\ [joins EXCEPT ![j].control = NoWorld] = [joins EXCEPT ![j] = t]
        /\ [joins EXCEPT ![j].control = NoWorld, ![j].ready = TRUE]
              = [joins EXCEPT ![j] = s]
    BY DEF TypeOK
  <2> QED BY <2>1 DEF JoinDrainReady, hostVars
<1>2. m \in Readies /\ m.type = "READY" /\ CopyOf(m) = r.control.id
  BY JoinFacts, JoinTypesFields DEF Worlds, Readies, CopyOf
<1>3. /\ s.world = r.world /\ s.latest = r.latest /\ s.epoch = r.epoch
      /\ s.localReady = r.localReady /\ s.publications = r.publications
      /\ s.pending = r.pending /\ s.control = NoWorld
  BY JoinFacts DEF JoinTypes
<1>4. /\ t.world = r.world /\ t.latest = r.latest /\ t.epoch = r.epoch
      /\ t.localReady = r.localReady /\ t.publications = r.publications
      /\ t.pending = r.pending /\ t.control = NoWorld
  BY JoinFacts DEF JoinTypes
<1>5. OwnCopies(j, r) /\ j \in link
  BY <1>1, CopyFacts DEF Copies, Silent
<1> HIDE DEF m, s, t
<1>6. OwnCopies(j, s) /\ OwnCopies(j, t)
  BY <1>3, <1>4, <1>5 DEF OwnCopies
<1>7. CASE /\ CurrentReady(r, r.control)
           /\ up' = [up EXCEPT ![j] = Append(@, m)] /\ joins' = [joins EXCEPT ![j] = s]
  <2>1. CopyOf(m) = r.latest
    BY <1>2, <1>7 DEF CurrentReady
  <2> QED BY <1>1, <1>2, <1>3, <1>5, <1>6, <1>7, <2>1, JoinSendCopies
<1>8. CASE up' = up /\ joins' = [joins EXCEPT ![j] = t]
  BY <1>1, <1>4, <1>5, <1>6, <1>8, JoinCopiesInside
<1> QED BY <1>1, <1>7, <1>8

LEMMA JoinDrainCopies ==
    ASSUME TypeOK, FenceInv, CopyInv, NEW j \in Joins, JoinDrain(j) PROVE CopyInv'
<1> DEFINE r == joins[j]
           f == Head(r.pending)
           s == [r EXCEPT !.pending = Tail(r.pending)]
<1>1. /\ r.pending # <<>> /\ UNCHANGED <<peers, link, bulk>>
      /\ joins' = [joins EXCEPT ![j] = s]
      /\ \/ /\ Fresh(f, r.token, r.epoch) /\ JoinOpen(r)
            /\ up' = [up EXCEPT ![j] = Append(@, f)]
         \/ up' = up
  BY DEF JoinDrain, hostVars
<1>2. f \in ToSet(r.pending) /\ ToSet(Tail(r.pending)) \subseteq ToSet(r.pending) /\ f \in Frames
  <2>1. r.pending \in Seq(Frames)
    BY JoinFacts, JoinTypesFields
  <2> QED BY <1>1, <2>1, SetOfTail, SeqElement
<1>3. /\ s.world = r.world /\ s.latest = r.latest /\ s.epoch = r.epoch
      /\ s.localReady = r.localReady /\ s.publications = r.publications
      /\ s.pending = Tail(r.pending) /\ s.control = r.control
  BY JoinFacts DEF JoinTypes
<1> HIDE DEF f, s
<1>4. Copies(j, r, peers[j], bulk[j], up[j], j \in link)
  BY CopyFacts
<1>5. OwnCopies(j, s) /\ (j \notin link => ~s.localReady /\ s.control = NoWorld)
  BY <1>2, <1>3, <1>4 DEF Copies, OwnCopies, Silent
<1>6. CASE /\ Fresh(f, r.token, r.epoch) /\ JoinOpen(r)
           /\ up' = [up EXCEPT ![j] = Append(@, f)]
  <2>1. j \in link /\ r.world.id = r.latest
    BY <1>4, <1>6 DEF JoinOpen, Copies, OwnCopies, Silent
  <2>2. f.origin.by = j /\ f.origin.id = r.world.id
    BY <1>2, <1>4, <1>6 DEF Fresh, Copies, OwnCopies
  <2>3. CopyOf(f) = r.latest
    BY <1>2, <2>1, <2>2 DEF CopyOf, Frames
  <2> QED BY <1>1, <1>2, <1>3, <1>5, <1>6, <2>1, <2>2, <2>3, JoinSendCopies
<1>7. CASE up' = up
  BY <1>1, <1>3, <1>5, <1>7, JoinCopiesInside
<1> QED BY <1>1, <1>6, <1>7

-----------------------------------------------------------------------------
LEMMA CopyNext == ASSUME TypeOK, FenceInv, CopyInv, [Next]_vars PROVE CopyInv'
<1>1. CASE UNCHANGED vars
  BY <1>1, CopiesUntouched DEF vars, hostVars, netVars
<1>2. CASE HostLoad \/ HostReload \/ ConnectPush \/ HostCapture
  BY <1>2, CopiesUntouched DEF HostLoad, HostReload, ConnectPush, HostCapture, netVars
<1>3. ASSUME NEW j \in Joins, HostStep(j) PROVE CopyInv'
  <2>1. CASE HostDrain(j)
    BY <2>1, CopiesUntouched DEF HostDrain
  <2> QED BY <1>3, <2>1, HostReceiveCopies DEF HostStep
<1>4. ASSUME NEW j \in Joins, JoinStep(j) PROVE CopyInv'
  BY <1>4, JoinReceiveGoCopies, JoinEngineCopies, JoinWorldReadyCopies,
     JoinPublishCopies, JoinDrainReadyCopies, JoinDrainCopies DEF JoinStep
<1>5. CASE Next
  BY <1>2, <1>3, <1>4, <1>5, HostPublishCopies, AdmitCopies, DropCopies,
     JoinCaptureCopies DEF Next
<1> QED BY <1>1, <1>5

(* Only a frame the host accepts adds to what it applies, and a join the   *)
(* host accepts from has heard of nothing later than what the host expects.*)
LEMMA AcceptedCopy ==
    ASSUME TypeOK, FenceInv, CopyInv, [Next]_vars, NEW o \in inbound' \ inbound
    PROVE  o.id = peers[o.by].load
<1>1. PICK j \in Joins : HostReceiveFrame(j)
  <2>1. ~(inbound' \subseteq inbound)
    OBVIOUS
  <2>2. /\ ~UNCHANGED vars /\ ~HostLoad /\ ~HostReload /\ ~ConnectPush /\ ~HostCapture
        /\ ~HostPublish
    BY <2>1 DEF vars, hostVars, HostLoad, HostReload, ConnectPush, HostCapture, HostPublish
  <2>3. ASSUME NEW j \in Joins
        PROVE  /\ ~Admit(j) /\ ~Drop(j) /\ ~JoinCapture(j) /\ ~HostDrain(j)
               /\ ~HostReceiveReady(j) /\ ~JoinStep(j)
    <3>1. ~Admit(j) /\ ~Drop(j) /\ ~HostDrain(j) /\ ~HostReceiveReady(j)
      BY <2>1 DEF Admit, Drop, HostDrain, HostReceiveReady
    <3>2. ~JoinCapture(j) /\ ~JoinStep(j)
      BY <2>1 DEF JoinCapture, JoinStep, JoinReceiveGo, JoinReceiveFrame, JoinFollow,
         JoinReload, JoinWorldReady, JoinPublish, JoinDrainReady, JoinDrain, hostVars
    <3> QED BY <3>1, <3>2
  <2> QED BY <2>2, <2>3 DEF Next, HostStep
<1> DEFINE f == Head(up[j])
<1>2. /\ up[j] # <<>> /\ f.type = "WORLD" /\ o = f.origin /\ Open(j)
  BY <1>1 DEF HostReceiveFrame, Accepts
<1>3. /\ Copies(j, joins[j], peers[j], bulk[j], up[j], j \in link) /\ f \in ToSet(up[j])
  BY <1>2, CopyFacts, SetOfTail
<1> HIDE DEF f
<1>4. /\ f.origin.by = j /\ CopyOf(f) = f.origin.id /\ CopyOf(f) \in Nat
      /\ CopyOf(f) <= joins[j].latest /\ peers[j].load <= CopyOf(f)
  BY <1>2, <1>3, CopyFacts DEF Copies, LaneCopies, Open, CopyOf
<1>5. joins[j].latest = peers[j].load
  BY <1>2, <1>3 DEF Copies, Silent, Expected, Open
<1> QED BY <1>2, <1>4, <1>5, CopyFacts

(* WorldFence.tla's AcceptsCurrentCopy, NetLink.cpp's worldCurrent: two    *)
(* copies of one world carry the same token, and still a frame the host    *)
(* takes from a join was captured in the copy of the LOAD_GO it last sent  *)
(* that join, whatever loads, connect-pushes, drops and re-admissions came *)
(* between.                                                                *)
THEOREM FenceCurrentCopy == Spec => AcceptsCurrentCopy
<1>1. Init => CopyInv
  BY CopyInit
<1>2. (TypeOK /\ FenceInv) /\ CopyInv /\ [Next]_vars => CopyInv'
  BY CopyNext
<1>3. (TypeOK /\ FenceInv) /\ CopyInv /\ [Next]_vars
         => [\A o \in inbound' \ inbound : o.id = peers[o.by].load]_vars
  BY AcceptedCopy
<1> QED BY <1>1, <1>2, <1>3, FenceInductive, PTL DEF Spec, AcceptsCurrentCopy
=============================================================================

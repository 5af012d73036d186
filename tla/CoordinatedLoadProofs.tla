------------------------ MODULE CoordinatedLoadProofs ------------------------
(***************************************************************************)
(* Proofs about CoordinatedLoad: its types, that a join's world is the     *)
(* save that was announced unless the host wrote it anew in the meantime,  *)
(* that a join reports READY for the world its engine runs, and that the   *)
(* host is held while a join it has announced a world to is not in it.     *)
(***************************************************************************)
EXTENDS CoordinatedLoad, SequenceTheorems, FunctionTheorems, FiniteSetTheorems, TLAPS

(* The record of a join.                                                   *)
Transfers == [id : Nat, name : Names, first : Versions, lost : BOOLEAN]
Orders    == [id : Ids, told : Versions, name : Names]
Worlds    == [id : Ids, told : Versions, content : Contents]
JoinStates ==
    [seen : Ids, told : Versions, pend : Ids, issued : BOOLEAN, ready : Ids, live : BOOLEAN,
     latch : Names \cup {None}, recv : Transfers \cup {None},
     copies : [Names -> Contents], signal : Orders \cup {None},
     swap : Worlds \cup {None}, world : Worlds]

(* Every load id is paid for: by a load of the host's player, or by an     *)
(* admission that was queued, then drained, then announced; one drained at *)
(* the title waits for gameplay to start.                                  *)
Armed(name) == IF name = None THEN 0 ELSE 1
Waiting(stage, count) == IF stage = "title" /\ count > 0 THEN 1 ELSE 0
Budget ==
    /\ admits \in 0 .. MaxAdmits /\ loads \in 0 .. MaxLoads
    /\ loadIdOut + Armed(bootstrapName) + Len(conns) + Waiting(phase, peerCount)
           <= admits + loads

EngineTypes ==
    /\ phase \in {"title", "live", "swap"}
    /\ currentGame \in Names
    /\ signal \in [type : {"SAVE", "LOAD"}, name : Names] \cup {None}
    /\ disk \in [Names -> Versions] /\ version \in Nat
SavingTypes ==
    /\ savePending \in Names \cup {None} /\ bootstrapName \in Names \cup {None}
    /\ watchBase \in Versions
SendingTypes ==
    /\ loadXferPending \in Names \cup {None} /\ xferId \in Nat /\ cut \subseteq Names
    /\ send \in [id : Nat, name : Names, first : Versions] \cup {None}
SessionTypes ==
    /\ peerCount \in Nat /\ connected \subseteq Joins
    /\ conns \in Seq(Joins) /\ leaves \in Seq(Joins)
    /\ link \in [Joins -> BOOLEAN] /\ loadIdOut \in Ids
    /\ expectedLoadId \in [Joins -> Ids] /\ scope \in [Joins -> Ids]
    /\ sentGo \in [Joins -> Ids]
LaneTypes ==
    /\ toJoin \in [Joins -> Seq(Messages)] /\ toHost \in [Joins -> Seq(Answers)]
    /\ join \in [Joins -> JoinStates]
LoadTypes ==
    /\ EngineTypes /\ SavingTypes /\ SendingTypes /\ SessionTypes /\ LaneTypes
    /\ Budget

(* A join is in one stage of one load: waiting for a folder, asked of the  *)
(* engine, in the engine, live, reported.                                  *)
Loading(r) ==
    /\ r.pend <= r.seen
    /\ r.latch # None \/ r.signal # None \/ r.swap # None =>
           ~r.live /\ r.ready = 0 /\ r.pend # 0
    /\ r.signal # None => r.swap = None /\ r.latch = None /\ r.signal.id = r.pend
    /\ r.swap # None => r.latch = None /\ r.swap.id = r.pend
    /\ r.live /\ r.pend # 0 => r.world.id = r.pend
    /\ r.ready # 0 => r.world.id = r.ready
OneLoad == \A j \in Joins : Loading(join[j])

(* Who is in the session: those the host has drained and those it has not, *)
(* which are those with a link and those whose leave is on its way.        *)
Member(j) == j \in connected \/ Contains(conns, j)
Seats ==
    /\ IsInjective(conns) /\ IsInjective(leaves)
    /\ \A j \in Joins :
         /\ ~(j \in connected /\ Contains(conns, j))
         /\ ~(link[j] /\ Contains(leaves, j))
         /\ Member(j) <=> (link[j] \/ Contains(leaves, j))
    /\ IsFiniteSet(connected) /\ peerCount = Cardinality(connected)

(* What a link carries is of the announcements made on it.                 *)
Has(lane, type, id) == \E i \in DOMAIN lane : lane[i].type = type /\ lane[i].id = id
Carried ==
    \A j \in Joins :
        /\ sentGo[j] <= loadIdOut /\ scope[j] <= loadIdOut
        /\ \A id \in Ids : /\ Has(toJoin[j], "LOAD_GO", id) => id <= sentGo[j]
                           /\ Has(toHost[j], "READY", id) => id <= loadIdOut
        /\ ~link[j] => sentGo[j] = 0 /\ toJoin[j] = <<>> /\ toHost[j] = <<>>

(* A join that has reported its last LOAD_GO is in that world and will not *)
(* leave it for another before the next one.                               *)
Answered(j) == scope[j] = sentGo[j] \/ Has(toHost[j], "READY", sentGo[j])
InWorld(r, id) == r.world.id = id /\ r.pend = 0 /\ r.seen >= id
Settled ==
    \A j \in Joins : sentGo[j] # 0 /\ Answered(j) => InWorld(join[j], sentGo[j])

(* Once no connect-push is armed, the host waits for the last LOAD_GO it   *)
(* sent to each join.                                                      *)
Awaited ==
    bootstrapName = None =>
        \A j \in connected : sentGo[j] # 0 => expectedLoadId[j] = sentGo[j]

(* A host at the title has no save to watch and has announced nothing.     *)
AtTitle == phase = "title" => savePending = None /\ \A j \in Joins : sentGo[j] = 0

(* A version on its way to a join, as one of the save of that name, is the *)
(* one the host has or one it replaced meanwhile; so is what a join has    *)
(* been told to load, and a transfer's number names one save.              *)
Current(v, n) == v = disk[n] \/ v \in overtaken
Good(content, told) == content = {told} \/ (content \cup {told}) \cap overtaken # {}
Lane(j) == ToSet(toJoin[j])
Receiving(r) == r.recv # None /\ ~r.recv.lost
Knows(j, id, n) ==
    \/ \E b \in Lane(j) : b.type = "SAVE_BEGIN" /\ b.id = id /\ b.name = n
    \/ Receiving(join[j]) /\ join[j].recv.id = id /\ join[j].recv.name = n
LaneFresh(j) ==
    /\ \A m \in Lane(j) : m.type # "SAVE_DONE" => Current(m.version, m.name)
    /\ \A m \in Lane(j) : m.type = "SAVE_DONE" =>
           /\ m.id <= xferId
           /\ \A n \in Names : Knows(j, m.id, n) => Current(m.version, n)
    /\ \A id \in Nat, n \in Names : Knows(j, id, n) =>
           id <= xferId /\ (send # None /\ send.id = id => send.name = n)
JoinFresh(r) ==
    /\ r.recv # None => Current(r.recv.first, r.recv.name)
    /\ r.latch # None => Current(r.told, r.latch)
    /\ r.signal # None => /\ Current(r.signal.told, r.signal.name)
                          /\ Good(r.copies[r.signal.name], r.signal.told)
    /\ r.swap # None => Good(r.swap.content, r.swap.told)
    /\ r.world.id # 0 => Good(r.world.content, r.world.told)
SendFresh == send # None => send.id <= xferId /\ Current(send.first, send.name)
Fresh ==
    /\ SendFresh
    /\ \A j \in Joins : LaneFresh(j) /\ JoinFresh(join[j])

HoldInv == LoadTypes /\ OneLoad /\ Seats /\ Carried /\ Settled /\ Awaited /\ AtTitle

-----------------------------------------------------------------------------
(* Types.                                                                  *)

(* The parts say all that TypeOK says.                                     *)
LEMMA PartsSuffice == LoadTypes => TypeOK
<1> SUFFICES ASSUME LoadTypes PROVE TypeOK
    OBVIOUS
<1>1. /\ phase \in {"title", "live", "swap"}
      /\ currentGame \in Names
      /\ signal \in [type : {"SAVE", "LOAD"}, name : Names] \cup {None}
      /\ disk \in [Names -> Versions] /\ version \in Nat
    BY DEF LoadTypes, EngineTypes
<1>2. /\ {savePending, bootstrapName, loadXferPending} \subseteq Names \cup {None}
      /\ watchBase \in Versions /\ xferId \in Nat /\ cut \subseteq Names
      /\ send \in [id : Nat, name : Names, first : Versions] \cup {None}
    BY DEF LoadTypes, SavingTypes, SendingTypes
<1>3. /\ loadIdOut \in Ids /\ peerCount \in Nat /\ connected \subseteq Joins
      /\ {expectedLoadId, scope, sentGo} \subseteq [Joins -> Ids]
      /\ {conns, leaves} \subseteq Seq(Joins)
      /\ link \in [Joins -> BOOLEAN]
    BY DEF LoadTypes, SessionTypes
<1>4. ASSUME NEW j \in Joins
      PROVE  /\ toJoin[j] \in Seq(Messages) /\ toHost[j] \in Seq(Answers)
             /\ join[j].latch \in Names \cup {None}
             /\ {join[j].seen, join[j].pend, join[j].ready} \subseteq Ids
             /\ join[j].copies \in [Names -> Contents]
    <2>1. join[j] \in JoinStates /\ toJoin[j] \in Seq(Messages)
          /\ toHost[j] \in Seq(Answers)
        BY DEF LoadTypes, LaneTypes
    <2> QED BY <2>1 DEF JoinStates
<1> QED BY <1>1, <1>2, <1>3, <1>4 DEF TypeOK

(* A load id that the budget still covers is in range.                     *)
LEMMA IdInRange ==
    ASSUME LoadTypes, NEW id \in Nat, id <= admits + loads
    PROVE  id \in Ids
<1>1. MaxAdmits \in Nat /\ MaxLoads \in Nat
    BY LoadAssumption
<1>2. admits \in 0 .. MaxAdmits /\ loads \in 0 .. MaxLoads
    BY DEF LoadTypes, Budget
<1> QED BY <1>1, <1>2 DEF Ids

LEMMA TypesInit == Init => LoadTypes
<1> SUFFICES ASSUME Init PROVE LoadTypes
    OBVIOUS
<1>0. 0 \in Ids /\ 0 \in Versions /\ 1 \in Versions /\ {} \in Contents
      /\ {1} \in Contents
    BY LoadAssumption DEF Init, Ids, Versions, Contents
<1>1. EngineTypes
    BY <1>0, LoadAssumption DEF Init, EngineTypes
<1>2. SavingTypes /\ SendingTypes
    BY <1>0 DEF Init, SavingTypes, SendingTypes
<1>3. SessionTypes
    BY <1>0 DEF Init, SessionTypes
<1>4. LaneTypes
    <2>1. PICK old \in {{}, {1}} :
            join = [j \in Joins |-> FreshJoin([n \in Names |->
                                    IF n = currentGame THEN old ELSE {}])]
        BY DEF Init
    <2>2. [n \in Names |-> IF n = currentGame THEN old ELSE {}] \in [Names -> Contents]
        BY <1>0
    <2>3. ASSUME NEW c \in [Names -> Contents] PROVE FreshJoin(c) \in JoinStates
        <3>1. [id |-> 0, told |-> 0, content |-> {}] \in Worlds
            BY <1>0 DEF Worlds
        <3> QED BY <1>0, <3>1 DEF FreshJoin, JoinStates
    <2>4. join \in [Joins -> JoinStates]
        BY <2>1, <2>2, <2>3
    <2> QED BY <2>4 DEF Init, LaneTypes
<1>5. Budget
    BY LoadAssumption DEF Init, Budget, Armed, Waiting
<1> QED BY <1>1, <1>2, <1>3, <1>4, <1>5 DEF LoadTypes

(* Nothing but a save that lands changes what there is to say about types. *)
LEMMA SameVersions ==
    ASSUME UNCHANGED version
    PROVE  /\ Versions' = Versions /\ Contents' = Contents /\ Messages' = Messages
           /\ JoinStates' = JoinStates /\ Worlds' = Worlds
           /\ Transfers' = Transfers /\ Answers' = Answers /\ Orders' = Orders
<1>1. Versions' = Versions
    BY DEF Versions
<1>2. Contents' = Contents
    BY <1>1 DEF Contents
<1>3. Worlds' = Worlds /\ Transfers' = Transfers /\ Messages' = Messages
    BY <1>1, <1>2 DEF Worlds, Transfers, Messages
<1>4. Answers' = Answers /\ Orders' = Orders
    BY <1>1 DEF Answers, Orders
<1> QED BY <1>1, <1>2, <1>3, <1>4 DEF JoinStates

LEMMA PartsKept ==
    ASSUME LoadTypes, UNCHANGED version
    PROVE  /\ UNCHANGED engine => EngineTypes'
           /\ UNCHANGED saving => SavingTypes'
           /\ UNCHANGED sending => SendingTypes'
           /\ UNCHANGED <<session, conns, leaves, link, loadIdOut, scope, sentGo>> =>
                  SessionTypes'
           /\ UNCHANGED <<toJoin, toHost, join>> => LaneTypes'
           /\ UNCHANGED <<admits, loads, loadIdOut, bootstrapName, conns, phase,
                          peerCount>> => Budget'
<1> USE SameVersions
<1>1. UNCHANGED engine => EngineTypes'
    BY DEF LoadTypes, EngineTypes, engine
<1>2. UNCHANGED saving => SavingTypes'
    BY DEF LoadTypes, SavingTypes, saving
<1>3. UNCHANGED sending => SendingTypes'
    BY DEF LoadTypes, SendingTypes, sending
<1>4. UNCHANGED <<session, conns, leaves, link, loadIdOut, scope, sentGo>> =>
          SessionTypes'
    BY DEF LoadTypes, SessionTypes, session
<1>5. UNCHANGED <<toJoin, toHost, join>> => LaneTypes'
    BY DEF LoadTypes, LaneTypes
<1>6. UNCHANGED <<admits, loads, loadIdOut, bootstrapName, conns, phase,
                  peerCount>> => Budget'
    BY DEF LoadTypes, Budget, Armed, Waiting
<1> QED BY <1>1, <1>2, <1>3, <1>4, <1>5, <1>6

LEMMA BroadcastTypes ==
    ASSUME toJoin \in [Joins -> Seq(Messages)], NEW m \in Messages, Broadcast(m),
           UNCHANGED version
    PROVE  toJoin' \in [Joins -> Seq(Messages')]
BY SameVersions DEF Broadcast

LEMMA ConsumeTypes ==
    ASSUME toJoin \in [Joins -> Seq(Messages)], NEW j \in Joins, toJoin[j] # <<>>,
           Consume(j), UNCHANGED version
    PROVE  /\ toJoin' \in [Joins -> Seq(Messages')]
           /\ Head(toJoin[j]) \in Messages
<1>1. toJoin[j] \in Seq(Messages) /\ toJoin[j] # <<>>
    OBVIOUS
<1>2. Tail(toJoin[j]) \in Seq(Messages) /\ Head(toJoin[j]) \in Messages
    BY <1>1
<1> QED BY <1>2, SameVersions DEF Consume

LEMMA BecomesTypes ==
    ASSUME join \in [Joins -> JoinStates], NEW j \in Joins, NEW r \in JoinStates,
           Becomes(j, r), UNCHANGED version
    PROVE  join' \in [Joins -> JoinStates']
BY SameVersions DEF Becomes

LEMMA AnnounceTypes ==
    ASSUME LoadTypes, NEW n \in Names, Announce(n), UNCHANGED version,
           loadIdOut + 1 <= admits + loads \/ loadIdOut + 1 \in Ids
    PROVE  /\ loadIdOut' = loadIdOut + 1 /\ loadIdOut' \in Ids
           /\ toJoin' \in [Joins -> Seq(Messages')]
           /\ expectedLoadId' \in [Joins -> Ids] /\ sentGo' \in [Joins -> Ids]
<1>0. loadIdOut \in Nat /\ loadIdOut + 1 \in Nat
    BY LoadAssumption DEF LoadTypes, SessionTypes, Ids
<1>1. loadIdOut + 1 \in Ids
    BY <1>0, IdInRange
<1>2. disk[n] \in Versions
    BY DEF LoadTypes, EngineTypes
<1>3. [type |-> "LOAD_GO", id |-> loadIdOut + 1, name |-> n, version |-> disk[n]]
          \in Messages
    BY <1>1, <1>2 DEF Messages
<1>4. toJoin' \in [Joins -> Seq(Messages')]
    BY <1>3, BroadcastTypes DEF LoadTypes, LaneTypes, Announce
<1>5. expectedLoadId' \in [Joins -> Ids] /\ sentGo' \in [Joins -> Ids]
    BY <1>1 DEF LoadTypes, SessionTypes, Announce
<1> QED BY <1>1, <1>4, <1>5 DEF Announce

LEMMA BeginSendTypes ==
    ASSUME LoadTypes, NEW n \in Names, BeginSend(n), UNCHANGED version
    PROVE  /\ toJoin' \in [Joins -> Seq(Messages')]
           /\ xferId' \in Nat /\ cut' \subseteq Names
           /\ send' \in [id : Nat, name : Names, first : Versions'] \cup {None}
<1>0. cut' \subseteq Names
    <2>1. cut \subseteq Names /\ (send # None => send.name \in Names)
        BY DEF LoadTypes, SendingTypes
    <2> QED BY <2>1 DEF BeginSend
<1>1. disk[n] \in Versions /\ xferId \in Nat
    BY DEF LoadTypes, EngineTypes, SendingTypes
<1>2. [type |-> "SAVE_BEGIN", id |-> xferId + 1, name |-> n, version |-> disk[n]]
          \in Messages
    BY <1>1 DEF Messages
<1>3. toJoin' \in [Joins -> Seq(Messages')]
    BY <1>2, BroadcastTypes DEF LoadTypes, LaneTypes, BeginSend
<1> QED BY <1>0, <1>1, <1>3, SameVersions DEF BeginSend

-----------------------------------------------------------------------------
(* What each step does to the types.                                       *)

LEMMA TypesAdmit ==
    ASSUME LoadTypes, NEW j \in Joins, Admit(j)
    PROVE  LoadTypes'
<1>0. UNCHANGED <<engine, version, saving, sending, toJoin, toHost, join, phase,
                  peerCount>>
    BY DEF Admit, engine, session
<1>1. SessionTypes'
    BY DEF LoadTypes, SessionTypes, Admit, session
<1>2. Budget'
    <2>1. Len(conns') = Len(conns) + 1
        BY DEF LoadTypes, SessionTypes, Admit
    <2>2. /\ admits' = admits + 1 /\ admits' \in 0 .. MaxAdmits
          /\ UNCHANGED <<loads, loadIdOut, bootstrapName>>
        BY LoadAssumption DEF LoadTypes, Budget, Admit, saving
    <2>3. /\ Armed(bootstrapName') = Armed(bootstrapName)
          /\ Armed(bootstrapName) \in {0, 1}
          /\ Waiting(phase', peerCount') = Waiting(phase, peerCount)
          /\ Waiting(phase, peerCount) \in {0, 1}
        BY <1>0, <2>2 DEF Armed, Waiting
    <2>4. Len(conns) \in Nat /\ loadIdOut \in Nat
        BY LoadAssumption DEF LoadTypes, SessionTypes, Ids
    <2> QED BY <2>1, <2>2, <2>3, <2>4, LoadAssumption DEF LoadTypes, Budget
<1> QED BY <1>0, <1>1, <1>2, PartsKept DEF LoadTypes

LEMMA LostTypes ==
    ASSUME NEW r \in JoinStates
    PROVE  Lost(r) \in JoinStates
<1>1. CASE r.recv = None
    BY <1>1 DEF Lost
<1>2. CASE r.recv # None
    <2>1. r.recv \in Transfers
        BY <1>2 DEF JoinStates
    <2>2. [r.recv EXCEPT !.lost = TRUE] \in Transfers
        BY <2>1 DEF Transfers
    <2> QED BY <1>2, <2>2 DEF Lost, JoinStates
<1> QED BY <1>1, <1>2

LEMMA TypesDrop ==
    ASSUME LoadTypes, NEW j \in Joins, Drop(j)
    PROVE  LoadTypes'
<1>0. UNCHANGED <<engine, version, saving, sending, admits, loads, loadIdOut,
                  bootstrapName, conns, phase, peerCount>>
    BY DEF Drop, engine, saving, session, bounds
<1>1. SessionTypes'
    BY LoadAssumption DEF LoadTypes, SessionTypes, Drop, session, Ids
<1>2. LaneTypes'
    <2>1. Lost(join[j]) \in JoinStates
        BY LostTypes DEF LoadTypes, LaneTypes
    <2>2. join' \in [Joins -> JoinStates']
        BY <1>0, <2>1, BecomesTypes DEF Drop, LoadTypes, LaneTypes
    <2>3. toJoin' \in [Joins -> Seq(Messages)] /\ toHost' \in [Joins -> Seq(Answers)]
        BY DEF LoadTypes, LaneTypes, Drop
    <2> QED BY <1>0, <2>2, <2>3, SameVersions DEF LaneTypes
<1> QED BY <1>0, <1>1, <1>2, PartsKept DEF LoadTypes

(* peerCount never goes below zero.                                        *)
LEMMA MaxZero ==
    ASSUME NEW x \in Int
    PROVE  /\ Max({0, x}) \in Nat
           /\ x >= 0 => Max({0, x}) = x
           /\ ~(x >= 0) => Max({0, x}) = 0
<1>1. \E m \in {0, x} : \A y \in {0, x} : m >= y
    <2>1. CASE x >= 0
        BY <2>1
    <2>2. CASE ~(x >= 0)
        BY <2>2
    <2> QED BY <2>1, <2>2
<1>2. Max({0, x}) \in {0, x} /\ \A y \in {0, x} : Max({0, x}) >= y
    BY <1>1 DEF Max
<1> QED BY <1>2

LEMMA SaveTypesKept ==
    ASSUME LoadTypes, NEW n \in Names, Save(n), phase' \in {"title", "live", "swap"}
    PROVE  /\ EngineTypes' /\ UNCHANGED version
           /\ savePending' \in Names \cup {None} /\ watchBase' \in Versions'
<1>1. UNCHANGED version
    BY DEF Save
<1> QED BY <1>1, SameVersions DEF Save, Ask, LoadTypes, EngineTypes

(* The pieces of the budget are numbers.                                   *)
LEMMA BudgetNumbers ==
    ASSUME LoadTypes
    PROVE  /\ loadIdOut \in Nat /\ admits \in Nat /\ loads \in Nat
           /\ Len(conns) \in Nat
           /\ Armed(bootstrapName) \in {0, 1} /\ Armed(bootstrapName)' \in {0, 1}
           /\ Waiting(phase, peerCount) \in {0, 1}
           /\ Waiting(phase, peerCount)' \in {0, 1}
BY LoadAssumption DEF LoadTypes, SessionTypes, Budget, Armed, Waiting, Ids

(* armConnectPush keeps the types.                                         *)
LEMMA ArmTypes ==
    ASSUME LoadTypes, ArmConnectPush, phase' \in {"live", "swap"}
    PROVE  EngineTypes' /\ SavingTypes' /\ UNCHANGED version
<1>1. currentGame \in Names /\ Save(currentGame) /\ bootstrapName' = currentGame
    BY DEF ArmConnectPush, LoadTypes, EngineTypes
<1> QED BY <1>1, SaveTypesKept DEF SavingTypes

LEMMA TypesGameplayStart ==
    ASSUME LoadTypes, GameplayStart
    PROVE  LoadTypes'
<1>0. /\ UNCHANGED <<sending, session, conns, leaves, link, loadIdOut, scope, sentGo,
                     toJoin, toHost, join, admits, loads>>
      /\ phase = "title" /\ phase' = "live"
    BY DEF GameplayStart, net, bounds
<1>1. EngineTypes' /\ SavingTypes' /\ UNCHANGED version
    <2>1. CASE peerCount > 0
        BY <1>0, <2>1, ArmTypes DEF GameplayStart
    <2>2. CASE ~(peerCount > 0)
        <3>1. UNCHANGED <<currentGame, signal, disk, version, saving>>
            BY <2>2 DEF GameplayStart
        <3> QED BY <1>0, <3>1, SameVersions, PartsKept DEF LoadTypes, EngineTypes
    <2> QED BY <2>1, <2>2
<1>2. Budget'
    <2>1. Armed(bootstrapName)' + Waiting(phase, peerCount)'
              <= Armed(bootstrapName) + Waiting(phase, peerCount)
        <3>1. Waiting(phase, peerCount)' = 0
            BY <1>0 DEF Waiting
        <3>2. CASE peerCount > 0
            BY <1>0, <3>1, <3>2, BudgetNumbers DEF Waiting
        <3>3. CASE ~(peerCount > 0)
            BY <3>1, <3>3, BudgetNumbers DEF GameplayStart, saving
        <3> QED BY <3>2, <3>3
    <2> QED BY <1>0, <2>1, BudgetNumbers DEF LoadTypes, Budget
<1> QED BY <1>0, <1>1, <1>2, PartsKept DEF LoadTypes

LEMMA TypesProcessNetEvents ==
    ASSUME LoadTypes, ProcessNetEvents
    PROVE  LoadTypes'
<1>0. UNCHANGED <<sending, loadIdOut, link, toJoin, toHost, join, sentGo, admits, loads,
                  phase>>
    BY DEF ProcessNetEvents, BakeForConnects, net, bounds
<1>1. EngineTypes' /\ SavingTypes' /\ UNCHANGED version
    <2>1. CASE conns = <<>> \/ phase = "title"
        <3>1. UNCHANGED <<engine, saving, version>>
            BY <1>0, <2>1 DEF ProcessNetEvents, BakeForConnects, engine
        <3> QED BY <3>1, PartsKept
    <2>2. CASE ~(conns = <<>> \/ phase = "title")
        <3>1. ArmConnectPush /\ phase' \in {"live", "swap"}
            BY <1>0, <2>2 DEF ProcessNetEvents, BakeForConnects, LoadTypes, EngineTypes
        <3> QED BY <3>1, ArmTypes
    <2> QED BY <2>1, <2>2
<1>2. ToSet(conns) \subseteq Joins /\ Len(conns) \in Nat /\ Len(leaves) \in Nat
    BY DEF LoadTypes, SessionTypes, ToSet
<1>3. /\ peerCount' \in Nat
      /\ conns = <<>> /\ peerCount' > 0 => peerCount > 0
    <2>1. peerCount + Len(conns) - Len(leaves) \in Int /\ peerCount \in Nat
        BY <1>2 DEF LoadTypes, SessionTypes
    <2>2. /\ peerCount' \in Nat
          /\ peerCount + Len(conns) - Len(leaves) >= 0 =>
                 peerCount' = peerCount + Len(conns) - Len(leaves)
          /\ ~(peerCount + Len(conns) - Len(leaves) >= 0) => peerCount' = 0
        BY <2>1, MaxZero DEF ProcessNetEvents
    <2>3. conns = <<>> => Len(conns) = 0
        OBVIOUS
    <2> QED BY <1>2, <2>1, <2>2, <2>3
<1>4. 0 \in Ids
    BY LoadAssumption DEF Ids
<1>5. expectedLoadId' \in [Joins -> Ids] /\ scope' \in [Joins -> Ids]
    BY <1>4 DEF ProcessNetEvents, LoadTypes, SessionTypes
<1>6. SessionTypes'
    BY <1>0, <1>2, <1>3, <1>5 DEF ProcessNetEvents, LoadTypes, SessionTypes
<1>7. Budget'
    <2>1. Armed(bootstrapName)' + Len(conns') + Waiting(phase, peerCount)'
              <= Armed(bootstrapName) + Len(conns) + Waiting(phase, peerCount)
        <3>0. Len(conns') = 0
            BY DEF ProcessNetEvents
        <3>1. CASE conns = <<>>
            <4>1. Armed(bootstrapName)' = Armed(bootstrapName) /\ Len(conns) = 0
                BY <3>1 DEF ProcessNetEvents, BakeForConnects, saving
            <4>2. Waiting(phase, peerCount)' <= Waiting(phase, peerCount)
                BY <1>0, <1>3, <3>1 DEF Waiting
            <4> QED BY <3>0, <4>1, <4>2, BudgetNumbers
        <3>2. CASE conns # <<>> /\ phase = "title"
            <4>1. Armed(bootstrapName)' = Armed(bootstrapName) /\ Len(conns) >= 1
                BY <3>2 DEF ProcessNetEvents, BakeForConnects, saving, LoadTypes,
                    SessionTypes
            <4> QED BY <1>2, <3>0, <4>1, BudgetNumbers
        <3>3. CASE conns # <<>> /\ phase # "title"
            <4>1. Waiting(phase, peerCount)' = 0 /\ Len(conns) >= 1
                BY <1>0, <3>3 DEF Waiting, LoadTypes, SessionTypes
            <4> QED BY <1>2, <3>0, <4>1, BudgetNumbers
        <3> QED BY <3>1, <3>2, <3>3
    <2>2. Len(conns') \in Nat
        BY DEF ProcessNetEvents
    <2>3. loadIdOut + Armed(bootstrapName) + Len(conns) + Waiting(phase, peerCount)
              <= admits + loads
          /\ admits \in 0 .. MaxAdmits /\ loads \in 0 .. MaxLoads
        BY DEF LoadTypes, Budget
    <2>4. UNCHANGED <<loadIdOut, admits, loads>>
        BY <1>0
    <2> DEFINE old == Armed(bootstrapName) + Len(conns) + Waiting(phase, peerCount)
               new == Armed(bootstrapName)' + Len(conns') + Waiting(phase, peerCount)'
    <2>5. old \in Nat /\ new \in Nat /\ loadIdOut \in Nat /\ admits \in Nat /\ loads \in Nat
        BY <2>2, BudgetNumbers
    <2>6. loadIdOut + old <= admits + loads
        BY <2>3, BudgetNumbers
    <2>7. new <= old
        BY <2>1
    <2>8. loadIdOut + new <= admits + loads
        <3> HIDE DEF old, new
        <3> QED BY <2>5, <2>6, <2>7
    <2>9. loadIdOut + Armed(bootstrapName)' + Len(conns') + Waiting(phase, peerCount)'
              <= admits + loads
        BY <2>2, <2>8, BudgetNumbers
    <2> QED BY <2>3, <2>4, <2>9 DEF Budget
<1> QED BY <1>0, <1>1, <1>6, <1>7, PartsKept DEF LoadTypes

LEMMA TypesSaveEdge ==
    ASSUME LoadTypes, NEW n \in Names, SaveEdge(n)
    PROVE  LoadTypes'
<1>0. UNCHANGED <<bootstrapName, sending, session, loadIdOut, scope, conns, leaves, link,
                  toJoin, toHost, join, sentGo, admits, loads, phase, peerCount>>
    BY DEF SaveEdge, net, session
<1>1. /\ EngineTypes' /\ UNCHANGED version
      /\ savePending' \in Names \cup {None} /\ watchBase' \in Versions'
    <2>1. Save(n) /\ phase' \in {"title", "live", "swap"}
        BY DEF SaveEdge, LoadTypes, EngineTypes
    <2> QED BY <2>1, SaveTypesKept
<1>2. SavingTypes'
    BY <1>0, <1>1 DEF LoadTypes, SavingTypes
<1> QED BY <1>0, <1>1, <1>2, PartsKept DEF LoadTypes

(* More versions, and everything that is made of them.                     *)
LEMMA MoreVersions ==
    ASSUME version \in Nat, version' = version + 1
    PROVE  /\ Versions \subseteq Versions' /\ version + 1 \in Versions'
           /\ Messages \subseteq Messages' /\ Answers' = Answers
           /\ JoinStates \subseteq JoinStates'
<1>1. Versions \subseteq Versions' /\ version + 1 \in Versions'
    BY DEF Versions
<1>2. Contents \subseteq Contents'
    BY <1>1 DEF Contents
<1>3. Messages \subseteq Messages' /\ Answers' = Answers
    BY <1>1 DEF Messages, Answers
<1>4. Worlds \subseteq Worlds' /\ Transfers \subseteq Transfers' /\ Orders \subseteq Orders'
    BY <1>1, <1>2 DEF Worlds, Transfers, Orders
<1>5. [Names -> Contents] \subseteq [Names -> Contents']
    BY <1>2
<1>6. JoinStates \subseteq JoinStates'
    BY <1>1, <1>4, <1>5 DEF JoinStates
<1> QED BY <1>1, <1>3, <1>6

LEMMA TypesSaveLands ==
    ASSUME LoadTypes, SaveLands
    PROVE  LoadTypes'
<1>1. /\ signal # None /\ signal' = None
      /\ version' = version + 1
      /\ disk' = [disk EXCEPT ![signal.name] = version + 1]
      /\ UNCHANGED <<phase, currentGame, saving, sending, session, loadIdOut, scope,
                     conns, leaves, net, join, sentGo, bounds>>
    BY DEF SaveLands, Asked
<1>2. version \in Nat
    BY DEF LoadTypes, EngineTypes
<1>3. /\ Versions \subseteq Versions' /\ version + 1 \in Versions'
      /\ Messages \subseteq Messages' /\ Answers' = Answers
      /\ JoinStates \subseteq JoinStates'
    BY <1>1, <1>2, MoreVersions
<1>4. EngineTypes'
    BY <1>1, <1>3 DEF LoadTypes, EngineTypes
<1>5. SavingTypes'
    BY <1>1, <1>3 DEF LoadTypes, SavingTypes, saving
<1>6. SendingTypes'
    BY <1>1, <1>3 DEF LoadTypes, SendingTypes, sending
<1>7. SessionTypes' /\ Budget'
    BY <1>1 DEF LoadTypes, SessionTypes, Budget, Armed, Waiting, session, net, bounds,
        saving
<1>8. LaneTypes'
    <2>1. ASSUME NEW s \in Seq(Messages) PROVE s \in Seq(Messages')
        BY <1>3
    <2>2. UNCHANGED <<toJoin, toHost, join>>
        BY <1>1 DEF net
    <2> QED BY <1>3, <2>1, <2>2 DEF LoadTypes, LaneTypes
<1> QED BY <1>4, <1>5, <1>6, <1>7, <1>8 DEF LoadTypes

LEMMA TypesWatchSettled ==
    ASSUME LoadTypes, WatchSettled
    PROVE  LoadTypes'
<1>0. /\ UNCHANGED <<engine, version, scope, conns, leaves, link, toHost, join, admits,
                     loads, peerCount, connected, phase>>
      /\ savePending \in Names /\ savePending' = None /\ watchBase' = 0
    BY DEF WatchSettled, engine, bounds, session, LoadTypes, SavingTypes
<1>1. EngineTypes' /\ Versions' = Versions /\ 0 \in Versions
      /\ Answers' = Answers /\ JoinStates' = JoinStates
    BY <1>0, PartsKept, SameVersions DEF LoadTypes, EngineTypes, Versions
<1>2. CASE bootstrapName = savePending
    <2>1. Announce(savePending) /\ bootstrapName' = None /\ UNCHANGED <<sending, version>>
        BY <1>0, <1>2 DEF WatchSettled
    <2>0. phase # "title"
        BY DEF WatchSettled
    <2>2. bootstrapName # None
        BY <1>0, <1>2, LoadAssumption
    <2>3. loadIdOut + 1 + Len(conns) <= admits + loads /\ Len(conns) \in Nat
          /\ loadIdOut \in Nat
        <3>1. Armed(bootstrapName) = 1 /\ Waiting(phase, peerCount) = 0
            BY <2>0, <2>2 DEF Armed, Waiting
        <3> QED BY <3>1, BudgetNumbers DEF LoadTypes, Budget
    <2>4. loadIdOut + 1 <= admits + loads
        <3>1. admits \in Nat /\ loads \in Nat
            BY LoadAssumption DEF LoadTypes, Budget
        <3> QED BY <2>3, <3>1
    <2>5. /\ loadIdOut' = loadIdOut + 1 /\ loadIdOut' \in Ids
          /\ toJoin' \in [Joins -> Seq(Messages')]
          /\ expectedLoadId' \in [Joins -> Ids] /\ sentGo' \in [Joins -> Ids]
        BY <1>0, <2>1, <2>4, AnnounceTypes
    <2>6. SavingTypes' /\ SendingTypes'
        BY <1>0, <1>1, <2>1, PartsKept DEF SavingTypes
    <2>7. SessionTypes' /\ LaneTypes'
        BY <1>0, <1>1, <2>5 DEF LoadTypes, SessionTypes, LaneTypes
    <2>8. Budget'
        <3>1. Armed(bootstrapName') = 0 /\ Waiting(phase', peerCount') = 0
            BY <1>0, <2>0, <2>1 DEF Armed, Waiting
        <3> QED BY <1>0, <2>3, <2>5, <3>1 DEF LoadTypes, Budget
    <2> QED BY <1>1, <2>6, <2>7, <2>8 DEF LoadTypes
<1>3. CASE bootstrapName # savePending
    <2>1. /\ UNCHANGED <<bootstrapName, loadXferPending, session, loadIdOut, sentGo>>
          /\ IF peerCount > 0 THEN BeginSend(savePending)
             ELSE UNCHANGED <<send, xferId, cut, toJoin>>
        BY <1>3 DEF WatchSettled
    <2>2. SessionTypes' /\ Budget'
        BY <1>0, <2>1, PartsKept
    <2>3. SavingTypes'
        BY <1>0, <1>1, <2>1 DEF LoadTypes, SavingTypes
    <2>4. SendingTypes' /\ LaneTypes'
        <3>1. CASE peerCount > 0
            <4>1. /\ toJoin' \in [Joins -> Seq(Messages')]
                  /\ xferId' \in Nat /\ cut' \subseteq Names
                  /\ send' \in [id : Nat, name : Names, first : Versions'] \cup {None}
                BY <1>0, <2>1, <3>1, BeginSendTypes
            <4> QED BY <1>0, <1>1, <2>1, <4>1 DEF LoadTypes, SendingTypes, LaneTypes
        <3>2. CASE ~(peerCount > 0)
            BY <1>0, <2>1, <3>2, PartsKept DEF sending
        <3> QED BY <3>1, <3>2
    <2> QED BY <1>1, <2>2, <2>3, <2>4 DEF LoadTypes
<1> QED BY <1>2, <1>3

LEMMA TypesHostLoad ==
    ASSUME LoadTypes, NEW n \in Names, HostLoad(n)
    PROVE  LoadTypes'
<1>0. /\ UNCHANGED <<phase, disk, version, bootstrapName, loadXferPending, xferId, cut,
                     peerCount, connected, scope, conns, leaves, link, toHost, join,
                     admits>>
      /\ signal' = [type |-> "LOAD", name |-> n] /\ currentGame' = n
      /\ savePending' = None /\ watchBase' = 0 /\ send' = None
      /\ Announce(n) /\ loads < MaxLoads /\ loads' = loads + 1
    BY DEF HostLoad, Ask
<1>1. Versions' = Versions /\ 0 \in Versions /\ Answers' = Answers
      /\ JoinStates' = JoinStates
    BY <1>0, SameVersions DEF LoadTypes, EngineTypes, Versions
<1>2. EngineTypes' /\ SavingTypes' /\ SendingTypes'
    BY <1>0, <1>1 DEF LoadTypes, EngineTypes, SavingTypes, SendingTypes
<1>3. /\ loadIdOut + Armed(bootstrapName) + Len(conns) + Waiting(phase, peerCount)
             <= admits + loads
      /\ admits \in 0 .. MaxAdmits /\ loads \in 0 .. MaxLoads
    BY DEF LoadTypes, Budget
<1>4. loadIdOut + 1 \in Ids
    BY <1>0, <1>3, BudgetNumbers, LoadAssumption DEF Ids
<1>5. /\ loadIdOut' = loadIdOut + 1 /\ loadIdOut' \in Ids
      /\ toJoin' \in [Joins -> Seq(Messages')]
      /\ expectedLoadId' \in [Joins -> Ids] /\ sentGo' \in [Joins -> Ids]
    BY <1>0, <1>4, AnnounceTypes
<1>6. SessionTypes' /\ LaneTypes'
    BY <1>0, <1>1, <1>5 DEF LoadTypes, SessionTypes, LaneTypes
<1>7. Budget'
    <2>1. Armed(bootstrapName)' = Armed(bootstrapName) /\ Len(conns') = Len(conns)
          /\ Waiting(phase, peerCount)' = Waiting(phase, peerCount)
        BY <1>0 DEF Armed, Waiting
    <2> QED BY <1>0, <1>3, <1>5, <2>1, BudgetNumbers, LoadAssumption DEF Budget
<1> QED BY <1>2, <1>6, <1>7 DEF LoadTypes

LEMMA TypesSwapStart ==
    ASSUME LoadTypes, SwapStart
    PROVE  LoadTypes'
<1>0. /\ UNCHANGED <<version, saving, sending, session, conns, leaves, link, loadIdOut,
                     scope, sentGo, toJoin, toHost, join>>
      /\ UNCHANGED <<admits, loads, bootstrapName>>
    BY DEF SwapStart, net, bounds, saving
<1>1. EngineTypes'
    BY SameVersions DEF LoadTypes, EngineTypes, SwapStart
<1>2. Budget'
    <2>1. Armed(bootstrapName)' = Armed(bootstrapName) /\ Waiting(phase, peerCount)' = 0
        BY <1>0 DEF Armed, Waiting, SwapStart
    <2> QED BY <1>0, <2>1, BudgetNumbers DEF LoadTypes, Budget
<1> QED BY <1>0, <1>1, <1>2, PartsKept DEF LoadTypes

LEMMA TypesSwapEnd ==
    ASSUME LoadTypes, SwapEnd
    PROVE  LoadTypes'
<1>0. /\ UNCHANGED <<version, saving, sending, session, conns, leaves, link, loadIdOut,
                     sentGo, toJoin, toHost, join>>
      /\ UNCHANGED <<admits, loads, bootstrapName>>
    BY DEF SwapEnd, net, bounds, saving
<1>1. EngineTypes'
    BY SameVersions DEF LoadTypes, EngineTypes, SwapEnd
<1>2. 0 \in Ids
    BY LoadAssumption DEF Ids
<1>3. scope' \in [Joins -> Ids]
    BY <1>2 DEF SwapEnd
<1>4. SessionTypes'
    BY <1>0, <1>3 DEF LoadTypes, SessionTypes, session
<1>5. Budget'
    <2>1. Armed(bootstrapName)' = Armed(bootstrapName) /\ Waiting(phase, peerCount)' = 0
        BY <1>0 DEF Armed, Waiting, SwapEnd
    <2> QED BY <1>0, <2>1, BudgetNumbers DEF LoadTypes, Budget
<1> QED BY <1>0, <1>1, <1>4, <1>5, PartsKept DEF LoadTypes

LEMMA TypesHostReceive ==
    ASSUME LoadTypes, NEW j \in Joins, HostReceive(j)
    PROVE  LoadTypes'
<1> DEFINE m == Head(toHost[j])
<1>0. /\ UNCHANGED <<engine, version, saving, send, xferId, cut, session, loadIdOut,
                     conns, leaves, link, toJoin, join, sentGo, phase, peerCount>>
      /\ UNCHANGED <<admits, loads, bootstrapName>>
      /\ toHost[j] # <<>> /\ toHost' = [toHost EXCEPT ![j] = Tail(toHost[j])]
      /\ loadXferPending' = IF m.type = "LOAD_NACK" /\ AcceptsNack(m)
                             THEN m.name ELSE loadXferPending
      /\ scope' = IF m.type = "READY" /\ m.id = loadIdOut /\ phase # "swap"
                   THEN [scope EXCEPT ![j] = m.id] ELSE scope
    BY DEF HostReceive, engine, saving, session, bounds
<1>1. toHost[j] \in Seq(Answers)
    BY DEF LoadTypes, LaneTypes
<1>2. m \in Answers /\ Tail(toHost[j]) \in Seq(Answers)
    BY <1>0, <1>1
<1>3. m.id \in Ids /\ (m.type = "LOAD_NACK" => m.name \in Names)
    BY <1>2 DEF Answers
<1> HIDE DEF m
<1>4. toHost' \in [Joins -> Seq(Answers)]
    BY <1>0, <1>2 DEF LoadTypes, LaneTypes
<1>5. LaneTypes'
    BY <1>0, <1>4, SameVersions DEF LoadTypes, LaneTypes
<1>6. scope' \in [Joins -> Ids]
    BY <1>0, <1>3 DEF LoadTypes, SessionTypes
<1>7. SessionTypes'
    BY <1>0, <1>6 DEF LoadTypes, SessionTypes, session
<1>8. SendingTypes'
    BY <1>0, <1>3, SameVersions DEF LoadTypes, SendingTypes
<1> QED BY <1>0, <1>5, <1>7, <1>8, PartsKept DEF LoadTypes

LEMMA TypesStartFallback ==
    ASSUME LoadTypes, StartFallback
    PROVE  LoadTypes'
<1>0. /\ UNCHANGED <<engine, version, saving, session, loadIdOut, scope, conns, leaves,
                     link, toHost, join, sentGo, admits, loads, bootstrapName, phase,
                     peerCount>>
      /\ loadXferPending \in Names /\ loadXferPending' = None
      /\ BeginSend(loadXferPending)
    BY DEF StartFallback, LoadTypes, SendingTypes, engine, saving, session, bounds
<1>1. /\ toJoin' \in [Joins -> Seq(Messages')]
      /\ xferId' \in Nat /\ cut' \subseteq Names
      /\ send' \in [id : Nat, name : Names, first : Versions'] \cup {None}
    BY <1>0, BeginSendTypes
<1>2. SendingTypes' /\ LaneTypes'
    BY <1>0, <1>1, SameVersions DEF LoadTypes, SendingTypes, LaneTypes
<1> QED BY <1>0, <1>2, PartsKept DEF LoadTypes

LEMMA TypesFinishSend ==
    ASSUME LoadTypes, FinishSend
    PROVE  LoadTypes'
<1>0. /\ UNCHANGED <<engine, version, saving, session, loadIdOut, scope, conns, leaves,
                     link, toHost, join, sentGo, admits, loads, bootstrapName, phase,
                     peerCount>>
      /\ send # None /\ send' = None
      /\ UNCHANGED <<loadXferPending, xferId>>
      /\ cut' \in {cut, cut \cup {send.name}}
    BY DEF FinishSend, engine, saving, session, bounds
<1>1. disk[send.name] \in Versions /\ send.id \in Nat /\ send.name \in Names
    BY <1>0 DEF LoadTypes, SendingTypes, EngineTypes
<1>2. [type |-> "SAVE_DONE", id |-> send.id, version |-> disk[send.name]] \in Messages
    BY <1>1 DEF Messages
<1>3. toJoin' \in [Joins -> Seq(Messages')]
    <2>1. CASE Broadcast([type |-> "SAVE_DONE", id |-> send.id,
                          version |-> disk[send.name]])
        BY <1>0, <1>2, <2>1, BroadcastTypes DEF LoadTypes, LaneTypes
    <2>2. CASE UNCHANGED toJoin
        BY <1>0, <2>2, SameVersions DEF LoadTypes, LaneTypes
    <2> QED BY <2>1, <2>2 DEF FinishSend
<1>4. SendingTypes' /\ LaneTypes'
    BY <1>0, <1>1, <1>3, SameVersions DEF LoadTypes, SendingTypes, LaneTypes
<1> QED BY <1>0, <1>4, PartsKept DEF LoadTypes

LEMMA TypesHostRestart ==
    ASSUME LoadTypes, HostRestart
    PROVE  LoadTypes'
<1>0. UNCHANGED version /\ 0 \in Ids /\ 0 \in Versions
    BY LoadAssumption DEF HostRestart, Ids, Versions, LoadTypes, EngineTypes
<1>1. EngineTypes'
    BY <1>0, SameVersions DEF HostRestart, LoadTypes, EngineTypes
<1>2. SavingTypes' /\ SendingTypes'
    BY <1>0, SameVersions DEF HostRestart, SavingTypes, SendingTypes
<1>3. SessionTypes'
    BY <1>0 DEF HostRestart, SessionTypes
<1>4. LaneTypes'
    <2>1. ASSUME NEW j \in Joins PROVE Lost(join[j]) \in JoinStates
        BY LostTypes DEF LoadTypes, LaneTypes
    <2>2. join' \in [Joins -> JoinStates]
        BY <2>1 DEF HostRestart
    <2> QED BY <1>0, <2>2, SameVersions DEF HostRestart, LaneTypes
<1>5. Budget'
    BY LoadAssumption DEF HostRestart, LoadTypes, Budget, Armed, Waiting
<1> QED BY <1>1, <1>2, <1>3, <1>4, <1>5 DEF LoadTypes

(* A step of a join's leaves the host alone.                               *)
LEMMA TypesJoin ==
    ASSUME LoadTypes, NEW j \in Joins, NEW r \in JoinStates, UNCHANGED hostVars,
           toJoin' \in [Joins -> Seq(Messages')], toHost' \in [Joins -> Seq(Answers')],
           Becomes(j, r)
    PROVE  LoadTypes'
<1>0. UNCHANGED <<engine, version, saving, sending, session, loadIdOut, scope, conns,
                  leaves, sentGo, link, admits, loads, bootstrapName, phase, peerCount>>
    BY DEF hostVars, engine, saving, session, bounds
<1>1. join' \in [Joins -> JoinStates']
    BY <1>0, BecomesTypes DEF LoadTypes, LaneTypes
<1>2. LaneTypes'
    BY <1>1 DEF LaneTypes
<1> QED BY <1>0, <1>2, PartsKept DEF LoadTypes

LEMMA TypesJoinSaveBegin ==
    ASSUME LoadTypes, NEW j \in Joins, JoinSaveBegin(j)
    PROVE  LoadTypes'
<1> DEFINE m == Head(toJoin[j])
           begun == [id |-> m.id, name |-> m.name, first |-> m.version, lost |-> FALSE]
<1>1. /\ UNCHANGED hostVars /\ UNCHANGED toHost /\ UNCHANGED version
      /\ toJoin[j] # <<>> /\ m.type = "SAVE_BEGIN" /\ Consume(j)
      /\ Becomes(j, [join[j] EXCEPT !.recv = begun])
    BY DEF JoinSaveBegin, Received, hostVars, engine
<1>2. toJoin' \in [Joins -> Seq(Messages')] /\ m \in Messages
    BY <1>1, ConsumeTypes DEF LoadTypes, LaneTypes
<1>3. begun \in Transfers
    BY <1>1, <1>2 DEF Messages, Transfers
<1> HIDE DEF begun
<1>4. [join[j] EXCEPT !.recv = begun] \in JoinStates
    BY <1>3 DEF LoadTypes, LaneTypes, JoinStates
<1>5. toHost' \in [Joins -> Seq(Answers')]
    BY <1>1, SameVersions DEF LoadTypes, LaneTypes
<1> QED BY <1>1, <1>2, <1>4, <1>5, TypesJoin

(* Records of a join, field by field.                                      *)
LEMMA IssueTypes ==
    ASSUME NEW r \in JoinStates, NEW n \in Names
    PROVE  Issue(r, n) \in JoinStates
<1>1. [id |-> r.pend, told |-> r.told, name |-> n] \in Orders
    BY DEF JoinStates, Orders
<1>2. None \in Names \cup {None}
    OBVIOUS
<1> QED BY <1>1, <1>2 DEF Issue, JoinStates

(* What onSaveDone makes of the join's record.                             *)
Verified(r, m) ==
    [r EXCEPT !.recv = None,
              !.copies = [r.copies EXCEPT ![r.recv.name] = {r.recv.first, m.version}]]
Done(r, m) ==
    IF r.recv = None \/ r.recv.id # m.id THEN r
    ELSE IF r.recv.lost THEN [r EXCEPT !.recv = None]
    ELSE IF r.latch = r.recv.name THEN Issue(Verified(r, m), r.recv.name)
    ELSE Verified(r, m)
LEMMA DoneShape ==
    ASSUME NEW j, JoinSaveDone(j)
    PROVE  Becomes(j, Done(join[j], Head(toJoin[j])))
BY DEF JoinSaveDone, Done, Verified, Verifies

LEMMA VerifiedTypes ==
    ASSUME NEW r \in JoinStates, r.recv # None, NEW m, m.version \in Versions
    PROVE  /\ Verified(r, m) \in JoinStates
           /\ r.recv \in Transfers
<1>1. r.recv \in Transfers
    BY DEF JoinStates
<1>2. r.recv.name \in Names /\ r.recv.first \in Versions
    BY <1>1 DEF Transfers
<1>3. {r.recv.first, m.version} \in Contents
    BY <1>2 DEF Contents
<1>4. r.copies \in [Names -> Contents]
    BY DEF JoinStates
<1>5. [r.copies EXCEPT ![r.recv.name] = {r.recv.first, m.version}] \in [Names -> Contents]
    BY <1>2, <1>3, <1>4
<1>6. Verified(r, m) \in JoinStates
    <2> DEFINE c == [r.copies EXCEPT ![r.recv.name] = {r.recv.first, m.version}]
    <2>1. c \in [Names -> Contents]
        BY <1>5
    <2> HIDE DEF c
    <2>2. [r EXCEPT !.recv = None, !.copies = c] \in JoinStates
        BY <2>1 DEF JoinStates
    <2> QED BY <2>2 DEF Verified, c
<1> QED BY <1>1, <1>6

LEMMA DoneTypes ==
    ASSUME NEW r \in JoinStates, NEW m, m.version \in Versions
    PROVE  Done(r, m) \in JoinStates
<1>1. CASE r.recv = None \/ r.recv.id # m.id
    BY <1>1 DEF Done
<1>2. CASE ~(r.recv = None \/ r.recv.id # m.id)
    <2>1. Verified(r, m) \in JoinStates /\ r.recv.name \in Names
        BY <1>2, VerifiedTypes DEF Transfers
    <2>2. Issue(Verified(r, m), r.recv.name) \in JoinStates
        BY <2>1, IssueTypes
    <2>3. [r EXCEPT !.recv = None] \in JoinStates
        BY DEF JoinStates
    <2> QED BY <1>2, <2>1, <2>2, <2>3 DEF Done
<1> QED BY <1>1, <1>2

LEMMA TypesJoinSaveDone ==
    ASSUME LoadTypes, NEW j \in Joins, JoinSaveDone(j)
    PROVE  LoadTypes'
<1> DEFINE m == Head(toJoin[j])
<1>1. /\ UNCHANGED hostVars /\ UNCHANGED toHost /\ UNCHANGED version
      /\ toJoin[j] # <<>> /\ m.type = "SAVE_DONE" /\ Consume(j)
      /\ Becomes(j, Done(join[j], m))
    BY DoneShape DEF JoinSaveDone, Received, hostVars, engine
<1>2. toJoin' \in [Joins -> Seq(Messages')] /\ m \in Messages
    BY <1>1, ConsumeTypes DEF LoadTypes, LaneTypes
<1>3. m.version \in Versions
    BY <1>2 DEF Messages
<1>4. Done(join[j], m) \in JoinStates
    BY <1>3, DoneTypes DEF LoadTypes, LaneTypes
<1>5. toHost' \in [Joins -> Seq(Answers')]
    BY <1>1, SameVersions DEF LoadTypes, LaneTypes
<1> QED BY <1>1, <1>2, <1>4, <1>5, TypesJoin

(* What a new LOAD_GO makes of the join's record.                          *)
Follows(r, m) ==
    [r EXCEPT !.seen = m.id, !.told = m.version, !.pend = m.id, !.issued = FALSE,
              !.ready = 0, !.live = FALSE]
Nack(m) == [type |-> "LOAD_NACK", id |-> m.id, name |-> m.name]
LEMMA LoadGoCases ==
    ASSUME NEW j, JoinLoadGo(j)
    PROVE  LET m == Head(toJoin[j]) IN
           \/ m.id <= join[j].seen /\ UNCHANGED <<join, toHost>>
           \/ /\ ~(m.id <= join[j].seen) /\ UNCHANGED toHost
              /\ Matches(j, m)
              /\ Becomes(j, Issue(Follows(join[j], m), m.name))
           \/ /\ ~(m.id <= join[j].seen)
              /\ Becomes(j, [Follows(join[j], m) EXCEPT !.latch = m.name])
              /\ toHost' = [toHost EXCEPT ![j] = Append(toHost[j], Nack(m))]
BY DEF JoinLoadGo, Follows, Nack

LEMMA FollowsTypes ==
    ASSUME NEW r \in JoinStates, NEW m, m.id \in Ids, m.name \in Names,
           m.version \in Versions
    PROVE  /\ Follows(r, m) \in JoinStates
           /\ Issue(Follows(r, m), m.name) \in JoinStates
           /\ [Follows(r, m) EXCEPT !.latch = m.name] \in JoinStates
<1>1. 0 \in Ids
    BY LoadAssumption DEF Ids
<1>2. Follows(r, m) \in JoinStates
    BY <1>1 DEF Follows, JoinStates
<1>3. [Follows(r, m) EXCEPT !.latch = m.name] \in JoinStates
    BY <1>2 DEF JoinStates
<1> QED BY <1>2, <1>3, IssueTypes

LEMMA TypesJoinLoadGo ==
    ASSUME LoadTypes, NEW j \in Joins, JoinLoadGo(j)
    PROVE  LoadTypes'
<1> DEFINE m == Head(toJoin[j])
<1>1. /\ UNCHANGED hostVars /\ UNCHANGED version
      /\ toJoin[j] # <<>> /\ m.type = "LOAD_GO" /\ Consume(j)
    BY DEF JoinLoadGo, Received, hostVars, engine
<1>2. toJoin' \in [Joins -> Seq(Messages')] /\ m \in Messages
    BY <1>1, ConsumeTypes DEF LoadTypes, LaneTypes
<1>3. m.id \in Ids /\ m.name \in Names /\ m.version \in Versions
    BY <1>1, <1>2 DEF Messages
<1>4. join[j] \in JoinStates /\ toHost[j] \in Seq(Answers)
      /\ toHost \in [Joins -> Seq(Answers)] /\ Answers' = Answers
    BY <1>1, SameVersions DEF LoadTypes, LaneTypes
<1>5. \/ UNCHANGED <<join, toHost>>
      \/ UNCHANGED toHost /\ Becomes(j, Issue(Follows(join[j], m), m.name))
      \/ /\ Becomes(j, [Follows(join[j], m) EXCEPT !.latch = m.name])
         /\ toHost' = [toHost EXCEPT ![j] = Append(toHost[j], Nack(m))]
    BY LoadGoCases
<1> HIDE DEF m
<1>6. CASE UNCHANGED <<join, toHost>>
    <2>1. Becomes(j, join[j]) /\ toHost' \in [Joins -> Seq(Answers')]
        BY <1>4, <1>6 DEF Becomes, LoadTypes, LaneTypes
    <2> QED BY <1>1, <1>2, <1>4, <2>1, TypesJoin
<1>7. CASE UNCHANGED toHost /\ Becomes(j, Issue(Follows(join[j], m), m.name))
    BY <1>1, <1>2, <1>3, <1>4, <1>7, FollowsTypes, TypesJoin
<1>8. CASE /\ Becomes(j, [Follows(join[j], m) EXCEPT !.latch = m.name])
           /\ toHost' = [toHost EXCEPT ![j] = Append(toHost[j], Nack(m))]
    <2>1. Nack(m) \in Answers
        BY <1>3 DEF Nack, Answers
    <2>2. toHost' \in [Joins -> Seq(Answers')]
        BY <1>4, <1>8, <2>1
    <2> QED BY <1>1, <1>2, <1>3, <1>4, <1>8, <2>2, FollowsTypes, TypesJoin
<1> QED BY <1>5, <1>6, <1>7, <1>8

LEMMA TypesJoinSwapStart ==
    ASSUME LoadTypes, NEW j \in Joins, JoinSwapStart(j)
    PROVE  LoadTypes'
<1> DEFINE r == join[j]
           swap == [id |-> r.signal.id, told |-> r.signal.told,
                    content |-> r.copies[r.signal.name]]
<1>1. /\ UNCHANGED hostVars /\ UNCHANGED <<toJoin, toHost>> /\ UNCHANGED version
      /\ r.signal # None
      /\ Becomes(j, [r EXCEPT !.swap = swap, !.signal = None])
    BY DEF JoinSwapStart, hostVars, engine
<1>2. r \in JoinStates
    BY DEF LoadTypes, LaneTypes
<1>3. r.signal \in Orders /\ r.copies \in [Names -> Contents]
    BY <1>1, <1>2 DEF JoinStates
<1>4. swap \in Worlds
    BY <1>3 DEF Orders, Worlds
<1> HIDE DEF r, swap
<1>5. [r EXCEPT !.swap = swap, !.signal = None] \in JoinStates
    BY <1>2, <1>4 DEF JoinStates
<1>6. toJoin' \in [Joins -> Seq(Messages')] /\ toHost' \in [Joins -> Seq(Answers')]
    BY <1>1, SameVersions DEF LoadTypes, LaneTypes
<1> QED BY <1>1, <1>5, <1>6, TypesJoin

LEMMA TypesJoinSwapEnd ==
    ASSUME LoadTypes, NEW j \in Joins, JoinSwapEnd(j)
    PROVE  LoadTypes'
<1> DEFINE r == join[j]
<1>1. /\ UNCHANGED hostVars /\ UNCHANGED <<toJoin, toHost>> /\ UNCHANGED version
      /\ r.swap # None
      /\ Becomes(j, [r EXCEPT !.world = r.swap, !.swap = None, !.live = WorldLive(r)])
    BY DEF JoinSwapEnd, hostVars, engine
<1>2. r \in JoinStates
    BY DEF LoadTypes, LaneTypes
<1>3. r.swap \in Worlds /\ WorldLive(r) \in BOOLEAN
    BY <1>1, <1>2 DEF JoinStates, WorldLive
<1> HIDE DEF r
<1>5. [r EXCEPT !.world = r.swap, !.swap = None, !.live = WorldLive(r)] \in JoinStates
    BY <1>2, <1>3 DEF JoinStates
<1>6. toJoin' \in [Joins -> Seq(Messages')] /\ toHost' \in [Joins -> Seq(Answers')]
    BY <1>1, SameVersions DEF LoadTypes, LaneTypes
<1> QED BY <1>1, <1>5, <1>6, TypesJoin

LEMMA TypesJoinReportReady ==
    ASSUME LoadTypes, NEW j \in Joins, JoinReportReady(j)
    PROVE  LoadTypes'
<1> DEFINE m == [type |-> "READY", id |-> join[j].pend]
<1>1. /\ UNCHANGED hostVars /\ UNCHANGED toJoin /\ UNCHANGED version
      /\ Becomes(j, Reported(join[j]))
      /\ toHost' = [toHost EXCEPT ![j] = Append(toHost[j], m)]
    BY DEF JoinReportReady, hostVars, engine
<1>2. join[j] \in JoinStates /\ 0 \in Ids
    BY LoadAssumption DEF LoadTypes, LaneTypes, Ids
<1>3. Reported(join[j]) \in JoinStates
    BY <1>2 DEF Reported, JoinStates
<1>4. m \in Answers
    BY <1>2 DEF JoinStates, Answers
<1> HIDE DEF m
<1>5. toJoin' \in [Joins -> Seq(Messages')] /\ toHost' \in [Joins -> Seq(Answers')]
    BY <1>1, <1>4, SameVersions DEF LoadTypes, LaneTypes
<1> QED BY <1>1, <1>3, <1>5, TypesJoin

LEMMA TypesStep ==
    ASSUME LoadTypes, [Next]_vars
    PROVE  LoadTypes'
<1>1. CASE HostStep
    BY <1>1, TypesProcessNetEvents, TypesSaveLands, TypesWatchSettled, TypesSwapStart,
       TypesSwapEnd, TypesStartFallback, TypesFinishSend, TypesHostReceive DEF HostStep
<1>2. CASE PlayerStep
    BY <1>2, TypesGameplayStart, TypesHostRestart, TypesSaveEdge, TypesHostLoad,
       TypesAdmit, TypesDrop DEF PlayerStep
<1>3. CASE \E j \in Joins : JoinStep(j)
    BY <1>3, TypesJoinSaveBegin, TypesJoinSaveDone, TypesJoinLoadGo, TypesJoinSwapStart,
       TypesJoinSwapEnd, TypesJoinReportReady DEF JoinStep
<1>4. CASE UNCHANGED vars
    <2>1. UNCHANGED <<engine, version, saving, sending, session, loadIdOut, scope, conns,
                      leaves, link, sentGo, toJoin, toHost, join, admits, loads,
                      bootstrapName, phase, peerCount>>
        BY <1>4 DEF vars, engine, net, bounds, saving, session
    <2> QED BY <2>1, PartsKept DEF LoadTypes
<1> QED BY <1>1, <1>2, <1>3, <1>4 DEF Next

(* Every behaviour keeps the types of the host's and the joins' session    *)
(* state; no load id is handed out that no admission and no load of the    *)
(* player's paid for (queueLoadGo, onConnectPush).                         *)
THEOREM LoadTypesHold == Spec => []TypeOK
<1>1. Init => LoadTypes
    BY TypesInit
<1>2. LoadTypes /\ [Next]_vars => LoadTypes'
    BY TypesStep
<1>3. LoadTypes => TypeOK
    BY PartsSuffice
<1> QED BY <1>1, <1>2, <1>3, PTL DEF Spec

-----------------------------------------------------------------------------
(* One load at a time in a join.                                           *)

LEMMA OneLoadInit == Init => OneLoad
<1> SUFFICES ASSUME Init PROVE OneLoad
    OBVIOUS
<1>1. PICK old \in {{}, {1}} :
        join = [j \in Joins |-> FreshJoin([n \in Names |->
                                IF n = currentGame THEN old ELSE {}])]
    BY DEF Init
<1>2. ASSUME NEW c PROVE Loading(FreshJoin(c))
    BY DEF Loading, FreshJoin
<1> QED BY <1>1, <1>2 DEF OneLoad

(* A step of a join's keeps the others' loads.                             *)
LEMMA OneLoadJoin ==
    ASSUME LoadTypes, OneLoad, NEW j \in Joins, NEW r, Becomes(j, r),
           Loading(r)
    PROVE  OneLoad'
<1>1. join' = [join EXCEPT ![j] = r] /\ join \in [Joins -> JoinStates]
    BY DEF Becomes, LoadTypes, LaneTypes
<1>2. ASSUME NEW k \in Joins PROVE Loading(join'[k])
    <2>1. CASE k = j
        BY <1>1, <2>1
    <2>2. CASE k # j
        BY <1>1, <2>2 DEF OneLoad
    <2> QED BY <2>1, <2>2
<1> QED BY <1>2 DEF OneLoad

LEMMA LostLoading ==
    ASSUME NEW r \in JoinStates, Loading(r)
    PROVE  Loading(Lost(r))
<1> DEFINE l == [r EXCEPT !.recv = [r.recv EXCEPT !.lost = TRUE]]
<1>1. /\ l.seen = r.seen /\ l.pend = r.pend /\ l.ready = r.ready /\ l.live = r.live
      /\ l.latch = r.latch /\ l.signal = r.signal /\ l.swap = r.swap
      /\ l.world = r.world
    BY DEF JoinStates
<1> HIDE DEF l
<1>2. Loading(l)
    BY <1>1 DEF Loading
<1> QED BY <1>2 DEF Lost, l

LEMMA IssueLoading ==
    ASSUME NEW r \in JoinStates, NEW n \in Names, r.signal = None, r.swap = None,
           ~r.live, r.ready = 0, r.pend # 0, r.pend <= r.seen
    PROVE  Loading(Issue(r, n))
BY DEF Issue, Loading, JoinStates

LEMMA DoneLoading ==
    ASSUME NEW r \in JoinStates, NEW m, m.version \in Versions, Loading(r)
    PROVE  Loading(Done(r, m))
<1>1. CASE r.recv = None \/ r.recv.id # m.id
    BY <1>1 DEF Done
<1>2. CASE ~(r.recv = None \/ r.recv.id # m.id)
    <2> DEFINE v == Verified(r, m)
    <2>1. /\ v \in JoinStates /\ r.recv.name \in Names /\ r.recv.name # None
        BY <1>2, VerifiedTypes, LoadAssumption DEF Transfers
    <2>2. /\ v.seen = r.seen /\ v.pend = r.pend /\ v.ready = r.ready /\ v.live = r.live
          /\ v.latch = r.latch /\ v.signal = r.signal /\ v.swap = r.swap
          /\ v.world = r.world
        BY DEF Verified, JoinStates
    <2> HIDE DEF v
    <2>3. Loading(v)
        BY <2>2 DEF Loading
    <2>4. ASSUME r.latch = r.recv.name
          PROVE  Loading(Issue(v, r.recv.name))
        <3>1. /\ v.signal = None /\ v.swap = None /\ ~v.live /\ v.ready = 0
              /\ v.pend # 0 /\ v.pend <= v.seen
            BY <2>1, <2>2, <2>4 DEF Loading
        <3> QED BY <2>1, <3>1, IssueLoading
    <2>5. Loading([r EXCEPT !.recv = None])
        BY DEF Loading, JoinStates
    <2> QED BY <1>2, <2>3, <2>4, <2>5 DEF Done, v
<1> QED BY <1>1, <1>2

LEMMA OneLoadLoadGo ==
    ASSUME LoadTypes, OneLoad, NEW j \in Joins, JoinLoadGo(j), "overlap" \notin Allowed
    PROVE  OneLoad'
<1> DEFINE m == Head(toJoin[j])
           r == join[j]
           f == Follows(r, m)
<1>1. /\ toJoin[j] # <<>> /\ m.type = "LOAD_GO" /\ Consume(j) /\ UNCHANGED version
      /\ r.signal = None /\ r.swap = None
    BY DEF JoinLoadGo, Received, hostVars, engine
<1>2. m \in Messages
    BY <1>1, ConsumeTypes DEF LoadTypes, LaneTypes
<1>3. m.id \in Ids /\ m.name \in Names /\ m.name # None /\ m.version \in Versions
    BY <1>1, <1>2, LoadAssumption DEF Messages
<1>4. \/ UNCHANGED join
      \/ ~(m.id <= r.seen) /\ Becomes(j, Issue(f, m.name))
      \/ ~(m.id <= r.seen) /\ Becomes(j, [f EXCEPT !.latch = m.name])
    BY LoadGoCases
<1>5. r \in JoinStates /\ f \in JoinStates
    BY <1>3, FollowsTypes DEF LoadTypes, LaneTypes
<1>6. /\ f.signal = None /\ f.swap = None /\ ~f.live /\ f.ready = 0
      /\ f.pend = m.id /\ f.seen = m.id
    BY <1>1, <1>5 DEF Follows, JoinStates
<1> HIDE DEF m, r, f
<1>7. m.id \in Nat /\ r.seen \in Nat
    BY <1>3, <1>5, LoadAssumption DEF JoinStates, Ids
<1>8. ASSUME ~(m.id <= r.seen)
      PROVE  Loading(Issue(f, m.name)) /\ Loading([f EXCEPT !.latch = m.name])
    <2>1. f.pend # 0 /\ f.pend <= f.seen
        BY <1>6, <1>7, <1>8
    <2>2. Loading([f EXCEPT !.latch = m.name])
        BY <1>5, <1>6, <2>1 DEF Loading, JoinStates
    <2> QED BY <1>3, <1>5, <1>6, <2>1, <2>2, IssueLoading
<1>9. CASE UNCHANGED join
    BY <1>9 DEF OneLoad
<1> QED BY <1>4, <1>8, <1>9, OneLoadJoin

LEMMA OneLoadStep ==
    ASSUME LoadTypes, OneLoad, [Next]_vars, "overlap" \notin Allowed
    PROVE  OneLoad'
<1>1. ASSUME NEW j \in Joins PROVE join[j] \in JoinStates /\ Loading(join[j])
    BY DEF LoadTypes, LaneTypes, OneLoad
<1>2. ASSUME UNCHANGED join PROVE OneLoad'
    BY <1>2 DEF OneLoad
<1>3. CASE HostStep
    <2>1. UNCHANGED join
        BY <1>3 DEF HostStep, ProcessNetEvents, SaveLands, WatchSettled, SwapStart, SwapEnd,
           StartFallback, FinishSend, HostReceive
    <2> QED BY <1>2, <2>1
<1>4. CASE PlayerStep
    <2>1. CASE HostRestart
        <3>1. join' = [j \in Joins |-> Lost(join[j])]
            BY <2>1 DEF HostRestart
        <3> QED BY <1>1, <3>1, LostLoading DEF OneLoad
    <2>2. ASSUME NEW j \in Joins, Drop(j) PROVE OneLoad'
        <3>1. Becomes(j, Lost(join[j]))
            BY <2>2 DEF Drop
        <3> QED BY <1>1, <3>1, LostLoading, OneLoadJoin
    <2>3. CASE ~HostRestart /\ ~\E j \in Joins : Drop(j)
        <3>1. UNCHANGED join
            BY <1>4, <2>3 DEF PlayerStep, GameplayStart, SaveEdge, HostLoad, Admit
        <3> QED BY <1>2, <3>1
    <2> QED BY <2>1, <2>2, <2>3
<1>5. ASSUME NEW j \in Joins, JoinStep(j) PROVE OneLoad'
    <2> DEFINE r == join[j]
    <2>0. r \in JoinStates /\ Loading(r)
        BY <1>1
    <2>1. CASE JoinSaveBegin(j)
        <3>1. PICK begun : Becomes(j, [r EXCEPT !.recv = begun])
            BY <2>1 DEF JoinSaveBegin
        <3>2. Loading([r EXCEPT !.recv = begun])
            BY <2>0 DEF Loading, JoinStates
        <3> QED BY <3>1, <3>2, OneLoadJoin
    <2>2. CASE JoinSaveDone(j)
        <3>1. Becomes(j, Done(r, Head(toJoin[j])))
            BY <2>2, DoneShape
        <3>2. /\ toJoin[j] # <<>> /\ Consume(j) /\ UNCHANGED version
              /\ Head(toJoin[j]).type = "SAVE_DONE"
            BY <2>2 DEF JoinSaveDone, Received, hostVars, engine
        <3>3. Head(toJoin[j]) \in Messages
            BY <3>2, ConsumeTypes DEF LoadTypes, LaneTypes
        <3>4. Head(toJoin[j]).version \in Versions
            BY <3>3 DEF Messages
        <3> QED BY <2>0, <3>1, <3>4, DoneLoading, OneLoadJoin
    <2>3. CASE JoinLoadGo(j)
        BY <2>3, OneLoadLoadGo
    <2>4. CASE JoinSwapStart(j)
        <3> DEFINE swap == [id |-> r.signal.id, told |-> r.signal.told,
                            content |-> r.copies[r.signal.name]]
                   t == [r EXCEPT !.swap = swap, !.signal = None]
        <3>1. r.signal # None /\ r.swap = None /\ Becomes(j, t)
            BY <2>4 DEF JoinSwapStart
        <3>2. /\ t.seen = r.seen /\ t.pend = r.pend /\ t.ready = r.ready
              /\ t.live = r.live /\ t.latch = r.latch /\ t.signal = None
              /\ t.swap.id = r.signal.id /\ t.world = r.world
            BY <2>0 DEF JoinStates
        <3> HIDE DEF t
        <3>3. Loading(t)
            BY <2>0, <3>1, <3>2 DEF Loading
        <3> QED BY <3>1, <3>3, OneLoadJoin
    <2>5. CASE JoinSwapEnd(j)
        <3> DEFINE t == [r EXCEPT !.world = r.swap, !.swap = None, !.live = WorldLive(r)]
        <3>1. r.swap # None /\ Becomes(j, t)
            BY <2>5 DEF JoinSwapEnd
        <3>2. /\ t.seen = r.seen /\ t.pend = r.pend /\ t.ready = r.ready
              /\ t.latch = r.latch /\ t.signal = r.signal
              /\ t.swap = None /\ t.world = r.swap
            BY <2>0 DEF JoinStates
        <3> HIDE DEF t
        <3>3. Loading(t)
            BY <2>0, <3>1, <3>2 DEF Loading
        <3> QED BY <3>1, <3>3, OneLoadJoin
    <2>6. CASE JoinReportReady(j)
        <3> DEFINE t == Reported(r)
        <3>1. r.live /\ r.pend # 0 /\ Becomes(j, t)
            BY <2>6 DEF JoinReportReady
        <3>2. /\ t.seen = r.seen /\ t.pend = 0 /\ t.ready = r.pend
              /\ t.live = r.live /\ t.latch = r.latch /\ t.signal = r.signal
              /\ t.swap = r.swap /\ t.world = r.world
            BY <2>0 DEF JoinStates, Reported
        <3> HIDE DEF t
        <3>3. r.seen \in Nat
            BY <2>0, LoadAssumption DEF JoinStates, Ids
        <3>4. Loading(t)
            BY <2>0, <3>1, <3>2, <3>3 DEF Loading
        <3> QED BY <3>1, <3>4, OneLoadJoin
    <2> QED BY <1>5, <2>1, <2>2, <2>3, <2>4, <2>5, <2>6 DEF JoinStep
<1>6. CASE UNCHANGED vars
    <2>1. UNCHANGED join
        BY <1>6 DEF vars
    <2> QED BY <1>2, <2>1
<1> QED BY <1>3, <1>4, <1>5, <1>6 DEF Next

(* tickProceduralWorld and readyLoadId: while no LOAD_GO reaches a join    *)
(* whose engine is in a load, a join never reports READY for a world other *)
(* than the one it runs, whatever the players, the network and the host's  *)
(* restarts do.                                                            *)
THEOREM LoadReadyMeansLive ==
    ASSUME "overlap" \notin Allowed
    PROVE  Spec => []ReadyMeansLive
<1>1. Init => LoadTypes /\ OneLoad
    BY TypesInit, OneLoadInit
<1>2. LoadTypes /\ OneLoad /\ [Next]_vars => (LoadTypes /\ OneLoad)'
    BY TypesStep, OneLoadStep
<1>3. LoadTypes /\ OneLoad => ReadyMeansLive
    BY DEF OneLoad, Loading, ReadyMeansLive
<1> QED BY <1>1, <1>2, <1>3, PTL DEF Spec

-----------------------------------------------------------------------------
(* Who is in the session.                                                  *)

LEMMA ContainsAppend ==
    ASSUME NEW S, NEW s \in Seq(S), NEW e \in S, NEW x
    PROVE  Contains(Append(s, e), x) <=> (Contains(s, x) \/ x = e)
<1>1. /\ Len(Append(s, e)) = Len(s) + 1 /\ Len(s) \in Nat
      /\ \A i \in 1 .. Len(s) : Append(s, e)[i] = s[i]
      /\ Append(s, e)[Len(s) + 1] = e
    OBVIOUS
<1>2. 1 .. Len(s) + 1 = (1 .. Len(s)) \cup {Len(s) + 1}
    BY <1>1
<1> QED BY <1>1, <1>2 DEF Contains

LEMMA InToSet ==
    ASSUME NEW S, NEW s \in Seq(S), NEW x
    PROVE  x \in ToSet(s) <=> Contains(s, x)
<1>1. DOMAIN s = 1 .. Len(s)
    OBVIOUS
<1> QED BY <1>1 DEF ToSet, Contains

LEMMA InjectiveAppend ==
    ASSUME NEW S, NEW s \in Seq(S), NEW e \in S, IsInjective(s), ~Contains(s, e)
    PROVE  IsInjective(Append(s, e))
<1>1. /\ DOMAIN Append(s, e) = 1 .. Len(s) + 1 /\ Len(s) \in Nat
      /\ DOMAIN s = 1 .. Len(s)
      /\ \A i \in 1 .. Len(s) : Append(s, e)[i] = s[i]
      /\ Append(s, e)[Len(s) + 1] = e
    OBVIOUS
<1>2. ASSUME NEW a \in 1 .. Len(s) + 1, NEW b \in 1 .. Len(s) + 1,
             Append(s, e)[a] = Append(s, e)[b]
      PROVE  a = b
    <2>1. CASE a \in 1 .. Len(s) /\ b \in 1 .. Len(s)
        BY <1>1, <1>2, <2>1 DEF IsInjective
    <2>2. CASE a \in 1 .. Len(s) /\ b = Len(s) + 1
        BY <1>1, <1>2, <2>2 DEF Contains
    <2>3. CASE a = Len(s) + 1 /\ b \in 1 .. Len(s)
        BY <1>1, <1>2, <2>3 DEF Contains
    <2>4. CASE a = Len(s) + 1 /\ b = Len(s) + 1
        BY <2>4
    <2> QED BY <1>1, <2>1, <2>2, <2>3, <2>4
<1> QED BY <1>1, <1>2 DEF IsInjective

(* A queue without repetitions has as many elements as entries.            *)
LEMMA InjectiveCardinality ==
    ASSUME NEW S, NEW s \in Seq(S), IsInjective(s)
    PROVE  IsFiniteSet(ToSet(s)) /\ Cardinality(ToSet(s)) = Len(s)
<1>1. Len(s) \in Nat /\ DOMAIN s = 1 .. Len(s) /\ s \in [1 .. Len(s) -> ToSet(s)]
    BY DEF ToSet
<1>2. s \in Bijection(1 .. Len(s), ToSet(s))
    <2>1. \A x \in ToSet(s) : \E i \in 1 .. Len(s) : s[i] = x
        BY <1>1 DEF ToSet
    <2>2. \A a, b \in 1 .. Len(s) : s[a] = s[b] => a = b
        BY <1>1 DEF IsInjective
    <2> QED BY <1>1, <2>1, <2>2, Fun_IsBij
<1>3. ExistsBijection(1 .. Len(s), ToSet(s))
    BY <1>2 DEF ExistsBijection
<1>4. IsFiniteSet(1 .. Len(s)) /\ Cardinality(1 .. Len(s)) = Len(s)
    BY <1>1, FS_Interval
<1> QED BY <1>3, <1>4, FS_Bijection

LEMMA SeatsInit == Init => Seats
<1> SUFFICES ASSUME Init PROVE Seats
    OBVIOUS
<1>1. conns = <<>> /\ leaves = <<>> /\ connected = {} /\ peerCount = 0
      /\ link = [j \in Joins |-> FALSE]
    BY DEF Init
<1> QED BY <1>1, FS_EmptySet DEF Seats, Member, Contains, IsInjective

LEMMA SeatsAdmit ==
    ASSUME LoadTypes, Seats, NEW j \in Joins, Admit(j), "edges" \notin Allowed
    PROVE  Seats'
<1>1. /\ ~link[j] /\ ~Contains(leaves, j)
      /\ link' = [link EXCEPT ![j] = TRUE] /\ conns' = Append(conns, j)
      /\ UNCHANGED <<leaves, connected, peerCount>>
    BY DEF Admit, session
<1>2. conns \in Seq(Joins) /\ link \in [Joins -> BOOLEAN]
    BY DEF LoadTypes, SessionTypes
<1>3. ~Member(j)
    BY <1>1 DEF Seats
<1>4. IsInjective(conns') /\ IsInjective(leaves')
    BY <1>1, <1>2, <1>3, InjectiveAppend DEF Seats, Member
<1>5. ASSUME NEW k \in Joins
      PROVE  /\ ~(k \in connected' /\ Contains(conns', k))
             /\ ~(link'[k] /\ Contains(leaves', k))
             /\ Member(k)' <=> (link'[k] \/ Contains(leaves', k))
    <2>1. Contains(conns', k) <=> (Contains(conns, k) \/ k = j)
        BY <1>1, <1>2, ContainsAppend
    <2>2. link'[k] <=> (link[k] \/ k = j)
        BY <1>1, <1>2
    <2> QED BY <1>1, <1>3, <2>1, <2>2, Zenon DEF Seats, Member
<1> QED BY <1>1, <1>4, <1>5 DEF Seats

LEMMA SeatsDrop ==
    ASSUME LoadTypes, Seats, NEW j \in Joins, Drop(j)
    PROVE  Seats'
<1>1. /\ link[j] /\ link' = [link EXCEPT ![j] = FALSE] /\ leaves' = Append(leaves, j)
      /\ UNCHANGED <<conns, connected, peerCount>>
    BY DEF Drop, session
<1>2. leaves \in Seq(Joins) /\ link \in [Joins -> BOOLEAN]
    BY DEF LoadTypes, SessionTypes
<1>3. ~Contains(leaves, j) /\ Member(j)
    BY <1>1 DEF Seats
<1>4. IsInjective(conns') /\ IsInjective(leaves')
    BY <1>1, <1>2, <1>3, InjectiveAppend DEF Seats
<1>5. ASSUME NEW k \in Joins
      PROVE  /\ ~(k \in connected' /\ Contains(conns', k))
             /\ ~(link'[k] /\ Contains(leaves', k))
             /\ Member(k)' <=> (link'[k] \/ Contains(leaves', k))
    <2>1. Contains(leaves', k) <=> (Contains(leaves, k) \/ k = j)
        BY <1>1, <1>2, ContainsAppend
    <2>2. link'[k] <=> (link[k] /\ k # j)
        BY <1>1, <1>2
    <2> QED BY <1>1, <1>3, <2>1, <2>2, Zenon DEF Seats, Member
<1> QED BY <1>1, <1>4, <1>5 DEF Seats

LEMMA SeatsProcessNetEvents ==
    ASSUME LoadTypes, Seats, ProcessNetEvents
    PROVE  Seats'
<1>1. /\ conns' = <<>> /\ leaves' = <<>> /\ UNCHANGED link
      /\ connected' = (connected \cup ToSet(conns)) \ ToSet(leaves)
      /\ peerCount' = Max({0, peerCount + Len(conns) - Len(leaves)})
    BY DEF ProcessNetEvents, net
<1>2. /\ conns \in Seq(Joins) /\ leaves \in Seq(Joins) /\ connected \subseteq Joins
      /\ link \in [Joins -> BOOLEAN]
    BY DEF LoadTypes, SessionTypes
<1>3. /\ \A k : k \in ToSet(conns) <=> Contains(conns, k)
      /\ \A k : k \in ToSet(leaves) <=> Contains(leaves, k)
      /\ ToSet(conns) \subseteq Joins /\ ToSet(leaves) \subseteq Joins
    <2>1. ToSet(conns) \subseteq Joins /\ ToSet(leaves) \subseteq Joins
        BY <1>2 DEF ToSet
    <2> QED BY <1>2, <2>1, InToSet
<1>4. IsInjective(conns') /\ IsInjective(leaves')
    BY <1>1 DEF IsInjective
<1>5. ASSUME NEW k \in Joins
      PROVE  /\ ~(k \in connected' /\ Contains(conns', k))
             /\ ~(link'[k] /\ Contains(leaves', k))
             /\ Member(k)' <=> (link'[k] \/ Contains(leaves', k))
    <2>1. ~Contains(conns', k) /\ ~Contains(leaves', k)
        BY <1>1 DEF Contains
    <2>2. k \in connected' <=> (Member(k) /\ ~Contains(leaves, k))
        BY <1>1, <1>3, Zenon DEF Member
    <2>3. link'[k] <=> link[k]
        BY <1>1
    <2> QED BY <2>1, <2>2, <2>3, Zenon DEF Seats, Member
<1>6. IsFiniteSet(connected') /\ peerCount' = Cardinality(connected')
    <2> DEFINE C == ToSet(conns)
               L == ToSet(leaves)
    <2>1. /\ IsFiniteSet(C) /\ Cardinality(C) = Len(conns)
          /\ IsFiniteSet(L) /\ Cardinality(L) = Len(leaves)
          /\ IsFiniteSet(connected) /\ Cardinality(connected) = peerCount
        BY <1>2, InjectiveCardinality DEF Seats
    <2>2. connected \cap C = {}
        BY <1>2, <1>3 DEF Seats
    <2>3. L \subseteq connected \cup C
        BY <1>3 DEF Seats, Member
    <2> HIDE DEF C, L
    <2>4. /\ IsFiniteSet(connected \cup C)
          /\ Cardinality(connected \cup C) =
                 Cardinality(connected) + Cardinality(C) - Cardinality(connected \cap C)
        BY <2>1, FS_Union
    <2>5. Cardinality(connected \cup C) = peerCount + Len(conns)
        <3>1. Len(conns) \in Nat /\ peerCount \in Nat
            BY <1>2 DEF LoadTypes, SessionTypes
        <3>2. Cardinality(connected \cap C) = 0
            BY <2>2, FS_EmptySet
        <3> QED BY <2>1, <2>4, <3>1, <3>2
    <2>6. (connected \cup C) \cap L = L
        BY <2>3
    <2>7. /\ IsFiniteSet((connected \cup C) \ L)
          /\ Cardinality((connected \cup C) \ L) = peerCount + Len(conns) - Len(leaves)
        <3>1. /\ IsFiniteSet((connected \cup C) \ L)
              /\ Cardinality((connected \cup C) \ L) =
                     Cardinality(connected \cup C) - Cardinality((connected \cup C) \cap L)
            BY <2>4, FS_Difference
        <3>2. Cardinality((connected \cup C) \cap L) = Len(leaves)
            BY <2>1, <2>6, Zenon
        <3>3. Cardinality((connected \cup C) \ L) = (peerCount + Len(conns)) - Len(leaves)
            BY <2>5, <3>1, <3>2, Zenon
        <3>4. peerCount \in Nat /\ Len(conns) \in Nat /\ Len(leaves) \in Nat
            BY <1>2 DEF LoadTypes, SessionTypes
        <3> QED BY <3>1, <3>3, <3>4
    <2>8. peerCount + Len(conns) - Len(leaves) \in Nat
        BY <2>7, FS_CardinalityType
    <2>9. peerCount' = peerCount + Len(conns) - Len(leaves)
        BY <1>1, <2>8, MaxZero
    <2> QED BY <1>1, <2>7, <2>9 DEF C, L
<1> QED BY <1>4, <1>5, <1>6 DEF Seats

LEMMA SeatsStep ==
    ASSUME LoadTypes, Seats, [Next]_vars, "edges" \notin Allowed
    PROVE  Seats'
<1>1. ASSUME UNCHANGED <<conns, leaves, link, connected, peerCount>>
      PROVE  Seats'
    BY <1>1 DEF Seats, Member
<1>2. CASE HostStep
    <2>1. CASE ProcessNetEvents
        BY <2>1, SeatsProcessNetEvents
    <2>2. CASE WatchSettled
        <3>1. UNCHANGED <<conns, leaves, link, connected, peerCount>>
            BY <2>2 DEF WatchSettled, session
        <3> QED BY <1>1, <3>1
    <2>3. CASE ~ProcessNetEvents /\ ~WatchSettled
        <3>1. UNCHANGED <<conns, leaves, link, connected, peerCount>>
            BY <1>2, <2>3 DEF HostStep, SaveLands, SwapStart, SwapEnd, StartFallback,
               FinishSend, HostReceive, session, net
        <3> QED BY <1>1, <3>1
    <2> QED BY <2>1, <2>2, <2>3
<1>3. CASE PlayerStep
    <2>1. CASE HostRestart
        <3>1. conns' = <<>> /\ leaves' = <<>> /\ connected' = {} /\ peerCount' = 0
              /\ link' = [j \in Joins |-> FALSE]
            BY <2>1 DEF HostRestart
        <3> QED BY <3>1, FS_EmptySet DEF Seats, Member, Contains, IsInjective
    <2>2. ASSUME ~HostRestart, \A j \in Joins : ~Admit(j) /\ ~Drop(j)
          PROVE  Seats'
        <3>1. UNCHANGED <<conns, leaves, link, connected, peerCount>>
            BY <1>3, <2>2 DEF PlayerStep, GameplayStart, SaveEdge, HostLoad, session, net
        <3> QED BY <1>1, <3>1
    <2> QED BY <1>3, <2>1, <2>2, SeatsAdmit, SeatsDrop
<1>4. CASE \E j \in Joins : JoinStep(j)
    <2>1. UNCHANGED <<conns, leaves, link, connected, peerCount>>
        BY <1>4 DEF JoinStep, JoinSaveBegin, JoinSaveDone, JoinLoadGo, JoinSwapStart,
           JoinSwapEnd, JoinReportReady, hostVars, session
    <2> QED BY <1>1, <2>1
<1>5. CASE UNCHANGED vars
    <2>1. UNCHANGED <<conns, leaves, link, connected, peerCount>>
        BY <1>5 DEF vars, session, net
    <2> QED BY <1>1, <2>1
<1> QED BY <1>2, <1>3, <1>4, <1>5 DEF Next

-----------------------------------------------------------------------------
(* What the links carry.                                                   *)

LEMMA HasTail ==
    ASSUME NEW S, NEW s \in Seq(S), s # <<>>, NEW type, NEW id,
           Has(Tail(s), type, id)
    PROVE  Has(s, type, id)
<1>1. PICK i \in DOMAIN Tail(s) : Tail(s)[i].type = type /\ Tail(s)[i].id = id
    BY DEF Has
<1>2. /\ Tail(s)[i] = s[i + 1] /\ i + 1 \in DOMAIN s
    <2>1. /\ DOMAIN s = 1 .. Len(s) /\ DOMAIN Tail(s) = 1 .. Len(s) - 1
          /\ Len(s) \in Nat
        OBVIOUS
    <2> QED BY <2>1
<1> QED BY <1>1, <1>2 DEF Has

LEMMA HasHead ==
    ASSUME NEW S, NEW s \in Seq(S), s # <<>>
    PROVE  Has(s, Head(s).type, Head(s).id)
<1>1. 1 \in DOMAIN s /\ s[1] = Head(s)
    OBVIOUS
<1> QED BY <1>1 DEF Has

LEMMA HasAppend ==
    ASSUME NEW S, NEW s \in Seq(S), NEW m \in S, NEW type, NEW id
    PROVE  Has(Append(s, m), type, id) <=>
               (Has(s, type, id) \/ (m.type = type /\ m.id = id))
<1>1. /\ DOMAIN Append(s, m) = (DOMAIN s) \cup {Len(s) + 1}
      /\ \A i \in DOMAIN s : Append(s, m)[i] = s[i]
      /\ Append(s, m)[Len(s) + 1] = m
    OBVIOUS
<1> QED BY <1>1 DEF Has

LEMMA CarriedInit == Init => Carried /\ Settled /\ Awaited /\ AtTitle
<1> SUFFICES ASSUME Init PROVE Carried /\ Settled /\ Awaited /\ AtTitle
    OBVIOUS
<1>1. /\ \A j \in Joins : /\ sentGo[j] = 0 /\ scope[j] = 0
                          /\ toJoin[j] = <<>> /\ toHost[j] = <<>>
      /\ loadIdOut = 0 /\ connected = {}
    BY DEF Init
<1>2. ASSUME NEW type, NEW id PROVE ~Has(<<>>, type, id)
    BY DEF Has
<1>3. Carried
    BY <1>1, <1>2 DEF Carried
<1>4. AtTitle
    BY <1>1 DEF Init, AtTitle
<1> QED BY <1>1, <1>3, <1>4 DEF Settled, Awaited

(* A broadcast on one link.                                                *)
LEMMA BroadcastHas ==
    ASSUME toJoin \in [Joins -> Seq(Messages)], NEW m \in Messages, Broadcast(m),
           NEW j \in Joins, NEW type, NEW id
    PROVE  /\ Has(toJoin'[j], type, id) =>
                  \/ Has(toJoin[j], type, id)
                  \/ link[j] /\ m.type = type /\ m.id = id
           /\ ~link[j] => toJoin'[j] = toJoin[j]
<1>1. toJoin'[j] = IF link[j] THEN Append(toJoin[j], m) ELSE toJoin[j]
    BY DEF Broadcast
<1>2. toJoin[j] \in Seq(Messages)
    OBVIOUS
<1>3. CASE link[j]
    BY <1>1, <1>2, <1>3, HasAppend
<1>4. CASE ~link[j]
    BY <1>1, <1>4
<1> QED BY <1>3, <1>4

LEMMA CarriedAnnounce ==
    ASSUME LoadTypes, Carried, NEW n \in Names, Announce(n), loadIdOut + 1 \in Ids,
           UNCHANGED <<scope, toHost, link>>
    PROVE  /\ Carried'
           /\ \A j \in Joins : link[j] => sentGo'[j] = loadIdOut + 1
           /\ \A j \in Joins : ~link[j] => sentGo'[j] = 0
<1> DEFINE m == [type |-> "LOAD_GO", id |-> loadIdOut + 1, name |-> n,
                 version |-> disk[n]]
<1>1. /\ loadIdOut' = loadIdOut + 1 /\ Broadcast(m)
      /\ sentGo' = [j \in Joins |-> IF link[j] THEN loadIdOut + 1 ELSE sentGo[j]]
    BY DEF Announce
<1>2. m \in Messages /\ m.id = loadIdOut + 1
    BY DEF LoadTypes, EngineTypes, Messages
<1> HIDE DEF m
<1>3. ASSUME NEW j \in Joins
      PROVE  /\ sentGo[j] \in Nat /\ scope[j] \in Nat /\ loadIdOut \in Nat
             /\ Ids \subseteq Nat
    BY LoadAssumption DEF LoadTypes, SessionTypes, Ids
<1>4. ASSUME NEW j \in Joins
      PROVE  /\ sentGo'[j] <= loadIdOut' /\ scope'[j] <= loadIdOut'
             /\ sentGo[j] <= sentGo'[j]
             /\ link[j] => sentGo'[j] = loadIdOut + 1
             /\ ~link[j] => sentGo'[j] = 0
    BY <1>1, <1>3 DEF Carried
<1>5. ASSUME NEW j \in Joins, NEW id \in Ids
      PROVE  /\ Has(toJoin'[j], "LOAD_GO", id) => id <= sentGo'[j]
             /\ Has(toHost'[j], "READY", id) => id <= loadIdOut'
    <2>1. Has(toHost'[j], "READY", id) => id <= loadIdOut'
        BY <1>1, <1>3 DEF Carried
    <2>2. ASSUME Has(toJoin'[j], "LOAD_GO", id) PROVE id <= sentGo'[j]
        <3>1. Has(toJoin[j], "LOAD_GO", id) \/ (link[j] /\ m.id = id)
            BY <1>1, <1>2, <2>2, BroadcastHas DEF LoadTypes, LaneTypes
        <3>2. CASE Has(toJoin[j], "LOAD_GO", id)
            <4>1. id <= sentGo[j]
                BY <3>2 DEF Carried
            <4>2. id \in Nat /\ sentGo[j] \in Nat /\ sentGo'[j] \in Nat
                BY <1>1, <1>3
            <4> QED BY <1>4, <4>1, <4>2
        <3>3. CASE link[j] /\ m.id = id
            BY <1>2, <1>3, <1>4, <3>3
        <3> QED BY <3>1, <3>2, <3>3
    <2> QED BY <2>1, <2>2
<1>6. ASSUME NEW j \in Joins, ~link'[j]
      PROVE  sentGo'[j] = 0 /\ toJoin'[j] = <<>> /\ toHost'[j] = <<>>
    <2>1. toJoin'[j] = toJoin[j] /\ toHost'[j] = toHost[j] /\ ~link[j]
        BY <1>1, <1>2, <1>6, BroadcastHas DEF LoadTypes, LaneTypes
    <2> QED BY <1>4, <2>1 DEF Carried
<1> QED BY <1>4, <1>5, <1>6 DEF Carried

(* Any other message to the joins.                                         *)
LEMMA CarriedBroadcast ==
    ASSUME LoadTypes, Carried, NEW m \in Messages, Broadcast(m), m.type # "LOAD_GO",
           UNCHANGED <<loadIdOut, sentGo, scope, toHost, link>>
    PROVE  Carried'
<1>1. ASSUME NEW j \in Joins, NEW id \in Ids, Has(toJoin'[j], "LOAD_GO", id)
      PROVE  id <= sentGo'[j]
    <2>1. Has(toJoin[j], "LOAD_GO", id)
        BY <1>1, BroadcastHas DEF LoadTypes, LaneTypes
    <2> QED BY <2>1 DEF Carried
<1>2. ASSUME NEW j \in Joins, ~link[j]
      PROVE  toJoin'[j] = <<>>
    BY <1>2, BroadcastHas DEF LoadTypes, LaneTypes, Carried
<1> QED BY <1>1, <1>2 DEF Carried

(* A step that sends nothing and may clear scopes.                         *)
LEMMA CarriedKept ==
    ASSUME LoadTypes, Carried, UNCHANGED <<loadIdOut, sentGo, toJoin, toHost>>,
           \A j \in Joins : scope'[j] \in {0, scope[j]} /\ (~link'[j] => ~link[j])
    PROVE  Carried'
<1>1. ASSUME NEW j \in Joins PROVE scope'[j] <= loadIdOut'
    <2>1. loadIdOut \in Nat /\ scope[j] <= loadIdOut
        BY LoadAssumption DEF LoadTypes, SessionTypes, Ids, Carried
    <2> QED BY <2>1
<1> QED BY <1>1 DEF Carried

(* A step of one join's: it takes from one lane and may add to the other.  *)
LEMMA CarriedJoin ==
    ASSUME LoadTypes, Carried, NEW j \in Joins,
           UNCHANGED <<loadIdOut, sentGo, scope, link>>,
           UNCHANGED toJoin \/ (toJoin[j] # <<>> /\ Consume(j)),
           NEW m \in Answers, m.type = "READY" => m.id <= loadIdOut,
           \/ UNCHANGED toHost
           \/ /\ link[j] \/ toJoin[j] # <<>>
              /\ toHost' = [toHost EXCEPT ![j] = Append(toHost[j], m)]
    PROVE  Carried'
<1>0. /\ toJoin \in [Joins -> Seq(Messages)] /\ toHost \in [Joins -> Seq(Answers)]
      /\ toJoin[j] # <<>> => link[j]
    BY DEF LoadTypes, LaneTypes, Carried
<1>1. ASSUME NEW k \in Joins, NEW id \in Ids, Has(toJoin'[k], "LOAD_GO", id)
      PROVE  id <= sentGo'[k]
    <2>1. Has(toJoin[k], "LOAD_GO", id)
        <3>1. CASE toJoin'[k] = toJoin[k]
            BY <1>1, <3>1
        <3>2. CASE toJoin'[k] # toJoin[k]
            <4>1. k = j /\ toJoin[j] # <<>> /\ toJoin'[k] = Tail(toJoin[k])
                BY <1>0, <3>2 DEF Consume
            <4>2. toJoin[k] \in Seq(Messages)
                BY <1>0
            <4> QED BY <1>1, <4>1, <4>2, HasTail
        <3> QED BY <3>1, <3>2
    <2> QED BY <2>1 DEF Carried
<1>2. ASSUME NEW k \in Joins, NEW id \in Ids, Has(toHost'[k], "READY", id)
      PROVE  id <= loadIdOut'
    <2>1. CASE toHost'[k] = toHost[k]
        BY <1>2, <2>1 DEF Carried
    <2>2. CASE toHost'[k] # toHost[k]
        <3>1. k = j /\ toHost'[k] = Append(toHost[k], m) /\ toHost[k] \in Seq(Answers)
            BY <1>0, <2>2
        <3>2. Has(toHost[k], "READY", id) \/ (m.type = "READY" /\ m.id = id)
            BY <1>2, <3>1, HasAppend
        <3> QED BY <3>2 DEF Carried
    <2> QED BY <2>1, <2>2
<1>3. ASSUME NEW k \in Joins, ~link'[k]
      PROVE  sentGo'[k] = 0 /\ toJoin'[k] = <<>> /\ toHost'[k] = <<>>
    <2>1. k # j \/ (toJoin[j] = <<>> /\ ~link[j])
        BY <1>0, <1>3
    <2>2. toJoin'[k] = toJoin[k] /\ toHost'[k] = toHost[k]
        BY <1>0, <2>1 DEF Consume
    <2> QED BY <1>3, <2>2 DEF Carried
<1> QED BY <1>1, <1>2, <1>3 DEF Carried

LEMMA CarriedJoinStep ==
    ASSUME LoadTypes, Carried, NEW j \in Joins, JoinStep(j)
    PROVE  Carried'
<1> DEFINE nack == Nack(Head(toJoin[j]))
           ready == [type |-> "READY", id |-> join[j].pend]
<1>0. UNCHANGED <<loadIdOut, sentGo, scope, link>>
    BY DEF JoinStep, JoinSaveBegin, JoinSaveDone, JoinLoadGo, JoinSwapStart, JoinSwapEnd,
       JoinReportReady, hostVars
<1>1. CASE JoinReportReady(j)
    <2>1. /\ UNCHANGED toJoin /\ link[j] /\ join[j].pend = loadIdOut
          /\ toHost' = [toHost EXCEPT ![j] = Append(toHost[j], ready)]
        BY <1>1 DEF JoinReportReady
    <2>2. ready \in Answers /\ ready.id <= loadIdOut
        BY <2>1, LoadAssumption DEF LoadTypes, SessionTypes, Ids, Answers
    <2> QED BY <1>0, <2>1, <2>2, CarriedJoin
<1>2. CASE JoinLoadGo(j)
    <2>1. /\ toJoin[j] # <<>> /\ Consume(j) /\ Head(toJoin[j]).type = "LOAD_GO"
          /\ UNCHANGED version
        BY <1>2 DEF JoinLoadGo, Received, hostVars, engine
    <2>2. Head(toJoin[j]) \in Messages
        BY <2>1, ConsumeTypes DEF LoadTypes, LaneTypes
    <2>3. nack \in Answers /\ nack.type # "READY"
        BY <2>1, <2>2 DEF Messages, Answers, Nack
    <2>4. \/ UNCHANGED toHost
          \/ toHost' = [toHost EXCEPT ![j] = Append(toHost[j], nack)]
        BY <1>2, LoadGoCases
    <2> QED BY <1>0, <2>1, <2>3, <2>4, CarriedJoin
<1>3. CASE ~JoinReportReady(j) /\ ~JoinLoadGo(j)
    <2>1. UNCHANGED toHost /\ (UNCHANGED toJoin \/ (toJoin[j] # <<>> /\ Consume(j)))
        BY <1>3 DEF JoinStep, JoinSaveBegin, JoinSaveDone, JoinSwapStart, JoinSwapEnd,
           Received
    <2>2. PICK m \in Answers : m.type # "READY"
        <3>1. PICK n \in Names : TRUE
            BY LoadAssumption
        <3>2. [type |-> "LOAD_NACK", id |-> 0, name |-> n] \in Answers
            BY LoadAssumption DEF Answers, Ids
        <3> QED BY <3>2
    <2> QED BY <1>0, <2>1, <2>2, CarriedJoin
<1> QED BY <1>1, <1>2, <1>3

LEMMA CarriedHostReceive ==
    ASSUME LoadTypes, Carried, NEW j \in Joins, HostReceive(j)
    PROVE  Carried'
<1>1. /\ UNCHANGED <<loadIdOut, sentGo, toJoin, link>>
      /\ toHost[j] # <<>> /\ toHost' = [toHost EXCEPT ![j] = Tail(toHost[j])]
      /\ \A k \in Joins : scope'[k] \in {scope[k], loadIdOut}
    BY DEF HostReceive, LoadTypes, SessionTypes
<1>2. toHost \in [Joins -> Seq(Answers)] /\ loadIdOut \in Nat
    BY LoadAssumption DEF LoadTypes, LaneTypes, SessionTypes, Ids
<1>3. ASSUME NEW k \in Joins PROVE scope'[k] <= loadIdOut'
    <2>1. scope[k] <= loadIdOut /\ scope'[k] \in {scope[k], loadIdOut}
        BY <1>1 DEF Carried
    <2> QED BY <1>1, <1>2, <2>1
<1>4. ASSUME NEW k \in Joins, NEW id \in Ids, Has(toHost'[k], "READY", id)
      PROVE  id <= loadIdOut'
    <2>1. Has(toHost[k], "READY", id)
        <3>1. CASE k = j
            <4>1. toHost[j] \in Seq(Answers) /\ toHost'[j] = Tail(toHost[j])
                BY <1>1, <1>2
            <4> QED BY <1>1, <1>4, <3>1, <4>1, HasTail
        <3>2. CASE k # j
            BY <1>1, <1>2, <1>4, <3>2
        <3> QED BY <3>1, <3>2
    <2> QED BY <1>1, <2>1 DEF Carried
<1>5. ASSUME NEW k \in Joins, ~link'[k]
      PROVE  toHost'[k] = <<>>
    BY <1>1, <1>2, <1>5 DEF Carried
<1> QED BY <1>1, <1>3, <1>4, <1>5 DEF Carried

LEMMA CarriedDrop ==
    ASSUME LoadTypes, Carried, NEW j \in Joins, Drop(j)
    PROVE  Carried'
<1>1. /\ UNCHANGED <<loadIdOut, scope>>
      /\ link' = [link EXCEPT ![j] = FALSE] /\ sentGo' = [sentGo EXCEPT ![j] = 0]
      /\ toJoin' = [toJoin EXCEPT ![j] = <<>>] /\ toHost' = [toHost EXCEPT ![j] = <<>>]
    BY DEF Drop
<1>2. /\ toJoin \in [Joins -> Seq(Messages)] /\ toHost \in [Joins -> Seq(Answers)]
      /\ sentGo \in [Joins -> Ids] /\ loadIdOut \in Nat /\ link \in [Joins -> BOOLEAN]
    BY LoadAssumption DEF LoadTypes, SessionTypes, LaneTypes, Ids
<1>3. ASSUME NEW type, NEW id PROVE ~Has(<<>>, type, id)
    BY DEF Has
<1>4. ASSUME NEW k \in Joins
      PROVE  /\ sentGo'[k] <= loadIdOut' /\ scope'[k] <= loadIdOut'
             /\ \A id \in Ids : /\ Has(toJoin'[k], "LOAD_GO", id) => id <= sentGo'[k]
                                /\ Has(toHost'[k], "READY", id) => id <= loadIdOut'
             /\ ~link'[k] => sentGo'[k] = 0 /\ toJoin'[k] = <<>> /\ toHost'[k] = <<>>
    <2>1. CASE k = j
        BY <1>1, <1>2, <1>3, <2>1 DEF Carried
    <2>2. CASE k # j
        BY <1>1, <1>2, <2>2 DEF Carried
    <2> QED BY <2>1, <2>2
<1> QED BY <1>4 DEF Carried

(* Only the host's announcements give out load ids.                        *)
LEMMA AnnouncesOnly ==
    ASSUME LoadTypes, LoadTypes'
    PROVE  /\ WatchSettled /\ bootstrapName = savePending =>
                  /\ savePending \in Names /\ Announce(savePending)
                  /\ loadIdOut + 1 \in Ids
           /\ \A n \in Names : HostLoad(n) => Announce(n) /\ loadIdOut + 1 \in Ids
<1>1. loadIdOut' \in Ids /\ savePending \in Names \cup {None}
    BY DEF LoadTypes, SessionTypes, SavingTypes
<1>2. \A n : Announce(n) => loadIdOut' = loadIdOut + 1
    BY DEF Announce
<1>3. ASSUME WatchSettled, bootstrapName = savePending
      PROVE  savePending \in Names /\ Announce(savePending)
    BY <1>1, <1>3 DEF WatchSettled
<1>4. \A n \in Names : HostLoad(n) => Announce(n)
    BY DEF HostLoad
<1> QED BY <1>1, <1>2, <1>3, <1>4

(* Any step but those that announce, and a begun or finished transfer.     *)
LEMMA Transfer ==
    ASSUME LoadTypes, NEW n \in Names
    PROVE  /\ BeginSend(n) => \E m \in Messages : m.type # "LOAD_GO" /\ Broadcast(m)
           /\ FinishSend => \/ UNCHANGED toJoin
                            \/ \E m \in Messages : m.type # "LOAD_GO" /\ Broadcast(m)
<1>1. [type |-> "SAVE_BEGIN", id |-> xferId + 1, name |-> n, version |-> disk[n]]
          \in Messages
    BY DEF LoadTypes, EngineTypes, SendingTypes, Messages
<1>2. ASSUME send # None
      PROVE  [type |-> "SAVE_DONE", id |-> send.id, version |-> disk[send.name]]
                 \in Messages
    <2>1. send.id \in Nat /\ disk[send.name] \in Versions
        BY <1>2 DEF LoadTypes, EngineTypes, SendingTypes
    <2> QED BY <2>1 DEF Messages
<1>3. BeginSend(n) => \E m \in Messages : m.type # "LOAD_GO" /\ Broadcast(m)
    BY <1>1 DEF BeginSend
<1>4. ASSUME FinishSend, ~UNCHANGED toJoin
      PROVE  \E m \in Messages : m.type # "LOAD_GO" /\ Broadcast(m)
    BY <1>2, <1>4 DEF FinishSend
<1> QED BY <1>3, <1>4

LEMMA CarriedStep ==
    ASSUME LoadTypes, LoadTypes', Carried, [Next]_vars
    PROVE  Carried'
<1>0. ASSUME UNCHANGED <<loadIdOut, sentGo, toJoin, toHost, scope, link>>
      PROVE  Carried'
    BY <1>0, CarriedKept
<1>1. CASE HostStep
    <2>1. CASE ProcessNetEvents \/ SwapEnd
        <3>1. /\ UNCHANGED <<loadIdOut, sentGo, toJoin, toHost, link>>
              /\ \A j \in Joins : scope'[j] \in {0, scope[j]}
            BY <2>1 DEF ProcessNetEvents, SwapEnd, net
        <3> QED BY <3>1, CarriedKept
    <2>2. CASE SaveLands \/ SwapStart
        <3>1. UNCHANGED <<loadIdOut, sentGo, toJoin, toHost, scope, link>>
            BY <2>2 DEF SaveLands, SwapStart, net
        <3> QED BY <1>0, <3>1
    <2>3. CASE WatchSettled
        <3>1. UNCHANGED <<scope, toHost, link>> /\ savePending \in Names
            BY <2>3 DEF WatchSettled, LoadTypes, SavingTypes
        <3>2. CASE bootstrapName = savePending
            BY <2>3, <3>1, <3>2, AnnouncesOnly, CarriedAnnounce
        <3>3. CASE bootstrapName # savePending
            <4>1. /\ UNCHANGED <<loadIdOut, sentGo>>
                  /\ UNCHANGED toJoin \/ BeginSend(savePending)
                BY <2>3, <3>3 DEF WatchSettled
            <4> QED BY <3>1, <4>1, <1>0, Transfer, CarriedBroadcast
        <3> QED BY <3>2, <3>3
    <2>4. CASE StartFallback
        <3>1. /\ UNCHANGED <<scope, toHost, link, loadIdOut, sentGo>>
              /\ loadXferPending \in Names /\ BeginSend(loadXferPending)
            BY <2>4 DEF StartFallback, LoadTypes, SendingTypes
        <3> QED BY <3>1, Transfer, CarriedBroadcast
    <2>5. CASE FinishSend
        <3>1. UNCHANGED <<scope, toHost, link, loadIdOut, sentGo>>
            BY <2>5 DEF FinishSend
        <3>2. PICK n \in Names : TRUE
            BY LoadAssumption
        <3> QED BY <1>0, <2>5, <3>1, <3>2, Transfer, CarriedBroadcast
    <2> QED BY <1>1, <2>1, <2>2, <2>3, <2>4, <2>5, CarriedHostReceive DEF HostStep
<1>2. CASE PlayerStep
    <2>1. CASE HostRestart
        <3>1. /\ loadIdOut' = 0
              /\ \A j \in Joins : /\ sentGo'[j] = 0 /\ scope'[j] = 0
                                  /\ toJoin'[j] = <<>> /\ toHost'[j] = <<>>
            BY <2>1 DEF HostRestart
        <3>2. ASSUME NEW type, NEW id PROVE ~Has(<<>>, type, id)
            BY DEF Has
        <3> QED BY <3>1, <3>2 DEF Carried
    <2>2. ASSUME NEW n \in Names, HostLoad(n) PROVE Carried'
        <3>1. UNCHANGED <<scope, toHost, link>>
            BY <2>2 DEF HostLoad
        <3> QED BY <2>2, <3>1, AnnouncesOnly, CarriedAnnounce
    <2>3. ASSUME NEW n \in Names, GameplayStart \/ SaveEdge(n) PROVE Carried'
        <3>1. UNCHANGED <<loadIdOut, sentGo, toJoin, toHost, scope, link>>
            BY <2>3 DEF GameplayStart, SaveEdge, net
        <3> QED BY <1>0, <3>1
    <2>4. ASSUME NEW j \in Joins, Admit(j) PROVE Carried'
        <3>1. /\ UNCHANGED <<loadIdOut, sentGo, toJoin, toHost, scope>>
              /\ \A k \in Joins : ~link'[k] => ~link[k]
            BY <2>4 DEF Admit, LoadTypes, SessionTypes
        <3> QED BY <3>1, CarriedKept
    <2>5. PICK n \in Names : TRUE
        BY LoadAssumption
    <2> QED BY <1>2, <2>1, <2>2, <2>3, <2>4, <2>5, CarriedDrop DEF PlayerStep
<1>3. CASE UNCHANGED vars
    <2>1. UNCHANGED <<loadIdOut, sentGo, toJoin, toHost, scope, link>>
        BY <1>3 DEF vars, net
    <2> QED BY <1>0, <2>1
<1> QED BY <1>1, <1>2, <1>3, CarriedJoinStep DEF Next

-----------------------------------------------------------------------------
(* Who has answered is in its world, and the host waits for the others.    *)

(* A step after which no more joins have answered than before.             *)
LEMMA SettledKept ==
    ASSUME LoadTypes, Settled,
           \A j \in Joins :
               sentGo'[j] # 0 /\ Answered(j)' =>
                   /\ sentGo'[j] = sentGo[j] /\ Answered(j)
                   /\ \A id : InWorld(join[j], id) => InWorld(join'[j], id)
    PROVE  Settled'
BY DEF Settled

LEMMA SettledUnchanged ==
    ASSUME LoadTypes, Settled, UNCHANGED <<sentGo, toHost, join>>,
           \A j \in Joins : scope'[j] \in {0, scope[j]}
    PROVE  Settled'
BY SettledKept DEF Answered

LEMMA SettledAnnounce ==
    ASSUME LoadTypes, Carried, NEW n \in Names, Announce(n), loadIdOut + 1 \in Ids,
           UNCHANGED <<scope, toHost, link>>
    PROVE  Settled'
<1>1. \A j \in Joins : /\ link[j] => sentGo'[j] = loadIdOut + 1
                       /\ ~link[j] => sentGo'[j] = 0
    BY CarriedAnnounce
<1>2. loadIdOut \in Nat
    BY LoadAssumption DEF LoadTypes, SessionTypes, Ids
<1>3. ASSUME NEW j \in Joins, sentGo'[j] # 0 PROVE ~Answered(j)'
    <2>1. sentGo'[j] = loadIdOut + 1
        BY <1>1, <1>3
    <2>2. scope[j] <= loadIdOut /\ scope[j] \in Nat
        BY LoadAssumption DEF Carried, LoadTypes, SessionTypes, Ids
    <2>3. ~Has(toHost[j], "READY", loadIdOut + 1)
        BY <1>2 DEF Carried
    <2> QED BY <1>2, <2>1, <2>2, <2>3 DEF Answered
<1> QED BY <1>3 DEF Settled

LEMMA SettledHostReceive ==
    ASSUME LoadTypes, Settled, NEW j \in Joins, HostReceive(j)
    PROVE  Settled'
<1> DEFINE m == Head(toHost[j])
<1>1. /\ UNCHANGED <<sentGo, join>>
      /\ toHost[j] # <<>> /\ toHost' = [toHost EXCEPT ![j] = Tail(toHost[j])]
      /\ \/ UNCHANGED scope
         \/ m.type = "READY" /\ scope' = [scope EXCEPT ![j] = m.id]
    BY DEF HostReceive
<1>2. toHost \in [Joins -> Seq(Answers)] /\ scope \in [Joins -> Ids]
    BY DEF LoadTypes, LaneTypes, SessionTypes
<1>3. toHost[j] \in Seq(Answers) /\ Has(toHost[j], m.type, m.id)
    BY <1>1, <1>2, HasHead
<1> HIDE DEF m
<1>4. ASSUME NEW k \in Joins, Answered(k)' PROVE Answered(k)
    <2>1. CASE k # j
        <3>1. toHost'[k] = toHost[k] /\ scope'[k] = scope[k]
            BY <1>1, <1>2, <2>1
        <3> QED BY <1>1, <1>4, <3>1 DEF Answered
    <2>2. CASE k = j
        <3>1. toHost'[j] = Tail(toHost[j])
            BY <1>1, <1>2
        <3>2. scope'[j] = scope[j] \/ (m.type = "READY" /\ scope'[j] = m.id)
            BY <1>1, <1>2
        <3>3. Has(Tail(toHost[j]), "READY", sentGo[j]) => Has(toHost[j], "READY", sentGo[j])
            BY <1>1, <1>3, HasTail
        <3> QED BY <1>1, <1>3, <1>4, <2>2, <3>1, <3>2, <3>3 DEF Answered
    <2> QED BY <2>1, <2>2
<1> QED BY <1>1, <1>4, SettledKept

(* The record of the join that takes a step, when the host's view of it    *)
(* does not change.                                                        *)
LEMMA SettledJoin ==
    ASSUME LoadTypes, Settled, NEW j \in Joins, NEW r, Becomes(j, r),
           UNCHANGED <<sentGo, scope>>,
           sentGo[j] # 0 /\ Answered(j) /\ InWorld(join[j], sentGo[j]) =>
               InWorld(r, sentGo[j]),
           NEW m \in Answers, m.type # "READY",
           \/ UNCHANGED toHost
           \/ toHost' = [toHost EXCEPT ![j] = Append(toHost[j], m)]
    PROVE  Settled'
<1>1. /\ toHost \in [Joins -> Seq(Answers)] /\ join \in [Joins -> JoinStates]
      /\ join' = [join EXCEPT ![j] = r]
    BY DEF LoadTypes, LaneTypes, Becomes
<1>2. ASSUME NEW k \in Joins, Answered(k)' PROVE Answered(k)
    <2>1. Has(toHost'[k], "READY", sentGo[k]) => Has(toHost[k], "READY", sentGo[k])
        <3>1. CASE toHost'[k] = toHost[k]
            BY <3>1
        <3>2. CASE toHost'[k] # toHost[k]
            <4>1. toHost'[k] = Append(toHost[k], m) /\ toHost[k] \in Seq(Answers)
                BY <1>1, <3>2
            <4> QED BY <4>1, HasAppend
        <3> QED BY <3>1, <3>2
    <2> QED BY <1>2, <2>1 DEF Answered
<1>3. ASSUME NEW k \in Joins, sentGo[k] # 0, Answered(k)
      PROVE  InWorld(join'[k], sentGo[k])
    <2>1. InWorld(join[k], sentGo[k])
        BY <1>3 DEF Settled
    <2>2. CASE k = j
        BY <1>1, <1>3, <2>1, <2>2
    <2>3. CASE k # j
        BY <1>1, <2>1, <2>3
    <2> QED BY <2>2, <2>3
<1> QED BY <1>2, <1>3 DEF Settled

LEMMA SettledReportReady ==
    ASSUME LoadTypes, OneLoad, Settled, NEW j \in Joins, JoinReportReady(j)
    PROVE  Settled'
<1> DEFINE m == [type |-> "READY", id |-> join[j].pend]
<1>1. /\ UNCHANGED <<sentGo, scope>>
      /\ join[j].live /\ join[j].pend # 0 /\ sentGo[j] = join[j].pend
      /\ join' = [join EXCEPT ![j] = Reported(join[j])]
      /\ toHost' = [toHost EXCEPT ![j] = Append(toHost[j], m)]
    BY DEF JoinReportReady, Becomes, hostVars
<1>2. /\ toHost \in [Joins -> Seq(Answers)] /\ join \in [Joins -> JoinStates]
      /\ join[j] \in JoinStates /\ Loading(join[j])
    BY DEF LoadTypes, LaneTypes, OneLoad
<1>3. InWorld(join'[j], sentGo'[j])
    <2>1. /\ Reported(join[j]).world = join[j].world
          /\ Reported(join[j]).seen = join[j].seen /\ Reported(join[j]).pend = 0
        BY <1>2 DEF Reported, JoinStates
    <2>2. join'[j] = Reported(join[j])
        BY <1>1, <1>2
    <2>3. join[j].world.id = join[j].pend /\ join[j].pend <= join[j].seen
        BY <1>1, <1>2 DEF Loading
    <2>4. join[j].pend \in Nat /\ join[j].seen \in Nat
        BY <1>2, LoadAssumption DEF JoinStates, Ids
    <2> QED BY <1>1, <2>1, <2>2, <2>3, <2>4 DEF InWorld
<1>4. ASSUME NEW k \in Joins, k # j, sentGo'[k] # 0, Answered(k)'
      PROVE  InWorld(join'[k], sentGo'[k])
    <2>1. toHost'[k] = toHost[k] /\ join'[k] = join[k]
        BY <1>1, <1>2, <1>4
    <2>2. Answered(k) /\ sentGo[k] # 0
        BY <1>1, <1>4, <2>1 DEF Answered
    <2> QED BY <1>1, <2>1, <2>2 DEF Settled
<1> QED BY <1>3, <1>4 DEF Settled

LEMMA SettledLoadGo ==
    ASSUME LoadTypes, Carried, Settled, NEW j \in Joins, JoinLoadGo(j)
    PROVE  Settled'
<1> DEFINE m == Head(toJoin[j])
           r == join[j]
<1>1. /\ UNCHANGED <<sentGo, scope, version>>
      /\ toJoin[j] # <<>> /\ m.type = "LOAD_GO" /\ Consume(j)
    BY DEF JoinLoadGo, Received, hostVars, engine
<1>2. m \in Messages /\ toJoin[j] \in Seq(Messages) /\ r \in JoinStates
    BY <1>1, ConsumeTypes DEF LoadTypes, LaneTypes
<1>3. m.id \in Ids /\ m.name \in Names
    BY <1>1, <1>2 DEF Messages
<1>4. m.id <= sentGo[j]
    <2>1. Has(toJoin[j], "LOAD_GO", m.id)
        BY <1>1, <1>2, HasHead
    <2> QED BY <1>3, <2>1 DEF Carried
<1>5. Nack(m) \in Answers /\ Nack(m).type # "READY"
    BY <1>3 DEF Nack, Answers
<1>6. \/ m.id <= r.seen /\ UNCHANGED <<join, toHost>>
      \/ /\ ~(m.id <= r.seen) /\ UNCHANGED toHost
         /\ Becomes(j, Issue(Follows(r, m), m.name))
      \/ /\ ~(m.id <= r.seen)
         /\ Becomes(j, [Follows(r, m) EXCEPT !.latch = m.name])
         /\ toHost' = [toHost EXCEPT ![j] = Append(toHost[j], Nack(m))]
    BY LoadGoCases
<1>7. ASSUME ~(m.id <= r.seen) PROVE ~InWorld(r, sentGo[j])
    <2>1. r.seen \in Nat /\ m.id \in Nat /\ sentGo[j] \in Nat
        BY <1>2, <1>3, LoadAssumption DEF JoinStates, Ids, LoadTypes, SessionTypes
    <2> QED BY <1>4, <1>7, <2>1 DEF InWorld
<1> HIDE DEF m, r
<1>8. CASE UNCHANGED <<join, toHost>>
    BY <1>1, <1>8, SettledUnchanged
<1>9. CASE ~(m.id <= r.seen)
    <2>1. \E s : Becomes(j, s)
        BY <1>6, <1>9
    <2>2. UNCHANGED toHost \/ toHost' = [toHost EXCEPT ![j] = Append(toHost[j], Nack(m))]
        BY <1>6, <1>9
    <2>3. ~InWorld(join[j], sentGo[j])
        BY <1>7, <1>9 DEF r
    <2> QED BY <1>1, <1>5, <2>1, <2>2, <2>3, SettledJoin
<1> QED BY <1>6, <1>8, <1>9

LEMMA SettledJoinStep ==
    ASSUME LoadTypes, OneLoad, Carried, Settled, NEW j \in Joins, JoinStep(j)
    PROVE  Settled'
<1> DEFINE r == join[j]
<1>0. /\ r \in JoinStates /\ Loading(r)
      /\ \E m \in Answers : m.type # "READY"
    <2>1. PICK n \in Names : TRUE
        BY LoadAssumption
    <2>2. [type |-> "LOAD_NACK", id |-> 0, name |-> n] \in Answers
        BY LoadAssumption DEF Answers, Ids
    <2> QED BY <2>2 DEF LoadTypes, LaneTypes, OneLoad
<1>1. UNCHANGED <<sentGo, scope>>
    BY DEF JoinStep, JoinSaveBegin, JoinSaveDone, JoinLoadGo, JoinSwapStart, JoinSwapEnd,
       JoinReportReady, hostVars
<1>2. ASSUME NEW t, Becomes(j, t), UNCHANGED toHost,
             InWorld(r, sentGo[j]) => InWorld(t, sentGo[j])
      PROVE  Settled'
    BY <1>0, <1>1, <1>2, SettledJoin
<1>3. CASE JoinSaveBegin(j)
    <2>1. PICK begun : Becomes(j, [r EXCEPT !.recv = begun])
        BY <1>3 DEF JoinSaveBegin
    <2>2. InWorld(r, sentGo[j]) => InWorld([r EXCEPT !.recv = begun], sentGo[j])
        BY <1>0 DEF InWorld, JoinStates
    <2>3. UNCHANGED toHost
        BY <1>3 DEF JoinSaveBegin
    <2> QED BY <1>2, <2>1, <2>2, <2>3
<1>4. CASE JoinSaveDone(j)
    <2> DEFINE m == Head(toJoin[j])
    <2>1. Becomes(j, Done(r, m)) /\ UNCHANGED toHost
        BY <1>4, DoneShape DEF JoinSaveDone
    <2>2. /\ Done(r, m).world = r.world /\ Done(r, m).pend = r.pend
          /\ Done(r, m).seen = r.seen
        BY <1>0 DEF Done, Verified, Issue, JoinStates
    <2>3. InWorld(r, sentGo[j]) => InWorld(Done(r, m), sentGo[j])
        BY <2>2 DEF InWorld
    <2> QED BY <1>2, <2>1, <2>3
<1>5. CASE JoinSwapStart(j)
    <2> DEFINE swap == [id |-> r.signal.id, told |-> r.signal.told,
                        content |-> r.copies[r.signal.name]]
               t == [r EXCEPT !.swap = swap, !.signal = None]
    <2>1. Becomes(j, t) /\ UNCHANGED toHost
        BY <1>5 DEF JoinSwapStart
    <2>2. t.world = r.world /\ t.pend = r.pend /\ t.seen = r.seen
        BY <1>0 DEF JoinStates
    <2> HIDE DEF t
    <2>3. InWorld(r, sentGo[j]) => InWorld(t, sentGo[j])
        BY <2>2 DEF InWorld
    <2> QED BY <1>2, <2>1, <2>3
<1>6. CASE JoinSwapEnd(j)
    <2>1. /\ r.swap # None /\ UNCHANGED toHost
          /\ Becomes(j, [r EXCEPT !.world = r.swap, !.swap = None, !.live = WorldLive(r)])
        BY <1>6 DEF JoinSwapEnd
    <2>2. ~InWorld(r, sentGo[j])
        BY <1>0, <2>1 DEF Loading, InWorld
    <2> QED BY <1>2, <2>1, <2>2
<1> QED BY <1>3, <1>4, <1>5, <1>6, SettledLoadGo, SettledReportReady DEF JoinStep

LEMMA SettledStep ==
    ASSUME LoadTypes, LoadTypes', OneLoad, Carried, Settled, [Next]_vars
    PROVE  Settled'
<1>1. CASE HostStep
    <2>1. CASE ProcessNetEvents \/ SwapEnd
        <3>1. /\ UNCHANGED <<sentGo, toHost, join>>
              /\ \A j \in Joins : scope'[j] \in {0, scope[j]}
            BY <2>1 DEF ProcessNetEvents, SwapEnd, net
        <3> QED BY <3>1, SettledUnchanged
    <2>2. CASE SaveLands \/ SwapStart \/ StartFallback \/ FinishSend
        <3>1. UNCHANGED <<sentGo, toHost, join, scope>>
            BY <2>2 DEF SaveLands, SwapStart, StartFallback, FinishSend, net
        <3> QED BY <3>1, SettledUnchanged
    <2>3. CASE WatchSettled
        <3>1. UNCHANGED <<scope, toHost, link, join>>
            BY <2>3 DEF WatchSettled
        <3>2. CASE bootstrapName = savePending
            BY <2>3, <3>1, <3>2, AnnouncesOnly, SettledAnnounce
        <3>3. CASE bootstrapName # savePending
            <4>1. UNCHANGED sentGo
                BY <2>3, <3>3 DEF WatchSettled
            <4> QED BY <3>1, <4>1, SettledUnchanged
        <3> QED BY <3>2, <3>3
    <2> QED BY <1>1, <2>1, <2>2, <2>3, SettledHostReceive DEF HostStep
<1>2. CASE PlayerStep
    <2>1. CASE HostRestart
        <3>1. \A j \in Joins : sentGo'[j] = 0
            BY <2>1 DEF HostRestart
        <3> QED BY <3>1 DEF Settled
    <2>2. ASSUME NEW n \in Names, HostLoad(n) PROVE Settled'
        <3>1. UNCHANGED <<scope, toHost, link>>
            BY <2>2 DEF HostLoad
        <3> QED BY <2>2, <3>1, AnnouncesOnly, SettledAnnounce
    <2>3. ASSUME NEW n \in Names, GameplayStart \/ SaveEdge(n) PROVE Settled'
        <3>1. UNCHANGED <<sentGo, toHost, join, scope>>
            BY <2>3 DEF GameplayStart, SaveEdge, net
        <3> QED BY <3>1, SettledUnchanged
    <2>4. ASSUME NEW j \in Joins, Admit(j) PROVE Settled'
        <3>1. UNCHANGED <<sentGo, toHost, join, scope>>
            BY <2>4 DEF Admit
        <3> QED BY <3>1, SettledUnchanged
    <2>5. ASSUME NEW j \in Joins, Drop(j) PROVE Settled'
        <3>1. /\ sentGo' = [sentGo EXCEPT ![j] = 0]
              /\ toHost' = [toHost EXCEPT ![j] = <<>>] /\ UNCHANGED scope
              /\ join' = [join EXCEPT ![j] = Lost(join[j])]
            BY <2>5 DEF Drop, Becomes
        <3>2. /\ sentGo \in [Joins -> Ids] /\ toHost \in [Joins -> Seq(Answers)]
              /\ join \in [Joins -> JoinStates]
            BY DEF LoadTypes, LaneTypes, SessionTypes
        <3>3. ASSUME NEW k \in Joins, sentGo'[k] # 0, Answered(k)'
              PROVE  InWorld(join'[k], sentGo'[k])
            <4>1. k # j
                BY <3>1, <3>2, <3>3
            <4>2. sentGo'[k] = sentGo[k] /\ toHost'[k] = toHost[k] /\ join'[k] = join[k]
                BY <3>1, <3>2, <4>1
            <4> QED BY <3>1, <3>3, <4>2 DEF Settled, Answered
        <3> QED BY <3>3 DEF Settled
    <2>6. PICK n \in Names : TRUE
        BY LoadAssumption
    <2> QED BY <1>2, <2>1, <2>2, <2>3, <2>4, <2>5, <2>6 DEF PlayerStep
<1>3. CASE UNCHANGED vars
    <2>1. UNCHANGED <<sentGo, toHost, join, scope>>
        BY <1>3 DEF vars, net
    <2> QED BY <2>1, SettledUnchanged
<1> QED BY <1>1, <1>2, <1>3, SettledJoinStep DEF Next

LEMMA AwaitedAnnounce ==
    ASSUME LoadTypes, Carried, NEW n \in Names, Announce(n), UNCHANGED connected
    PROVE  Awaited'
<1>1. ASSUME NEW j \in connected, sentGo'[j] # 0
      PROVE  expectedLoadId'[j] = sentGo'[j]
    <2>1. j \in Joins
        BY DEF LoadTypes, SessionTypes
    <2>2. expectedLoadId'[j] = loadIdOut + 1
        BY <2>1 DEF Announce
    <2>3. sentGo'[j] = IF link[j] THEN loadIdOut + 1 ELSE sentGo[j]
        BY <2>1 DEF Announce
    <2> QED BY <1>1, <2>1, <2>2, <2>3 DEF Carried
<1> QED BY <1>1 DEF Awaited

LEMMA AwaitedProcessNetEvents ==
    ASSUME LoadTypes, Awaited, AtTitle, ProcessNetEvents
    PROVE  Awaited'
<1>1. /\ connected' = (connected \cup ToSet(conns)) \ ToSet(leaves)
      /\ expectedLoadId' = [j \in Joins |-> IF Contains(conns \o leaves, j) THEN 0
                                            ELSE expectedLoadId[j]]
      /\ UNCHANGED sentGo
    BY DEF ProcessNetEvents
<1>2. CASE conns = <<>>
    <2>1. ToSet(conns) = {} /\ conns \o leaves = leaves /\ UNCHANGED bootstrapName
        BY <1>2 DEF ToSet, ProcessNetEvents, BakeForConnects, saving, LoadTypes,
           SessionTypes
    <2>2. ASSUME NEW j \in connected', sentGo'[j] # 0, bootstrapName' = None
          PROVE  expectedLoadId'[j] = sentGo'[j]
        <3>1. j \in connected /\ j \in Joins /\ j \notin ToSet(leaves)
            BY <1>1, <2>1 DEF LoadTypes, SessionTypes
        <3>2. ~Contains(leaves, j)
            BY <3>1, InToSet DEF LoadTypes, SessionTypes
        <3>3. expectedLoadId'[j] = expectedLoadId[j]
            BY <1>1, <2>1, <3>1, <3>2
        <3> QED BY <1>1, <2>1, <2>2, <3>1, <3>3 DEF Awaited
    <2> QED BY <2>2 DEF Awaited
<1>3. CASE phase = "title"
    <2>1. \A j \in Joins : sentGo'[j] = 0
        BY <1>1, <1>3 DEF AtTitle
    <2>2. connected' \subseteq Joins
        BY <1>1 DEF LoadTypes, SessionTypes, ToSet
    <2> QED BY <2>1, <2>2 DEF Awaited
<1>4. CASE conns # <<>> /\ phase # "title"
    <2>1. bootstrapName' \in Names
        BY <1>4 DEF ProcessNetEvents, BakeForConnects, ArmConnectPush, LoadTypes,
           EngineTypes
    <2> QED BY <2>1, LoadAssumption DEF Awaited
<1> QED BY <1>2, <1>3, <1>4

LEMMA AwaitedStep ==
    ASSUME LoadTypes, LoadTypes', Carried, Awaited, AtTitle, [Next]_vars
    PROVE  Awaited'
<1>0. ASSUME UNCHANGED <<bootstrapName, connected, sentGo, expectedLoadId>>
      PROVE  Awaited'
    BY <1>0 DEF Awaited
<1>1. CASE HostStep
    <2>1. CASE WatchSettled
        <3>1. CASE bootstrapName = savePending
            <4>1. UNCHANGED connected
                BY <2>1, <3>1 DEF WatchSettled
            <4> QED BY <2>1, <3>1, <4>1, AnnouncesOnly, AwaitedAnnounce
        <3>2. CASE bootstrapName # savePending
            <4>1. UNCHANGED <<bootstrapName, connected, sentGo, expectedLoadId>>
                BY <2>1, <3>2 DEF WatchSettled, session
            <4> QED BY <1>0, <4>1
        <3> QED BY <3>1, <3>2
    <2>2. CASE ~WatchSettled /\ ~ProcessNetEvents
        <3>1. UNCHANGED <<bootstrapName, connected, sentGo, expectedLoadId>>
            BY <1>1, <2>2 DEF HostStep, SaveLands, SwapStart, SwapEnd, StartFallback,
               FinishSend, HostReceive, session, saving
        <3> QED BY <1>0, <3>1
    <2> QED BY <2>1, <2>2, AwaitedProcessNetEvents
<1>2. CASE PlayerStep
    <2>1. CASE HostRestart
        <3>1. connected' = {}
            BY <2>1 DEF HostRestart
        <3> QED BY <3>1 DEF Awaited
    <2>2. ASSUME NEW n \in Names, HostLoad(n) PROVE Awaited'
        <3>1. UNCHANGED connected
            BY <2>2 DEF HostLoad
        <3> QED BY <2>2, <3>1, AnnouncesOnly, AwaitedAnnounce
    <2>3. ASSUME NEW n \in Names, SaveEdge(n) PROVE Awaited'
        <3>1. UNCHANGED <<bootstrapName, connected, sentGo, expectedLoadId>>
            BY <2>3 DEF SaveEdge, session
        <3> QED BY <1>0, <3>1
    <2>7. CASE GameplayStart
        <3>1. \A j \in Joins : sentGo'[j] = 0
            BY <2>7 DEF GameplayStart, AtTitle
        <3>2. connected' \subseteq Joins
            BY <2>7 DEF GameplayStart, session, LoadTypes, SessionTypes
        <3> QED BY <3>1, <3>2 DEF Awaited
    <2>4. ASSUME NEW j \in Joins, Admit(j) PROVE Awaited'
        <3>1. UNCHANGED <<bootstrapName, connected, sentGo, expectedLoadId>>
            BY <2>4 DEF Admit, session, saving
        <3> QED BY <1>0, <3>1
    <2>5. ASSUME NEW j \in Joins, Drop(j) PROVE Awaited'
        <3>1. /\ UNCHANGED <<bootstrapName, connected, expectedLoadId>>
              /\ sentGo' = [sentGo EXCEPT ![j] = 0]
            BY <2>5 DEF Drop, session, saving
        <3>2. \A k \in connected : sentGo'[k] # 0 => sentGo'[k] = sentGo[k]
            BY <3>1 DEF LoadTypes, SessionTypes
        <3> QED BY <3>1, <3>2 DEF Awaited
    <2>6. PICK n \in Names : TRUE
        BY LoadAssumption
    <2> QED BY <1>2, <2>1, <2>2, <2>3, <2>4, <2>5, <2>6, <2>7 DEF PlayerStep
<1>3. CASE \E j \in Joins : JoinStep(j)
    <2>1. UNCHANGED <<bootstrapName, connected, sentGo, expectedLoadId>>
        BY <1>3 DEF JoinStep, JoinSaveBegin, JoinSaveDone, JoinLoadGo, JoinSwapStart,
           JoinSwapEnd, JoinReportReady, hostVars, session, saving
    <2> QED BY <1>0, <2>1
<1>4. CASE UNCHANGED vars
    <2>1. UNCHANGED <<bootstrapName, connected, sentGo, expectedLoadId>>
        BY <1>4 DEF vars, session, saving
    <2> QED BY <1>0, <2>1
<1> QED BY <1>1, <1>2, <1>3, <1>4 DEF Next

LEMMA AtTitleStep ==
    ASSUME LoadTypes, AtTitle, [Next]_vars
    PROVE  AtTitle'
<1>0. ASSUME UNCHANGED <<phase, savePending, sentGo>>
      PROVE  AtTitle'
    BY <1>0 DEF AtTitle
<1>1. CASE HostStep
    <2>1. CASE ProcessNetEvents
        <3>1. UNCHANGED <<phase, sentGo>>
            BY <2>1 DEF ProcessNetEvents, BakeForConnects
        <3>2. phase = "title" => UNCHANGED savePending
            BY <2>1 DEF ProcessNetEvents, BakeForConnects, saving
        <3> QED BY <3>1, <3>2 DEF AtTitle
    <2>2. CASE WatchSettled \/ SwapStart \/ SwapEnd
        <3>1. savePending # None \/ phase' # "title"
            BY <2>2 DEF WatchSettled, SwapStart, SwapEnd
        <3>2. WatchSettled => UNCHANGED phase
            BY DEF WatchSettled, engine
        <3> QED BY <2>2, <3>1, <3>2 DEF AtTitle, SwapStart, SwapEnd
    <2>3. CASE ~ProcessNetEvents /\ ~WatchSettled /\ ~SwapStart /\ ~SwapEnd
        <3>1. UNCHANGED <<phase, savePending, sentGo>>
            BY <1>1, <2>3 DEF HostStep, SaveLands, StartFallback, FinishSend,
               HostReceive, engine, saving
        <3> QED BY <1>0, <3>1
    <2> QED BY <2>1, <2>2, <2>3
<1>2. CASE PlayerStep
    <2>1. CASE HostRestart
        BY <2>1 DEF HostRestart, AtTitle
    <2>2. ASSUME NEW n \in Names, GameplayStart \/ SaveEdge(n) \/ HostLoad(n)
          PROVE  AtTitle'
        <3>1. phase' # "title"
            BY <2>2 DEF GameplayStart, SaveEdge, HostLoad
        <3> QED BY <3>1 DEF AtTitle
    <2>3. ASSUME NEW j \in Joins, Admit(j) \/ Drop(j)
          PROVE  AtTitle'
        <3>1. UNCHANGED <<phase, savePending>>
            BY <2>3 DEF Admit, Drop, engine, saving
        <3>2. sentGo' = sentGo \/ sentGo' = [sentGo EXCEPT ![j] = 0]
            BY <2>3 DEF Admit, Drop
        <3>3. \A k \in Joins : sentGo[k] = 0 => sentGo'[k] = 0
            BY <3>2 DEF LoadTypes, SessionTypes
        <3> QED BY <3>1, <3>3 DEF AtTitle
    <2>4. PICK n \in Names : TRUE
        BY LoadAssumption
    <2> QED BY <1>2, <2>1, <2>2, <2>3, <2>4 DEF PlayerStep
<1>3. CASE \E j \in Joins : JoinStep(j)
    <2>1. UNCHANGED <<phase, savePending, sentGo>>
        BY <1>3 DEF JoinStep, JoinSaveBegin, JoinSaveDone, JoinLoadGo, JoinSwapStart,
           JoinSwapEnd, JoinReportReady, hostVars, engine, saving
    <2> QED BY <1>0, <2>1
<1>4. CASE UNCHANGED vars
    <2>1. UNCHANGED <<phase, savePending, sentGo>>
        BY <1>4 DEF vars, engine, saving
    <2> QED BY <1>0, <2>1
<1> QED BY <1>1, <1>2, <1>3, <1>4 DEF Next

LEMMA HoldInvStep ==
    ASSUME HoldInv, [Next]_vars, "edges" \notin Allowed, "overlap" \notin Allowed
    PROVE  HoldInv'
<1>1. LoadTypes'
    BY TypesStep DEF HoldInv
<1>2. OneLoad' /\ Seats'
    BY OneLoadStep, SeatsStep DEF HoldInv
<1>3. Carried' /\ Settled' /\ Awaited' /\ AtTitle'
    BY <1>1, CarriedStep, SettledStep, AwaitedStep, AtTitleStep DEF HoldInv
<1> QED BY <1>1, <1>2, <1>3 DEF HoldInv

(* A join that is not in the world last announced to it holds the host.    *)
LEMMA HoldInvHolds == HoldInv => HeldWhileLoading
<1> SUFFICES ASSUME HoldInv, NEW j \in Joins, link[j], sentGo[j] # 0,
                    ~Contains(conns, j), join[j].world.id # sentGo[j]
             PROVE  Held
    BY DEF HeldWhileLoading
<1>1. j \in connected
    BY DEF HoldInv, Seats, Member
<1>2. peerCount > 0
    <2>1. IsFiniteSet(connected) /\ peerCount = Cardinality(connected) /\ connected # {}
        BY <1>1 DEF HoldInv, Seats
    <2>2. Cardinality(connected) # 0 /\ Cardinality(connected) \in Nat
        BY <2>1, FS_EmptySet, FS_CardinalityType
    <2> QED BY <2>1, <2>2
<1>3. ASSUME bootstrapName = None PROVE ~JoinReady(j)
    <2>1. expectedLoadId[j] = sentGo[j]
        BY <1>1, <1>3 DEF HoldInv, Awaited
    <2>2. scope[j] # sentGo[j]
        BY DEF HoldInv, Settled, Answered, InWorld
    <2> QED BY <2>1, <2>2 DEF JoinReady
<1> QED BY <1>1, <1>2, <1>3 DEF Held

(* hostWaitingForJoinLoad: as long as no player is back before the host    *)
(* has drained its leave, and no LOAD_GO reaches an engine that is in a    *)
(* load, the host never runs on while a join has yet to enter the world    *)
(* last announced to it: for any number of joins, admissions, saves, loads *)
(* and restarts, and with players connecting while others are brought in.  *)
THEOREM LoadHeldWhileLoading ==
    ASSUME "edges" \notin Allowed, "overlap" \notin Allowed
    PROVE  Spec => []HeldWhileLoading
<1>1. Init => HoldInv
    BY TypesInit, OneLoadInit, SeatsInit, CarriedInit DEF HoldInv
<1>2. HoldInv /\ [Next]_vars => HoldInv'
    BY HoldInvStep
<1>3. HoldInv => HeldWhileLoading
    BY HoldInvHolds
<1> QED BY <1>1, <1>2, <1>3, PTL DEF Spec

-----------------------------------------------------------------------------
(* Loads of what was announced.                                            *)

LEMMA AppendToSet ==
    ASSUME NEW S, NEW s \in Seq(S), NEW m \in S
    PROVE  ToSet(Append(s, m)) = ToSet(s) \cup {m}
<1>1. /\ DOMAIN Append(s, m) = (DOMAIN s) \cup {Len(s) + 1}
      /\ \A i \in DOMAIN s : Append(s, m)[i] = s[i]
      /\ Append(s, m)[Len(s) + 1] = m
    OBVIOUS
<1> QED BY <1>1 DEF ToSet

LEMMA TailToSet ==
    ASSUME NEW S, NEW s \in Seq(S), s # <<>>
    PROVE  Head(s) \in ToSet(s) /\ ToSet(Tail(s)) \subseteq ToSet(s)
<1>1. /\ DOMAIN s = 1 .. Len(s) /\ DOMAIN Tail(s) = 1 .. Len(s) - 1 /\ Len(s) \in Nat
      /\ \A i \in 1 .. Len(s) - 1 : Tail(s)[i] = s[i + 1]
      /\ Head(s) = s[1] /\ 1 \in DOMAIN s
    OBVIOUS
<1>2. ASSUME NEW i \in DOMAIN Tail(s) PROVE Tail(s)[i] \in ToSet(s)
    BY <1>1 DEF ToSet
<1> QED BY <1>1, <1>2 DEF ToSet

LEMMA LaneMessages ==
    ASSUME LoadTypes, NEW j \in Joins
    PROVE  Lane(j) \subseteq Messages
BY DEF LoadTypes, LaneTypes, Lane, ToSet

(* The two things that may happen to a lane: its messages are taken away,  *)
LEMMA LaneKept ==
    ASSUME LoadTypes, NEW j \in Joins, LaneFresh(j), UNCHANGED <<disk, overtaken>>,
           xferId' \in Nat, xferId <= xferId', send' \in {send, None},
           Lane(j)' \subseteq Lane(j),
           \A id \in Nat, n \in Names : Knows(j, id, n)' => Knows(j, id, n)
    PROVE  LaneFresh(j)'
<1>1. \A v, n : Current(v, n)' <=> Current(v, n)
    BY DEF Current
<1>2. xferId \in Nat
    BY DEF LoadTypes, SendingTypes
<1>3. ASSUME NEW id \in Nat, id <= xferId PROVE id <= xferId'
    BY <1>2, <1>3
<1>4. \A m \in Lane(j) : m.type = "SAVE_DONE" => m.id \in Nat
    BY LaneMessages DEF Messages
<1> QED BY <1>1, <1>3, <1>4 DEF LaneFresh

(* or one is appended that fits what the join knows.                       *)
LEMMA LaneAppended ==
    ASSUME LoadTypes, NEW j \in Joins, LaneFresh(j), UNCHANGED <<disk, overtaken, join>>,
           NEW m \in Messages, xferId' \in Nat, xferId <= xferId',
           toJoin'[j] = Append(toJoin[j], m),
           m.type = "SAVE_DONE" =>
               /\ m.id <= xferId' /\ m.id \in Nat
               /\ \A n \in Names : Knows(j, m.id, n) => Current(m.version, n),
           m.type # "SAVE_DONE" => Current(m.version, m.name),
           m.type = "SAVE_BEGIN" => m.id = xferId + 1 /\ m.id <= xferId',
           send' # None =>
               \/ send' = send /\ m.type # "SAVE_BEGIN"
               \/ send'.id = xferId + 1 /\ (m.type = "SAVE_BEGIN" => m.name = send'.name)
    PROVE  LaneFresh(j)'
<1>1. \A v, n : Current(v, n)' <=> Current(v, n)
    BY DEF Current
<1>2. Lane(j)' = Lane(j) \cup {m}
    BY AppendToSet DEF LoadTypes, LaneTypes, Lane
<1>3. xferId \in Nat
    BY DEF LoadTypes, SendingTypes
<1>4. ASSUME NEW id \in Nat, NEW n \in Names, Knows(j, id, n)'
      PROVE  \/ Knows(j, id, n)
             \/ m.type = "SAVE_BEGIN" /\ id = m.id /\ n = m.name
    BY <1>2, <1>4 DEF Knows
<1>5. ASSUME NEW id \in Nat, NEW n \in Names, Knows(j, id, n)
      PROVE  id <= xferId
    BY <1>5 DEF LaneFresh
<1>6. ASSUME NEW id \in Nat, NEW n \in Names, Knows(j, id, n)'
      PROVE  id <= xferId' /\ (send' # None /\ send'.id = id => send'.name = n)
    <2>1. CASE m.type = "SAVE_BEGIN" /\ id = m.id /\ n = m.name
        <3>1. id = xferId + 1 /\ id <= xferId'
            BY <2>1
        <3> QED BY <2>1, <3>1
    <2>2. CASE Knows(j, id, n)
        <3>1. id <= xferId /\ (send # None /\ send.id = id => send.name = n)
            BY <2>2 DEF LaneFresh
        <3>2. id <= xferId' /\ id # xferId + 1
            BY <1>3, <3>1
        <3> QED BY <3>1, <3>2
    <2> QED BY <1>4, <1>6, <2>1, <2>2
<1>7. ASSUME NEW d \in Lane(j)', d.type = "SAVE_DONE"
      PROVE  d.id <= xferId' /\ \A n \in Names : Knows(j, d.id, n)' => Current(d.version, n)'
    <2>1. CASE d = m
        <3>1. \A n \in Names : Knows(j, d.id, n)' => Knows(j, d.id, n)
            BY <1>4, <1>7, <2>1
        <3> QED BY <1>1, <1>7, <2>1, <3>1
    <2>2. CASE d \in Lane(j)
        <3>1. d.id \in Nat
            BY <1>7, <2>2, LaneMessages DEF Messages
        <3>2. d.id <= xferId /\ \A n \in Names : Knows(j, d.id, n) => Current(d.version, n)
            BY <1>7, <2>2 DEF LaneFresh
        <3>3. d.id <= xferId' /\ d.id # xferId + 1
            BY <1>3, <3>1, <3>2
        <3>4. \A n \in Names : Knows(j, d.id, n)' => Knows(j, d.id, n)
            BY <1>4, <3>1, <3>3
        <3> QED BY <1>1, <3>2, <3>3, <3>4
    <2> QED BY <1>2, <2>1, <2>2
<1>8. ASSUME NEW d \in Lane(j)', d.type # "SAVE_DONE"
      PROVE  Current(d.version, d.name)'
    BY <1>1, <1>2, <1>8 DEF LaneFresh
<1> QED BY <1>6, <1>7, <1>8 DEF LaneFresh

(* A lane that is emptied, with the transfer being received lost.          *)
LEMMA LaneEmptied ==
    ASSUME NEW j \in Joins, toJoin'[j] = <<>>, ~Receiving(join[j])'
    PROVE  LaneFresh(j)'
<1>1. Lane(j)' = {}
    BY DEF Lane, ToSet
<1> QED BY <1>1 DEF LaneFresh, Knows

LEMMA JoinKept ==
    ASSUME UNCHANGED <<disk, overtaken>>, NEW r
    PROVE  JoinFresh(r)' <=> JoinFresh(r)
BY DEF JoinFresh, Current, Good

LEMMA FreshInit == Init => Fresh
<1> SUFFICES ASSUME Init PROVE Fresh
    OBVIOUS
<1>1. PICK old \in {{}, {1}} :
          join = [j \in Joins |-> FreshJoin([n \in Names |->
                                     IF n = currentGame THEN old ELSE {}])]
    BY DEF Init
<1>2. ASSUME NEW j \in Joins PROVE LaneFresh(j) /\ JoinFresh(join[j])
    <2>1. /\ join[j].recv = None /\ join[j].latch = None /\ join[j].signal = None
          /\ join[j].swap = None /\ join[j].world.id = 0
        BY <1>1 DEF FreshJoin
    <2>2. Lane(j) = {}
        BY DEF Init, Lane, ToSet
    <2> QED BY <2>1, <2>2 DEF LaneFresh, JoinFresh, Knows, Receiving
<1>3. send = None
    BY DEF Init
<1> QED BY <1>2, <1>3 DEF Fresh, SendFresh

(* Steps that touch no folder, lane or join.                               *)
LEMMA FreshKept ==
    ASSUME LoadTypes, Fresh, UNCHANGED <<disk, overtaken, toJoin, join, xferId>>,
           send' \in {send, None}
    PROVE  Fresh'
<1>1. xferId \in Nat
    BY DEF LoadTypes, SendingTypes
<1>2. ASSUME NEW j \in Joins PROVE LaneFresh(j)' /\ JoinFresh(join[j])'
    <2>1. Lane(j)' = Lane(j) /\ \A id, n : Knows(j, id, n)' <=> Knows(j, id, n)
        BY DEF Lane, Knows, Receiving
    <2>2. LaneFresh(j) /\ JoinFresh(join[j])
        BY DEF Fresh
    <2>3. xferId' \in Nat /\ xferId <= xferId'
        BY <1>1
    <2>4. JoinFresh(join[j])'
        BY <2>2 DEF JoinFresh, Current, Good
    <2> QED BY <2>1, <2>2, <2>3, <2>4, LaneKept
<1>3. SendFresh'
    BY DEF Fresh, SendFresh, Current
<1> QED BY <1>2, <1>3 DEF Fresh

(* A broadcast.                                                            *)
LEMMA FreshBroadcast ==
    ASSUME LoadTypes, Fresh, UNCHANGED <<disk, overtaken, join>>,
           NEW m \in Messages, Broadcast(m), xferId' \in Nat, xferId <= xferId',
           m.type = "SAVE_DONE" =>
               send # None /\ send' = None /\ m.id = send.id /\ m.version = disk[send.name],
           m.type # "SAVE_DONE" => m.version = disk[m.name],
           m.type = "SAVE_BEGIN" => m.id = xferId + 1 /\ m.id <= xferId',
           send' # None =>
               \/ send' = send /\ m.type # "SAVE_BEGIN"
               \/ /\ send'.id = xferId + 1 /\ xferId' = xferId + 1
                  /\ send'.first = disk[send'.name]
                  /\ m.type = "SAVE_BEGIN" => m.name = send'.name
    PROVE  Fresh'
<1>1. ASSUME NEW j \in Joins PROVE LaneFresh(j)' /\ JoinFresh(join[j])'
    <2>1. LaneFresh(j) /\ JoinFresh(join[j])
        BY DEF Fresh
    <2>2. JoinFresh(join[j])'
        BY <2>1 DEF JoinFresh, Current, Good
    <2>3. CASE link[j]
        <3>1. toJoin'[j] = Append(toJoin[j], m)
            BY <2>3 DEF Broadcast
        <3>2. ASSUME m.type = "SAVE_DONE"
              PROVE  /\ m.id <= xferId' /\ m.id \in Nat
                     /\ \A n \in Names : Knows(j, m.id, n) => Current(m.version, n)
            <4>1. send.id \in Nat /\ xferId \in Nat /\ send.id <= xferId
                BY <3>2 DEF LoadTypes, SendingTypes, Fresh, SendFresh
            <4>2. \A n \in Names : Knows(j, m.id, n) => n = send.name
                BY <2>1, <3>2, <4>1 DEF LaneFresh
            <4> QED BY <3>2, <4>1, <4>2 DEF Current
        <3>3. m.type # "SAVE_DONE" => Current(m.version, m.name)
            BY DEF Current
        <3> QED BY <2>1, <2>2, <3>1, <3>2, <3>3, LaneAppended
    <2>4. CASE ~link[j]
        <3>1. toJoin'[j] = toJoin[j]
            BY <2>4 DEF Broadcast
        <3>2. Lane(j)' = Lane(j) /\ \A id, n : Knows(j, id, n)' <=> Knows(j, id, n)
            BY <3>1 DEF Lane, Knows, Receiving
        <3>3. \A id \in Nat, n \in Names : Knows(j, id, n) => id <= xferId
            BY <2>1 DEF LaneFresh
        <3>4. \A v, n : Current(v, n)' <=> Current(v, n)
            BY DEF Current
        <3>5. xferId \in Nat
            BY DEF LoadTypes, SendingTypes
        <3>6. ASSUME NEW id \in Nat, id <= xferId PROVE id <= xferId' /\ id # xferId + 1
            BY <3>5, <3>6
        <3>7. \A d \in Lane(j) : d.type = "SAVE_DONE" => d.id \in Nat
            BY LaneMessages DEF Messages
        <3> QED BY <2>1, <2>2, <3>2, <3>3, <3>4, <3>6, <3>7 DEF LaneFresh
    <2> QED BY <2>3, <2>4 DEF LoadTypes, SessionTypes
<1>2. SendFresh'
    <2>1. send \in [id : Nat, name : Names, first : Versions] \cup {None} /\ xferId \in Nat
        BY DEF LoadTypes, SendingTypes
    <2>2. CASE send' = send /\ send # None
        <3>1. send.id <= xferId /\ send.id \in Nat /\ Current(send.first, send.name)
            BY <2>1, <2>2 DEF Fresh, SendFresh
        <3>2. send.id <= xferId'
            BY <2>1, <3>1
        <3> QED BY <2>2, <3>1, <3>2 DEF SendFresh, Current
    <2>3. CASE send'.id = xferId + 1 /\ xferId' = xferId + 1 /\ send'.first = disk[send'.name]
        BY <2>1, <2>3 DEF SendFresh, Current
    <2>4. CASE send' = None
        BY <2>4 DEF SendFresh
    <2> QED BY <2>2, <2>3, <2>4
<1> QED BY <1>1, <1>2 DEF Fresh

LEMMA FreshAnnounce ==
    ASSUME LoadTypes, Fresh, UNCHANGED <<disk, overtaken, join, xferId>>,
           NEW n \in Names, Announce(n), loadIdOut + 1 \in Ids, send' \in {send, None}
    PROVE  Fresh'
<1> DEFINE m == [type |-> "LOAD_GO", id |-> loadIdOut + 1, name |-> n, version |-> disk[n]]
<1>1. m \in Messages
    BY DEF LoadTypes, EngineTypes, Messages
<1>2. Broadcast(m) /\ xferId \in Nat
    BY DEF Announce, LoadTypes, SendingTypes
<1>3. m.type = "LOAD_GO" /\ m.version = disk[m.name]
    OBVIOUS
<1> HIDE DEF m
<1> QED BY <1>1, <1>2, <1>3, FreshBroadcast

LEMMA FreshBeginSend ==
    ASSUME LoadTypes, Fresh, UNCHANGED <<disk, overtaken, join>>,
           NEW n \in Names, BeginSend(n)
    PROVE  Fresh'
<1> DEFINE m == [type |-> "SAVE_BEGIN", id |-> xferId + 1, name |-> n, version |-> disk[n]]
<1>1. xferId \in Nat
    BY DEF LoadTypes, SendingTypes
<1>2. m \in Messages
    BY <1>1 DEF LoadTypes, EngineTypes, Messages
<1>3. Broadcast(m) /\ xferId' = xferId + 1
    BY DEF BeginSend
<1>4. send'.id = xferId + 1 /\ send'.first = disk[send'.name] /\ send'.name = n
    BY DEF BeginSend
<1>5. m.type = "SAVE_BEGIN" /\ m.id = xferId + 1 /\ m.name = n /\ m.version = disk[m.name]
    OBVIOUS
<1> HIDE DEF m
<1> QED BY <1>1, <1>2, <1>3, <1>4, <1>5, FreshBroadcast

LEMMA FreshFinishSend ==
    ASSUME LoadTypes, Fresh, FinishSend
    PROVE  Fresh'
<1> DEFINE m == [type |-> "SAVE_DONE", id |-> send.id, version |-> disk[send.name]]
<1>1. send # None /\ send' = None /\ UNCHANGED <<disk, overtaken, join, xferId>>
    BY DEF FinishSend, engine
<1>2. send.id \in Nat /\ send.name \in Names /\ xferId \in Nat
    BY <1>1 DEF LoadTypes, SendingTypes
<1>3. m \in Messages
    BY <1>2 DEF LoadTypes, EngineTypes, Messages
<1>4. m.type = "SAVE_DONE" /\ m.id = send.id /\ m.version = disk[send.name]
    OBVIOUS
<1>5. CASE Broadcast(m)
    <2> HIDE DEF m
    <2> QED BY <1>1, <1>2, <1>3, <1>4, <1>5, FreshBroadcast
<1>6. CASE UNCHANGED toJoin
    BY <1>1, <1>6, FreshKept
<1> QED BY <1>5, <1>6 DEF FinishSend

(* A save that lands sets aside the version it replaces if that version is *)
(* still on its way.                                                       *)
LEMMA StaysCurrent ==
    ASSUME LoadTypes, SaveLands, NEW v \in InTransit, NEW n \in Names, Current(v, n)
    PROVE  Current(v, n)'
<1>1. /\ disk' = [disk EXCEPT ![signal.name] = version + 1]
      /\ overtaken' = overtaken \cup ({disk[signal.name]} \cap InTransit)
      /\ disk \in [Names -> Versions]
    BY DEF SaveLands, LoadTypes, EngineTypes
<1>2. CASE n = signal.name
    BY <1>1, <1>2 DEF Current
<1>3. CASE n # signal.name
    BY <1>1, <1>3 DEF Current
<1> QED BY <1>2, <1>3

LEMMA FreshSaveLands ==
    ASSUME LoadTypes, Fresh, SaveLands
    PROVE  Fresh'
<1>1. /\ UNCHANGED <<toJoin, join, xferId, send>>
      /\ overtaken' = overtaken \cup ({disk[signal.name]} \cap InTransit)
    BY DEF SaveLands, net, sending
<1>2. \A c, t : Good(c, t) => Good(c, t)'
    BY <1>1 DEF Good
<1>3. ASSUME NEW j \in Joins PROVE LaneFresh(j)'
    <2>1. LaneFresh(j) /\ Lane(j)' = Lane(j)
          /\ \A id, n : Knows(j, id, n)' <=> Knows(j, id, n)
        BY <1>1 DEF Fresh, Lane, Knows, Receiving
    <2>2. ASSUME NEW m \in Lane(j), NEW n \in Names, Current(m.version, n)
          PROVE  Current(m.version, n)'
        <3>1. m.version \in InTransit
            BY DEF InTransit, Lane
        <3> QED BY <2>2, <3>1, StaysCurrent
    <2>3. \A m \in Lane(j) : m.type # "SAVE_DONE" => m.name \in Names
        BY LaneMessages DEF Messages
    <2> QED BY <1>1, <2>1, <2>2, <2>3 DEF LaneFresh
<1>4. ASSUME NEW j \in Joins PROVE JoinFresh(join[j])'
    <2> DEFINE r == join[j]
    <2>1. r \in JoinStates /\ JoinFresh(r)
        BY DEF LoadTypes, LaneTypes, Fresh
    <2>2. r.recv # None => r.recv.first \in InTransit /\ r.recv.name \in Names
        <3>1. r.recv # None => r.recv.first \in InTransit
            BY DEF InTransit
        <3> QED BY <2>1, <3>1 DEF JoinStates, Transfers
    <2>3. r.latch # None => r.told \in InTransit /\ r.latch \in Names
        <3>1. r.latch # None => r.told \in InTransit
            BY DEF InTransit
        <3> QED BY <2>1, <3>1 DEF JoinStates
    <2>4. r.signal # None => r.signal.told \in InTransit /\ r.signal.name \in Names
        <3>1. r.signal # None => r.signal.told \in InTransit
            BY DEF InTransit
        <3> QED BY <2>1, <3>1 DEF JoinStates, Orders
    <2>5. join'[j] = r
        BY <1>1
    <2> HIDE DEF r
    <2> QED BY <1>2, <2>1, <2>2, <2>3, <2>4, <2>5, StaysCurrent DEF JoinFresh
<1>5. SendFresh'
    <2>1. send # None => send.first \in InTransit /\ send.name \in Names
        BY DEF InTransit, LoadTypes, SendingTypes
    <2> QED BY <1>1, <2>1, StaysCurrent DEF Fresh, SendFresh
<1> QED BY <1>3, <1>4, <1>5 DEF Fresh

(* A join takes the head of its lane, or a step of its own.                *)
LEMMA FreshJoinStep ==
    ASSUME LoadTypes, Fresh, NEW j \in Joins, NEW r, Becomes(j, r),
           UNCHANGED <<disk, overtaken, xferId, send>>,
           UNCHANGED toJoin \/ (toJoin[j] # <<>> /\ Consume(j)),
           JoinFresh(r),
           Receiving(r) =>
               \/ join[j].recv = r.recv
               \/ \E b \in Lane(j) : /\ b.type = "SAVE_BEGIN" /\ b.id = r.recv.id
                                     /\ b.name = r.recv.name
    PROVE  Fresh'
<1>1. /\ xferId \in Nat /\ toJoin \in [Joins -> Seq(Messages)]
      /\ join \in [Joins -> JoinStates]
    BY DEF LoadTypes, SendingTypes, LaneTypes
<1>2. join'[j] = r /\ \A k \in Joins : k # j => join'[k] = join[k]
    BY <1>1 DEF Becomes
<1>3. ASSUME NEW k \in Joins PROVE Lane(k)' \subseteq Lane(k)
    <2>1. CASE k = j /\ toJoin[j] # <<>> /\ Consume(j)
        <3>1. toJoin'[j] = Tail(toJoin[j])
            BY <1>1, <2>1 DEF Consume
        <3> QED BY <1>1, <2>1, <3>1, TailToSet DEF Lane
    <2>2. CASE UNCHANGED toJoin \/ k # j
        <3>1. toJoin'[k] = toJoin[k]
            BY <1>1, <2>2 DEF Consume
        <3> QED BY <3>1 DEF Lane
    <2> QED BY <2>1, <2>2
<1>4. ASSUME NEW k \in Joins, NEW id, NEW n, Knows(k, id, n)'
      PROVE  Knows(k, id, n)
    <2>1. CASE k = j
        BY <1>2, <1>3, <1>4, <2>1 DEF Knows, Receiving
    <2>2. CASE k # j
        BY <1>2, <1>3, <1>4, <2>2 DEF Knows, Receiving
    <2> QED BY <2>1, <2>2
<1>5. ASSUME NEW k \in Joins PROVE LaneFresh(k)'
    <2>1. LaneFresh(k)
        BY DEF Fresh
    <2>2. xferId' \in Nat /\ xferId <= xferId' /\ send' \in {send, None}
        BY <1>1
    <2> QED BY <1>3, <1>4, <2>1, <2>2, LaneKept
<1>6. ASSUME NEW k \in Joins PROVE JoinFresh(join[k])'
    <2>1. JoinFresh(join'[k])
        BY <1>2 DEF Fresh
    <2> QED BY <2>1 DEF JoinFresh, Current, Good
<1>7. SendFresh'
    BY DEF Fresh, SendFresh, Current
<1> QED BY <1>5, <1>6, <1>7 DEF Fresh

LEMMA FreshSaveBegin ==
    ASSUME LoadTypes, Fresh, NEW j \in Joins, JoinSaveBegin(j)
    PROVE  Fresh'
<1> DEFINE m == Head(toJoin[j])
           begun == [id |-> m.id, name |-> m.name, first |-> m.version, lost |-> FALSE]
           r == join[j]
           t == [r EXCEPT !.recv = begun]
<1>1. /\ toJoin[j] # <<>> /\ m.type = "SAVE_BEGIN" /\ Consume(j) /\ Becomes(j, t)
      /\ UNCHANGED <<disk, overtaken, xferId, send>>
    BY DEF JoinSaveBegin, Received, hostVars, engine, sending
<1>2. m \in Lane(j) /\ r \in JoinStates /\ LaneFresh(j) /\ JoinFresh(r)
    BY <1>1, TailToSet DEF LoadTypes, LaneTypes, Lane, Fresh
<1>3. t.recv = begun /\ t.latch = r.latch /\ t.told = r.told /\ t.signal = r.signal
      /\ t.copies = r.copies /\ t.swap = r.swap /\ t.world = r.world
    BY <1>2 DEF JoinStates
<1>4. begun.id = m.id /\ begun.name = m.name /\ begun.first = m.version
    OBVIOUS
<1> HIDE DEF m, begun, r, t
<1>5. Current(m.version, m.name)
    BY <1>1, <1>2 DEF LaneFresh
<1>6. JoinFresh(t)
    BY <1>2, <1>3, <1>4, <1>5 DEF JoinFresh
<1> QED BY <1>1, <1>2, <1>3, <1>4, <1>6, FreshJoinStep

LEMMA FreshSaveDone ==
    ASSUME LoadTypes, Fresh, NEW j \in Joins, JoinSaveDone(j)
    PROVE  Fresh'
<1> DEFINE m == Head(toJoin[j])
           r == join[j]
           t == Done(r, m)
<1>1. /\ toJoin[j] # <<>> /\ m.type = "SAVE_DONE" /\ Consume(j) /\ Becomes(j, t)
      /\ UNCHANGED <<disk, overtaken, xferId, send>>
    BY DoneShape DEF JoinSaveDone, Received, hostVars, engine, sending
<1>2. m \in Lane(j) /\ r \in JoinStates /\ LaneFresh(j) /\ JoinFresh(r)
    BY <1>1, TailToSet DEF LoadTypes, LaneTypes, Lane, Fresh
<1>3. m.version \in Versions
    BY <1>1, <1>2, LaneMessages DEF Messages
<1> HIDE DEF m, t
<1>4. CASE r.recv = None \/ r.recv.id # m.id
    BY <1>1, <1>2, <1>4, FreshJoinStep DEF Done, t
<1>5. CASE r.recv # None /\ r.recv.id = m.id /\ r.recv.lost
    <2>1. /\ t.recv = None /\ t.latch = r.latch /\ t.told = r.told /\ t.signal = r.signal
          /\ t.copies = r.copies /\ t.swap = r.swap /\ t.world = r.world
        BY <1>2, <1>5 DEF Done, t, JoinStates
    <2>2. JoinFresh(t) /\ ~Receiving(t)
        BY <1>2, <2>1 DEF JoinFresh, Receiving
    <2> QED BY <1>1, <2>2, FreshJoinStep
<1>6. CASE r.recv # None /\ r.recv.id = m.id /\ ~r.recv.lost
    <2> DEFINE n == r.recv.name
               w == Verified(r, m)
               now == {r.recv.first, m.version}
    <2>1. n \in Names /\ w \in JoinStates
        BY <1>2, <1>3, <1>6, VerifiedTypes DEF Transfers
    <2>2. Current(r.recv.first, n) /\ Current(m.version, n)
        <3>1. Knows(j, m.id, n)
            BY <1>6 DEF Knows, Receiving
        <3> QED BY <1>1, <1>2, <1>6, <2>1, <3>1 DEF LaneFresh, JoinFresh
    <2>3. ASSUME NEW v, Current(v, n) PROVE Good(now, v)
        BY <2>2, <2>3 DEF Good, Current
    <2>4. /\ w.recv = None /\ w.latch = r.latch /\ w.told = r.told /\ w.signal = r.signal
          /\ w.swap = r.swap /\ w.world = r.world /\ w.pend = r.pend
          /\ w.copies = [r.copies EXCEPT ![n] = now]
        BY <1>2 DEF Verified, JoinStates
    <2>5. r.copies \in [Names -> Contents]
        BY <1>2 DEF JoinStates
    <2>6. w.copies[n] = now /\ \A k \in Names : k # n => w.copies[k] = r.copies[k]
        BY <2>1, <2>4, <2>5
    <2>7. r.signal # None => r.signal.name \in Names
        BY <1>2 DEF JoinStates, Orders
    <2> HIDE DEF w, n, now
    <2>8. JoinFresh(w) /\ ~Receiving(w)
        <3>1. ASSUME r.signal # None PROVE Good(w.copies[r.signal.name], r.signal.told)
            <4>1. Current(r.signal.told, r.signal.name)
                  /\ Good(r.copies[r.signal.name], r.signal.told)
                BY <1>2, <3>1 DEF JoinFresh
            <4> QED BY <2>3, <2>6, <2>7, <3>1, <4>1
        <3> QED BY <1>2, <2>4, <3>1 DEF JoinFresh, Receiving
    <2>9. CASE r.latch = n
        <3> DEFINE s == [id |-> w.pend, told |-> w.told, name |-> n]
        <3>1. t = Issue(w, n)
            BY <1>6, <2>9 DEF t, Done, w, n
        <3>2. /\ t.recv = None /\ t.latch = None /\ t.signal = s
              /\ t.swap = w.swap /\ t.world = w.world /\ t.copies = w.copies
            BY <2>1, <2>4, <3>1 DEF Issue, JoinStates
        <3>3. s.told = r.told /\ s.name = n
            BY <2>4
        <3>4. Current(r.told, n)
            BY <1>2, <2>1, <2>9, LoadAssumption DEF JoinFresh
        <3> HIDE DEF s
        <3>5. JoinFresh(t) /\ ~Receiving(t)
            BY <2>3, <2>6, <2>8, <3>2, <3>3, <3>4 DEF JoinFresh, Receiving
        <3> QED BY <1>1, <3>5, FreshJoinStep
    <2>10. CASE r.latch # n
        <3>1. t = w
            BY <1>6, <2>10 DEF t, Done, w, n
        <3> QED BY <1>1, <2>8, <3>1, FreshJoinStep
    <2> QED BY <2>9, <2>10
<1> QED BY <1>4, <1>5, <1>6

LEMMA FreshLoadGo ==
    ASSUME LoadTypes, Fresh, NEW j \in Joins, JoinLoadGo(j)
    PROVE  Fresh'
<1> DEFINE m == Head(toJoin[j])
           r == join[j]
           f == Follows(r, m)
<1>1. /\ toJoin[j] # <<>> /\ m.type = "LOAD_GO" /\ Consume(j)
      /\ UNCHANGED <<disk, overtaken, xferId, send>>
    BY DEF JoinLoadGo, Received, hostVars, engine, sending
<1>2. m \in Lane(j) /\ r \in JoinStates /\ LaneFresh(j) /\ JoinFresh(r)
    BY <1>1, TailToSet DEF LoadTypes, LaneTypes, Lane, Fresh
<1>3. m.id \in Ids /\ m.name \in Names /\ m.version \in Versions
    BY <1>1, <1>2, LaneMessages DEF Messages
<1>4. Current(m.version, m.name)
    BY <1>1, <1>2 DEF LaneFresh
<1>5. \/ UNCHANGED join
      \/ r.copies[m.name] = {m.version} /\ Becomes(j, Issue(f, m.name))
      \/ Becomes(j, [f EXCEPT !.latch = m.name])
    BY LoadGoCases DEF Matches
<1>6. /\ f \in JoinStates
      /\ f.recv = r.recv /\ f.latch = r.latch /\ f.told = m.version /\ f.pend = m.id
      /\ f.signal = r.signal /\ f.copies = r.copies /\ f.swap = r.swap
      /\ f.world = r.world
    BY <1>2, <1>3, FollowsTypes DEF Follows, JoinStates
<1> HIDE DEF m, r, f
<1>7. CASE UNCHANGED join
    <2>1. Becomes(j, r)
        BY <1>7 DEF Becomes, r, LoadTypes, LaneTypes
    <2> QED BY <1>1, <1>2, <2>1, FreshJoinStep DEF r
<1>8. CASE r.copies[m.name] = {m.version} /\ Becomes(j, Issue(f, m.name))
    <2> DEFINE t == Issue(f, m.name)
               s == [id |-> f.pend, told |-> f.told, name |-> m.name]
    <2>1. /\ t.recv = r.recv /\ t.latch = None /\ t.signal = s
          /\ t.copies = r.copies /\ t.swap = r.swap /\ t.world = r.world
        BY <1>6 DEF Issue, JoinStates
    <2>2. s.told = m.version /\ s.name = m.name
        BY <1>6
    <2> HIDE DEF t, s
    <2>3. JoinFresh(t)
        BY <1>2, <1>4, <1>8, <2>1, <2>2 DEF JoinFresh, Good
    <2> QED BY <1>1, <1>8, <2>1, <2>3, FreshJoinStep DEF t, r
<1>9. CASE Becomes(j, [f EXCEPT !.latch = m.name])
    <2> DEFINE t == [f EXCEPT !.latch = m.name]
    <2>1. /\ t.recv = r.recv /\ t.latch = m.name /\ t.told = m.version
          /\ t.signal = r.signal /\ t.copies = r.copies /\ t.swap = r.swap
          /\ t.world = r.world
        BY <1>6 DEF JoinStates
    <2> HIDE DEF t
    <2>2. JoinFresh(t)
        BY <1>2, <1>4, <2>1 DEF JoinFresh
    <2> QED BY <1>1, <1>9, <2>1, <2>2, FreshJoinStep DEF t, r
<1> QED BY <1>5, <1>7, <1>8, <1>9

LEMMA FreshJoinAlone ==
    ASSUME LoadTypes, Fresh, NEW j \in Joins,
           JoinSwapStart(j) \/ JoinSwapEnd(j) \/ JoinReportReady(j)
    PROVE  Fresh'
<1> DEFINE r == join[j]
<1>1. UNCHANGED <<disk, overtaken, xferId, send, toJoin>>
    BY DEF JoinSwapStart, JoinSwapEnd, JoinReportReady, hostVars, engine, sending
<1>2. r \in JoinStates /\ JoinFresh(r)
    BY DEF LoadTypes, LaneTypes, Fresh
<1>3. CASE JoinSwapStart(j)
    <2> DEFINE swap == [id |-> r.signal.id, told |-> r.signal.told,
                        content |-> r.copies[r.signal.name]]
               t == [r EXCEPT !.swap = swap, !.signal = None]
    <2>1. r.signal # None /\ Becomes(j, t)
        BY <1>3 DEF JoinSwapStart
    <2>2. /\ t.recv = r.recv /\ t.latch = r.latch /\ t.told = r.told /\ t.signal = None
          /\ t.swap = swap /\ t.world = r.world
        BY <1>2 DEF JoinStates
    <2>3. swap.told = r.signal.told /\ swap.content = r.copies[r.signal.name]
        OBVIOUS
    <2> HIDE DEF swap, t
    <2>4. JoinFresh(t)
        BY <1>2, <2>1, <2>2, <2>3 DEF JoinFresh
    <2> QED BY <1>1, <2>1, <2>2, <2>4, FreshJoinStep
<1>4. CASE JoinSwapEnd(j)
    <2> DEFINE t == [r EXCEPT !.world = r.swap, !.swap = None, !.live = WorldLive(r)]
    <2>1. r.swap # None /\ Becomes(j, t)
        BY <1>4 DEF JoinSwapEnd
    <2>2. /\ t.recv = r.recv /\ t.latch = r.latch /\ t.told = r.told /\ t.signal = r.signal
          /\ t.copies = r.copies /\ t.swap = None /\ t.world = r.swap
        BY <1>2 DEF JoinStates
    <2> HIDE DEF t
    <2>3. JoinFresh(t)
        BY <1>2, <2>1, <2>2 DEF JoinFresh
    <2> QED BY <1>1, <2>1, <2>2, <2>3, FreshJoinStep
<1>5. CASE JoinReportReady(j)
    <2>1. Becomes(j, Reported(r))
        BY <1>5 DEF JoinReportReady
    <2> DEFINE t == Reported(r)
    <2>2. /\ t.recv = r.recv /\ t.latch = r.latch /\ t.told = r.told /\ t.signal = r.signal
          /\ t.copies = r.copies /\ t.swap = r.swap /\ t.world = r.world
        BY <1>2 DEF Reported, JoinStates
    <2> HIDE DEF t
    <2>3. JoinFresh(t)
        BY <1>2, <2>2 DEF JoinFresh
    <2> QED BY <1>1, <2>1, <2>2, <2>3, FreshJoinStep DEF t
<1> QED BY <1>3, <1>4, <1>5

(* A link that goes down, or all of them with the host's process.          *)
LEMMA FreshCut ==
    ASSUME LoadTypes, Fresh, NEW J \in SUBSET Joins,
           UNCHANGED <<disk, overtaken>>,
           \A j \in Joins : join'[j] = IF j \in J THEN Lost(join[j]) ELSE join[j],
           \A j \in Joins : toJoin'[j] = IF j \in J THEN <<>> ELSE toJoin[j],
           (J = Joins /\ send' = None) \/ UNCHANGED <<send, xferId>>
    PROVE  Fresh'
<1>1. ASSUME NEW j \in J PROVE LaneFresh(j)' /\ JoinFresh(join[j])'
    <2>1. join[j] \in JoinStates /\ JoinFresh(join[j])
        BY DEF LoadTypes, LaneTypes, Fresh
    <2> DEFINE r == join[j]
               t == Lost(r)
    <2>2. join'[j] = t /\ toJoin'[j] = <<>>
        OBVIOUS
    <2>3. /\ t.latch = r.latch /\ t.told = r.told /\ t.signal = r.signal
          /\ t.copies = r.copies /\ t.swap = r.swap /\ t.world = r.world
          /\ t.recv # None => /\ r.recv # None /\ t.recv.lost
                              /\ t.recv.first = r.recv.first
                              /\ t.recv.name = r.recv.name
        <3>1. CASE r.recv = None
            BY <3>1 DEF Lost
        <3>2. CASE r.recv # None
            <4> DEFINE x == [r.recv EXCEPT !.lost = TRUE]
            <4>1. r.recv \in Transfers
                BY <2>1, <3>2 DEF JoinStates
            <4>2. x \in Transfers /\ x.lost /\ x.first = r.recv.first
                  /\ x.name = r.recv.name
                BY <4>1 DEF Transfers
            <4> HIDE DEF x
            <4>3. t = [r EXCEPT !.recv = x]
                BY <3>2 DEF Lost, x
            <4> QED BY <2>1, <3>2, <4>2, <4>3 DEF JoinStates
        <3> QED BY <3>1, <3>2
    <2> HIDE DEF r, t
    <2>4. JoinFresh(t) /\ ~Receiving(t)
        BY <2>1, <2>3 DEF JoinFresh, Receiving, r
    <2>5. JoinFresh(join[j])'
        BY <2>2, <2>4 DEF JoinFresh, Current, Good
    <2>6. ~Receiving(join[j])'
        BY <2>2, <2>4 DEF Receiving
    <2> QED BY <2>2, <2>5, <2>6, LaneEmptied
<1>2. ASSUME NEW j \in Joins \ J PROVE LaneFresh(j)' /\ JoinFresh(join[j])'
    <2>1. UNCHANGED <<send, xferId>> /\ join'[j] = join[j] /\ toJoin'[j] = toJoin[j]
        OBVIOUS
    <2>2. Lane(j)' = Lane(j) /\ \A id, n : Knows(j, id, n)' <=> Knows(j, id, n)
        BY <2>1 DEF Lane, Knows, Receiving
    <2>3. LaneFresh(j) /\ JoinFresh(join[j])
        BY DEF Fresh
    <2>4. JoinFresh(join[j])'
        BY <2>1, <2>3 DEF JoinFresh, Current, Good
    <2>5. LaneFresh(j)'
        BY <2>1, <2>2, <2>3 DEF LaneFresh, Current
    <2> QED BY <2>4, <2>5
<1>3. SendFresh'
    BY DEF Fresh, SendFresh, Current
<1> QED BY <1>1, <1>2, <1>3 DEF Fresh

LEMMA FreshStep ==
    ASSUME LoadTypes, LoadTypes', Fresh, [Next]_vars
    PROVE  Fresh'
<1>0. ASSUME UNCHANGED <<disk, overtaken, toJoin, join, xferId, send>>
      PROVE  Fresh'
    BY <1>0, FreshKept
<1>1. CASE HostStep
    <2>1. CASE WatchSettled
        <3>1. UNCHANGED <<disk, overtaken, join>> /\ savePending \in Names
            BY <2>1 DEF WatchSettled, engine, LoadTypes, SavingTypes
        <3>2. CASE bootstrapName = savePending
            <4>1. UNCHANGED <<xferId, send>>
                BY <2>1, <3>2 DEF WatchSettled, sending
            <4> QED BY <2>1, <3>1, <3>2, <4>1, AnnouncesOnly, FreshAnnounce
        <3>3. CASE bootstrapName # savePending
            <4>1. BeginSend(savePending) \/ UNCHANGED <<send, xferId, toJoin>>
                BY <2>1, <3>3 DEF WatchSettled
            <4> QED BY <1>0, <3>1, <4>1, FreshBeginSend
        <3> QED BY <3>2, <3>3
    <2>2. CASE StartFallback
        <3>1. UNCHANGED <<disk, overtaken, join>> /\ BeginSend(loadXferPending)
              /\ loadXferPending \in Names
            BY <2>2 DEF StartFallback, engine, LoadTypes, SendingTypes
        <3> QED BY <3>1, FreshBeginSend
    <2>3. CASE \/ ProcessNetEvents \/ SwapStart \/ SwapEnd
               \/ \E j \in Joins : HostReceive(j)
        <3>1. UNCHANGED <<disk, overtaken, toJoin, join, xferId, send>>
            BY <2>3 DEF ProcessNetEvents, BakeForConnects, ArmConnectPush, Save, SwapStart,
               SwapEnd, HostReceive, engine, net, sending
        <3> QED BY <1>0, <3>1
    <2> QED BY <1>1, <2>1, <2>2, <2>3, FreshSaveLands, FreshFinishSend DEF HostStep
<1>2. CASE PlayerStep
    <2>1. CASE HostRestart
        <3>1. /\ UNCHANGED <<disk, overtaken>> /\ send' = None
              /\ \A j \in Joins : join'[j] = Lost(join[j]) /\ toJoin'[j] = <<>>
            BY <2>1 DEF HostRestart
        <3> QED BY <3>1, FreshCut
    <2>2. ASSUME NEW n \in Names, HostLoad(n) PROVE Fresh'
        <3>1. UNCHANGED <<disk, overtaken, join, xferId>> /\ send' = None
            BY <2>2 DEF HostLoad
        <3> QED BY <2>2, <3>1, AnnouncesOnly, FreshAnnounce
    <2>3. ASSUME NEW n \in Names, GameplayStart \/ SaveEdge(n) PROVE Fresh'
        <3>1. UNCHANGED <<disk, overtaken, toJoin, join, xferId, send>>
            BY <2>3 DEF GameplayStart, SaveEdge, ArmConnectPush, Save, net, sending
        <3> QED BY <1>0, <3>1
    <2>4. ASSUME NEW j \in Joins, Admit(j) PROVE Fresh'
        <3>1. UNCHANGED <<disk, overtaken, toJoin, join, xferId, send>>
            BY <2>4 DEF Admit, engine, sending
        <3> QED BY <1>0, <3>1
    <2>5. ASSUME NEW j \in Joins, Drop(j) PROVE Fresh'
        <3>1. /\ UNCHANGED <<disk, overtaken, send, xferId>>
              /\ join' = [join EXCEPT ![j] = Lost(join[j])]
              /\ toJoin' = [toJoin EXCEPT ![j] = <<>>]
            BY <2>5 DEF Drop, Becomes, engine, sending
        <3>2. /\ \A k \in Joins : join'[k] = IF k \in {j} THEN Lost(join[k]) ELSE join[k]
              /\ \A k \in Joins : toJoin'[k] = IF k \in {j} THEN <<>> ELSE toJoin[k]
            BY <3>1 DEF LoadTypes, LaneTypes
        <3> QED BY <3>1, <3>2, FreshCut
    <2>6. PICK n \in Names : TRUE
        BY LoadAssumption
    <2> QED BY <1>2, <2>1, <2>2, <2>3, <2>4, <2>5, <2>6 DEF PlayerStep
<1>3. CASE \E j \in Joins : JoinStep(j)
    BY <1>3, FreshSaveBegin, FreshSaveDone, FreshLoadGo, FreshJoinAlone DEF JoinStep
<1>4. CASE UNCHANGED vars
    <2>1. UNCHANGED <<disk, overtaken, toJoin, join, xferId, send>>
        BY <1>4 DEF vars, engine, net, sending
    <2> QED BY <1>0, <2>1
<1> QED BY <1>1, <1>2, <1>3, <1>4 DEF Next

(* driveLoadSync: whatever the players do and however connections, saves   *)
(* and restarts of the host fall, a join's world is the save that was      *)
(* announced to it, unless the host wrote that save anew while the version *)
(* announced or one of those received was still on its way.                *)
THEOREM LoadAnnounced == Spec => []LoadsAnnounced
<1>1. Init => LoadTypes /\ Fresh
    BY TypesInit, FreshInit
<1>2. LoadTypes /\ Fresh /\ [Next]_vars => (LoadTypes /\ Fresh)'
    BY TypesStep, FreshStep
<1>3. LoadTypes /\ Fresh => LoadsAnnounced
    BY DEF Fresh, JoinFresh, Good, LoadsAnnounced
<1> QED BY <1>1, <1>2, <1>3, PTL DEF Spec

=============================================================================

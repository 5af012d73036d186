---------------------------- MODULE SaveTransfer ----------------------------
(***************************************************************************)
(* Streaming a save folder to a join and putting it in place (protocol 31).*)
(*                                                                         *)
(* The host sends BEGIN, the chunks of every file in order, and DONE with  *)
(* the checksums.  The join stages the chunks in save/<name>__incoming,    *)
(* verifies them on DONE, sets its own copy aside as save/<name>__old and  *)
(* renames the staging folder over it.                                     *)
(*                                                                         *)
(* Transfer x streams one save, so its number stands for the content of    *)
(* every byte of it; 0 is the copy the join already had.  What a bake does *)
(* to a folder that is being read is in CoordinatedLoad.  A checksum is    *)
(* the sequence of the chunks that went into it.                           *)
(***************************************************************************)
EXTENDS Integers, SequencesExt, FiniteSetsExt

CONSTANTS
    Names,        \* save names
    None,         \* no name
    Files,        \* numbers of the files a save may have, sent in this order
    Parts,        \* how many chunks each file takes
    Room,         \* chunks not yet taken by the join at which the sender pauses
    MaxBegins,    \* bound: transfers
    MaxCrashes,   \* bound: the join's process dies
    MaxRefusals,  \* bound: file operations the join's system refuses
    MaxDrops      \* bound: the link fails

ASSUME TransferAssumption ==
    /\ None \notin Names
    /\ Files \subseteq Nat \ {0} /\ Files # {} /\ IsFiniteSet(Files)
    /\ Parts \in [Files -> Nat \ {0}]
    /\ Room \in Nat \ {0}
    /\ MaxBegins \in Nat /\ MaxCrashes \in Nat
    /\ MaxRefusals \in Nat /\ MaxDrops \in Nat

VARIABLES
    \* the host
    xferId,     \* g_sendXferId
    save,       \* what each transfer streams: its name and its files
    send,       \* the file and chunk to send next, Idle unless g_sendActive
    sent,       \* g_lastSentXferId
    \* the network
    link,       \* the join is connected
    lane,       \* SAVE_BULK to the join, with its Inbound queues at the end
    \* the join
    todo,       \* what is left of the batch that pumpSaveReceive drained
    recv,       \* g_recv*: the transfer being received
    step,       \* where onSaveDone is
    disk,       \* the three folders of each name
    \* history and bounds
    committed,  \* transfers acknowledged as committed
    orphaned,   \* names whose commit began without a copy in place
    spoiled,    \* names whose staging folder could not be emptied
    harmed,     \* transfers during which a fault happened
    crashes, refusals, drops

hostVars == <<xferId, save, send, sent>>
net      == <<link, lane>>
history  == <<committed, orphaned, spoiled, harmed>>
bounds   == <<crashes, refusals, drops>>
vars == <<hostVars, net, todo, recv, step, disk, history, bounds>>

Hole    == -1
Idle    == [file |-> 0, part |-> 0]
NoRecv  == [active |-> FALSE, id |-> 0, open |-> 0, seen |-> {},
            crc |-> [f \in Files |-> <<>>]]
Missing == [f \in Files |-> <<>>]   \* a folder without files
Gone    == <<>>                     \* no folder
Slots   == {"final", "old", "incoming"}

(* A folder is Gone, or gives each file its chunks, none for a file that   *)
(* is not there.                                                           *)
Image(x) == [f \in Files |-> IF f \in save[x].files
                             THEN [p \in 1 .. Parts[f] |-> x] ELSE <<>>]
Listed(x, folder) ==
    folder # Gone /\ \A f \in save[x].files : folder[f] = Image(x)[f]
Whole(x, folder) == folder = Image(x)

Init ==
    /\ xferId = 0
    /\ save = [x \in 0 .. MaxBegins |-> [name |-> None, files |-> Files]]
    /\ send = Idle /\ sent = 0
    /\ link = TRUE /\ lane = <<>> /\ todo = <<>>
    /\ recv = NoRecv /\ step = "idle"
    /\ \E had \in SUBSET Names :
         disk = [n \in Names |-> [s \in Slots |->
                   IF s = "final" /\ n \in had THEN Image(0) ELSE Gone]]
    /\ committed = {} /\ orphaned = {} /\ spoiled = {} /\ harmed = {}
    /\ crashes = 0 /\ refusals = 0 /\ drops = 0

-----------------------------------------------------------------------------
(* The host.                                                               *)

(* A frame on its way; without a peer it goes nowhere.                     *)
Stream(frames) ==
    IF link THEN lane' = lane \o frames /\ UNCHANGED harmed
            ELSE harmed' = harmed \cup {xferId'} /\ UNCHANGED lane

First(files) == {f \in files : \A g \in files : f <= g}

(* beginSend: whatever was being sent is abandoned.                        *)
BeginSend(n, files) ==
    /\ xferId < MaxBegins /\ xferId' = xferId + 1
    /\ save' = [save EXCEPT ![xferId'] = [name |-> n, files |-> files]]
    /\ \E f \in First(files) : send' = [file |-> f, part |-> 1]
    /\ Stream(<<[type |-> "BEGIN", id |-> xferId']>>)
    /\ UNCHANGED <<sent, link, todo, recv, step, disk, committed,
                   orphaned, spoiled, bounds>>

(* tickSend: one more chunk while the lane has room for it; the last one   *)
(* takes the DONE with it.                                                 *)
Later(file) == {f \in save[xferId].files : f > file}
MorePast == send.part <= Parts[send.file]
More == send.part < Parts[send.file]
SendChunk ==
    /\ send # Idle
    /\ Cardinality({i \in DOMAIN lane : lane[i].type = "FILE"}) < Room
    /\ LET chunk == [type |-> "FILE", id |-> xferId, file |-> send.file,
                     part |-> send.part]
       IN IF More \/ Later(send.file) # {}
          THEN /\ IF More THEN send' = [send EXCEPT !.part = @ + 1]
                  ELSE \E f \in First(Later(send.file)) :
                         send' = [file |-> f, part |-> 1]
               /\ UNCHANGED <<xferId, sent>>
               /\ Stream(<<chunk>>)
          ELSE /\ send' = Idle /\ sent' = xferId /\ UNCHANGED xferId
               /\ Stream(<<chunk, [type |-> "DONE", id |-> xferId]>>)
    /\ UNCHANGED <<save, link, todo, recv, step, disk, committed,
                   orphaned, spoiled, bounds>>

(* abortAll: a coordinated load supersedes the transfer.                   *)
Abort ==
    /\ send # Idle /\ send' = Idle
    /\ UNCHANGED <<xferId, save, sent, net, todo, recv, step, disk, history,
                   bounds>>

-----------------------------------------------------------------------------
(* The link fails: the frames that have not reached the queues of the join *)
(* are lost, and the host's sender goes on.                                *)
Drop ==
    /\ link /\ link' = FALSE /\ drops < MaxDrops /\ drops' = drops + 1
    /\ \E k \in 0 .. Len(lane) : lane' = SubSeq(lane, 1, k)
    /\ harmed' = harmed \cup {xferId}
    /\ UNCHANGED <<hostVars, todo, recv, step, disk, committed,
                   orphaned, spoiled, crashes, refusals>>

Reconnect ==
    /\ ~link /\ link' = TRUE
    /\ UNCHANGED <<hostVars, lane, todo, recv, step, disk, history,
                   bounds>>

-----------------------------------------------------------------------------
(* The join.                                                               *)
(* pumpSaveReceive handles the three queues one after the other.           *)
RankDonesFirst == [BEGIN |-> 1, DONE |-> 2, FILE |-> 3]   \* fault
Rank == [BEGIN |-> 1, FILE |-> 2, DONE |-> 3]

(* drainSaveTransfer takes at once what the queues hold by now.            *)
Pump ==
    /\ step = "idle" /\ todo = <<>>
    /\ \E k \in 1 .. Len(lane) :
         /\ todo' = SubSeq(lane, 1, k)
         /\ lane' = SubSeq(lane, k + 1, Len(lane))
    /\ UNCHANGED <<hostVars, link, recv, step, disk, history, bounds>>

(* The system refuses n of the operations of this step.                    *)
Refuse(n) ==
    /\ refusals + n <= MaxRefusals /\ refusals' = refusals + n
    /\ harmed' = IF n > 0 THEN harmed \cup {xferId} ELSE harmed
    /\ UNCHANGED <<crashes, drops>>

(* removeTree deletes what it can: a file the system holds on to is kept,  *)
(* and the folder with it.                                                 *)
Present(folder) == IF folder = Gone THEN {} ELSE {f \in Files : folder[f] # <<>>}
Swept(folder, kept) ==
    IF kept = {} THEN Gone ELSE [f \in Files |-> IF f \in kept THEN folder[f] ELSE <<>>]
Put(n, slot, folder) == disk' = [disk EXCEPT ![n][slot] = folder]
Sweeps(n, slot, kept) ==
    /\ kept \subseteq Present(disk[n][slot])
    /\ Refuse(IF kept = {} THEN 0 ELSE 1)
    /\ Put(n, slot, Swept(disk[n][slot], kept))

(* The i-th frame of the batch is the oldest of the kind whose turn it is. *)
Turn(i, type) ==
    /\ step = "idle" /\ todo[i].type = type
    /\ \A k \in DOMAIN todo : /\ Rank[type] <= Rank[todo[k].type]
                              /\ k < i => todo[k].type # type
    /\ todo' = RemoveAt(todo, i)
Name == save[recv.id].name

(* onSaveBegin: a fresh staging folder, unless the old one resists.        *)
OnSaveBegin(i) ==
    /\ Turn(i, "BEGIN")
    /\ LET n == save[todo[i].id].name
           begun(active) == [NoRecv EXCEPT !.active = active, !.id = todo[i].id]
           staging(folder) == Put(n, "incoming", folder)
       IN \/ /\ recv' = begun(TRUE) /\ staging(Missing)
             /\ Refuse(0) /\ UNCHANGED spoiled
          \/ /\ recv' = begun(FALSE) /\ staging(Gone)
             /\ Refuse(1) /\ UNCHANGED spoiled
          \/ \E kept \in (SUBSET Present(disk[n]["incoming"])) \ {{}} :
               /\ recv' = begun(TRUE) /\ staging(Swept(disk[n]["incoming"], kept))
               /\ Refuse(1) /\ spoiled' = spoiled \cup {n}
    /\ UNCHANGED <<hostVars, net, step, committed, orphaned>>

(* onSaveFile: the first chunk creates its file, each is written at its    *)
(* place; the checksum takes only what was written.                        *)
Written(p, kept) ==
    [q \in 1 .. (IF p > Len(kept) THEN p ELSE Len(kept)) |->
       IF q = p THEN recv.id ELSE IF q \in DOMAIN kept THEN kept[q] ELSE Hole]
Holds(f, content) ==
    Put(Name, "incoming", [disk[Name]["incoming"] EXCEPT ![f] = content])

OnSaveFile(i) ==
    /\ Turn(i, "FILE")
    /\ LET m == todo[i]
           f == m.file
           opened == [recv EXCEPT !.open = f, !.seen = @ \cup {f}]
           content == IF f \in recv.seen THEN disk[Name]["incoming"][f] ELSE <<>>
       IN IF ~recv.active \/ m.id # recv.id
          THEN UNCHANGED <<recv, disk>> /\ Refuse(0)
          ELSE \/ /\ recv' = [opened EXCEPT !.crc[f] = Append(@, m.part)]
                  /\ Holds(f, Written(m.part, content)) /\ Refuse(0)
               \/ /\ recv.open # f                       \* the open is refused
                  /\ recv' = [recv EXCEPT !.open = 0]
                  /\ UNCHANGED disk /\ Refuse(1)
               \/ /\ recv' = opened                      \* the write is refused
                  /\ Holds(f, content) /\ Refuse(1)
    /\ UNCHANGED <<hostVars, net, step, committed, orphaned, spoiled>>

(* onSaveDone verifies the checksums of every file in the table ...        *)
VerifiedWhatCame(x) == \A f \in recv.seen : recv.crc[f] = [p \in 1 .. Parts[f] |-> p]
Verified(x) ==
    \A f \in save[x].files :
        f \in recv.seen /\ recv.crc[f] = [p \in 1 .. Parts[f] |-> p]

OnSaveDone(i) ==
    /\ Turn(i, "DONE")
    /\ LET x == todo[i].id
       IN IF ~recv.active \/ x # recv.id
          THEN UNCHANGED <<recv, step, orphaned>>
          ELSE /\ recv' = [recv EXCEPT !.active = FALSE, !.open = 0]
               /\ step' = IF Verified(x) THEN "sweep" ELSE "discard"
               /\ orphaned' = IF Verified(x) /\ disk[Name]["final"] = Gone /\ disk[Name]["old"] # Gone
                              THEN orphaned \cup {Name} ELSE orphaned
    /\ UNCHANGED <<hostVars, net, disk, committed, spoiled, harmed, bounds>>

(* ... and then swaps the folders, one operation after the other: what was *)
(* left of the copy set aside before is removed, ...                       *)
SweepOld ==
    /\ step = "sweep" /\ step' = "aside"
    /\ \E kept \in SUBSET Files : Sweeps(Name, "old", kept)
    /\ UNCHANGED <<hostVars, net, todo, recv, committed, orphaned, spoiled>>

Move(n, from, to) ==
    disk' = [disk EXCEPT ![n][to] = disk[n][from], ![n][from] = Gone]

(* Fault: the copy in place is deleted first.                              *)
SetAsideDeletes ==
    /\ step = "aside" /\ step' = "promote"
    /\ Sweeps(Name, "final", {})
    /\ UNCHANGED <<hostVars, net, todo, recv, committed, orphaned, spoiled>>

(* ... the copy in place is set aside, ...                                 *)
SetAside ==
    /\ step = "aside"
    /\ IF disk[Name]["final"] = Gone
       THEN step' = "promote" /\ UNCHANGED disk /\ Refuse(0)
       ELSE \/ /\ disk[Name]["old"] = Gone
               /\ Move(Name, "final", "old") /\ step' = "promote had" /\ Refuse(0)
            \/ /\ UNCHANGED disk /\ step' = "discard"
               /\ Refuse(IF disk[Name]["old"] = Gone THEN 1 ELSE 0)
    /\ UNCHANGED <<hostVars, net, todo, recv, committed, orphaned, spoiled>>

(* Fault: the rename is taken to have worked.                              *)
PromoteUnchecked ==
    /\ step \in {"promote", "promote had"}
    /\ step' = IF step = "promote had" THEN "drop" ELSE "commit"
    /\ \/ Move(Name, "incoming", "final") /\ Refuse(0)
       \/ UNCHANGED disk /\ Refuse(1)
    /\ UNCHANGED <<hostVars, net, todo, recv, committed, orphaned, spoiled>>

(* ... the staging folder gets its name, ...                               *)
Promote ==
    /\ step \in {"promote", "promote had"}
    /\ \/ /\ Move(Name, "incoming", "final") /\ Refuse(0)
          /\ step' = IF step = "promote had" THEN "drop" ELSE "commit"
       \/ /\ UNCHANGED disk /\ Refuse(1)
          /\ step' = IF step = "promote had" THEN "restore" ELSE "discard"
    /\ UNCHANGED <<hostVars, net, todo, recv, committed, orphaned, spoiled>>

(* ... or the copy set aside goes back, ...                                *)
Restore ==
    /\ step = "restore" /\ step' = "discard"
    /\ \/ Move(Name, "old", "final") /\ Refuse(0)
       \/ UNCHANGED disk /\ Refuse(1)
    /\ UNCHANGED <<hostVars, net, todo, recv, committed, orphaned, spoiled>>

(* ... the copy set aside is removed, and the outcome acknowledged.        *)
DropOld ==
    /\ step = "drop" /\ step' = "commit"
    /\ \E kept \in SUBSET Files : Sweeps(Name, "old", kept)
    /\ UNCHANGED <<hostVars, net, todo, recv, committed, orphaned, spoiled>>

Discard ==
    /\ step = "discard" /\ step' = "fail"
    /\ \E kept \in SUBSET Files : Sweeps(Name, "incoming", kept)
    /\ UNCHANGED <<hostVars, net, todo, recv, committed, orphaned, spoiled>>

Acknowledge ==
    /\ step \in {"commit", "fail"} /\ step' = "idle"
    /\ committed' = IF step = "commit" THEN committed \cup {recv.id} ELSE committed
    /\ UNCHANGED <<hostVars, net, todo, recv, disk, orphaned, spoiled, harmed,
                   bounds>>

(* The process dies, between two file operations or within a removal (a    *)
(* refused one leaves the same folder); the player starts it again.        *)
Crash ==
    /\ crashes < MaxCrashes /\ crashes' = crashes + 1
    /\ link' = FALSE /\ lane' = <<>> /\ todo' = <<>>
    /\ recv' = NoRecv /\ step' = "idle"
    /\ harmed' = harmed \cup {xferId}
    /\ UNCHANGED <<hostVars, disk, committed, orphaned, spoiled, refusals, drops>>

-----------------------------------------------------------------------------
HostNext ==
    \/ \E n \in Names, files \in (SUBSET Files) \ {{}} : BeginSend(n, files)
    \/ SendChunk
    \/ Abort

JoinNext ==
    \/ Pump
    \/ \E i \in DOMAIN todo : OnSaveBegin(i) \/ OnSaveFile(i) \/ OnSaveDone(i)
    \/ SweepOld \/ SetAside \/ Promote \/ Restore \/ DropOld \/ Discard
    \/ Acknowledge

Next == HostNext \/ JoinNext \/ Drop \/ Reconnect \/ Crash

Spec == Init /\ [][Next]_vars

(* What was sent arrives while the link is up, the join's game loop drains *)
(* its queues and a handler runs to its end.  The host owes nothing.       *)
FairSpec == Spec /\ WF_vars(JoinNext)

-----------------------------------------------------------------------------
Steps == {"idle", "sweep", "aside", "promote", "promote had", "restore",
          "drop", "discard", "commit", "fail"}
Ids == 0 .. MaxBegins
Frames == [type : {"BEGIN", "DONE"}, id : Ids] \cup
          [type : {"FILE"}, id : Ids, file : Files, part : Nat \ {0}]
Folders == {Gone} \cup [Files -> Seq(Ids \cup {Hole})]

TypeOK ==
    /\ xferId \in Ids /\ sent \in Ids
    /\ save \in [Ids -> [name : Names \cup {None}, files : (SUBSET Files) \ {{}}]]
    /\ send \in [file : Files \cup {0}, part : Nat]
    /\ send # Idle => send.part \in 1 .. Parts[send.file]
    /\ link \in BOOLEAN
    /\ lane \in Seq(Frames) /\ todo \in Seq(Frames)
    /\ recv \in [active : BOOLEAN, id : Ids, open : Files \cup {0},
                 seen : SUBSET Files, crc : [Files -> Seq(Nat)]]
    /\ step \in Steps
    /\ disk \in [Names -> [Slots -> Folders]]
    /\ committed \subseteq Ids /\ harmed \subseteq Ids
    /\ orphaned \subseteq Names /\ spoiled \subseteq Names
    /\ crashes \in 0 .. MaxCrashes /\ refusals \in 0 .. MaxRefusals
    /\ drops \in 0 .. MaxDrops

(* onSaveDone: the folder a player can load is always one save as it was   *)
(* streamed, whatever was lost, refused or cut short.  Only files that the *)
(* system would not let go from an earlier staging folder may be in it as  *)
(* well: the checksums do not see them.                                    *)
FinalWhole ==
    \A n \in Names : disk[n]["final"] # Gone =>
        \E x \in Ids :
            IF n \in spoiled THEN Listed(x, disk[n]["final"])
                             ELSE Whole(x, disk[n]["final"])

(* Save n can be had as of transfer x: from the copy in place or, when     *)
(* there is none, from the one set aside.                                  *)
Shows(n, x) ==
    Listed(x, disk[n][IF disk[n]["final"] # Gone THEN "final" ELSE "old"])

(* onSaveDone's order of removals and renames: the copy that survives is   *)
(* never an older one, let alone none - until a commit begins while the    *)
(* only copy is the one set aside, because the process died between the    *)
(* two renames or the way back was refused.                                *)
NeverBack ==
    [][\A n \in Names : n \notin orphaned' =>
         \A x \in Ids : Shows(n, x) => \E y \in x .. MaxBegins : Shows(n, y)']_vars

(* pumpSaveReceive acknowledges a transfer as committed only when what it  *)
(* streamed is in place at that moment.                                    *)
AckMeansInPlace ==
    [][\A x \in committed' \ committed : Listed(x, disk[save[x].name]["final"])]_vars

(* The last transfer the host streamed to its end reaches the join's disk, *)
(* however its frames are batched with those of transfers abandoned before *)
(* it, unless a fault happened during it.                                  *)
Lands ==
    \A x \in 1 .. MaxBegins :
        sent = x ~> x \in committed \/ x \in harmed \/ x < xferId
=============================================================================

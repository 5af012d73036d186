------------------------- MODULE SaveTransferProofs -------------------------
(***************************************************************************)
(* Proofs about SaveTransfer: its types, that a folder a player can load   *)
(* is one whole save, that an acknowledged transfer is in place and that   *)
(* no operation of a commit brings back an older copy.                     *)
(***************************************************************************)
EXTENDS SaveTransfer, SequenceTheorems, TLAPS

Begun == 1 .. xferId

(* The host streams files of the save it began last.                       *)
Sending ==
    /\ \A x \in Begun : save[x].name \in Names
    /\ send # Idle => /\ xferId \in Begun /\ send.file \in save[xferId].files
                      /\ send.part \in 1 .. Parts[send.file]

(* What is on its way belongs to a transfer that was begun, in the order   *)
(* the host sent it.                                                       *)
Fits(m) ==
    /\ m.id \in Begun
    /\ m.type = "FILE" => m.file \in save[m.id].files
InOrder(frames) ==
    \A i, k \in DOMAIN frames : i < k => frames[i].id <= frames[k].id
Streamed ==
    /\ \A i \in DOMAIN todo : Fits(todo[i])
    /\ \A k \in DOMAIN lane : Fits(lane[k])
    /\ InOrder(todo) /\ InOrder(lane)
    /\ \A i \in DOMAIN todo, k \in DOMAIN lane : todo[i].id <= lane[k].id

(* No chunk of a folder, of the transfer being received or put in place,   *)
(* is newer than id.                                                       *)
NoNewer(folder, id) ==
    folder # Gone =>
        \A f \in Files : \A p \in DOMAIN folder[f] : folder[f][p] <= id
NothingNewer(folders, id) ==
    \A n \in Names, s \in Slots : NoNewer(folders[n][s], id)
Older(m) ==
    m.type = "BEGIN" =>
        NothingNewer(disk, m.id) /\ (recv.active => recv.id <= m.id)
Aged ==
    /\ NothingNewer(disk, xferId)
    /\ recv.active \/ step # "idle" => recv.id \in Begun /\ NothingNewer(disk, recv.id)
    /\ \A i \in DOMAIN todo : Older(todo[i])
    /\ \A k \in DOMAIN lane : Older(lane[k])

(* The staging folder holds the chunks the checksums have taken, and of    *)
(* what was not received nothing but files that were there to stay.        *)
Took(taken, content, id) ==
    /\ \A i \in DOMAIN taken : /\ taken[i] \in DOMAIN content
                               /\ content[taken[i]] = id
    /\ content # <<>> => \E i \in DOMAIN taken : taken[i] = Len(content)
Staged ==
    LET staging == disk[Name]["incoming"] IN
    /\ staging # Gone
    /\ recv.seen \subseteq save[recv.id].files
    /\ \A f \in Files :
         IF f \in recv.seen THEN Took(recv.crc[f], staging[f], recv.id)
         ELSE /\ recv.crc[f] = <<>>
              /\ staging[f] # <<>> => Name \in spoiled
Receiving == recv.active => step = "idle" /\ Staged

(* A folder of name n that holds the whole of transfer x.                  *)
Sound(n, x, folder) == IF n \in spoiled THEN Listed(x, folder) ELSE Whole(x, folder)
SomeSound(n, folder) == \E x \in {0} \cup Begun : Sound(n, x, folder)
Finals == \A n \in Names : disk[n]["final"] # Gone => SomeSound(n, disk[n]["final"])

(* Where onSaveDone is, and what the folders are there.                    *)
Swapping ==
    /\ step \in {"sweep", "aside", "promote", "promote had"} =>
           Sound(Name, recv.id, disk[Name]["incoming"])
    /\ step = "sweep" /\ disk[Name]["final"] = Gone /\ disk[Name]["old"] # Gone =>
           Name \in orphaned
    /\ step \in {"promote", "promote had", "restore"} => disk[Name]["final"] = Gone
    /\ step \in {"promote had", "restore"} => SomeSound(Name, disk[Name]["old"])
    /\ step \in {"drop", "commit"} => Sound(Name, recv.id, disk[Name]["final"])

SaveInv ==
    /\ TypeOK /\ Sending /\ Streamed /\ Aged /\ Receiving /\ Finals /\ Swapping

-----------------------------------------------------------------------------
(* Folders.                                                                *)

(* A folder is never mistaken for a missing one.                           *)
LEMMA NotGone ==
    ASSUME NEW folder, DOMAIN folder = Files
    PROVE  folder # Gone
BY TransferAssumption DEF Gone

(* What a transfer streams, as a folder.                                   *)
LEMMA ImageFolder ==
    ASSUME NEW x \in Ids
    PROVE  /\ Image(x) \in [Files -> Seq(Ids \cup {Hole})]
           /\ Image(x) # Gone
           /\ \A f \in Files : \A p \in DOMAIN Image(x)[f] : Image(x)[f][p] = x
<1>1. ASSUME NEW f \in Files
      PROVE  [p \in 1 .. Parts[f] |-> x] \in Seq(Ids \cup {Hole})
    BY TransferAssumption
<1>2. <<>> \in Seq(Ids \cup {Hole})
    OBVIOUS
<1>3. Image(x) \in [Files -> Seq(Ids \cup {Hole})]
    BY <1>1, <1>2 DEF Image
<1>4. Image(x) # Gone
    BY NotGone DEF Image
<1>5. ASSUME NEW f \in Files, NEW p \in DOMAIN Image(x)[f]
      PROVE  Image(x)[f][p] = x
    <2>1. CASE f \in save[x].files
        BY <1>5, <2>1 DEF Image
    <2>2. CASE f \notin save[x].files
        BY <1>5, <2>2 DEF Image
    <2> QED BY <2>1, <2>2
<1> QED BY <1>3, <1>4, <1>5

(* A sound folder has every chunk of its transfer.                         *)
LEMMA SoundListed ==
    ASSUME NEW n, NEW x \in Ids, NEW folder, save[x].files \subseteq Files,
           Sound(n, x, folder)
    PROVE  Listed(x, folder) /\ folder # Gone
BY ImageFolder DEF Sound, Whole, Listed

(* The transfer a folder holds is no newer than its chunks.                *)
LEMMA ListedAge ==
    ASSUME TypeOK, NEW x \in Ids, NEW id \in Ids, NEW folder \in Folders,
           Listed(x, folder), NoNewer(folder, id)
    PROVE  x <= id
<1>1. PICK f \in save[x].files : f \in Files
    BY DEF TypeOK
<1>2. Parts[f] \in Nat \ {0}
    BY TransferAssumption, <1>1
<1>3. folder[f] = [p \in 1 .. Parts[f] |-> x]
    BY <1>1 DEF Listed, Image
<1>4. 1 \in DOMAIN folder[f] /\ folder[f][1] = x
    BY <1>2, <1>3
<1> QED BY <1>1, <1>4 DEF NoNewer, Listed

(* Writing one folder leaves the others alone.                             *)
LEMMA PutShape ==
    ASSUME disk \in [Names -> [Slots -> Folders]], NEW n \in Names,
           NEW s \in Slots, NEW folder \in Folders, Put(n, s, folder)
    PROVE  /\ disk' \in [Names -> [Slots -> Folders]]
           /\ disk'[n][s] = folder
           /\ \A m \in Names, t \in Slots :
                  m # n \/ t # s => disk'[m][t] = disk[m][t]
BY DEF Put

LEMMA MoveShape ==
    ASSUME disk \in [Names -> [Slots -> Folders]], NEW n \in Names,
           NEW from \in Slots, NEW to \in Slots, from # to, Move(n, from, to)
    PROVE  /\ disk' \in [Names -> [Slots -> Folders]]
           /\ disk'[n][to] = disk[n][from]
           /\ disk'[n][from] = Gone
           /\ \A m \in Names, t \in Slots :
                  m # n \/ t \notin {from, to} => disk'[m][t] = disk[m][t]
<1>1. Gone \in Folders
    BY DEF Folders
<1>2. disk[n][from] \in Folders
    OBVIOUS
<1> QED BY <1>1, <1>2 DEF Move

(* What a removal leaves is a folder with files of the one there was.      *)
LEMMA SweptFolder ==
    ASSUME NEW folder \in Folders, NEW kept \in SUBSET Present(folder)
    PROVE  /\ Swept(folder, kept) \in Folders
           /\ kept = {} => Swept(folder, kept) = Gone
           /\ folder = Gone => Swept(folder, kept) = Gone
           /\ kept # {} => /\ DOMAIN Swept(folder, kept) = Files
                           /\ \A f \in Files : Swept(folder, kept)[f] # <<>> => f \in kept
           /\ \A id : NoNewer(folder, id) => NoNewer(Swept(folder, kept), id)
<1>1. CASE kept = {}
    BY <1>1 DEF Swept, Folders, NoNewer, Present
<1>2. CASE kept # {}
    <2>1. folder # Gone /\ kept \subseteq Files
        BY <1>2 DEF Present
    <2>2. folder \in [Files -> Seq(Ids \cup {Hole})]
        BY <2>1 DEF Folders
    <2>3. Swept(folder, kept) = [f \in Files |-> IF f \in kept THEN folder[f] ELSE <<>>]
        BY <1>2 DEF Swept
    <2>4. Swept(folder, kept) \in [Files -> Seq(Ids \cup {Hole})]
        BY <2>2, <2>3
    <2>5. ASSUME NEW id, NoNewer(folder, id), NEW f \in Files,
                 NEW p \in DOMAIN Swept(folder, kept)[f]
          PROVE  Swept(folder, kept)[f][p] <= id
        <3>1. f \in kept
            BY <2>3, <2>5
        <3> QED BY <2>1, <2>3, <2>5, <3>1 DEF NoNewer
    <2> QED BY <1>2, <2>1, <2>3, <2>4, <2>5 DEF Folders, NoNewer
<1> QED BY <1>1, <1>2

-----------------------------------------------------------------------------
(* Frames on their way.                                                    *)

(* A frame that is handled leaves the others in their order.               *)
LEMMA RemoveAtShape ==
    ASSUME NEW S, NEW q \in Seq(S), NEW i \in DOMAIN q
    PROVE  /\ RemoveAt(q, i) \in Seq(S)
           /\ \A k \in DOMAIN RemoveAt(q, i) :
                LET at == IF k < i THEN k ELSE k + 1
                IN at \in DOMAIN q /\ RemoveAt(q, i)[k] = q[at]
<1>1. SubSeq(q, 1, i - 1) \in Seq(S) /\ Len(SubSeq(q, 1, i - 1)) = i - 1
      /\ \A k \in 1 .. i - 1 : SubSeq(q, 1, i - 1)[k] = q[k]
    OBVIOUS
<1>2. SubSeq(q, i + 1, Len(q)) \in Seq(S) /\ Len(SubSeq(q, i + 1, Len(q))) = Len(q) - i
      /\ \A k \in 1 .. Len(q) - i : SubSeq(q, i + 1, Len(q))[k] = q[k + i]
    OBVIOUS
<1> DEFINE a == SubSeq(q, 1, i - 1)
           b == SubSeq(q, i + 1, Len(q))
<1>3. Len(q) \in Nat /\ i \in 1 .. Len(q) /\ DOMAIN q = 1 .. Len(q)
    OBVIOUS
<1>4. a \in Seq(S) /\ Len(a) = i - 1 /\ \A k \in 1 .. i - 1 : a[k] = q[k]
    BY <1>1
<1>5. b \in Seq(S) /\ Len(b) = Len(q) - i /\ \A k \in 1 .. Len(q) - i : b[k] = q[k + i]
    BY <1>2
<1>6. RemoveAt(q, i) = a \o b
    BY DEF RemoveAt
<1> HIDE DEF a, b
<1>7. /\ a \o b \in Seq(S) /\ Len(a \o b) = Len(a) + Len(b)
      /\ \A k \in 1 .. Len(a) + Len(b) :
            (a \o b)[k] = IF k <= Len(a) THEN a[k] ELSE b[k - Len(a)]
    BY <1>4, <1>5, ConcatProperties, Zenon
<1>8. /\ Len(a \o b) = Len(q) - 1 /\ DOMAIN (a \o b) = 1 .. Len(q) - 1
      /\ \A k \in 1 .. Len(q) - 1 :
            (a \o b)[k] = IF k <= i - 1 THEN a[k] ELSE b[k - (i - 1)]
    <2>1. Len(a) + Len(b) = Len(q) - 1
        BY <1>3, <1>4, <1>5
    <2>2. DOMAIN (a \o b) = 1 .. Len(a \o b)
        BY <1>7
    <2> QED BY <1>4, <1>7, <2>1, <2>2
<1>9. i \in Int /\ Len(q) \in Int /\ 1 <= i /\ i <= Len(q)
    BY <1>3
<1>10. ASSUME NEW k \in 1 .. Len(q) - 1, k < i
       PROVE  k \in DOMAIN q /\ (a \o b)[k] = q[k]
    <2>1. k <= i - 1 /\ k \in 1 .. i - 1 /\ k \in 1 .. Len(q)
        BY <1>9, <1>10
    <2>2. (a \o b)[k] = a[k]
        BY <1>8, <2>1
    <2> QED BY <1>3, <1>4, <2>1, <2>2
<1>11. ASSUME NEW k \in 1 .. Len(q) - 1, ~(k < i)
       PROVE  k + 1 \in DOMAIN q /\ (a \o b)[k] = q[k + 1]
    <2>1. /\ ~(k <= i - 1) /\ k + 1 \in 1 .. Len(q)
          /\ k - (i - 1) \in 1 .. Len(q) - i /\ (k - (i - 1)) + i = k + 1
        BY <1>9, <1>11
    <2>2. (a \o b)[k] = b[k - (i - 1)]
        BY <1>8, <2>1
    <2>3. b[k - (i - 1)] = q[(k - (i - 1)) + i]
        BY <1>5, <2>1
    <2> QED BY <1>3, <2>1, <2>2, <2>3
<1> QED BY <1>6, <1>7, <1>8, <1>10, <1>11

LEMMA Taking ==
    ASSUME TypeOK, Streamed, NEW i \in DOMAIN todo, todo' = RemoveAt(todo, i),
           UNCHANGED <<lane, save, xferId>>
    PROVE  /\ todo' \in Seq(Frames)
           /\ Streamed'
           /\ \A k \in DOMAIN todo' : \E h \in DOMAIN todo \ {i} : todo'[k] = todo[h]
<1>1. todo \in Seq(Frames)
    BY DEF TypeOK
<1>2. /\ todo' \in Seq(Frames)
      /\ \A k \in DOMAIN todo' :
           LET at == IF k < i THEN k ELSE k + 1
           IN at \in DOMAIN todo /\ todo'[k] = todo[at]
    BY <1>1, RemoveAtShape
<1>3. ASSUME NEW k \in DOMAIN todo'
      PROVE  \E h \in DOMAIN todo \ {i} : todo'[k] = todo[h]
    BY <1>1, <1>2, <1>3
<1>4. \A k \in DOMAIN todo' : Fits(todo[k])'
    BY <1>3 DEF Streamed, Fits, Begun
<1>5. \A k \in DOMAIN lane' : Fits(lane[k])'
    BY DEF Streamed, Fits, Begun
<1>6. InOrder(todo')
    <2> SUFFICES ASSUME NEW k \in DOMAIN todo', NEW h \in DOMAIN todo', k < h
                 PROVE  todo'[k].id <= todo'[h].id
        BY DEF InOrder
    <2> DEFINE at(n) == IF n < i THEN n ELSE n + 1
    <2>1. /\ at(k) \in DOMAIN todo /\ todo'[k] = todo[at(k)]
          /\ at(h) \in DOMAIN todo /\ todo'[h] = todo[at(h)]
        BY <1>2
    <2>2. at(k) < at(h)
        <3>1. k \in Int /\ h \in Int /\ i \in Int
            BY <1>1, <1>2
        <3> QED BY <3>1
    <2> HIDE DEF at
    <2> QED BY <2>1, <2>2 DEF Streamed, InOrder
<1>7. InOrder(lane') /\ \A k \in DOMAIN todo', h \in DOMAIN lane' : todo'[k].id <= lane'[h].id
    BY <1>3 DEF Streamed
<1> QED BY <1>2, <1>3, <1>4, <1>5, <1>6, <1>7 DEF Streamed

(* What the host streams is of its newest transfer.                        *)
LEMMA Streaming ==
    ASSUME SaveInv, xferId' \in Ids, xferId <= xferId',
           \A x \in Begun : save'[x] = save[x],
           NEW frames \in Seq(Frames),
           \A k \in DOMAIN frames :
               /\ frames[k].id = xferId' /\ xferId' # 0
               /\ frames[k].type = "FILE" => frames[k].file \in save'[xferId'].files,
           Stream(frames), UNCHANGED <<todo, recv, step, disk>>
    PROVE  lane' \in Seq(Frames) /\ Streamed' /\ Aged'
<1>1. TypeOK /\ Streamed /\ Aged
    BY DEF SaveInv
<1>2. xferId \in Nat /\ xferId' \in Nat /\ lane \in Seq(Frames) /\ todo \in Seq(Frames)
      /\ \A n \in Names, s \in Slots : disk[n][s] \in Folders
    BY <1>1, TransferAssumption DEF TypeOK, Ids
<1>3. \A k \in DOMAIN lane : lane[k].id \in Nat
    BY <1>2 DEF Frames, Ids
<1>4. \A k \in DOMAIN lane : lane[k].id <= xferId
    BY <1>1, <1>2, <1>3 DEF Streamed, Fits, Begun
<1>5. PICK to \in Seq(Frames) :
          /\ lane' = to
          /\ \A k \in DOMAIN to :
               \/ k \in DOMAIN lane /\ to[k] = lane[k]
               \/ /\ k \notin DOMAIN lane /\ to[k] \in Frames /\ to[k].id = xferId'
                  /\ xferId' # 0
                  /\ to[k].type = "FILE" => to[k].file \in save'[xferId'].files
    <2>1. CASE link
        <3> DEFINE both == lane \o frames
        <3>1. lane' = both
            BY <2>1 DEF Stream
        <3>2. both \in Seq(Frames)
              /\ \A k \in DOMAIN both :
                   \/ k \in DOMAIN lane /\ both[k] = lane[k]
                   \/ /\ k \notin DOMAIN lane /\ k - Len(lane) \in DOMAIN frames
                      /\ both[k] = frames[k - Len(lane)]
                      /\ frames[k - Len(lane)] \in Frames
            BY <1>2
        <3> HIDE DEF both
        <3>3. \A k \in DOMAIN both : k \notin DOMAIN lane =>
                 /\ both[k] \in Frames /\ both[k].id = xferId' /\ xferId' # 0
                 /\ both[k].type = "FILE" => both[k].file \in save'[xferId'].files
            BY <3>2
        <3> QED BY <3>1, <3>2, <3>3
    <2>2. CASE ~link
        BY <1>2, <2>2 DEF Stream
    <2> QED BY <2>1, <2>2
<1>6. \A k \in DOMAIN to : to[k].id \in Nat /\ to[k].id <= xferId'
    BY <1>2, <1>3, <1>4, <1>5
<1>7. \A m : Fits(m) => Fits(m)'
    BY <1>2 DEF Fits, Begun
<1>8. \A k \in DOMAIN lane' : Fits(lane[k])'
    <2>1. ASSUME NEW k \in DOMAIN to
          PROVE  to[k].id \in 1 .. xferId'
                 /\ (to[k].type = "FILE" => to[k].file \in save'[to[k].id].files)
        <3>1. CASE k \in DOMAIN lane /\ to[k] = lane[k]
            BY <1>1, <1>2, <3>1 DEF Streamed, Fits, Begun
        <3>2. CASE to[k].id = xferId' /\ xferId' # 0
                   /\ (to[k].type = "FILE" => to[k].file \in save'[xferId'].files)
            BY <1>2, <3>2
        <3> QED BY <1>5, <3>1, <3>2
    <2> QED BY <1>5, <2>1 DEF Fits, Begun
<1>9. InOrder(lane')
    <2> SUFFICES ASSUME NEW i \in DOMAIN to, NEW k \in DOMAIN to, i < k
                 PROVE  to[i].id <= to[k].id
        BY <1>5 DEF InOrder
    <2>1. CASE k \in DOMAIN lane /\ to[k] = lane[k]
        <3>1. i \in DOMAIN lane
            BY <1>2, <2>1
        <3> QED BY <1>1, <1>5, <2>1, <3>1 DEF Streamed, InOrder
    <2>2. CASE to[k].id = xferId'
        BY <1>6, <2>2
    <2> QED BY <1>5, <2>1, <2>2
<1>10. \A i \in DOMAIN todo', k \in DOMAIN lane' : todo'[i].id <= lane'[k].id
    <2> SUFFICES ASSUME NEW i \in DOMAIN todo, NEW k \in DOMAIN to
                 PROVE  todo[i].id <= to[k].id
        BY <1>5
    <2>1. CASE k \in DOMAIN lane /\ to[k] = lane[k]
        BY <1>1, <2>1 DEF Streamed
    <2>2. CASE to[k].id = xferId'
        BY <1>1, <1>2, <2>2 DEF Streamed, Fits, Begun
    <2> QED BY <1>5, <2>1, <2>2
<1>11. Streamed'
    BY <1>1, <1>7, <1>8, <1>9, <1>10 DEF Streamed
<1>12. \A id \in Ids, up \in Ids :
          NothingNewer(disk, id) /\ id <= up => NothingNewer(disk, up)
    <2> SUFFICES ASSUME NEW id \in Ids, NEW up \in Ids, NothingNewer(disk, id), id <= up,
                        NEW n \in Names, NEW s \in Slots, disk[n][s] # Gone,
                        NEW f \in Files, NEW p \in DOMAIN disk[n][s][f]
                 PROVE  disk[n][s][f][p] <= up
        BY DEF NothingNewer, NoNewer
    <2>1. disk[n][s][f][p] <= id
        BY DEF NothingNewer, NoNewer
    <2>2. disk[n][s] \in [Files -> Seq(Ids \cup {Hole})]
        BY <1>2 DEF Folders
    <2>3. disk[n][s][f][p] \in Int
        BY <2>2, TransferAssumption DEF Ids, Hole
    <2> QED BY <2>1, <2>3, TransferAssumption DEF Ids
<1>13. NothingNewer(disk', xferId') /\ xferId \in Ids
    BY <1>1, <1>12 DEF Aged, TypeOK
<1>14. recv'.active \/ step' # "idle" =>
           recv'.id \in 1 .. xferId' /\ NothingNewer(disk', recv'.id)
    BY <1>1, <1>2 DEF Aged, Begun
<1>15. \A i \in DOMAIN todo' : Older(todo[i])'
    BY <1>1 DEF Aged, Older
<1>16. \A k \in DOMAIN lane' : Older(lane[k])'
    <2> SUFFICES ASSUME NEW k \in DOMAIN to, to[k].type = "BEGIN"
                 PROVE  NothingNewer(disk', to[k].id)
                        /\ (recv'.active => recv'.id <= to[k].id)
        BY <1>5 DEF Older
    <2>1. CASE k \in DOMAIN lane /\ to[k] = lane[k]
        BY <1>1, <2>1 DEF Aged, Older
    <2>2. CASE to[k].id = xferId'
        BY <1>1, <1>2, <1>13, <2>2 DEF Aged, Begun
    <2> QED BY <1>5, <2>1, <2>2
<1>17. Aged'
    BY <1>13, <1>14, <1>15, <1>16 DEF Aged, Begun
<1> QED BY <1>5, <1>11, <1>17

(* What the host begins changes nothing of what the join is about.         *)
LEMMA JoinKept ==
    ASSUME SaveInv, xferId' \in Ids, xferId <= xferId',
           \A x \in {0} \cup Begun : save'[x] = save[x],
           UNCHANGED <<recv, step, disk, spoiled, orphaned>>
    PROVE  Receiving' /\ Finals' /\ Swapping'
<1>1. TypeOK /\ Receiving /\ Finals /\ Swapping /\ Aged
    BY DEF SaveInv
<1>2. xferId \in Nat /\ xferId' \in Nat
    BY <1>1, TransferAssumption DEF TypeOK, Ids
<1>3. \A x \in {0} \cup Begun : x \in {0} \cup Begun'
    BY <1>2 DEF Begun
<1>4. \A n, folder : \A x \in {0} \cup Begun :
          Sound(n, x, folder) => Sound(n, x, folder)'
    BY DEF Sound, Listed, Whole, Image
<1>5. recv.active \/ step # "idle" => recv.id \in Begun /\ Name' = Name
    BY <1>1 DEF Aged, Name
<1>6. Receiving'
    <2> SUFFICES ASSUME recv.active PROVE step = "idle" /\ Staged'
        BY DEF Receiving
    <2>1. step = "idle" /\ Staged
        BY <1>1 DEF Receiving
    <2>2. save'[recv.id] = save[recv.id] /\ Name' = Name
        BY <1>5
    <2> QED BY <2>1, <2>2 DEF Staged
<1>7. Finals'
    <2> SUFFICES ASSUME NEW n \in Names, disk[n]["final"] # Gone
                 PROVE  SomeSound(n, disk[n]["final"])'
        BY DEF Finals
    <2>1. PICK x \in {0} \cup Begun : Sound(n, x, disk[n]["final"])
        BY <1>1 DEF Finals, SomeSound
    <2>2. Sound(n, x, disk[n]["final"])'
        BY <1>4, <2>1
    <2> QED BY <1>3, <2>2 DEF SomeSound
<1>8. Swapping'
    <2>1. CASE step = "idle"
        BY <2>1 DEF Swapping
    <2>2. CASE step # "idle"
        <3>1. recv.id \in Begun /\ Name' = Name
            BY <1>5, <2>2
        <3>2. \A s \in {"final", "incoming"} :
                 Sound(Name, recv.id, disk[Name][s]) => Sound(Name, recv.id, disk[Name][s])'
            BY <1>4, <3>1
        <3>3. SomeSound(Name, disk[Name]["old"]) => SomeSound(Name, disk[Name]["old"])'
            BY <1>3, <1>4, <3>1 DEF SomeSound
        <3> QED BY <1>1, <3>1, <3>2, <3>3 DEF Swapping
    <2> QED BY <2>1, <2>2
<1> QED BY <1>6, <1>7, <1>8

-----------------------------------------------------------------------------
(* The host's steps.                                                       *)
LEMMA InitInv == Init => SaveInv
<1> SUFFICES ASSUME Init PROVE SaveInv
    OBVIOUS
<1>1. PICK had \in SUBSET Names :
        disk = [n \in Names |-> [s \in Slots |->
                  IF s = "final" /\ n \in had THEN Image(0) ELSE Gone]]
    BY DEF Init
<1>2. save = [x \in Ids |-> [name |-> None, files |-> Files]] /\ 0 \in Ids
    BY TransferAssumption DEF Init, Ids
<1>3. Image(0) \in Folders /\ Gone \in Folders /\ Image(0) # Gone
      /\ NoNewer(Image(0), 0)
    BY <1>2, ImageFolder DEF Folders, NoNewer
<1>4. disk \in [Names -> [Slots -> Folders]]
    BY <1>1, <1>3
<1>5. NothingNewer(disk, 0)
    BY <1>1, <1>3 DEF NothingNewer, NoNewer
<1>6. TypeOK
    <2>1. save \in [Ids -> [name : Names \cup {None}, files : (SUBSET Files) \ {{}}]]
        BY <1>2, TransferAssumption
    <2>2. send \in [file : Files \cup {0}, part : Nat] /\ send = Idle
        BY DEF Init, Idle
    <2>3. recv \in [active : BOOLEAN, id : Ids, open : Files \cup {0},
                    seen : SUBSET Files, crc : [Files -> Seq(Nat)]]
        BY <1>2 DEF Init, NoRecv
    <2> QED BY <1>2, <1>4, <2>1, <2>2, <2>3, TransferAssumption DEF Init, TypeOK, Steps
<1>7. Sending /\ Streamed
    BY DEF Init, Sending, Streamed, InOrder, Begun, Idle
<1>8. Aged
    BY <1>5 DEF Init, Aged, NoRecv
<1>9. Receiving /\ Swapping
    BY DEF Init, Receiving, Swapping, NoRecv
<1>10. Finals
    <2> SUFFICES ASSUME NEW n \in Names, disk[n]["final"] # Gone
                 PROVE  disk[n]["final"] = Image(0)
        BY DEF Finals, SomeSound, Sound, Whole, Init
    <2> QED BY <1>1 DEF Slots
<1> QED BY <1>6, <1>7, <1>8, <1>9, <1>10 DEF SaveInv

(* beginSend: what is on its way is older, and the saves on disk keep      *)
(* their transfers.                                                        *)
LEMMA BeginSendInv ==
    ASSUME SaveInv, NEW n \in Names, NEW files \in (SUBSET Files) \ {{}},
           BeginSend(n, files)
    PROVE  SaveInv'
<1>1. TypeOK /\ Sending
    BY DEF SaveInv
<1>2. /\ xferId \in Nat /\ MaxBegins \in Nat /\ xferId' = xferId + 1
      /\ xferId' \in Ids /\ xferId \in Ids
    BY <1>1, TransferAssumption DEF BeginSend, TypeOK, Ids
<1>3. save' \in [Ids -> [name : Names \cup {None}, files : (SUBSET Files) \ {{}}]]
      /\ save'[xferId'] = [name |-> n, files |-> files]
      /\ \A x \in Ids : x # xferId' => save'[x] = save[x]
    BY <1>1, <1>2 DEF BeginSend, TypeOK
<1>4. \A x \in {0} \cup Begun : x \in Ids /\ x # xferId'
    BY <1>2 DEF Begun, Ids
<1>5. Stream(<<[type |-> "BEGIN", id |-> xferId']>>)
      /\ UNCHANGED <<sent, link, todo, recv, step, disk, committed, orphaned, spoiled,
                     bounds>>
    BY DEF BeginSend
<1>6. PICK m \in Frames : m = [type |-> "BEGIN", id |-> xferId']
    BY <1>2 DEF Frames
<1>7. lane' \in Seq(Frames) /\ Streamed' /\ Aged'
    <2>1. <<m>> \in Seq(Frames) /\ \A k \in DOMAIN <<m>> : <<m>>[k] = m
        OBVIOUS
    <2>2. m.id = xferId' /\ xferId' # 0 /\ m.type # "FILE"
        BY <1>2, <1>6
    <2>3. Stream(<<m>>)
        BY <1>5, <1>6
    <2>4. \A x \in Begun : save'[x] = save[x]
        BY <1>3, <1>4
    <2>5. UNCHANGED <<todo, recv, step, disk>>
        BY <1>5
    <2>6. xferId <= xferId'
        BY <1>2
    <2>7. \A k \in DOMAIN <<m>> :
             /\ <<m>>[k].id = xferId' /\ xferId' # 0
             /\ <<m>>[k].type = "FILE" => <<m>>[k].file \in save'[xferId'].files
        BY <2>1, <2>2
    <2> QED BY ONLY SaveInv, <1>2, <2>1, <2>3, <2>4, <2>5, <2>6, <2>7, Streaming
<1>8. Receiving' /\ Finals' /\ Swapping'
    BY <1>2, <1>3, <1>4, <1>5, JoinKept
<1>9. PICK f \in files : send' = [file |-> f, part |-> 1]
    BY DEF BeginSend, First
<1>10. f \in Files /\ Parts[f] \in Nat \ {0} /\ 1 \in 1 .. Parts[f]
    BY <1>9, TransferAssumption
<1>11. Sending'
    <2>1. \A x \in Begun' : x \in Begun \/ x = xferId'
        BY <1>2 DEF Begun
    <2>2. \A x \in Begun' : save'[x].name \in Names
        <3>1. \A x \in Begun : save'[x].name \in Names
            BY <1>1, <1>3, <1>4 DEF Sending
        <3>2. save'[xferId'].name \in Names
            BY <1>3
        <3> QED BY <2>1, <3>1, <3>2
    <2>3. xferId' \in Begun' /\ send'.file \in save'[xferId'].files
          /\ send'.part \in 1 .. Parts[send'.file]
        BY <1>2, <1>3, <1>9, <1>10 DEF Begun
    <2> QED BY <2>2, <2>3 DEF Sending
<1>12. TypeOK'
    <2>1. send' \in [file : Files \cup {0}, part : Nat]
        BY <1>9, <1>10
    <2>2. send'.part \in 1 .. Parts[send'.file]
        BY <1>9, <1>10
    <2>3. harmed' \subseteq Ids
        BY <1>1, <1>2, <1>5 DEF TypeOK, Stream
    <2> QED BY <1>1, <1>2, <1>3, <1>5, <1>7, <2>1, <2>2, <2>3 DEF TypeOK, bounds
<1> QED BY <1>7, <1>8, <1>11, <1>12 DEF SaveInv

(* tickSend stays within the transfer's files and their parts.             *)
LEMMA SendChunkInv ==
    ASSUME SaveInv, SendChunk
    PROVE  SaveInv'
<1>1. TypeOK /\ Sending
    BY DEF SaveInv
<1>2. xferId' = xferId /\ xferId \in Ids /\ xferId \in Nat
    BY <1>1, TransferAssumption DEF SendChunk, TypeOK, Ids
<1>3. UNCHANGED <<save, link, todo, recv, step, disk, committed, orphaned, spoiled,
                  bounds>>
    BY DEF SendChunk
<1>4. xferId \in Begun /\ send.file \in save[xferId].files
      /\ send.part \in 1 .. Parts[send.file] /\ send.file \in Files
      /\ save[xferId].files \subseteq Files
    BY <1>1 DEF SendChunk, Sending, TypeOK
<1>5. PICK chunk \in Frames :
          chunk = [type |-> "FILE", id |-> xferId, file |-> send.file, part |-> send.part]
    <2>1. send.part \in Nat \ {0}
        BY <1>1, <1>4 DEF TypeOK
    <2> QED BY <1>2, <1>4, <2>1 DEF Frames
<1>6. PICK done \in Frames : done = [type |-> "DONE", id |-> xferId]
    BY <1>2 DEF Frames
<1>7. Stream(<<chunk>>) \/ Stream(<<chunk, done>>)
    BY <1>5, <1>6 DEF SendChunk
<1>8. lane' \in Seq(Frames) /\ Streamed' /\ Aged' /\ harmed' \subseteq Ids
    <2>1. ASSUME NEW frames \in Seq(Frames),
                 \A k \in DOMAIN frames : frames[k] \in {chunk, done},
                 Stream(frames)
          PROVE  lane' \in Seq(Frames) /\ Streamed' /\ Aged' /\ harmed' \subseteq Ids
        <3>1. \A k \in DOMAIN frames :
                 /\ frames[k].id = xferId' /\ xferId' # 0
                 /\ frames[k].type = "FILE" => frames[k].file \in save'[xferId'].files
            BY <1>2, <1>3, <1>4, <1>5, <1>6, <2>1 DEF Begun
        <3>2. xferId' \in Ids /\ xferId <= xferId'
            BY <1>2
        <3>3. \A x \in Begun : save'[x] = save[x]
            BY <1>3
        <3>4. UNCHANGED <<todo, recv, step, disk>>
            BY <1>3
        <3>5. harmed' \subseteq Ids
            BY <1>1, <1>2, <2>1 DEF TypeOK, Stream
        <3> QED BY ONLY SaveInv, <2>1, <3>1, <3>2, <3>3, <3>4, <3>5, Streaming
    <2>2. /\ <<chunk>> \in Seq(Frames) /\ <<chunk, done>> \in Seq(Frames)
          /\ \A k \in DOMAIN <<chunk>> : <<chunk>>[k] \in {chunk, done}
          /\ \A k \in DOMAIN <<chunk, done>> : <<chunk, done>>[k] \in {chunk, done}
        OBVIOUS
    <2> QED BY <1>7, <2>1, <2>2
<1>9. Receiving' /\ Finals' /\ Swapping'
    BY <1>2, <1>3, JoinKept
<1>10. /\ send' \in [file : Files \cup {0}, part : Nat]
       /\ send' # Idle => /\ send'.file \in save[xferId].files
                          /\ send'.part \in 1 .. Parts[send'.file]
       /\ sent' \in Ids
    <2>1. CASE More /\ send' = [send EXCEPT !.part = @ + 1] /\ UNCHANGED sent
        <3>1. send'.file = send.file /\ send'.part = send.part + 1
            BY <1>1, <2>1 DEF TypeOK
        <3>2. Parts[send.file] \in Nat /\ send.part \in Nat
            BY <1>1, <1>4, TransferAssumption DEF TypeOK
        <3>3. send' = [file |-> send'.file, part |-> send'.part]
            BY <1>1, <2>1 DEF TypeOK
        <3> QED BY <1>1, <1>4, <2>1, <3>1, <3>2, <3>3 DEF More, TypeOK
    <2>2. CASE UNCHANGED sent /\ \E f \in First(Later(send.file)) :
                                    send' = [file |-> f, part |-> 1]
        <3>1. PICK f \in save[xferId].files : send' = [file |-> f, part |-> 1]
            BY <2>2 DEF First, Later
        <3>2. f \in Files
            BY <1>4, <3>1
        <3>3. Parts[f] \in Nat \ {0} /\ 1 \in 1 .. Parts[f]
            BY <3>2, TransferAssumption
        <3> QED BY <1>1, <2>2, <3>1, <3>2, <3>3 DEF TypeOK
    <2>3. CASE send' = Idle /\ sent' = xferId
        BY <1>2, <2>3 DEF Idle
    <2> QED BY <2>1, <2>2, <2>3 DEF SendChunk
<1>11. Sending'
    BY <1>1, <1>2, <1>3, <1>4, <1>10 DEF Sending, Begun
<1>12. TypeOK'
    <2>1. send' # Idle => send'.part \in 1 .. Parts[send'.file]
        BY <1>10
    <2> QED BY <1>1, <1>2, <1>3, <1>8, <1>10, <2>1 DEF TypeOK, bounds
<1> QED BY <1>8, <1>9, <1>11, <1>12 DEF SaveInv

LEMMA AbortInv ==
    ASSUME SaveInv, Abort
    PROVE  SaveInv'
<1>1. TypeOK /\ Sending /\ Streamed /\ Aged
    BY DEF SaveInv
<1>2. send' = Idle /\ Idle \in [file : Files \cup {0}, part : Nat]
      /\ UNCHANGED <<xferId, save, sent, link, lane, todo, recv, step, disk,
                     committed, orphaned, spoiled, harmed, bounds>>
    BY DEF Abort, Idle, net, history
<1>3. TypeOK' /\ Sending'
    BY <1>1, <1>2 DEF TypeOK, Sending, Begun, bounds
<1>4. Streamed' /\ Aged'
    BY <1>1, <1>2 DEF Streamed, Fits, Begun, Aged, Older
<1>5. Receiving' /\ Finals' /\ Swapping'
    <2>1. xferId' \in Ids /\ xferId <= xferId'
        BY <1>1, <1>2, TransferAssumption DEF TypeOK, Ids
    <2> QED BY <1>2, <2>1, JoinKept
<1> QED BY <1>3, <1>4, <1>5 DEF SaveInv

-----------------------------------------------------------------------------
(* The link and the queues: what is lost, or drained, is a prefix of the   *)
(* lane.                                                                   *)
LEMMA Prefix ==
    ASSUME NEW S, NEW q \in Seq(S), NEW k \in 0 .. Len(q)
    PROVE  /\ SubSeq(q, 1, k) \in Seq(S)
           /\ \A h \in DOMAIN SubSeq(q, 1, k) :
                h \in DOMAIN q /\ h <= k /\ SubSeq(q, 1, k)[h] = q[h]
OBVIOUS

LEMMA Suffix ==
    ASSUME NEW S, NEW q \in Seq(S), NEW k \in 0 .. Len(q)
    PROVE  /\ SubSeq(q, k + 1, Len(q)) \in Seq(S)
           /\ \A h \in DOMAIN SubSeq(q, k + 1, Len(q)) :
                h \in Nat /\ h >= 1 /\ h + k \in DOMAIN q
                /\ SubSeq(q, k + 1, Len(q))[h] = q[h + k]
OBVIOUS

LEMMA PumpInv ==
    ASSUME SaveInv, Pump
    PROVE  SaveInv'
<1>1. TypeOK /\ Sending /\ Streamed /\ Aged
    BY DEF SaveInv
<1>2. PICK k \in 1 .. Len(lane) : /\ todo' = SubSeq(lane, 1, k)
                                 /\ lane' = SubSeq(lane, k + 1, Len(lane))
    BY DEF Pump
<1>3. UNCHANGED <<xferId, save, send, sent, link, recv, step, disk, committed,
                  orphaned, spoiled, harmed, bounds>>
    BY DEF Pump, hostVars, history
<1>4. lane \in Seq(Frames) /\ k \in 0 .. Len(lane)
    BY <1>1 DEF TypeOK
<1>5. /\ todo' \in Seq(Frames)
      /\ \A h \in DOMAIN todo' : h \in DOMAIN lane /\ h <= k /\ todo'[h] = lane[h]
    BY <1>2, <1>4, Prefix
<1>6. /\ lane' \in Seq(Frames)
      /\ \A h \in DOMAIN lane' :
            h \in Nat /\ h >= 1 /\ h + k \in DOMAIN lane /\ lane'[h] = lane[h + k]
    BY <1>2, <1>4, Suffix
<1>7. Streamed'
    <2>1. \A h \in DOMAIN todo' : Fits(todo[h])'
        BY <1>1, <1>3, <1>5 DEF Streamed, Fits, Begun
    <2>2. \A h \in DOMAIN lane' : Fits(lane[h])'
        BY <1>1, <1>3, <1>6 DEF Streamed, Fits, Begun
    <2>3. InOrder(todo')
        BY <1>1, <1>5 DEF Streamed, InOrder
    <2>4. InOrder(lane')
        BY <1>1, <1>4, <1>6 DEF Streamed, InOrder
    <2>5. \A i \in DOMAIN todo', h \in DOMAIN lane' : todo'[i].id <= lane'[h].id
        <3> SUFFICES ASSUME NEW i \in DOMAIN todo', NEW h \in DOMAIN lane'
                     PROVE  lane[i].id <= lane[h + k].id
            BY <1>5, <1>6
        <3>1. i \in DOMAIN lane /\ h + k \in DOMAIN lane /\ i < h + k
            BY <1>4, <1>5, <1>6
        <3> QED BY <1>1, <3>1 DEF Streamed, InOrder
    <2> QED BY <2>1, <2>2, <2>3, <2>4, <2>5 DEF Streamed
<1>8. Aged'
    <2>1. \A h \in DOMAIN todo' : Older(todo[h])'
        BY <1>1, <1>3, <1>5 DEF Aged, Older
    <2>2. \A h \in DOMAIN lane' : Older(lane[h])'
        BY <1>1, <1>3, <1>6 DEF Aged, Older
    <2> QED BY <1>1, <1>3, <2>1, <2>2 DEF Aged, Begun
<1>9. Receiving' /\ Finals' /\ Swapping'
    <2>1. xferId' \in Ids /\ xferId <= xferId'
        BY <1>1, <1>3, TransferAssumption DEF TypeOK, Ids
    <2> QED BY <1>3, <2>1, JoinKept
<1>10. TypeOK' /\ Sending'
    BY <1>1, <1>3, <1>5, <1>6 DEF TypeOK, Sending, Begun, bounds
<1> QED BY <1>7, <1>8, <1>9, <1>10 DEF SaveInv

LEMMA DropInv ==
    ASSUME SaveInv, Drop
    PROVE  SaveInv'
<1>1. TypeOK /\ Sending /\ Streamed /\ Aged
    BY DEF SaveInv
<1>2. PICK k \in 0 .. Len(lane) : lane' = SubSeq(lane, 1, k)
    BY DEF Drop
<1>3. UNCHANGED <<xferId, save, send, sent, todo, recv, step, disk, committed,
                  orphaned, spoiled, crashes, refusals>>
    BY DEF Drop, hostVars
<1>4. lane \in Seq(Frames)
    BY <1>1 DEF TypeOK
<1>5. /\ lane' \in Seq(Frames)
      /\ \A h \in DOMAIN lane' : h \in DOMAIN lane /\ lane'[h] = lane[h]
    BY <1>2, <1>4, Prefix
<1>6. Streamed'
    BY <1>1, <1>3, <1>5 DEF Streamed, Fits, Begun, InOrder
<1>7. Aged'
    BY <1>1, <1>3, <1>5 DEF Aged, Older, Begun
<1>8. Receiving' /\ Finals' /\ Swapping'
    <2>1. xferId' \in Ids /\ xferId <= xferId'
        BY <1>1, <1>3, TransferAssumption DEF TypeOK, Ids
    <2> QED BY <1>3, <2>1, JoinKept
<1>9. TypeOK' /\ Sending'
    <2>1. link' \in BOOLEAN
        BY DEF Drop
    <2>2. drops' \in 0 .. MaxDrops
        <3>1. drops \in 0 .. MaxDrops /\ MaxDrops \in Nat
            BY <1>1, TransferAssumption DEF TypeOK
        <3> QED BY <3>1 DEF Drop
    <2>3. harmed' \subseteq Ids
        BY <1>1 DEF TypeOK, Drop
    <2> QED BY <1>1, <1>3, <1>5, <2>1, <2>2, <2>3 DEF TypeOK, Sending, Begun
<1> QED BY <1>6, <1>7, <1>8, <1>9 DEF SaveInv

LEMMA ReconnectInv ==
    ASSUME SaveInv, Reconnect
    PROVE  SaveInv'
<1>1. TypeOK /\ Sending /\ Streamed /\ Aged
    BY DEF SaveInv
<1>2. UNCHANGED <<xferId, save, send, sent, lane, todo, recv, step, disk, committed,
                  orphaned, spoiled, harmed, bounds>> /\ link' \in BOOLEAN
    BY DEF Reconnect, hostVars, history
<1>3. TypeOK' /\ Sending'
    BY <1>1, <1>2 DEF TypeOK, Sending, Begun, bounds
<1>4. Streamed' /\ Aged'
    BY <1>1, <1>2 DEF Streamed, Fits, Begun, Aged, Older
<1>5. Receiving' /\ Finals' /\ Swapping'
    <2>1. xferId' \in Ids /\ xferId <= xferId'
        BY <1>1, <1>2, TransferAssumption DEF TypeOK, Ids
    <2> QED BY <1>2, <2>1, JoinKept
<1> QED BY <1>3, <1>4, <1>5 DEF SaveInv

(* A crash leaves the folders as they are and forgets the rest.            *)
LEMMA CrashInv ==
    ASSUME SaveInv, Crash
    PROVE  SaveInv'
<1>1. TypeOK /\ Sending /\ Aged /\ Finals
    BY DEF SaveInv
<1>2. UNCHANGED <<xferId, save, send, sent, disk, committed, orphaned, spoiled,
                  refusals, drops>>
      /\ lane' = <<>> /\ todo' = <<>> /\ recv' = NoRecv /\ step' = "idle"
    BY DEF Crash, hostVars
<1>3. TypeOK' /\ Sending'
    <2>1. recv' \in [active : BOOLEAN, id : Ids, open : Files \cup {0},
                     seen : SUBSET Files, crc : [Files -> Seq(Nat)]]
        BY <1>2, TransferAssumption DEF NoRecv, Ids
    <2>2. link' \in BOOLEAN
        BY DEF Crash
    <2>3. crashes' \in 0 .. MaxCrashes
        <3>1. crashes \in 0 .. MaxCrashes /\ MaxCrashes \in Nat
            BY <1>1, TransferAssumption DEF TypeOK
        <3> QED BY <3>1 DEF Crash
    <2>4. harmed' \subseteq Ids
        BY <1>1 DEF TypeOK, Crash
    <2>5. Sending'
        BY <1>1, <1>2 DEF Sending, Begun
    <2>6. lane' \in Seq(Frames) /\ todo' \in Seq(Frames) /\ step' \in Steps
        BY <1>2 DEF Steps
    <2> QED BY <1>1, <1>2, <2>1, <2>2, <2>3, <2>4, <2>5, <2>6 DEF TypeOK
<1>4. Streamed'
    BY <1>2 DEF Streamed, InOrder
<1>5. recv'.active = FALSE
    BY <1>2 DEF NoRecv
<1>6. Aged' /\ Receiving' /\ Swapping'
    BY <1>1, <1>2, <1>5 DEF Aged, Receiving, Swapping
<1>7. Finals'
    <2>1. \A n, x, folder : Sound(n, x, folder) => Sound(n, x, folder)'
        BY <1>2 DEF Sound, Listed, Whole, Image
    <2>2. \A n, folder : SomeSound(n, folder) => SomeSound(n, folder)'
        BY <1>2, <2>1 DEF SomeSound, Begun
    <2> QED BY <1>1, <1>2, <2>2 DEF Finals
<1> QED BY <1>3, <1>4, <1>6, <1>7 DEF SaveInv

-----------------------------------------------------------------------------
(* The swap of the folders.                                                *)
LEMMA RefuseType ==
    ASSUME TypeOK, NEW n \in {0, 1}, Refuse(n)
    PROVE  /\ refusals' \in 0 .. MaxRefusals /\ harmed' \subseteq Ids
           /\ UNCHANGED <<crashes, drops>>
<1>1. refusals \in 0 .. MaxRefusals /\ MaxRefusals \in Nat /\ n \in Nat
    BY TransferAssumption DEF TypeOK
<1>2. refusals' \in 0 .. MaxRefusals
    BY <1>1 DEF Refuse
<1>3. harmed' \subseteq Ids
    BY DEF TypeOK, Refuse
<1> QED BY <1>2, <1>3 DEF Refuse

(* A removal changes one folder, and brings nothing new into it.           *)
LEMMA Sweeping ==
    ASSUME TypeOK, NEW n \in Names, NEW s \in Slots, NEW kept, Sweeps(n, s, kept)
    PROVE  /\ disk' \in [Names -> [Slots -> Folders]]
           /\ \A m \in Names, t \in Slots :
                 m # n \/ t # s => disk'[m][t] = disk[m][t]
           /\ disk[n][s] = Gone => disk'[n][s] = Gone
           /\ kept = {} => disk'[n][s] = Gone
           /\ \A id : NothingNewer(disk, id) => NothingNewer(disk', id)
           /\ refusals' \in 0 .. MaxRefusals /\ harmed' \subseteq Ids
           /\ UNCHANGED <<crashes, drops>>
<1>1. disk \in [Names -> [Slots -> Folders]] /\ disk[n][s] \in Folders
    BY DEF TypeOK
<1>2. kept \in SUBSET Present(disk[n][s])
    BY DEF Sweeps
<1>3. PICK left \in Folders :
          /\ left = Swept(disk[n][s], kept)
          /\ disk[n][s] = Gone => left = Gone
          /\ kept = {} => left = Gone
          /\ \A id : NoNewer(disk[n][s], id) => NoNewer(left, id)
    BY <1>1, <1>2, SweptFolder
<1>4. Put(n, s, left)
    BY <1>3 DEF Sweeps
<1>5. /\ disk' \in [Names -> [Slots -> Folders]]
      /\ disk'[n][s] = left
      /\ \A m \in Names, t \in Slots : m # n \/ t # s => disk'[m][t] = disk[m][t]
    BY <1>1, <1>4, PutShape
<1>6. \A id : NothingNewer(disk, id) => NothingNewer(disk', id)
    BY <1>3, <1>5 DEF NothingNewer
<1>7. Refuse(0) \/ Refuse(1)
    BY DEF Sweeps
<1> QED BY <1>3, <1>5, <1>6, <1>7, RefuseType

LEMMA Moving ==
    ASSUME TypeOK, NEW n \in Names, NEW from \in Slots, NEW to \in Slots, from # to,
           Move(n, from, to)
    PROVE  \A id : NothingNewer(disk, id) => NothingNewer(disk', id)
<1>1. /\ disk'[n][to] = disk[n][from] /\ disk'[n][from] = Gone
      /\ \A m \in Names, t \in Slots :
            m # n \/ t \notin {from, to} => disk'[m][t] = disk[m][t]
    BY MoveShape DEF TypeOK
<1> QED BY <1>1 DEF NothingNewer, NoNewer

(* Between two operations of onSaveDone only the folders change.           *)
LEMMA SwapStep ==
    ASSUME SaveInv, step # "idle", step' \in Steps,
           disk' \in [Names -> [Slots -> Folders]],
           \A id : NothingNewer(disk, id) => NothingNewer(disk', id),
           UNCHANGED <<hostVars, net, todo, recv, orphaned, spoiled>>,
           committed' \subseteq Ids, harmed' \subseteq Ids,
           refusals' \in 0 .. MaxRefusals, UNCHANGED <<crashes, drops>>
    PROVE  /\ TypeOK' /\ Sending' /\ Streamed' /\ Aged' /\ Receiving'
           /\ \A n, x, folder : Sound(n, x, folder) => Sound(n, x, folder)'
           /\ \A n, folder : SomeSound(n, folder) => SomeSound(n, folder)'
<1>1. TypeOK /\ Sending /\ Streamed /\ Aged /\ Receiving
    BY DEF SaveInv
<1>2. UNCHANGED <<xferId, save, send, sent, link, lane, todo, recv, orphaned, spoiled>>
    BY DEF hostVars, net
<1>3. TypeOK' /\ Sending'
    BY <1>1, <1>2 DEF TypeOK, Sending, Begun
<1>4. Streamed'
    BY <1>1, <1>2 DEF Streamed, Fits, Begun
<1>5. Aged' /\ Receiving'
    <2>1. ~recv.active
        BY <1>1 DEF Receiving
    <2>2. \A i \in DOMAIN todo : Older(todo[i])'
        BY <1>1, <1>2 DEF Aged, Older
    <2>3. \A k \in DOMAIN lane : Older(lane[k])'
        BY <1>1, <1>2 DEF Aged, Older
    <2> QED BY <1>1, <1>2, <2>1, <2>2, <2>3 DEF Aged, Begun, Receiving
<1>6. \A n, x, folder : Sound(n, x, folder) => Sound(n, x, folder)'
    BY <1>2 DEF Sound, Listed, Whole, Image
<1>7. \A n, folder : SomeSound(n, folder) => SomeSound(n, folder)'
    BY <1>2, <1>6 DEF SomeSound, Begun
<1> QED BY <1>3, <1>4, <1>5, <1>6, <1>7

(* The transfer whose folders are swapped has a name.                      *)
LEMMA Swapped ==
    ASSUME SaveInv, step # "idle" \/ recv.active
    PROVE  /\ Name \in Names /\ recv.id \in Begun /\ recv.id \in Ids
           /\ NothingNewer(disk, recv.id)
           /\ save[recv.id].files \in (SUBSET Files) \ {{}}
<1>1. TypeOK /\ Sending /\ Aged
    BY DEF SaveInv
<1>2. recv.id \in Begun /\ NothingNewer(disk, recv.id)
    BY <1>1 DEF Aged
<1>3. recv.id \in Ids
    BY <1>1 DEF TypeOK
<1> QED BY <1>1, <1>2, <1>3 DEF Sending, Name, TypeOK

LEMMA SweepOldInv ==
    ASSUME SaveInv, SweepOld
    PROVE  SaveInv'
<1>1. PICK kept \in SUBSET Files : Sweeps(Name, "old", kept)
    BY DEF SweepOld
<1>2. step = "sweep" /\ step' = "aside" /\ step' \in Steps
      /\ UNCHANGED <<hostVars, net, todo, recv, committed, orphaned, spoiled>>
    BY DEF SweepOld, Steps
<1>3. Name \in Names /\ TypeOK /\ Finals /\ Swapping
    BY <1>2, Swapped DEF SaveInv
<1>4. "old" \in Slots /\ "final" \in Slots /\ "incoming" \in Slots
    BY DEF Slots
<1>5. /\ disk' \in [Names -> [Slots -> Folders]]
      /\ \A m \in Names, t \in Slots :
            m # Name \/ t # "old" => disk'[m][t] = disk[m][t]
      /\ \A id : NothingNewer(disk, id) => NothingNewer(disk', id)
      /\ refusals' \in 0 .. MaxRefusals /\ harmed' \subseteq Ids
      /\ UNCHANGED <<crashes, drops>>
    BY <1>1, <1>3, <1>4, Sweeping
<1>6. committed' \subseteq Ids
    BY <1>2, <1>3 DEF TypeOK
<1>7. /\ TypeOK' /\ Sending' /\ Streamed' /\ Aged' /\ Receiving'
      /\ \A n, x, folder : Sound(n, x, folder) => Sound(n, x, folder)'
      /\ \A n, folder : SomeSound(n, folder) => SomeSound(n, folder)'
    BY <1>2, <1>5, <1>6, SwapStep
<1>8. Name' = Name /\ recv' = recv
    BY <1>2 DEF Name, hostVars
<1>9. Finals'
    BY <1>3, <1>4, <1>5, <1>7 DEF Finals
<1>10. Swapping'
    <2>1. Sound(Name, recv.id, disk[Name]["incoming"])'
        BY <1>2, <1>3, <1>4, <1>5, <1>7, <1>8 DEF Swapping
    <2> QED BY <1>2, <2>1 DEF Swapping
<1> QED BY <1>7, <1>9, <1>10 DEF SaveInv

LEMMA SetAsideInv ==
    ASSUME SaveInv, SetAside
    PROVE  SaveInv'
<1>1. step = "aside" /\ step' \in {"promote", "promote had", "discard"}
      /\ step' \in Steps
      /\ UNCHANGED <<hostVars, net, todo, recv, committed, orphaned, spoiled>>
    BY DEF SetAside, Steps
<1>2. Name \in Names /\ TypeOK /\ Finals /\ Swapping
    BY <1>1, Swapped DEF SaveInv
<1>3. "old" \in Slots /\ "final" \in Slots /\ "incoming" \in Slots /\ "final" # "old"
    BY DEF Slots
<1>4. committed' \subseteq Ids /\ disk \in [Names -> [Slots -> Folders]]
    BY <1>1, <1>2 DEF TypeOK
<1>5. Refuse(0) \/ Refuse(1)
    BY DEF SetAside
<1>6. refusals' \in 0 .. MaxRefusals /\ harmed' \subseteq Ids
      /\ UNCHANGED <<crashes, drops>>
    BY <1>2, <1>5, RefuseType
<1>7. Name' = Name /\ recv' = recv
    BY <1>1 DEF Name, hostVars
<1>8. Sound(Name, recv.id, disk[Name]["incoming"])
    BY <1>1, <1>2 DEF Swapping
<1>9. CASE UNCHANGED disk /\ (step' = "promote" => disk[Name]["final"] = Gone)
           /\ step' # "promote had"
    <2>1. /\ TypeOK' /\ Sending' /\ Streamed' /\ Aged' /\ Receiving'
          /\ \A n, x, folder : Sound(n, x, folder) => Sound(n, x, folder)'
          /\ \A n, folder : SomeSound(n, folder) => SomeSound(n, folder)'
        BY <1>1, <1>4, <1>6, <1>9, SwapStep
    <2>2. Finals'
        BY <1>2, <1>9, <2>1 DEF Finals
    <2>3. Sound(Name, recv.id, disk[Name]["incoming"])'
        BY <1>7, <1>8, <1>9, <2>1
    <2>4. Swapping'
        BY <1>1, <1>7, <1>9, <2>3 DEF Swapping
    <2> QED BY <2>1, <2>2, <2>4 DEF SaveInv
<1>10. CASE Move(Name, "final", "old") /\ step' = "promote had"
            /\ disk[Name]["final"] # Gone
    <2>1. /\ disk' \in [Names -> [Slots -> Folders]]
          /\ disk'[Name]["old"] = disk[Name]["final"]
          /\ disk'[Name]["final"] = Gone
          /\ \A m \in Names, t \in Slots :
                m # Name \/ t \notin {"final", "old"} => disk'[m][t] = disk[m][t]
        <3>1. Move(Name, "final", "old")
            BY <1>10
        <3> QED BY ONLY <1>2, <1>3, <1>4, <3>1, MoveShape
    <2>2. \A id : NothingNewer(disk, id) => NothingNewer(disk', id)
        BY <1>2, <1>3, <1>10, Moving
    <2>3. /\ TypeOK' /\ Sending' /\ Streamed' /\ Aged' /\ Receiving'
          /\ \A n, x, folder : Sound(n, x, folder) => Sound(n, x, folder)'
          /\ \A n, folder : SomeSound(n, folder) => SomeSound(n, folder)'
        BY <1>1, <1>4, <1>6, <2>1, <2>2, SwapStep
    <2>4. Finals'
        BY <1>2, <1>3, <2>1, <2>3 DEF Finals
    <2>5. Sound(Name, recv.id, disk[Name]["incoming"])'
        BY <1>2, <1>3, <1>7, <1>8, <2>1, <2>3
    <2>6. SomeSound(Name, disk[Name]["old"])'
        BY <1>2, <1>7, <1>10, <2>1, <2>3 DEF Finals
    <2>7. Swapping'
        BY <1>7, <1>10, <2>1, <2>5, <2>6 DEF Swapping
    <2> QED BY <2>3, <2>4, <2>7 DEF SaveInv
<1> QED BY <1>9, <1>10 DEF SetAside

LEMMA PromoteInv ==
    ASSUME SaveInv, Promote
    PROVE  SaveInv'
<1>1. step \in {"promote", "promote had"} /\ step' \in Steps
      /\ UNCHANGED <<hostVars, net, todo, recv, committed, orphaned, spoiled>>
    BY DEF Promote, Steps
<1>2. Name \in Names /\ TypeOK /\ Finals /\ Swapping /\ recv.id \in Begun
    BY <1>1, Swapped DEF SaveInv
<1>3. "old" \in Slots /\ "final" \in Slots /\ "incoming" \in Slots
    BY DEF Slots
<1>4. committed' \subseteq Ids /\ disk \in [Names -> [Slots -> Folders]]
    BY <1>1, <1>2 DEF TypeOK
<1>5. Refuse(0) \/ Refuse(1)
    BY DEF Promote
<1>6. refusals' \in 0 .. MaxRefusals /\ harmed' \subseteq Ids
      /\ UNCHANGED <<crashes, drops>>
    BY <1>2, <1>5, RefuseType
<1>7. Name' = Name /\ recv' = recv
    BY <1>1 DEF Name, hostVars
<1>8. Sound(Name, recv.id, disk[Name]["incoming"]) /\ disk[Name]["final"] = Gone
    BY <1>1, <1>2 DEF Swapping
<1>9. CASE UNCHANGED disk
           /\ step' = IF step = "promote had" THEN "restore" ELSE "discard"
    <2>1. /\ TypeOK' /\ Sending' /\ Streamed' /\ Aged' /\ Receiving'
          /\ \A n, x, folder : Sound(n, x, folder) => Sound(n, x, folder)'
          /\ \A n, folder : SomeSound(n, folder) => SomeSound(n, folder)'
        BY <1>1, <1>4, <1>6, <1>9, SwapStep
    <2>2. Finals'
        BY <1>2, <1>9, <2>1 DEF Finals
    <2>3. step' = "restore" => SomeSound(Name, disk[Name]["old"])'
        BY <1>2, <1>7, <1>9, <2>1 DEF Swapping
    <2>4. Swapping'
        BY <1>7, <1>8, <1>9, <2>3 DEF Swapping
    <2> QED BY <2>1, <2>2, <2>4 DEF SaveInv
<1>10. CASE Move(Name, "incoming", "final") /\ step' \in {"drop", "commit"}
    <2>1. /\ disk' \in [Names -> [Slots -> Folders]]
          /\ disk'[Name]["final"] = disk[Name]["incoming"]
          /\ \A m \in Names, t \in Slots :
                m # Name \/ t \notin {"final", "incoming"} => disk'[m][t] = disk[m][t]
        BY <1>2, <1>3, <1>4, <1>10, MoveShape
    <2>2. \A id : NothingNewer(disk, id) => NothingNewer(disk', id)
        BY <1>2, <1>3, <1>10, Moving
    <2>3. /\ TypeOK' /\ Sending' /\ Streamed' /\ Aged' /\ Receiving'
          /\ \A n, x, folder : Sound(n, x, folder) => Sound(n, x, folder)'
          /\ \A n, folder : SomeSound(n, folder) => SomeSound(n, folder)'
        BY <1>1, <1>4, <1>6, <2>1, <2>2, SwapStep
    <2>4. Sound(Name, recv.id, disk[Name]["final"])'
        BY <1>7, <1>8, <2>1, <2>3
    <2>5. Finals'
        <3> SUFFICES ASSUME NEW n \in Names, disk'[n]["final"] # Gone
                     PROVE  SomeSound(n, disk[n]["final"])'
            BY DEF Finals
        <3>1. CASE n = Name
            <4>1. recv.id \in {0} \cup Begun'
                BY <1>1, <1>2 DEF Begun, hostVars
            <4> QED BY <1>7, <2>4, <3>1, <4>1 DEF SomeSound
        <3>2. CASE n # Name
            BY <1>2, <1>3, <2>1, <2>3, <3>2 DEF Finals
        <3> QED BY <3>1, <3>2
    <2>6. Swapping'
        BY <1>10, <2>4 DEF Swapping
    <2> QED BY <2>3, <2>5, <2>6 DEF SaveInv
<1> QED BY <1>9, <1>10 DEF Promote

LEMMA RestoreInv ==
    ASSUME SaveInv, Restore
    PROVE  SaveInv'
<1>1. step = "restore" /\ step' = "discard" /\ step' \in Steps
      /\ UNCHANGED <<hostVars, net, todo, recv, committed, orphaned, spoiled>>
    BY DEF Restore, Steps
<1>2. Name \in Names /\ TypeOK /\ Finals /\ Swapping
    BY <1>1, Swapped DEF SaveInv
<1>3. "old" \in Slots /\ "final" \in Slots
    BY DEF Slots
<1>4. committed' \subseteq Ids /\ disk \in [Names -> [Slots -> Folders]]
    BY <1>1, <1>2 DEF TypeOK
<1>5. Refuse(0) \/ Refuse(1)
    BY DEF Restore
<1>6. refusals' \in 0 .. MaxRefusals /\ harmed' \subseteq Ids
      /\ UNCHANGED <<crashes, drops>>
    BY <1>2, <1>5, RefuseType
<1>7. SomeSound(Name, disk[Name]["old"])
    BY <1>1, <1>2 DEF Swapping
<1>8. Swapping'
    BY <1>1 DEF Swapping
<1>9. CASE UNCHANGED disk
    <2>1. /\ TypeOK' /\ Sending' /\ Streamed' /\ Aged' /\ Receiving'
          /\ \A n, folder : SomeSound(n, folder) => SomeSound(n, folder)'
        BY <1>1, <1>4, <1>6, <1>9, SwapStep
    <2>2. Finals'
        BY <1>2, <1>9, <2>1 DEF Finals
    <2> QED BY <1>8, <2>1, <2>2 DEF SaveInv
<1>10. CASE Move(Name, "old", "final")
    <2>1. /\ disk' \in [Names -> [Slots -> Folders]]
          /\ disk'[Name]["final"] = disk[Name]["old"]
          /\ \A m \in Names, t \in Slots :
                m # Name \/ t \notin {"old", "final"} => disk'[m][t] = disk[m][t]
        BY <1>2, <1>3, <1>4, <1>10, MoveShape
    <2>2. \A id : NothingNewer(disk, id) => NothingNewer(disk', id)
        BY <1>2, <1>3, <1>10, Moving
    <2>3. /\ TypeOK' /\ Sending' /\ Streamed' /\ Aged' /\ Receiving'
          /\ \A n, folder : SomeSound(n, folder) => SomeSound(n, folder)'
        BY <1>1, <1>4, <1>6, <2>1, <2>2, SwapStep
    <2>4. Finals'
        BY <1>2, <1>3, <1>7, <2>1, <2>3 DEF Finals
    <2> QED BY <1>8, <2>3, <2>4 DEF SaveInv
<1> QED BY <1>9, <1>10 DEF Restore

LEMMA DropOldInv ==
    ASSUME SaveInv, DropOld
    PROVE  SaveInv'
<1>1. PICK kept \in SUBSET Files : Sweeps(Name, "old", kept)
    BY DEF DropOld
<1>2. step = "drop" /\ step' = "commit" /\ step' \in Steps
      /\ UNCHANGED <<hostVars, net, todo, recv, committed, orphaned, spoiled>>
    BY DEF DropOld, Steps
<1>3. Name \in Names /\ TypeOK /\ Finals /\ Swapping
    BY <1>2, Swapped DEF SaveInv
<1>4. "old" \in Slots /\ "final" \in Slots
    BY DEF Slots
<1>5. /\ disk' \in [Names -> [Slots -> Folders]]
      /\ \A m \in Names, t \in Slots :
            m # Name \/ t # "old" => disk'[m][t] = disk[m][t]
      /\ \A id : NothingNewer(disk, id) => NothingNewer(disk', id)
      /\ refusals' \in 0 .. MaxRefusals /\ harmed' \subseteq Ids
      /\ UNCHANGED <<crashes, drops>>
    BY <1>1, <1>3, <1>4, Sweeping
<1>6. committed' \subseteq Ids
    BY <1>2, <1>3 DEF TypeOK
<1>7. /\ TypeOK' /\ Sending' /\ Streamed' /\ Aged' /\ Receiving'
      /\ \A n, x, folder : Sound(n, x, folder) => Sound(n, x, folder)'
      /\ \A n, folder : SomeSound(n, folder) => SomeSound(n, folder)'
    BY <1>2, <1>5, <1>6, SwapStep
<1>8. Name' = Name /\ recv' = recv
    BY <1>2 DEF Name, hostVars
<1>9. Finals'
    BY <1>3, <1>4, <1>5, <1>7 DEF Finals
<1>10. Swapping'
    <2>1. Sound(Name, recv.id, disk[Name]["final"])'
        BY <1>2, <1>3, <1>4, <1>5, <1>7, <1>8 DEF Swapping
    <2> QED BY <1>2, <2>1 DEF Swapping
<1> QED BY <1>7, <1>9, <1>10 DEF SaveInv

LEMMA DiscardInv ==
    ASSUME SaveInv, Discard
    PROVE  SaveInv'
<1>1. PICK kept \in SUBSET Files : Sweeps(Name, "incoming", kept)
    BY DEF Discard
<1>2. step = "discard" /\ step' = "fail" /\ step' \in Steps
      /\ UNCHANGED <<hostVars, net, todo, recv, committed, orphaned, spoiled>>
    BY DEF Discard, Steps
<1>3. Name \in Names /\ TypeOK /\ Finals
    BY <1>2, Swapped DEF SaveInv
<1>4. "incoming" \in Slots /\ "final" \in Slots
    BY DEF Slots
<1>5. /\ disk' \in [Names -> [Slots -> Folders]]
      /\ \A m \in Names, t \in Slots :
            m # Name \/ t # "incoming" => disk'[m][t] = disk[m][t]
      /\ \A id : NothingNewer(disk, id) => NothingNewer(disk', id)
      /\ refusals' \in 0 .. MaxRefusals /\ harmed' \subseteq Ids
      /\ UNCHANGED <<crashes, drops>>
    BY <1>1, <1>3, <1>4, Sweeping
<1>6. committed' \subseteq Ids
    BY <1>2, <1>3 DEF TypeOK
<1>7. /\ TypeOK' /\ Sending' /\ Streamed' /\ Aged' /\ Receiving'
      /\ \A n, folder : SomeSound(n, folder) => SomeSound(n, folder)'
    BY <1>2, <1>5, <1>6, SwapStep
<1>8. Finals'
    BY <1>3, <1>4, <1>5, <1>7 DEF Finals
<1>9. Swapping'
    BY <1>2 DEF Swapping
<1> QED BY <1>7, <1>8, <1>9 DEF SaveInv

LEMMA AcknowledgeInv ==
    ASSUME SaveInv, Acknowledge
    PROVE  SaveInv'
<1>1. step # "idle" /\ step' = "idle" /\ step' \in Steps
      /\ UNCHANGED <<hostVars, net, todo, recv, disk, orphaned, spoiled, harmed, bounds>>
    BY DEF Acknowledge, Steps
<1>2. TypeOK /\ Finals
    BY DEF SaveInv
<1>3. committed' \subseteq Ids
    BY <1>2 DEF Acknowledge, TypeOK
<1>4. /\ TypeOK' /\ Sending' /\ Streamed' /\ Aged' /\ Receiving'
      /\ \A n, folder : SomeSound(n, folder) => SomeSound(n, folder)'
    <2>1. disk' \in [Names -> [Slots -> Folders]] /\ harmed' \subseteq Ids
          /\ refusals' \in 0 .. MaxRefusals /\ UNCHANGED <<crashes, drops>>
          /\ UNCHANGED <<hostVars, net, todo, recv, orphaned, spoiled>>
        BY <1>1, <1>2 DEF TypeOK, bounds
    <2>2. \A id : NothingNewer(disk, id) => NothingNewer(disk', id)
        BY <1>1
    <2> QED BY <1>1, <1>3, <2>1, <2>2, SwapStep
<1>5. Finals'
    BY <1>1, <1>2, <1>4 DEF Finals
<1>6. Swapping'
    BY <1>1 DEF Swapping
<1> QED BY <1>4, <1>5, <1>6 DEF SaveInv

-----------------------------------------------------------------------------
(* The handlers of the three kinds of frames.                              *)
LEMMA Turned ==
    ASSUME SaveInv, NEW i \in DOMAIN todo, NEW type, Turn(i, type),
           UNCHANGED <<hostVars, net>>
    PROVE  /\ todo[i] \in Frames /\ todo[i].type = type /\ todo[i].id \in Begun
           /\ todo[i].id \in Ids
           /\ step = "idle" /\ Fits(todo[i]) /\ Older(todo[i])
           /\ todo' \in Seq(Frames) /\ Streamed' /\ Sending'
           /\ UNCHANGED <<xferId, save, send, sent, link, lane>>
           /\ \A k \in DOMAIN todo' : \E h \in DOMAIN todo \ {i} : todo'[k] = todo[h]
<1>1. TypeOK /\ Streamed /\ Sending /\ Aged
    BY DEF SaveInv
<1>2. todo[i] \in Frames
    BY <1>1 DEF TypeOK
<1>3. todo[i].type = type /\ step = "idle" /\ todo' = RemoveAt(todo, i)
    BY DEF Turn
<1>4. Fits(todo[i]) /\ Older(todo[i])
    BY <1>1 DEF Streamed, Aged
<1>5. UNCHANGED <<xferId, save, send, sent, link, lane>>
    BY DEF hostVars, net
<1>6. todo' \in Seq(Frames) /\ Streamed'
      /\ \A k \in DOMAIN todo' : \E h \in DOMAIN todo \ {i} : todo'[k] = todo[h]
    BY <1>1, <1>3, <1>5, Taking
<1>7. todo[i].id \in Begun /\ todo[i].id \in Ids
    BY <1>2, <1>4 DEF Fits, Frames
<1>8. Sending'
    BY <1>1, <1>5 DEF Sending, Begun
<1> QED BY <1>2, <1>3, <1>4, <1>5, <1>6, <1>7, <1>8

(* A name whose staging folder keeps a file stays sound in less.           *)
LEMMA SoundSpoiled ==
    ASSUME SaveInv, UNCHANGED <<save, xferId>>, spoiled \subseteq spoiled'
    PROVE  \A n, folder : SomeSound(n, folder) => SomeSound(n, folder)'
<1> SUFFICES ASSUME NEW n, NEW folder, NEW x \in {0} \cup Begun, Sound(n, x, folder)
             PROVE  SomeSound(n, folder)'
    BY DEF SomeSound
<1>1. x \in Ids /\ save[x].files \subseteq Files
    BY TransferAssumption DEF SaveInv, TypeOK, Begun, Ids
<1>2. Listed(x, folder)
    BY <1>1, SoundListed
<1>3. Listed(x, folder)'
    BY <1>2 DEF Listed, Image
<1>4. n \notin spoiled' => Whole(x, folder)'
    BY DEF Sound, Whole, Image
<1>5. Sound(n, x, folder)'
    BY <1>3, <1>4 DEF Sound
<1>6. x \in {0} \cup Begun'
    BY DEF Begun
<1> QED BY <1>5, <1>6 DEF SomeSound

LEMMA OnSaveBeginInv ==
    ASSUME SaveInv, NEW i \in DOMAIN todo, OnSaveBegin(i)
    PROVE  SaveInv'
<1> DEFINE id == todo[i].id
           n == save[id].name
           staging == disk[n]["incoming"]
<1>1. Turn(i, "BEGIN") /\ UNCHANGED <<hostVars, net, step, committed, orphaned>>
    BY DEF OnSaveBegin
<1>2. /\ todo[i] \in Frames /\ todo[i].type = "BEGIN" /\ id \in Begun /\ id \in Ids
      /\ step = "idle" /\ Older(todo[i])
      /\ todo' \in Seq(Frames) /\ Streamed' /\ Sending'
      /\ UNCHANGED <<xferId, save, send, sent, link, lane>>
      /\ \A k \in DOMAIN todo' : \E h \in DOMAIN todo \ {i} : todo'[k] = todo[h]
    BY <1>1, Turned
<1>3. TypeOK /\ Sending /\ Streamed /\ Aged /\ Finals
    BY DEF SaveInv
<1>4. n \in Names /\ "incoming" \in Slots /\ "final" \in Slots
      /\ disk \in [Names -> [Slots -> Folders]]
    BY <1>2, <1>3 DEF Sending, TypeOK, Slots
<1>5. staging \in Folders
    BY <1>4
<1> HIDE DEF id, n, staging
<1>6. PICK active \in BOOLEAN, folder \in Folders :
          /\ recv' = [active |-> active, id |-> id, open |-> 0, seen |-> {},
                      crc |-> [f \in Files |-> <<>>]]
          /\ Put(n, "incoming", folder)
          /\ \A top : NoNewer(staging, top) => NoNewer(folder, top)
          /\ Refuse(0) \/ Refuse(1)
          /\ spoiled \subseteq spoiled' /\ spoiled' \subseteq Names
          /\ active => /\ folder # Gone
                       /\ \A f \in Files : folder[f] # <<>> => n \in spoiled'
    <2>1. ASSUME NEW active \in BOOLEAN,
                 recv' = [NoRecv EXCEPT !.active = active, !.id = id]
          PROVE  recv' = [active |-> active, id |-> id, open |-> 0, seen |-> {},
                          crc |-> [f \in Files |-> <<>>]]
        BY <2>1 DEF NoRecv
    <2>2. spoiled \subseteq Names
        BY <1>3 DEF TypeOK
    <2>3. CASE /\ recv' = [NoRecv EXCEPT !.active = TRUE, !.id = id]
               /\ Put(n, "incoming", Missing) /\ Refuse(0) /\ UNCHANGED spoiled
        <3>1. Missing \in Folders /\ Missing # Gone /\ \A f \in Files : Missing[f] = <<>>
            BY NotGone DEF Missing, Folders
        <3>2. \A top : NoNewer(Missing, top)
            BY <3>1 DEF NoNewer
        <3> QED BY <2>1, <2>2, <2>3, <3>1, <3>2
    <2>4. CASE /\ recv' = [NoRecv EXCEPT !.active = FALSE, !.id = id]
               /\ Put(n, "incoming", Gone) /\ Refuse(1) /\ UNCHANGED spoiled
        <3>1. Gone \in Folders /\ \A top : NoNewer(Gone, top)
            BY DEF Folders, NoNewer
        <3> QED BY <2>1, <2>2, <2>4, <3>1
    <2>5. CASE \E kept \in (SUBSET Present(staging)) \ {{}} :
                  /\ recv' = [NoRecv EXCEPT !.active = TRUE, !.id = id]
                  /\ Put(n, "incoming", Swept(staging, kept))
                  /\ Refuse(1) /\ spoiled' = spoiled \cup {n}
        <3>1. PICK kept \in (SUBSET Present(staging)) \ {{}} :
                  /\ recv' = [NoRecv EXCEPT !.active = TRUE, !.id = id]
                  /\ Put(n, "incoming", Swept(staging, kept))
                  /\ Refuse(1) /\ spoiled' = spoiled \cup {n}
            BY <2>5
        <3>2. /\ Swept(staging, kept) \in Folders
              /\ DOMAIN Swept(staging, kept) = Files
              /\ \A top : NoNewer(staging, top) => NoNewer(Swept(staging, kept), top)
            BY <1>5, SweptFolder
        <3>3. Swept(staging, kept) # Gone
            BY <3>2, NotGone
        <3> QED BY <1>4, <2>1, <2>2, <3>1, <3>2, <3>3
    <2> QED BY <2>3, <2>4, <2>5 DEF OnSaveBegin, id, n, staging
<1>7. /\ recv'.active = active /\ recv'.id = id /\ recv'.seen = {}
      /\ \A f \in Files : recv'.crc[f] = <<>>
    BY <1>6
<1>8. /\ disk' \in [Names -> [Slots -> Folders]]
      /\ disk'[n]["incoming"] = folder
      /\ \A m \in Names, t \in Slots :
            m # n \/ t # "incoming" => disk'[m][t] = disk[m][t]
    BY <1>4, <1>6, PutShape
<1>9. \A top : NothingNewer(disk, top) => NothingNewer(disk', top)
    BY <1>4, <1>6, <1>8 DEF NothingNewer, staging
<1>10. refusals' \in 0 .. MaxRefusals /\ harmed' \subseteq Ids
       /\ UNCHANGED <<crashes, drops>>
    BY <1>3, <1>6, RefuseType
<1>11. TypeOK'
    <2>1. recv' \in [active : BOOLEAN, id : Ids, open : Files \cup {0},
                     seen : SUBSET Files, crc : [Files -> Seq(Nat)]]
        BY <1>2, <1>6
    <2> QED BY <1>1, <1>2, <1>3, <1>6, <1>8, <1>10, <2>1 DEF TypeOK
<1>12. Aged'
    <2>1. NothingNewer(disk', xferId')
        BY <1>2, <1>3, <1>9 DEF Aged
    <2>2. NothingNewer(disk', id) /\ id \in Begun'
        BY <1>2, <1>9 DEF Older, id, Begun
    <2>3. ASSUME NEW k \in DOMAIN todo', todo'[k].type = "BEGIN"
          PROVE  NothingNewer(disk', todo'[k].id) /\ id <= todo'[k].id
        <3>1. PICK h \in DOMAIN todo \ {i} : todo'[k] = todo[h]
            BY <1>2
        <3>2. h > i
            <4>1. h \in Int /\ i \in Int
                BY <1>3 DEF TypeOK
            <4>2. ~(h < i)
                BY <1>1, <2>3, <3>1 DEF Turn
            <4> QED BY <4>1, <4>2
        <3>3. NothingNewer(disk, todo[h].id)
            BY <1>3, <2>3, <3>1 DEF Aged, Older
        <3>4. id <= todo[h].id
            BY <1>3, <3>1, <3>2 DEF Streamed, InOrder, id
        <3> QED BY <1>9, <3>1, <3>3, <3>4
    <2>4. ASSUME NEW k \in DOMAIN lane, lane[k].type = "BEGIN"
          PROVE  NothingNewer(disk', lane[k].id) /\ id <= lane[k].id
        <3>1. NothingNewer(disk, lane[k].id)
            BY <1>3, <2>4 DEF Aged, Older
        <3>2. id <= lane[k].id
            BY <1>3 DEF Streamed, id
        <3> QED BY <1>9, <3>1, <3>2
    <2>5. \A k \in DOMAIN todo' : Older(todo[k])'
        BY <1>7, <2>3 DEF Older
    <2>6. \A k \in DOMAIN lane' : Older(lane[k])'
        BY <1>2, <1>7, <2>4 DEF Older
    <2> QED BY <1>7, <2>1, <2>2, <2>5, <2>6 DEF Aged
<1>13. Receiving'
    <2>1. Name' = n
        BY <1>2, <1>7 DEF Name, n
    <2>2. recv'.active => Staged'
        BY <1>6, <1>7, <1>8, <2>1 DEF Staged
    <2> QED BY <1>1, <1>2, <2>2 DEF Receiving
<1>14. Finals'
    <2>1. \A m, some : SomeSound(m, some) => SomeSound(m, some)'
        BY <1>2, <1>6, SoundSpoiled
    <2>2. \A m \in Names : disk'[m]["final"] = disk[m]["final"]
        BY <1>4, <1>8
    <2> QED BY <1>3, <2>1, <2>2 DEF Finals
<1>15. Swapping'
    BY <1>1, <1>2 DEF Swapping
<1> QED BY <1>2, <1>11, <1>12, <1>13, <1>14, <1>15 DEF SaveInv

(* A chunk written at its place keeps the chunks before it.                *)
LEMMA WrittenTook ==
    ASSUME NEW taken \in Seq(Nat), NEW content \in Seq(Ids \cup {Hole}),
           NEW p \in Nat \ {0}, recv.id \in Ids, Took(taken, content, recv.id)
    PROVE  /\ Written(p, content) \in Seq(Ids \cup {Hole})
           /\ Took(Append(taken, p), Written(p, content), recv.id)
           /\ \A q \in DOMAIN Written(p, content) :
                 \/ Written(p, content)[q] \in {recv.id, Hole}
                 \/ q \in DOMAIN content /\ Written(p, content)[q] = content[q]
<1> DEFINE len == IF p > Len(content) THEN p ELSE Len(content)
<1>1. len \in Nat /\ len >= p /\ len >= Len(content) /\ Len(content) \in Nat
      /\ DOMAIN content = 1 .. Len(content)
    OBVIOUS
<1>2. Written(p, content) =
        [q \in 1 .. len |-> IF q = p THEN recv.id
                            ELSE IF q \in DOMAIN content THEN content[q] ELSE Hole]
    BY DEF Written
<1> HIDE DEF len
<1>3. \A q \in 1 .. len : Written(p, content)[q] \in Ids \cup {Hole}
    BY <1>2
<1>4. Written(p, content) \in Seq(Ids \cup {Hole})
      /\ Len(Written(p, content)) = len /\ DOMAIN Written(p, content) = 1 .. len
    BY <1>1, <1>2, <1>3
<1>5. ASSUME NEW i \in DOMAIN Append(taken, p)
      PROVE  Append(taken, p)[i] \in DOMAIN Written(p, content)
             /\ Written(p, content)[Append(taken, p)[i]] = recv.id
    <2>1. CASE i \in DOMAIN taken
        <3>1. Append(taken, p)[i] = taken[i]
            BY <2>1
        <3>2. taken[i] \in DOMAIN content /\ content[taken[i]] = recv.id
            BY <2>1 DEF Took
        <3> QED BY <1>1, <1>2, <1>4, <3>1, <3>2
    <2>2. CASE i = Len(taken) + 1
        <3>1. Append(taken, p)[i] = p
            BY <2>2
        <3> QED BY <1>1, <1>2, <1>4, <3>1
    <2> QED BY <2>1, <2>2
<1>6. \E i \in DOMAIN Append(taken, p) : Append(taken, p)[i] = len
    <2>1. CASE p > Len(content)
        <3>1. len = p
            BY <2>1 DEF len
        <3>2. Append(taken, p)[Len(taken) + 1] = p /\ Len(taken) + 1 \in DOMAIN Append(taken, p)
            OBVIOUS
        <3> QED BY <3>1, <3>2
    <2>2. CASE ~(p > Len(content))
        <3>1. len = Len(content) /\ content # <<>>
            BY <1>1, <2>2 DEF len
        <3>2. PICK i \in DOMAIN taken : taken[i] = Len(content)
            BY <3>1 DEF Took
        <3>3. Append(taken, p)[i] = taken[i] /\ i \in DOMAIN Append(taken, p)
            BY <3>2
        <3> QED BY <3>1, <3>2, <3>3
    <2> QED BY <2>1, <2>2
<1>7. Took(Append(taken, p), Written(p, content), recv.id)
    BY <1>4, <1>5, <1>6 DEF Took
<1> QED BY <1>2, <1>4, <1>7

(* Replacing one file of the staging folder.                               *)
LEMMA HoldsShape ==
    ASSUME SaveInv, recv.active, NEW f \in Files,
           NEW content \in Seq(Ids \cup {Hole}), Holds(f, content)
    PROVE  \E folder \in Folders :
             /\ folder # Gone /\ folder[f] = content
             /\ \A g \in Files : g # f => folder[g] = disk[Name]["incoming"][g]
             /\ disk' \in [Names -> [Slots -> Folders]]
             /\ disk'[Name]["incoming"] = folder
             /\ \A m \in Names, t \in Slots :
                   m # Name \/ t # "incoming" => disk'[m][t] = disk[m][t]
<1> DEFINE staging == disk[Name]["incoming"]
           folder == [staging EXCEPT ![f] = content]
<1>1. Name \in Names /\ "incoming" \in Slots /\ disk \in [Names -> [Slots -> Folders]]
    BY Swapped DEF SaveInv, TypeOK, Slots
<1>2. staging # Gone
    BY DEF SaveInv, Receiving, Staged
<1>3. staging \in Folders
    BY <1>1
<1>4. staging \in [Files -> Seq(Ids \cup {Hole})]
    BY <1>2, <1>3 DEF Folders
<1>5. Put(Name, "incoming", folder)
    BY DEF Holds
<1> HIDE DEF staging
<1>6. folder \in [Files -> Seq(Ids \cup {Hole})] /\ folder[f] = content
      /\ \A g \in Files : g # f => folder[g] = staging[g]
    BY <1>4
<1> HIDE DEF folder
<1>7. folder \in Folders /\ folder # Gone
    BY <1>6, NotGone DEF Folders
<1>8. /\ disk' \in [Names -> [Slots -> Folders]]
      /\ disk'[Name]["incoming"] = folder
      /\ \A m \in Names, t \in Slots :
            m # Name \/ t # "incoming" => disk'[m][t] = disk[m][t]
    BY <1>1, <1>5, <1>7, PutShape
<1> QED BY <1>6, <1>7, <1>8 DEF staging

(* What a frame that leaves the handlers idle keeps.                       *)
LEMMA Handled ==
    ASSUME SaveInv, NEW i \in DOMAIN todo, NEW type, Turn(i, type),
           UNCHANGED <<hostVars, net>>, UNCHANGED <<step, orphaned, spoiled>>,
           \A n \in Names : disk'[n]["final"] = disk[n]["final"]
    PROVE  Finals' /\ Swapping'
<1>1. step = "idle" /\ UNCHANGED <<xferId, save>>
    BY Turned
<1>2. \A n, folder : SomeSound(n, folder) => SomeSound(n, folder)'
    BY <1>1, SoundSpoiled
<1>3. Finals
    BY DEF SaveInv
<1> QED BY <1>1, <1>2, <1>3 DEF Finals, Swapping

LEMMA OnSaveFileInv ==
    ASSUME SaveInv, NEW i \in DOMAIN todo, OnSaveFile(i)
    PROVE  SaveInv'
<1> DEFINE m == todo[i]
           f == todo[i].file
           p == todo[i].part
           content == IF f \in recv.seen THEN disk[Name]["incoming"][f] ELSE <<>>
           opened == [recv EXCEPT !.open = f, !.seen = @ \cup {f}]
           RecvType == [active : BOOLEAN, id : Ids, open : Files \cup {0},
                        seen : SUBSET Files, crc : [Files -> Seq(Nat)]]
<1>1. Turn(i, "FILE") /\ UNCHANGED <<hostVars, net, step, committed, orphaned, spoiled>>
    BY DEF OnSaveFile
<1>2. /\ m \in Frames /\ m.type = "FILE" /\ m.id \in Begun
      /\ step = "idle" /\ Fits(m)
      /\ todo' \in Seq(Frames) /\ Streamed' /\ Sending'
      /\ UNCHANGED <<xferId, save, send, sent, link, lane>>
      /\ \A k \in DOMAIN todo' : \E h \in DOMAIN todo \ {i} : todo'[k] = todo[h]
    BY <1>1, Turned
<1>3. TypeOK /\ Aged /\ Receiving
    BY DEF SaveInv
<1>4. recv \in RecvType /\ disk \in [Names -> [Slots -> Folders]]
    BY <1>3 DEF TypeOK
<1>5. f \in Files /\ p \in Nat \ {0} /\ f \in save[m.id].files
    BY <1>2 DEF Frames, Fits
<1>6. CASE ~recv.active \/ m.id # recv.id
    <2>1. UNCHANGED <<recv, disk>> /\ Refuse(0)
        BY <1>6 DEF OnSaveFile
    <2>2. refusals' \in 0 .. MaxRefusals /\ harmed' \subseteq Ids
          /\ UNCHANGED <<crashes, drops>>
        BY <1>3, <2>1, RefuseType
    <2>3. TypeOK'
        BY <1>1, <1>2, <1>3, <2>1, <2>2 DEF TypeOK
    <2>4. Aged'
        BY <1>1, <1>2, <1>3, <2>1 DEF Aged, Older, Begun
    <2>5. Receiving'
        BY <1>1, <1>2, <1>3, <2>1 DEF Receiving, Staged, Name
    <2>6. Finals' /\ Swapping'
        BY <1>1, <2>1, Handled
    <2> QED BY <1>2, <2>3, <2>4, <2>5, <2>6 DEF SaveInv
<1>7. CASE recv.active /\ m.id = recv.id
    <2>1. /\ Name \in Names /\ recv.id \in Begun /\ recv.id \in Ids
          /\ NothingNewer(disk, recv.id) /\ f \in save[recv.id].files
        BY <1>5, <1>7, Swapped
    <2>2. Staged
        BY <1>3, <1>7 DEF Receiving
    <2>3. disk[Name]["incoming"] \in [Files -> Seq(Ids \cup {Hole})]
        <3>1. disk[Name]["incoming"] \in Folders /\ disk[Name]["incoming"] # Gone
            BY <1>4, <2>1, <2>2 DEF Staged, Slots
        <3> QED BY <3>1 DEF Folders
    <2>4. content \in Seq(Ids \cup {Hole}) /\ Took(recv.crc[f], content, recv.id)
          /\ recv.crc[f] \in Seq(Nat)
        <3>1. CASE f \in recv.seen
            BY <1>4, <1>5, <2>2, <2>3, <3>1 DEF Staged
        <3>2. CASE f \notin recv.seen
            <4>1. content = <<>> /\ recv.crc[f] = <<>>
                BY <1>5, <2>2, <3>2 DEF Staged
            <4> QED BY <1>4, <1>5, <4>1 DEF Took
        <3> QED BY <3>1, <3>2
    <2>5. \A q \in DOMAIN content : content[q] <= recv.id
        <3>1. CASE f \in recv.seen
            BY <1>5, <2>1, <2>2, <3>1 DEF NothingNewer, NoNewer, Staged, Slots
        <3>2. CASE f \notin recv.seen
            BY <3>2
        <3> QED BY <3>1, <3>2
    <2>6. CASE recv' = [recv EXCEPT !.open = 0] /\ UNCHANGED disk /\ Refuse(1)
        <3>1. refusals' \in 0 .. MaxRefusals /\ harmed' \subseteq Ids
              /\ UNCHANGED <<crashes, drops>>
            BY <1>3, <2>6, RefuseType
        <3>2. /\ recv' \in RecvType /\ recv'.active = recv.active /\ recv'.id = recv.id
              /\ recv'.seen = recv.seen /\ recv'.crc = recv.crc
            BY <1>4, <2>6
        <3>3. TypeOK'
            BY <1>1, <1>2, <1>3, <2>6, <3>1, <3>2 DEF TypeOK
        <3>4. Aged'
            BY <1>1, <1>2, <1>3, <2>6, <3>2 DEF Aged, Older, Begun
        <3>5. Receiving'
            BY <1>1, <1>2, <1>3, <2>6, <3>2 DEF Receiving, Staged, Name
        <3>6. Finals' /\ Swapping'
            BY <1>1, <2>6, Handled
        <3> QED BY <1>2, <3>3, <3>4, <3>5, <3>6 DEF SaveInv
    <2>7. ASSUME NEW crc \in [Files -> Seq(Nat)], NEW now \in Seq(Ids \cup {Hole}),
                 recv' = [opened EXCEPT !.crc = crc], Holds(f, now),
                 Refuse(0) \/ Refuse(1),
                 Took(crc[f], now, recv.id),
                 \A g \in Files : g # f => crc[g] = recv.crc[g],
                 \A q \in DOMAIN now : now[q] <= recv.id
          PROVE  SaveInv'
        <3>1. refusals' \in 0 .. MaxRefusals /\ harmed' \subseteq Ids
              /\ UNCHANGED <<crashes, drops>>
            BY <1>3, <2>7, RefuseType
        <3>2. /\ recv' \in RecvType /\ recv'.active = recv.active /\ recv'.id = recv.id
              /\ recv'.seen = recv.seen \cup {f} /\ recv'.crc = crc
            <4>1. opened \in RecvType /\ opened.active = recv.active
                  /\ opened.id = recv.id /\ opened.seen = recv.seen \cup {f}
                BY <1>4, <1>5
            <4> HIDE DEF opened
            <4> QED BY <2>7, <4>1
        <3>3. PICK folder \in Folders :
                 /\ folder # Gone /\ folder[f] = now
                 /\ \A g \in Files : g # f => folder[g] = disk[Name]["incoming"][g]
                 /\ disk' \in [Names -> [Slots -> Folders]]
                 /\ disk'[Name]["incoming"] = folder
                 /\ \A n \in Names, t \in Slots :
                       n # Name \/ t # "incoming" => disk'[n][t] = disk[n][t]
            BY <1>5, <1>7, <2>7, HoldsShape
        <3>4. \A top \in Ids : recv.id <= top /\ NothingNewer(disk, top)
                                => NothingNewer(disk', top)
            <4> SUFFICES ASSUME NEW top \in Ids, recv.id <= top,
                                NothingNewer(disk, top), NEW n \in Names, NEW s \in Slots
                         PROVE  NoNewer(disk'[n][s], top)
                BY DEF NothingNewer
            <4>1. NoNewer(disk[n][s], top)
                BY DEF NothingNewer
            <4>2. CASE n # Name \/ s # "incoming"
                BY <3>3, <4>1, <4>2
            <4>3. CASE n = Name /\ s = "incoming"
                <5>1. ASSUME NEW g \in Files, NEW q \in DOMAIN folder[g]
                      PROVE  folder[g][q] <= top
                    <6>1. CASE g = f
                        <7>1. now[q] <= recv.id /\ now[q] \in Ids \cup {Hole}
                            BY <2>7, <3>3, <5>1, <6>1
                        <7>2. now[q] \in Int /\ top \in Int /\ recv.id \in Int
                            BY <2>1, <7>1, TransferAssumption DEF Ids, Hole
                        <7> QED BY <3>3, <6>1, <7>1, <7>2
                    <6>2. CASE g # f
                        BY <2>2, <3>3, <4>1, <4>3, <5>1, <6>2 DEF NoNewer, Staged
                    <6> QED BY <6>1, <6>2
                <5> QED BY <3>3, <4>3, <5>1 DEF NoNewer
            <4> QED BY <4>2, <4>3
        <3>5. TypeOK'
            BY <1>1, <1>2, <1>3, <3>1, <3>2, <3>3 DEF TypeOK
        <3>6. Aged'
            <4>1. xferId \in Ids /\ recv.id <= xferId
                BY <1>3, <2>1, TransferAssumption DEF TypeOK, Begun, Ids
            <4>2. recv.id <= recv.id
                BY <2>1, TransferAssumption DEF Ids
            <4>3. NothingNewer(disk', xferId') /\ NothingNewer(disk', recv'.id)
                BY <1>2, <1>3, <2>1, <3>2, <3>4, <4>1, <4>2 DEF Aged
            <4>4. ASSUME NEW frame \in Frames, Older(frame), frame.type = "BEGIN"
                  PROVE  NothingNewer(disk', frame.id) /\ recv'.id <= frame.id
                <5>1. frame.id \in Ids
                    BY <4>4 DEF Frames
                <5> QED BY <1>7, <3>2, <3>4, <4>4, <5>1 DEF Older
            <4>5. \A k \in DOMAIN todo' : Older(todo[k])'
                <5>1. \A k \in DOMAIN todo' : todo'[k] \in Frames /\ Older(todo'[k])
                    BY <1>2, <1>3 DEF Aged, TypeOK
                <5> QED BY <4>4, <5>1 DEF Older
            <4>6. \A k \in DOMAIN lane' : Older(lane[k])'
                <5>1. \A k \in DOMAIN lane : lane[k] \in Frames /\ Older(lane[k])
                    BY <1>3 DEF Aged, TypeOK
                <5> QED BY <1>2, <4>4, <5>1 DEF Older
            <4>7. recv'.id \in Begun'
                BY <1>2, <2>1, <3>2 DEF Begun
            <4> QED BY <4>3, <4>5, <4>6, <4>7 DEF Aged
        <3>7. Receiving'
            <4>1. Name' = Name /\ save' = save /\ spoiled' = spoiled
                BY <1>1, <1>2, <3>2 DEF Name
            <4>2. \A g \in Files :
                     IF g \in recv'.seen THEN Took(recv'.crc[g], folder[g], recv'.id)
                     ELSE recv'.crc[g] = <<>> /\ (folder[g] # <<>> => Name \in spoiled)
                <5> SUFFICES ASSUME NEW g \in Files
                             PROVE  IF g \in recv'.seen
                                    THEN Took(recv'.crc[g], folder[g], recv'.id)
                                    ELSE recv'.crc[g] = <<>>
                                         /\ (folder[g] # <<>> => Name \in spoiled)
                    OBVIOUS
                <5>1. CASE g = f
                    BY <2>7, <3>2, <3>3, <5>1
                <5>2. CASE g # f
                    BY <2>2, <2>7, <3>2, <3>3, <5>2 DEF Staged
                <5> QED BY <5>1, <5>2
            <4>3. recv'.seen \subseteq save[recv.id].files
                BY <2>1, <2>2, <3>2 DEF Staged
            <4>4. Staged'
                BY <3>2, <3>3, <4>1, <4>2, <4>3 DEF Staged
            <4> QED BY <1>1, <1>2, <4>4 DEF Receiving
        <3>8. Finals' /\ Swapping'
            BY <1>1, <2>1, <3>3, Handled DEF Slots
        <3> QED BY <1>2, <3>5, <3>6, <3>7, <3>8 DEF SaveInv
    <2>8. CASE /\ recv' = [opened EXCEPT !.crc[f] = Append(@, p)]
               /\ Holds(f, Written(p, content)) /\ Refuse(0)
        <3> DEFINE crc == [recv.crc EXCEPT ![f] = Append(@, p)]
                   now == Written(p, content)
        <3>1. recv' = [opened EXCEPT !.crc = crc]
            BY <1>4, <2>8
        <3>2. crc \in [Files -> Seq(Nat)] /\ crc[f] = Append(recv.crc[f], p)
              /\ \A g \in Files : g # f => crc[g] = recv.crc[g]
            BY <1>4, <1>5, <2>4
        <3>3. /\ now \in Seq(Ids \cup {Hole})
              /\ Took(Append(recv.crc[f], p), now, recv.id)
              /\ \A q \in DOMAIN now : \/ now[q] \in {recv.id, Hole}
                                       \/ q \in DOMAIN content /\ now[q] = content[q]
            <4>1. /\ recv.crc[f] \in Seq(Nat) /\ content \in Seq(Ids \cup {Hole})
                  /\ p \in Nat \ {0} /\ recv.id \in Ids
                  /\ Took(recv.crc[f], content, recv.id)
                BY <1>5, <2>1, <2>4
            <4> HIDE DEF content
            <4> QED BY <4>1, WrittenTook
        <3>4. \A q \in DOMAIN now : now[q] <= recv.id
            <4>1. recv.id \in Nat
                BY <2>1, TransferAssumption DEF Ids
            <4> QED BY <2>5, <3>3, <4>1 DEF Hole
        <3> HIDE DEF crc, now
        <3>5. Holds(f, now) /\ Refuse(0)
            BY <2>8 DEF now
        <3> QED BY <2>7, <3>1, <3>2, <3>3, <3>4, <3>5
    <2>9. CASE recv' = opened /\ Holds(f, content) /\ Refuse(1)
        <3>1. recv' = [opened EXCEPT !.crc = recv.crc] /\ recv.crc \in [Files -> Seq(Nat)]
            BY <1>4, <2>9
        <3> QED BY <2>4, <2>5, <2>7, <2>9, <3>1
    <2> QED BY <1>7, <2>6, <2>8, <2>9 DEF OnSaveFile
<1> QED BY <1>6, <1>7

(* A staging folder whose checksums agree is the transfer, whole.          *)
LEMMA VerifiedSound ==
    ASSUME SaveInv, recv.active, Verified(recv.id)
    PROVE  Sound(Name, recv.id, disk[Name]["incoming"])
<1> DEFINE staging == disk[Name]["incoming"]
           id == recv.id
<1>1. Name \in Names /\ id \in Ids /\ save[id].files \in (SUBSET Files) \ {{}}
    BY Swapped
<1>2. Staged /\ disk \in [Names -> [Slots -> Folders]]
    BY DEF SaveInv, Receiving, TypeOK
<1>3. staging \in [Files -> Seq(Ids \cup {Hole})] /\ staging # Gone
    <2>1. staging \in Folders /\ staging # Gone
        BY <1>1, <1>2 DEF Staged, Slots
    <2> QED BY <2>1 DEF Folders
<1>4. ASSUME NEW f \in save[id].files
      PROVE  staging[f] = [p \in 1 .. Parts[f] |-> id]
    <2>1. f \in Files /\ f \in recv.seen /\ recv.crc[f] = [p \in 1 .. Parts[f] |-> p]
        BY <1>1, <1>4 DEF Verified
    <2>2. Took(recv.crc[f], staging[f], id)
        BY <1>2, <2>1 DEF Staged
    <2>3. Parts[f] \in Nat \ {0}
        BY <2>1, TransferAssumption
    <2>4. \A p \in 1 .. Parts[f] : p \in DOMAIN staging[f] /\ staging[f][p] = id
        <3> SUFFICES ASSUME NEW p \in 1 .. Parts[f]
                     PROVE  p \in DOMAIN staging[f] /\ staging[f][p] = id
            OBVIOUS
        <3>1. p \in DOMAIN recv.crc[f] /\ recv.crc[f][p] = p
            BY <2>1
        <3> QED BY <2>2, <3>1 DEF Took
    <2>5. staging[f] \in Seq(Ids \cup {Hole}) /\ Len(staging[f]) \in Nat
          /\ DOMAIN staging[f] = 1 .. Len(staging[f])
        BY <1>3, <2>1
    <2>6. Len(staging[f]) = Parts[f]
        <3>1. 1 \in DOMAIN staging[f] /\ Parts[f] \in DOMAIN staging[f]
            BY <2>3, <2>4
        <3>2. PICK k \in DOMAIN recv.crc[f] : recv.crc[f][k] = Len(staging[f])
            BY <2>2, <2>5, <3>1 DEF Took
        <3>3. Len(staging[f]) \in 1 .. Parts[f]
            BY <2>1, <3>2
        <3> QED BY <2>3, <2>5, <3>1, <3>3
    <2>7. DOMAIN staging[f] = 1 .. Parts[f]
        BY <2>5, <2>6
    <2>8. PICK content \in Seq(Ids \cup {Hole}) : content = staging[f]
        BY <2>5
    <2>9. content = [p \in 1 .. Parts[f] |-> content[p]]
        <3>1. Len(content) = Parts[f]
            BY <2>6, <2>8
        <3>2. content = [p \in 1 .. Len(content) |-> content[p]]
            OBVIOUS
        <3> QED BY <3>1, <3>2
    <2> HIDE DEF staging, id
    <2> QED BY <2>4, <2>8, <2>9
<1>5. Listed(id, staging)
    BY <1>1, <1>3, <1>4 DEF Listed, Image
<1>6. ASSUME Name \notin spoiled PROVE Whole(id, staging)
    <2>1. ASSUME NEW f \in Files PROVE staging[f] = Image(id)[f]
        <3>1. CASE f \in save[id].files
            BY <1>4, <3>1 DEF Image
        <3>2. CASE f \notin save[id].files
            <4>1. f \notin recv.seen
                BY <1>2, <3>2 DEF Staged
            <4>2. staging[f] = <<>>
                BY <1>2, <1>6, <4>1 DEF Staged
            <4> QED BY <3>2, <4>2 DEF Image
        <3> QED BY <3>1, <3>2
    <2>2. Image(id) \in [Files -> Seq(Ids \cup {Hole})]
        BY <1>1, ImageFolder
    <2> HIDE DEF staging, id
    <2>3. staging = Image(id)
        BY <1>3, <2>1, <2>2
    <2> QED BY <2>3 DEF Whole
<1> QED BY <1>5, <1>6 DEF Sound

LEMMA OnSaveDoneInv ==
    ASSUME SaveInv, NEW i \in DOMAIN todo, OnSaveDone(i)
    PROVE  SaveInv'
<1>1. Turn(i, "DONE")
      /\ UNCHANGED <<hostVars, net, disk, committed, spoiled, harmed, bounds>>
    BY DEF OnSaveDone
<1>2. /\ step = "idle" /\ todo' \in Seq(Frames) /\ Streamed' /\ Sending'
      /\ UNCHANGED <<xferId, save, send, sent, link, lane>>
      /\ \A k \in DOMAIN todo' : \E h \in DOMAIN todo \ {i} : todo'[k] = todo[h]
    BY <1>1, Turned
<1>3. TypeOK /\ Aged /\ Receiving
    BY DEF SaveInv
<1>4. CASE UNCHANGED <<recv, step, orphaned>>
    <2>1. TypeOK'
        BY <1>1, <1>2, <1>3, <1>4 DEF TypeOK, bounds
    <2>2. Aged'
        BY <1>1, <1>2, <1>3, <1>4 DEF Aged, Older, Begun
    <2>3. Receiving'
        BY <1>1, <1>2, <1>3, <1>4 DEF Receiving, Staged, Name
    <2>4. Finals' /\ Swapping'
        BY <1>1, <1>4, Handled
    <2> QED BY <1>2, <2>1, <2>2, <2>3, <2>4 DEF SaveInv
<1>5. CASE /\ recv.active
           /\ recv' = [recv EXCEPT !.active = FALSE, !.open = 0]
           /\ step' = IF Verified(recv.id) THEN "sweep" ELSE "discard"
           /\ orphaned' = IF Verified(recv.id) /\ disk[Name]["final"] = Gone
                             /\ disk[Name]["old"] # Gone
                          THEN orphaned \cup {Name} ELSE orphaned
    <2>1. Name \in Names /\ recv.id \in Begun /\ NothingNewer(disk, recv.id)
        BY <1>5, Swapped
    <2>2. /\ recv' \in [active : BOOLEAN, id : Ids, open : Files \cup {0},
                        seen : SUBSET Files, crc : [Files -> Seq(Nat)]]
          /\ recv'.active = FALSE /\ recv'.id = recv.id
        BY <1>3, <1>5 DEF TypeOK
    <2>3. TypeOK'
        <3>1. step' \in Steps /\ orphaned' \subseteq Names
            BY <1>3, <1>5, <2>1 DEF Steps, TypeOK
        <3> QED BY <1>1, <1>2, <1>3, <2>2, <3>1 DEF TypeOK, bounds
    <2>4. Aged'
        <3>1. \A k \in DOMAIN todo' : Older(todo[k])'
            BY <1>1, <1>2, <1>3, <2>2 DEF Aged, Older
        <3>2. \A k \in DOMAIN lane' : Older(lane[k])'
            BY <1>1, <1>2, <1>3, <2>2 DEF Aged, Older
        <3> QED BY <1>1, <1>2, <1>3, <2>1, <2>2, <3>1, <3>2 DEF Aged, Begun
    <2>5. Receiving'
        BY <2>2 DEF Receiving
    <2>6. \A n, x, folder : Sound(n, x, folder) => Sound(n, x, folder)'
        BY <1>1, <1>2 DEF Sound, Listed, Whole, Image
    <2>7. Finals'
        <3>1. \A n, folder : SomeSound(n, folder) => SomeSound(n, folder)'
            BY <1>2, <2>6 DEF SomeSound, Begun
        <3> QED BY <1>1, <3>1 DEF SaveInv, Finals
    <2>8. Name' = Name
        BY <1>2, <2>2 DEF Name
    <2>9. CASE Verified(recv.id)
        <3>1. Sound(Name, recv.id, disk[Name]["incoming"])'
            BY <1>1, <1>5, <2>2, <2>6, <2>8, <2>9, VerifiedSound
        <3>2. step' = "sweep"
              /\ (disk[Name]["final"] = Gone /\ disk[Name]["old"] # Gone
                    => Name \in orphaned')
            BY <1>5, <2>9
        <3> QED BY <1>1, <1>2, <2>3, <2>4, <2>5, <2>7, <2>8, <3>1, <3>2
                DEF SaveInv, Swapping
    <2>10. CASE ~Verified(recv.id)
        <3>1. step' = "discard"
            BY <1>5, <2>10
        <3>2. Swapping'
            BY <3>1 DEF Swapping
        <3> QED BY <1>2, <2>3, <2>4, <2>5, <2>7, <3>2 DEF SaveInv
    <2> QED BY <2>9, <2>10
<1> QED BY <1>4, <1>5 DEF OnSaveDone

-----------------------------------------------------------------------------
(* SaveInv is inductive.                                                   *)
LEMMA NextInv ==
    ASSUME SaveInv, [Next]_vars
    PROVE  SaveInv'
<1>1. ASSUME NEW n \in Names, NEW files \in (SUBSET Files) \ {{}}, BeginSend(n, files)
      PROVE  SaveInv'
    BY <1>1, BeginSendInv
<1>2. CASE SendChunk \/ Abort
    BY <1>2, SendChunkInv, AbortInv
<1>3. CASE Pump \/ Drop \/ Reconnect \/ Crash
    BY <1>3, PumpInv, DropInv, ReconnectInv, CrashInv
<1>4. ASSUME NEW i \in DOMAIN todo, OnSaveBegin(i) \/ OnSaveFile(i) \/ OnSaveDone(i)
      PROVE  SaveInv'
    BY <1>4, OnSaveBeginInv, OnSaveFileInv, OnSaveDoneInv
<1>5. CASE SweepOld \/ SetAside \/ Promote \/ Restore \/ DropOld \/ Discard \/ Acknowledge
    BY <1>5, SweepOldInv, SetAsideInv, PromoteInv, RestoreInv, DropOldInv, DiscardInv,
       AcknowledgeInv
<1>6. CASE UNCHANGED vars
    <2>1. UNCHANGED <<xferId, save, send, sent, link, lane, todo, recv, step, disk,
                      committed, orphaned, spoiled, harmed, crashes, refusals, drops>>
        BY <1>6 DEF vars, hostVars, net, history, bounds
    <2>2. TypeOK /\ Sending /\ Streamed /\ Aged
        BY DEF SaveInv
    <2>3. xferId' \in Ids /\ xferId <= xferId'
        BY <2>1, <2>2, TransferAssumption DEF TypeOK, Ids
    <2>4. Receiving' /\ Finals' /\ Swapping'
        BY <2>1, <2>3, JoinKept
    <2>5. TypeOK' /\ Sending'
        BY <2>1, <2>2 DEF TypeOK, Sending, Begun
    <2>6. Streamed' /\ Aged'
        BY <2>1, <2>2 DEF Streamed, Fits, Begun, Aged, Older
    <2> QED BY <2>4, <2>5, <2>6 DEF SaveInv
<1> QED BY <1>1, <1>2, <1>3, <1>4, <1>5, <1>6 DEF Next, HostNext, JoinNext

LEMMA Inductive == Spec => []SaveInv
<1>1. SaveInv /\ [Next]_vars => SaveInv'
    BY NextInv
<1> QED BY InitInv, <1>1, PTL DEF Spec

(* The types of the sender's, the receiver's and the disk's state.         *)
THEOREM SaveTypes == Spec => []TypeOK
<1>1. SaveInv => TypeOK
    BY DEF SaveInv
<1> QED BY <1>1, Inductive, PTL

(* A folder a player can load is one save as it was streamed, whatever was *)
(* lost, refused or cut short.                                             *)
THEOREM SaveFinalWhole == Spec => []FinalWhole
<1>1. ASSUME SaveInv PROVE FinalWhole
    <2>1. \A x \in {0} \cup Begun : x \in Ids
        BY <1>1, TransferAssumption DEF SaveInv, TypeOK, Begun, Ids
    <2> QED BY <1>1, <2>1 DEF SaveInv, Finals, SomeSound, Sound, FinalWhole
<1> QED BY <1>1, Inductive, PTL

(* A transfer is acknowledged as committed only while what it streamed is  *)
(* in place.                                                               *)
THEOREM SaveAcknowledged == Spec => AckMeansInPlace
<1>1. ASSUME SaveInv, [Next]_vars
      PROVE  \A x \in committed' \ committed : Listed(x, disk[save[x].name]["final"])
    <2> SUFFICES ASSUME NEW x \in committed', x \notin committed
                 PROVE  Listed(x, disk[save[x].name]["final"])
        OBVIOUS
    <2>1. Acknowledge /\ step = "commit" /\ x = recv.id
        <3>1. UNCHANGED committed \/ Acknowledge
            BY <1>1 DEF Next, HostNext, JoinNext, BeginSend, SendChunk, Abort, Pump,
               OnSaveBegin, OnSaveFile, OnSaveDone, SweepOld, SetAside, Promote,
               Restore, DropOld, Discard, Drop, Reconnect, Crash, history, vars
        <3> QED BY <3>1 DEF Acknowledge
    <2>2. Sound(Name, recv.id, disk[Name]["final"])
        BY <1>1, <2>1 DEF SaveInv, Swapping
    <2>3. recv.id \in Ids /\ save[recv.id].files \subseteq Files
        BY <1>1, <2>1, Swapped
    <2> QED BY <2>1, <2>2, <2>3, SoundListed DEF Name
<1> QED BY <1>1, Inductive, PTL DEF Spec, AckMeansInPlace

-----------------------------------------------------------------------------
(* No way back.                                                            *)
Kept(n) ==
    \A x \in Ids : Shows(n, x) => \E y \in x .. MaxBegins : Shows(n, y)'

(* Folders that stay as they are keep showing what they show.              *)
LEMMA SameShown ==
    ASSUME NEW n \in Names, UNCHANGED save,
           \A s \in {"final", "old"} : disk'[n][s] = disk[n][s]
    PROVE  Kept(n)
<1>1. \A x \in Ids : x \in x .. MaxBegins
    BY TransferAssumption DEF Ids
<1>2. \A x \in Ids : Shows(n, x) => Shows(n, x)'
    BY DEF Shows, Listed, Image
<1> QED BY <1>1, <1>2 DEF Kept

(* A copy in place stays in sight while the one set aside is removed.      *)
LEMMA FinalShown ==
    ASSUME NEW n \in Names, UNCHANGED save, disk[n]["final"] # Gone,
           disk'[n]["final"] = disk[n]["final"]
    PROVE  Kept(n)
<1>1. \A x \in Ids : x \in x .. MaxBegins
    BY TransferAssumption DEF Ids
<1>2. \A x \in Ids : Shows(n, x) => Shows(n, x)'
    BY DEF Shows, Listed, Image
<1> QED BY <1>1, <1>2 DEF Kept

(* A new transfer has no copy yet, and no other is renamed.                *)
LEMMA BeginSendKept ==
    ASSUME SaveInv, NEW n \in Names, NEW m \in Names, NEW files \in (SUBSET Files) \ {{}},
           BeginSend(m, files)
    PROVE  Kept(n)
<1>1. TypeOK /\ Aged
    BY DEF SaveInv
<1>2. xferId \in Nat /\ xferId \in Ids /\ xferId' = xferId + 1 /\ xferId' \in Ids
    BY <1>1, TransferAssumption DEF BeginSend, TypeOK, Ids
<1>3. \A x \in Ids : x # xferId' => save'[x] = save[x]
    BY <1>1, <1>2 DEF BeginSend, TypeOK
<1>4. UNCHANGED disk
    BY DEF BeginSend
<1> SUFFICES ASSUME NEW x \in Ids, Shows(n, x)
             PROVE  \E y \in x .. MaxBegins : Shows(n, y)'
    BY DEF Kept
<1> DEFINE folder == disk[n][IF disk[n]["final"] # Gone THEN "final" ELSE "old"]
<1>5. folder \in Folders /\ NoNewer(folder, xferId) /\ Listed(x, folder)
    BY <1>1 DEF TypeOK, Aged, NothingNewer, Slots, Shows
<1>6. x <= xferId
    BY <1>1, <1>2, <1>5, ListedAge
<1>7. save'[x] = save[x] /\ x \in x .. MaxBegins
    BY <1>2, <1>3, <1>6, TransferAssumption DEF Ids
<1>8. Shows(n, x)'
    BY <1>4, <1>7 DEF Shows, Listed, Image
<1> QED BY <1>7, <1>8

(* The handlers of frames write staging folders only.                      *)
LEMMA StagingOnly ==
    ASSUME disk \in [Names -> [Slots -> Folders]], NEW m, NEW folder,
           Put(m, "incoming", folder)
    PROVE  \A n \in Names, s \in {"final", "old"} : disk'[n][s] = disk[n][s]
BY DEF Put, Slots

LEMMA HandlersKept ==
    ASSUME SaveInv, NEW n \in Names, NEW i \in DOMAIN todo,
           OnSaveBegin(i) \/ OnSaveFile(i) \/ OnSaveDone(i)
    PROVE  Kept(n)
<1>1. disk \in [Names -> [Slots -> Folders]]
    BY DEF SaveInv, TypeOK
<1>2. UNCHANGED save
    BY DEF OnSaveBegin, OnSaveFile, OnSaveDone, hostVars
<1>3. UNCHANGED disk \/ \E m, folder : Put(m, "incoming", folder)
    <2>1. CASE OnSaveBegin(i)
        BY <2>1 DEF OnSaveBegin
    <2>2. CASE OnSaveFile(i)
        BY <2>2 DEF OnSaveFile, Holds
    <2>3. CASE OnSaveDone(i)
        BY <2>3 DEF OnSaveDone
    <2> QED BY <2>1, <2>2, <2>3
<1>4. \A s \in {"final", "old"} : disk'[n][s] = disk[n][s]
    BY <1>1, <1>3, StagingOnly
<1> QED BY <1>2, <1>4, SameShown

(* The swap keeps a copy in sight at every step, unless it began without   *)
(* one in place.                                                           *)
LEMMA SweepsKept ==
    ASSUME SaveInv, NEW n \in Names, SweepOld \/ DropOld \/ Discard, n \notin orphaned'
    PROVE  Kept(n)
<1>1. Name \in Names /\ TypeOK /\ Swapping
    BY Swapped DEF SaveInv, SweepOld, DropOld, Discard
<1>2. UNCHANGED save /\ UNCHANGED orphaned
    BY DEF SweepOld, DropOld, Discard, hostVars
<1>3. "old" \in Slots /\ "incoming" \in Slots /\ "final" \in Slots
    BY DEF Slots
<1>4. CASE Discard
    <2>1. PICK kept \in SUBSET Files : Sweeps(Name, "incoming", kept)
        BY <1>4 DEF Discard
    <2>2. \A s \in {"final", "old"} : disk'[n][s] = disk[n][s]
        BY <1>1, <1>3, <2>1, Sweeping
    <2> QED BY <1>2, <2>2, SameShown
<1>5. CASE SweepOld \/ DropOld
    <2>1. PICK kept \in SUBSET Files : Sweeps(Name, "old", kept)
        BY <1>5 DEF SweepOld, DropOld
    <2>2. /\ \A m \in Names, t \in Slots :
                m # Name \/ t # "old" => disk'[m][t] = disk[m][t]
          /\ disk[Name]["old"] = Gone => disk'[Name]["old"] = Gone
        BY <1>1, <1>3, <2>1, Sweeping
    <2>3. CASE n # Name
        <3>1. \A s \in {"final", "old"} : disk'[n][s] = disk[n][s]
            BY <1>3, <2>2, <2>3
        <3> QED BY <1>2, <3>1, SameShown
    <2>4. CASE n = Name /\ disk[n]["final"] # Gone
        <3>1. disk'[n]["final"] = disk[n]["final"]
            BY <1>3, <2>2
        <3> QED BY <1>2, <2>4, <3>1, FinalShown
    <2>5. CASE n = Name /\ disk[n]["final"] = Gone
        <3>1. step = "sweep"
            <4>1. CASE DropOld
                <5>1. Sound(Name, recv.id, disk[Name]["final"])
                    BY <1>1, <4>1 DEF DropOld, Swapping
                <5>2. disk[Name]["final"] # Gone
                    <6>1. recv.id \in Ids /\ save[recv.id].files \subseteq Files
                        BY <4>1, Swapped DEF DropOld
                    <6> QED BY <5>1, <6>1, SoundListed
                <5> QED BY <2>5, <5>2
            <4> QED BY <1>5, <4>1 DEF SweepOld
        <3>2. disk[n]["old"] = Gone
            BY <1>1, <1>2, <2>5, <3>1 DEF Swapping
        <3>3. \A s \in {"final", "old"} : disk'[n][s] = disk[n][s]
            BY <1>3, <2>2, <2>5, <3>2
        <3> QED BY <1>2, <3>3, SameShown
    <2> QED BY <2>3, <2>4, <2>5
<1> QED BY <1>4, <1>5

LEMMA MovesKept ==
    ASSUME SaveInv, NEW n \in Names, SetAside \/ Promote \/ Restore
    PROVE  Kept(n)
<1>1. Name \in Names /\ TypeOK /\ Swapping /\ NothingNewer(disk, recv.id)
      /\ recv.id \in Ids /\ save[recv.id].files \subseteq Files
    BY Swapped DEF SaveInv, SetAside, Promote, Restore
<1>2. UNCHANGED <<save, recv>>
    BY DEF SetAside, Promote, Restore, hostVars
<1>3. "old" \in Slots /\ "incoming" \in Slots /\ "final" \in Slots
      /\ disk \in [Names -> [Slots -> Folders]]
    BY <1>1 DEF Slots, TypeOK
<1>4. \A x \in Ids : x \in x .. MaxBegins
    BY TransferAssumption DEF Ids
<1>5. CASE UNCHANGED disk
    <2>1. \A s \in {"final", "old"} : disk'[n][s] = disk[n][s]
        BY <1>5
    <2> QED BY <1>2, <2>1, SameShown
<1>6. ASSUME NEW from \in Slots, NEW to \in Slots, from # to, Move(Name, from, to),
             n # Name
      PROVE  Kept(n)
    <2>1. \A s \in {"final", "old"} : disk'[n][s] = disk[n][s]
        BY <1>1, <1>3, <1>6, MoveShape
    <2> QED BY <1>2, <2>1, SameShown
<1>7. \A x, folder : Listed(x, folder)' <=> Listed(x, folder)
    BY <1>2 DEF Listed, Image
<1>8. CASE SetAside /\ ~UNCHANGED disk
    <2>1. Move(Name, "final", "old") /\ disk[Name]["final"] # Gone
        BY <1>8 DEF SetAside
    <2>2. /\ disk'[Name]["old"] = disk[Name]["final"] /\ disk'[Name]["final"] = Gone
        <3>1. "final" # "old"
            OBVIOUS
        <3> QED BY ONLY <1>1, <1>3, <2>1, <3>1, MoveShape
    <2>3. CASE n = Name
        <3>1. \A x : Shows(n, x) => Shows(n, x)'
            BY <1>7, <2>1, <2>2, <2>3 DEF Shows
        <3> QED BY <1>4, <3>1 DEF Kept
    <2> QED BY <1>3, <1>6, <2>1, <2>3
<1>9. CASE Promote /\ ~UNCHANGED disk
    <2>1. Move(Name, "incoming", "final")
        BY <1>9 DEF Promote
    <2>2. disk'[Name]["final"] = disk[Name]["incoming"]
        BY <1>1, <1>3, <2>1, MoveShape
    <2>3. disk[Name]["final"] = Gone /\ Sound(Name, recv.id, disk[Name]["incoming"])
        BY <1>1, <1>9 DEF Promote, Swapping
    <2>4. Listed(recv.id, disk[Name]["incoming"]) /\ disk[Name]["incoming"] # Gone
        BY <1>1, <2>3, SoundListed
    <2>5. CASE n = Name
        <3> SUFFICES ASSUME NEW x \in Ids, Shows(n, x)
                     PROVE  \E y \in x .. MaxBegins : Shows(n, y)'
            BY DEF Kept
        <3>1. Listed(x, disk[n]["old"]) /\ NoNewer(disk[n]["old"], recv.id)
              /\ disk[n]["old"] \in Folders
            BY <1>1, <1>3, <2>3, <2>5 DEF Shows, NothingNewer
        <3>2. x <= recv.id
            BY <1>1, <3>1, ListedAge
        <3>3. recv.id \in x .. MaxBegins
            BY <1>1, <3>2, TransferAssumption DEF Ids
        <3>4. Shows(n, recv.id)'
            BY <1>2, <1>7, <2>2, <2>4, <2>5 DEF Shows
        <3>5. \A y : y = recv.id /\ Shows(n, recv.id)' => Shows(n, y)'
            BY <1>2 DEF Shows
        <3> QED BY <3>3, <3>4, <3>5
    <2> QED BY <1>3, <1>6, <2>1, <2>5
<1>10. CASE Restore /\ ~UNCHANGED disk
    <2>1. Move(Name, "old", "final")
        BY <1>10 DEF Restore
    <2>2. disk'[Name]["final"] = disk[Name]["old"]
        BY <1>1, <1>3, <2>1, MoveShape
    <2>3. disk[Name]["final"] = Gone
        BY <1>1, <1>10 DEF Restore, Swapping
    <2>4. CASE n = Name
        <3>1. \A x : Shows(n, x) => Shows(n, x)'
            BY <1>7, <2>2, <2>3, <2>4 DEF Shows, Listed
        <3> QED BY <1>4, <3>1 DEF Kept
    <2> QED BY <1>3, <1>6, <2>1, <2>4
<1> QED BY <1>5, <1>8, <1>9, <1>10

(* No operation of a commit leaves a player with an older copy of a save,  *)
(* or with none, unless the commit began without a copy in place.          *)
THEOREM SaveNeverBack == Spec => NeverBack
<1>1. ASSUME SaveInv, [Next]_vars, NEW n \in Names, n \notin orphaned'
      PROVE  Kept(n)
    <2>1. ASSUME NEW m \in Names, NEW files \in (SUBSET Files) \ {{}}, BeginSend(m, files)
          PROVE  Kept(n)
        BY <1>1, <2>1, BeginSendKept
    <2>2. ASSUME UNCHANGED <<save, disk>> PROVE Kept(n)
        <3>1. \A s \in {"final", "old"} : disk'[n][s] = disk[n][s]
            BY <2>2
        <3> QED BY <2>2, <3>1, SameShown
    <2>3. CASE SendChunk \/ Abort \/ Pump \/ Drop \/ Reconnect \/ Crash \/ Acknowledge
               \/ UNCHANGED vars
        <3>1. UNCHANGED <<save, disk>>
            BY <2>3 DEF SendChunk, Abort, Pump, Drop, Reconnect, Crash, Acknowledge,
               vars, hostVars
        <3> QED BY <2>2, <3>1
    <2>4. ASSUME NEW i \in DOMAIN todo, OnSaveBegin(i) \/ OnSaveFile(i) \/ OnSaveDone(i)
          PROVE  Kept(n)
        BY <1>1, <2>4, HandlersKept
    <2>5. CASE SweepOld \/ DropOld \/ Discard
        BY <1>1, <2>5, SweepsKept
    <2>6. CASE SetAside \/ Promote \/ Restore
        BY <1>1, <2>6, MovesKept
    <2> QED BY <1>1, <2>1, <2>3, <2>4, <2>5, <2>6 DEF Next, HostNext, JoinNext
<1>2. ASSUME SaveInv, [Next]_vars
      PROVE  \A n \in Names : n \notin orphaned' =>
                \A x \in Ids : Shows(n, x) => \E y \in x .. MaxBegins : Shows(n, y)'
    BY <1>1, <1>2 DEF Kept
<1> QED BY <1>2, Inductive, PTL DEF Spec, NeverBack
=============================================================================

------------------------ MODULE UpdatePackageProofs ------------------------
(***************************************************************************)
(* What TLAPS proves of UpdatePackage for any number of images, deaths of  *)
(* the process and refused file operations: a session runs one version,    *)
(* nothing that is needed is lost, and the transaction implements          *)
(* AtomicPackage.                                                          *)
(*                                                                         *)
(* None of these is inductive.  They rest on where the images are at every *)
(* step of the transaction, and on what the journal and the marker say of  *)
(* it to a later launch (FilesInv, StepInv), and on what a session may     *)
(* still load (SessionInv).                                                *)
(***************************************************************************)
EXTENDS UpdatePackage, TLAPS

(* The steps of the transaction, by what they need.                        *)
StageSteps == {"stage", "staging", "journal", "journaling"}
SwapSteps == {"backup", "promote", "verify", "mark", "marking"}
UnstageSteps == {"stageJournal", "unstage"}
InstallSteps == StageSteps \union SwapSteps \union UnstageSteps
RollSteps == {"roll", "restore"}
RolledSteps == {"sweep", "sweepQ", "rollMarker", "rollJournal"}
FinishSteps == {"finish", "finishJournal", "finishMarker"}
LoopSteps == {"stage", "staging", "backup", "promote", "roll", "restore",
              "finish", "sweep", "sweepQ", "unstage"}

(* Where the images are: a backup is an old image, without a journal the   *)
(* package is whole, and until the marker is valid no old image is gone.   *)
FilesInv ==
    /\ \A i \in Images : disk["old"][i] \in {"none", Version("old", i)}
    /\ journal = "none" => Whole("old") \/ Whole("new")
    /\ journal = "torn" => Whole("old")
    /\ journal = "valid" /\ marker # "valid" =>
         \A i \in Images : Version("old", i) \in {disk["live"][i], disk["old"][i]}

(* Who has run the new version has it for good.                            *)
RanInv == ran => journal = "none" /\ Whole("new")

StepInv ==
    /\ step \in StageSteps \union UnstageSteps \union RolledSteps => Whole("old")
    /\ step \in FinishSteps => Whole("new") /\ mode = "startup"
    /\ step = "backup" => \A i \in at..N : Restored(i)
    /\ step \in RollSteps /\ ok => \A i \in (at + 1)..N : Restored(i)
    /\ step = "restore" => HasBackup(at)
    /\ step \in SwapSteps \union RollSteps \union RolledSteps => journal = "valid"
    /\ step \in {"finish", "finishJournal"} => journal = "valid" /\ marker = "valid"
    /\ step = "finishMarker" => journal = "none"
    /\ step \in InstallSteps => mode = "install" /\ marker # "valid"
    /\ step = "decide" => mode = "startup"
    /\ mode \in {"off", "up", "blocked"} => step = "idle"
    /\ step \in LoopSteps => at \in Images

(* What a session has loaded and may still load.                           *)
SessionInv ==
    /\ mode = "off" => \A i \in Images : loaded[i] = "none"
    /\ mode = "startup" => \A i \in Images \ {Core} : loaded[i] = "none"
    /\ mode = "install" => restartOnly /\ session = "old"
    /\ mode = "up" => session # "none"
    /\ mode = "up" /\ ~restartOnly => Whole(session)
    /\ OneVersion

-----------------------------------------------------------------------------
(* Types, by groups.                                                       *)
DiskType == [Slots -> [Images -> Hashes]]
FileTypes ==
    /\ disk \in DiskType /\ mapped \subseteq Slots \X Images
    /\ journal \in {"none", "torn", "valid"} /\ marker \in {"none", "torn", "valid"}
StepTypes ==
    /\ mode \in {"off", "startup", "up", "install", "blocked"}
    /\ step \in {"idle", "decide"} \union InstallSteps \union RollSteps
              \union RolledSteps \union FinishSteps
    /\ at \in 0..N /\ ok \in BOOLEAN
ProcessTypes ==
    /\ loaded \in [Images -> Hashes]
    /\ uiSettled \in BOOLEAN /\ restartOnly \in BOOLEAN /\ tried \in BOOLEAN
    /\ session \in {"none", "old", "new"} /\ ran \in BOOLEAN
BoundTypes == crashes \in 0..MaxCrashes /\ faults \in 0..MaxFaults

UpdateInv == /\ FileTypes /\ StepTypes /\ ProcessTypes /\ BoundTypes
             /\ FilesInv /\ RanInv /\ StepInv /\ SessionInv

LEMMA DoomedFacts ==
    /\ DOMAIN Doomed = {"finish", "sweep", "sweepQ", "unstage"}
    /\ Doomed["finish"] = <<"old", "new">> /\ Doomed["sweep"] = <<"new", "old">>
    /\ Doomed["sweepQ"] = <<"quarantine", "quarantine">>
    /\ Doomed["unstage"] = <<"new", "new">>
BY DEF Doomed

LEMMA Types == TypeOK <=> FileTypes /\ StepTypes /\ ProcessTypes /\ BoundTypes
<1>1. {"idle", "decide", "finishJournal", "finishMarker", "rollMarker",
       "rollJournal", "stageJournal", "roll", "restore", "stage",
       "staging", "journal", "journaling", "backup", "promote",
       "verify", "mark", "marking"} \union DOMAIN Doomed
      = {"idle", "decide"} \union InstallSteps \union RollSteps
              \union RolledSteps \union FinishSteps
  BY DoomedFacts DEF InstallSteps, StageSteps, SwapSteps, UnstageSteps, RollSteps,
     RolledSteps, FinishSteps
<1> QED BY <1>1, Zenon DEF TypeOK, FileTypes, StepTypes, ProcessTypes, BoundTypes, DiskType

LEMMA ImageFacts ==
    /\ N \in Nat /\ N >= 2 /\ Core \in Images /\ 1 \in Images /\ N \in Images
    /\ Ui \in Images /\ Core # Ui
    /\ \A i \in Images : i \in Nat /\ i >= 1 /\ i =< N /\ i \in 0..N
BY UpdateAssumption DEF Core, Ui, Images

LEMMA Versions ==
    /\ \A i \in Images : Version("old", i) = "old" /\ Version("old", i) # "none"
    /\ \A i \in Images : Version("new", i) \in {"old", "new"}
    /\ ~(Whole("old") /\ Whole("new"))
<1>1. PICK i \in Images : i \notin Same
  BY UpdateAssumption
<1>2. Version("old", i) = "old" /\ Version("new", i) = "new"
  BY <1>1 DEF Version
<1>3. ~(Whole("old") /\ Whole("new"))
  BY <1>2 DEF Whole
<1> QED BY <1>3 DEF Version

LEMMA WholeKept ==
    ASSUME \A i \in Images : disk'["live"][i] = disk["live"][i]
    PROVE  (Whole("old")' <=> Whole("old")) /\ (Whole("new")' <=> Whole("new"))
BY DEF Whole, Version

LEMMA MoveFacts ==
    ASSUME FileTypes, NEW s \in Slots, NEW t \in Slots, s # t,
           NEW i \in Images, Move(s, t, i)
    PROVE  /\ disk' \in DiskType /\ mapped' \subseteq Slots \X Images
           /\ disk[t][i] = "none"
           /\ disk'[t][i] = disk[s][i] /\ disk'[s][i] = "none"
           /\ \A u \in Slots, j \in Images :
                j # i \/ u \notin {s, t} => disk'[u][j] = disk[u][j]
<1>1. disk' = [disk EXCEPT ![s][i] = "none", ![t][i] = disk[s][i]]
  BY DEF Move
<1>2. disk[s][i] \in Hashes /\ "none" \in Hashes
  BY DEF FileTypes, DiskType, Hashes
<1>3. disk' \in DiskType
  BY <1>1, <1>2 DEF FileTypes, DiskType
<1>4. mapped' \subseteq Slots \X Images
  BY DEF Move, FileTypes
<1>5. disk'[t][i] = disk[s][i] /\ disk'[s][i] = "none"
  BY <1>1 DEF FileTypes, DiskType
<1>6. \A u \in Slots, j \in Images :
         j # i \/ u \notin {s, t} => disk'[u][j] = disk[u][j]
  BY <1>1 DEF FileTypes, DiskType
<1> QED BY <1>3, <1>4, <1>5, <1>6 DEF Move

LEMMA SetFacts ==
    ASSUME FileTypes, NEW s \in Slots, NEW i \in Images, NEW h \in Hashes,
           disk' = [disk EXCEPT ![s][i] = h]
    PROVE  /\ disk' \in DiskType /\ disk'[s][i] = h
           /\ \A u \in Slots, j \in Images :
                j # i \/ u # s => disk'[u][j] = disk[u][j]
BY DEF FileTypes, DiskType

-----------------------------------------------------------------------------
(* What the outcomes of a transaction leave of a session.                  *)
LEMMA InstalledFacts ==
    /\ Installed \in {"old", "new"}
    /\ Installed = "new" <=> Whole("new") /\ (journal = "none" \/ marker = "valid")
BY DEF Installed

LEMMA BlockedSession ==
    ASSUME SessionInv, ProcessTypes, Blocked
    PROVE  SessionInv' /\ ProcessTypes'
BY DEF SessionInv, Blocked, process, ProcessTypes, OneVersion

LEMMA FailedSession ==
    ASSUME SessionInv, ProcessTypes, mode = "install", InstallFailed,
           Whole("old")' \/ Pending'
    PROVE  SessionInv' /\ ProcessTypes'
<1>1. mode' = "up" /\ session' = "old" /\ session = "old" /\ loaded' = loaded
  BY DEF InstallFailed, SessionInv
<1>2. ProcessTypes'
  <2>1. restartOnly' \in BOOLEAN
    BY DEF InstallFailed, Pending
  <2> QED BY <2>1 DEF ProcessTypes, InstallFailed
<1>3. ~restartOnly' => Whole("old")'
  BY Zenon DEF InstallFailed
<1>4. OneVersion'
  BY <1>1 DEF SessionInv, OneVersion, Version
<1> QED BY <1>1, <1>2, <1>3, <1>4 DEF SessionInv, Whole

LEMMA UpSession ==
    ASSUME SessionInv, ProcessTypes, mode = "startup", Up,
           disk' \in DiskType, loaded[Core] = disk'["live"][Core],
           Whole("old")' \/ (Whole("new")' /\ journal' = "none")
    PROVE  /\ SessionInv' /\ ProcessTypes'
           /\ ran' => ran \/ (Whole("new")' /\ journal' = "none")
<1>1. session' \in {"old", "new"} /\ mode' = "up"
  BY DEF Up, Installed
<1>2. Whole(session)'
  <2>1. CASE Whole("old")'
    <3>1. ~Whole("new")'
      BY <2>1, UpdateAssumption DEF Whole, Version
    <3>2. session' = "old"
      BY <3>1 DEF Up, Installed
    <3> QED BY <2>1, <3>2 DEF Whole
  <2>2. CASE Whole("new")' /\ journal' = "none"
    <3>1. session' = "new"
      BY <2>2 DEF Up, Installed
    <3> QED BY <2>2, <3>1 DEF Whole
  <2> QED BY <2>1, <2>2
<1>3. ProcessTypes'
  <2>1. ran' \in BOOLEAN
    BY DEF Up, ProcessTypes
  <2> QED BY <1>1, <2>1 DEF ProcessTypes, Up
<1>4. OneVersion'
  <2>1. loaded' = loaded
    BY DEF Up
  <2>2. \A i \in Images \ {Core} : loaded[i] = "none"
    BY DEF SessionInv
  <2>3. loaded[Core] = Version(session', Core)
    BY <1>2, ImageFacts DEF Whole, Version
  <2> QED BY <2>1, <2>2, <2>3 DEF OneVersion, Version
<1>5. ran' => ran \/ (Whole("new")' /\ journal' = "none")
  <2>1. Installed' = "new" => Whole("new")'
    BY DEF Installed
  <2>2. Whole("new")' => ~Whole("old")'
    BY UpdateAssumption DEF Whole, Version
  <2>3. Installed' = "new" => Whole("new")' /\ journal' = "none"
    BY <2>1, <2>2
  <2>4. ran' = (ran \/ Installed' = "new")
    BY DEF Up
  <2> QED BY <2>3, <2>4, Zenon
<1> QED BY <1>1, <1>2, <1>3, <1>4, <1>5 DEF SessionInv

LEMMA ReturnSession ==
    ASSUME SessionInv, ProcessTypes, mode \in {"startup", "install"},
           NEW r \in BOOLEAN, Return(r), disk' \in DiskType,
           r /\ mode = "startup" =>
               Whole("old")' \/ (Whole("new")' /\ journal' = "none"),
           mode = "install" => Whole("old")' \/ Pending'
    PROVE  /\ SessionInv' /\ ProcessTypes'
           /\ ran' => ran \/ (Whole("new")' /\ journal' = "none")
           /\ mode' \in {"up", "blocked"} /\ step' = "idle" /\ at' = 0
<1>1. CASE mode = "install"
  <2>1. InstallFailed
    BY <1>1 DEF Return
  <2> QED BY <1>1, <2>1, FailedSession DEF InstallFailed
<1>2. CASE Blocked
  <2>1. SessionInv' /\ ProcessTypes'
    BY <1>2, BlockedSession
  <2> QED BY <1>2, <2>1 DEF Blocked, process
<1>3. CASE mode = "startup" /\ r /\ loaded[Core] = disk'["live"][Core] /\ Up
  <2>1. Whole("old")' \/ (Whole("new")' /\ journal' = "none")
    BY <1>3
  <2> QED BY <1>3, <2>1, UpSession DEF Up
<1> QED BY <1>1, <1>2, <1>3 DEF Return, StartupDone

(* A step inside of the transaction leaves the session as it was.          *)
LEMMA QuietSession ==
    ASSUME SessionInv, ProcessTypes, mode \in {"startup", "install"},
           mode' = mode, UNCHANGED process
    PROVE  SessionInv' /\ ProcessTypes'
BY DEF SessionInv, process, ProcessTypes, OneVersion

-----------------------------------------------------------------------------
(* The process and the loaders.                                            *)
LEMMA BoundsKept ==
    ASSUME BoundTypes, Fault \/ NoFault
    PROVE  BoundTypes'
BY UpdateAssumption DEF BoundTypes, Fault, NoFault, bounds

LEMMA LaunchKeeps == ASSUME UpdateInv, Launch PROVE UpdateInv'
<1>1. disk' = disk /\ journal' = journal /\ marker' = marker /\ ran' = ran
  BY DEF Launch
<1>2. mode' = "startup" /\ step' = "decide" /\ at' = 0 /\ ok' = TRUE
  BY DEF Launch
<1>3. FileTypes' /\ BoundTypes'
  BY <1>1, ImageFacts DEF Launch, UpdateInv, FileTypes, DiskType, BoundTypes, bounds, Slots
<1>4. StepTypes'
  BY <1>2, ImageFacts DEF StepTypes
<1>5. disk["live"][Core] \in Hashes
  BY ImageFacts DEF UpdateInv, FileTypes, DiskType, Slots
<1>6. ProcessTypes'
  BY <1>5 DEF Launch, UpdateInv, ProcessTypes
<1>7. FilesInv' /\ RanInv'
  BY <1>1 DEF UpdateInv, FilesInv, RanInv, Whole, Version
<1>8. StepInv'
  BY <1>2 DEF StepInv, StageSteps, UnstageSteps, RolledSteps, FinishSteps, RollSteps,
     SwapSteps, InstallSteps, LoopSteps
<1>9. SessionInv'
  BY <1>2 DEF Launch, UpdateInv, SessionInv, ProcessTypes, OneVersion
<1> QED BY <1>3, <1>4, <1>6, <1>7, <1>8, <1>9 DEF UpdateInv

LEMMA GoneKeeps == ASSUME UpdateInv, Gone, BoundTypes' PROVE UpdateInv'
<1>1. mode' = "off" /\ step' = "idle" /\ at' = 0 /\ ok' = TRUE
  BY DEF Gone
<1>2. FileTypes' /\ StepTypes'
  BY <1>1, ImageFacts DEF Gone, UpdateInv, FileTypes, StepTypes
<1>3. ProcessTypes'
  BY DEF Gone, UpdateInv, ProcessTypes, Hashes
<1>4. FilesInv' /\ RanInv'
  BY DEF Gone, UpdateInv, FilesInv, RanInv, Whole, Version
<1>5. StepInv'
  BY <1>1 DEF StepInv, StageSteps, UnstageSteps, RolledSteps, FinishSteps, RollSteps,
     SwapSteps, InstallSteps, LoopSteps
<1>6. SessionInv'
  BY <1>1 DEF Gone, SessionInv, OneVersion
<1> QED BY <1>2, <1>3, <1>4, <1>5, <1>6 DEF UpdateInv

LEMMA ExitKeeps == ASSUME UpdateInv, Exit PROVE UpdateInv'
<1>1. BoundTypes'
  BY DEF Exit, UpdateInv, BoundTypes, bounds
<1> QED BY <1>1, GoneKeeps DEF Exit

LEMMA CrashKeeps == ASSUME UpdateInv, Crash PROVE UpdateInv'
<1>1. BoundTypes'
  BY UpdateAssumption DEF Crash, UpdateInv, BoundTypes
<1> QED BY <1>1, GoneKeeps DEF Crash

(* Until the updater has begun, what a loader finds is of the session.     *)
LEMMA LoadKeeps ==
    ASSUME UpdateInv, mode = "up", NEW i \in Images,
           LoadGuarded(i) \/ UNCHANGED <<loaded, mapped>>,
           UNCHANGED <<disk, journal, marker, control, restartOnly, session, ran, bounds>>,
           uiSettled' \in BOOLEAN, tried' \in BOOLEAN
    PROVE  UpdateInv'
<1>1. FileTypes'
  BY DEF LoadGuarded, UpdateInv, FileTypes, Slots
<1>2. StepTypes' /\ BoundTypes'
  BY DEF UpdateInv, StepTypes, BoundTypes, control, bounds
<1>3. disk["live"][i] \in Hashes
  BY DEF UpdateInv, FileTypes, DiskType, Slots
<1>4. \/ loaded' = loaded
      \/ ~restartOnly /\ loaded' = [loaded EXCEPT ![i] = disk["live"][i]]
  BY DEF LoadGuarded
<1>5. ProcessTypes'
  BY <1>3, <1>4 DEF UpdateInv, ProcessTypes
<1>6. FilesInv' /\ RanInv'
  BY DEF UpdateInv, FilesInv, RanInv, Whole, Version
<1>7. StepInv'
  BY DEF UpdateInv, StepInv, control, Whole, Version, Restored, HasBackup
<1>8. OneVersion'
  <2>1. mode' = mode /\ session' = session
    BY DEF control
  <2>2. ~restartOnly => disk["live"][i] = Version(session, i)
    BY DEF UpdateInv, SessionInv, Whole
  <2>3. \A j \in Images : loaded[j] \in {"none", Version(session, j)}
    BY DEF UpdateInv, SessionInv, OneVersion
  <2>4. \A j \in Images : loaded'[j] \in {"none", Version(session, j)}
    BY <1>4, <2>2, <2>3 DEF UpdateInv, ProcessTypes
  <2> QED BY <2>1, <2>4 DEF OneVersion, Version
<1>9. SessionInv'
  BY <1>8 DEF UpdateInv, SessionInv, control, Whole, Version
<1> QED BY <1>1, <1>2, <1>5, <1>6, <1>7, <1>9 DEF UpdateInv

LEMMA SettleUiKeeps == ASSUME UpdateInv, SettleUi PROVE UpdateInv'
BY LoadKeeps, ImageFacts DEF SettleUi, UpdateInv, ProcessTypes

LEMMA LoadProviderKeeps ==
    ASSUME UpdateInv, NEW i \in Images, LoadProvider(i) PROVE UpdateInv'
BY LoadKeeps DEF LoadProvider, UpdateInv, ProcessTypes

-----------------------------------------------------------------------------
(* Steps of the transaction.  What follows a step that leaves the files or *)
(* keeps the parts below is the same for all of them.                      *)
LEMMA IdleStep ==
    ASSUME step' = "idle", at' = 0, ok' \in BOOLEAN, mode' \in {"up", "blocked"}
    PROVE  StepTypes' /\ StepInv'
<1>1. StepTypes'
  BY ImageFacts DEF StepTypes
<1> QED BY <1>1 DEF StepInv, StageSteps, UnstageSteps, RolledSteps, FinishSteps,
           RollSteps, SwapSteps, InstallSteps, LoopSteps

LEMMA SameFiles ==
    ASSUME FileTypes, FilesInv, UNCHANGED files
    PROVE  /\ FileTypes' /\ FilesInv' /\ disk' \in DiskType
           /\ (Whole("old")' <=> Whole("old")) /\ (Whole("new")' <=> Whole("new"))
           /\ journal' = journal /\ marker' = marker
BY DEF files, FileTypes, FilesInv, Whole, Version

LEMMA StepModes ==
    ASSUME StepTypes, StepInv, step # "idle"
    PROVE  mode \in {"startup", "install"}
BY DEF StepTypes, StepInv

(* Once a session has run the new version only a finished commit can be    *)
(* under way.                                                              *)
LEMMA NotRan ==
    ASSUME UpdateInv, journal # "none" \/ Whole("old")
    PROVE  ~ran
BY Versions DEF UpdateInv, RanInv

LEMMA RecoverNothingKeeps == ASSUME UpdateInv, RecoverNothing PROVE UpdateInv'
<1>1. disk' = disk /\ journal = "none" /\ journal' = "none" /\ mapped' = mapped
      /\ ok' = ok /\ mode = "startup" /\ marker' \in {marker, "none"}
  BY DEF RecoverNothing
<1>2. FileTypes' /\ BoundTypes'
  BY <1>1, BoundsKept DEF UpdateInv, FileTypes, RecoverNothing, NoFault
<1>3. Whole("old")' \/ Whole("new")'
  BY <1>1, WholeKept DEF UpdateInv, FilesInv
<1>4. FilesInv'
  BY <1>1, <1>3 DEF UpdateInv, FilesInv, Version
<1>5. Blocked \/ StartupDone
  BY DEF RecoverNothing
<1>6. Return(TRUE) \/ Return(FALSE)
  BY <1>1, <1>5 DEF Return
<1>7. /\ SessionInv' /\ ProcessTypes'
      /\ ran' => ran \/ (Whole("new")' /\ journal' = "none")
      /\ mode' \in {"up", "blocked"} /\ step' = "idle" /\ at' = 0
  <2>1. disk' \in DiskType
    BY <1>2 DEF FileTypes
  <2>2. SessionInv /\ ProcessTypes
    BY DEF UpdateInv
  <2>3. CASE Return(TRUE)
    BY <1>1, <1>3, <2>1, <2>2, <2>3, ReturnSession
  <2>4. CASE Return(FALSE)
    BY <1>1, <1>3, <2>1, <2>2, <2>4, ReturnSession
  <2> QED BY <1>6, <2>3, <2>4
<1>8. RanInv'
  BY <1>1, <1>7, WholeKept DEF UpdateInv, RanInv
<1>9. StepTypes' /\ StepInv'
  BY <1>1, <1>7, IdleStep DEF UpdateInv, StepTypes
<1> QED BY <1>2, <1>4, <1>7, <1>8, <1>9 DEF UpdateInv

LEMMA RecoverJournalKeeps == ASSUME UpdateInv, RecoverJournal PROVE UpdateInv'
<1>1. UNCHANGED <<files, ok>> /\ mode = "startup" /\ step = "decide" /\ journal # "none"
  BY DEF RecoverJournal
<1>2. SessionInv /\ ProcessTypes /\ ~ran
  BY <1>1, NotRan DEF UpdateInv
<1>3. BoundTypes'
  BY BoundsKept DEF RecoverJournal, UpdateInv
<1>4. FileTypes' /\ FilesInv'
  BY <1>1, SameFiles DEF UpdateInv
<1>5. CASE Blocked
  <2>1. SessionInv' /\ ProcessTypes'
    BY <1>2, <1>5, BlockedSession
  <2>2. RanInv'
    BY <1>2, <1>5 DEF Blocked, process, RanInv
  <2>3. StepTypes' /\ StepInv'
    BY <1>1, <1>5, IdleStep DEF Blocked, UpdateInv, StepTypes
  <2> QED BY <1>3, <1>4, <2>1, <2>2, <2>3 DEF UpdateInv
<1>6. CASE /\ journal = "valid" /\ UNCHANGED process
           /\ \/ Goto("finish", 1) /\ Whole("new") /\ marker = "valid"
              \/ Goto("roll", N)
  <2>1. SessionInv' /\ ProcessTypes' /\ RanInv'
    BY <1>1, <1>2, <1>6, QuietSession DEF Goto, process, RanInv
  <2>2. journal' = "valid" /\ marker' = marker /\ (Whole("new") => Whole("new")')
    BY <1>1, <1>6, SameFiles DEF UpdateInv
  <2>3. StepTypes'
    BY <1>1, <1>6, ImageFacts DEF Goto, UpdateInv, StepTypes, FinishSteps, RollSteps
  <2>4. StepInv'
    BY <1>1, <1>6, <2>2, ImageFacts DEF Goto, StepInv, StageSteps, UnstageSteps,
       RolledSteps, FinishSteps, RollSteps, SwapSteps, InstallSteps, LoopSteps
  <2> QED BY <1>3, <1>4, <2>1, <2>3, <2>4 DEF UpdateInv
<1>7. journal \in {"torn", "valid"}
  BY <1>1 DEF UpdateInv, FileTypes
<1> QED BY <1>5, <1>6, <1>7 DEF RecoverJournal

-----------------------------------------------------------------------------
(* The loops that remove files.                                            *)
LEMMA SweepSteps ==
    ASSUME UpdateInv, step \in DOMAIN Doomed
    PROVE  /\ step \in {"finish", "sweep", "sweepQ", "unstage"}
           /\ mode \in {"startup", "install"} /\ at \in Images
           /\ Victim \in Slots \ {"live"}
           /\ Victim = "old" => step \in {"finish", "sweep"}
           /\ step = "finish" => Whole("new") /\ mode = "startup"
                                 /\ journal = "valid" /\ marker = "valid"
           /\ step # "finish" => Whole("old")
           /\ step \in {"sweep", "sweepQ"} => journal = "valid"
           /\ step = "unstage" => mode = "install" /\ marker # "valid"
           /\ ~ran
<1>1. step \in {"finish", "sweep", "sweepQ", "unstage"}
  BY DoomedFacts
<1>2. mode \in {"startup", "install"} /\ at \in Images
  BY <1>1, StepModes DEF UpdateInv, StepInv, LoopSteps
<1>3. Victim \in Slots \ {"live"} /\ (Victim = "old" => step \in {"finish", "sweep"})
  BY <1>1, DoomedFacts DEF Victim, Slots
<1>4. step = "finish" => Whole("new") /\ mode = "startup"
                        /\ journal = "valid" /\ marker = "valid"
  BY DEF UpdateInv, StepInv, FinishSteps
<1>5. step # "finish" => Whole("old")
  BY <1>1 DEF UpdateInv, StepInv, RolledSteps, UnstageSteps
<1>6. step \in {"sweep", "sweepQ"} => journal = "valid"
  BY DEF UpdateInv, StepInv, RolledSteps
<1>7. step = "unstage" => mode = "install" /\ marker # "valid"
  BY DEF UpdateInv, StepInv, InstallSteps, UnstageSteps
<1>8. ~ran
  BY <1>4, <1>5, NotRan
<1> QED BY <1>1, <1>2, <1>3, <1>4, <1>5, <1>6, <1>7, <1>8

LEMMA SweepOnKeeps ==
    ASSUME UpdateInv, step \in DOMAIN Doomed, UNCHANGED files, ok' \in BOOLEAN,
           SweepOn, BoundTypes'
    PROVE  UpdateInv'
<1>1. /\ step \in {"finish", "sweep", "sweepQ", "unstage"}
      /\ mode \in {"startup", "install"} /\ at \in Images /\ ~ran
      /\ step = "finish" => Whole("new") /\ mode = "startup"
                            /\ journal = "valid" /\ marker = "valid"
      /\ step # "finish" => Whole("old")
      /\ step \in {"sweep", "sweepQ"} => journal = "valid"
      /\ step = "unstage" => mode = "install" /\ marker # "valid"
  BY SweepSteps
<1>2. /\ FileTypes' /\ FilesInv' /\ disk' \in DiskType
      /\ (Whole("old")' <=> Whole("old")) /\ (Whole("new")' <=> Whole("new"))
      /\ journal' = journal /\ marker' = marker
  BY SameFiles DEF UpdateInv
<1>3. SessionInv /\ ProcessTypes
  BY DEF UpdateInv
<1>4. CASE /\ UNCHANGED process
           /\ \/ Goto(step, at + 1) /\ at < N
              \/ step = "finish" /\ Goto("finishJournal", 0)
              \/ step = "sweep" /\ Goto("sweepQ", 1)
              \/ step = "sweepQ" /\ Goto("rollMarker", 0)
  <2>1. SessionInv' /\ ProcessTypes'
    BY <1>1, <1>3, <1>4, QuietSession DEF Goto
  <2>2. RanInv'
    BY <1>1, <1>4 DEF process, RanInv
  <2>3. StepTypes'
    BY <1>1, <1>4, ImageFacts DEF Goto, UpdateInv, StepTypes, FinishSteps, RolledSteps,
       UnstageSteps, InstallSteps
  <2>4. at < N => at + 1 \in Images
    BY <1>1, ImageFacts DEF Images
  <2>5. StepInv'
    BY <1>1, <1>2, <1>4, <2>4, ImageFacts DEF Goto, StepInv, StageSteps, UnstageSteps,
       RolledSteps, FinishSteps, RollSteps, SwapSteps, InstallSteps, LoopSteps
  <2> QED BY <1>2, <2>1, <2>2, <2>3, <2>5 DEF UpdateInv
<1>5. ASSUME NEW r \in BOOLEAN, Return(r), step \in {"unstage", "sweepQ"}
      PROVE  UpdateInv'
  <2>1. /\ SessionInv' /\ ProcessTypes'
        /\ ran' => ran \/ (Whole("new")' /\ journal' = "none")
        /\ mode' \in {"up", "blocked"} /\ step' = "idle" /\ at' = 0
    BY <1>1, <1>2, <1>3, <1>5, ReturnSession
  <2>2. RanInv'
    BY <1>1, <2>1 DEF RanInv
  <2>3. StepTypes' /\ StepInv'
    BY <2>1, IdleStep
  <2> QED BY <1>2, <2>1, <2>2, <2>3 DEF UpdateInv
<1>6. CASE at < N
  BY <1>4, <1>6 DEF SweepOn
<1>7. CASE ~(at < N) /\ step = "finish"
  BY <1>4, <1>7 DEF SweepOn, AfterSweep
<1>8. CASE ~(at < N) /\ step = "sweep"
  BY <1>4, <1>8 DEF SweepOn, AfterSweep
<1>9. CASE ~(at < N) /\ step = "unstage"
  BY <1>5, <1>9 DEF SweepOn, AfterSweep
<1>10. CASE ~(at < N) /\ step = "sweepQ"
  <2>1. \/ Goto("rollMarker", 0) /\ UNCHANGED process
        \/ Return(TRUE)
    BY <1>10 DEF SweepOn, AfterSweep
  <2> QED BY <1>4, <1>5, <1>10, <2>1
<1> QED BY <1>1, <1>6, <1>7, <1>8, <1>9, <1>10

LEMMA SweepNextKeeps == ASSUME UpdateInv, SweepNext PROVE UpdateInv'
<1>1. BoundTypes'
  BY BoundsKept DEF SweepNext, UpdateInv
<1>2. ok' \in BOOLEAN
  BY DEF SweepNext, UpdateInv, StepTypes
<1> QED BY <1>1, <1>2, SweepOnKeeps DEF SweepNext

LEMMA SweepRefusedKeeps == ASSUME UpdateInv, SweepRefused PROVE UpdateInv'
<1>1. /\ step \in DOMAIN Doomed /\ UNCHANGED files
  BY DEF SweepRefused
<1>2. BoundTypes'
  BY BoundsKept DEF SweepRefused, Refused, UpdateInv
<1>3. ok' \in BOOLEAN
  BY DEF SweepRefused, UpdateInv, StepTypes
<1>4. CASE SweepOn
  BY <1>1, <1>2, <1>3, <1>4, SweepOnKeeps
<1>5. CASE \/ step = "finish" /\ Blocked
           \/ step = "sweep" /\ Return(FALSE)
  <2>1. /\ mode \in {"startup", "install"} /\ ~ran
        /\ step = "finish" => mode = "startup"
        /\ step = "sweep" => Whole("old")
    BY <1>1, SweepSteps
  <2>2. /\ FileTypes' /\ FilesInv' /\ disk' \in DiskType
        /\ (Whole("old")' <=> Whole("old")) /\ journal' = journal
    BY <1>1, SameFiles DEF UpdateInv
  <2>3. SessionInv /\ ProcessTypes
    BY DEF UpdateInv
  <2>4. Blocked => Return(FALSE) \/ mode # "startup"
    BY DEF Return
  <2>5. Return(FALSE)
    BY <1>5, <2>1, <2>4
  <2>6. /\ SessionInv' /\ ProcessTypes'
        /\ ran' => ran \/ (Whole("new")' /\ journal' = "none")
        /\ mode' \in {"up", "blocked"} /\ step' = "idle" /\ at' = 0
    BY <1>5, <2>1, <2>2, <2>3, <2>5, ReturnSession
  <2>7. RanInv'
    BY <2>1, <2>6 DEF RanInv
  <2>8. StepTypes' /\ StepInv'
    BY <1>3, <2>6, IdleStep
  <2> QED BY <1>2, <2>2, <2>6, <2>7, <2>8 DEF UpdateInv
<1>6. SweepOn \/ (step = "finish" /\ Blocked) \/ (step = "sweep" /\ Return(FALSE))
  BY Zenon DEF SweepRefused
<1> QED BY <1>4, <1>5, <1>6

LEMMA SweepFileKeeps == ASSUME UpdateInv, SweepFile PROVE UpdateInv'
<1>1. /\ step \in DOMAIN Doomed /\ UNCHANGED <<journal, marker, mapped, control, process>>
      /\ disk' = [disk EXCEPT ![Victim][at] = "none"]
  BY DEF SweepFile, Remove
<1>2. /\ mode \in {"startup", "install"} /\ at \in Images
      /\ Victim \in Slots /\ Victim # "live"
      /\ Victim = "old" => step \in {"finish", "sweep"}
      /\ step = "finish" => Whole("new") /\ journal = "valid" /\ marker = "valid"
      /\ step # "finish" => Whole("old")
      /\ step \in {"finish", "sweep", "sweepQ", "unstage"}
  BY <1>1, SweepSteps
<1>3. /\ disk' \in DiskType /\ disk'[Victim][at] = "none"
      /\ \A u \in Slots, j \in Images :
           j # at \/ u # Victim => disk'[u][j] = disk[u][j]
  BY <1>1, <1>2, SetFacts DEF UpdateInv, Hashes
<1>4. \A i \in Images : disk'["live"][i] = disk["live"][i]
  BY <1>2, <1>3 DEF Slots
<1>5. (Whole("old")' <=> Whole("old")) /\ (Whole("new")' <=> Whole("new"))
  BY <1>4, WholeKept
<1>6. FileTypes' /\ BoundTypes'
  BY <1>1, <1>3, BoundsKept DEF UpdateInv, FileTypes, SweepFile
<1>7. \A i \in Images : disk'["old"][i] \in {"none", disk["old"][i]}
  BY <1>2, <1>3 DEF Slots
<1>8. FilesInv'
  <2>1. \A i \in Images : disk'["old"][i] \in {"none", Version("old", i)}
    BY <1>7 DEF UpdateInv, FilesInv
  <2>2. journal = "valid" /\ marker # "valid" =>
          \A i \in Images : Version("old", i) = disk["live"][i]
    BY <1>2 DEF Whole
  <2> QED BY <1>1, <1>4, <1>5, <2>1, <2>2 DEF UpdateInv, FilesInv, Version
<1>9. SessionInv' /\ ProcessTypes'
  BY <1>1, <1>2, QuietSession DEF UpdateInv, control
<1>10. RanInv'
  BY <1>1, <1>5 DEF UpdateInv, RanInv, process
<1>11. StepTypes'
  BY <1>1 DEF UpdateInv, StepTypes, control
<1>12. StepInv'
  BY <1>1, <1>2, <1>5 DEF UpdateInv, StepInv, control, StageSteps, UnstageSteps,
     RolledSteps, FinishSteps, RollSteps, SwapSteps, InstallSteps, LoopSteps
<1> QED BY <1>6, <1>8, <1>9, <1>10, <1>11, <1>12 DEF UpdateInv

-----------------------------------------------------------------------------
(* The journal and the marker are removed.                                 *)
LEMMA RemoveJournalKeeps == ASSUME UpdateInv, RemoveJournal PROVE UpdateInv'
<1>1. /\ UNCHANGED <<disk, marker, mapped, ok>> /\ journal' \in {journal, "none"}
      /\ step \in {"finishJournal", "rollJournal", "stageJournal"}
  BY DEF RemoveJournal
<1>2. /\ mode \in {"startup", "install"}
      /\ step = "finishJournal" => Whole("new") /\ mode = "startup" /\ journal = "valid"
      /\ step # "finishJournal" => Whole("old")
      /\ step = "stageJournal" => mode = "install" /\ marker # "valid"
  BY <1>1, StepModes DEF UpdateInv, StepInv, FinishSteps, RolledSteps, UnstageSteps, InstallSteps
<1>3. ~ran
  BY <1>2, NotRan
<1>4. (Whole("old")' <=> Whole("old")) /\ (Whole("new")' <=> Whole("new"))
  BY <1>1, WholeKept
<1>5. FileTypes' /\ BoundTypes'
  BY <1>1, BoundsKept DEF UpdateInv, FileTypes, RemoveJournal
<1>6. FilesInv'
  BY <1>1, <1>2, <1>4 DEF UpdateInv, FilesInv, Version
<1>7. CASE /\ UNCHANGED process
           /\ \/ /\ step = "finishJournal" /\ journal' = "none"
                 /\ Goto("finishMarker", 0)
              \/ step = "stageJournal" /\ Goto("unstage", 1)
  <2>1. SessionInv' /\ ProcessTypes'
    BY <1>2, <1>7, QuietSession DEF UpdateInv, Goto
  <2>2. RanInv'
    BY <1>3, <1>7 DEF process, RanInv
  <2>3. StepTypes'
    BY <1>1, <1>7, ImageFacts DEF Goto, UpdateInv, StepTypes, FinishSteps,
       UnstageSteps, InstallSteps
  <2>4. StepInv'
    BY <1>1, <1>2, <1>4, <1>7, ImageFacts DEF Goto, StepInv, StageSteps, UnstageSteps,
       RolledSteps, FinishSteps, RollSteps, SwapSteps, InstallSteps, LoopSteps
  <2> QED BY <1>5, <1>6, <2>1, <2>2, <2>3, <2>4 DEF UpdateInv
<1>8. ASSUME NEW r \in BOOLEAN, Return(r),
             r => step = "rollJournal",
             step \in {"finishJournal", "rollJournal"}
      PROVE  UpdateInv'
  <2>1. mode = "install" => Whole("old")'
    BY <1>2, <1>4
  <2>2. r /\ mode = "startup" => Whole("old")'
    BY <1>2, <1>4, <1>8
  <2>3. SessionInv /\ ProcessTypes /\ disk' \in DiskType
    BY <1>5 DEF UpdateInv, FileTypes
  <2>4. /\ SessionInv' /\ ProcessTypes'
        /\ ran' => ran \/ (Whole("new")' /\ journal' = "none")
        /\ mode' \in {"up", "blocked"} /\ step' = "idle" /\ at' = 0
    BY <1>2, <1>8, <2>1, <2>2, <2>3, ReturnSession
  <2>5. RanInv'
    BY <1>3, <2>4 DEF RanInv
  <2>6. StepTypes' /\ StepInv'
    BY <1>1, <2>4, IdleStep DEF UpdateInv, StepTypes
  <2> QED BY <1>5, <1>6, <2>4, <2>5, <2>6 DEF UpdateInv
<1>9. \/ /\ step = "finishJournal" /\ journal' = "none"
         /\ Goto("finishMarker", 0) /\ UNCHANGED process
      \/ step = "stageJournal" /\ Goto("unstage", 1) /\ UNCHANGED process
      \/ step = "rollJournal" /\ Return(TRUE)
      \/ step \in {"finishJournal", "rollJournal"} /\ Return(FALSE)
  BY DEF RemoveJournal
<1> QED BY <1>7, <1>8, <1>9

LEMMA RemoveMarkerKeeps == ASSUME UpdateInv, RemoveMarker PROVE UpdateInv'
<1>1. /\ UNCHANGED <<disk, journal, mapped, ok>> /\ marker' \in {marker, "none"}
      /\ step \in {"finishMarker", "rollMarker"}
  BY DEF RemoveMarker
<1>2. /\ mode \in {"startup", "install"}
      /\ step = "finishMarker" => Whole("new") /\ mode = "startup" /\ journal = "none"
      /\ step = "rollMarker" => Whole("old") /\ journal = "valid"
  BY <1>1, StepModes DEF UpdateInv, StepInv, FinishSteps, RolledSteps
<1>3. (Whole("old")' <=> Whole("old")) /\ (Whole("new")' <=> Whole("new"))
  BY <1>1, WholeKept
<1>4. FileTypes' /\ BoundTypes'
  BY <1>1, BoundsKept DEF UpdateInv, FileTypes, RemoveMarker
<1>5. FilesInv'
  <2>1. \A i \in Images : disk["old"][i] \in {"none", Version("old", i)}
    BY DEF UpdateInv, FilesInv
  <2>2. Whole("old") => \A i \in Images : Version("old", i) = disk["live"][i]
    BY DEF Whole
  <2> QED BY <1>1, <1>2, <1>3, <2>1, <2>2 DEF FilesInv, Version
<1>6. CASE step = "rollMarker" /\ Goto("rollJournal", 0) /\ UNCHANGED process
  <2>1. SessionInv' /\ ProcessTypes'
    BY <1>2, <1>6, QuietSession DEF UpdateInv, Goto
  <2>2. RanInv'
    BY <1>1, <1>3, <1>6 DEF process, UpdateInv, RanInv
  <2>3. StepTypes'
    BY <1>1, <1>6, ImageFacts DEF Goto, UpdateInv, StepTypes, RolledSteps
  <2>4. StepInv'
    BY <1>1, <1>2, <1>3, <1>6 DEF Goto, StepInv, StageSteps, UnstageSteps,
       RolledSteps, FinishSteps, RollSteps, SwapSteps, InstallSteps, LoopSteps
  <2> QED BY <1>4, <1>5, <2>1, <2>2, <2>3, <2>4 DEF UpdateInv
<1>7. ASSUME NEW r \in BOOLEAN, Return(r), r => step = "finishMarker"
      PROVE  UpdateInv'
  <2>1. mode = "install" => Whole("old")'
    BY <1>1, <1>2, <1>3
  <2>2. r /\ mode = "startup" => Whole("new")' /\ journal' = "none"
    BY <1>1, <1>2, <1>3, <1>7
  <2>3. SessionInv /\ ProcessTypes /\ disk' \in DiskType
    BY <1>4 DEF UpdateInv, FileTypes
  <2>4. /\ SessionInv' /\ ProcessTypes'
        /\ ran' => ran \/ (Whole("new")' /\ journal' = "none")
        /\ mode' \in {"up", "blocked"} /\ step' = "idle" /\ at' = 0
    BY <1>2, <1>7, <2>1, <2>2, <2>3, ReturnSession
  <2>5. RanInv'
    BY <1>1, <1>3, <2>4 DEF UpdateInv, RanInv
  <2>6. StepTypes' /\ StepInv'
    BY <1>1, <2>4, IdleStep DEF UpdateInv, StepTypes
  <2> QED BY <1>4, <1>5, <2>4, <2>5, <2>6 DEF UpdateInv
<1>8. \/ step = "rollMarker" /\ Goto("rollJournal", 0) /\ UNCHANGED process
      \/ step = "finishMarker" /\ Return(TRUE)
      \/ Return(FALSE)
  BY DEF RemoveMarker
<1> QED BY <1>6, <1>7, <1>8

-----------------------------------------------------------------------------
(* The rollback.                                                           *)
LEMMA RollSteady ==
    ASSUME UpdateInv, step \in RollSteps
    PROVE  /\ mode \in {"startup", "install"} /\ at \in Images /\ journal = "valid"
           /\ ok => \A i \in (at + 1)..N : Restored(i)
           /\ ~ran
<1>1. step # "idle" /\ step \in LoopSteps /\ journal = "valid"
  BY DEF RollSteps, LoopSteps, UpdateInv, StepInv
<1>2. ~ran
  BY <1>1, NotRan
<1> QED BY <1>1, <1>2, StepModes DEF UpdateInv, StepInv

LEMMA RollOnKeeps ==
    ASSUME UpdateInv, step \in RollSteps, NEW good \in BOOLEAN, RollOn(good),
           good => disk'["live"][at] = "old",
           \A i \in Images : i # at => disk'["live"][i] = disk["live"][i],
           journal' = "valid", FileTypes', FilesInv', BoundTypes'
    PROVE  UpdateInv'
<1>1. /\ mode \in {"startup", "install"} /\ at \in Images /\ ~ran
      /\ ok => \A i \in (at + 1)..N : Restored(i)
  BY RollSteady
<1>2. ok' \in BOOLEAN /\ (ok' => ok /\ good)
  BY DEF RollOn
<1>3. ok' => \A i \in at..N : disk'["live"][i] = "old"
  <2>1. SUFFICES ASSUME ok', NEW i \in at..N PROVE disk'["live"][i] = "old"
    OBVIOUS
  <2>2. i \in Images
    BY <1>1, ImageFacts DEF Images
  <2>3. CASE i = at
    BY <1>2, <2>1, <2>3
  <2>4. CASE i # at
    <3>1. i \in (at + 1)..N
      BY <1>1, <2>1, <2>4, ImageFacts
    <3>2. disk["live"][i] = "old"
      BY <1>1, <1>2, <2>1, <2>2, <3>1, Versions DEF Restored
    <3> QED BY <2>2, <2>4, <3>2
  <2> QED BY <2>3, <2>4
<1>4. CASE at > 1 /\ Goto("roll", at - 1) /\ UNCHANGED process
  <2>1. SessionInv' /\ ProcessTypes'
    BY <1>1, <1>4, QuietSession DEF UpdateInv, Goto
  <2>2. RanInv'
    BY <1>1, <1>4 DEF process, RanInv
  <2>3. at - 1 \in Images /\ at - 1 \in 0..N /\ (at - 1) + 1 = at
    BY <1>1, <1>4, ImageFacts DEF Images
  <2>4. StepTypes'
    BY <1>2, <1>4, <2>3 DEF Goto, UpdateInv, StepTypes, RollSteps
  <2>5. ok' => \A i \in (at' + 1)..N : Restored(i)'
    <3>1. at' + 1 = at
      BY <1>4, <2>3 DEF Goto
    <3>2. \A i \in at..N : i \in Images
      BY <1>1, ImageFacts DEF Images
    <3> QED BY <1>3, <3>1, <3>2, Versions DEF Restored
  <2>6. StepInv'
    BY <1>1, <1>4, <2>3, <2>5 DEF Goto, StepInv, StageSteps, UnstageSteps,
       RolledSteps, FinishSteps, RollSteps, SwapSteps, InstallSteps, LoopSteps
  <2> QED BY <2>1, <2>2, <2>4, <2>6 DEF UpdateInv
<1>5. CASE ~(at > 1) /\ ok' /\ Goto("sweep", 1) /\ UNCHANGED process
  <2>1. SessionInv' /\ ProcessTypes'
    BY <1>1, <1>5, QuietSession DEF UpdateInv, Goto
  <2>2. RanInv'
    BY <1>1, <1>5 DEF process, RanInv
  <2>3. StepTypes'
    BY <1>2, <1>5, ImageFacts DEF Goto, UpdateInv, StepTypes, RolledSteps
  <2>4. Whole("old")'
    <3>1. at = 1
      BY <1>1, <1>5, ImageFacts
    <3>2. \A i \in Images : disk'["live"][i] = "old"
      BY <1>3, <1>5, <3>1 DEF Images
    <3> QED BY <3>2 DEF Whole, Version
  <2>5. StepInv'
    BY <1>1, <1>5, <2>4, ImageFacts DEF Goto, StepInv, StageSteps, UnstageSteps,
       RolledSteps, FinishSteps, RollSteps, SwapSteps, InstallSteps, LoopSteps
  <2> QED BY <2>1, <2>2, <2>3, <2>5 DEF UpdateInv
<1>6. CASE Return(FALSE)
  <2>1. Pending'
    BY DEF Pending
  <2>2. SessionInv /\ ProcessTypes /\ disk' \in DiskType
    BY DEF UpdateInv, FileTypes
  <2>3. /\ SessionInv' /\ ProcessTypes'
        /\ ran' => ran \/ (Whole("new")' /\ journal' = "none")
        /\ mode' \in {"up", "blocked"} /\ step' = "idle" /\ at' = 0
    BY <1>1, <1>6, <2>1, <2>2, ReturnSession
  <2>4. RanInv'
    BY <1>1, <2>3 DEF RanInv
  <2>5. StepTypes' /\ StepInv'
    BY <1>2, <2>3, IdleStep
  <2> QED BY <2>3, <2>4, <2>5 DEF UpdateInv
<1> QED BY <1>4, <1>5, <1>6, Zenon DEF RollOn

LEMMA RollKeepKeeps == ASSUME UpdateInv, RollKeep PROVE UpdateInv'
<1>1. step \in RollSteps /\ UNCHANGED files
  BY DEF RollKeep, RollSteps
<1>2. FileTypes' /\ FilesInv' /\ journal' = "valid" /\ disk' = disk
  BY <1>1, SameFiles, RollSteady DEF UpdateInv, files
<1>3. BoundTypes'
  BY BoundsKept DEF RollKeep, UpdateInv
<1>4. at \in Images
  BY <1>1, RollSteady
<1>5. CASE RollOn(~Foreign(at) /\ Restored(at))
  <2>1. Restored(at) => disk'["live"][at] = "old"
    BY <1>2, <1>4, Versions DEF Restored
  <2>2. (~Foreign(at) /\ Restored(at)) \in BOOLEAN
    OBVIOUS
  <2> QED BY <1>1, <1>2, <1>3, <1>5, <2>1, <2>2, RollOnKeeps
<1>6. CASE RollOn(FALSE)
  BY <1>1, <1>2, <1>3, <1>6, RollOnKeeps
<1> QED BY <1>5, <1>6 DEF RollKeep

LEMMA RollAsideKeeps == ASSUME UpdateInv, RollAside PROVE UpdateInv'
<1>1. /\ step = "roll" /\ UNCHANGED <<journal, marker>> /\ HasBackup(at)
  BY DEF RollAside
<1>2. /\ mode \in {"startup", "install"} /\ at \in Images /\ journal = "valid" /\ ~ran
      /\ ok => \A i \in (at + 1)..N : Restored(i)
  BY <1>1, RollSteady DEF RollSteps
<1>3. CASE UNCHANGED <<disk, mapped>> /\ (Fault \/ NoFault) /\ RollOn(FALSE)
  <2>1. UNCHANGED files
    BY <1>1, <1>3 DEF files
  <2>2. FileTypes' /\ FilesInv' /\ BoundTypes'
    BY <1>3, <2>1, SameFiles, BoundsKept DEF UpdateInv
  <2> QED BY <1>1, <1>2, <1>3, <2>2, RollOnKeeps DEF RollSteps
<1>4. CASE /\ Move("live", "quarantine", at) /\ NoFault
           /\ Goto("restore", at) /\ UNCHANGED <<ok, process>>
  <2>1. /\ disk' \in DiskType /\ mapped' \subseteq Slots \X Images
        /\ disk'["live"][at] = "none"
        /\ \A u \in Slots, j \in Images :
             j # at \/ u \notin {"live", "quarantine"} => disk'[u][j] = disk[u][j]
    BY <1>2, <1>4, MoveFacts DEF UpdateInv, Slots
  <2>2. FileTypes' /\ BoundTypes'
    BY <1>1, <1>4, <2>1, BoundsKept DEF UpdateInv, FileTypes
  <2>3. \A i \in Images : disk'["old"][i] = disk["old"][i]
    BY <2>1 DEF Slots
  <2>4. \A i \in Images : i # at => disk'["live"][i] = disk["live"][i]
    BY <2>1 DEF Slots
  <2>5. disk["old"][at] = "old"
    BY <1>1, <1>2, Versions DEF HasBackup, UpdateInv, FilesInv
  <2>6. FilesInv'
    BY <1>1, <1>2, <2>3, <2>4, <2>5, Versions DEF UpdateInv, FilesInv
  <2>7. SessionInv' /\ ProcessTypes' /\ RanInv'
    BY <1>2, <1>4, QuietSession DEF UpdateInv, Goto, process, RanInv
  <2>8. StepTypes'
    BY <1>4, <1>2, ImageFacts DEF Goto, UpdateInv, StepTypes, RollSteps
  <2>9. ok' => \A i \in (at' + 1)..N : Restored(i)'
    <3>1. \A i \in (at + 1)..N : i \in Images /\ i # at
      BY <1>2, ImageFacts DEF Images
    <3> QED BY <1>2, <1>4, <2>4, <3>1, Versions DEF Goto, Restored
  <2>10. HasBackup(at)'
    BY <1>4, <2>5, <2>3, <1>2 DEF Goto, HasBackup
  <2>11. StepInv'
    BY <1>1, <1>2, <1>4, <2>9, <2>10 DEF Goto, StepInv, StageSteps, UnstageSteps,
       RolledSteps, FinishSteps, RollSteps, SwapSteps, InstallSteps, LoopSteps
  <2> QED BY <2>2, <2>6, <2>7, <2>8, <2>11 DEF UpdateInv
<1> QED BY <1>3, <1>4, Zenon DEF RollAside

LEMMA RollBackKeeps == ASSUME UpdateInv, RollBack PROVE UpdateInv'
<1>1. /\ step \in RollSteps /\ UNCHANGED <<journal, marker>> /\ HasBackup(at)
  BY DEF RollBack, RollSteps, UpdateInv, StepInv
<1>2. at \in Images /\ journal = "valid"
  BY <1>1, RollSteady
<1>3. CASE UNCHANGED <<disk, mapped>> /\ Fault /\ RollOn(FALSE)
  <2>1. UNCHANGED files
    BY <1>1, <1>3 DEF files
  <2>2. FileTypes' /\ FilesInv' /\ BoundTypes'
    BY <1>3, <2>1, SameFiles, BoundsKept DEF UpdateInv
  <2> QED BY <1>1, <1>2, <1>3, <2>2, RollOnKeeps
<1>4. CASE Move("old", "live", at) /\ NoFault /\ RollOn(TRUE)
  <2>1. /\ disk' \in DiskType /\ mapped' \subseteq Slots \X Images
        /\ disk'["live"][at] = disk["old"][at] /\ disk'["old"][at] = "none"
        /\ \A u \in Slots, j \in Images :
             j # at \/ u \notin {"live", "old"} => disk'[u][j] = disk[u][j]
    BY <1>2, <1>4, MoveFacts DEF UpdateInv, Slots
  <2>2. FileTypes' /\ BoundTypes'
    BY <1>1, <1>4, <2>1, BoundsKept DEF UpdateInv, FileTypes
  <2>3. disk["old"][at] = "old"
    BY <1>1, <1>2, Versions DEF HasBackup, UpdateInv, FilesInv
  <2>4. \A i \in Images : i # at => disk'["live"][i] = disk["live"][i]
                                 /\ disk'["old"][i] = disk["old"][i]
    BY <2>1 DEF Slots
  <2>5. FilesInv'
    BY <1>1, <1>2, <2>1, <2>3, <2>4, Versions DEF UpdateInv, FilesInv
  <2> QED BY <1>1, <1>2, <1>4, <2>1, <2>2, <2>3, <2>4, <2>5, RollOnKeeps
<1> QED BY <1>3, <1>4 DEF RollBack

-----------------------------------------------------------------------------
(* The installation.                                                       *)
LEMMA BeginInstallKeeps == ASSUME UpdateInv, BeginInstall PROVE UpdateInv'
<1>1. /\ mode = "up" /\ ~restartOnly /\ ~Whole("new") /\ restartOnly' = TRUE
      /\ tried' = TRUE /\ ok' = TRUE
      /\ UNCHANGED <<files, loaded, uiSettled, session, ran, bounds>>
  BY DEF BeginInstall
<1>2. session = "old" /\ Whole("old") /\ ~ran
  <2>1. Whole(session) /\ session \in {"old", "new"}
    BY <1>1 DEF UpdateInv, SessionInv, ProcessTypes
  <2>2. session # "new"
    BY <1>1, <2>1
  <2>3. session = "old" /\ Whole("old")
    BY <2>1, <2>2
  <2> QED BY <2>3, NotRan
<1>3. FileTypes' /\ FilesInv' /\ (Whole("old")' <=> Whole("old")) /\ marker' = marker
  BY <1>1, SameFiles DEF UpdateInv
<1>4. BoundTypes' /\ ProcessTypes' /\ RanInv'
  BY <1>1, <1>2 DEF UpdateInv, BoundTypes, bounds, ProcessTypes, RanInv
<1>5. OneVersion'
  BY <1>1 DEF UpdateInv, SessionInv, OneVersion, Version
<1>6. CASE UNCHANGED <<mode, step, at>>
  <2>1. StepTypes'
    BY <1>1, <1>6 DEF UpdateInv, StepTypes
  <2>2. step = "idle"
    BY <1>1 DEF UpdateInv, StepInv
  <2>3. StepInv'
    BY <1>1, <1>6, <2>2 DEF StepInv, StageSteps, UnstageSteps,
       RolledSteps, FinishSteps, RollSteps, SwapSteps, InstallSteps, LoopSteps
  <2>4. SessionInv'
    BY <1>1, <1>2, <1>5, <1>6 DEF SessionInv
  <2> QED BY <1>3, <1>4, <2>1, <2>3, <2>4 DEF UpdateInv
<1>7. CASE ~Pending /\ mode' = "install" /\ step' = "stage" /\ at' = 1
  <2>1. marker = "none"
    BY <1>7 DEF Pending
  <2>2. StepTypes'
    BY <1>1, <1>7, ImageFacts DEF UpdateInv, StepTypes, InstallSteps, StageSteps
  <2>3. StepInv'
    BY <1>2, <1>3, <1>7, <2>1, ImageFacts DEF StepInv, StageSteps, UnstageSteps,
       RolledSteps, FinishSteps, RollSteps, SwapSteps, InstallSteps, LoopSteps
  <2>4. SessionInv'
    BY <1>1, <1>2, <1>5, <1>7 DEF SessionInv
  <2> QED BY <1>3, <1>4, <2>2, <2>3, <2>4 DEF UpdateInv
<1> QED BY <1>6, <1>7 DEF BeginInstall

(* A step of the installation other than its end.                          *)
LEMMA InstallStep ==
    ASSUME UpdateInv, step \in InstallSteps, mode' = mode, UNCHANGED <<ok, process>>,
           Fault \/ NoFault, step' \in InstallSteps \union {"roll"}, at' \in 0..N
    PROVE  /\ mode = "install" /\ marker # "valid"
           /\ SessionInv' /\ ProcessTypes' /\ BoundTypes' /\ StepTypes'
<1>1. mode = "install" /\ marker # "valid"
  BY DEF UpdateInv, StepInv
<1>2. SessionInv' /\ ProcessTypes'
  BY <1>1, QuietSession DEF UpdateInv
<1>3. BoundTypes'
  BY BoundsKept DEF UpdateInv
<1>4. StepTypes'
  BY DEF UpdateInv, StepTypes, RollSteps
<1> QED BY <1>1, <1>2, <1>3, <1>4

LEMMA StageImageKeeps == ASSUME UpdateInv, StageImage PROVE UpdateInv'
<1>1. /\ step \in {"stage", "staging"} /\ mode' = mode
      /\ UNCHANGED <<journal, marker, mapped, ok, process>> /\ (Fault \/ NoFault)
  BY DEF StageImage, Goto
<1>2. at \in Images /\ Whole("old")
  BY <1>1 DEF UpdateInv, StepInv, LoopSteps, StageSteps
<1>3. \/ step' = "staging" /\ at' = at
      \/ at < N /\ step' = "stage" /\ at' = at + 1
      \/ step' = "journal" /\ at' = 0
      \/ step' = "unstage" /\ at' = 1
  BY DEF StageImage, Goto
<1>4. at' \in 0..N /\ (step' # "journal" => at' \in Images)
  BY <1>2, <1>3, ImageFacts DEF Images
<1>5. /\ mode = "install" /\ marker # "valid"
      /\ SessionInv' /\ ProcessTypes' /\ BoundTypes' /\ StepTypes'
  BY <1>1, <1>3, <1>4, InstallStep DEF InstallSteps, StageSteps, UnstageSteps
<1>6. disk' \in DiskType /\ \A s \in Slots \ {"new"} : disk'[s] = disk[s]
  <2>1. \/ disk' = disk
        \/ disk' = [disk EXCEPT !["new"][at] = "torn"]
        \/ disk' = [disk EXCEPT !["new"][at] = Version("new", at)]
    BY DEF StageImage
  <2>2. Version("new", at) \in Hashes /\ "torn" \in Hashes
    BY DEF Version, Hashes
  <2> QED BY <1>2, <2>1, <2>2 DEF UpdateInv, FileTypes, DiskType, Slots
<1>7. disk'["live"] = disk["live"] /\ disk'["old"] = disk["old"]
  BY <1>6 DEF Slots
<1>8. FileTypes' /\ (Whole("old")' <=> Whole("old")) /\ (Whole("new")' <=> Whole("new"))
  BY <1>1, <1>6, <1>7, WholeKept DEF UpdateInv, FileTypes
<1>9. FilesInv' /\ RanInv'
  BY <1>1, <1>7, <1>8 DEF UpdateInv, FilesInv, RanInv, process, Version
<1>10. StepInv'
  BY <1>1, <1>2, <1>3, <1>4, <1>5, <1>8 DEF StepInv, StageSteps, UnstageSteps,
     RolledSteps, FinishSteps, RollSteps, SwapSteps, InstallSteps, LoopSteps
<1> QED BY <1>5, <1>8, <1>9, <1>10 DEF UpdateInv

LEMMA WriteJournalKeeps == ASSUME UpdateInv, WriteJournal PROVE UpdateInv'
<1>1. /\ step \in {"journal", "journaling"} /\ mode' = mode
      /\ UNCHANGED <<disk, marker, mapped, ok, process>> /\ (Fault \/ NoFault)
      /\ journal' \in {journal, "torn", "valid"}
  BY DEF WriteJournal, Goto
<1>2. Whole("old")
  BY <1>1 DEF UpdateInv, StepInv, StageSteps
<1>3. \/ step' = "journaling" /\ at' = 0
      \/ step' = "backup" /\ at' = 1 /\ journal' = "valid"
      \/ step' = "stageJournal" /\ at' = 0
  BY DEF WriteJournal, Goto
<1>4. /\ mode = "install" /\ marker # "valid"
      /\ SessionInv' /\ ProcessTypes' /\ BoundTypes' /\ StepTypes'
  BY <1>1, <1>3, ImageFacts, InstallStep DEF InstallSteps, StageSteps, UnstageSteps, SwapSteps
<1>5. FileTypes' /\ (Whole("old")' <=> Whole("old"))
  BY <1>1, WholeKept DEF UpdateInv, FileTypes
<1>6. ~ran
  BY <1>2, NotRan
<1>7. FilesInv' /\ RanInv'
  BY <1>1, <1>2, <1>5, <1>6 DEF UpdateInv, FilesInv, RanInv, process, Whole, Version
<1>8. \A i \in 1..N : Restored(i)'
  BY <1>1, <1>2 DEF Whole, Restored, Images, Version
<1>9. StepInv'
  BY <1>1, <1>2, <1>3, <1>4, <1>5, <1>8, ImageFacts DEF StepInv, StageSteps, UnstageSteps,
     RolledSteps, FinishSteps, RollSteps, SwapSteps, InstallSteps, LoopSteps
<1> QED BY <1>4, <1>5, <1>7, <1>9 DEF UpdateInv

LEMMA BackupKeeps == ASSUME UpdateInv, Backup PROVE UpdateInv'
<1>1. /\ step = "backup" /\ UNCHANGED <<journal, marker, ok, process>> /\ mode' = mode
      /\ (Fault \/ NoFault)
  BY DEF Backup, Swap, Goto
<1>2. /\ at \in Images /\ journal = "valid" /\ \A i \in at..N : Restored(i)
  BY <1>1 DEF UpdateInv, StepInv, LoopSteps, SwapSteps
<1>3. ~ran
  BY <1>2, NotRan
<1>4. \/ UNCHANGED <<disk, mapped>> /\ step' = "roll" /\ at' = N
      \/ /\ Move("live", "old", at)
         /\ \/ at < N /\ step' = "backup" /\ at' = at + 1
            \/ step' = "promote" /\ at' = 1
  BY DEF Backup, Swap, Goto
<1>5. at' \in Images /\ at' \in 0..N /\ step' \in {"backup", "promote", "roll"}
  BY <1>2, <1>4, ImageFacts DEF Images
<1>6. /\ mode = "install" /\ marker # "valid"
      /\ SessionInv' /\ ProcessTypes' /\ BoundTypes' /\ StepTypes'
  BY <1>1, <1>5, InstallStep DEF InstallSteps, SwapSteps
<1>7. RanInv'
  BY <1>1, <1>3 DEF RanInv, process
<1>8. CASE UNCHANGED <<disk, mapped>> /\ step' = "roll" /\ at' = N
  <2>1. FileTypes' /\ FilesInv'
    BY <1>1, <1>8, SameFiles DEF UpdateInv, files
  <2>2. StepInv'
    BY <1>1, <1>2, <1>5, <1>6, <1>8, ImageFacts DEF StepInv, StageSteps, UnstageSteps,
       RolledSteps, FinishSteps, RollSteps, SwapSteps, InstallSteps, LoopSteps
  <2> QED BY <1>6, <1>7, <2>1, <2>2 DEF UpdateInv
<1>9. CASE /\ Move("live", "old", at)
           /\ \/ at < N /\ step' = "backup" /\ at' = at + 1
              \/ step' = "promote" /\ at' = 1
  <2>1. /\ disk' \in DiskType /\ mapped' \subseteq Slots \X Images
        /\ disk'["old"][at] = disk["live"][at] /\ disk'["live"][at] = "none"
        /\ \A u \in Slots, j \in Images :
             j # at \/ u \notin {"live", "old"} => disk'[u][j] = disk[u][j]
    BY <1>2, <1>9, MoveFacts DEF UpdateInv, Slots
  <2>2. FileTypes'
    BY <1>1, <2>1 DEF UpdateInv, FileTypes
  <2>3. disk["live"][at] = "old"
    BY <1>2, ImageFacts, Versions DEF Restored
  <2>4. \A i \in Images : i # at => disk'["live"][i] = disk["live"][i]
                                 /\ disk'["old"][i] = disk["old"][i]
    BY <2>1 DEF Slots
  <2>5. FilesInv'
    BY <1>1, <1>2, <2>1, <2>3, <2>4, Versions DEF UpdateInv, FilesInv
  <2>6. \A i \in (at + 1)..N : Restored(i)'
    <3>1. \A i \in (at + 1)..N : i \in Images /\ i # at /\ i \in at..N
      BY <1>2, ImageFacts DEF Images
    <3> QED BY <1>2, <2>4, <3>1 DEF Restored, Version
  <2>7. StepInv'
    BY <1>1, <1>2, <1>5, <1>6, <1>9, <2>6 DEF StepInv, StageSteps, UnstageSteps,
       RolledSteps, FinishSteps, RollSteps, SwapSteps, InstallSteps, LoopSteps
  <2> QED BY <1>6, <1>7, <2>2, <2>5, <2>7 DEF UpdateInv
<1> QED BY <1>4, <1>8, <1>9

LEMMA PromoteKeeps == ASSUME UpdateInv, Promote PROVE UpdateInv'
<1>1. /\ step = "promote" /\ UNCHANGED <<journal, marker, ok, process>> /\ mode' = mode
      /\ (Fault \/ NoFault)
  BY DEF Promote, Swap, Goto
<1>2. at \in Images /\ journal = "valid"
  BY <1>1 DEF UpdateInv, StepInv, LoopSteps, SwapSteps
<1>3. ~ran
  BY <1>2, NotRan
<1>4. \/ UNCHANGED <<disk, mapped>> /\ step' = "roll" /\ at' = N
      \/ /\ Move("new", "live", at)
         /\ \/ at < N /\ step' = "promote" /\ at' = at + 1
            \/ step' = "verify" /\ at' = 0
  BY DEF Promote, Swap, Goto
<1>5. /\ at' \in 0..N /\ step' \in {"promote", "verify", "roll"}
      /\ step' \in {"promote", "roll"} => at' \in Images
  BY <1>2, <1>4, ImageFacts DEF Images
<1>6. /\ mode = "install" /\ marker # "valid"
      /\ SessionInv' /\ ProcessTypes' /\ BoundTypes' /\ StepTypes'
  BY <1>1, <1>5, InstallStep DEF InstallSteps, SwapSteps
<1>7. RanInv'
  BY <1>1, <1>3 DEF RanInv, process
<1>8. StepInv'
  <2>1. CASE step' = "roll" /\ at' = N
    BY <1>1, <1>2, <1>5, <1>6, <2>1, ImageFacts DEF StepInv, StageSteps, UnstageSteps,
       RolledSteps, FinishSteps, RollSteps, SwapSteps, InstallSteps, LoopSteps
  <2>2. CASE step' \in {"promote", "verify"}
    BY <1>1, <1>2, <1>5, <1>6, <2>2 DEF StepInv, StageSteps, UnstageSteps,
       RolledSteps, FinishSteps, RollSteps, SwapSteps, InstallSteps, LoopSteps
  <2> QED BY <1>4, <2>1, <2>2
<1>9. CASE UNCHANGED <<disk, mapped>>
  <2>1. FileTypes' /\ FilesInv'
    BY <1>1, <1>9, SameFiles DEF UpdateInv, files
  <2> QED BY <1>6, <1>7, <1>8, <2>1 DEF UpdateInv
<1>10. CASE Move("new", "live", at)
  <2>1. /\ disk' \in DiskType /\ mapped' \subseteq Slots \X Images
        /\ disk["live"][at] = "none"
        /\ \A u \in Slots, j \in Images :
             j # at \/ u \notin {"new", "live"} => disk'[u][j] = disk[u][j]
    BY <1>2, <1>10, MoveFacts DEF UpdateInv, Slots
  <2>2. FileTypes'
    BY <1>1, <2>1 DEF UpdateInv, FileTypes
  <2>3. disk["old"][at] = "old"
    BY <1>2, <1>6, <2>1, Versions DEF UpdateInv, FilesInv
  <2>4. \A i \in Images : disk'["old"][i] = disk["old"][i]
    BY <2>1 DEF Slots
  <2>5. \A i \in Images : i # at => disk'["live"][i] = disk["live"][i]
    BY <2>1 DEF Slots
  <2>6. FilesInv'
    BY <1>1, <1>2, <2>3, <2>4, <2>5, Versions DEF UpdateInv, FilesInv
  <2> QED BY <1>6, <1>7, <1>8, <2>2, <2>6 DEF UpdateInv
<1> QED BY <1>4, <1>9, <1>10

LEMMA VerifyKeeps == ASSUME UpdateInv, Verify PROVE UpdateInv'
<1>1. /\ step = "verify" /\ UNCHANGED <<files, ok, process>> /\ mode' = mode
      /\ (Fault \/ NoFault)
      /\ \/ step' = "mark" /\ at' = 0
         \/ step' = "roll" /\ at' = N
  BY DEF Verify, Goto
<1>2. journal = "valid"
  BY <1>1 DEF UpdateInv, StepInv, SwapSteps
<1>3. /\ mode = "install" /\ marker # "valid"
      /\ SessionInv' /\ ProcessTypes' /\ BoundTypes' /\ StepTypes'
  BY <1>1, ImageFacts, InstallStep DEF InstallSteps, SwapSteps
<1>4. FileTypes' /\ FilesInv' /\ journal' = journal /\ marker' = marker
  BY <1>1, SameFiles DEF UpdateInv
<1>5. RanInv'
  BY <1>1, <1>2, NotRan DEF RanInv, process
<1>6. StepInv'
  BY <1>1, <1>2, <1>3, <1>4, ImageFacts DEF StepInv, StageSteps, UnstageSteps,
     RolledSteps, FinishSteps, RollSteps, SwapSteps, InstallSteps, LoopSteps
<1> QED BY <1>3, <1>4, <1>5, <1>6 DEF UpdateInv

LEMMA CommitKeeps == ASSUME UpdateInv, Commit PROVE UpdateInv'
<1>1. /\ step \in {"mark", "marking"} /\ UNCHANGED <<disk, journal, mapped, ok, process>>
      /\ (Fault \/ NoFault) /\ marker' \in {marker, "torn", "valid"}
  BY DEF Commit
<1>2. journal = "valid" /\ mode = "install" /\ marker # "valid"
  BY <1>1 DEF UpdateInv, StepInv, SwapSteps, InstallSteps
<1>3. FileTypes'
  BY <1>1 DEF UpdateInv, FileTypes
<1>4. FilesInv' /\ RanInv'
  BY <1>1, <1>2, NotRan DEF UpdateInv, FilesInv, RanInv, process, Version
<1>5. CASE /\ mode' = mode
           /\ \/ step' = "marking" /\ at' = 0 /\ marker' = "torn"
              \/ step' = "roll" /\ at' = N
  <2>1. /\ SessionInv' /\ ProcessTypes' /\ BoundTypes' /\ StepTypes'
    BY <1>1, <1>5, ImageFacts, InstallStep DEF InstallSteps, SwapSteps
  <2>2. StepInv'
    BY <1>1, <1>2, <1>5, ImageFacts DEF StepInv, StageSteps, UnstageSteps,
       RolledSteps, FinishSteps, RollSteps, SwapSteps, InstallSteps, LoopSteps
  <2> QED BY <1>3, <1>4, <2>1, <2>2 DEF UpdateInv
<1>6. CASE mode' = "up" /\ step' = "idle" /\ at' = 0
  <2>1. StepTypes' /\ StepInv'
    BY <1>1, <1>6, IdleStep DEF UpdateInv, StepTypes
  <2>2. BoundTypes' /\ ProcessTypes'
    BY <1>1, BoundsKept DEF UpdateInv, process, ProcessTypes
  <2>3. SessionInv'
    BY <1>1, <1>2, <1>6 DEF UpdateInv, SessionInv, process, OneVersion, Version
  <2> QED BY <1>3, <1>4, <2>1, <2>2, <2>3 DEF UpdateInv
<1> QED BY <1>5, <1>6 DEF Commit, Goto

-----------------------------------------------------------------------------
LEMMA UpdateInit == Init => UpdateInv
<1> SUFFICES ASSUME Init PROVE UpdateInv
  OBVIOUS
<1>1. FileTypes /\ StepTypes
  BY ImageFacts DEF Init, FileTypes, StepTypes, DiskType, Slots, Hashes
<1>2. ProcessTypes
  BY DEF Init, ProcessTypes, Hashes
<1>3. BoundTypes
  BY UpdateAssumption DEF Init, BoundTypes
<1>4. FilesInv /\ RanInv
  <2>1. \A i \in Images : disk["live"][i] = "old" /\ disk["old"][i] = "none"
    BY DEF Init, Slots
  <2>2. Whole("old")
    BY <2>1 DEF Whole, Version
  <2>3. journal = "none" /\ ~ran
    BY DEF Init
  <2> QED BY <2>1, <2>2, <2>3 DEF FilesInv, RanInv
<1>5. StepInv
  BY DEF Init, StepInv, StageSteps, UnstageSteps,
     RolledSteps, FinishSteps, RollSteps, SwapSteps, InstallSteps, LoopSteps
<1>6. SessionInv
  BY DEF Init, SessionInv, OneVersion
<1> QED BY <1>1, <1>2, <1>3, <1>4, <1>5, <1>6 DEF UpdateInv

LEMMA UpdateStutter == ASSUME UpdateInv, UNCHANGED vars PROVE UpdateInv'
<1>1. UNCHANGED <<files, control, process, bounds>>
  BY DEF vars
<1>2. /\ FileTypes' /\ FilesInv' /\ journal' = journal /\ marker' = marker
      /\ (Whole("old")' <=> Whole("old")) /\ (Whole("new")' <=> Whole("new"))
  BY <1>1, SameFiles DEF UpdateInv
<1>3. StepTypes' /\ ProcessTypes' /\ BoundTypes'
  BY <1>1 DEF control, process, bounds, UpdateInv, StepTypes, ProcessTypes, BoundTypes
<1>4. RanInv'
  BY <1>1, <1>2 DEF process, UpdateInv, RanInv
<1>5. StepInv'
  BY <1>1, <1>2 DEF control, files, UpdateInv, StepInv, Restored, HasBackup, Version
<1>6. SessionInv'
  BY <1>1 DEF control, process, files, UpdateInv, SessionInv, OneVersion, Whole, Version
<1> QED BY <1>2, <1>3, <1>4, <1>5, <1>6 DEF UpdateInv

LEMMA UpdateNext == ASSUME UpdateInv, Next PROVE UpdateInv'
<1>1. CASE Launch \/ Exit \/ Crash \/ SettleUi \/ \E i \in Images : LoadProvider(i)
  BY <1>1, LaunchKeeps, ExitKeeps, CrashKeeps, SettleUiKeeps, LoadProviderKeeps
<1>2. CASE Recover
  BY <1>2, RecoverNothingKeeps, RecoverJournalKeeps DEF Recover
<1>3. CASE Sweep
  BY <1>3, SweepFileKeeps, SweepRefusedKeeps, SweepNextKeeps, RemoveJournalKeeps,
     RemoveMarkerKeeps DEF Sweep
<1>4. CASE Rollback
  BY <1>4, RollKeepKeeps, RollAsideKeeps, RollBackKeeps DEF Rollback
<1>5. CASE BeginInstall \/ Install
  BY <1>5, BeginInstallKeeps, StageImageKeeps, WriteJournalKeeps, BackupKeeps,
     PromoteKeeps, VerifyKeeps, CommitKeeps DEF Install
<1> QED BY <1>1, <1>2, <1>3, <1>4, <1>5 DEF Next

LEMMA UpdateInvariant == Spec => []UpdateInv
<1>1. UpdateInv /\ [Next]_vars => UpdateInv'
  BY UpdateNext, UpdateStutter
<1> QED BY <1>1, UpdateInit, PTL DEF Spec

(* Every variable keeps its type.                                          *)
THEOREM UpdateTypeCorrect == Spec => []TypeOK
<1>1. UpdateInv => TypeOK
  BY Types DEF UpdateInv
<1> QED BY <1>1, UpdateInvariant, PTL

(* A session never runs images of two versions (RuntimeImages.h).          *)
THEOREM UpdateOneVersion == Spec => []OneVersion
<1>1. UpdateInv => OneVersion
  BY DEF UpdateInv, SessionInv
<1> QED BY <1>1, UpdateInvariant, PTL

(* The images of the version that counts are in place or set aside, unless *)
(* the commit marker went astray (UpdatePackage.cpp, rollback).            *)
THEOREM UpdateRecoverable == Spec => []Recoverable
<1>1. UpdateInv => Recoverable
  <2> SUFFICES ASSUME UpdateInv, ~MarkerAstray, NEW i \in Images
               PROVE  Version(Installed, i) \in {disk["live"][i], disk["old"][i]}
    BY DEF Recoverable
  <2>1. CASE Installed = "new"
    BY <2>1, InstalledFacts DEF Whole
  <2>2. CASE Installed = "old"
    <3>1. CASE journal = "valid"
      <4>1. marker # "valid"
        BY <2>2, <3>1, InstalledFacts DEF MarkerAstray
      <4> QED BY <2>2, <3>1, <4>1 DEF UpdateInv, FilesInv
    <3>2. CASE journal # "valid"
      <4>1. Whole("old")
        BY <2>2, <3>2, InstalledFacts DEF UpdateInv, FilesInv, FileTypes
      <4> QED BY <2>2, <4>1 DEF Whole
    <3> QED BY <3>1, <3>2
  <2> QED BY <2>1, <2>2, InstalledFacts
<1> QED BY <1>1, UpdateInvariant, PTL

-----------------------------------------------------------------------------
(* The refinement.                                                         *)
Running == IF mode \in {"up", "install"} THEN session ELSE "none"

LEMMA QuietMaps ==
    ASSUME UpdateInv, UpdateInv', Running' = Running, ran' = ran
    PROVE  [Atomic!Next]_(Atomic!vars)
<1>1. CASE Installed' = Installed
  BY <1>1 DEF Atomic!vars, Running
<1>2. CASE Installed = "old" /\ Installed' = "new"
  BY <1>2 DEF Atomic!Next, Atomic!Update, Running
<1>3. CASE Installed = "new" /\ Installed' = "old"
  <2>1. ~ran
    <3>1. ran' => journal' = "none" /\ Whole("new")'
      BY DEF UpdateInv, RanInv
    <3>2. ran' => Installed' = "new"
      BY <3>1 DEF Installed
    <3> QED BY <1>3, <3>2
  <2> QED BY <1>3, <2>1 DEF Atomic!Next, Atomic!Undo, Running
<1>4. Installed \in {"old", "new"} /\ Installed' \in {"old", "new"}
  BY DEF Installed
<1> QED BY <1>1, <1>2, <1>3, <1>4

LEMMA GoneMaps ==
    ASSUME UpdateInv, UpdateInv', Gone
    PROVE  [Atomic!Next]_(Atomic!vars)
<1>1. Installed' = Installed
  BY DEF Gone, Installed, Whole, Version
<1>2. Running' = "none" /\ ran' = ran
  BY DEF Gone, Running
<1>3. CASE Running = "none"
  BY <1>2, <1>3, QuietMaps
<1>4. CASE Running # "none"
  <2>1. Atomic!Stop
    BY <1>1, <1>2, <1>4 DEF Atomic!Stop, Running
  <2> QED BY <2>1 DEF Atomic!Next
<1> QED BY <1>3, <1>4

LEMMA UpMaps ==
    ASSUME mode = "startup", Up, Installed' = Installed
    PROVE  [Atomic!Next]_(Atomic!vars)
<1>1. Running = "none"
  BY DEF Running
<1>2. Running' = Installed
  BY DEF Up, Running
<1>3. ran' = (ran \/ Installed = "new")
  BY DEF Up
<1>4. Atomic!Start
  BY <1>1, <1>2, <1>3, Zenon DEF Atomic!Start, Running
<1> QED BY <1>4 DEF Atomic!Next

LEMMA ReturnMaps ==
    ASSUME UpdateInv, UpdateInv', mode \in {"startup", "install"},
           NEW r \in BOOLEAN, Return(r), Installed' = Installed
    PROVE  [Atomic!Next]_(Atomic!vars)
<1>1. CASE mode = "install"
  <2>1. Running' = Running /\ ran' = ran
    BY <1>1 DEF Return, InstallFailed, Running
  <2> QED BY <2>1, QuietMaps
<1>2. CASE mode = "startup" /\ Blocked
  <2>1. Running' = Running /\ ran' = ran
    BY <1>2 DEF Blocked, process, Running
  <2> QED BY <2>1, QuietMaps
<1>3. CASE mode = "startup" /\ Up
  BY <1>3, UpMaps
<1> QED BY <1>1, <1>2, <1>3 DEF Return, StartupDone

LEMMA GotoMaps ==
    ASSUME UpdateInv, UpdateInv', mode' = mode, UNCHANGED process
    PROVE  [Atomic!Next]_(Atomic!vars)
<1>1. Running' = Running /\ ran' = ran
  BY DEF process, Running
<1> QED BY <1>1, QuietMaps

LEMMA FilesMap == ASSUME UNCHANGED files PROVE Installed' = Installed
BY DEF files, Installed, Whole, Version

LEMMA RollOnMaps ==
    ASSUME UpdateInv, UpdateInv', step \in RollSteps, NEW good, RollOn(good)
    PROVE  [Atomic!Next]_(Atomic!vars)
<1>1. mode \in {"startup", "install"}
  BY RollSteady
<1>2. CASE mode' = mode /\ UNCHANGED process
  BY <1>2, GotoMaps
<1>3. CASE Return(FALSE)
  <2>1. Running' = Running /\ ran' = ran
    BY <1>1, <1>3 DEF Return, InstallFailed, Blocked, process, Running
  <2> QED BY <2>1, QuietMaps
<1> QED BY <1>2, <1>3, Zenon DEF RollOn, Goto

LEMMA SweepOnMaps ==
    ASSUME UpdateInv, UpdateInv', step \in DOMAIN Doomed, UNCHANGED files, SweepOn
    PROVE  [Atomic!Next]_(Atomic!vars)
<1>1. mode \in {"startup", "install"} /\ step \in {"finish", "sweep", "sweepQ", "unstage"}
  BY SweepSteps
<1>2. Installed' = Installed
  BY FilesMap
<1>3. CASE mode' = mode /\ UNCHANGED process
  BY <1>3, GotoMaps
<1>4. CASE Return(TRUE)
  BY <1>1, <1>2, <1>4, ReturnMaps
<1>5. CASE Return(FALSE)
  BY <1>1, <1>2, <1>5, ReturnMaps
<1>6. CASE at < N
  BY <1>3, <1>6 DEF SweepOn, Goto
<1>7. CASE ~(at < N)
  <2>1. AfterSweep
    BY <1>7 DEF SweepOn
  <2>2. CASE step = "finish"
    BY <1>3, <2>1, <2>2 DEF AfterSweep, Goto
  <2>3. CASE step = "sweep"
    BY <1>3, <2>1, <2>3 DEF AfterSweep, Goto
  <2>4. CASE step = "sweepQ"
    BY <1>3, <1>4, <2>1, <2>4 DEF AfterSweep, Goto
  <2>5. CASE step = "unstage"
    BY <1>5, <2>1, <2>5 DEF AfterSweep
  <2> QED BY <1>1, <2>2, <2>3, <2>4, <2>5
<1> QED BY <1>6, <1>7

LEMMA RecoverMaps ==
    ASSUME UpdateInv, UpdateInv', Recover PROVE [Atomic!Next]_(Atomic!vars)
<1>1. CASE RecoverNothing
  <2>1. mode = "startup" /\ journal = "none" /\ UNCHANGED <<disk, journal>>
    BY <1>1 DEF RecoverNothing
  <2>2. Installed' = Installed
    BY <2>1 DEF Installed, Whole, Version
  <2>3. Blocked \/ StartupDone
    BY <1>1 DEF RecoverNothing
  <2>4. Return(TRUE) \/ Return(FALSE)
    BY <2>1, <2>3 DEF Return
  <2> QED BY <2>1, <2>2, <2>4, ReturnMaps
<1>2. CASE RecoverJournal
  <2>1. mode = "startup" /\ UNCHANGED files
    BY <1>2 DEF RecoverJournal
  <2>2. CASE Blocked
    <3>1. Return(FALSE)
      BY <2>1, <2>2 DEF Return
    <3> QED BY <2>1, <3>1, FilesMap, ReturnMaps
  <2>3. CASE mode' = mode /\ UNCHANGED process
    BY <2>3, GotoMaps
  <2> QED BY <1>2, <2>2, <2>3 DEF RecoverJournal, Goto
<1> QED BY <1>1, <1>2 DEF Recover

LEMMA SweepMaps ==
    ASSUME UpdateInv, UpdateInv', Sweep PROVE [Atomic!Next]_(Atomic!vars)
<1>1. CASE SweepFile
  BY <1>1, GotoMaps DEF SweepFile, control
<1>2. CASE SweepNext
  BY <1>2, SweepOnMaps DEF SweepNext
<1>3. CASE SweepRefused
  <2>1. step \in DOMAIN Doomed /\ UNCHANGED files
    BY <1>3 DEF SweepRefused
  <2>2. mode \in {"startup", "install"} /\ (step = "finish" => mode = "startup")
    BY <2>1, SweepSteps
  <2>3. SweepOn \/ (step = "finish" /\ Blocked) \/ Return(FALSE)
    BY <1>3, Zenon DEF SweepRefused
  <2>4. step = "finish" /\ Blocked => Return(FALSE)
    BY <2>2 DEF Return
  <2>5. CASE SweepOn
    BY <2>1, <2>5, SweepOnMaps
  <2>6. CASE Return(FALSE)
    BY <2>1, <2>2, <2>6, FilesMap, ReturnMaps
  <2> QED BY <2>3, <2>4, <2>5, <2>6
<1>4. CASE RemoveJournal
  <2>1. /\ UNCHANGED <<disk, marker>>
        /\ step \in {"finishJournal", "rollJournal", "stageJournal"}
    BY <1>4 DEF RemoveJournal
  <2>2. /\ mode \in {"startup", "install"}
        /\ step = "rollJournal" => Whole("old")
    BY <2>1, StepModes DEF UpdateInv, StepInv, RolledSteps
  <2>3. CASE mode' = mode /\ UNCHANGED process
    BY <2>3, GotoMaps
  <2>4. CASE journal' = journal /\ Return(FALSE)
    <3>1. Installed' = Installed
      BY <2>1, <2>4 DEF Installed, Whole, Version
    <3> QED BY <2>2, <2>4, <3>1, ReturnMaps
  <2>5. CASE step = "rollJournal" /\ Return(TRUE)
    <3>1. ~Whole("new") /\ ~Whole("new")'
      BY <2>1, <2>2, <2>5, Versions, WholeKept
    <3>2. Installed' = Installed
      BY <3>1 DEF Installed
    <3> QED BY <2>2, <2>5, <3>2, ReturnMaps
  <2> QED BY <1>4, <2>3, <2>4, <2>5 DEF RemoveJournal, Goto
<1>5. CASE RemoveMarker
  <2>1. /\ UNCHANGED <<disk, journal>> /\ step \in {"finishMarker", "rollMarker"}
    BY <1>5 DEF RemoveMarker
  <2>2. /\ mode \in {"startup", "install"}
        /\ step = "finishMarker" => journal = "none"
    BY <2>1, StepModes DEF UpdateInv, StepInv
  <2>3. CASE mode' = mode /\ UNCHANGED process
    BY <2>3, GotoMaps
  <2>4. CASE marker' = marker /\ Return(FALSE)
    <3>1. Installed' = Installed
      BY <2>1, <2>4 DEF Installed, Whole, Version
    <3> QED BY <2>2, <2>4, <3>1, ReturnMaps
  <2>5. CASE step = "finishMarker" /\ Return(TRUE)
    <3>1. Installed' = Installed
      BY <2>1, <2>2, <2>5 DEF Installed, Whole, Version
    <3> QED BY <2>2, <2>5, <3>1, ReturnMaps
  <2> QED BY <1>5, <2>3, <2>4, <2>5 DEF RemoveMarker, Goto
<1> QED BY <1>1, <1>2, <1>3, <1>4, <1>5 DEF Sweep

LEMMA RollbackMaps ==
    ASSUME UpdateInv, UpdateInv', Rollback PROVE [Atomic!Next]_(Atomic!vars)
<1>1. CASE RollKeep
  <2>1. step \in RollSteps
    BY <1>1 DEF RollKeep, RollSteps
  <2> QED BY <1>1, <2>1, RollOnMaps, Zenon DEF RollKeep
<1>2. CASE RollAside
  <2>1. step \in RollSteps
    BY <1>2 DEF RollAside, RollSteps
  <2>2. CASE mode' = mode /\ UNCHANGED process
    BY <2>2, GotoMaps
  <2>3. CASE RollOn(FALSE)
    BY <2>1, <2>3, RollOnMaps
  <2> QED BY <1>2, <2>2, <2>3, Zenon DEF RollAside, Goto
<1>3. CASE RollBack
  <2>1. step \in RollSteps
    BY <1>3 DEF RollBack, RollSteps
  <2>2. RollOn(TRUE) \/ RollOn(FALSE)
    BY <1>3, Zenon DEF RollBack
  <2> QED BY <2>1, <2>2, RollOnMaps
<1> QED BY <1>1, <1>2, <1>3 DEF Rollback

LEMMA InstallMaps ==
    ASSUME UpdateInv, UpdateInv', BeginInstall \/ Install
    PROVE  [Atomic!Next]_(Atomic!vars)
<1>1. ran' = ran /\ session' = session
  BY DEF BeginInstall, Install, StageImage, WriteJournal, Backup, Promote, Swap,
     Verify, Commit, process
<1>2. mode \in {"up", "install"}
  <2>1. step \in InstallSteps => mode = "install"
    BY DEF UpdateInv, StepInv
  <2> QED BY <2>1 DEF BeginInstall, Install, StageImage, WriteJournal, Backup, Promote,
     Swap, Verify, Commit, InstallSteps, StageSteps, SwapSteps
<1>3. mode' \in {mode, "up", "install"}
  BY DEF BeginInstall, Install, StageImage, WriteJournal, Backup, Promote, Swap,
     Verify, Commit, Goto
<1>4. Running' = Running
  BY <1>1, <1>2, <1>3 DEF Running
<1> QED BY <1>1, <1>4, QuietMaps

LEMMA NextMaps ==
    ASSUME UpdateInv, UpdateInv', [Next]_vars PROVE [Atomic!Next]_(Atomic!vars)
<1>1. CASE Launch
  <2>1. Running' = Running /\ ran' = ran
    BY <1>1 DEF Launch, Running
  <2> QED BY <2>1, QuietMaps
<1>2. CASE Exit \/ Crash
  BY <1>2, GoneMaps DEF Exit, Crash
<1>3. CASE SettleUi \/ \E i \in Images : LoadProvider(i)
  <2>1. Running' = Running /\ ran' = ran
    BY <1>3 DEF SettleUi, LoadProvider, control, Running
  <2> QED BY <2>1, QuietMaps
<1>4. CASE UNCHANGED vars
  <2>1. mode' = mode /\ UNCHANGED process
    BY <1>4 DEF vars, control
  <2> QED BY <2>1, GotoMaps
<1> QED BY <1>1, <1>2, <1>3, <1>4, RecoverMaps, SweepMaps, RollbackMaps, InstallMaps
        DEF Next

(* The replacement of the images implements an atomic one (Updater.cpp:    *)
(* "all four native-runtime images or none").                              *)
THEOREM UpdateAtomic == Spec => AtomicUpdate
<1>1. Init => Atomic!Init
  <2> SUFFICES ASSUME Init PROVE Atomic!Init
    OBVIOUS
  <2>1. ~Whole("new")
    <3>1. \A i \in Images : disk["live"][i] = "old"
      BY DEF Init, Slots
    <3>2. Whole("old")
      BY <3>1 DEF Whole, Version
    <3> QED BY <3>2, Versions
  <2> QED BY <2>1 DEF Init, Atomic!Init, Installed
<1>2. UpdateInv /\ UpdateInv' /\ [Next]_vars => [Atomic!Next]_(Atomic!vars)
  BY NextMaps
<1> QED BY <1>1, <1>2, UpdateInvariant, PTL DEF Spec, AtomicUpdate, Atomic!Spec
=============================================================================

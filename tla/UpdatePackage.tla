--------------------------- MODULE UpdatePackage ---------------------------
(***************************************************************************)
(* The updater's replacement of the runtime images (net/UpdatePackage.cpp) *)
(* and the lifecycle gate between it and the loaders of the companions     *)
(* (net/RuntimeImages.h).                                                  *)
(*                                                                         *)
(* The worker stages every image, writes a journal, renames the installed  *)
(* images aside and the staged ones into their place, verifies, and writes *)
(* a commit marker.  The next launch finishes a committed update or rolls  *)
(* an uncommitted one back before any companion is loaded.  Every file     *)
(* operation is a step: the process may die before each, and each may be   *)
(* refused.  The code runs inside the core image: what is not there cannot *)
(* recover itself.                                                         *)
(***************************************************************************)
EXTENDS Integers, FiniteSets

CONSTANTS
    N,          \* number of images: kComponentNames
    Same,       \* images the new version does not change
    MaxCrashes, \* bound: deaths of the process
    MaxFaults   \* bound: file operations refused

Core == 1       \* KenshiCoop.dll
Ui == 2         \* KenshiCoopUI.dll
Images == 1..N

ASSUME UpdateAssumption ==
    /\ N \in Nat /\ N >= 2
    /\ Same \subseteq Images /\ Same # Images
    /\ MaxCrashes \in Nat /\ MaxFaults \in Nat

(* An image is known by its hash.  "live" is the name the loader looks for, *)
(* the other slots are the suffixes the transaction adds to it.             *)
Hashes == {"none", "torn", "old", "new"}
Slots == {"live", "old", "new", "quarantine"}
Version(v, i) == IF i \in Same THEN "old" ELSE v

VARIABLES
    disk,        \* disk[s][i]: the image in slot s
    journal,     \* .kenshicoop-update.txn: "none", "torn" or "valid"
    marker,      \* .kenshicoop-update.committed
    mapped,      \* <<slot, image>> of the files this process has mapped
    mode,        \* "off", "startup", "up", "install" or "blocked"
    step, at, ok,\* where the transaction is; ok is the code's flag
    loaded,      \* the image this process loaded, by its hash
    uiSettled,   \* RuntimeImageState::uiSettled
    restartOnly, \* RuntimeImageState::restartOnly
    tried,       \* g_thread: one attempt in a process
    session,     \* history: the version found by the session that is up
    ran,         \* history: a session has run the new version
    crashes, faults

files   == <<disk, journal, marker, mapped>>
control == <<mode, step, at, ok>>
process == <<loaded, uiSettled, restartOnly, tried, session, ran>>
bounds  == <<crashes, faults>>
vars == <<files, control, process, bounds>>

-----------------------------------------------------------------------------
Whole(v) == \A i \in Images : disk["live"][i] = Version(v, i)
Leftover == {f \in (Slots \ {"live"}) \X Images : disk[f[1]][f[2]] # "none"}
Pending == journal # "none" \/ marker # "none" \/ Leftover # {}

(* What the files amount to: an update counts from its marker on, and from *)
(* the removal of the journal for good.                                    *)
Installed ==
    IF Whole("new") /\ (journal = "none" \/ marker = "valid")
    THEN "new" ELSE "old"

Init ==
    /\ disk = [s \in Slots |-> [i \in Images |->
                                IF s = "live" THEN "old" ELSE "none"]]
    /\ journal = "none" /\ marker = "none" /\ mapped = {}
    /\ mode = "off" /\ step = "idle" /\ at = 0 /\ ok = TRUE
    /\ loaded = [i \in Images |-> "none"]
    /\ uiSettled = FALSE /\ restartOnly = FALSE /\ tried = FALSE
    /\ session = "none" /\ ran = FALSE
    /\ crashes = 0 /\ faults = 0

Fault == faults < MaxFaults /\ faults' = faults + 1 /\ UNCHANGED crashes
NoFault == UNCHANGED bounds

Goto(s, i) == step' = s /\ at' = i /\ UNCHANGED mode

(* moveFile without replacement: a mapped image may be renamed.            *)
Move(s, t, i) ==
    /\ disk[t][i] = "none"
    /\ disk' = [disk EXCEPT ![s][i] = "none", ![t][i] = disk[s][i]]
    /\ mapped' = {IF f = <<s, i>> THEN <<t, i>> ELSE f : f \in mapped}

Remove(s, i) == /\ <<s, i>> \notin mapped
                /\ disk' = [disk EXCEPT ![s][i] = "none"]

(* A removal is refused by a fault, or because the image is mapped.        *)
Refused(s, i) == /\ disk[s][i] # "none"
                 /\ IF <<s, i>> \in mapped THEN NoFault ELSE Fault

-----------------------------------------------------------------------------
(* The process.                                                            *)
Launch ==
    /\ mode = "off" /\ disk["live"][Core] # "none"
    /\ mode' = "startup" /\ step' = "decide" /\ at' = 0 /\ ok' = TRUE
    /\ mapped' = {<<"live", Core>>}
    /\ loaded' = [loaded EXCEPT ![Core] = disk["live"][Core]]
    /\ UNCHANGED <<disk, journal, marker, uiSettled, restartOnly, tried,
                   session, ran, bounds>>

Gone == /\ mode' = "off" /\ step' = "idle" /\ at' = 0 /\ ok' = TRUE
        /\ mapped' = {} /\ loaded' = [i \in Images |-> "none"]
        /\ uiSettled' = FALSE /\ restartOnly' = FALSE /\ tried' = FALSE
        /\ session' = "none"
        /\ UNCHANGED <<disk, journal, marker, ran>>

Exit == mode \in {"up", "blocked"} /\ Gone /\ UNCHANGED bounds
Crash == /\ mode # "off" /\ crashes < MaxCrashes /\ crashes' = crashes + 1
         /\ Gone /\ UNCHANGED faults

(* Fault: the gate is not asked.                                           *)
LoadUngated(i) == loaded' = [loaded EXCEPT ![i] = disk["live"][i]]
                  /\ mapped' = mapped \union {<<"live", i>>}

(* RuntimeImageLoadGuard: the lock is free outside of an install.          *)
LoadGuarded(i) ==
    IF restartOnly THEN UNCHANGED <<loaded, mapped>>
    ELSE /\ loaded' = [loaded EXCEPT ![i] = disk["live"][i]]
         /\ mapped' = mapped \union {<<"live", i>>}

\* The first UI attempt settles the gate, whether the UI loads or not.
SettleUi ==
    /\ mode = "up" /\ ~uiSettled /\ uiSettled' = TRUE
    /\ LoadGuarded(Ui) \/ UNCHANGED <<loaded, mapped>>
    /\ UNCHANGED <<disk, journal, marker, control, restartOnly, tried,
                   session, ran, bounds>>

LoadProvider(i) ==
    /\ mode = "up" /\ i \notin {Core, Ui} /\ loaded[i] = "none"
    /\ LoadGuarded(i)
    /\ UNCHANGED <<disk, journal, marker, control, uiSettled, restartOnly,
                   tried, session, ran, bounds>>

-----------------------------------------------------------------------------
(* Results: startup goes on or is blocked, an install ends in the session. *)
Up == /\ mode' = "up" /\ step' = "idle" /\ at' = 0
      /\ session' = Installed'
      /\ ran' = (ran \/ Installed' = "new")
      /\ UNCHANGED <<loaded, uiSettled, restartOnly, tried>>
Blocked == /\ mode' = "blocked" /\ step' = "idle" /\ at' = 0
           /\ UNCHANGED process

\* recoverPackageForStartup: a restored core needs a process of its own.
StartupDone == IF loaded[Core] = disk'["live"][Core] THEN Up ELSE Blocked

\* threadEntry after installPackage has failed.
InstallFailed == /\ mode' = "up" /\ step' = "idle" /\ at' = 0
                 /\ restartOnly' = Pending'
                 /\ UNCHANGED <<loaded, uiSettled, tried, session, ran>>

Return(r) ==
    IF mode = "install" THEN InstallFailed
    ELSE IF r THEN StartupDone ELSE Blocked

-----------------------------------------------------------------------------
(* recoverPackage.                                                         *)
RecoverNothing ==
    /\ mode = "startup" /\ step = "decide" /\ journal = "none"
    /\ UNCHANGED <<disk, journal, mapped, ok>>
    /\ \/ /\ Leftover # {} /\ Blocked /\ UNCHANGED <<marker, bounds>>
       \/ /\ Leftover = {} /\ marker' = "none" /\ NoFault /\ StartupDone
       \/ /\ Leftover = {} /\ marker # "none" /\ Fault /\ Blocked
          /\ UNCHANGED marker

RecoverJournal ==
    /\ mode = "startup" /\ step = "decide" /\ journal # "none"
    /\ \/ /\ journal = "torn" /\ Blocked /\ NoFault
       \/ /\ journal = "valid" /\ marker = "valid" /\ NoFault
          /\ IF Whole("new") THEN Goto("finish", 1) /\ UNCHANGED process
             ELSE Blocked
       \/ /\ journal = "valid"
          /\ IF marker = "valid" THEN Fault ELSE NoFault   \* unreadable
          /\ Goto("roll", N) /\ UNCHANGED process
    /\ UNCHANGED <<files, ok>>

(* The loops that remove files: for each image the slots of Doomed[step] in *)
(* this order.  "finish" is finishCommit's, "sweep" and "sweepQ" are        *)
(* rollback's, "unstage" is that of an install that failed early.           *)
Doomed == [finish  |-> <<"old", "new">>,
           sweep   |-> <<"new", "old">>,
           sweepQ  |-> <<"quarantine", "quarantine">>,
           unstage |-> <<"new", "new">>]

Victim == IF disk[Doomed[step][1]][at] # "none"
          THEN Doomed[step][1] ELSE Doomed[step][2]

(* Fault: a finished commit removes its marker before the journal.         *)
AfterSweepMarkerFirst ==
    CASE step = "finish"  -> Goto("rollMarker", 0) /\ UNCHANGED process
      [] step = "sweep"   -> Goto("sweepQ", 1) /\ UNCHANGED process
      [] step = "unstage" -> Return(FALSE)
      [] step = "sweepQ"  -> IF ok' THEN Goto("rollMarker", 0) /\ UNCHANGED process
                             ELSE Return(TRUE)

AfterSweep ==
    CASE step = "finish"  -> Goto("finishJournal", 0) /\ UNCHANGED process
      [] step = "sweep"   -> Goto("sweepQ", 1) /\ UNCHANGED process
      [] step = "unstage" -> Return(FALSE)
      [] step = "sweepQ"  -> IF ok' THEN Goto("rollMarker", 0) /\ UNCHANGED process
                             ELSE Return(TRUE)

SweepOn == IF at < N THEN Goto(step, at + 1) /\ UNCHANGED process
           ELSE AfterSweep

SweepFile ==
    /\ step \in DOMAIN Doomed /\ disk[Victim][at] # "none"
    /\ Remove(Victim, at) /\ NoFault
    /\ UNCHANGED <<journal, marker, mapped, control, process>>

(* Fault: backups that stay after a commit are left for later.              *)
SweepRefusedIgnored ==
    /\ step \in DOMAIN Doomed /\ Refused(Victim, at)
    /\ UNCHANGED files
    /\ \/ step = "finish" /\ Return(TRUE) /\ UNCHANGED ok
       \/ step = "sweep" /\ Return(FALSE) /\ UNCHANGED ok
       \/ step = "sweepQ" /\ ok' = FALSE /\ SweepOn
       \/ step = "unstage" /\ UNCHANGED ok /\ SweepOn

\* A file that stays ends finishCommit and rollback, except a quarantine.
SweepRefused ==
    /\ step \in DOMAIN Doomed /\ Refused(Victim, at)
    /\ UNCHANGED files
    /\ \/ step = "finish" /\ Blocked /\ UNCHANGED ok
       \/ step = "sweep" /\ Return(FALSE) /\ UNCHANGED ok
       \/ step = "sweepQ" /\ ok' = FALSE /\ SweepOn
       \/ step = "unstage" /\ UNCHANGED ok /\ SweepOn

SweepNext ==
    /\ step \in DOMAIN Doomed /\ disk[Victim][at] = "none"
    /\ NoFault /\ UNCHANGED <<files, ok>> /\ SweepOn

(* The journal and the marker go last: the journal first when the update is *)
(* committed, the marker first when it is rolled back.                      *)
RemoveJournal ==
    /\ step \in {"finishJournal", "rollJournal", "stageJournal"}
    /\ UNCHANGED <<disk, marker, mapped, ok>>
    /\ \/ /\ journal' = "none" /\ NoFault
          /\ \/ step = "finishJournal" /\ Goto("finishMarker", 0) /\ UNCHANGED process
             \/ step = "rollJournal" /\ Return(TRUE)
             \/ step = "stageJournal" /\ Goto("unstage", 1) /\ UNCHANGED process
       \/ /\ journal # "none" /\ Fault /\ UNCHANGED journal
          /\ \/ step \in {"finishJournal", "rollJournal"} /\ Return(FALSE)
             \/ step = "stageJournal" /\ Goto("unstage", 1) /\ UNCHANGED process

RemoveMarker ==
    /\ step \in {"finishMarker", "rollMarker"}
    /\ UNCHANGED <<disk, journal, mapped, ok>>
    /\ \/ /\ marker' = "none" /\ NoFault
          /\ \/ step = "finishMarker" /\ Return(TRUE)
             \/ step = "rollMarker" /\ Goto("rollJournal", 0) /\ UNCHANGED process
       \/ marker # "none" /\ Fault /\ Return(FALSE) /\ UNCHANGED marker

-----------------------------------------------------------------------------
(* rollback: from the last image to the first, going on after a failure.   *)
RollOn(good) ==
    /\ ok' = (ok /\ good)
    /\ IF at > 1 THEN Goto("roll", at - 1) /\ UNCHANGED process
       ELSE IF ok' THEN Goto("sweep", 1) /\ UNCHANGED process
       ELSE Return(FALSE)

Foreign(i) == disk["quarantine"][i] \notin {"none", Version("new", i)}
HasBackup(i) == disk["old"][i] # "none"
Restored(i) == disk["live"][i] = Version("old", i)

(* Fault: an image that was already put back counts as a failure.          *)
RollKeepStrict ==
    /\ step = "roll" /\ UNCHANGED files
    /\ \/ /\ Foreign(at) \/ ~HasBackup(at) \/ Restored(at)
          /\ NoFault /\ RollOn(HasBackup(at) /\ Restored(at))
       \/ Fault /\ RollOn(FALSE)

\* Nothing to put back, or nothing that may be: the image stays as it is.
RollKeep ==
    /\ step = "roll" /\ UNCHANGED files
    /\ \/ /\ Foreign(at) \/ ~HasBackup(at) \/ Restored(at)
          /\ NoFault /\ RollOn(~Foreign(at) /\ Restored(at))
       \/ Fault /\ RollOn(FALSE)

\* The promoted image is set aside, then the backup takes its place.
RollAside ==
    /\ UNCHANGED <<journal, marker>>
    /\ step = "roll" /\ ~Foreign(at) /\ HasBackup(at) /\ ~Restored(at)
    /\ disk["live"][at] # "none"
    /\ IF disk["live"][at] = Version("new", at) /\ disk["quarantine"][at] = "none"
       THEN \/ /\ Move("live", "quarantine", at) /\ NoFault
               /\ Goto("restore", at) /\ UNCHANGED <<ok, process>>
            \/ UNCHANGED <<disk, mapped>> /\ Fault /\ RollOn(FALSE)
       ELSE UNCHANGED <<disk, mapped>> /\ NoFault /\ RollOn(FALSE)

RollBack ==
    /\ UNCHANGED <<journal, marker>>
    /\ \/ step = "restore"
       \/ /\ step = "roll" /\ ~Foreign(at) /\ HasBackup(at)
          /\ disk["live"][at] = "none"
    /\ \/ Move("old", "live", at) /\ NoFault /\ RollOn(TRUE)
       \/ UNCHANGED <<disk, mapped>> /\ Fault /\ RollOn(FALSE)

-----------------------------------------------------------------------------
(* installPackage.                                                         *)
BeginInstall ==
    /\ mode = "up" /\ uiSettled /\ ~tried /\ ~restartOnly
    /\ ~Whole("new")
    /\ tried' = TRUE /\ restartOnly' = TRUE
    /\ IF Pending THEN UNCHANGED <<mode, step, at>>
       ELSE mode' = "install" /\ step' = "stage" /\ at' = 1
    /\ ok' = TRUE
    /\ UNCHANGED <<files, loaded, uiSettled, session, ran, bounds>>

\* writeFile is two steps: a death in between leaves a torn file.
StageImage ==
    /\ step \in {"stage", "staging"}
    /\ \/ /\ step = "stage" /\ NoFault /\ Goto("staging", at)
          /\ disk' = [disk EXCEPT !["new"][at] = "torn"]
       \/ /\ step = "staging" /\ NoFault
          /\ disk' = [disk EXCEPT !["new"][at] = Version("new", at)]
          /\ IF at < N THEN Goto("stage", at + 1) ELSE Goto("journal", 0)
       \/ /\ Fault /\ Goto("unstage", 1)
          /\ \/ UNCHANGED disk
             \/ /\ step = "staging"
                /\ disk' = [disk EXCEPT !["new"][at] = Version("new", at)]
    /\ UNCHANGED <<journal, marker, mapped, ok, process>>

WriteJournal ==
    /\ step \in {"journal", "journaling"}
    /\ \/ step = "journal" /\ NoFault /\ journal' = "torn" /\ Goto("journaling", 0)
       \/ step = "journaling" /\ NoFault /\ journal' = "valid" /\ Goto("backup", 1)
       \/ /\ Fault /\ Goto("stageJournal", 0)
          /\ \/ UNCHANGED journal
             \/ step = "journaling" /\ journal' = "valid"
    /\ UNCHANGED <<disk, marker, mapped, ok, process>>

Swap(here, from, to, next) ==
    /\ step = here
    /\ \/ /\ Move(from, to, at) /\ NoFault
          /\ IF at < N THEN Goto(here, at + 1) ELSE next
       \/ UNCHANGED <<disk, mapped>> /\ Fault /\ Goto("roll", N)
    /\ UNCHANGED <<journal, marker, ok, process>>

Backup == Swap("backup", "live", "old", Goto("promote", 1))
Promote == Swap("promote", "new", "live", Goto("verify", 0))

Verify ==
    /\ step = "verify" /\ UNCHANGED <<files, ok, process>>
    /\ \/ Whole("new") /\ NoFault /\ Goto("mark", 0)
       \/ Fault /\ Goto("roll", N)

Commit ==
    /\ step \in {"mark", "marking"}
    /\ \/ step = "mark" /\ NoFault /\ marker' = "torn" /\ Goto("marking", 0)
       \/ /\ step = "marking" /\ NoFault /\ marker' = "valid"
          /\ mode' = "up" /\ step' = "idle" /\ at' = 0
       \/ /\ Fault /\ Goto("roll", N)
          /\ \/ UNCHANGED marker
             \/ step = "marking" /\ marker' = "valid"
    /\ UNCHANGED <<disk, journal, mapped, ok, process>>

-----------------------------------------------------------------------------
Recover == RecoverNothing \/ RecoverJournal
Sweep == SweepFile \/ SweepRefused \/ SweepNext \/ RemoveJournal \/ RemoveMarker
Rollback == RollKeep \/ RollAside \/ RollBack
Install == StageImage \/ WriteJournal \/ Backup \/ Promote \/ Verify \/ Commit

Next == \/ Launch \/ Exit \/ Crash
        \/ SettleUi \/ (\E i \in Images : LoadProvider(i))
        \/ Recover \/ Sweep \/ Rollback \/ BeginInstall \/ Install

Spec == Init /\ [][Next]_vars

\* The machine goes on, the game is quit and launched again.
FairSpec == /\ Spec
            /\ WF_vars(Recover \/ Sweep \/ Rollback \/ Install)
            /\ WF_vars(Launch) /\ WF_vars(Exit)

-----------------------------------------------------------------------------
TypeOK ==
    /\ disk \in [Slots -> [Images -> Hashes]]
    /\ journal \in {"none", "torn", "valid"}
    /\ marker \in {"none", "torn", "valid"}
    /\ mapped \subseteq Slots \X Images
    /\ mode \in {"off", "startup", "up", "install", "blocked"}
    /\ step \in {"idle", "decide", "finishJournal", "finishMarker", "rollMarker",
                 "rollJournal", "stageJournal", "roll", "restore", "stage",
                 "staging", "journal", "journaling", "backup", "promote",
                 "verify", "mark", "marking"} \union DOMAIN Doomed
    /\ at \in 0..N /\ ok \in BOOLEAN
    /\ loaded \in [Images -> Hashes]
    /\ uiSettled \in BOOLEAN /\ restartOnly \in BOOLEAN /\ tried \in BOOLEAN
    /\ session \in {"none", "old", "new"} /\ ran \in BOOLEAN
    /\ crashes \in 0..MaxCrashes /\ faults \in 0..MaxFaults

(* A session never runs images of two versions, whatever is renamed under  *)
(* it and wherever an earlier process died (RuntimeImages.h, and the       *)
(* startup barrier of UpdatePackage.h).                                    *)
OneVersion ==
    mode \in {"up", "install"} =>
        \A i \in Images : loaded[i] \in {"none", Version(session, i)}

(* The dead ends of a recovery: no core image to run it, and a commit      *)
(* marker over images already put back, left by a write of it that was     *)
(* reported as failed or by a launch that could not read it.               *)
CoreGone == disk["live"][Core] = "none"
MarkerAstray == marker = "valid" /\ ~Whole("new")

(* Short of a marker gone astray, the images of the version the files      *)
(* amount to are all still there, in place or set aside (UpdatePackage.h:  *)
(* "Never discards an incomplete rollback's backup").                      *)
Recoverable ==
    ~MarkerAstray =>
        \A i \in Images :
            Version(Installed, i) \in {disk["live"][i], disk["old"][i]}

(* The transaction implements an atomic replacement of the package.        *)
Atomic == INSTANCE AtomicPackage WITH
              installed <- Installed,
              running <- IF mode \in {"up", "install"} THEN session ELSE "none"
AtomicUpdate == Atomic!Spec

(* An update that was begun is finished or undone by some later launch,    *)
(* unless it is at a dead end (BUILD_SETUP.md: "incomplete transactions recover *)
(* before companions load").                                               *)
Recovers == (journal = "valid") ~> (journal # "valid" \/ CoreGone \/ MarkerAstray)
=============================================================================

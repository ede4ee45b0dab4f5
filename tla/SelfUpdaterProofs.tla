--------------------------- MODULE SelfUpdaterProofs ---------------------------
(***************************************************************************)
(* What the update keeps for every set of files, wherever it fails or the  *)
(* machine stops: the shape of the state, an update that is whole, and no  *)
(* file lost where no second instance sweeps.  Where Windows keeps files   *)
(* in use, nothing is lost whoever sweeps, and a rollback is complete.     *)
(***************************************************************************)
EXTENDS SelfUpdater, TLAPS

DiskOK ==
    /\ at \in [File -> Release] /\ old \in [File -> Release]
    /\ \A f \in Plain : old[f] = 0

ProcOK ==
    /\ pc \in [Procs -> Names]
    /\ pc["child"] \in {"sweep", "idle"} \cup Dead
    /\ loaded \in [Procs -> [Locked -> Release]]
    /\ sweep \in [Procs -> SUBSET Locked]

\* Only a file that is renamed is ever put aside, removed or renamed back.
WorkOK ==
    /\ todo \subseteq File /\ cur \in File
    /\ outcome \in {"none", "failed", "not started", "died", "updated",
                    "rolled back", "restore failed"}
    /\ pc["main"] \in {"swap", "remove", "rename"} => todo \subseteq Locked
    /\ pc["main"] \in {"aside", "replace", "remove", "rename"} => cur \in Locked

FlagOK == backup \in BOOLEAN /\ windows \in BOOLEAN /\ second \in BOOLEAN

LEMMA Releases == 0 \in Release /\ 2 \in Release
BY DEF Release

\* A file that is renamed is a file of the archive, and not a plain one.
LEMMA LockedFiles == Exe \in Locked /\ Libs \subseteq Locked /\ Locked \subseteq File /\ Locked \cap Plain = {}
BY UpdaterAssumption, Zenon DEF UpdaterAssumption, Locked, File

LEMMA ProcNames ==
    ASSUME ProcOK PROVE pc["main"] \in Names /\ pc["child"] \in Names /\ pc["second"] \in Names
BY DEF ProcOK, Procs

LEMMA BothOf ==
    ASSUME NEW f, NEW m, NEW c
    PROVE  /\ Both(f, m, c)["main"] = m /\ Both(f, m, c)["child"] = c
           /\ Both(f, m, c)["second"] = f["second"]
BY DEF Both, Procs

LEMMA DiskOKStart ==
    ASSUME DiskOK, ProcOK, WorkOK, NEW p \in Procs, Start(p)
    PROVE  DiskOK'
BY DEF DiskOK, ProcOK, WorkOK, File, Locked, Release, Start, Main, GiveUp, Goto, disk, work, Launch

LEMMA DiskOKSweep ==
    ASSUME DiskOK, ProcOK, WorkOK, NEW p \in Procs, NEW f \in Locked, Sweep(p, f)
    PROVE  DiskOK'
<1>1. at' \in [File -> Release]
    BY Releases, LockedFiles DEF DiskOK, WorkOK, Sweep, Main, GiveUp, disk, work
<1>2. old' \in [File -> Release]
    BY Releases, LockedFiles DEF DiskOK, WorkOK, Sweep, Main, GiveUp, disk, work
<1>3. ASSUME NEW x \in Plain PROVE old'[x] = 0
    <2>1. x \in File /\ x \notin Locked /\ old[x] = 0
        BY LockedFiles DEF DiskOK, File
    <2> QED BY <2>1, LockedFiles DEF DiskOK, WorkOK, Sweep, Main, GiveUp, disk, work
<1> QED BY <1>1, <1>2, <1>3 DEF DiskOK

LEMMA DiskOKSwept ==
    ASSUME DiskOK, ProcOK, WorkOK, NEW p \in Procs, Swept(p)
    PROVE  DiskOK'
BY DEF DiskOK, ProcOK, WorkOK, File, Locked, Release, Swept, Main, GiveUp, Goto, disk, work

LEMMA DiskOKEnd ==
    ASSUME DiskOK, ProcOK, WorkOK, NEW p \in Procs, NEW how \in Dead, End(p, how)
    PROVE  DiskOK'
BY DEF DiskOK, ProcOK, WorkOK, File, Locked, Release, End, Main, GiveUp, Goto, disk, work

LEMMA DiskOKDownload ==
    ASSUME DiskOK, ProcOK, WorkOK, NEW good \in BOOLEAN, Download(good)
    PROVE  DiskOK'
BY DEF DiskOK, ProcOK, WorkOK, File, Locked, Release, Download, Main, GiveUp, Goto, disk, work

LEMMA DiskOKNextEntry ==
    ASSUME DiskOK, ProcOK, WorkOK, NEW f \in File, NextEntry(f)
    PROVE  DiskOK'
BY DEF DiskOK, ProcOK, WorkOK, File, Locked, Release, NextEntry, Main, GiveUp, Goto, disk, work

LEMMA DiskOKExtractionFails ==
    ASSUME DiskOK, ProcOK, WorkOK, ExtractionFails
    PROVE  DiskOK'
BY DEF DiskOK, ProcOK, WorkOK, File, Locked, Release, ExtractionFails, Main, GiveUp, Goto, disk, work

LEMMA DiskOKUnlink ==
    ASSUME DiskOK, ProcOK, WorkOK, Unlink
    PROVE  DiskOK'
<1>1. at' \in [File -> Release]
    BY Releases, LockedFiles DEF DiskOK, WorkOK, Unlink, Main, GiveUp, disk, work
<1>2. old' \in [File -> Release]
    BY Releases, LockedFiles DEF DiskOK, WorkOK, Unlink, Main, GiveUp, disk, work
<1>3. ASSUME NEW x \in Plain PROVE old'[x] = 0
    <2>1. x \in File /\ x \notin Locked /\ old[x] = 0
        BY LockedFiles DEF DiskOK, File
    <2> QED BY <2>1, LockedFiles DEF DiskOK, WorkOK, Unlink, Main, GiveUp, disk, work
<1> QED BY <1>1, <1>2, <1>3 DEF DiskOK

LEMMA DiskOKAside ==
    ASSUME DiskOK, ProcOK, WorkOK, Aside
    PROVE  DiskOK'
<1>1. at' \in [File -> Release]
    BY Releases, LockedFiles DEF DiskOK, WorkOK, Aside, Main, GiveUp, disk, work
<1>2. old' \in [File -> Release]
    BY Releases, LockedFiles DEF DiskOK, WorkOK, Aside, Main, GiveUp, disk, work
<1>3. ASSUME NEW x \in Plain PROVE old'[x] = 0
    <2>1. x \in File /\ x \notin Locked /\ old[x] = 0
        BY LockedFiles DEF DiskOK, File
    <2> QED BY <2>1, LockedFiles DEF DiskOK, WorkOK, Aside, Main, GiveUp, disk, work
<1> QED BY <1>1, <1>2, <1>3 DEF DiskOK

LEMMA DiskOKClearingFails ==
    ASSUME DiskOK, ProcOK, WorkOK, ClearingFails
    PROVE  DiskOK'
BY DEF DiskOK, ProcOK, WorkOK, File, Locked, Release, ClearingFails, Main, GiveUp, Goto, disk, work

LEMMA DiskOKPlace ==
    ASSUME DiskOK, ProcOK, WorkOK, Place
    PROVE  DiskOK'
BY Releases, LockedFiles DEF DiskOK, WorkOK, Place, Main, GiveUp, disk, work

LEMMA DiskOKPlaceFails ==
    ASSUME DiskOK, ProcOK, WorkOK, PlaceFails
    PROVE  DiskOK'
<1>1. at' \in [File -> Release]
    BY Releases, LockedFiles DEF DiskOK, WorkOK, PlaceFails, Main, GiveUp, disk, work
<1>2. old' \in [File -> Release]
    BY Releases, LockedFiles DEF DiskOK, WorkOK, PlaceFails, Main, GiveUp, disk, work
<1>3. ASSUME NEW x \in Plain PROVE old'[x] = 0
    <2>1. x \in File /\ x \notin Locked /\ old[x] = 0
        BY LockedFiles DEF DiskOK, File
    <2> QED BY <2>1, LockedFiles DEF DiskOK, WorkOK, PlaceFails, Main, GiveUp, disk, work
<1> QED BY <1>1, <1>2, <1>3 DEF DiskOK

LEMMA DiskOKExtracted ==
    ASSUME DiskOK, ProcOK, WorkOK, Extracted
    PROVE  DiskOK'
BY DEF DiskOK, ProcOK, WorkOK, File, Locked, Release, Extracted, Main, GiveUp, Goto, disk, work

LEMMA DiskOKStartChild ==
    ASSUME DiskOK, ProcOK, WorkOK, StartChild
    PROVE  DiskOK'
BY DEF DiskOK, ProcOK, WorkOK, File, Locked, Release, StartChild, Main, GiveUp, Goto, disk, work, Launch, Both

LEMMA DiskOKStartFails ==
    ASSUME DiskOK, ProcOK, WorkOK, StartFails
    PROVE  DiskOK'
BY DEF DiskOK, ProcOK, WorkOK, File, Locked, Release, StartFails, Main, GiveUp, Goto, disk, work

LEMMA DiskOKGraceExpires ==
    ASSUME DiskOK, ProcOK, WorkOK, GraceExpires
    PROVE  DiskOK'
BY DEF DiskOK, ProcOK, WorkOK, File, Locked, Release, GraceExpires, Main, GiveUp, Goto, disk, work, Both

LEMMA DiskOKChildDone ==
    ASSUME DiskOK, ProcOK, WorkOK, ChildDone
    PROVE  DiskOK'
BY DEF DiskOK, ProcOK, WorkOK, File, Locked, Release, ChildDone, Main, GiveUp, Goto, disk, work, Both

LEMMA DiskOKChildDied ==
    ASSUME DiskOK, ProcOK, WorkOK, ChildDied
    PROVE  DiskOK'
BY DEF DiskOK, ProcOK, WorkOK, File, Locked, Release, ChildDied, Main, GiveUp, Goto, disk, work

LEMMA DiskOKRestoreExe ==
    ASSUME DiskOK, ProcOK, WorkOK, RestoreExe
    PROVE  DiskOK'
<1>1. at' \in [File -> Release]
    BY Releases, LockedFiles DEF DiskOK, WorkOK, RestoreExe, Main, GiveUp, disk, work
<1>2. old' \in [File -> Release]
    BY Releases, LockedFiles DEF DiskOK, WorkOK, RestoreExe, Main, GiveUp, disk, work
<1>3. ASSUME NEW x \in Plain PROVE old'[x] = 0
    <2>1. x \in File /\ x \notin Locked /\ old[x] = 0
        BY LockedFiles DEF DiskOK, File
    <2> QED BY <2>1, LockedFiles DEF DiskOK, WorkOK, RestoreExe, Main, GiveUp, disk, work
<1> QED BY <1>1, <1>2, <1>3 DEF DiskOK

LEMMA DiskOKNextBackup ==
    ASSUME DiskOK, ProcOK, WorkOK, NEW f \in Libs, NextBackup(f)
    PROVE  DiskOK'
BY DEF DiskOK, ProcOK, WorkOK, File, Locked, Release, NextBackup, Main, GiveUp, Goto, disk, work

LEMMA DiskOKRemoveNew ==
    ASSUME DiskOK, ProcOK, WorkOK, RemoveNew
    PROVE  DiskOK'
BY Releases, LockedFiles DEF DiskOK, WorkOK, RemoveNew, Main, GiveUp, disk, work

LEMMA DiskOKRenameBack ==
    ASSUME DiskOK, ProcOK, WorkOK, RenameBack
    PROVE  DiskOK'
<1>1. at' \in [File -> Release]
    BY Releases, LockedFiles DEF DiskOK, WorkOK, RenameBack, Main, GiveUp, disk, work
<1>2. old' \in [File -> Release]
    BY Releases, LockedFiles DEF DiskOK, WorkOK, RenameBack, Main, GiveUp, disk, work
<1>3. ASSUME NEW x \in Plain PROVE old'[x] = 0
    <2>1. x \in File /\ x \notin Locked /\ old[x] = 0
        BY LockedFiles DEF DiskOK, File
    <2> QED BY <2>1, LockedFiles DEF DiskOK, WorkOK, RenameBack, Main, GiveUp, disk, work
<1> QED BY <1>1, <1>2, <1>3 DEF DiskOK

LEMMA DiskOKRestored ==
    ASSUME DiskOK, ProcOK, WorkOK, Restored
    PROVE  DiskOK'
BY DEF DiskOK, ProcOK, WorkOK, File, Locked, Release, Restored, Main, GiveUp, Goto, disk, work

LEMMA DiskOKCrash ==
    ASSUME DiskOK, ProcOK, WorkOK, Crash
    PROVE  DiskOK'
BY DEF DiskOK, ProcOK, WorkOK, File, Locked, Release, Crash, Main, GiveUp, Goto, disk, work

LEMMA ProcOKStart ==
    ASSUME DiskOK, ProcOK, NEW p \in Procs, Start(p)
    PROVE  ProcOK'
BY DEF DiskOK, ProcOK, Procs, File, Locked, Release, Names, Busy, Extracting, Restoring, Dead, Start, Main, GiveUp, Goto, disk, work, Launch

LEMMA ProcOKSweep ==
    ASSUME DiskOK, ProcOK, NEW p \in Procs, NEW f \in Locked, Sweep(p, f)
    PROVE  ProcOK'
BY DEF DiskOK, ProcOK, Procs, File, Locked, Release, Names, Busy, Extracting, Restoring, Dead, Sweep, Main, GiveUp, Goto, disk, work

LEMMA ProcOKSwept ==
    ASSUME DiskOK, ProcOK, NEW p \in Procs, Swept(p)
    PROVE  ProcOK'
BY DEF DiskOK, ProcOK, Procs, File, Locked, Release, Names, Busy, Extracting, Restoring, Dead, Swept, Main, GiveUp, Goto, disk, work

LEMMA ProcOKEnd ==
    ASSUME DiskOK, ProcOK, NEW p \in Procs, NEW how \in Dead, End(p, how)
    PROVE  ProcOK'
BY DEF DiskOK, ProcOK, Procs, File, Locked, Release, Names, Busy, Extracting, Restoring, Dead, End, Main, GiveUp, Goto, disk, work

LEMMA ProcOKDownload ==
    ASSUME DiskOK, ProcOK, NEW good \in BOOLEAN, Download(good)
    PROVE  ProcOK'
BY DEF DiskOK, ProcOK, Procs, File, Locked, Release, Names, Busy, Extracting, Restoring, Dead, Download, Main, GiveUp, Goto, disk, work

LEMMA ProcOKNextEntry ==
    ASSUME DiskOK, ProcOK, NEW f \in File, NextEntry(f)
    PROVE  ProcOK'
BY DEF DiskOK, ProcOK, Procs, File, Locked, Release, Names, Busy, Extracting, Restoring, Dead, NextEntry, Main, GiveUp, Goto, disk, work

LEMMA ProcOKExtractionFails ==
    ASSUME DiskOK, ProcOK, ExtractionFails
    PROVE  ProcOK'
BY DEF DiskOK, ProcOK, Procs, File, Locked, Release, Names, Busy, Extracting, Restoring, Dead, ExtractionFails, Main, GiveUp, Goto, disk, work

LEMMA ProcOKUnlink ==
    ASSUME DiskOK, ProcOK, Unlink
    PROVE  ProcOK'
BY DEF DiskOK, ProcOK, Procs, File, Locked, Release, Names, Busy, Extracting, Restoring, Dead, Unlink, Main, GiveUp, Goto, disk, work

LEMMA ProcOKAside ==
    ASSUME DiskOK, ProcOK, Aside
    PROVE  ProcOK'
BY DEF DiskOK, ProcOK, Procs, File, Locked, Release, Names, Busy, Extracting, Restoring, Dead, Aside, Main, GiveUp, Goto, disk, work

LEMMA ProcOKClearingFails ==
    ASSUME DiskOK, ProcOK, ClearingFails
    PROVE  ProcOK'
BY DEF DiskOK, ProcOK, Procs, File, Locked, Release, Names, Busy, Extracting, Restoring, Dead, ClearingFails, Main, GiveUp, Goto, disk, work

LEMMA ProcOKPlace ==
    ASSUME DiskOK, ProcOK, Place
    PROVE  ProcOK'
BY DEF DiskOK, ProcOK, Procs, File, Locked, Release, Names, Busy, Extracting, Restoring, Dead, Place, Main, GiveUp, Goto, disk, work

LEMMA ProcOKPlaceFails ==
    ASSUME DiskOK, ProcOK, PlaceFails
    PROVE  ProcOK'
BY DEF DiskOK, ProcOK, Procs, File, Locked, Release, Names, Busy, Extracting, Restoring, Dead, PlaceFails, Main, GiveUp, Goto, disk, work

LEMMA ProcOKExtracted ==
    ASSUME DiskOK, ProcOK, Extracted
    PROVE  ProcOK'
BY DEF DiskOK, ProcOK, Procs, File, Locked, Release, Names, Busy, Extracting, Restoring, Dead, Extracted, Main, GiveUp, Goto, disk, work

LEMMA ProcOKStartChild ==
    ASSUME DiskOK, ProcOK, StartChild
    PROVE  ProcOK'
BY DEF DiskOK, ProcOK, Procs, File, Locked, Release, Names, Busy, Extracting, Restoring, Dead, StartChild, Main, GiveUp, Goto, disk, work, Launch, Both

LEMMA ProcOKStartFails ==
    ASSUME DiskOK, ProcOK, StartFails
    PROVE  ProcOK'
BY DEF DiskOK, ProcOK, Procs, File, Locked, Release, Names, Busy, Extracting, Restoring, Dead, StartFails, Main, GiveUp, Goto, disk, work

LEMMA ProcOKGraceExpires ==
    ASSUME DiskOK, ProcOK, GraceExpires
    PROVE  ProcOK'
BY DEF DiskOK, ProcOK, Procs, File, Locked, Release, Names, Busy, Extracting, Restoring, Dead, GraceExpires, Main, GiveUp, Goto, disk, work, Both

LEMMA ProcOKChildDone ==
    ASSUME DiskOK, ProcOK, ChildDone
    PROVE  ProcOK'
BY DEF DiskOK, ProcOK, Procs, File, Locked, Release, Names, Busy, Extracting, Restoring, Dead, ChildDone, Main, GiveUp, Goto, disk, work, Both

LEMMA ProcOKChildDied ==
    ASSUME DiskOK, ProcOK, ChildDied
    PROVE  ProcOK'
BY DEF DiskOK, ProcOK, Procs, File, Locked, Release, Names, Busy, Extracting, Restoring, Dead, ChildDied, Main, GiveUp, Goto, disk, work

LEMMA ProcOKRestoreExe ==
    ASSUME DiskOK, ProcOK, RestoreExe
    PROVE  ProcOK'
BY DEF DiskOK, ProcOK, Procs, File, Locked, Release, Names, Busy, Extracting, Restoring, Dead, RestoreExe, Main, GiveUp, Goto, disk, work

LEMMA ProcOKNextBackup ==
    ASSUME DiskOK, ProcOK, NEW f \in Libs, NextBackup(f)
    PROVE  ProcOK'
BY DEF DiskOK, ProcOK, Procs, File, Locked, Release, Names, Busy, Extracting, Restoring, Dead, NextBackup, Main, GiveUp, Goto, disk, work

LEMMA ProcOKRemoveNew ==
    ASSUME DiskOK, ProcOK, RemoveNew
    PROVE  ProcOK'
BY DEF DiskOK, ProcOK, Procs, File, Locked, Release, Names, Busy, Extracting, Restoring, Dead, RemoveNew, Main, GiveUp, Goto, disk, work

LEMMA ProcOKRenameBack ==
    ASSUME DiskOK, ProcOK, RenameBack
    PROVE  ProcOK'
BY DEF DiskOK, ProcOK, Procs, File, Locked, Release, Names, Busy, Extracting, Restoring, Dead, RenameBack, Main, GiveUp, Goto, disk, work

LEMMA ProcOKRestored ==
    ASSUME DiskOK, ProcOK, Restored
    PROVE  ProcOK'
BY DEF DiskOK, ProcOK, Procs, File, Locked, Release, Names, Busy, Extracting, Restoring, Dead, Restored, Main, GiveUp, Goto, disk, work

LEMMA ProcOKCrash ==
    ASSUME DiskOK, ProcOK, Crash
    PROVE  ProcOK'
BY DEF DiskOK, ProcOK, Procs, File, Locked, Release, Names, Busy, Extracting, Restoring, Dead, Crash, Main, GiveUp, Goto, disk, work

LEMMA WorkOKStart ==
    ASSUME DiskOK, ProcOK, WorkOK, NEW p \in Procs, Start(p)
    PROVE  WorkOK'
BY DEF DiskOK, ProcOK, WorkOK, Procs, File, Locked, Names, Busy, Extracting, Restoring, Dead, Start, Main, GiveUp, Goto, disk, work, Launch

LEMMA WorkOKSweep ==
    ASSUME DiskOK, ProcOK, WorkOK, NEW p \in Procs, NEW f \in Locked, Sweep(p, f)
    PROVE  WorkOK'
BY DEF DiskOK, ProcOK, WorkOK, Procs, File, Locked, Names, Busy, Extracting, Restoring, Dead, Sweep, Main, GiveUp, Goto, disk, work

LEMMA WorkOKSwept ==
    ASSUME DiskOK, ProcOK, WorkOK, NEW p \in Procs, Swept(p)
    PROVE  WorkOK'
BY DEF DiskOK, ProcOK, WorkOK, Procs, File, Locked, Names, Busy, Extracting, Restoring, Dead, Swept, Main, GiveUp, Goto, disk, work

LEMMA WorkOKEnd ==
    ASSUME DiskOK, ProcOK, WorkOK, NEW p \in Procs, NEW how \in Dead, End(p, how)
    PROVE  WorkOK'
BY DEF DiskOK, ProcOK, WorkOK, Procs, File, Locked, Names, Busy, Extracting, Restoring, Dead, End, Main, GiveUp, Goto, disk, work

LEMMA WorkOKDownload ==
    ASSUME DiskOK, ProcOK, WorkOK, NEW good \in BOOLEAN, Download(good)
    PROVE  WorkOK'
BY DEF DiskOK, ProcOK, WorkOK, Procs, File, Locked, Names, Busy, Extracting, Restoring, Dead, Download, Main, GiveUp, Goto, disk, work

LEMMA WorkOKNextEntry ==
    ASSUME DiskOK, ProcOK, WorkOK, NEW f \in File, NextEntry(f)
    PROVE  WorkOK'
BY DEF DiskOK, ProcOK, WorkOK, Procs, File, Locked, Names, Busy, Extracting, Restoring, Dead, NextEntry, Main, GiveUp, Goto, disk, work

LEMMA WorkOKExtractionFails ==
    ASSUME DiskOK, ProcOK, WorkOK, ExtractionFails
    PROVE  WorkOK'
BY DEF DiskOK, ProcOK, WorkOK, Procs, File, Locked, Names, Busy, Extracting, Restoring, Dead, ExtractionFails, Main, GiveUp, Goto, disk, work

LEMMA WorkOKUnlink ==
    ASSUME DiskOK, ProcOK, WorkOK, Unlink
    PROVE  WorkOK'
BY DEF DiskOK, ProcOK, WorkOK, Procs, File, Locked, Names, Busy, Extracting, Restoring, Dead, Unlink, Main, GiveUp, Goto, disk, work

LEMMA WorkOKAside ==
    ASSUME DiskOK, ProcOK, WorkOK, Aside
    PROVE  WorkOK'
BY DEF DiskOK, ProcOK, WorkOK, Procs, File, Locked, Names, Busy, Extracting, Restoring, Dead, Aside, Main, GiveUp, Goto, disk, work

LEMMA WorkOKClearingFails ==
    ASSUME DiskOK, ProcOK, WorkOK, ClearingFails
    PROVE  WorkOK'
BY DEF DiskOK, ProcOK, WorkOK, Procs, File, Locked, Names, Busy, Extracting, Restoring, Dead, ClearingFails, Main, GiveUp, Goto, disk, work

LEMMA WorkOKPlace ==
    ASSUME DiskOK, ProcOK, WorkOK, Place
    PROVE  WorkOK'
BY DEF DiskOK, ProcOK, WorkOK, Procs, File, Locked, Names, Busy, Extracting, Restoring, Dead, Place, Main, GiveUp, Goto, disk, work

LEMMA WorkOKPlaceFails ==
    ASSUME DiskOK, ProcOK, WorkOK, PlaceFails
    PROVE  WorkOK'
BY DEF DiskOK, ProcOK, WorkOK, Procs, File, Locked, Names, Busy, Extracting, Restoring, Dead, PlaceFails, Main, GiveUp, Goto, disk, work

LEMMA WorkOKExtracted ==
    ASSUME DiskOK, ProcOK, WorkOK, Extracted
    PROVE  WorkOK'
BY DEF DiskOK, ProcOK, WorkOK, Procs, File, Locked, Names, Busy, Extracting, Restoring, Dead, Extracted, Main, GiveUp, Goto, disk, work

LEMMA WorkOKStartChild ==
    ASSUME DiskOK, ProcOK, WorkOK, StartChild
    PROVE  WorkOK'
BY DEF DiskOK, ProcOK, WorkOK, Procs, File, Locked, Names, Busy, Extracting, Restoring, Dead, StartChild, Main, GiveUp, Goto, disk, work, Launch, Both

LEMMA WorkOKStartFails ==
    ASSUME DiskOK, ProcOK, WorkOK, StartFails
    PROVE  WorkOK'
BY DEF DiskOK, ProcOK, WorkOK, Procs, File, Locked, Names, Busy, Extracting, Restoring, Dead, StartFails, Main, GiveUp, Goto, disk, work

LEMMA WorkOKGraceExpires ==
    ASSUME DiskOK, ProcOK, WorkOK, GraceExpires
    PROVE  WorkOK'
<1>1. pc'["main"] \in {"sweep", "idle"} \cup Dead
    BY BothOf DEF ProcOK, GraceExpires
<1> QED BY <1>1 DEF WorkOK, GraceExpires, Dead

LEMMA WorkOKChildDone ==
    ASSUME DiskOK, ProcOK, WorkOK, ChildDone
    PROVE  WorkOK'
BY DEF DiskOK, ProcOK, WorkOK, Procs, File, Locked, Names, Busy, Extracting, Restoring, Dead, ChildDone, Main, GiveUp, Goto, disk, work, Both

LEMMA WorkOKChildDied ==
    ASSUME DiskOK, ProcOK, WorkOK, ChildDied
    PROVE  WorkOK'
BY DEF DiskOK, ProcOK, WorkOK, Procs, File, Locked, Names, Busy, Extracting, Restoring, Dead, ChildDied, Main, GiveUp, Goto, disk, work

LEMMA WorkOKRestoreExe ==
    ASSUME DiskOK, ProcOK, WorkOK, RestoreExe
    PROVE  WorkOK'
BY DEF DiskOK, ProcOK, WorkOK, Procs, File, Locked, Names, Busy, Extracting, Restoring, Dead, RestoreExe, Main, GiveUp, Goto, disk, work

LEMMA WorkOKNextBackup ==
    ASSUME DiskOK, ProcOK, WorkOK, NEW f \in Libs, NextBackup(f)
    PROVE  WorkOK'
BY DEF DiskOK, ProcOK, WorkOK, Procs, File, Locked, Names, Busy, Extracting, Restoring, Dead, NextBackup, Main, GiveUp, Goto, disk, work

LEMMA WorkOKRemoveNew ==
    ASSUME DiskOK, ProcOK, WorkOK, RemoveNew
    PROVE  WorkOK'
BY DEF DiskOK, ProcOK, WorkOK, Procs, File, Locked, Names, Busy, Extracting, Restoring, Dead, RemoveNew, Main, GiveUp, Goto, disk, work

LEMMA WorkOKRenameBack ==
    ASSUME DiskOK, ProcOK, WorkOK, RenameBack
    PROVE  WorkOK'
BY DEF DiskOK, ProcOK, WorkOK, Procs, File, Locked, Names, Busy, Extracting, Restoring, Dead, RenameBack, Main, GiveUp, Goto, disk, work

LEMMA WorkOKRestored ==
    ASSUME DiskOK, ProcOK, WorkOK, Restored
    PROVE  WorkOK'
BY DEF DiskOK, ProcOK, WorkOK, Procs, File, Locked, Names, Busy, Extracting, Restoring, Dead, Restored, Main, GiveUp, Goto, disk, work

LEMMA WorkOKCrash ==
    ASSUME DiskOK, ProcOK, WorkOK, Crash
    PROVE  WorkOK'
BY DEF DiskOK, ProcOK, WorkOK, Procs, File, Locked, Names, Busy, Extracting, Restoring, Dead, Crash, Main, GiveUp, Goto, disk, work

\* All that is not yet to unpack, or in hand, has been unpacked; the child and the
\* program after an update are the new release.
Whole ==
    /\ pc["main"] \in {"extract", "start", "wait"} => \A f \in File \ todo : at[f] = 2
    /\ pc["main"] \in Extracting => \A f \in File \ (todo \cup {cur}) : at[f] = 2
    /\ pc["main"] \in {"start", "wait"} => todo = {}
    /\ pc["main"] = "wait" /\ Alive("child") => loaded["child"][Exe] = 2
    /\ outcome = "updated" =>
         /\ pc["main"] \in {"sweep", "idle", "down"}
         /\ \A f \in File : at[f] = 2
         /\ Alive("main") => loaded["main"][Exe] = 2

\* While the program lives only the file in hand may be away, and then its backup
\* is there; nobody sweeps meanwhile.
Kept ==
    /\ pc["second"] = "down"
    /\ Alive("child") => pc["main"] = "wait"
    /\ \A f \in Locked : at[f] # 0 \/ old[f] # 0
    /\ Alive("main") => \A f \in Locked :
           at[f] # 0 \/ (f = cur /\ pc["main"] \in {"replace", "rename"})
    /\ pc["main"] = "remove" => old[cur] # 0

LEMMA WholeStart ==
    ASSUME DiskOK, ProcOK, WorkOK, Whole, NEW p \in Procs, Start(p)
    PROVE  Whole'
BY DEF DiskOK, ProcOK, WorkOK, Whole, Alive, Procs, Names, Busy, Extracting, Restoring, Dead, Start, Main, GiveUp, Goto, disk, work, Launch

LEMMA WholeSweep ==
    ASSUME DiskOK, ProcOK, WorkOK, Whole, NEW p \in Procs, NEW f \in Locked, Sweep(p, f)
    PROVE  Whole'
BY DEF DiskOK, ProcOK, WorkOK, Whole, Alive, Procs, Names, Busy, Extracting, Restoring, Dead, Sweep, Main, GiveUp, Goto, disk, work

LEMMA WholeSwept ==
    ASSUME DiskOK, ProcOK, WorkOK, Whole, NEW p \in Procs, Swept(p)
    PROVE  Whole'
BY DEF DiskOK, ProcOK, WorkOK, Whole, Alive, Procs, Names, Busy, Extracting, Restoring, Dead, Swept, Main, GiveUp, Goto, disk, work

LEMMA WholeEnd ==
    ASSUME DiskOK, ProcOK, WorkOK, Whole, NEW p \in Procs, NEW how \in Dead, End(p, how)
    PROVE  Whole'
BY DEF DiskOK, ProcOK, WorkOK, Whole, Alive, Procs, Names, Busy, Extracting, Restoring, Dead, End, Main, GiveUp, Goto, disk, work

LEMMA WholeDownload ==
    ASSUME DiskOK, ProcOK, WorkOK, Whole, NEW good \in BOOLEAN, Download(good)
    PROVE  Whole'
<1>1. outcome # "updated"
    BY DEF Whole, Download, Main, Alive, Dead
<1>2. CASE good
    BY <1>1, <1>2 DEF ProcOK, Whole, Alive, Procs, Extracting, Dead, Download, Main, Goto, disk
<1>3. CASE ~good
    BY <1>1, <1>3 DEF ProcOK, Whole, Alive, Procs, Extracting, Dead, Download, Main, Goto, GiveUp, disk
<1> QED BY <1>2, <1>3

LEMMA WholeNextEntry ==
    ASSUME DiskOK, ProcOK, WorkOK, Whole, NEW f \in File, NextEntry(f)
    PROVE  Whole'
BY DEF DiskOK, ProcOK, WorkOK, Whole, Alive, Procs, Names, Busy, Extracting, Restoring, Dead, NextEntry, Main, GiveUp, Goto, disk, work

LEMMA WholeExtractionFails ==
    ASSUME DiskOK, ProcOK, WorkOK, Whole, ExtractionFails
    PROVE  Whole'
BY DEF DiskOK, ProcOK, WorkOK, Whole, Alive, Procs, Names, Busy, Extracting, Restoring, Dead, ExtractionFails, Main, GiveUp, Goto, disk, work

LEMMA WholeUnlink ==
    ASSUME DiskOK, ProcOK, WorkOK, Whole, Unlink
    PROVE  Whole'
BY DEF DiskOK, ProcOK, WorkOK, Whole, Alive, Procs, Names, Busy, Extracting, Restoring, Dead, Unlink, Main, GiveUp, Goto, disk, work

LEMMA WholeAside ==
    ASSUME DiskOK, ProcOK, WorkOK, Whole, Aside
    PROVE  Whole'
BY DEF DiskOK, ProcOK, WorkOK, Whole, Alive, Procs, Names, Busy, Extracting, Restoring, Dead, Aside, Main, GiveUp, Goto, disk, work

LEMMA WholeClearingFails ==
    ASSUME DiskOK, ProcOK, WorkOK, Whole, ClearingFails
    PROVE  Whole'
BY DEF DiskOK, ProcOK, WorkOK, Whole, Alive, Procs, Names, Busy, Extracting, Restoring, Dead, ClearingFails, Main, GiveUp, Goto, disk, work

LEMMA WholePlace ==
    ASSUME DiskOK, ProcOK, WorkOK, Whole, Place
    PROVE  Whole'
BY DEF DiskOK, ProcOK, WorkOK, Whole, Alive, Procs, Names, Busy, Extracting, Restoring, Dead, Place, Main, GiveUp, Goto, disk, work

LEMMA WholePlaceFails ==
    ASSUME DiskOK, ProcOK, WorkOK, Whole, PlaceFails
    PROVE  Whole'
BY DEF DiskOK, ProcOK, WorkOK, Whole, Alive, Procs, Names, Busy, Extracting, Restoring, Dead, PlaceFails, Main, GiveUp, Goto, disk, work

LEMMA WholeExtracted ==
    ASSUME DiskOK, ProcOK, WorkOK, Whole, Extracted
    PROVE  Whole'
BY DEF DiskOK, ProcOK, WorkOK, Whole, Alive, Procs, Names, Busy, Extracting, Restoring, Dead, Extracted, Main, GiveUp, Goto, disk, work

LEMMA WholeStartChild ==
    ASSUME DiskOK, ProcOK, WorkOK, Whole, StartChild
    PROVE  Whole'
<1>1. at[Exe] = 2 /\ Exe \in Locked
    BY LockedFiles DEF Whole, StartChild, Main
<1> QED BY <1>1 DEF ProcOK, Whole, Alive, Procs, Extracting, Dead, StartChild, Main, disk, work,
                    Launch, Both

LEMMA WholeStartFails ==
    ASSUME DiskOK, ProcOK, WorkOK, Whole, StartFails
    PROVE  Whole'
BY DEF DiskOK, ProcOK, WorkOK, Whole, Alive, Procs, Names, Busy, Extracting, Restoring, Dead, StartFails, Main, GiveUp, Goto, disk, work

LEMMA WholeGraceExpires ==
    ASSUME DiskOK, ProcOK, WorkOK, Whole, GraceExpires
    PROVE  Whole'
BY DEF DiskOK, ProcOK, WorkOK, Whole, Alive, Procs, Names, Busy, Extracting, Restoring, Dead, GraceExpires, Main, GiveUp, Goto, disk, work, Both

LEMMA WholeChildDone ==
    ASSUME DiskOK, ProcOK, WorkOK, Whole, ChildDone
    PROVE  Whole'
BY DEF DiskOK, ProcOK, WorkOK, Whole, Alive, Procs, Names, Busy, Extracting, Restoring, Dead, ChildDone, Main, GiveUp, Goto, disk, work, Both

LEMMA WholeChildDied ==
    ASSUME DiskOK, ProcOK, WorkOK, Whole, ChildDied
    PROVE  Whole'
BY DEF DiskOK, ProcOK, WorkOK, Whole, Alive, Procs, Names, Busy, Extracting, Restoring, Dead, ChildDied, Main, GiveUp, Goto, disk, work

LEMMA WholeRestoreExe ==
    ASSUME DiskOK, ProcOK, WorkOK, Whole, RestoreExe
    PROVE  Whole'
BY DEF DiskOK, ProcOK, WorkOK, Whole, Alive, Procs, Names, Busy, Extracting, Restoring, Dead, RestoreExe, Main, GiveUp, Goto, disk, work

LEMMA WholeNextBackup ==
    ASSUME DiskOK, ProcOK, WorkOK, Whole, NEW f \in Libs, NextBackup(f)
    PROVE  Whole'
BY DEF DiskOK, ProcOK, WorkOK, Whole, Alive, Procs, Names, Busy, Extracting, Restoring, Dead, NextBackup, Main, GiveUp, Goto, disk, work

LEMMA WholeRemoveNew ==
    ASSUME DiskOK, ProcOK, WorkOK, Whole, RemoveNew
    PROVE  Whole'
BY DEF DiskOK, ProcOK, WorkOK, Whole, Alive, Procs, Names, Busy, Extracting, Restoring, Dead, RemoveNew, Main, GiveUp, Goto, disk, work

LEMMA WholeRenameBack ==
    ASSUME DiskOK, ProcOK, WorkOK, Whole, RenameBack
    PROVE  Whole'
BY DEF DiskOK, ProcOK, WorkOK, Whole, Alive, Procs, Names, Busy, Extracting, Restoring, Dead, RenameBack, Main, GiveUp, Goto, disk, work

LEMMA WholeRestored ==
    ASSUME DiskOK, ProcOK, WorkOK, Whole, Restored
    PROVE  Whole'
BY DEF DiskOK, ProcOK, WorkOK, Whole, Alive, Procs, Names, Busy, Extracting, Restoring, Dead, Restored, Main, GiveUp, Goto, disk, work

LEMMA WholeCrash ==
    ASSUME DiskOK, ProcOK, WorkOK, Whole, Crash
    PROVE  Whole'
BY DEF DiskOK, ProcOK, WorkOK, Whole, Alive, Procs, Names, Busy, Extracting, Restoring, Dead, Crash, Main, GiveUp, Goto, disk, work

LEMMA KeptStart ==
    ASSUME ~second, DiskOK, ProcOK, WorkOK, Kept, NEW p \in Procs, Start(p)
    PROVE  Kept'
<1>1. p = "main"
    BY Zenon DEF Start
<1> QED BY <1>1, LockedFiles DEF ProcOK, Kept, Alive, Procs, Dead, Start, Runnable, Goto, disk

LEMMA KeptSweep ==
    ASSUME ~second, DiskOK, ProcOK, WorkOK, Kept, NEW p \in Procs, NEW f \in Locked, Sweep(p, f)
    PROVE  Kept'
BY DEF DiskOK, ProcOK, WorkOK, Kept, Alive, Procs, Names, Busy, Extracting, Restoring, Dead, Sweep, Main, GiveUp, Goto, disk, work

LEMMA KeptSwept ==
    ASSUME ~second, DiskOK, ProcOK, WorkOK, Kept, NEW p \in Procs, Swept(p)
    PROVE  Kept'
BY DEF DiskOK, ProcOK, WorkOK, Kept, Alive, Procs, Names, Busy, Extracting, Restoring, Dead, Swept, Main, GiveUp, Goto, disk, work

LEMMA KeptEnd ==
    ASSUME ~second, DiskOK, ProcOK, WorkOK, Kept, NEW p \in Procs, NEW how \in Dead, End(p, how)
    PROVE  Kept'
BY DEF DiskOK, ProcOK, WorkOK, Kept, Alive, Procs, Names, Busy, Extracting, Restoring, Dead, End, Main, GiveUp, Goto, disk, work

LEMMA KeptDownload ==
    ASSUME ~second, DiskOK, ProcOK, WorkOK, Kept, NEW good \in BOOLEAN, Download(good)
    PROVE  Kept'
BY DEF DiskOK, ProcOK, WorkOK, Kept, Alive, Procs, Names, Busy, Extracting, Restoring, Dead, Download, Main, GiveUp, Goto, disk, work

LEMMA KeptNextEntry ==
    ASSUME ~second, DiskOK, ProcOK, WorkOK, Kept, NEW f \in File, NextEntry(f)
    PROVE  Kept'
BY DEF DiskOK, ProcOK, WorkOK, Kept, Alive, Procs, Names, Busy, Extracting, Restoring, Dead, NextEntry, Main, GiveUp, Goto, disk, work

LEMMA KeptExtractionFails ==
    ASSUME ~second, DiskOK, ProcOK, WorkOK, Kept, ExtractionFails
    PROVE  Kept'
BY DEF DiskOK, ProcOK, WorkOK, Kept, Alive, Procs, Names, Busy, Extracting, Restoring, Dead, ExtractionFails, Main, GiveUp, Goto, disk, work

LEMMA KeptUnlink ==
    ASSUME ~second, DiskOK, ProcOK, WorkOK, Kept, Unlink
    PROVE  Kept'
BY LockedFiles DEF DiskOK, ProcOK, WorkOK, Kept, Alive, Procs, Dead, Unlink, Main, Goto, GiveUp, disk, work

LEMMA KeptAside ==
    ASSUME ~second, DiskOK, ProcOK, WorkOK, Kept, Aside
    PROVE  Kept'
BY LockedFiles DEF DiskOK, ProcOK, WorkOK, Kept, Alive, Procs, Dead, Aside, Main, Goto, GiveUp, disk, work

LEMMA KeptClearingFails ==
    ASSUME ~second, DiskOK, ProcOK, WorkOK, Kept, ClearingFails
    PROVE  Kept'
BY DEF DiskOK, ProcOK, WorkOK, Kept, Alive, Procs, Names, Busy, Extracting, Restoring, Dead, ClearingFails, Main, GiveUp, Goto, disk, work

LEMMA KeptPlace ==
    ASSUME ~second, DiskOK, ProcOK, WorkOK, Kept, Place
    PROVE  Kept'
<1>1. ASSUME NEW f \in Locked PROVE at'[f] # 0
    <2>1. f \in File /\ (at[f] # 0 \/ f = cur)
        BY LockedFiles DEF Kept, Place, Main, Alive, Dead
    <2>2. at'[f] = IF f = cur THEN 2 ELSE at[f]
        BY <2>1 DEF DiskOK, Place
    <2> QED BY <2>1, <2>2
<1>2. /\ \A q \in Procs : q # "main" => pc'[q] = pc[q]
      /\ pc'["main"] = "extract" /\ pc["main"] \in {"place", "replace"}
    BY DEF ProcOK, Place, Main, Goto, Procs
<1> QED BY <1>1, <1>2 DEF Kept, Alive, Procs, Dead

LEMMA KeptPlaceFails ==
    ASSUME ~second, DiskOK, ProcOK, WorkOK, Kept, PlaceFails
    PROVE  Kept'
BY LockedFiles DEF DiskOK, ProcOK, WorkOK, Kept, Alive, Procs, Dead, PlaceFails, Main, Goto, GiveUp, disk, work

LEMMA KeptExtracted ==
    ASSUME ~second, DiskOK, ProcOK, WorkOK, Kept, Extracted
    PROVE  Kept'
BY DEF DiskOK, ProcOK, WorkOK, Kept, Alive, Procs, Names, Busy, Extracting, Restoring, Dead, Extracted, Main, GiveUp, Goto, disk, work

LEMMA KeptStartChild ==
    ASSUME ~second, DiskOK, ProcOK, WorkOK, Kept, StartChild
    PROVE  Kept'
BY DEF DiskOK, ProcOK, WorkOK, Kept, Alive, Procs, Names, Busy, Extracting, Restoring, Dead, StartChild, Main, GiveUp, Goto, disk, work, Launch, Both

LEMMA KeptStartFails ==
    ASSUME ~second, DiskOK, ProcOK, WorkOK, Kept, StartFails
    PROVE  Kept'
BY DEF DiskOK, ProcOK, WorkOK, Kept, Alive, Procs, Names, Busy, Extracting, Restoring, Dead, StartFails, Main, GiveUp, Goto, disk, work

LEMMA KeptGraceExpires ==
    ASSUME ~second, DiskOK, ProcOK, WorkOK, Kept, GraceExpires
    PROVE  Kept'
BY DEF DiskOK, ProcOK, WorkOK, Kept, Alive, Procs, Names, Busy, Extracting, Restoring, Dead, GraceExpires, Main, GiveUp, Goto, disk, work, Both

LEMMA KeptChildDone ==
    ASSUME ~second, DiskOK, ProcOK, WorkOK, Kept, ChildDone
    PROVE  Kept'
BY DEF DiskOK, ProcOK, WorkOK, Kept, Alive, Procs, Names, Busy, Extracting, Restoring, Dead, ChildDone, Main, GiveUp, Goto, disk, work, Both

LEMMA KeptChildDied ==
    ASSUME ~second, DiskOK, ProcOK, WorkOK, Kept, ChildDied
    PROVE  Kept'
BY DEF DiskOK, ProcOK, WorkOK, Kept, Alive, Procs, Names, Busy, Extracting, Restoring, Dead, ChildDied, Main, GiveUp, Goto, disk, work

LEMMA KeptRestoreExe ==
    ASSUME ~second, DiskOK, ProcOK, WorkOK, Kept, RestoreExe
    PROVE  Kept'
BY LockedFiles DEF DiskOK, ProcOK, WorkOK, Kept, Alive, Procs, Dead, RestoreExe, Main, Goto, GiveUp, disk, work

LEMMA KeptNextBackup ==
    ASSUME ~second, DiskOK, ProcOK, WorkOK, Kept, NEW f \in Libs, NextBackup(f)
    PROVE  Kept'
BY DEF DiskOK, ProcOK, WorkOK, Kept, Alive, Procs, Names, Busy, Extracting, Restoring, Dead, NextBackup, Main, GiveUp, Goto, disk, work

LEMMA KeptRemoveNew ==
    ASSUME ~second, DiskOK, ProcOK, WorkOK, Kept, RemoveNew
    PROVE  Kept'
BY LockedFiles DEF DiskOK, ProcOK, WorkOK, Kept, Alive, Procs, Dead, RemoveNew, Main, Goto, GiveUp, disk, work

LEMMA KeptRenameBack ==
    ASSUME ~second, DiskOK, ProcOK, WorkOK, Kept, RenameBack
    PROVE  Kept'
BY LockedFiles DEF DiskOK, ProcOK, WorkOK, Kept, Alive, Procs, Dead, RenameBack, Main, Goto, GiveUp, disk, work

LEMMA KeptRestored ==
    ASSUME ~second, DiskOK, ProcOK, WorkOK, Kept, Restored
    PROVE  Kept'
BY DEF DiskOK, ProcOK, WorkOK, Kept, Alive, Procs, Names, Busy, Extracting, Restoring, Dead, Restored, Main, GiveUp, Goto, disk, work

LEMMA KeptCrash ==
    ASSUME ~second, DiskOK, ProcOK, WorkOK, Kept, Crash
    PROVE  Kept'
BY DEF DiskOK, ProcOK, WorkOK, Kept, Alive, Procs, Names, Busy, Extracting, Restoring, Dead, Crash, Main, GiveUp, Goto, disk, work

\* On Windows: what was started is still there under its own name, or the update is
\* and the backup with it, or, between two renames, the backup alone.
Mine(f) == at[f] = loaded["main"][f]
Backed(f) == at[f] = 2 /\ old[f] = loaded["main"][f]
PutAside(f) == at[f] = 0 /\ old[f] = loaded["main"][f]

\* Where a renamed file is at each point of the update and of its rollback
Layout(f) ==
    LET m == pc["main"] IN
    /\ m \in {"sweep", "idle"} => Mine(f)
    /\ m = "extract" => IF f \in todo THEN Mine(f) ELSE Backed(f)
    /\ m \in {"unlink", "aside"} =>
           IF f = cur \/ f \in todo THEN Mine(f) ELSE Backed(f)
    /\ m \in {"place", "replace"} =>
           IF f = cur THEN PutAside(f) ELSE IF f \in todo THEN Mine(f) ELSE Backed(f)
    /\ m \in {"start", "wait", "restore"} => Backed(f)
    /\ m = "swap" => IF f \in todo THEN Backed(f) ELSE Mine(f)
    /\ m = "remove" => IF f = cur \/ f \in todo THEN Backed(f) ELSE Mine(f)
    /\ m = "rename" =>
           IF f = cur THEN PutAside(f) ELSE IF f \in todo THEN Backed(f) ELSE Mine(f)
    /\ m \notin Dead => loaded["main"][f] # 0
    /\ m = "gaveUp" => at[f] # 0
    /\ at[f] = 0 => old[f] # 0 /\ (m \in {"replace", "rename"} \/ \A p \in Procs : ~Alive(p))

WinOK ==
    /\ \A f \in Locked : Layout(f)
    /\ pc["main"] \in {"unlink", "aside", "place", "replace", "remove", "rename"} =>
           cur \notin todo
    /\ pc["main"] = "place" => cur \notin Locked
    /\ pc["main"] = "wait" /\ Alive("child") => \A f \in Locked : loaded["child"][f] = 2

LEMMA WinStart ==
    ASSUME windows, DiskOK, ProcOK, WorkOK, Whole, WinOK, NEW p \in Procs, Start(p)
    PROVE  WinOK'
BY LockedFiles DEF DiskOK, ProcOK, WorkOK, WinOK, Layout, Mine, Backed, PutAside, Alive, Held, Procs, Dead, Start, Main, GiveUp, Goto, disk, work, Launch, Runnable

LEMMA WinSweep ==
    ASSUME windows, DiskOK, ProcOK, WorkOK, Whole, WinOK, NEW p \in Procs, NEW f \in Locked, Sweep(p, f)
    PROVE  WinOK'
<1>1. /\ pc[p] = "sweep" /\ UNCHANGED <<at, pc, loaded, todo, cur>>
      /\ \A x \in Locked : old'[x] = old[x] \/ (x = f /\ ~Held(f, old[f]))
    BY DEF Sweep, work, DiskOK
<1>2. ASSUME NEW x \in Locked PROVE Layout(x)'
    <2>1. Layout(x)
        BY DEF WinOK
    <2>2. CASE old'[x] = old[x]
        BY <1>1, <2>1, <2>2 DEF Layout, Mine, Backed, PutAside, Alive
    <2>3. CASE x = f /\ ~Held(f, old[f])
        <3>1. ~(Alive("main") /\ loaded["main"][x] = old[x] /\ old[x] # 0)
            BY <2>3, Zenon DEF Held, Procs
        <3>2. at[x] # 0
            BY <1>1, <2>1, <3>1 DEF Layout, Mine, Backed, PutAside, Alive, Dead
        <3> QED BY <1>1, <2>1, <3>1, <3>2 DEF Layout, Mine, Backed, PutAside, Alive, Dead
    <2> QED BY <1>1, <2>2, <2>3
<1> QED BY <1>1, <1>2 DEF WinOK, Mine, Alive

LEMMA WinSwept ==
    ASSUME windows, DiskOK, ProcOK, WorkOK, Whole, WinOK, NEW p \in Procs, Swept(p)
    PROVE  WinOK'
<1>1. /\ pc[p] = "sweep" /\ pc' = [pc EXCEPT ![p] = "idle"]
      /\ UNCHANGED <<disk, loaded, todo, cur>>
    BY Zenon DEF Swept, Goto, work
<1>2. /\ \A q \in Procs : Alive(q)' <=> Alive(q)
      /\ pc'["main"] = pc["main"] \/ (pc["main"] = "sweep" /\ pc'["main"] = "idle")
    BY <1>1 DEF ProcOK, Alive, Dead, Procs
<1>3. ASSUME NEW x \in Locked PROVE Layout(x)'
    BY <1>1, <1>2 DEF WinOK, Layout, Mine, Backed, PutAside, Dead, disk
<1> QED BY <1>1, <1>2, <1>3 DEF WinOK, Mine, Procs, disk

LEMMA WinEnd ==
    ASSUME windows, DiskOK, ProcOK, WorkOK, Whole, WinOK, NEW p \in Procs, NEW how \in Dead, End(p, how)
    PROVE  WinOK'
<1>1. pc' = [pc EXCEPT ![p] = how] /\ UNCHANGED <<disk, loaded, todo, cur>>
    BY Zenon DEF End, work
<1>2. /\ \A q \in Procs : Alive(q)' => Alive(q)
      /\ \/ pc'["main"] = pc["main"]
         \/ pc["main"] \in {"sweep", "idle", "gaveUp"} /\ pc'["main"] = "down"
    BY <1>1 DEF End, ProcOK, Alive, Dead, Procs
<1>3. ASSUME NEW x \in Locked PROVE Layout(x)'
    BY <1>1, <1>2 DEF WinOK, Layout, Mine, Backed, PutAside, Dead, disk
<1> QED BY <1>1, <1>2, <1>3 DEF WinOK, Mine, Procs, disk

LEMMA WinDownload ==
    ASSUME windows, DiskOK, ProcOK, WorkOK, Whole, WinOK, NEW good \in BOOLEAN, Download(good)
    PROVE  WinOK'
<1>1. /\ pc["main"] = "idle" /\ pc'["child"] = pc["child"]
      /\ \/ pc'["main"] = "extract" /\ todo' = File
         \/ pc'["main"] = "gaveUp"
      /\ loaded' = loaded /\ cur' = cur /\ at' = at /\ old' = old
    BY DEF ProcOK, Download, Main, Goto, GiveUp, Procs, disk
<1>2. ASSUME NEW x \in Locked PROVE Layout(x)'
    <2>1. x \in File /\ Layout(x)
        BY LockedFiles DEF WinOK
    <2> QED BY <1>1, <2>1 DEF Layout, Mine, Backed, PutAside, Alive, Dead
<1> QED BY <1>1, <1>2 DEF WinOK, Alive, Dead, Procs

LEMMA WinNextEntry ==
    ASSUME windows, DiskOK, ProcOK, WorkOK, Whole, WinOK, NEW f \in File, NextEntry(f)
    PROVE  WinOK'
BY LockedFiles DEF DiskOK, ProcOK, WorkOK, WinOK, Layout, Mine, Backed, PutAside, Alive, Held, Procs, Dead, NextEntry, Main, GiveUp, Goto, disk, work

LEMMA WinExtractionFails ==
    ASSUME windows, DiskOK, ProcOK, WorkOK, Whole, WinOK, ExtractionFails
    PROVE  WinOK'
BY LockedFiles DEF DiskOK, ProcOK, WorkOK, WinOK, Layout, Mine, Backed, PutAside, Alive, Held, Procs, Dead, ExtractionFails, Main, GiveUp, Goto, disk, work

LEMMA WinUnlink ==
    ASSUME windows, DiskOK, ProcOK, WorkOK, Whole, WinOK, Unlink
    PROVE  WinOK'
<1>1. /\ pc["main"] = "unlink" /\ pc'["child"] = pc["child"]
      /\ pc'["main"] = IF cur \in Locked THEN "aside" ELSE "place"
      /\ loaded' = loaded /\ todo' = todo /\ cur' = cur
    BY DEF ProcOK, WinOK, Unlink, Main, Goto, Procs, work
<1>2. ASSUME NEW x \in Locked PROVE Layout(x)'
    <2>1. x \in File /\ Layout(x)
        BY LockedFiles DEF WinOK
    <2>2. at'[x] = at[x] /\ (old'[x] = old[x] \/ x = cur)
        BY <1>1, <2>1 DEF DiskOK, WorkOK, Unlink
    <2> QED BY <1>1, <2>1, <2>2 DEF Layout, Mine, Backed, PutAside, Alive, Dead
<1> QED BY <1>1, <1>2 DEF WinOK, Alive, Dead, Procs

LEMMA WinAside ==
    ASSUME windows, DiskOK, ProcOK, WorkOK, Whole, WinOK, Aside
    PROVE  WinOK'
<1>1. /\ pc["main"] = "aside" /\ pc'["child"] = pc["child"]
      /\ loaded' = loaded /\ todo' = todo /\ cur' = cur
    BY DEF ProcOK, WinOK, Aside, Main, Goto, Procs, work
<1>2. cur \in Locked /\ at[cur] # 0
    BY <1>1 DEF WorkOK, WinOK, Layout, Mine, Dead
<1>3. /\ pc'["main"] = "replace"
      /\ \A x \in Locked : /\ at'[x] = IF x = cur THEN 0 ELSE at[x]
                           /\ old'[x] = IF x = cur THEN at[x] ELSE old[x]
    BY <1>1, <1>2, LockedFiles DEF Aside, Goto, ProcOK, DiskOK, Procs
<1>4. ASSUME NEW x \in Locked PROVE Layout(x)'
    <2>1. Layout(x)
        BY DEF WinOK
    <2> QED BY <1>1, <1>3, <2>1 DEF Layout, Mine, Backed, PutAside, Dead
<1> QED BY <1>1, <1>3, <1>4 DEF WinOK, Alive, Dead, Procs

LEMMA WinClearingFails ==
    ASSUME windows, DiskOK, ProcOK, WorkOK, Whole, WinOK, ClearingFails
    PROVE  WinOK'
BY LockedFiles DEF DiskOK, ProcOK, WorkOK, WinOK, Layout, Mine, Backed, PutAside, Alive, Held, Procs, Dead, ClearingFails, Main, GiveUp, Goto, disk, work

LEMMA WinPlace ==
    ASSUME windows, DiskOK, ProcOK, WorkOK, Whole, WinOK, Place
    PROVE  WinOK'
<1>1. /\ pc["main"] \in {"place", "replace"} /\ pc'["main"] = "extract"
      /\ pc'["child"] = pc["child"]
    BY DEF ProcOK, Place, Main, Goto, GiveUp, Procs
<1>2. loaded' = loaded /\ todo' = todo /\ cur' = cur /\ cur \notin todo
    BY <1>1 DEF WinOK, Place, work, disk
<1>3. ASSUME NEW x \in Locked PROVE Layout(x)'
    <2>1. x \in File /\ Layout(x)
        BY LockedFiles DEF WinOK
    <2>2. /\ at'[x] = IF x = cur THEN 2 ELSE at[x]
          /\ old'[x] = old[x]
        BY <1>1, <2>1 DEF DiskOK, WorkOK, Place, disk
    <2> QED BY <1>1, <1>2, <2>1, <2>2 DEF Layout, Mine, Backed, PutAside, Dead
<1> QED BY <1>1, <1>2, <1>3 DEF WinOK, Alive, Dead, Procs

LEMMA WinPlaceFails ==
    ASSUME windows, DiskOK, ProcOK, WorkOK, Whole, WinOK, PlaceFails
    PROVE  WinOK'
<1>1. /\ pc["main"] \in {"place", "replace"} /\ pc'["main"] = "gaveUp"
      /\ pc'["child"] = pc["child"]
    BY DEF ProcOK, PlaceFails, Main, Goto, GiveUp, Procs
<1>2. loaded' = loaded /\ todo' = todo /\ cur' = cur /\ cur \notin todo
    BY <1>1 DEF WinOK, PlaceFails, work, disk
<1>0. cur \in Locked => old[cur] # 0 /\ Main("replace")
    <2>1. cur \in Locked => Layout(cur) /\ pc["main"] = "replace"
        BY <1>1 DEF WinOK
    <2> QED BY <1>1, <2>1 DEF Layout, PutAside, Dead, Main
<1>3. ASSUME NEW x \in Locked PROVE Layout(x)'
    <2>1. x \in File /\ Layout(x)
        BY LockedFiles DEF WinOK
    <2>2. /\ at'[x] = IF x = cur THEN old[x] ELSE at[x]
          /\ old'[x] = IF x = cur THEN 0 ELSE old[x]
        BY <1>1, <1>0, <2>1 DEF DiskOK, WorkOK, PlaceFails, disk
    <2> QED BY <1>1, <1>2, <1>0, <2>1, <2>2 DEF Layout, Mine, Backed, PutAside, Dead
<1> QED BY <1>1, <1>2, <1>3 DEF WinOK, Alive, Dead, Procs

LEMMA WinExtracted ==
    ASSUME windows, DiskOK, ProcOK, WorkOK, Whole, WinOK, Extracted
    PROVE  WinOK'
BY LockedFiles DEF DiskOK, ProcOK, WorkOK, WinOK, Layout, Mine, Backed, PutAside, Alive, Held, Procs, Dead, Extracted, Main, GiveUp, Goto, disk, work

LEMMA WinStartChild ==
    ASSUME windows, DiskOK, ProcOK, WorkOK, Whole, WinOK, StartChild
    PROVE  WinOK'
BY LockedFiles DEF DiskOK, ProcOK, WorkOK, WinOK, Layout, Mine, Backed, PutAside, Alive, Held, Procs, Dead, StartChild, Main, GiveUp, Goto, disk, work, Launch, Runnable, Both

LEMMA WinStartFails ==
    ASSUME windows, DiskOK, ProcOK, WorkOK, Whole, WinOK, StartFails
    PROVE  WinOK'
BY LockedFiles DEF DiskOK, ProcOK, WorkOK, WinOK, Layout, Mine, Backed, PutAside, Alive, Held, Procs, Dead, StartFails, Main, GiveUp, Goto, disk, work

LEMMA WinGraceExpires ==
    ASSUME windows, DiskOK, ProcOK, WorkOK, Whole, WinOK, GraceExpires
    PROVE  WinOK'
BY LockedFiles DEF DiskOK, ProcOK, WorkOK, WinOK, Layout, Mine, Backed, PutAside, Alive, Held, Procs, Dead, GraceExpires, Main, GiveUp, Goto, disk, work, Both

LEMMA WinChildDone ==
    ASSUME windows, DiskOK, ProcOK, WorkOK, Whole, WinOK, ChildDone
    PROVE  WinOK'
BY LockedFiles DEF DiskOK, ProcOK, WorkOK, WinOK, Layout, Mine, Backed, PutAside, Alive, Held, Procs, Dead, ChildDone, Main, GiveUp, Goto, disk, work, Both

LEMMA WinChildDied ==
    ASSUME windows, DiskOK, ProcOK, WorkOK, Whole, WinOK, ChildDied
    PROVE  WinOK'
<1>1. /\ pc["main"] = "wait" /\ pc'["child"] = pc["child"]
      /\ pc'["main"] \in {"restore", "gaveUp"}
      /\ loaded' = loaded /\ todo' = todo /\ cur' = cur
      /\ at' = at /\ old' = old
    BY DEF ProcOK, WinOK, ChildDied, Main, Goto, GiveUp, Procs, work, disk
<1>2. ASSUME NEW x \in Locked PROVE Layout(x)'
    <2>1. Layout(x)
        BY DEF WinOK
    <2> QED BY <1>1, <2>1 DEF Layout, Mine, Backed, PutAside, Dead
<1> QED BY <1>1, <1>2 DEF WinOK, Alive, Dead, Procs

LEMMA WinRestoreExe ==
    ASSUME windows, DiskOK, ProcOK, WorkOK, Whole, WinOK, RestoreExe
    PROVE  WinOK'
<1>1. /\ pc["main"] = "restore" /\ pc'["child"] = pc["child"]
      /\ loaded' = loaded /\ cur' = cur
    BY DEF ProcOK, WinOK, RestoreExe, Main, Goto, GiveUp, Procs, work, disk
<1>2. \A x \in Locked : Backed(x) /\ loaded["main"][x] # 0 /\ old[x] # 0
    BY <1>1 DEF WinOK, Layout, Backed, Dead
<1>3. CASE Held(Exe, at[Exe])
    <2>1. pc'["main"] = "gaveUp" /\ at' = at /\ old' = old
        BY <1>2, <1>3, LockedFiles DEF RestoreExe, GiveUp, Goto, ProcOK, Procs, disk
    <2>2. ASSUME NEW x \in Locked PROVE Layout(x)'
        <3>1. Layout(x)
            BY DEF WinOK
        <3> QED BY <1>1, <1>2, <2>1, <3>1 DEF Layout, Mine, Backed, Dead
    <2> QED BY <1>1, <2>1, <2>2 DEF WinOK, Alive, Dead
<1>4. CASE ~Held(Exe, at[Exe])
    <2>1. pc'["main"] = "swap" /\ todo' = Libs
        BY <1>2, <1>4, LockedFiles DEF RestoreExe, Goto, ProcOK, Procs, Locked
    <2>2. \A x \in Locked : /\ at'[x] = IF x = Exe THEN old[x] ELSE at[x]
                            /\ old'[x] = IF x = Exe THEN 0 ELSE old[x]
        BY <1>2, <1>4, LockedFiles DEF RestoreExe, DiskOK
    <2>3. ASSUME NEW x \in Locked PROVE Layout(x)'
        <3>1. x = Exe \/ x \in Libs
            BY DEF Locked
        <3>2. Exe \notin Libs
            BY UpdaterAssumption
        <3>3. Layout(x)
            BY DEF WinOK
        <3> QED BY <1>1, <1>2, <2>1, <2>2, <3>1, <3>2, <3>3 DEF Layout, Mine, Backed, Dead
    <2> QED BY <1>1, <2>1, <2>3 DEF WinOK, Alive, Dead
<1> QED BY <1>3, <1>4

LEMMA WinNextBackup ==
    ASSUME windows, DiskOK, ProcOK, WorkOK, Whole, WinOK, NEW f \in Libs, NextBackup(f)
    PROVE  WinOK'
<1>1. f \in Locked /\ Layout(f) /\ pc["main"] = "swap" /\ f \in todo
    BY LockedFiles DEF WinOK, NextBackup, Main
<1>2. old[f] # 0
    BY <1>1 DEF Layout, Backed, Dead
<1>3. /\ pc'["main"] = "remove" /\ pc'["child"] = pc["child"]
      /\ loaded' = loaded /\ cur' = f /\ todo' = todo \ {f}
      /\ at' = at /\ old' = old
    BY <1>2 DEF NextBackup, Main, Goto, ProcOK, Procs, disk
<1>4. ASSUME NEW x \in Locked PROVE Layout(x)'
    <2>1. Layout(x)
        BY DEF WinOK
    <2> QED BY <1>1, <1>3, <2>1 DEF Layout, Mine, Backed, PutAside, Dead
<1> QED BY <1>1, <1>3, <1>4 DEF WinOK, Alive, Dead, Procs

LEMMA WinRemoveNew ==
    ASSUME windows, DiskOK, ProcOK, WorkOK, Whole, WinOK, RemoveNew
    PROVE  WinOK'
<1>1. /\ pc["main"] = "remove" /\ pc'["child"] = pc["child"]
      /\ loaded' = loaded /\ todo' = todo /\ cur' = cur
    BY DEF ProcOK, WinOK, RemoveNew, Main, Goto, GiveUp, Procs, work, disk
<1>2. CASE /\ pc'["main"] = "gaveUp" /\ at' = at /\ old' = old
    <2>1. ASSUME NEW x \in Locked PROVE Layout(x)'
        <3>1. Layout(x)
            BY DEF WinOK
        <3> QED BY <1>1, <1>2, <3>1 DEF Layout, Mine, Backed, PutAside, Dead
    <2> QED BY <1>1, <1>2, <2>1 DEF WinOK, Alive, Dead, Procs
<1>3. CASE /\ pc'["main"] = "rename"
           /\ \A x \in Locked : /\ at'[x] = IF x = cur THEN 0 ELSE at[x]
                                /\ old'[x] = old[x]
    <2>1. ASSUME NEW x \in Locked PROVE Layout(x)'
        <3>1. Layout(x)
            BY DEF WinOK
        <3> QED BY <1>1, <1>3, <3>1 DEF Layout, Mine, Backed, PutAside, Dead
    <2> QED BY <1>1, <1>3, <2>1 DEF WinOK, Alive, Dead, Procs
<1>4. cur \in Locked
    BY <1>1 DEF WorkOK
<1>5. CASE Held(cur, at[cur])
    BY <1>2, <1>5 DEF RemoveNew, GiveUp, Goto, ProcOK, Procs
<1>6. CASE ~Held(cur, at[cur])
    BY <1>1, <1>3, <1>4, <1>6, LockedFiles DEF RemoveNew, Goto, ProcOK, DiskOK, Procs
<1> QED BY <1>5, <1>6

LEMMA WinRenameBack ==
    ASSUME windows, DiskOK, ProcOK, WorkOK, Whole, WinOK, RenameBack
    PROVE  WinOK'
<1>1. /\ pc["main"] = "rename" /\ pc'["main"] = "swap"
      /\ pc'["child"] = pc["child"]
    BY DEF ProcOK, RenameBack, Main, Goto, GiveUp, Procs
<1>2. loaded' = loaded /\ todo' = todo /\ cur' = cur /\ cur \notin todo
    BY <1>1 DEF WinOK, RenameBack, work, disk
<1>0. cur \in Locked => old[cur] # 0
    <2>1. cur \in Locked => Layout(cur)
        BY DEF WinOK
    <2> QED BY <1>1, <2>1 DEF Layout, PutAside, Dead
<1>3. ASSUME NEW x \in Locked PROVE Layout(x)'
    <2>1. x \in File /\ Layout(x)
        BY LockedFiles DEF WinOK
    <2>2. /\ at'[x] = IF x = cur THEN old[x] ELSE at[x]
          /\ old'[x] = IF x = cur THEN 0 ELSE old[x]
        BY <1>1, <1>0, <2>1 DEF DiskOK, WorkOK, RenameBack, disk
    <2> QED BY <1>1, <1>2, <1>0, <2>1, <2>2 DEF Layout, Mine, Backed, PutAside, Dead
<1> QED BY <1>1, <1>2, <1>3 DEF WinOK, Alive, Dead, Procs

LEMMA WinRestored ==
    ASSUME windows, DiskOK, ProcOK, WorkOK, Whole, WinOK, Restored
    PROVE  WinOK'
BY LockedFiles DEF DiskOK, ProcOK, WorkOK, WinOK, Layout, Mine, Backed, PutAside, Alive, Held, Procs, Dead, Restored, Main, GiveUp, Goto, disk, work

LEMMA WinCrash ==
    ASSUME windows, DiskOK, ProcOK, WorkOK, Whole, WinOK, Crash
    PROVE  WinOK'
BY LockedFiles DEF DiskOK, ProcOK, WorkOK, WinOK, Layout, Mine, Backed, PutAside, Alive, Held, Procs, Dead, Crash, Main, GiveUp, Goto, disk, work

\* Every step is one of the actions.
LEMMA NextCases ==
    ASSUME Next
    PROVE  \/ \E p \in Procs : Start(p) \/ Swept(p)
           \/ \E p \in Procs, f \in Locked : Sweep(p, f)
           \/ \E p \in Procs, how \in Dead : End(p, how)
           \/ \E good \in BOOLEAN : Download(good)
           \/ \E f \in File : NextEntry(f)
           \/ ExtractionFails \/ Unlink \/ Aside \/ ClearingFails \/ Place \/ PlaceFails
           \/ Extracted
           \/ StartChild \/ StartFails \/ GraceExpires \/ ChildDone \/ ChildDied
           \/ RestoreExe \/ (\E f \in Libs : NextBackup(f))
           \/ RemoveNew \/ RenameBack \/ Restored \/ Crash
BY Zenon DEF Next, Extraction, Restart

LEMMA DiskOKStep == DiskOK /\ ProcOK /\ WorkOK /\ [Next]_vars => DiskOK'
<1> SUFFICES ASSUME DiskOK /\ ProcOK /\ WorkOK, [Next]_vars PROVE DiskOK'
    OBVIOUS
<1>1. CASE UNCHANGED vars
    BY <1>1 DEF vars, disk, work, DiskOK
<1>2. CASE Next
    BY <1>2, NextCases, Zenon,
       DiskOKStart, DiskOKSweep, DiskOKSwept, DiskOKEnd, DiskOKDownload,
       DiskOKNextEntry, DiskOKExtractionFails, DiskOKUnlink, DiskOKAside, DiskOKClearingFails,
       DiskOKPlace, DiskOKPlaceFails, DiskOKExtracted, DiskOKStartChild,
       DiskOKStartFails, DiskOKGraceExpires, DiskOKChildDone, DiskOKChildDied,
       DiskOKRestoreExe, DiskOKNextBackup, DiskOKRemoveNew, DiskOKRenameBack,
       DiskOKRestored, DiskOKCrash
<1> QED BY <1>1, <1>2

LEMMA ProcOKStep == DiskOK /\ ProcOK /\ [Next]_vars => ProcOK'
<1> SUFFICES ASSUME DiskOK /\ ProcOK, [Next]_vars PROVE ProcOK'
    OBVIOUS
<1>1. CASE UNCHANGED vars
    BY <1>1 DEF vars, disk, work, ProcOK
<1>2. CASE Next
    BY <1>2, NextCases, Zenon,
       ProcOKStart, ProcOKSweep, ProcOKSwept, ProcOKEnd, ProcOKDownload,
       ProcOKNextEntry, ProcOKExtractionFails, ProcOKUnlink, ProcOKAside, ProcOKClearingFails,
       ProcOKPlace, ProcOKPlaceFails, ProcOKExtracted, ProcOKStartChild,
       ProcOKStartFails, ProcOKGraceExpires, ProcOKChildDone, ProcOKChildDied,
       ProcOKRestoreExe, ProcOKNextBackup, ProcOKRemoveNew, ProcOKRenameBack,
       ProcOKRestored, ProcOKCrash
<1> QED BY <1>1, <1>2

LEMMA WorkOKStep == DiskOK /\ ProcOK /\ WorkOK /\ [Next]_vars => WorkOK'
<1> SUFFICES ASSUME DiskOK /\ ProcOK /\ WorkOK, [Next]_vars PROVE WorkOK'
    OBVIOUS
<1>1. CASE UNCHANGED vars
    BY <1>1 DEF vars, disk, work, WorkOK
<1>2. CASE Next
    BY <1>2, NextCases, Zenon,
       WorkOKStart, WorkOKSweep, WorkOKSwept, WorkOKEnd, WorkOKDownload,
       WorkOKNextEntry, WorkOKExtractionFails, WorkOKUnlink, WorkOKAside, WorkOKClearingFails,
       WorkOKPlace, WorkOKPlaceFails, WorkOKExtracted, WorkOKStartChild,
       WorkOKStartFails, WorkOKGraceExpires, WorkOKChildDone, WorkOKChildDied,
       WorkOKRestoreExe, WorkOKNextBackup, WorkOKRemoveNew, WorkOKRenameBack,
       WorkOKRestored, WorkOKCrash
<1> QED BY <1>1, <1>2

\* Neither the system nor the user's habits change under way.
LEMMA HostStays == [Next]_vars => UNCHANGED host
<1> SUFFICES ASSUME [Next]_vars PROVE UNCHANGED host
    OBVIOUS
<1>1. CASE UNCHANGED vars
    BY <1>1, Zenon DEF vars
<1>2. CASE Next
    BY <1>2, NextCases, Zenon
    DEF Start, Swept, Sweep, End, Download, NextEntry, ExtractionFails, Unlink, Aside, ClearingFails,
        Place, PlaceFails, Extracted, StartChild, StartFails, GraceExpires, ChildDone,
        ChildDied, RestoreExe, NextBackup, RemoveNew, RenameBack, Restored, Crash
<1> QED BY <1>1, <1>2

LEMMA FlagOKStep == FlagOK /\ [Next]_vars => FlagOK'
<1> SUFFICES ASSUME FlagOK, [Next]_vars PROVE FlagOK'
    OBVIOUS
<1>1. windows' = windows /\ second' = second
    BY HostStays, Zenon DEF host
<1>2. CASE backup' = backup
    BY <1>1, <1>2, Zenon DEF FlagOK
<1>3. CASE Extracted
    BY <1>1, <1>3, Zenon DEF FlagOK, Extracted
<1>4. CASE UNCHANGED vars
    BY <1>4, <1>2, Zenon DEF vars, work
<1>5. Next => Extracted \/ backup' = backup
    BY NextCases, Zenon
    DEF work, Start, Swept, Sweep, End, Download, NextEntry, ExtractionFails, Unlink, Aside, ClearingFails,
        Place, PlaceFails, StartChild, StartFails, GraceExpires, ChildDone, ChildDied,
        RestoreExe, NextBackup, RemoveNew, RenameBack, Restored, Crash
<1> QED BY <1>2, <1>3, <1>4, <1>5

LEMMA WholeStep == DiskOK /\ ProcOK /\ WorkOK /\ Whole /\ [Next]_vars => Whole'
<1> SUFFICES ASSUME DiskOK /\ ProcOK /\ WorkOK /\ Whole, [Next]_vars PROVE Whole'
    OBVIOUS
<1>1. CASE UNCHANGED vars
    BY <1>1 DEF vars, disk, work, Whole, Alive
<1>2. CASE Next
    BY <1>2, NextCases, Zenon,
       WholeStart, WholeSweep, WholeSwept, WholeEnd, WholeDownload, WholeNextEntry,
       WholeExtractionFails, WholeUnlink, WholeAside, WholeClearingFails, WholePlace, WholePlaceFails,
       WholeExtracted, WholeStartChild, WholeStartFails, WholeGraceExpires,
       WholeChildDone, WholeChildDied, WholeRestoreExe, WholeNextBackup,
       WholeRemoveNew, WholeRenameBack, WholeRestored, WholeCrash
<1> QED BY <1>1, <1>2

LEMMA KeptStep == ~second /\ DiskOK /\ ProcOK /\ WorkOK /\ Kept /\ [Next]_vars => Kept'
<1> SUFFICES ASSUME ~second /\ DiskOK /\ ProcOK /\ WorkOK /\ Kept, [Next]_vars PROVE Kept'
    OBVIOUS
<1>1. CASE UNCHANGED vars
    BY <1>1 DEF vars, disk, work, Kept, Alive
<1>2. CASE Next
    BY <1>2, NextCases, Zenon,
       KeptStart, KeptSweep, KeptSwept, KeptEnd, KeptDownload, KeptNextEntry,
       KeptExtractionFails, KeptUnlink, KeptAside, KeptClearingFails, KeptPlace, KeptPlaceFails,
       KeptExtracted, KeptStartChild, KeptStartFails, KeptGraceExpires,
       KeptChildDone, KeptChildDied, KeptRestoreExe, KeptNextBackup, KeptRemoveNew,
       KeptRenameBack, KeptRestored, KeptCrash
<1> QED BY <1>1, <1>2

LEMMA InitShape == Init => DiskOK /\ ProcOK /\ WorkOK /\ FlagOK
<1> SUFFICES ASSUME Init PROVE DiskOK /\ ProcOK /\ WorkOK /\ FlagOK
    OBVIOUS
<1>1. DiskOK
    BY Releases DEF Init, DiskOK, File, Release
<1>2. ProcOK
    BY Releases DEF Init, ProcOK, Procs, Names, Dead
<1>3. WorkOK
    BY LockedFiles DEF Init, WorkOK, Procs
<1>4. FlagOK
    BY Zenon DEF Init, FlagOK
<1> QED BY <1>1, <1>2, <1>3, <1>4

LEMMA InitWhole == Init => Whole /\ Kept
BY DEF Init, Whole, Kept, Alive, Dead, Procs, Extracting, Runnable

LEMMA AlwaysShape == Spec => [](DiskOK /\ ProcOK /\ WorkOK /\ FlagOK)
BY InitShape, DiskOKStep, ProcOKStep, WorkOKStep, FlagOKStep, PTL DEF Spec

LEMMA ShapeIsTyped == DiskOK /\ ProcOK /\ WorkOK /\ FlagOK => TypeOK
BY Zenon DEF DiskOK, ProcOK, WorkOK, FlagOK, TypeOK

\* The update has been taken back.
Rolled == outcome = "rolled back"
RolledOK == Rolled => pc["main"] \in {"gaveUp", "down"} /\ \A f \in Locked : Mine(f)

LEMMA WinStep ==
    windows /\ DiskOK /\ ProcOK /\ WorkOK /\ Whole /\ WinOK /\ [Next]_vars => WinOK'
<1> SUFFICES ASSUME windows /\ DiskOK /\ ProcOK /\ WorkOK /\ Whole /\ WinOK, [Next]_vars
             PROVE  WinOK'
    OBVIOUS
<1>1. CASE UNCHANGED vars
    BY <1>1 DEF vars, disk, work, WinOK, Layout, Mine, Backed, PutAside, Alive
<1>2. CASE Next
    BY <1>2, NextCases, Zenon,
       WinStart, WinSweep, WinSwept, WinEnd, WinDownload, WinNextEntry,
       WinExtractionFails, WinUnlink, WinAside, WinClearingFails, WinPlace, WinPlaceFails,
       WinExtracted, WinStartChild, WinStartFails, WinGraceExpires,
       WinChildDone, WinChildDied, WinRestoreExe, WinNextBackup, WinRemoveNew,
       WinRenameBack, WinRestored, WinCrash
<1> QED BY <1>1, <1>2

\* Only Restored takes an update back.
LEMMA OnlyRestored == Next /\ ~Restored /\ ~Rolled => ~Rolled'
<1>1. ASSUME NEW p \in Procs, Start(p), ~Rolled PROVE ~Rolled'
    <2>1. outcome' = "none" \/ outcome' = outcome
        BY <1>1, Zenon DEF Start
    <2> QED BY <1>1, <2>1, Zenon DEF Rolled
<1>2. ASSUME NEW good \in BOOLEAN, Download(good), ~Rolled PROVE ~Rolled'
    <2>1. outcome' = "failed" \/ outcome' = outcome
        BY <1>2, Zenon DEF Download, GiveUp
    <2> QED BY <1>2, <2>1, Zenon DEF Rolled
<1>3. \/ ExtractionFails \/ ClearingFails \/ PlaceFails \/ StartFails \/ ChildDied \/ RestoreExe
      \/ RemoveNew
      => outcome' \in {"failed", "not started", "died", "restore failed", outcome}
    BY Zenon DEF ExtractionFails, ClearingFails, PlaceFails, StartFails, ChildDied, RestoreExe,
                 RemoveNew, GiveUp
<1>4. GraceExpires \/ ChildDone \/ Crash => outcome' = "updated" \/ outcome' = "none"
    BY Zenon DEF GraceExpires, ChildDone, Crash
<1>5. \/ \E p \in Procs : Swept(p) \/ (\E f \in Locked : Sweep(p, f))
                          \/ (\E how \in Dead : End(p, how))
      \/ (\E f \in File : NextEntry(f)) \/ Unlink \/ Aside \/ Place \/ Extracted \/ StartChild
      \/ (\E f \in Libs : NextBackup(f)) \/ RenameBack
      => outcome' = outcome
    BY Zenon DEF Swept, Sweep, End, NextEntry, Unlink, Aside, Place, Extracted, StartChild,
                 NextBackup, RenameBack, work
<1>6. outcome' \in {"failed", "not started", "died", "restore failed", outcome} /\ ~Rolled
      => ~Rolled'
    BY Zenon DEF Rolled
<1>7. (outcome' = "updated" \/ outcome' = "none") => ~Rolled'
    BY Zenon DEF Rolled
<1>8. outcome' = outcome /\ ~Rolled => ~Rolled'
    BY Zenon DEF Rolled
<1> QED BY <1>1, <1>2, <1>3, <1>4, <1>5, <1>6, <1>7, <1>8, NextCases, Zenon

\* A program that has nothing in hand leaves the files under their own names alone.
LEMMA AtRest ==
    ASSUME ProcOK, Next, pc["main"] \in {"gaveUp", "down"}
    PROVE  \/ outcome' = "none"
           \/ /\ at' = at /\ loaded'["main"] = loaded["main"]
              /\ pc'["main"] \in {"gaveUp", "down"}
<1>1. /\ ~Main("idle") /\ ~Main("extract") /\ ~Main("unlink") /\ ~Main("aside")
      /\ ~Main("place") /\ ~Main("replace") /\ ~Main("start") /\ ~Main("wait") /\ ~Main("restore")
      /\ ~Main("swap") /\ ~Main("remove") /\ ~Main("rename") /\ pc["main"] \notin Busy
      /\ pc["main"] # "sweep"
    BY DEF Main, Busy, Extracting, Restoring
<1>2. \/ \E p \in Procs : Start(p) \/ Swept(p)
      \/ \E p \in Procs, f \in Locked : Sweep(p, f)
      \/ \E p \in Procs, how \in Dead : End(p, how)
    BY <1>1, NextCases, Zenon
    DEF Download, NextEntry, ExtractionFails, Unlink, Aside, ClearingFails, Place, PlaceFails, Extracted,
        StartChild, StartFails, GraceExpires, ChildDone, ChildDied, RestoreExe, NextBackup,
        RemoveNew, RenameBack, Restored, Crash
<1>3. ASSUME NEW p \in Procs, Start(p)
      PROVE  \/ outcome' = "none"
             \/ /\ at' = at /\ loaded'["main"] = loaded["main"]
                /\ pc'["main"] \in {"gaveUp", "down"}
    BY <1>3 DEF Start, Launch, Goto, disk, ProcOK, Procs
<1>4. ASSUME NEW p \in Procs, Swept(p)
      PROVE  /\ at' = at /\ loaded'["main"] = loaded["main"]
             /\ pc'["main"] \in {"gaveUp", "down"}
    BY <1>1, <1>4 DEF Swept, Goto, disk, ProcOK, Procs
<1>5. ASSUME NEW p \in Procs, NEW f \in Locked, Sweep(p, f)
      PROVE  /\ at' = at /\ loaded'["main"] = loaded["main"]
             /\ pc'["main"] \in {"gaveUp", "down"}
    BY <1>5 DEF Sweep
<1>6. ASSUME NEW p \in Procs, NEW how \in Dead, End(p, how)
      PROVE  /\ at' = at /\ loaded'["main"] = loaded["main"]
             /\ pc'["main"] \in {"gaveUp", "down"}
    BY <1>6 DEF End, disk, ProcOK, Procs
<1> QED BY <1>2, <1>3, <1>4, <1>5, <1>6, Zenon

LEMMA RolledStep == ProcOK /\ WorkOK /\ WinOK /\ RolledOK /\ [Next]_vars => RolledOK'
<1> SUFFICES ASSUME ProcOK, WorkOK, WinOK, RolledOK, [Next]_vars PROVE RolledOK'
    OBVIOUS
<1>1. CASE UNCHANGED vars
    BY <1>1, Zenon DEF vars, disk, work, RolledOK, Rolled, Mine
<1>2. CASE Next /\ ~Restored /\ ~Rolled
    BY <1>2, OnlyRestored, Zenon DEF RolledOK
<1>3. CASE Restored
    <2>1. /\ pc["main"] = "swap" /\ todo = {} /\ pc'["main"] = "gaveUp"
          /\ at' = at /\ loaded' = loaded
        BY <1>3 DEF Restored, Main, GiveUp, Goto, disk, ProcOK, Procs
    <2>2. ASSUME NEW f \in Locked PROVE Mine(f)'
        <3>1. Layout(f)
            BY Zenon DEF WinOK
        <3> QED BY <2>1, <3>1 DEF Layout, Mine
    <2> QED BY <2>1, <2>2, Zenon DEF RolledOK
<1>4. CASE Next /\ Rolled
    <2>1. pc["main"] \in {"gaveUp", "down"} /\ \A f \in Locked : Mine(f)
        BY <1>4, Zenon DEF RolledOK
    <2>2. CASE outcome' = "none"
        BY <2>2, Zenon DEF RolledOK, Rolled
    <2>3. CASE /\ at' = at /\ loaded'["main"] = loaded["main"]
               /\ pc'["main"] \in {"gaveUp", "down"}
        BY <2>1, <2>3, Zenon DEF RolledOK, Mine
    <2> QED BY <1>4, <2>1, <2>2, <2>3, AtRest, Zenon
<1> QED BY <1>1, <1>2, <1>3, <1>4, Zenon

\* Where Windows' locks are, the layout of the files holds.
OnWindows == windows => WinOK /\ RolledOK

LEMMA OnWindowsStep == DiskOK /\ ProcOK /\ WorkOK /\ Whole /\ OnWindows /\ [Next]_vars => OnWindows'
<1>1. [Next]_vars => windows' = windows
    BY HostStays, Zenon DEF host
<1> QED BY <1>1, WinStep, RolledStep, Zenon DEF OnWindows

LEMMA InitOnWindows == Init => OnWindows
<1> SUFFICES ASSUME Init PROVE WinOK /\ RolledOK
    BY Zenon DEF OnWindows
<1>1. pc["main"] = "down" /\ \A f \in Locked : at[f] # 0
    BY DEF Init, Procs, Runnable
<1>2. WinOK
    BY <1>1 DEF WinOK, Layout, Dead
<1>3. RolledOK
    BY Zenon DEF Init, RolledOK, Rolled
<1> QED BY <1>2, <1>3

LEMMA AlwaysOnWindows == Spec => []OnWindows
<1>1. Init => Whole
    BY InitWhole, Zenon
<1> QED BY <1>1, AlwaysShape, WholeStep, InitOnWindows, OnWindowsStep, PTL DEF Spec

\* The files, the processes and the work in hand keep their shape for every set of
\* files, on Windows and elsewhere; only what is renamed leaves a backup.
THEOREM UpdaterTyped == Spec => []TypeOK
BY AlwaysShape, ShapeIsTyped, PTL

\* The old program makes way only when every file of the archive is in place.
THEOREM UpdateIsWhole == Spec => []UpdatedWhole
<1>1. Whole => UpdatedWhole
    BY DEF Whole, UpdatedWhole
<1> QED BY <1>1, AlwaysShape, InitWhole, WholeStep, PTL DEF Spec

\* Nothing is lost where nobody sweeps, and nothing either where files in use stay: a
\* file that is not under its own name is in the hand of the program, which holds its
\* backup; wherever the update fails or the machine stops, the backup is there.
THEOREM NothingLost == Spec => []NeverLost
<1>1. Kept => \A f \in Locked : at[f] # 0 \/ old[f] # 0
    BY Zenon DEF Kept
<1>2. WinOK => \A f \in Locked : at[f] # 0 \/ old[f] # 0
    <2> SUFFICES ASSUME WinOK, NEW f \in Locked PROVE at[f] # 0 \/ old[f] # 0
        OBVIOUS
    <2>1. Layout(f)
        BY Zenon DEF WinOK
    <2> QED BY <2>1, Zenon DEF Layout
<1>3. (second \/ Kept) /\ OnWindows => NeverLost
    BY <1>1, <1>2, Zenon DEF NeverLost, OnWindows
<1>4. DiskOK /\ ProcOK /\ WorkOK /\ (second \/ Kept) /\ [Next]_vars => (second \/ Kept)'
    <2> SUFFICES ASSUME DiskOK /\ ProcOK /\ WorkOK, second \/ Kept, [Next]_vars
                 PROVE  (second \/ Kept)'
        OBVIOUS
    <2>1. second' = second
        BY HostStays, Zenon DEF host
    <2>2. CASE second
        BY <2>1, <2>2, Zenon
    <2>3. CASE ~second
        BY <2>3, KeptStep, Zenon
    <2> QED BY <2>2, <2>3
<1> QED BY <1>3, <1>4, AlwaysShape, AlwaysOnWindows, InitWhole, PTL DEF Spec

\* Where a file in use stays, a rollback leaves under its own name every file the
\* program was started from: neither the child it has started nor a second instance
\* can sweep away a backup that is needed.
THEOREM RollbackOnWindows == Spec => []RolledBackOnWindows
<1>1. OnWindows => RolledBackOnWindows
    BY Zenon DEF OnWindows, RolledOK, Rolled, Mine, RolledBackOnWindows, RolledBack
<1> QED BY <1>1, AlwaysOnWindows, PTL
=============================================================================

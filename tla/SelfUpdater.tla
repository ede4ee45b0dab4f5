------------------------------ MODULE SelfUpdater ------------------------------
(***************************************************************************)
(* The files of an installation while the program replaces itself: the      *)
(* archive is unpacked over the running program, the new one is started,   *)
(* and either the old one exits or it puts its backups back.  Each system  *)
(* call is a step.  Between any two of them the new program, and a second  *)
(* instance the user has started, sweep ".old" files away (the first thing *)
(* main does), and the program may be killed.                              *)
(*                                                                         *)
(* A file is its release: 1 is the installed one, 2 the update, 0 no file. *)
(***************************************************************************)
EXTENDS Naturals

CONSTANTS
    Exe,     \* the executable
    Libs,    \* shared libraries that are renamed, never overwritten
    Plain    \* the other files of an archive

Locked == Libs \cup {Exe}  \* shouldRenameLockedFile
File == Locked \cup Plain
Release == 0..2
Procs == {"main", "child", "second"}

ASSUME UpdaterAssumption == Libs \cap Plain = {} /\ Exe \notin Libs \cup Plain

VARIABLES
    at,      \* the release of the file under its own name
    old,     \* of the file renamed to ".old"
    pc,      \* where each process is
    loaded,  \* what each process was started from
    sweep,   \* backups a starting process has yet to remove
    todo,    \* archive entries not yet unpacked, then backups not yet put back
    cur,     \* the file in hand
    backup,  \* hadOldBackup
    outcome, \* of the update
    windows, \* is a file in use kept from being removed or overwritten?
    second   \* may the user start a second instance?

disk == <<at, old>>
work == <<todo, cur, backup, outcome>>
host == <<windows, second>>
vars == <<disk, pc, loaded, sweep, work, host>>

\* "replace": the old file has been put aside; "place": there was none, or it was removed.
Extracting == {"unlink", "aside", "place", "replace"}
Restoring  == {"restore", "swap", "remove", "rename"}
Busy == {"extract", "start", "wait"} \cup Extracting \cup Restoring
Dead == {"down", "died", "done"}
Names == {"sweep", "idle", "gaveUp"} \cup Busy \cup Dead

Alive(p) == pc[p] \notin Dead

\* On Windows a file cannot go away while a process runs from it.
Held(f, r) == windows /\ \E p \in Procs : Alive(p) /\ loaded[p][f] = r /\ r # 0

\* The program is linked with its libraries.
Runnable == \A f \in Locked : at[f] # 0

Init ==
    /\ at \in [File -> 0..1] /\ Runnable
    /\ old = [f \in File |-> 0]
    /\ pc = [p \in Procs |-> "down"]
    /\ loaded = [p \in Procs |-> [f \in Locked |-> 0]]
    /\ sweep = [p \in Procs |-> {}]
    /\ todo = {} /\ cur = Exe /\ backup = FALSE /\ outcome = "none"
    /\ windows \in BOOLEAN /\ second \in BOOLEAN

Goto(p, l) == pc' = [pc EXCEPT ![p] = l]

\* What main and its child are at; the second instance stays where it is.
Both(f, main, child) ==
    [p \in Procs |-> IF p = "main" THEN main ELSE IF p = "child" THEN child ELSE f[p]]

-----------------------------------------------------------------------------
(* Every process: start, CleanupOldBinary, end *)

Launch(p) ==
    /\ loaded' = [loaded EXCEPT ![p] = [f \in Locked |-> at[f]]]
    /\ sweep' = [sweep EXCEPT ![p] = {Exe}]

Start(p) ==
    /\ pc[p] = "down" /\ Runnable
    /\ p = "main" \/ (p = "second" /\ second)
    /\ Launch(p) /\ Goto(p, "sweep")
    /\ UNCHANGED <<disk, todo, cur, backup, host>>
    /\ outcome' = IF p = "main" THEN "none" ELSE outcome

\* The executable's backup first, then the libraries' that are there.
Sweep(p, f) ==
    /\ pc[p] = "sweep" /\ f \in sweep[p]
    /\ old' = IF Held(f, old[f]) THEN old ELSE [old EXCEPT ![f] = 0]
    /\ sweep' = [sweep EXCEPT ![p] = IF f = Exe THEN {l \in Libs : old[l] # 0}
                                     ELSE @ \ {f}]
    /\ UNCHANGED <<at, pc, loaded, work, host>>

Swept(p) ==
    /\ pc[p] = "sweep" /\ sweep[p] = {}
    /\ Goto(p, "idle")
    /\ UNCHANGED <<disk, loaded, sweep, work, host>>

\* A process ends, or is killed; main only when it has nothing in hand.
End(p, how) ==
    /\ Alive(p) /\ how \in (IF p = "child" THEN {"died", "done"} ELSE {"down"})
    /\ p = "main" => pc[p] \in {"sweep", "idle", "gaveUp"}
    /\ how = "done" => pc[p] = "idle"
    /\ pc' = [pc EXCEPT ![p] = how] /\ sweep' = [sweep EXCEPT ![p] = {}]
    /\ UNCHANGED <<disk, loaded, work, host>>

\* The machine stops: every process is gone.
Crash ==
    /\ pc["main"] \in Busy
    /\ pc' = [p \in Procs |-> "down"] /\ sweep' = [p \in Procs |-> {}]
    /\ outcome' = "none"
    /\ UNCHANGED <<disk, loaded, todo, cur, backup, host>>

-----------------------------------------------------------------------------
(* DownloadAndApply *)

Main(l) == pc["main"] = l
GiveUp(why) == Goto("main", "gaveUp") /\ outcome' = why

\* The archive is downloaded and its checksum found right, or not.
Download(good) ==
    /\ Main("idle") /\ loaded["main"][Exe] = 1
    /\ IF good THEN Goto("main", "extract") /\ todo' = File /\ UNCHANGED outcome
               ELSE GiveUp("failed") /\ UNCHANGED todo
    /\ UNCHANGED <<disk, loaded, sweep, cur, backup, host>>

\* An entry has been written to a temporary file.
NextEntry(f) ==
    /\ Main("extract") /\ f \in todo
    /\ cur' = f /\ todo' = todo \ {f}
    /\ Goto("main", "unlink")
    /\ UNCHANGED <<disk, loaded, sweep, backup, outcome, host>>

EntrySkipped == \* fault: an entry that cannot be written is passed over
    /\ Main("extract") /\ todo' = {}
    /\ UNCHANGED <<disk, pc, loaded, sweep, cur, backup, outcome, host>>

\* The archive is broken, too large, or the disk is full: entries that are in
\* place stay there.
ExtractionFails ==
    /\ Main("extract")
    /\ GiveUp("failed")
    /\ UNCHANGED <<disk, loaded, sweep, todo, cur, backup, host>>

UnlinkOverwriting == \* fault: no file is renamed
    /\ Main("unlink")
    /\ at' = [at EXCEPT ![cur] = 0]
    /\ Goto("main", "place")
    /\ UNCHANGED <<old, loaded, sweep, work, host>>

\* replaceFile: an earlier backup goes, or the file itself if it is a plain one.
Unlink ==
    /\ Main("unlink")
    /\ IF cur \in Locked
         THEN /\ old' = IF Held(cur, old[cur]) THEN old ELSE [old EXCEPT ![cur] = 0]
              /\ Goto("main", "aside")
              /\ UNCHANGED at
         ELSE at' = [at EXCEPT ![cur] = 0] /\ Goto("main", "place") /\ UNCHANGED old
    /\ UNCHANGED <<loaded, sweep, work, host>>

Aside ==
    /\ Main("aside")
    /\ IF at[cur] = 0
         THEN Goto("main", "place") /\ UNCHANGED disk
         ELSE /\ ~Held(cur, old[cur])
              /\ old' = [old EXCEPT ![cur] = at[cur]]
              /\ at' = [at EXCEPT ![cur] = 0]
              /\ Goto("main", "replace")
    /\ UNCHANGED <<loaded, sweep, work, host>>

\* The file in the way cannot be removed or renamed: it stays.
ClearingFails ==
    /\ Main("aside") \/ (Main("unlink") /\ cur \in Plain)
    /\ at[cur] # 0
    /\ GiveUp("failed")
    /\ UNCHANGED <<disk, loaded, sweep, todo, cur, backup, host>>

Place ==
    /\ Main("place") \/ Main("replace")
    /\ at' = [at EXCEPT ![cur] = 2]
    /\ Goto("main", "extract")
    /\ UNCHANGED <<old, loaded, sweep, work, host>>

\* A backup this call has made goes back, if it is still there.
PlaceFails ==
    /\ Main("place") \/ Main("replace")
    /\ IF Main("replace") /\ old[cur] # 0
         THEN at' = [at EXCEPT ![cur] = old[cur]] /\ old' = [old EXCEPT ![cur] = 0]
         ELSE UNCHANGED disk
    /\ GiveUp("failed")
    /\ UNCHANGED <<loaded, sweep, todo, cur, backup, host>>

Extracted ==
    /\ Main("extract") /\ todo = {}
    /\ backup' = (old[Exe] # 0)
    /\ Goto("main", "start")
    /\ UNCHANGED <<disk, loaded, sweep, todo, cur, outcome, host>>

-----------------------------------------------------------------------------
(* restartSelf and restoreOldBackups *)

\* StartProcess itself may fail, on a file that is not a program.
StartChild ==
    /\ Main("start") /\ Runnable
    /\ Launch("child")
    /\ pc' = Both(pc, "wait", "sweep")
    /\ UNCHANGED <<disk, work, host>>

StartFails ==
    /\ Main("start")
    /\ GiveUp("not started")
    /\ UNCHANGED <<disk, loaded, sweep, todo, cur, backup, host>>

ReadinessAwaited == \* fault: the parent waits until the child is up
    /\ Main("wait") /\ pc["child"] = "idle"
    /\ pc' = Both(pc, "idle", "down")
    /\ loaded' = [loaded EXCEPT !["main"] = loaded["child"]]
    /\ outcome' = "updated"
    /\ UNCHANGED <<disk, sweep, todo, cur, backup, host>>

\* After the grace period the child is on its own: it is the program now.
GraceExpires ==
    /\ Main("wait") /\ Alive("child")
    /\ pc' = Both(pc, pc["child"], "down")
    /\ loaded' = [loaded EXCEPT !["main"] = loaded["child"]]
    /\ sweep' = Both(sweep, sweep["child"], {})
    /\ outcome' = "updated"
    /\ UNCHANGED <<disk, todo, cur, backup, host>>

ChildDone ==
    /\ Main("wait") /\ pc["child"] = "done"
    /\ pc' = Both(pc, "down", "down")
    /\ outcome' = "updated"
    /\ UNCHANGED <<disk, loaded, sweep, todo, cur, backup, host>>

ChildIgnored == \* fault: the parent does not look at how the child ended
    /\ Main("wait") /\ pc["child"] = "died"
    /\ GiveUp("rolled back")
    /\ UNCHANGED <<disk, loaded, sweep, todo, cur, backup, host>>

ChildDied ==
    /\ Main("wait") /\ pc["child"] = "died"
    /\ IF backup THEN Goto("main", "restore") /\ UNCHANGED outcome
                 ELSE GiveUp("died")
    /\ UNCHANGED <<disk, loaded, sweep, todo, cur, backup, host>>

\* Rename on top of the new executable; a backup that is not there is no error.
RestoreExe ==
    /\ Main("restore")
    /\ IF old[Exe] # 0 /\ Held(Exe, at[Exe])
         THEN GiveUp("restore failed") /\ UNCHANGED <<disk, todo>>
         ELSE /\ at' = IF old[Exe] = 0 THEN at ELSE [at EXCEPT ![Exe] = old[Exe]]
              /\ old' = [old EXCEPT ![Exe] = 0]
              /\ todo' = {l \in Libs : old[l] # 0}
              /\ Goto("main", "swap") /\ UNCHANGED outcome
    /\ UNCHANGED <<loaded, sweep, cur, backup, host>>

\* The backup is looked for once more before the new library is removed.
NextBackup(f) ==
    /\ Main("swap") /\ f \in todo
    /\ todo' = todo \ {f}
    /\ IF old[f] = 0 THEN UNCHANGED <<pc, cur>>
                     ELSE cur' = f /\ Goto("main", "remove")
    /\ UNCHANGED <<disk, loaded, sweep, backup, outcome, host>>

RemoveNew ==
    /\ Main("remove")
    /\ IF Held(cur, at[cur])
         THEN GiveUp("restore failed") /\ UNCHANGED at
         ELSE at' = [at EXCEPT ![cur] = 0] /\ Goto("main", "rename") /\ UNCHANGED outcome
    /\ UNCHANGED <<old, loaded, sweep, todo, cur, backup, host>>

RenameBack ==
    /\ Main("rename")
    /\ IF old[cur] = 0 THEN UNCHANGED disk
       ELSE at' = [at EXCEPT ![cur] = old[cur]] /\ old' = [old EXCEPT ![cur] = 0]
    /\ Goto("main", "swap")
    /\ UNCHANGED <<loaded, sweep, work, host>>

Restored ==
    /\ Main("swap") /\ todo = {}
    /\ GiveUp("rolled back")
    /\ UNCHANGED <<disk, loaded, sweep, todo, cur, backup, host>>

-----------------------------------------------------------------------------
Extraction ==
    \/ \E f \in File : NextEntry(f)
    \/ ExtractionFails \/ Unlink \/ Aside \/ ClearingFails \/ Place \/ PlaceFails \/ Extracted

Restart ==
    \/ StartChild \/ StartFails \/ GraceExpires \/ ChildDone \/ ChildDied
    \/ RestoreExe
    \/ \E f \in Libs : NextBackup(f)
    \/ RemoveNew \/ RenameBack \/ Restored

Next ==
    \/ \E p \in Procs :
           \/ Start(p) \/ Swept(p)
           \/ \E f \in Locked : Sweep(p, f)
           \/ \E how \in Dead : End(p, how)
    \/ \E good \in BOOLEAN : Download(good)
    \/ Extraction
    \/ Restart
    \/ Crash

Spec == Init /\ [][Next]_vars

\* The program runs, and its grace period ends.
FairSpec == Spec /\ WF_vars(Extraction) /\ WF_vars(Restart)

-----------------------------------------------------------------------------
(* Properties *)

\* The shape of the state.  Only what was in use leaves a backup.
TypeOK ==
    /\ at \in [File -> Release] /\ old \in [File -> Release]
    /\ \A f \in Plain : old[f] = 0
    /\ pc \in [Procs -> Names]
    /\ loaded \in [Procs -> [Locked -> Release]]
    /\ sweep \in [Procs -> SUBSET Locked]
    /\ todo \subseteq File /\ cur \in File
    /\ backup \in BOOLEAN
    /\ outcome \in {"none", "failed", "not started", "died", "updated",
                    "rolled back", "restore failed"}
    /\ windows \in BOOLEAN /\ second \in BOOLEAN

\* Whatever fails, and wherever the machine stops, an executable or a library the
\* program was linked with exists under its name or as its backup.  A second instance
\* may remove a backup that is still needed, but not on Windows.
NeverLost == (second => windows) => \A f \in Locked : at[f] # 0 \/ old[f] # 0

\* The old program makes way for the new one only when every file of the archive is
\* in place.  (Entries that are not regular files, or whose name is not a plain file
\* name, are passed over by design and are no members of File.)
UpdatedWhole == outcome = "updated" => \A f \in File : at[f] = 2

\* An update ends, in one way or another: nobody waits for a child for ever.
UpdateEnds == Main("extract") ~> ~(pc["main"] \in Busy)

\* "If the child exits within restartGracePeriod the previous binary is restored
\* from the .old backup", and its libraries with it: the program the user is left
\* with is the one that is running.
RolledBack == outcome = "rolled back" => \A f \in Locked : at[f] = loaded["main"][f]

\* Where a file in use stays, the cleanup of the child, or of a second instance,
\* cannot take the backups of the running program away, and the rollback works.
RolledBackOnWindows == windows => RolledBack
=============================================================================

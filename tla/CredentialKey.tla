----------------------------- MODULE CredentialKey -----------------------------
(***************************************************************************)
(* The key that encrypts the stored passwords, in a file beside the        *)
(* database, and the programs that start over the same two files: each     *)
(* looks whether a key is missing that the database needs, reads or makes  *)
(* the key and opens the database, which one program holds at a time.      *)
(*                                                                         *)
(* Keys are numbered as they are made.  A password is encrypted under its  *)
(* key or Plain, as releases without encryption left it; AES-GCM opens a   *)
(* password under its own key only.  The key file is written beside its    *)
(* name and linked to it, so it is there whole or not at all.              *)
(* The names differ from those of SettingsStore, the other component of the *)
(* same database, so that one module can state theorems about both.        *)
(***************************************************************************)
EXTENDS Naturals

CONSTANTS
    Procs,   \* programs started in one directory
    Records, \* connections
    MaxKeys, \* bound: the keys made
    MaxLost, \* bound: the key files lost
    Absent, Plain

KeyIds == 1..MaxKeys

ASSUME BoundAssumption == MaxKeys \in Nat /\ MaxLost \in Nat
ASSUME ValueAssumption == Absent \notin KeyIds \cup Procs \cup {Plain} /\ Plain \notin KeyIds

VARIABLES
    dbFile,   \* the database: "absent" or "present"
    password, \* as stored: Absent without a record
    keyFile,  \* the key in the file, 0 if there is none
    made,     \* keys made
    lost,     \* key files lost
    lock,     \* who has the database open, or Absent
    pc,
    key       \* of the program's cipher, 0 before there is one

files   == <<dbFile, password, lost>>
keyVars == <<dbFile, password, keyFile, made, lost, lock, pc, key>>

Labels == {"down", "stat database", "stat key", "scan", "load", "generate", "link",
           "open", "running", "refused"}

KeyInit ==
    /\ dbFile \in {"absent", "present"}
    /\ password \in [Records -> IF dbFile = "present" THEN {Absent, Plain} ELSE {Absent}]
    /\ keyFile = 0 /\ made = 0 /\ lost = 0 /\ lock = Absent
    /\ pc = [p \in Procs |-> "down"] /\ key = [p \in Procs |-> 0]

At(p, l) == pc[p] = l
Goto(p, l) == pc' = [pc EXCEPT ![p] = l]
NobodyStarted == \A p \in Procs : At(p, "down")

-----------------------------------------------------------------------------
(* main.run: the guard *)

Launch(p) ==
    /\ At(p, "down") /\ Goto(p, "stat database")
    /\ key' = [key EXCEPT ![p] = 0]
    /\ UNCHANGED <<files, keyFile, made, lock>>

StatDatabase(p) ==
    /\ At(p, "stat database")
    /\ Goto(p, IF dbFile = "present" THEN "stat key" ELSE "load")
    /\ UNCHANGED <<files, keyFile, made, lock, key>>

StatNothing(p) == \* fault: a missing key is made whatever the database holds
    /\ At(p, "stat key") /\ Goto(p, "load")
    /\ UNCHANGED <<files, keyFile, made, lock, key>>

StatKey(p) ==
    /\ At(p, "stat key")
    /\ Goto(p, IF keyFile # 0 THEN "load" ELSE "scan")
    /\ UNCHANGED <<files, keyFile, made, lock, key>>

\* HasEncryptedCredentials opens the database to read, within a second.
Scan(p) ==
    /\ At(p, "scan")
    /\ Goto(p, IF lock # Absent \/ \E r \in Records : password[r] \in KeyIds
               THEN "refused" ELSE "load")
    /\ UNCHANGED <<files, keyFile, made, lock, key>>

-----------------------------------------------------------------------------
(* FileKeyProvider.Key *)

Load(p) ==
    /\ At(p, "load")
    /\ key' = [key EXCEPT ![p] = keyFile]
    /\ Goto(p, IF keyFile # 0 THEN "open" ELSE "generate")
    /\ UNCHANGED <<files, keyFile, made, lock>>

Generate(p) ==
    /\ At(p, "generate") /\ made < MaxKeys
    /\ made' = made + 1
    /\ key' = [key EXCEPT ![p] = made + 1]
    /\ Goto(p, "link")
    /\ UNCHANGED <<files, keyFile, lock>>

LinkOver(p) == \* fault: the file is renamed into place, over another
    /\ At(p, "link")
    /\ keyFile' = key[p] /\ Goto(p, "open")
    /\ UNCHANGED <<files, made, lock, key>>

\* Another program's key is in place: it is not one's own.
Link(p) ==
    /\ At(p, "link")
    /\ IF keyFile = 0 THEN keyFile' = key[p] /\ Goto(p, "open")
       ELSE Goto(p, IF keyFile = key[p] THEN "open" ELSE "refused") /\ UNCHANGED keyFile
    /\ UNCHANGED <<files, made, lock, key>>

-----------------------------------------------------------------------------
(* The database *)

OpenPatiently(p) == \* fault: no timeout
    /\ At(p, "open") /\ lock = Absent
    /\ lock' = p /\ dbFile' = "present" /\ Goto(p, "running")
    /\ UNCHANGED <<password, lost, keyFile, made, key>>

\* BoltAdapter.Initialize waits a second for the file.
Open(p) ==
    /\ At(p, "open")
    /\ IF lock = Absent THEN lock' = p /\ dbFile' = "present" /\ Goto(p, "running")
       ELSE Goto(p, "refused") /\ UNCHANGED <<lock, dbFile>>
    /\ UNCHANGED <<password, lost, keyFile, made, key>>

\* Every save encrypts; what is read before is decrypted, or is Plain.
SavePassword(p, r) ==
    /\ At(p, "running")
    /\ password' = [password EXCEPT ![r] = key[p]]
    /\ UNCHANGED <<dbFile, lost, keyFile, made, lock, pc, key>>

DeletePassword(p, r) ==
    /\ At(p, "running")
    /\ password' = [password EXCEPT ![r] = Absent]
    /\ UNCHANGED <<dbFile, lost, keyFile, made, lock, pc, key>>

\* The program ends, or is killed wherever it is.
Stop(p) ==
    /\ ~At(p, "down") /\ Goto(p, "down")
    /\ lock' = IF lock = p THEN Absent ELSE lock
    /\ UNCHANGED <<files, keyFile, made, key>>

-----------------------------------------------------------------------------
(* What the user does with the files while no program has been started *)

LoseKey ==
    /\ NobodyStarted /\ keyFile # 0 /\ lost < MaxLost
    /\ keyFile' = 0 /\ lost' = lost + 1
    /\ UNCHANGED <<dbFile, password, made, lock, pc, key>>

\* "restore the original key file or remove [the database] and reconfigure"
RestoreKey(k) ==
    /\ NobodyStarted /\ keyFile = 0 /\ k <= made
    /\ \A r \in Records : password[r] \in KeyIds => password[r] = k
    /\ keyFile' = k
    /\ UNCHANGED <<files, made, lock, pc, key>>

RemoveDatabase ==
    /\ NobodyStarted /\ dbFile = "present"
    /\ dbFile' = "absent" /\ password' = [r \in Records |-> Absent]
    /\ UNCHANGED <<lost, keyFile, made, lock, pc, key>>

Startup(p) ==
    \/ StatDatabase(p) \/ StatKey(p) \/ Scan(p)
    \/ Load(p) \/ Generate(p) \/ Link(p) \/ Open(p)

KeyNext ==
    \/ \E p \in Procs :
          \/ Launch(p) \/ Startup(p) \/ Stop(p)
          \/ \E r \in Records : SavePassword(p, r) \/ DeletePassword(p, r)
    \/ LoseKey \/ RemoveDatabase
    \/ \E k \in KeyIds : RestoreKey(k)

KeySpec == KeyInit /\ [][KeyNext]_keyVars
KeyFairSpec == KeySpec /\ \A p \in Procs : WF_keyVars(Startup(p))

-----------------------------------------------------------------------------
(* Properties *)

\* The shape of the state.  No program goes on to the database without a key.
KeyTypeOK ==
    /\ dbFile \in {"absent", "present"}
    /\ password \in [Records -> {Absent, Plain} \cup KeyIds]
    /\ keyFile \in 0..MaxKeys /\ made \in 0..MaxKeys /\ lost \in 0..MaxLost
    /\ lock \in Procs \cup {Absent}
    /\ pc \in [Procs -> Labels] /\ key \in [Procs -> 0..MaxKeys]
    /\ \A p \in Procs : pc[p] \in {"link", "open", "running"} => key[p] # 0

\* A program that got through the start has the key that is in the file,
\* whichever of several programs started at once made it.
KeyOnDisk == \A p \in Procs : pc[p] \in {"open", "running"} => key[p] = keyFile

\* It can decrypt every password there is: no second key is made while the
\* database has passwords under the first, in whatever order files were lost.
Readable ==
    \A p \in Procs : At(p, "running") =>
        \A r \in Records : password[r] \in {Absent, Plain, key[p]}

\* A start comes to an end, even if another program runs forever.
StartEnds ==
    \A p \in Procs :
        At(p, "stat database") ~>
            (pc[p] \in {"running", "refused", "down"} \/ (At(p, "generate") /\ made = MaxKeys))
=============================================================================

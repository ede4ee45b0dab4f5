--------------------------- MODULE PackageDeployment ---------------------------
(***************************************************************************)
(* What a start of the program installs in the database: the permission    *)
(* check package, there only for the check, and the tracer package with    *)
(* its queue.  Several installations share a schema and start whenever     *)
(* they like; each keeps the hash of the package it deployed last, and     *)
(* none of them knows of the others.                                       *)
(*                                                                         *)
(* A round trip to the database is a step.  A package is the release whose *)
(* text it has, 0 if there is none.  Sequences and types are created once  *)
(* and for all releases, and left out.                                     *)
(***************************************************************************)
EXTENDS Naturals

CONSTANTS
    Clients,    \* installations
    Dbs,        \* databases, with one schema each
    MaxRelease, \* bound: the releases of the program
    MaxFaults,  \* bound: the statements that fail and the programs killed
    MaxEnds     \* bound: the programs ended or led to another database

ASSUME DeploymentAssumption ==
    MaxRelease \in Nat \ {0} /\ MaxFaults \in Nat /\ MaxEnds \in Nat

Release == 0..MaxRelease

VARIABLES
    \* of a database
    spec, body, \* of OMNI_TRACER_API
    queue,      \* "none", "created" or "started"
    checker,    \* the parts of TXEVENTQ_PERMISSION_CHECK_API that are there
    releases,   \* history: the releases that were ever deployed
    \* of an installation
    release,    \* what is installed
    stored,     \* GetTracerPackageVersion
    storedFor,  \* history: the database after whose deployment it was stored
    verdict,    \* the permissions of the schema have been found sufficient
    validated,  \* databases whose connection is marked as validated
    \* of a running program
    pc, db,
    exists,     \* did the package exist?
    begun,      \* history: databases on which a permission check was begun
    strayed,    \* history: who relies on the hash of another database's package
    faults, ends

schema  == <<spec, body, queue, checker, releases>>
hash    == <<stored, storedFor>>
history == <<begun, strayed>>
bounds  == <<faults, ends>>
vars == <<schema, release, hash, verdict, validated, pc, db, exists, history, bounds>>

Parts   == {"spec", "body"}
Resting == {"down", "ready", "failed"}
Checks  == {"check", "checkerSpec", "checkerBody", "report", "save"}
Past    == {"initialize", "startQueue", "register", "ready"}
Labels  == Resting \cup Checks \cup Past \cup
           {"cleanup", "drop", "exists", "spec", "body", "store"}

Init ==
    /\ spec = [d \in Dbs |-> 0] /\ body = [d \in Dbs |-> 0]
    /\ queue = [d \in Dbs |-> "none"] /\ checker = [d \in Dbs |-> {}]
    /\ releases = [d \in Dbs |-> {}]
    /\ release = [c \in Clients |-> 1] /\ stored = [c \in Clients |-> 0]
    /\ storedFor \in [Clients -> Dbs]
    /\ verdict = [c \in Clients |-> FALSE]
    /\ pc = [c \in Clients |-> "down"] /\ db \in [Clients -> Dbs]
    /\ exists = [c \in Clients |-> FALSE]
    /\ validated = [c \in Clients |-> {}]
    /\ begun = [c \in Clients |-> {}] /\ strayed = {}
    /\ faults = 0 /\ ends = 0

At(c, l) == pc[c] = l
Goto(c, l) == pc' = [pc EXCEPT ![c] = l]
client == <<release, validated, db, exists, bounds>>

-----------------------------------------------------------------------------
(* The program comes and goes *)

\* A connection that is marked needs no check.
Connect(c, d) ==
    /\ pc[c] \in {"down", "failed"}
    /\ pc[c] = "failed" => d = db[c]
    /\ db' = [db EXCEPT ![c] = d]
    /\ Goto(c, IF d \in validated[c] THEN "exists" ELSE "check")
    /\ UNCHANGED <<schema, release, hash, verdict, validated, exists, history, bounds>>

\* The program ends, and a new release may be installed; or another database is
\* chosen, which starts the sequence again.
Leave(c, r) ==
    /\ pc[c] \in {"ready", "failed"}
    /\ ends < MaxEnds /\ ends' = ends + 1
    /\ r \in {release[c], release[c] + 1} /\ r <= MaxRelease
    /\ release' = [release EXCEPT ![c] = r]
    /\ Goto(c, "down")
    /\ UNCHANGED <<schema, hash, verdict, validated, db, exists, history, faults>>

\* A statement fails without effect.  A check that fails drops its package.
Fault(c) ==
    /\ pc[c] \notin Resting
    /\ faults < MaxFaults /\ faults' = faults + 1
    /\ Goto(c, IF pc[c] \in Checks /\ ~verdict[c] THEN "cleanup" ELSE "failed")
    /\ UNCHANGED <<schema, release, hash, verdict, validated, db, exists, history, ends>>

Kill(c) ==
    /\ pc[c] \notin Resting
    /\ faults < MaxFaults /\ faults' = faults + 1
    /\ Goto(c, "down")
    /\ UNCHANGED <<schema, release, hash, verdict, validated, db, exists, history, ends>>

-----------------------------------------------------------------------------
(* PermissionService.DeployAndCheck *)

\* Whoever finds the specification of the check package uses the package.
FindChecker(c) ==
    /\ At(c, "check")
    /\ begun' = [begun EXCEPT ![c] = @ \cup {db[c]}]
    /\ Goto(c, IF verdict[c] THEN "drop"
               ELSE IF "spec" \in checker[db[c]] THEN "report" ELSE "checkerSpec")
    /\ UNCHANGED <<schema, hash, verdict, strayed, client>>

DeployCheckerSpec(c) ==
    /\ At(c, "checkerSpec")
    /\ checker' = [checker EXCEPT ![db[c]] = @ \cup {"spec"}]
    /\ Goto(c, "checkerBody")
    /\ UNCHANGED <<spec, body, queue, releases, hash, verdict, history, client>>

\* A body is created, with errors, also if its specification was dropped meanwhile.
DeployCheckerBody(c) ==
    /\ At(c, "checkerBody")
    /\ checker' = [checker EXCEPT ![db[c]] = @ \cup {"body"}]
    /\ Goto(c, "report")
    /\ UNCHANGED <<spec, body, queue, releases, hash, verdict, history, client>>


\* The report needs the whole package.
Report(c) ==
    /\ At(c, "report")
    /\ Goto(c, IF checker[db[c]] = Parts THEN "save" ELSE "cleanup")
    /\ UNCHANGED <<schema, hash, verdict, history, client>>

SaveOnly(c) == \* fault: the package stays
    /\ At(c, "save")
    /\ verdict' = [verdict EXCEPT ![c] = TRUE]
    /\ validated' = [validated EXCEPT ![c] = @ \cup {db[c]}]
    /\ Goto(c, "exists")
    /\ UNCHANGED <<schema, hash, history, release, db, exists, bounds>>

SaveVerdict(c) ==
    /\ At(c, "save")
    /\ verdict' = [verdict EXCEPT ![c] = TRUE]
    /\ Goto(c, "drop")
    /\ UNCHANGED <<schema, hash, history, client>>

\* DROP PACKAGE, of which ORA-04043 is ignored: a body that has lost its specification
\* may stay.
DropPackage(c) ==
    \E left \in SUBSET (checker[db[c]] \cap {"body"}) :
        /\ "spec" \in checker[db[c]] => left = {}
        /\ checker' = [checker EXCEPT ![db[c]] = left]

\* The connection is marked once the package is dropped.
DropChecker(c) ==
    /\ At(c, "drop")
    /\ DropPackage(c)
    /\ validated' = [validated EXCEPT ![c] = @ \cup {db[c]}]
    /\ Goto(c, "exists")
    /\ UNCHANGED <<spec, body, queue, releases, hash, verdict, history, release, db, exists,
                   bounds>>

Cleanup(c) ==
    /\ At(c, "cleanup")
    /\ DropPackage(c)
    /\ Goto(c, "failed")
    /\ UNCHANGED <<spec, body, queue, releases, hash, verdict, history, client>>

-----------------------------------------------------------------------------
(* TracerService.DeployAndCheck *)

\* PackageExists looks at the specification; the hash is the installation's own.
PackageExists(c) ==
    LET there   == spec[db[c]] # 0
        skipped == there /\ stored[c] = release[c]
    IN
    /\ At(c, "exists")
    /\ exists' = [exists EXCEPT ![c] = there]
    /\ strayed' = IF skipped /\ storedFor[c] # db[c] THEN strayed \cup {c} ELSE strayed \ {c}
    /\ Goto(c, IF skipped THEN "register" ELSE "spec")
    /\ UNCHANGED <<schema, release, hash, verdict, validated, db, begun, bounds>>

HashFirst(c) == \* fault: the hash is stored before the package is complete
    /\ At(c, "spec")
    /\ spec' = [spec EXCEPT ![db[c]] = release[c]]
    /\ releases' = [releases EXCEPT ![db[c]] = @ \cup {release[c]}]
    /\ stored' = [stored EXCEPT ![c] = release[c]]
    /\ storedFor' = [storedFor EXCEPT ![c] = db[c]]
    /\ Goto(c, "body")
    /\ UNCHANGED <<body, queue, checker, verdict, history, client>>

DeploySpec(c) ==
    /\ At(c, "spec")
    /\ spec' = [spec EXCEPT ![db[c]] = release[c]]
    /\ releases' = [releases EXCEPT ![db[c]] = @ \cup {release[c]}]
    /\ Goto(c, "body")
    /\ UNCHANGED <<body, queue, checker, hash, verdict, history, client>>

DeployBody(c) ==
    /\ At(c, "body")
    /\ body' = [body EXCEPT ![db[c]] = release[c]]
    /\ Goto(c, "store")
    /\ UNCHANGED <<spec, queue, checker, releases, hash, verdict, history, client>>

\* A hash that cannot be stored is only logged.
StoreHash(c) ==
    /\ At(c, "store")
    /\ \/ UNCHANGED hash
       \/ /\ stored' = [stored EXCEPT ![c] = release[c]]
          /\ storedFor' = [storedFor EXCEPT ![c] = db[c]]
    /\ Goto(c, IF exists[c] THEN "register" ELSE "initialize")
    /\ UNCHANGED <<schema, verdict, history, client>>

\* OMNI_TRACER_API.Initialize creates the queue and starts it, unless it is there.
Initialize(c) ==
    /\ At(c, "initialize")
    /\ IF queue[db[c]] = "none"
         THEN queue' = [queue EXCEPT ![db[c]] = "created"] /\ Goto(c, "startQueue")
         ELSE Goto(c, "register") /\ UNCHANGED queue
    /\ UNCHANGED <<spec, body, checker, releases, hash, verdict, history, client>>

StartQueue(c) ==
    /\ At(c, "startQueue")
    /\ queue' = [queue EXCEPT ![db[c]] = "started"]
    /\ Goto(c, "register")
    /\ UNCHANGED <<spec, body, checker, releases, hash, verdict, history, client>>

\* The subscriber is added to the queue, by a package that compiles.
Register(c) ==
    /\ At(c, "register")
    /\ Goto(c, IF queue[db[c]] # "none" /\ body[db[c]] = spec[db[c]]
               THEN "ready" ELSE "failed")
    /\ UNCHANGED <<schema, hash, verdict, history, client>>

-----------------------------------------------------------------------------
Step(c) ==
    \/ FindChecker(c) \/ DeployCheckerSpec(c) \/ DeployCheckerBody(c) \/ Report(c)
    \/ SaveVerdict(c) \/ DropChecker(c) \/ Cleanup(c)
    \/ PackageExists(c) \/ DeploySpec(c) \/ DeployBody(c) \/ StoreHash(c)
    \/ Initialize(c) \/ StartQueue(c) \/ Register(c)

Next ==
    \E c \in Clients :
        \/ Step(c)
        \/ \E d \in Dbs : Connect(c, d)
        \/ \E r \in Release : Leave(c, r)
        \/ Fault(c) \/ Kill(c)

Spec == Init /\ [][Next]_vars

\* The sequence of a program that was started goes on.
FairSpec == Spec /\ \A c \in Clients : WF_vars(Step(c))

-----------------------------------------------------------------------------
(* Properties *)

\* The shape of the state.  No connection is marked before its permissions are known.
TypeOK ==
    /\ spec \in [Dbs -> Release] /\ body \in [Dbs -> Release]
    /\ queue \in [Dbs -> {"none", "created", "started"}]
    /\ checker \in [Dbs -> SUBSET Parts] /\ verdict \in [Clients -> BOOLEAN]
    /\ releases \in [Dbs -> SUBSET Release]
    /\ release \in [Clients -> 1..MaxRelease]
    /\ stored \in [Clients -> Release] /\ storedFor \in [Clients -> Dbs]
    /\ pc \in [Clients -> Labels] /\ db \in [Clients -> Dbs]
    /\ exists \in [Clients -> BOOLEAN]
    /\ validated \in [Clients -> SUBSET Dbs] /\ begun \in [Clients -> SUBSET Dbs]
    /\ strayed \subseteq Clients
    /\ \A c \in Clients : validated[c] # {} => verdict[c]
    /\ faults \in 0..MaxFaults /\ ends \in 0..MaxEnds

\* Whoever gets past the deployment, at whatever moment others deployed, failed or
\* were killed, has the whole package of its release, also if it deployed nothing
\* because of the hash; unless that hash is from the deployment to another database,
\* or another release was ever deployed to this one.
Deployed ==
    \A c \in Clients :
        pc[c] \in Past /\ c \notin strayed /\ releases[db[c]] \subseteq {release[c]} =>
            spec[db[c]] = release[c] /\ body[db[c]] = release[c]

\* "deployed, checked and dropped": the check package stays in a database only as long
\* as an installation has begun a check there and not passed it, however the checks
\* of several installations run into each other.
NothingLeft ==
    \A d \in Dbs : "spec" \in checker[d] => \E c \in Clients : d \in begun[c] \ validated[c]

Undisturbed(c) == \A e \in Clients \ {c} : pc[e] \in Resting


\* "every content change takes effect on next restart"
UpdatesArrive ==
    \A c \in Clients : At(c, "register") => spec[db[c]] = release[c]
=============================================================================

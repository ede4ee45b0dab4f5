--------------------------- MODULE SubscriberRegistry ---------------------------
(***************************************************************************)
(* The registration of OmniView clients in one Oracle schema: DeployAndCheck *)
(* of the tracer service, RegisterSubscriber with its procedure generator,  *)
(* and the schema they share.                                              *)
(*                                                                         *)
(* Every client that connects to the schema runs the same startup: it      *)
(* deploys the base package OMNI_TRACER_API unless it remembers to have    *)
(* deployed this version, takes a funny name, saves it, adds it to AQ as a *)
(* consumer, and writes TRACE_MESSAGE_<name> into the package.  The package *)
(* is read and written whole, its specification and its body with one call *)
(* each.  Every call to Oracle is a step, so clients interleave and a      *)
(* failure or a crash can fall between any two of them.                    *)
(***************************************************************************)
EXTENDS Naturals, FiniteSets

CONSTANTS
    Clients,     \* the OmniView installations, each with its own BoltDB
    Names,       \* the curated funny names
    MaxTroubles  \* bound: the calls that fail, the processes that die, and the times
                 \* a client begins while another is at work

None     == "none"
Unmarked == "unmarked"
Owner    == Clients \cup {None, Unmarked}

ASSUME RegistryAssumption ==
    /\ MaxTroubles \in Nat
    /\ IsFiniteSet(Names)
    /\ {None, Unmarked} \cap (Clients \cup Names) = {}

VARIABLES
    parts,     \* the parts of the package that are in the schema
    spec,      \* by name, the owner mark of the procedure declared in the package
    body,      \* by name, the owner mark of the procedure in the package body
    compiled,  \* has the body been written after the specification?
    queue,     \* does the AQ queue exist?
    consumers, \* the consumers of the queue
    stored,    \* by client, the funny name in its BoltDB
    version,   \* by client, does its BoltDB hold the hash of this package version?
    at,        \* where each client stands
    goal,      \* what it reads or writes the package for
    existed,   \* its local variable exists: was the package there before?
    name,      \* the name in hand
    used,      \* the names its FunnyNameGenerator has marked as used
    tries,     \* the attempts left to draw a name
    copySpec,  \* the package source it has read
    copyBody,
    stale,     \* the clients whose copy another has overtaken with a write
    lost,      \* history: the clients whose procedure a user has deleted, or a
               \* redeployment of the base package, since they last started
    torn,      \* history: has a deployment stopped between its two writes?
    overlaps,  \* history: how often a client began while another was at work
    failures,  \* history: how many calls have failed
    crashes    \* history: how many processes have died

schemaVars == <<parts, spec, body, compiled, queue, consumers>>
diskVars   == <<stored, version>>
nameVars   == <<name, used, tries>>
copyVars   == <<copySpec, copyBody, stale>>
faults     == <<torn, failures, crashes>>
history    == <<lost, overlaps, faults>>

vars == <<schemaVars, diskVars, at, goal, existed, nameVars, copyVars, history>>

Package == [Names -> Owner]
Base    == [n \in Names |-> None] \* Omni_Tracer.sql has no subscriber's procedure
ClientAt ==
    {"off", "check", "baseSpec", "baseBody", "initialize", "draw", "probe",
     "readSpec", "readBody", "save", "register", "writeSpec", "writeBody",
     "registered", "failed"}
Goal    == {"reserve", "owned", "redraw", "ensure", "undo", "drop"}
Resting == {"off", "registered", "failed"}
Writing == {"baseBody", "writeBody"} \* the specification is written, the body is not
Holding == {"readBody", "writeSpec", "writeBody"} \* has read the package

\* A body that lacks a declared procedure does not compile, and then no procedure
\* of the package can be called.
Callable ==
    /\ parts = {"spec", "body"}
    /\ \A n \in Names : spec[n] # None => body[n] # None

Troubles == failures + crashes + overlaps

\* Nothing keeps a client from beginning while another is at work in the package.
Begin(c) ==
    LET alone == \A d \in Clients \ {c} : at[d] \in Resting IN
    /\ alone \/ Troubles < MaxTroubles
    /\ overlaps' = IF alone THEN overlaps ELSE overlaps + 1

\* The schema is empty, or holds this version of the package, as far as a client
\* can remember it, with procedures from before the owner marks.
Init ==
    /\ \/ /\ parts = {} /\ spec = Base /\ queue = FALSE
          /\ version = [c \in Clients |-> FALSE]
       \/ /\ parts = {"spec", "body"} /\ queue = TRUE
          /\ spec \in [Names -> {None, Unmarked}]
          /\ version \in [Clients -> BOOLEAN]
    /\ body = spec /\ compiled = TRUE
    /\ consumers = {}
    /\ stored = [c \in Clients |-> None]
    /\ at = [c \in Clients |-> "off"]
    /\ goal = [c \in Clients |-> "owned"]
    /\ existed = [c \in Clients |-> FALSE]
    /\ name = [c \in Clients |-> None]
    /\ used = [c \in Clients |-> {}]
    /\ tries = [c \in Clients |-> 0]
    /\ copySpec = [c \in Clients |-> Base] /\ copyBody = [c \in Clients |-> Base]
    /\ stale = {} /\ lost = {} /\ overlaps = 0
    /\ torn = FALSE /\ failures = 0 /\ crashes = 0

Goto(c, place) == at' = [at EXCEPT ![c] = place]

\* A copy of the package is dead once it is written or given up.
Forget(c) ==
    /\ copySpec' = [copySpec EXCEPT ![c] = Base]
    /\ copyBody' = [copyBody EXCEPT ![c] = Base]
    /\ stale' = stale \ {c}

\* Who has read the package before c writes it holds a copy of what is gone.
Overtake(c) == stale' = stale \cup {d \in Clients \ {c} : at[d] \in Holding}

Release(c) == used' = [used EXCEPT ![c] = @ \ {name[c]}]

-----------------------------------------------------------------------------
(* DeployAndCheck *)

\* The program starts, or r is pressed on the loading screen after an error.
Start(c) ==
    /\ at[c] \in {"off", "failed"}
    /\ Begin(c)
    /\ Goto(c, "check")
    /\ lost' = lost \ {c}
    /\ UNCHANGED <<schemaVars, diskVars, goal, existed, nameVars, copyVars, faults>>

\* EnsureOwnedFunnyName begins: a stored name is checked, otherwise one is drawn.
BeginNaming(c) ==
    /\ existed' = [existed EXCEPT ![c] = FALSE] \* it goes out of scope
    /\ IF stored[c] = None
         THEN /\ Goto(c, "draw")
              /\ goal' = [goal EXCEPT ![c] = "reserve"]
              /\ tries' = [tries EXCEPT ![c] = Cardinality(Names \ used[c])]
              /\ UNCHANGED <<name, used>>
         ELSE /\ Goto(c, "readSpec")
              /\ goal' = [goal EXCEPT ![c] = "owned"]
              /\ name' = [name EXCEPT ![c] = stored[c]]
              /\ UNCHANGED <<used, tries>>

\* PackageExists looks at the specification only.
CheckPackage(c) ==
    /\ at[c] = "check"
    /\ IF "spec" \in parts /\ version[c]
         THEN BeginNaming(c)
         ELSE /\ existed' = [existed EXCEPT ![c] = "spec" \in parts]
              /\ Goto(c, "baseSpec")
              /\ UNCHANGED <<goal, nameVars>>
    /\ UNCHANGED <<schemaVars, diskVars, copyVars, history>>

\* CREATE OR REPLACE: the procedures of all clients are gone.
DeployBaseSpec(c) ==
    /\ at[c] = "baseSpec"
    /\ spec' = Base
    /\ parts' = parts \cup {"spec"}
    /\ compiled' = FALSE
    /\ lost' = lost \cup ({spec[n] : n \in Names} \cap Clients)
    /\ Overtake(c)
    /\ Goto(c, "baseBody")
    /\ UNCHANGED <<body, queue, consumers, diskVars, goal, existed, nameVars,
                   copySpec, copyBody, overlaps, faults>>

\* An error of SetTracerPackageVersion is only logged.
DeployBaseBody(c, saved) ==
    /\ at[c] = "baseBody"
    /\ body' = Base
    /\ parts' = parts \cup {"body"}
    /\ compiled' = TRUE
    /\ version' = [version EXCEPT ![c] = @ \/ saved]
    /\ IF existed[c]
         THEN BeginNaming(c)
         ELSE Goto(c, "initialize") /\ UNCHANGED <<goal, existed, nameVars>>
    /\ Overtake(c)
    /\ UNCHANGED <<spec, queue, consumers, stored, copySpec, copyBody, history>>

Initialize(c) ==
    /\ at[c] = "initialize"
    /\ Callable
    /\ queue' = TRUE
    /\ BeginNaming(c)
    /\ UNCHANGED <<parts, spec, body, compiled, consumers, diskVars, copyVars, history>>

-----------------------------------------------------------------------------
(* The funny name *)

DrawUncounted(c, n) == \* fault: the attempts are not counted
    /\ at[c] = "draw"
    /\ tries[c] > 0
    /\ n \in Names \ used[c]
    /\ used' = [used EXCEPT ![c] = @ \cup {n}]
    /\ name' = [name EXCEPT ![c] = n]
    /\ Goto(c, IF goal[c] = "reserve" THEN "probe" ELSE "readSpec")
    /\ UNCHANGED <<schemaVars, diskVars, goal, existed, tries, copyVars, history>>

\* GetRandomName marks the name it returns as used.
Draw(c, n) ==
    /\ at[c] = "draw"
    /\ tries[c] > 0
    /\ n \in Names \ used[c]
    /\ tries' = [tries EXCEPT ![c] = @ - 1]
    /\ used' = [used EXCEPT ![c] = @ \cup {n}]
    /\ name' = [name EXCEPT ![c] = n]
    /\ Goto(c, IF goal[c] = "reserve" THEN "probe" ELSE "readSpec")
    /\ UNCHANGED <<schemaVars, diskVars, goal, existed, copyVars, history>>

\* ErrNoAvailableNames.  A name may be drawn twice, so others may be left.
NoNameLeft(c) ==
    /\ at[c] = "draw"
    /\ tries[c] = 0
    /\ Goto(c, "failed")
    /\ UNCHANGED <<schemaVars, diskVars, goal, existed, nameVars, copyVars, history>>

ProbeNothing(c, valid) == \* fault: no ProcedureExists
    /\ at[c] = "probe"
    /\ Goto(c, "save")
    /\ UNCHANGED <<schemaVars, diskVars, goal, existed, nameVars, copyVars, history>>

\* ReserveFunnyName asks for ProcedureExists, which is false of every procedure of
\* a package that is not valid.  A body older than its specification is valid from
\* the first call of the package that compiles it again.
Probe(c, valid) ==
    /\ at[c] = "probe"
    /\ valid => Callable
    /\ ~valid => ~Callable \/ ~compiled
    /\ IF valid /\ spec[name[c]] # None
         THEN Goto(c, "draw") /\ Release(c)
         ELSE Goto(c, "save") /\ UNCHANGED used
    /\ UNCHANGED <<schemaVars, diskVars, goal, existed, name, tries, copyVars, history>>

SaveForgets(c) == \* fault: the funny name is not serialised
    /\ at[c] = "save"
    /\ Goto(c, "register")
    /\ tries' = [tries EXCEPT ![c] = 0]
    /\ UNCHANGED <<schemaVars, diskVars, goal, existed, name, used, copyVars, history>>

\* SetSubscriber.
Save(c) ==
    /\ at[c] = "save"
    /\ stored' = [stored EXCEPT ![c] = name[c]]
    /\ Goto(c, "register")
    /\ tries' = [tries EXCEPT ![c] = 0]
    /\ UNCHANGED <<schemaVars, version, goal, existed, name, used, copyVars, history>>

\* RegisterNewSubscriber calls the package only for a consumer that AQ lacks.
Register(c) ==
    /\ at[c] = "register"
    /\ queue
    /\ name[c] \in consumers \/ Callable
    /\ consumers' = consumers \cup {name[c]}
    /\ Goto(c, "readSpec")
    /\ goal' = [goal EXCEPT ![c] = "ensure"]
    /\ UNCHANGED <<parts, spec, body, compiled, queue, diskVars, existed, nameVars, copyVars,
                   history>>

-----------------------------------------------------------------------------
(* The package source.  The two reads and the two writes are one call each. *)

ReadSpec(c) ==
    /\ at[c] = "readSpec"
    /\ copySpec' = [copySpec EXCEPT ![c] = spec]
    /\ Goto(c, "readBody")
    /\ UNCHANGED <<schemaVars, diskVars, goal, existed, nameVars, copyBody, stale,
                   history>>

Foreign(c, owner) == owner \notin {c, None, Unmarked}

NameIsTaken(c) == \* fault: any procedure of that name counts as another's
    copySpec[c][name[c]] # None \/ body[name[c]] # None

OwnedByNobody(c) == \* fault: the owner marks are not read
    FALSE

\* procedureOwnedByAnother, of the specification read before and the body now.
OwnedByAnother(c) ==
    Foreign(c, copySpec[c][name[c]]) \/ Foreign(c, body[name[c]])

\* The stored name is kept unless the procedure is another's; then one is drawn
\* among the others, and again until the attempts are used up.
CheckOwner(c) ==
    /\ at[c] = "readBody"
    /\ goal[c] \in {"owned", "redraw"}
    /\ IF OwnedByAnother(c)
         THEN /\ Release(c)
              /\ Goto(c, "draw")
              /\ goal' = [goal EXCEPT ![c] = "redraw"]
              /\ tries' = IF goal[c] = "redraw" THEN tries
                          ELSE [tries EXCEPT ![c] =
                                    Cardinality(Names \ (used[c] \ {name[c]}))]
         ELSE Goto(c, "save") /\ UNCHANGED <<goal, used, tries>>
    /\ Forget(c)
    /\ UNCHANGED <<schemaVars, diskVars, existed, name, history>>

\* EnsureSubscriberProcedure looks at the procedure of the name in hand: it is the
\* client's own; or it is marked, and in conflict; or it is replaced if it has no
\* mark; or the parts that lack it get it.
Ensure(c) ==
    LET declared == copySpec[c][name[c]]
        defined  == body[name[c]]
        both     == declared # None /\ defined # None
        marked   == {declared, defined} \cap Clients # {}
        Written(owner) == IF both \/ owner = None THEN c ELSE owner
    IN
    /\ at[c] = "readBody" /\ goal[c] = "ensure"
    /\ \/ /\ declared = c /\ defined = c
          /\ Goto(c, "registered")
          /\ Forget(c)
          /\ UNCHANGED goal
       \/ /\ both /\ marked /\ ~(declared = c /\ defined = c)
          /\ Goto(c, "readSpec")
          /\ goal' = [goal EXCEPT ![c] = "undo"]
          /\ Forget(c)
       \/ /\ ~(both /\ marked)
          /\ copySpec' = [copySpec EXCEPT ![c][name[c]] = Written(declared)]
          /\ copyBody' = [copyBody EXCEPT ![c] = [body EXCEPT ![name[c]] = Written(defined)]]
          /\ Goto(c, "writeSpec")
          /\ UNCHANGED <<goal, stale>>
    /\ UNCHANGED <<schemaVars, diskVars, existed, nameVars, history>>

\* Where DropSubscriberProcedure returns to: the error path of RegisterSubscriber,
\* or the settings screen of a registered client.
AfterDrop(c) == IF goal[c] = "undo" THEN "failed" ELSE "registered"

\* DropSubscriberProcedure removes the procedure of that name, whoever owns it.
Strip(c) ==
    LET found == {copySpec[c][name[c]], body[name[c]]} IN
    /\ at[c] = "readBody" /\ goal[c] \in {"undo", "drop"}
    /\ IF found = {None}
         THEN Goto(c, AfterDrop(c)) /\ Forget(c)
         ELSE /\ copySpec' = [copySpec EXCEPT ![c][name[c]] = None]
              /\ copyBody' = [copyBody EXCEPT ![c] = [body EXCEPT ![name[c]] = None]]
              /\ Goto(c, "writeSpec")
              /\ UNCHANGED stale
    /\ lost' = IF goal[c] = "drop" THEN lost \cup (found \cap Clients) ELSE lost
    /\ UNCHANGED <<schemaVars, diskVars, goal, existed, nameVars, overlaps, faults>>

WriteSpec(c) ==
    /\ at[c] = "writeSpec"
    /\ spec' = copySpec[c]
    /\ compiled' = FALSE
    /\ Overtake(c)
    /\ Goto(c, "writeBody")
    /\ UNCHANGED <<parts, body, queue, consumers, diskVars, goal, existed, nameVars,
                   copySpec, copyBody, history>>

WriteBody(c) ==
    /\ at[c] = "writeBody"
    /\ body' = copyBody[c]
    /\ compiled' = TRUE
    /\ Goto(c, IF goal[c] = "ensure" THEN "registered" ELSE AfterDrop(c))
    /\ copySpec' = [copySpec EXCEPT ![c] = Base]
    /\ copyBody' = [copyBody EXCEPT ![c] = Base]
    /\ stale' = (stale \cup {d \in Clients : at[d] \in Holding}) \ {c}
    /\ UNCHANGED <<parts, spec, queue, consumers, diskVars, goal, existed, nameVars, history>>

-----------------------------------------------------------------------------
(* The user, and what goes wrong *)

\* "Delete My Procedure" in the settings; the client stays registered.
DropProcedure(c) ==
    /\ at[c] = "registered"
    /\ Begin(c)
    /\ Goto(c, "readSpec")
    /\ goal' = [goal EXCEPT ![c] = "drop"]
    /\ UNCHANGED <<schemaVars, diskVars, existed, nameVars, copyVars, lost, faults>>

\* The memory of the process is gone.
Die(c) ==
    /\ Goto(c, "off")
    /\ goal' = [goal EXCEPT ![c] = "owned"]
    /\ existed' = [existed EXCEPT ![c] = FALSE]
    /\ name' = [name EXCEPT ![c] = None]
    /\ used' = [used EXCEPT ![c] = {}]
    /\ tries' = [tries EXCEPT ![c] = 0]
    /\ Forget(c)

\* A registered client unregisters its consumer as it quits; an error is ignored.
Quit(c, unregistered) ==
    /\ at[c] \in {"registered", "failed"}
    /\ unregistered => at[c] = "registered" /\ Callable
    /\ consumers' = IF unregistered THEN consumers \ {name[c]} ELSE consumers
    /\ Die(c)
    /\ UNCHANGED <<parts, spec, body, compiled, queue, diskVars, history>>

Crash(c) ==
    /\ at[c] # "off"
    /\ Troubles < MaxTroubles
    /\ crashes' = crashes + 1
    /\ Die(c)
    /\ torn' = (torn \/ at[c] \in Writing)
    /\ UNCHANGED <<schemaVars, diskVars, lost, overlaps, failures>>

GiveUpAtOnce(c) == \* fault: no DropSubscriberProcedure after an error
    /\ UNCHANGED used
    /\ Goto(c, "failed")
    /\ Forget(c)
    /\ UNCHANGED <<schemaVars, diskVars, goal, existed, name, tries>>

\* What a step does when its call returns an error.  A name drawn but not saved is
\* released, and an error of EnsureSubscriberProcedure drops the procedure.
GiveUp(c) ==
    LET drawn == \/ at[c] \in {"probe", "save"} /\ goal[c] \in {"reserve", "redraw"}
                 \/ at[c] \in {"readSpec", "readBody"} /\ goal[c] = "redraw"
        packageStep == at[c] \in {"readSpec", "readBody", "writeSpec", "writeBody"}
    IN
    /\ IF drawn THEN Release(c) ELSE UNCHANGED used
    /\ \/ /\ packageStep /\ goal[c] = "ensure"
          /\ Goto(c, "readSpec")
          /\ goal' = [goal EXCEPT ![c] = "undo"]
       \/ /\ packageStep /\ goal[c] \in {"undo", "drop"}
          /\ Goto(c, AfterDrop(c))
          /\ UNCHANGED goal
       \/ /\ ~(packageStep /\ goal[c] \in {"ensure", "undo", "drop"})
          /\ Goto(c, "failed")
          /\ UNCHANGED goal
    /\ Forget(c)
    /\ UNCHANGED <<schemaVars, diskVars, existed, name, tries>>

\* Oracle or BoltDB refuses a call that could have succeeded,
CallFails(c) ==
    /\ at[c] \notin Resting \cup {"draw"}
    /\ Troubles < MaxTroubles
    /\ failures' = failures + 1
    /\ torn' = (torn \/ at[c] \in Writing)
    /\ GiveUp(c)
    /\ UNCHANGED <<lost, overlaps, crashes>>

\* or cannot serve it: the package does not compile, or there is no queue.
CallRefused(c) ==
    /\ \/ at[c] = "initialize" /\ ~Callable
       \/ at[c] = "register" /\ ~(queue /\ (name[c] \in consumers \/ Callable))
    /\ GiveUp(c)
    /\ UNCHANGED history

-----------------------------------------------------------------------------
ClientStep(c) ==
    \/ CheckPackage(c)
    \/ DeployBaseSpec(c)
    \/ \E saved \in BOOLEAN : DeployBaseBody(c, saved)
    \/ Initialize(c)
    \/ \E n \in Names : Draw(c, n)
    \/ NoNameLeft(c)
    \/ \E valid \in BOOLEAN : Probe(c, valid)
    \/ Save(c)
    \/ Register(c)
    \/ ReadSpec(c)
    \/ CheckOwner(c)
    \/ Ensure(c)
    \/ Strip(c)
    \/ WriteSpec(c)
    \/ WriteBody(c)
    \/ CallRefused(c)

Next ==
    \E c \in Clients :
        \/ Start(c)
        \/ ClientStep(c)
        \/ CallFails(c)
        \/ DropProcedure(c)
        \/ \E unregistered \in BOOLEAN : Quit(c, unregistered)
        \/ Crash(c)

\* A client that works goes on: the commands of the startup run on goroutines of
\* their own and every call returns.  Users and faults owe nothing.
Fairness == \A c \in Clients : WF_vars(ClientStep(c))

Spec     == Init /\ [][Next]_vars
FairSpec == Spec /\ Fairness

-----------------------------------------------------------------------------
(* Properties *)

\* The shape of the state.  Who reads the package finds both its parts, so that the
\* fallback to the embedded source, for a package that is missing, is never taken.
TypeOK ==
    /\ parts \in SUBSET {"spec", "body"}
    /\ spec \in Package /\ body \in Package
    /\ \A c \in Clients :
           at[c] \in {"readSpec", "readBody"} => parts = {"spec", "body"}
    /\ compiled \in BOOLEAN /\ queue \in BOOLEAN /\ consumers \subseteq Names
    /\ stored \in [Clients -> Names \cup {None}] /\ version \in [Clients -> BOOLEAN]
    /\ at \in [Clients -> ClientAt] /\ goal \in [Clients -> Goal]
    /\ existed \in [Clients -> BOOLEAN]
    /\ name \in [Clients -> Names \cup {None}]
    /\ used \in [Clients -> SUBSET Names]
    /\ tries \in [Clients -> 0..Cardinality(Names)]
    /\ copySpec \in [Clients -> Package] /\ copyBody \in [Clients -> Package]
    /\ stale \subseteq Clients /\ lost \subseteq Clients
    /\ torn \in BOOLEAN
    /\ {overlaps, failures, crashes} \subseteq 0..MaxTroubles

\* No consumer is left in AQ that no client would ever dequeue for or unregister:
\* each is the stored name of a client, through renames, errors and crashes, unless
\* a deployment was torn or clients have been at work in the package together.
NoOrphanConsumer == ~torn /\ overlaps = 0 => consumers \subseteq {stored[c] : c \in Clients}

\* A client that has registered has its procedure, marked as its own in both parts
\* of the package, until a user deletes it, the base package is redeployed, a
\* deployment is torn, or clients have been at work in the package together: the
\* code serialises nothing, and a write of the whole package loses what another
\* has added since the read.
RegisteredOwnsProcedure ==
    \A c \in Clients : at[c] = "registered" /\ c \notin lost /\ ~torn /\ overlaps = 0
                       => spec[name[c]] = c /\ body[name[c]] = c

\* An error in the middle of a deployment is repaired by the drop that follows it:
\* with the clients at rest the package compiles, unless it has no body yet or
\* clients have been at work in it together.
RollbackHeals ==
    (\A c \in Clients : at[c] \in Resting) /\ crashes = 0 /\ overlaps = 0 /\ "body" \in parts
        => Callable

\* A client keeps its stored name across restarts unless the procedure of that
\* name has come to belong to another.  When clients have been at work in the
\* package together, the procedure may be gone again as the client takes a new name.
KeepsItsName ==
    [][\A c \in Clients :
           LET old == stored[c] IN
           old # None /\ stored'[c] # old /\ overlaps = 0 =>
               Foreign(c, spec[old]) \/ Foreign(c, body[old])]_vars

\* The deployment of a client's procedure removes or relabels no other's, unless
\* another has written the package since the client read it.  Nor does the drop
\* that follows an error, unless registrations have overlapped or one was torn.
WritesOnlyOwn ==
    [][\A c \in Clients, n \in Names :
           /\ WriteSpec(c) \/ WriteBody(c)
           /\ \/ goal[c] = "ensure" /\ c \notin stale
              \/ goal[c] = "undo" /\ overlaps = 0 /\ ~torn
           =>
               /\ spec'[n] # spec[n] => ~Foreign(c, spec[n])
               /\ body'[n] # body[n] => ~Foreign(c, body[n])]_vars

\* A registration always comes to an end, also while others take the names it
\* draws and write the package it has read: it is registered, or shows an error.
RegistrationReturns ==
    \A c \in Clients : at[c] = "check" ~> at[c] \in Resting

\* "No two subscribers have the same procedure name."
NamesAreUnique ==
    \A c, d \in Clients :
        c # d /\ at[c] = "registered" /\ at[d] = "registered" => name[c] # name[d]
=============================================================================

----------------------- MODULE SubscriberRegistryProofs -----------------------
(***************************************************************************)
(* What the clients of one schema keep of each other's procedures, names    *)
(* and consumers, for every number of clients, names, faults and overlaps; *)
(* and that a single error is repaired.                                    *)
(***************************************************************************)
EXTENDS SubscriberRegistry, FiniteSetTheorems, TLAPS


Whole == {"spec", "body"}
Past  == ClientAt \ {"off", "check", "baseSpec", "baseBody", "failed"}
Named == {"probe", "save", "register", "readSpec", "readBody", "writeSpec",
          "writeBody", "registered"}

SchemaOK ==
    /\ parts \in SUBSET Whole
    /\ spec \in Package /\ body \in Package
    /\ consumers \subseteq Names
    /\ stored \in [Clients -> Names \cup {None}]
    /\ copySpec \in [Clients -> Package] /\ copyBody \in [Clients -> Package]
    /\ stale \subseteq Clients

ClientOK ==
    /\ at \in [Clients -> ClientAt] /\ goal \in [Clients -> Goal]
    /\ name \in [Clients -> Names \cup {None}]
    /\ used \in [Clients -> SUBSET Names]
    /\ lost \subseteq Clients
    /\ \A c \in Clients : at[c] \in Named => name[c] \in Names

\* Once the package was deployed, both its parts are there.
PartsOK ==
    /\ "body" \in parts => "spec" \in parts
    /\ \A c \in Clients :
           /\ version[c] => parts = Whole
           /\ at[c] \in Past => parts = Whole
           /\ at[c] = "baseBody" => "spec" \in parts

CountOK ==
    /\ tries \in [Clients -> 0..Cardinality(Names)]
    /\ failures \in Nat /\ crashes \in Nat /\ overlaps \in Nat
    /\ failures + crashes + overlaps <= MaxTroubles

FlagOK ==
    /\ compiled \in BOOLEAN /\ queue \in BOOLEAN /\ torn \in BOOLEAN
    /\ version \in [Clients -> BOOLEAN] /\ existed \in [Clients -> BOOLEAN]

\* Registrations come one after the other.
Alone ==
    \A c, d \in Clients : c # d => at[c] \in Resting \/ at[d] \in Resting

\* What a step is done for.
GoalOK ==
    \A c \in Clients :
        /\ at[c] = "draw" => goal[c] \in {"reserve", "redraw"}
        /\ at[c] = "probe" => goal[c] = "reserve"
        /\ at[c] \in {"save", "register"} => goal[c] \in {"reserve", "owned", "redraw"}
        /\ at[c] \in {"readSpec", "readBody"} => goal[c] # "reserve"
        /\ at[c] \in {"writeSpec", "writeBody"} => goal[c] \in {"ensure", "undo", "drop"}

Reads(c, goals) == at[c] \in {"readSpec", "readBody"} /\ goal[c] \in goals
Works(c) == Reads(c, {"ensure", "undo", "drop"}) \/ at[c] \in {"writeSpec", "writeBody"}

\* What a client has read is what is there.
Fresh == \A c \in Clients : at[c] = "readBody" => copySpec[c] = spec

\* The same of a client that nobody has overtaken, whoever else is at work: of the
\* procedures of others it has in hand what is there.
Current ==
    \A c \in Clients \ stale :
        /\ at[c] = "readBody" => copySpec[c] = spec
        /\ at[c] = "writeSpec" /\ goal[c] = "ensure" =>
               \A n \in Names : Foreign(c, spec[n]) => copySpec[c][n] = spec[n]
        /\ at[c] \in {"writeSpec", "writeBody"} /\ goal[c] = "ensure" =>
               \A n \in Names : Foreign(c, body[n]) => copyBody[c][n] = body[n]

\* The name in hand, the stored one, and why they differ: a client that looks for
\* another name has found its own with another client.
NameOK ==
    \A c \in Clients :
        /\ at[c] \in {"register", "registered"} \/ Works(c) => stored[c] = name[c]
        /\ at[c] \in {"draw", "probe", "save"} /\ goal[c] = "reserve" => stored[c] = None
        /\ Reads(c, {"owned"}) \/ (at[c] = "save" /\ goal[c] = "owned") => stored[c] = name[c]
        /\ Reads(c, {"redraw"}) \/ (at[c] \in {"draw", "save"} /\ goal[c] = "redraw") =>
               /\ stored[c] \in Names
               /\ Foreign(c, spec[stored[c]]) \/ Foreign(c, body[stored[c]])

\* Both parts of the package have the same procedures, but between two writes.
Agree ==
    (\A c \in Clients : at[c] \notin Writing) => spec = body /\ compiled

\* A procedure that has an owner has the name that its owner has stored.
Owned ==
    \A d \in Clients, n \in Names : spec[n] = d \/ body[n] = d => stored[d] = n

\* What is going to be written.
Copies ==
    \A c \in Clients :
        /\ at[c] = "baseBody" => spec = Base
        /\ at[c] \in {"writeSpec", "writeBody"} =>
               /\ copyBody[c] = copySpec[c]
               /\ copySpec[c][name[c]] = (IF goal[c] = "ensure" THEN c ELSE None)
               /\ \A n \in Names \ {name[c]} :
                      copySpec[c][n] = spec[n] /\ copySpec[c][n] = body[n]
        /\ at[c] = "writeBody" => spec = copySpec[c]

Settled(c) ==
    \/ Reads(c, {"ensure", "undo"})
    \/ at[c] \in {"writeSpec", "writeBody"} /\ goal[c] # "drop"

\* Nobody else's procedure has the name of a client that registers; one that deletes
\* the procedure of its name has noted whose it is.
Free ==
    \A c \in Clients :
        /\ at[c] \in {"save", "register"} \/ Settled(c) =>
               ~Foreign(c, spec[name[c]]) /\ ~Foreign(c, body[name[c]])
        /\ at[c] \in {"writeSpec", "writeBody"} /\ goal[c] = "drop" =>
               /\ c \in lost
               /\ spec[name[c]] \in lost \cup {None, Unmarked}
               /\ body[name[c]] \in lost \cup {None, Unmarked}

Procedures ==
    \A c \in Clients : (at[c] = "registered" \/ Reads(c, {"drop"})) /\ c \notin lost =>
        spec[name[c]] = c /\ (body[name[c]] = c)

\* Each consumer is the stored name of a client.
Known == consumers \subseteq {stored[c] : c \in Clients}

Schema == ~torn => Agree /\ Owned /\ Copies /\ Free /\ Procedures /\ Known

-----------------------------------------------------------------------------
(* The shape of the state *)

LEMMA Counted == \A S \in SUBSET Names : Cardinality(S) \in 0..Cardinality(Names)
BY RegistryAssumption, FS_Subset, FS_CardinalityType DEF RegistryAssumption

LEMMA Owners == None \in Owner /\ Unmarked \in Owner /\ Clients \subseteq Owner /\ Base \in Package
BY DEF Owner, Base, Package

\* What is in the schema, in the databases and in hand keeps its shape.
LEMMA SchemaStep ==
    ASSUME SchemaOK, ClientOK, [Next]_vars
    PROVE  SchemaOK'
<1> USE Owners DEF SchemaOK, ClientOK, Package, Whole, Named, ClientAt, Goto, Overtake, schemaVars,
    diskVars, nameVars, copyVars, history, faults
<1>1. ASSUME NEW c \in Clients, Start(c) PROVE SchemaOK'
    BY <1>1 DEF Start
<1>2. ASSUME NEW c \in Clients, CheckPackage(c) PROVE SchemaOK'
    BY <1>2 DEF CheckPackage, BeginNaming
<1>3. ASSUME NEW c \in Clients, DeployBaseSpec(c) PROVE SchemaOK'
    BY <1>3 DEF DeployBaseSpec
<1>4. ASSUME NEW c \in Clients, NEW b \in BOOLEAN, DeployBaseBody(c, b) PROVE SchemaOK'
    BY <1>4 DEF DeployBaseBody, BeginNaming
<1>5. ASSUME NEW c \in Clients, Initialize(c) PROVE SchemaOK'
    BY <1>5 DEF Initialize, BeginNaming
<1>6. ASSUME NEW c \in Clients, NEW n \in Names, Draw(c, n) PROVE SchemaOK'
    BY <1>6 DEF Draw
<1>7. ASSUME NEW c \in Clients, NoNameLeft(c) PROVE SchemaOK'
    BY <1>7 DEF NoNameLeft
<1>8. ASSUME NEW c \in Clients, NEW b \in BOOLEAN, Probe(c, b) PROVE SchemaOK'
    BY <1>8 DEF Probe, Release
<1>9. ASSUME NEW c \in Clients, Save(c) PROVE SchemaOK'
    BY <1>9 DEF Save
<1>10. ASSUME NEW c \in Clients, Register(c) PROVE SchemaOK'
    BY <1>10 DEF Register
<1>11. ASSUME NEW c \in Clients, ReadSpec(c) PROVE SchemaOK'
    BY <1>11 DEF ReadSpec
<1>12. ASSUME NEW c \in Clients, CheckOwner(c) PROVE SchemaOK'
    BY <1>12 DEF CheckOwner, Release, Forget
<1>13. ASSUME NEW c \in Clients, Ensure(c) PROVE SchemaOK'
  <2> HIDE DEF SchemaOK, ClientOK, Package, Whole, Named, ClientAt, Goto, schemaVars,
      diskVars, nameVars, copyVars, history, faults
  <2>1. name[c] \in Names /\ c \in Owner /\ None \in Owner /\ at' \in [Clients -> ClientAt]
    BY <1>13, Owners DEF ClientOK, Named, ClientAt, Ensure, Goto, Forget, AfterDrop
  <2>2. copySpec[c] \in Package /\ spec \in Package /\ body \in Package
    BY DEF SchemaOK
  <2>3. copySpec[c][name[c]] \in Owner /\ body[name[c]] \in Owner
    BY <2>1, <2>2 DEF Package
  <2>4. \/ Forget(c)
        \/ \E v, w \in Owner :
               /\ copySpec' = [copySpec EXCEPT ![c][name[c]] = v]
               /\ copyBody' = [copyBody EXCEPT ![c] = [body EXCEPT ![name[c]] = w]]
    BY <1>13, <2>1, <2>3 DEF Ensure
  <2>5. copySpec' \in [Clients -> Package] /\ copyBody' \in [Clients -> Package]
    <3>1. CASE Forget(c)
      BY <3>1, Owners DEF SchemaOK, Forget
    <3>2. ASSUME NEW v \in Owner, NEW w \in Owner,
                 copySpec' = [copySpec EXCEPT ![c][name[c]] = v],
                 copyBody' = [copyBody EXCEPT ![c] = [body EXCEPT ![name[c]] = w]]
          PROVE  copySpec' \in [Clients -> Package] /\ copyBody' \in [Clients -> Package]
      <4>1. [copySpec[c] EXCEPT ![name[c]] = v] \in Package
        BY <2>1, <2>2 DEF Package
      <4>2. [body EXCEPT ![name[c]] = w] \in Package
        BY <2>1, <2>2 DEF Package
      <4> QED BY <3>2, <4>1, <4>2 DEF SchemaOK
    <3> QED BY <2>4, <3>1, <3>2
  <2>6. stale' \subseteq Clients
    BY <1>13 DEF SchemaOK, Ensure, Forget
  <2> QED BY <1>13, <2>5, <2>6 DEF SchemaOK, Ensure, schemaVars, diskVars
<1>14. ASSUME NEW c \in Clients, Strip(c) PROVE SchemaOK'
  <2> HIDE DEF SchemaOK, ClientOK, Package, Whole, Named, ClientAt, Goto, schemaVars,
      diskVars, nameVars, copyVars, history, faults
  <2>1. name[c] \in Names /\ c \in Owner /\ None \in Owner /\ at' \in [Clients -> ClientAt]
    BY <1>14, Owners DEF ClientOK, Named, ClientAt, Strip, Goto, Forget, AfterDrop
  <2>2. copySpec[c] \in Package /\ spec \in Package /\ body \in Package
    BY DEF SchemaOK
  <2>3. copySpec[c][name[c]] \in Owner /\ body[name[c]] \in Owner
    BY <2>1, <2>2 DEF Package
  <2>4. \/ Forget(c)
        \/ \E v, w \in Owner :
               /\ copySpec' = [copySpec EXCEPT ![c][name[c]] = v]
               /\ copyBody' = [copyBody EXCEPT ![c] = [body EXCEPT ![name[c]] = w]]
    BY <1>14, <2>1, <2>3 DEF Strip
  <2>5. copySpec' \in [Clients -> Package] /\ copyBody' \in [Clients -> Package]
    <3>1. CASE Forget(c)
      BY <3>1, Owners DEF SchemaOK, Forget
    <3>2. ASSUME NEW v \in Owner, NEW w \in Owner,
                 copySpec' = [copySpec EXCEPT ![c][name[c]] = v],
                 copyBody' = [copyBody EXCEPT ![c] = [body EXCEPT ![name[c]] = w]]
          PROVE  copySpec' \in [Clients -> Package] /\ copyBody' \in [Clients -> Package]
      <4>1. [copySpec[c] EXCEPT ![name[c]] = v] \in Package
        BY <2>1, <2>2 DEF Package
      <4>2. [body EXCEPT ![name[c]] = w] \in Package
        BY <2>1, <2>2 DEF Package
      <4> QED BY <3>2, <4>1, <4>2 DEF SchemaOK
    <3> QED BY <2>4, <3>1, <3>2
  <2>6. stale' \subseteq Clients
    BY <1>14 DEF SchemaOK, Strip, Forget
  <2> QED BY <1>14, <2>5, <2>6 DEF SchemaOK, Strip, schemaVars, diskVars
<1>15. ASSUME NEW c \in Clients, WriteSpec(c) PROVE SchemaOK'
    BY <1>15 DEF WriteSpec
<1>16. ASSUME NEW c \in Clients, WriteBody(c) PROVE SchemaOK'
    BY <1>16 DEF WriteBody, Forget, AfterDrop
<1>17. ASSUME NEW c \in Clients, CallRefused(c) PROVE SchemaOK'
    BY <1>17 DEF CallRefused, GiveUp, AfterDrop, Release, Forget
<1>18. ASSUME NEW c \in Clients, CallFails(c) PROVE SchemaOK'
    BY <1>18 DEF CallFails, GiveUp, AfterDrop, Release, Forget
<1>19. ASSUME NEW c \in Clients, DropProcedure(c) PROVE SchemaOK'
    BY <1>19 DEF DropProcedure
<1>20. ASSUME NEW c \in Clients, NEW b \in BOOLEAN, Quit(c, b) PROVE SchemaOK'
    BY <1>20 DEF Quit, Die, Forget
<1>21. ASSUME NEW c \in Clients, Crash(c) PROVE SchemaOK'
    BY <1>21 DEF Crash, Die, Forget
<1>22. CASE UNCHANGED vars
    BY <1>22 DEF vars
<1> QED BY <1>1, <1>2, <1>3, <1>4, <1>5, <1>6, <1>7, <1>8, <1>9, <1>10, <1>11, <1>12, <1>13,
    <1>14, <1>15, <1>16, <1>17, <1>18, <1>19, <1>20, <1>21, <1>22 DEF Next, ClientStep

\* A client stands somewhere, and with a name in hand where it needs one.
LEMMA ClientStays ==
    ASSUME SchemaOK, ClientOK, [Next]_vars
    PROVE  ClientOK'
<1> USE Owners DEF SchemaOK, ClientOK, ClientAt, Goal, Named, Goto, schemaVars, diskVars,
    nameVars, copyVars, history, faults
<1>1. ASSUME NEW c \in Clients, Start(c) PROVE ClientOK'
    BY <1>1 DEF Start
<1>2. ASSUME NEW c \in Clients, CheckPackage(c) PROVE ClientOK'
    BY <1>2 DEF CheckPackage, BeginNaming
<1>3. ASSUME NEW c \in Clients, DeployBaseSpec(c) PROVE ClientOK'
    BY <1>3 DEF DeployBaseSpec
<1>4. ASSUME NEW c \in Clients, NEW b \in BOOLEAN, DeployBaseBody(c, b) PROVE ClientOK'
    BY <1>4 DEF DeployBaseBody, BeginNaming
<1>5. ASSUME NEW c \in Clients, Initialize(c) PROVE ClientOK'
    BY <1>5 DEF Initialize, BeginNaming
<1>6. ASSUME NEW c \in Clients, NEW n \in Names, Draw(c, n) PROVE ClientOK'
    BY <1>6 DEF Draw
<1>7. ASSUME NEW c \in Clients, NoNameLeft(c) PROVE ClientOK'
    BY <1>7 DEF NoNameLeft
<1>8. ASSUME NEW c \in Clients, NEW b \in BOOLEAN, Probe(c, b) PROVE ClientOK'
    BY <1>8 DEF Probe, Release
<1>9. ASSUME NEW c \in Clients, Save(c) PROVE ClientOK'
    BY <1>9 DEF Save
<1>10. ASSUME NEW c \in Clients, Register(c) PROVE ClientOK'
    BY <1>10 DEF Register
<1>11. ASSUME NEW c \in Clients, ReadSpec(c) PROVE ClientOK'
    BY <1>11 DEF ReadSpec
<1>12. ASSUME NEW c \in Clients, CheckOwner(c) PROVE ClientOK'
    BY <1>12 DEF CheckOwner, Release, Forget
<1>13. ASSUME NEW c \in Clients, Ensure(c) PROVE ClientOK'
    BY <1>13 DEF Ensure, Forget
<1>14. ASSUME NEW c \in Clients, Strip(c) PROVE ClientOK'
    BY <1>14 DEF Strip, Forget, AfterDrop
<1>15. ASSUME NEW c \in Clients, WriteSpec(c) PROVE ClientOK'
    BY <1>15 DEF WriteSpec
<1>16. ASSUME NEW c \in Clients, WriteBody(c) PROVE ClientOK'
    BY <1>16 DEF WriteBody, Forget, AfterDrop
<1>17. ASSUME NEW c \in Clients, CallRefused(c) PROVE ClientOK'
    BY <1>17 DEF CallRefused, GiveUp, AfterDrop, Release, Forget
<1>18. ASSUME NEW c \in Clients, CallFails(c) PROVE ClientOK'
    BY <1>18 DEF CallFails, GiveUp, AfterDrop, Release, Forget
<1>19. ASSUME NEW c \in Clients, DropProcedure(c) PROVE ClientOK'
    BY <1>19 DEF DropProcedure
<1>20. ASSUME NEW c \in Clients, NEW b \in BOOLEAN, Quit(c, b) PROVE ClientOK'
    BY <1>20 DEF Quit, Die, Forget
<1>21. ASSUME NEW c \in Clients, Crash(c) PROVE ClientOK'
    BY <1>21 DEF Crash, Die, Forget
<1>22. CASE UNCHANGED vars
    BY <1>22 DEF vars
<1> QED BY <1>1, <1>2, <1>3, <1>4, <1>5, <1>6, <1>7, <1>8, <1>9, <1>10, <1>11, <1>12, <1>13,
    <1>14, <1>15, <1>16, <1>17, <1>18, <1>19, <1>20, <1>21, <1>22 DEF Next, ClientStep

\* No step takes a part of the package away.
LEMMA PartsStep ==
    ASSUME SchemaOK, ClientOK, PartsOK, [Next]_vars
    PROVE  PartsOK'
<1> USE DEF SchemaOK, ClientOK, PartsOK, Whole, Past, ClientAt, Goto, schemaVars, diskVars,
    nameVars, copyVars, history, faults
<1>1. ASSUME NEW c \in Clients, Start(c) PROVE PartsOK'
    BY <1>1 DEF Start
<1>2. ASSUME NEW c \in Clients, CheckPackage(c) PROVE PartsOK'
    BY <1>2 DEF CheckPackage, BeginNaming
<1>3. ASSUME NEW c \in Clients, DeployBaseSpec(c) PROVE PartsOK'
    BY <1>3 DEF DeployBaseSpec
<1>4. ASSUME NEW c \in Clients, NEW b \in BOOLEAN, DeployBaseBody(c, b) PROVE PartsOK'
  <2> HIDE DEF SchemaOK, ClientOK, PartsOK, Whole, Past, ClientAt, Goto, schemaVars, diskVars,
      nameVars, copyVars, history, faults
  <2>1. parts' = Whole
    BY <1>4 DEF DeployBaseBody, PartsOK, SchemaOK, Whole
  <2>2. \A d \in Clients \ {c} : version'[d] = version[d] /\ at'[d] = at[d]
    BY <1>4 DEF DeployBaseBody, BeginNaming, Goto, ClientOK
  <2>3. at'[c] # "baseBody"
    BY <1>4 DEF DeployBaseBody, BeginNaming, Goto, ClientOK
  <2> QED BY <2>1, <2>2, <2>3 DEF PartsOK, Whole
<1>5. ASSUME NEW c \in Clients, Initialize(c) PROVE PartsOK'
    BY <1>5 DEF Initialize, BeginNaming
<1>6. ASSUME NEW c \in Clients, NEW n \in Names, Draw(c, n) PROVE PartsOK'
    BY <1>6 DEF Draw
<1>7. ASSUME NEW c \in Clients, NoNameLeft(c) PROVE PartsOK'
    BY <1>7 DEF NoNameLeft
<1>8. ASSUME NEW c \in Clients, NEW b \in BOOLEAN, Probe(c, b) PROVE PartsOK'
    BY <1>8 DEF Probe, Release
<1>9. ASSUME NEW c \in Clients, Save(c) PROVE PartsOK'
    BY <1>9 DEF Save
<1>10. ASSUME NEW c \in Clients, Register(c) PROVE PartsOK'
    BY <1>10 DEF Register
<1>11. ASSUME NEW c \in Clients, ReadSpec(c) PROVE PartsOK'
    BY <1>11 DEF ReadSpec
<1>12. ASSUME NEW c \in Clients, CheckOwner(c) PROVE PartsOK'
    BY <1>12 DEF CheckOwner, Release, Forget
<1>13. ASSUME NEW c \in Clients, Ensure(c) PROVE PartsOK'
    BY <1>13 DEF Ensure, Forget
<1>14. ASSUME NEW c \in Clients, Strip(c) PROVE PartsOK'
    BY <1>14 DEF Strip, Forget, AfterDrop
<1>15. ASSUME NEW c \in Clients, WriteSpec(c) PROVE PartsOK'
    BY <1>15 DEF WriteSpec
<1>16. ASSUME NEW c \in Clients, WriteBody(c) PROVE PartsOK'
    BY <1>16 DEF WriteBody, Forget, AfterDrop
<1>17. ASSUME NEW c \in Clients, CallRefused(c) PROVE PartsOK'
    BY <1>17 DEF CallRefused, GiveUp, AfterDrop, Release, Forget
<1>18. ASSUME NEW c \in Clients, CallFails(c) PROVE PartsOK'
    BY <1>18 DEF CallFails, GiveUp, AfterDrop, Release, Forget
<1>19. ASSUME NEW c \in Clients, DropProcedure(c) PROVE PartsOK'
    BY <1>19 DEF DropProcedure
<1>20. ASSUME NEW c \in Clients, NEW b \in BOOLEAN, Quit(c, b) PROVE PartsOK'
    BY <1>20 DEF Quit, Die, Forget
<1>21. ASSUME NEW c \in Clients, Crash(c) PROVE PartsOK'
    BY <1>21 DEF Crash, Die, Forget
<1>22. CASE UNCHANGED vars
    BY <1>22 DEF vars
<1> QED BY <1>1, <1>2, <1>3, <1>4, <1>5, <1>6, <1>7, <1>8, <1>9, <1>10, <1>11, <1>12, <1>13,
    <1>14, <1>15, <1>16, <1>17, <1>18, <1>19, <1>20, <1>21, <1>22 DEF Next, ClientStep

\* Attempts and faults stay within their bounds.
LEMMA CountStep ==
    ASSUME SchemaOK, ClientOK, CountOK, [Next]_vars
    PROVE  CountOK'
<1> USE Counted, RegistryAssumption DEF CountOK, ClientOK, SchemaOK, RegistryAssumption, Goto,
    Begin, Troubles,
    schemaVars, diskVars, nameVars, copyVars, history, faults
<1>1. ASSUME NEW c \in Clients, Start(c) PROVE CountOK'
    BY <1>1 DEF Start
<1>2. ASSUME NEW c \in Clients, CheckPackage(c) PROVE CountOK'
    BY <1>2 DEF CheckPackage, BeginNaming
<1>3. ASSUME NEW c \in Clients, DeployBaseSpec(c) PROVE CountOK'
    BY <1>3 DEF DeployBaseSpec
<1>4. ASSUME NEW c \in Clients, NEW b \in BOOLEAN, DeployBaseBody(c, b) PROVE CountOK'
    BY <1>4 DEF DeployBaseBody, BeginNaming
<1>5. ASSUME NEW c \in Clients, Initialize(c) PROVE CountOK'
    BY <1>5 DEF Initialize, BeginNaming
<1>6. ASSUME NEW c \in Clients, NEW n \in Names, Draw(c, n) PROVE CountOK'
    BY <1>6 DEF Draw
<1>7. ASSUME NEW c \in Clients, NoNameLeft(c) PROVE CountOK'
    BY <1>7 DEF NoNameLeft
<1>8. ASSUME NEW c \in Clients, NEW b \in BOOLEAN, Probe(c, b) PROVE CountOK'
    BY <1>8 DEF Probe, Release
<1>9. ASSUME NEW c \in Clients, Save(c) PROVE CountOK'
    BY <1>9 DEF Save
<1>10. ASSUME NEW c \in Clients, Register(c) PROVE CountOK'
    BY <1>10 DEF Register
<1>11. ASSUME NEW c \in Clients, ReadSpec(c) PROVE CountOK'
    BY <1>11 DEF ReadSpec
<1>12. ASSUME NEW c \in Clients, CheckOwner(c) PROVE CountOK'
    BY <1>12 DEF CheckOwner, Release, Forget
<1>13. ASSUME NEW c \in Clients, Ensure(c) PROVE CountOK'
    BY <1>13 DEF Ensure, Forget
<1>14. ASSUME NEW c \in Clients, Strip(c) PROVE CountOK'
    BY <1>14 DEF Strip, Forget, AfterDrop
<1>15. ASSUME NEW c \in Clients, WriteSpec(c) PROVE CountOK'
    BY <1>15 DEF WriteSpec
<1>16. ASSUME NEW c \in Clients, WriteBody(c) PROVE CountOK'
    BY <1>16 DEF WriteBody, Forget, AfterDrop
<1>17. ASSUME NEW c \in Clients, CallRefused(c) PROVE CountOK'
    BY <1>17 DEF CallRefused, GiveUp, AfterDrop, Release, Forget
<1>18. ASSUME NEW c \in Clients, CallFails(c) PROVE CountOK'
    BY <1>18 DEF CallFails, GiveUp, AfterDrop, Release, Forget
<1>19. ASSUME NEW c \in Clients, DropProcedure(c) PROVE CountOK'
    BY <1>19 DEF DropProcedure
<1>20. ASSUME NEW c \in Clients, NEW b \in BOOLEAN, Quit(c, b) PROVE CountOK'
    BY <1>20 DEF Quit, Die, Forget
<1>21. ASSUME NEW c \in Clients, Crash(c) PROVE CountOK'
    BY <1>21 DEF Crash, Die, Forget
<1>22. CASE UNCHANGED vars
    BY <1>22 DEF vars
<1> QED BY <1>1, <1>2, <1>3, <1>4, <1>5, <1>6, <1>7, <1>8, <1>9, <1>10, <1>11, <1>12, <1>13,
    <1>14, <1>15, <1>16, <1>17, <1>18, <1>19, <1>20, <1>21, <1>22 DEF Next, ClientStep

\* Boolean variables, which need a prover of their own.
LEMMA FlagStep ==
    ASSUME FlagOK, [Next]_vars
    PROVE  FlagOK'
<1> USE DEF FlagOK, Goto, schemaVars, diskVars, nameVars, copyVars, history, faults
<1>1. ASSUME NEW c \in Clients, Start(c) PROVE FlagOK'
    BY <1>1, Zenon DEF Start
<1>2. ASSUME NEW c \in Clients, CheckPackage(c) PROVE FlagOK'
  <2> HIDE DEF FlagOK, Goto, schemaVars, diskVars, nameVars, copyVars, history, faults
  <2>1. existed' \in [Clients -> BOOLEAN]
    <3>1. CASE "spec" \in parts /\ version[c]
      BY <1>2, <3>1, Zenon DEF CheckPackage, BeginNaming, FlagOK
    <3>2. CASE ~("spec" \in parts /\ version[c])
      <4>1. existed' = [existed EXCEPT ![c] = "spec" \in parts]
        BY <1>2, <3>2, Zenon DEF CheckPackage
      <4>2. ("spec" \in parts) \in BOOLEAN
        OBVIOUS
      <4> QED BY <4>1, <4>2, Zenon DEF FlagOK
    <3> QED BY <3>1, <3>2
  <2> QED BY <1>2, <2>1, Zenon DEF FlagOK, CheckPackage, schemaVars, diskVars, history, faults
<1>3. ASSUME NEW c \in Clients, DeployBaseSpec(c) PROVE FlagOK'
    BY <1>3, Zenon DEF DeployBaseSpec
<1>4. ASSUME NEW c \in Clients, NEW b \in BOOLEAN, DeployBaseBody(c, b) PROVE FlagOK'
    BY <1>4, Zenon DEF DeployBaseBody, BeginNaming
<1>5. ASSUME NEW c \in Clients, Initialize(c) PROVE FlagOK'
    BY <1>5, Zenon DEF Initialize, BeginNaming
<1>6. ASSUME NEW c \in Clients, NEW n \in Names, Draw(c, n) PROVE FlagOK'
    BY <1>6, Zenon DEF Draw
<1>7. ASSUME NEW c \in Clients, NoNameLeft(c) PROVE FlagOK'
    BY <1>7, Zenon DEF NoNameLeft
<1>8. ASSUME NEW c \in Clients, NEW b \in BOOLEAN, Probe(c, b) PROVE FlagOK'
    BY <1>8, Zenon DEF Probe, Release
<1>9. ASSUME NEW c \in Clients, Save(c) PROVE FlagOK'
    BY <1>9, Zenon DEF Save
<1>10. ASSUME NEW c \in Clients, Register(c) PROVE FlagOK'
    BY <1>10, Zenon DEF Register
<1>11. ASSUME NEW c \in Clients, ReadSpec(c) PROVE FlagOK'
    BY <1>11, Zenon DEF ReadSpec
<1>12. ASSUME NEW c \in Clients, CheckOwner(c) PROVE FlagOK'
    BY <1>12, Zenon DEF CheckOwner, Release, Forget
<1>13. ASSUME NEW c \in Clients, Ensure(c) PROVE FlagOK'
    BY <1>13, Zenon DEF Ensure, Forget
<1>14. ASSUME NEW c \in Clients, Strip(c) PROVE FlagOK'
    BY <1>14, Zenon DEF Strip, Forget, AfterDrop
<1>15. ASSUME NEW c \in Clients, WriteSpec(c) PROVE FlagOK'
    BY <1>15, Zenon DEF WriteSpec
<1>16. ASSUME NEW c \in Clients, WriteBody(c) PROVE FlagOK'
    BY <1>16, Zenon DEF WriteBody, Forget, AfterDrop
<1>17. ASSUME NEW c \in Clients, CallRefused(c) PROVE FlagOK'
    BY <1>17, Zenon DEF CallRefused, GiveUp, AfterDrop, Release, Forget
<1>18. ASSUME NEW c \in Clients, CallFails(c) PROVE FlagOK'
    BY <1>18, Zenon DEF CallFails, GiveUp, AfterDrop, Release, Forget
<1>19. ASSUME NEW c \in Clients, DropProcedure(c) PROVE FlagOK'
    BY <1>19, Zenon DEF DropProcedure
<1>20. ASSUME NEW c \in Clients, NEW b \in BOOLEAN, Quit(c, b) PROVE FlagOK'
    BY <1>20, Zenon DEF Quit, Die, Forget
<1>21. ASSUME NEW c \in Clients, Crash(c) PROVE FlagOK'
    BY <1>21, Zenon DEF Crash, Die, Forget
<1>22. CASE UNCHANGED vars
    BY <1>22, Zenon DEF vars
<1> QED BY <1>1, <1>2, <1>3, <1>4, <1>5, <1>6, <1>7, <1>8, <1>9, <1>10, <1>11, <1>12, <1>13,
    <1>14, <1>15, <1>16, <1>17, <1>18, <1>19, <1>20, <1>21, <1>22 DEF Next, ClientStep

TypeInv == SchemaOK /\ ClientOK /\ PartsOK /\ CountOK /\ FlagOK

LEMMA TypeInit == Init => TypeInv
<1> SUFFICES ASSUME Init PROVE TypeInv
    OBVIOUS
<1>1. SchemaOK
    <2>1. spec \in [Names -> {None, Unmarked}]
        BY DEF Init, Base
    <2>2. spec \in Package
        BY <2>1, Owners DEF Package
    <2> QED BY <2>2, Owners DEF Init, SchemaOK, Whole
<1>2. ClientOK
    BY DEF Init, ClientOK, ClientAt, Goal, Named
<1>3. PartsOK
    BY DEF Init, PartsOK, Past, Whole
<1>4. CountOK
    <2>1. 0 \in 0..Cardinality(Names)
        BY Counted
    <2> QED BY <2>1, RegistryAssumption DEF Init, CountOK, RegistryAssumption
<1>5. FlagOK
    <2>1. version \in [Clients -> BOOLEAN] /\ queue \in BOOLEAN
        BY Zenon DEF Init
    <2> QED BY <2>1, Zenon DEF Init, FlagOK
<1> QED BY <1>1, <1>2, <1>3, <1>4, <1>5 DEF TypeInv

LEMMA TypeInvariant == Spec => []TypeInv
<1>1. TypeInv /\ [Next]_vars => TypeInv'
    BY SchemaStep, ClientStays, PartsStep, CountStep, FlagStep DEF TypeInv
<1> QED BY TypeInit, <1>1, PTL DEF Spec

\* The state of schema, databases and clients keeps its shape, and whoever reads the
\* package finds both its parts: for any clients and names, in any order.
THEOREM TypeCorrect == Spec => []TypeOK
<1>1. TypeInv => TypeOK
    <2> SUFFICES ASSUME TypeInv PROVE TypeOK
        OBVIOUS
    <2>1. {overlaps, failures, crashes} \subseteq 0..MaxTroubles
        BY RegistryAssumption DEF TypeInv, CountOK, RegistryAssumption
    <2>2. \A c \in Clients : at[c] \in {"readSpec", "readBody"} => parts = {"spec", "body"}
        BY DEF TypeInv, PartsOK, Past, ClientAt, Whole
    <2> QED BY <2>1, <2>2, Zenon DEF TypeInv, SchemaOK, ClientOK, CountOK, FlagOK, TypeOK, Whole
<1> QED BY TypeInvariant, <1>1, PTL

-----------------------------------------------------------------------------
(* The order of a registration, one client at a time *)

\* A client begins only while the others rest.
LEMMA AloneStep ==
    ASSUME overlaps \in Nat, overlaps' = 0, ClientOK, Alone, [Next]_vars
    PROVE  Alone'
<1> USE DEF ClientOK, Alone, Begin, Resting, ClientAt, Goto, schemaVars, diskVars, nameVars,
    copyVars, history, faults
<1>1. ASSUME NEW c \in Clients, Start(c) PROVE Alone'
    BY <1>1 DEF Start
<1>2. ASSUME NEW c \in Clients, CheckPackage(c) PROVE Alone'
    BY <1>2 DEF CheckPackage, BeginNaming
<1>3. ASSUME NEW c \in Clients, DeployBaseSpec(c) PROVE Alone'
    BY <1>3 DEF DeployBaseSpec
<1>4. ASSUME NEW c \in Clients, NEW b \in BOOLEAN, DeployBaseBody(c, b) PROVE Alone'
    BY <1>4 DEF DeployBaseBody, BeginNaming
<1>5. ASSUME NEW c \in Clients, Initialize(c) PROVE Alone'
    BY <1>5 DEF Initialize, BeginNaming
<1>6. ASSUME NEW c \in Clients, NEW n \in Names, Draw(c, n) PROVE Alone'
    BY <1>6 DEF Draw
<1>7. ASSUME NEW c \in Clients, NoNameLeft(c) PROVE Alone'
    BY <1>7 DEF NoNameLeft
<1>8. ASSUME NEW c \in Clients, NEW b \in BOOLEAN, Probe(c, b) PROVE Alone'
    BY <1>8 DEF Probe, Release
<1>9. ASSUME NEW c \in Clients, Save(c) PROVE Alone'
    BY <1>9 DEF Save
<1>10. ASSUME NEW c \in Clients, Register(c) PROVE Alone'
    BY <1>10 DEF Register
<1>11. ASSUME NEW c \in Clients, ReadSpec(c) PROVE Alone'
    BY <1>11 DEF ReadSpec
<1>12. ASSUME NEW c \in Clients, CheckOwner(c) PROVE Alone'
    BY <1>12 DEF CheckOwner, Release, Forget
<1>13. ASSUME NEW c \in Clients, Ensure(c) PROVE Alone'
    BY <1>13 DEF Ensure, Forget
<1>14. ASSUME NEW c \in Clients, Strip(c) PROVE Alone'
    BY <1>14 DEF Strip, Forget, AfterDrop
<1>15. ASSUME NEW c \in Clients, WriteSpec(c) PROVE Alone'
    BY <1>15 DEF WriteSpec
<1>16. ASSUME NEW c \in Clients, WriteBody(c) PROVE Alone'
    BY <1>16 DEF WriteBody, Forget, AfterDrop
<1>17. ASSUME NEW c \in Clients, CallRefused(c) PROVE Alone'
    BY <1>17 DEF CallRefused, GiveUp, AfterDrop, Release, Forget
<1>18. ASSUME NEW c \in Clients, CallFails(c) PROVE Alone'
    BY <1>18 DEF CallFails, GiveUp, AfterDrop, Release, Forget
<1>19. ASSUME NEW c \in Clients, DropProcedure(c) PROVE Alone'
    BY <1>19 DEF DropProcedure
<1>20. ASSUME NEW c \in Clients, NEW b \in BOOLEAN, Quit(c, b) PROVE Alone'
    BY <1>20 DEF Quit, Die, Forget
<1>21. ASSUME NEW c \in Clients, Crash(c) PROVE Alone'
    BY <1>21 DEF Crash, Die, Forget
<1>22. CASE UNCHANGED vars
    BY <1>22 DEF vars
<1> QED BY <1>1, <1>2, <1>3, <1>4, <1>5, <1>6, <1>7, <1>8, <1>9, <1>10, <1>11, <1>12, <1>13,
    <1>14, <1>15, <1>16, <1>17, <1>18, <1>19, <1>20, <1>21, <1>22 DEF Next, ClientStep

\* Each place belongs to certain goals.
LEMMA GoalStep ==
    ASSUME ClientOK, GoalOK, [Next]_vars
    PROVE  GoalOK'
<1> USE DEF ClientOK, GoalOK, ClientAt, Goal, Goto, schemaVars, diskVars, nameVars, copyVars,
    history, faults
<1>1. ASSUME NEW c \in Clients, Start(c) PROVE GoalOK'
    BY <1>1 DEF Start
<1>2. ASSUME NEW c \in Clients, CheckPackage(c) PROVE GoalOK'
    BY <1>2 DEF CheckPackage, BeginNaming
<1>3. ASSUME NEW c \in Clients, DeployBaseSpec(c) PROVE GoalOK'
    BY <1>3 DEF DeployBaseSpec
<1>4. ASSUME NEW c \in Clients, NEW b \in BOOLEAN, DeployBaseBody(c, b) PROVE GoalOK'
    BY <1>4 DEF DeployBaseBody, BeginNaming
<1>5. ASSUME NEW c \in Clients, Initialize(c) PROVE GoalOK'
    BY <1>5 DEF Initialize, BeginNaming
<1>6. ASSUME NEW c \in Clients, NEW n \in Names, Draw(c, n) PROVE GoalOK'
    BY <1>6 DEF Draw
<1>7. ASSUME NEW c \in Clients, NoNameLeft(c) PROVE GoalOK'
    BY <1>7 DEF NoNameLeft
<1>8. ASSUME NEW c \in Clients, NEW b \in BOOLEAN, Probe(c, b) PROVE GoalOK'
    BY <1>8 DEF Probe, Release
<1>9. ASSUME NEW c \in Clients, Save(c) PROVE GoalOK'
    BY <1>9 DEF Save
<1>10. ASSUME NEW c \in Clients, Register(c) PROVE GoalOK'
    BY <1>10 DEF Register
<1>11. ASSUME NEW c \in Clients, ReadSpec(c) PROVE GoalOK'
    BY <1>11 DEF ReadSpec
<1>12. ASSUME NEW c \in Clients, CheckOwner(c) PROVE GoalOK'
    BY <1>12 DEF CheckOwner, Release, Forget
<1>13. ASSUME NEW c \in Clients, Ensure(c) PROVE GoalOK'
    BY <1>13 DEF Ensure, Forget
<1>14. ASSUME NEW c \in Clients, Strip(c) PROVE GoalOK'
    BY <1>14 DEF Strip, Forget, AfterDrop
<1>15. ASSUME NEW c \in Clients, WriteSpec(c) PROVE GoalOK'
    BY <1>15 DEF WriteSpec
<1>16. ASSUME NEW c \in Clients, WriteBody(c) PROVE GoalOK'
    BY <1>16 DEF WriteBody, Forget, AfterDrop
<1>17. ASSUME NEW c \in Clients, CallRefused(c) PROVE GoalOK'
    BY <1>17 DEF CallRefused, GiveUp, AfterDrop, Release, Forget
<1>18. ASSUME NEW c \in Clients, CallFails(c) PROVE GoalOK'
    BY <1>18 DEF CallFails, GiveUp, AfterDrop, Release, Forget
<1>19. ASSUME NEW c \in Clients, DropProcedure(c) PROVE GoalOK'
    BY <1>19 DEF DropProcedure
<1>20. ASSUME NEW c \in Clients, NEW b \in BOOLEAN, Quit(c, b) PROVE GoalOK'
    BY <1>20 DEF Quit, Die, Forget
<1>21. ASSUME NEW c \in Clients, Crash(c) PROVE GoalOK'
    BY <1>21 DEF Crash, Die, Forget
<1>22. CASE UNCHANGED vars
    BY <1>22 DEF vars
<1> QED BY <1>1, <1>2, <1>3, <1>4, <1>5, <1>6, <1>7, <1>8, <1>9, <1>10, <1>11, <1>12, <1>13,
    <1>14, <1>15, <1>16, <1>17, <1>18, <1>19, <1>20, <1>21, <1>22 DEF Next, ClientStep

\* Nobody writes between the two reads of a client.
LEMMA FreshStep ==
    ASSUME SchemaOK, ClientOK, Alone, Fresh, [Next]_vars
    PROVE  Fresh'
<1> USE DEF SchemaOK, ClientOK, Alone, Fresh, ClientAt, Resting, Goto, schemaVars,
    diskVars, nameVars, copyVars, history, faults
<1>1. ASSUME NEW c \in Clients, Start(c) PROVE Fresh'
    BY <1>1 DEF Start
<1>2. ASSUME NEW c \in Clients, CheckPackage(c) PROVE Fresh'
    BY <1>2 DEF CheckPackage, BeginNaming
<1>3. ASSUME NEW c \in Clients, DeployBaseSpec(c) PROVE Fresh'
    BY <1>3 DEF DeployBaseSpec
<1>4. ASSUME NEW c \in Clients, NEW b \in BOOLEAN, DeployBaseBody(c, b) PROVE Fresh'
    BY <1>4 DEF DeployBaseBody, BeginNaming
<1>5. ASSUME NEW c \in Clients, Initialize(c) PROVE Fresh'
    BY <1>5 DEF Initialize, BeginNaming
<1>6. ASSUME NEW c \in Clients, NEW n \in Names, Draw(c, n) PROVE Fresh'
    BY <1>6 DEF Draw
<1>7. ASSUME NEW c \in Clients, NoNameLeft(c) PROVE Fresh'
    BY <1>7 DEF NoNameLeft
<1>8. ASSUME NEW c \in Clients, NEW b \in BOOLEAN, Probe(c, b) PROVE Fresh'
    BY <1>8 DEF Probe, Release
<1>9. ASSUME NEW c \in Clients, Save(c) PROVE Fresh'
    BY <1>9 DEF Save
<1>10. ASSUME NEW c \in Clients, Register(c) PROVE Fresh'
    BY <1>10 DEF Register
<1>11. ASSUME NEW c \in Clients, ReadSpec(c) PROVE Fresh'
    BY <1>11 DEF ReadSpec
<1>12. ASSUME NEW c \in Clients, CheckOwner(c) PROVE Fresh'
    BY <1>12 DEF CheckOwner, Release, Forget
<1>13. ASSUME NEW c \in Clients, Ensure(c) PROVE Fresh'
    BY <1>13 DEF Ensure, Forget
<1>14. ASSUME NEW c \in Clients, Strip(c) PROVE Fresh'
    BY <1>14 DEF Strip, Forget, AfterDrop
<1>15. ASSUME NEW c \in Clients, WriteSpec(c) PROVE Fresh'
    BY <1>15 DEF WriteSpec
<1>16. ASSUME NEW c \in Clients, WriteBody(c) PROVE Fresh'
    BY <1>16 DEF WriteBody, Forget, AfterDrop
<1>17. ASSUME NEW c \in Clients, CallRefused(c) PROVE Fresh'
    BY <1>17 DEF CallRefused, GiveUp, AfterDrop, Release, Forget
<1>18. ASSUME NEW c \in Clients, CallFails(c) PROVE Fresh'
    BY <1>18 DEF CallFails, GiveUp, AfterDrop, Release, Forget
<1>19. ASSUME NEW c \in Clients, DropProcedure(c) PROVE Fresh'
    BY <1>19 DEF DropProcedure
<1>20. ASSUME NEW c \in Clients, NEW b \in BOOLEAN, Quit(c, b) PROVE Fresh'
    BY <1>20 DEF Quit, Die, Forget
<1>21. ASSUME NEW c \in Clients, Crash(c) PROVE Fresh'
    BY <1>21 DEF Crash, Die, Forget
<1>22. CASE UNCHANGED vars
    BY <1>22 DEF vars
<1> QED BY <1>1, <1>2, <1>3, <1>4, <1>5, <1>6, <1>7, <1>8, <1>9, <1>10, <1>11, <1>12, <1>13,
    <1>14, <1>15, <1>16, <1>17, <1>18, <1>19, <1>20, <1>21, <1>22 DEF Next, ClientStep

\* A client gives its stored name up only for a name that was found foreign.
LEMMA NameStep ==
    ASSUME SchemaOK, ClientOK, Alone, GoalOK, Fresh, NameOK, [Next]_vars
    PROVE  NameOK'
<1> USE RegistryAssumption DEF RegistryAssumption, SchemaOK, ClientOK, Alone, GoalOK, Fresh,
    NameOK, Reads, Works, ClientAt, Goal, Resting, Named, Foreign, OwnedByAnother,
    Goto, schemaVars, diskVars, nameVars, copyVars, history, faults
<1>1. ASSUME NEW c \in Clients, Start(c) PROVE NameOK'
    BY <1>1 DEF Start
<1>2. ASSUME NEW c \in Clients, CheckPackage(c) PROVE NameOK'
    BY <1>2 DEF CheckPackage, BeginNaming
<1>3. ASSUME NEW c \in Clients, DeployBaseSpec(c) PROVE NameOK'
    BY <1>3 DEF DeployBaseSpec
<1>4. ASSUME NEW c \in Clients, NEW b \in BOOLEAN, DeployBaseBody(c, b) PROVE NameOK'
    BY <1>4 DEF DeployBaseBody, BeginNaming
<1>5. ASSUME NEW c \in Clients, Initialize(c) PROVE NameOK'
    BY <1>5 DEF Initialize, BeginNaming
<1>6. ASSUME NEW c \in Clients, NEW n \in Names, Draw(c, n) PROVE NameOK'
    BY <1>6 DEF Draw
<1>7. ASSUME NEW c \in Clients, NoNameLeft(c) PROVE NameOK'
    BY <1>7 DEF NoNameLeft
<1>8. ASSUME NEW c \in Clients, NEW b \in BOOLEAN, Probe(c, b) PROVE NameOK'
    BY <1>8 DEF Probe, Release
<1>9. ASSUME NEW c \in Clients, Save(c) PROVE NameOK'
    BY <1>9 DEF Save
<1>10. ASSUME NEW c \in Clients, Register(c) PROVE NameOK'
    BY <1>10 DEF Register
<1>11. ASSUME NEW c \in Clients, ReadSpec(c) PROVE NameOK'
    BY <1>11 DEF ReadSpec
<1>12. ASSUME NEW c \in Clients, CheckOwner(c) PROVE NameOK'
    BY <1>12 DEF CheckOwner, Release, Forget
<1>13. ASSUME NEW c \in Clients, Ensure(c) PROVE NameOK'
    BY <1>13 DEF Ensure, Forget
<1>14. ASSUME NEW c \in Clients, Strip(c) PROVE NameOK'
    BY <1>14 DEF Strip, Forget, AfterDrop
<1>15. ASSUME NEW c \in Clients, WriteSpec(c) PROVE NameOK'
    BY <1>15 DEF WriteSpec
<1>16. ASSUME NEW c \in Clients, WriteBody(c) PROVE NameOK'
    BY <1>16 DEF WriteBody, Forget, AfterDrop
<1>17. ASSUME NEW c \in Clients, CallRefused(c) PROVE NameOK'
    BY <1>17 DEF CallRefused, GiveUp, AfterDrop, Release, Forget
<1>18. ASSUME NEW c \in Clients, CallFails(c) PROVE NameOK'
    BY <1>18 DEF CallFails, GiveUp, AfterDrop, Release, Forget
<1>19. ASSUME NEW c \in Clients, DropProcedure(c) PROVE NameOK'
    BY <1>19 DEF DropProcedure
<1>20. ASSUME NEW c \in Clients, NEW b \in BOOLEAN, Quit(c, b) PROVE NameOK'
    BY <1>20 DEF Quit, Die, Forget
<1>21. ASSUME NEW c \in Clients, Crash(c) PROVE NameOK'
    BY <1>21 DEF Crash, Die, Forget
<1>22. CASE UNCHANGED vars
    BY <1>22 DEF vars
<1> QED BY <1>1, <1>2, <1>3, <1>4, <1>5, <1>6, <1>7, <1>8, <1>9, <1>10, <1>11, <1>12, <1>13,
    <1>14, <1>15, <1>16, <1>17, <1>18, <1>19, <1>20, <1>21, <1>22 DEF Next, ClientStep

-----------------------------------------------------------------------------
(* What the package and its clients have to do with each other *)

\* After both writes of a deployment the two parts agree.
LEMMA AgreeStep ==
    ASSUME ~torn, ~torn', SchemaOK, ClientOK, PartsOK, Alone, GoalOK,
           Fresh, NameOK, Agree, Copies, [Next]_vars
    PROVE  Agree'
<1> USE RegistryAssumption DEF RegistryAssumption, SchemaOK, ClientOK, Alone, GoalOK, NameOK,
    Reads, Works, ClientAt, Goal, Resting, Named, Foreign, Writing, Agree, Copies,
    Goto, schemaVars, diskVars, nameVars, copyVars, history, faults
<1>1. ASSUME NEW c \in Clients, Start(c) PROVE Agree'
    BY <1>1 DEF Start
<1>2. ASSUME NEW c \in Clients, CheckPackage(c) PROVE Agree'
    BY <1>2 DEF CheckPackage, BeginNaming
<1>3. ASSUME NEW c \in Clients, DeployBaseSpec(c) PROVE Agree'
    BY <1>3 DEF DeployBaseSpec
<1>4. ASSUME NEW c \in Clients, NEW b \in BOOLEAN, DeployBaseBody(c, b) PROVE Agree'
    BY <1>4 DEF DeployBaseBody, BeginNaming
<1>5. ASSUME NEW c \in Clients, Initialize(c) PROVE Agree'
    BY <1>5 DEF Initialize, BeginNaming
<1>6. ASSUME NEW c \in Clients, NEW n \in Names, Draw(c, n) PROVE Agree'
    BY <1>6 DEF Draw
<1>7. ASSUME NEW c \in Clients, NoNameLeft(c) PROVE Agree'
    BY <1>7 DEF NoNameLeft
<1>8. ASSUME NEW c \in Clients, NEW b \in BOOLEAN, Probe(c, b) PROVE Agree'
    BY <1>8 DEF Probe, Release
<1>9. ASSUME NEW c \in Clients, Save(c) PROVE Agree'
    BY <1>9 DEF Save
<1>10. ASSUME NEW c \in Clients, Register(c) PROVE Agree'
    BY <1>10 DEF Register
<1>11. ASSUME NEW c \in Clients, ReadSpec(c) PROVE Agree'
    BY <1>11 DEF ReadSpec
<1>12. ASSUME NEW c \in Clients, CheckOwner(c) PROVE Agree'
    BY <1>12 DEF CheckOwner, Release, Forget
<1>13. ASSUME NEW c \in Clients, Ensure(c) PROVE Agree'
    BY <1>13 DEF Ensure, Forget
<1>14. ASSUME NEW c \in Clients, Strip(c) PROVE Agree'
    BY <1>14 DEF Strip, Forget, AfterDrop
<1>15. ASSUME NEW c \in Clients, WriteSpec(c) PROVE Agree'
    BY <1>15 DEF WriteSpec
<1>16. ASSUME NEW c \in Clients, WriteBody(c) PROVE Agree'
    BY <1>16 DEF WriteBody, Forget, AfterDrop
<1>17. ASSUME NEW c \in Clients, CallRefused(c) PROVE Agree'
    BY <1>17 DEF CallRefused, GiveUp, AfterDrop, Release, Forget
<1>18. ASSUME NEW c \in Clients, CallFails(c) PROVE Agree'
    BY <1>18 DEF CallFails, GiveUp, AfterDrop, Release, Forget
<1>19. ASSUME NEW c \in Clients, DropProcedure(c) PROVE Agree'
    BY <1>19 DEF DropProcedure
<1>20. ASSUME NEW c \in Clients, NEW b \in BOOLEAN, Quit(c, b) PROVE Agree'
    BY <1>20 DEF Quit, Die, Forget
<1>21. ASSUME NEW c \in Clients, Crash(c) PROVE Agree'
  <2> HIDE DEF RegistryAssumption, SchemaOK, ClientOK, Alone, GoalOK, NameOK, Reads, Works,
      ClientAt, Goal, Resting, Named, Foreign, Writing, Agree, Copies, Goto,
      schemaVars, diskVars, nameVars, copyVars, history, faults
  <2>1. at[c] \notin Writing
    BY <1>21 DEF Crash
  <2>2. /\ spec' = spec /\ body' = body /\ compiled' = compiled
        /\ \A d \in Clients \ {c} : at'[d] = at[d]
    BY <1>21 DEF Crash, Die, Goto, ClientOK, schemaVars
  <2> QED BY <2>1, <2>2, Zenon DEF Agree
<1>22. CASE UNCHANGED vars
    BY <1>22 DEF vars
<1> QED BY <1>1, <1>2, <1>3, <1>4, <1>5, <1>6, <1>7, <1>8, <1>9, <1>10, <1>11, <1>12, <1>13,
    <1>14, <1>15, <1>16, <1>17, <1>18, <1>19, <1>20, <1>21, <1>22 DEF Next, ClientStep

\* Whoever owns a procedure has its name stored.
LEMMA OwnedStep ==
    ASSUME ~torn, ~torn', SchemaOK, ClientOK, PartsOK, Alone, GoalOK,
           Fresh, NameOK, Agree, Copies, Owned, [Next]_vars
    PROVE  Owned'
<1> USE RegistryAssumption DEF RegistryAssumption, SchemaOK, ClientOK, Alone, GoalOK, NameOK,
    Reads, Works, ClientAt, Goal, Resting, Named, Foreign, Writing, Agree, Copies,
    Owned, Package, Owner, Base, Goto, schemaVars, diskVars, nameVars, copyVars, history, faults
<1>1. ASSUME NEW c \in Clients, Start(c) PROVE Owned'
    BY <1>1 DEF Start
<1>2. ASSUME NEW c \in Clients, CheckPackage(c) PROVE Owned'
    BY <1>2 DEF CheckPackage, BeginNaming
<1>3. ASSUME NEW c \in Clients, DeployBaseSpec(c) PROVE Owned'
    BY <1>3 DEF DeployBaseSpec
<1>4. ASSUME NEW c \in Clients, NEW b \in BOOLEAN, DeployBaseBody(c, b) PROVE Owned'
    BY <1>4 DEF DeployBaseBody, BeginNaming
<1>5. ASSUME NEW c \in Clients, Initialize(c) PROVE Owned'
    BY <1>5 DEF Initialize, BeginNaming
<1>6. ASSUME NEW c \in Clients, NEW n \in Names, Draw(c, n) PROVE Owned'
    BY <1>6 DEF Draw
<1>7. ASSUME NEW c \in Clients, NoNameLeft(c) PROVE Owned'
    BY <1>7 DEF NoNameLeft
<1>8. ASSUME NEW c \in Clients, NEW b \in BOOLEAN, Probe(c, b) PROVE Owned'
    BY <1>8 DEF Probe, Release
<1>9. ASSUME NEW c \in Clients, Save(c) PROVE Owned'
  <2> HIDE DEF RegistryAssumption, SchemaOK, ClientOK, Alone, GoalOK, NameOK, Reads, Works,
      ClientAt, Goal, Resting, Named, Foreign, Writing, Agree, Copies, Owned,
      Package, Owner, Base, Goto, schemaVars, diskVars, nameVars, copyVars, history, faults
  <2> SUFFICES ASSUME NEW d \in Clients, NEW n \in Names, spec[n] = d \/ body[n] = d
               PROVE  stored'[d] = n
    BY <1>9, Zenon DEF Save, schemaVars, Owned
  <2>1. stored[d] = n
    BY DEF Owned
  <2>2. CASE d # c
    BY <1>9, <2>1, <2>2 DEF Save, SchemaOK
  <2>3. CASE d = c
    <3>1. spec = body
      BY <1>9 DEF Agree, Save, Writing, Alone, Resting
    <3>2. spec[n] = c /\ stored[c] = n /\ n # None
      BY <2>1, <2>3, <3>1, RegistryAssumption DEF RegistryAssumption
    <3>3. goal[c] = "owned"
      BY <1>9, <3>1, <3>2 DEF Save, GoalOK, NameOK, Foreign
    <3> QED BY <1>9, <2>3, <3>2, <3>3 DEF Save, NameOK, SchemaOK
  <2> QED BY <2>2, <2>3
<1>10. ASSUME NEW c \in Clients, Register(c) PROVE Owned'
    BY <1>10 DEF Register
<1>11. ASSUME NEW c \in Clients, ReadSpec(c) PROVE Owned'
    BY <1>11 DEF ReadSpec
<1>12. ASSUME NEW c \in Clients, CheckOwner(c) PROVE Owned'
    BY <1>12 DEF CheckOwner, Release, Forget
<1>13. ASSUME NEW c \in Clients, Ensure(c) PROVE Owned'
    BY <1>13 DEF Ensure, Forget
<1>14. ASSUME NEW c \in Clients, Strip(c) PROVE Owned'
    BY <1>14 DEF Strip, Forget, AfterDrop
<1>15. ASSUME NEW c \in Clients, WriteSpec(c) PROVE Owned'
    BY <1>15 DEF WriteSpec
<1>16. ASSUME NEW c \in Clients, WriteBody(c) PROVE Owned'
    BY <1>16 DEF WriteBody, Forget, AfterDrop
<1>17. ASSUME NEW c \in Clients, CallRefused(c) PROVE Owned'
    BY <1>17 DEF CallRefused, GiveUp, AfterDrop, Release, Forget
<1>18. ASSUME NEW c \in Clients, CallFails(c) PROVE Owned'
    BY <1>18 DEF CallFails, GiveUp, AfterDrop, Release, Forget
<1>19. ASSUME NEW c \in Clients, DropProcedure(c) PROVE Owned'
    BY <1>19 DEF DropProcedure
<1>20. ASSUME NEW c \in Clients, NEW b \in BOOLEAN, Quit(c, b) PROVE Owned'
    BY <1>20 DEF Quit, Die, Forget
<1>21. ASSUME NEW c \in Clients, Crash(c) PROVE Owned'
    BY <1>21 DEF Crash, Die, Forget
<1>22. CASE UNCHANGED vars
    BY <1>22 DEF vars
<1> QED BY <1>1, <1>2, <1>3, <1>4, <1>5, <1>6, <1>7, <1>8, <1>9, <1>10, <1>11, <1>12, <1>13,
    <1>14, <1>15, <1>16, <1>17, <1>18, <1>19, <1>20, <1>21, <1>22 DEF Next, ClientStep

\* A copy differs from the package in the procedure of the name in hand.
LEMMA CopiesStep ==
    ASSUME ~torn, ~torn', SchemaOK, ClientOK, PartsOK, Alone, GoalOK,
           Fresh, NameOK, Agree, Copies, [Next]_vars
    PROVE  Copies'
<1> USE RegistryAssumption DEF RegistryAssumption, SchemaOK, ClientOK, Alone, GoalOK, NameOK,
    Reads, Works, ClientAt, Goal, Resting, Named, Foreign, Writing, Fresh, Agree,
    Copies, Package, Owner, Base, Goto, schemaVars, diskVars, nameVars, copyVars, history, faults
<1>1. ASSUME NEW c \in Clients, Start(c) PROVE Copies'
    BY <1>1 DEF Start
<1>2. ASSUME NEW c \in Clients, CheckPackage(c) PROVE Copies'
    BY <1>2 DEF CheckPackage, BeginNaming
<1>3. ASSUME NEW c \in Clients, DeployBaseSpec(c) PROVE Copies'
  <2> HIDE DEF RegistryAssumption, SchemaOK, ClientOK, Alone, GoalOK, NameOK, Reads, Works,
      ClientAt, Goal, Resting, Named, Foreign, Writing, Fresh, Agree, Copies,
      Package, Owner, Base, Goto, schemaVars, diskVars, nameVars, copyVars, history, faults
  <2>1. \A d \in Clients \ {c} : at'[d] = at[d] /\ at[d] \in Resting
    BY <1>3 DEF Alone, DeployBaseSpec, Goto, ClientOK, Resting
  <2>2. at'[c] = "baseBody" /\ spec' = Base
    BY <1>3 DEF DeployBaseSpec, Goto, ClientOK
  <2> QED BY <2>1, <2>2, Zenon DEF Copies, Resting
<1>4. ASSUME NEW c \in Clients, NEW b \in BOOLEAN, DeployBaseBody(c, b) PROVE Copies'
    BY <1>4 DEF DeployBaseBody, BeginNaming
<1>5. ASSUME NEW c \in Clients, Initialize(c) PROVE Copies'
    BY <1>5 DEF Initialize, BeginNaming
<1>6. ASSUME NEW c \in Clients, NEW n \in Names, Draw(c, n) PROVE Copies'
    BY <1>6 DEF Draw
<1>7. ASSUME NEW c \in Clients, NoNameLeft(c) PROVE Copies'
    BY <1>7 DEF NoNameLeft
<1>8. ASSUME NEW c \in Clients, NEW b \in BOOLEAN, Probe(c, b) PROVE Copies'
    BY <1>8 DEF Probe, Release
<1>9. ASSUME NEW c \in Clients, Save(c) PROVE Copies'
    BY <1>9 DEF Save
<1>10. ASSUME NEW c \in Clients, Register(c) PROVE Copies'
    BY <1>10 DEF Register
<1>11. ASSUME NEW c \in Clients, ReadSpec(c) PROVE Copies'
    BY <1>11 DEF ReadSpec
<1>12. ASSUME NEW c \in Clients, CheckOwner(c) PROVE Copies'
    BY <1>12 DEF CheckOwner, Release, Forget
<1>13. ASSUME NEW c \in Clients, Ensure(c) PROVE Copies'
  <2> HIDE DEF RegistryAssumption, SchemaOK, ClientOK, Alone, GoalOK, NameOK, Reads, Works,
      ClientAt, Goal, Resting, Named, Foreign, Writing, Fresh, Agree, Copies,
      Package, Owner, Base, Goto, schemaVars, diskVars, nameVars, copyVars, history, faults
  <2>1. \A d \in Clients \ {c} : at'[d] \notin {"baseBody", "writeSpec", "writeBody"}
    BY <1>13 DEF Alone, Ensure, Goto, ClientOK, Resting, Forget, AfterDrop
  <2>2. spec = body /\ copySpec[c] = spec /\ name[c] \in Names
    BY <1>13 DEF Agree, Ensure, Writing, Alone, Resting, Fresh, ClientOK, Named
  <2>3. CASE at'[c] # "writeSpec"
    BY <1>13, <2>1, <2>3 DEF Copies, Ensure, Goto, ClientOK, Forget, AfterDrop
  <2>4. CASE at'[c] = "writeSpec"
    <3>1. /\ copySpec' = [copySpec EXCEPT ![c][name[c]] = c]
          /\ copyBody' = [copyBody EXCEPT ![c] = [body EXCEPT ![name[c]] = c]]
          /\ spec' = spec /\ body' = body /\ name' = name
          /\ goal'[c] = goal[c] /\ (goal[c] = "ensure" <=> TRUE)
      BY <1>13, <2>2, <2>4, RegistryAssumption DEF Ensure, Goto, ClientOK, Forget, AfterDrop,
          RegistryAssumption, schemaVars, nameVars
    <3>2. /\ copySpec'[c] = [spec EXCEPT ![name[c]] = c]
          /\ copyBody'[c] = [body EXCEPT ![name[c]] = c]
      BY <2>2, <3>1 DEF SchemaOK
    <3>3. copyBody'[c] = copySpec'[c] /\ copySpec'[c][name[c]] = c
          /\ \A n \in Names \ {name[c]} : copySpec'[c][n] = spec[n]
      BY <2>2, <3>2 DEF SchemaOK, Package
    <3> QED BY <2>1, <2>2, <2>4, <3>1, <3>3 DEF Copies
  <2> QED BY <2>3, <2>4
<1>14. ASSUME NEW c \in Clients, Strip(c) PROVE Copies'
  <2> HIDE DEF RegistryAssumption, SchemaOK, ClientOK, Alone, GoalOK, NameOK, Reads, Works,
      ClientAt, Goal, Resting, Named, Foreign, Writing, Fresh, Agree, Copies,
      Package, Owner, Base, Goto, schemaVars, diskVars, nameVars, copyVars, history, faults
  <2>1. \A d \in Clients \ {c} : at'[d] \notin {"baseBody", "writeSpec", "writeBody"}
    BY <1>14 DEF Alone, Strip, Goto, ClientOK, Resting, Forget, AfterDrop
  <2>2. spec = body /\ copySpec[c] = spec /\ name[c] \in Names
    BY <1>14 DEF Agree, Strip, Writing, Alone, Resting, Fresh, ClientOK, Named
  <2>3. CASE at'[c] # "writeSpec"
    BY <1>14, <2>1, <2>3 DEF Copies, Strip, Goto, ClientOK, Forget, AfterDrop
  <2>4. CASE at'[c] = "writeSpec"
    <3>1. /\ copySpec' = [copySpec EXCEPT ![c][name[c]] = None]
          /\ copyBody' = [copyBody EXCEPT ![c] = [body EXCEPT ![name[c]] = None]]
          /\ spec' = spec /\ body' = body /\ name' = name
          /\ goal'[c] = goal[c] /\ (goal[c] = "ensure" <=> FALSE)
      BY <1>14, <2>2, <2>4, RegistryAssumption DEF Strip, Goto, ClientOK, Forget, AfterDrop,
          RegistryAssumption, schemaVars, nameVars
    <3>2. /\ copySpec'[c] = [spec EXCEPT ![name[c]] = None]
          /\ copyBody'[c] = [body EXCEPT ![name[c]] = None]
      BY <2>2, <3>1 DEF SchemaOK
    <3>3. copyBody'[c] = copySpec'[c] /\ copySpec'[c][name[c]] = None
          /\ \A n \in Names \ {name[c]} : copySpec'[c][n] = spec[n]
      BY <2>2, <3>2 DEF SchemaOK, Package
    <3> QED BY <2>1, <2>2, <2>4, <3>1, <3>3 DEF Copies
  <2> QED BY <2>3, <2>4
<1>15. ASSUME NEW c \in Clients, WriteSpec(c) PROVE Copies'
  <2> HIDE DEF RegistryAssumption, SchemaOK, ClientOK, Alone, GoalOK, NameOK, Reads, Works,
      ClientAt, Goal, Resting, Named, Foreign, Writing, Fresh, Agree, Copies,
      Package, Owner, Base, Goto, schemaVars, diskVars, nameVars, copyVars, history, faults
  <2>1. \A d \in Clients \ {c} : at'[d] = at[d] /\ at[d] \in Resting
    BY <1>15 DEF Alone, WriteSpec, Goto, ClientOK, Resting, Forget, AfterDrop
  <2>2. spec' = copySpec[c] /\ body' = body /\ name' = name /\ goal' = goal /\ at'[c] = "writeBody"
        /\ copySpec' = copySpec /\ copyBody' = copyBody
    BY <1>15 DEF WriteSpec, nameVars, copyVars, Goto, ClientOK
  <2>3. /\ copyBody[c] = copySpec[c]
        /\ copySpec[c][name[c]] = (IF goal[c] = "ensure" THEN c ELSE None)
        /\ \A n \in Names \ {name[c]} : copySpec[c][n] = body[n]
    BY <1>15 DEF WriteSpec, Copies
  <2> QED BY <2>1, <2>2, <2>3 DEF Copies, Resting
<1>16. ASSUME NEW c \in Clients, WriteBody(c) PROVE Copies'
    BY <1>16 DEF WriteBody, Forget, AfterDrop
<1>17. ASSUME NEW c \in Clients, CallRefused(c) PROVE Copies'
    BY <1>17 DEF CallRefused, GiveUp, AfterDrop, Release, Forget
<1>18. ASSUME NEW c \in Clients, CallFails(c) PROVE Copies'
    BY <1>18 DEF CallFails, GiveUp, AfterDrop, Release, Forget
<1>19. ASSUME NEW c \in Clients, DropProcedure(c) PROVE Copies'
    BY <1>19 DEF DropProcedure
<1>20. ASSUME NEW c \in Clients, NEW b \in BOOLEAN, Quit(c, b) PROVE Copies'
    BY <1>20 DEF Quit, Die, Forget
<1>21. ASSUME NEW c \in Clients, Crash(c) PROVE Copies'
    BY <1>21 DEF Crash, Die, Forget
<1>22. CASE UNCHANGED vars
    BY <1>22 DEF vars
<1> QED BY <1>1, <1>2, <1>3, <1>4, <1>5, <1>6, <1>7, <1>8, <1>9, <1>10, <1>11, <1>12, <1>13,
    <1>14, <1>15, <1>16, <1>17, <1>18, <1>19, <1>20, <1>21, <1>22 DEF Next, ClientStep

\* The name of a client that registers is nobody else's.
LEMMA FreeStep ==
    ASSUME ~torn, ~torn', SchemaOK, ClientOK, PartsOK, Alone, GoalOK,
           Fresh, NameOK, Agree, Copies, Free, Procedures, Alone', [Next]_vars
    PROVE  Free'
<1> USE RegistryAssumption DEF RegistryAssumption, SchemaOK, ClientOK, Alone, GoalOK, NameOK,
    Reads, Works, ClientAt, Goal, Resting, Named, Foreign, Writing, PartsOK,
    Callable, Fresh, Agree, Copies, Free, Procedures, Package, Owner, Base, Whole, Past,
    OwnedByAnother, Settled, Goto, schemaVars, diskVars, nameVars, copyVars, history, faults
<1>1. ASSUME NEW c \in Clients, Start(c) PROVE Free'
  <2> HIDE DEF RegistryAssumption, SchemaOK, ClientOK, Alone, GoalOK, NameOK, Reads, Works,
      ClientAt, Goal, Resting, Named, Foreign, Writing, PartsOK, Callable, Fresh,
      Agree, Copies, Free, Procedures, Package, Owner, Base, Whole, Past, OwnedByAnother,
      Settled, Goto, schemaVars, diskVars, nameVars, copyVars, history, faults
  <2>1. at'[c] = "check"
    BY <1>1 DEF Start, Goto, ClientOK
  <2>2. \A d \in Clients \ {c} : at'[d] = at[d] /\ at[d] \in Resting
    BY <1>1, <2>1 DEF Alone, Start, Goto, ClientOK, Resting
  <2> QED BY <2>1, <2>2 DEF Free, Reads, Settled, Resting
<1>2. ASSUME NEW c \in Clients, CheckPackage(c) PROVE Free'
  <2> HIDE DEF RegistryAssumption, SchemaOK, ClientOK, Alone, GoalOK, NameOK, Reads, Works,
      ClientAt, Goal, Resting, Named, Foreign, Writing, PartsOK, Callable, Fresh,
      Agree, Copies, Free, Procedures, Package, Owner, Base, Whole, Past, OwnedByAnother,
      Settled, Goto, schemaVars, diskVars, nameVars, copyVars, history, faults
  <2>1. \A d \in Clients \ {c} : at'[d] = at[d] /\ at[d] \in Resting
    BY <1>2 DEF Alone, CheckPackage, Goto, ClientOK, Resting, Forget, AfterDrop,
        BeginNaming
  <2>2. at'[c] \in {"baseSpec", "draw", "readSpec"} /\ (at'[c] = "readSpec" => goal'[c] = "owned")
    BY <1>2 DEF CheckPackage, BeginNaming, Goto, ClientOK
  <2> QED BY <2>1, <2>2 DEF Free, Reads, Settled, Resting
<1>3. ASSUME NEW c \in Clients, DeployBaseSpec(c) PROVE Free'
    BY <1>3 DEF DeployBaseSpec
<1>4. ASSUME NEW c \in Clients, NEW b \in BOOLEAN, DeployBaseBody(c, b) PROVE Free'
    BY <1>4 DEF DeployBaseBody, BeginNaming
<1>5. ASSUME NEW c \in Clients, Initialize(c) PROVE Free'
    BY <1>5 DEF Initialize, BeginNaming
<1>6. ASSUME NEW c \in Clients, NEW n \in Names, Draw(c, n) PROVE Free'
    BY <1>6 DEF Draw
<1>7. ASSUME NEW c \in Clients, NoNameLeft(c) PROVE Free'
    BY <1>7 DEF NoNameLeft
<1>8. ASSUME NEW c \in Clients, NEW b \in BOOLEAN, Probe(c, b) PROVE Free'
  <2> HIDE DEF RegistryAssumption, SchemaOK, ClientOK, Alone, GoalOK, NameOK, Reads, Works,
      ClientAt, Goal, Resting, Named, Foreign, Writing, PartsOK, Callable, Fresh,
      Agree, Copies, Free, Procedures, Package, Owner, Base, Whole, Past, OwnedByAnother,
      Settled, Goto, schemaVars, diskVars, nameVars, copyVars, history, faults
  <2>1. \A d \in Clients \ {c} : at'[d] = at[d] /\ at[d] \in Resting
    BY <1>8 DEF Alone, Probe, Goto, ClientOK, Resting, Forget, AfterDrop, Release
  <2>2. spec' = spec /\ body' = body /\ name' = name /\ at'[c] \in {"draw", "save"}
    BY <1>8 DEF Probe, schemaVars, Goto, ClientOK
  <2>3. spec = body /\ compiled
    BY <1>8 DEF Agree, Probe, Writing, Alone, Resting
  <2>4. Callable
    BY <1>8, <2>3 DEF Callable, Probe, PartsOK, Past, ClientAt, Whole
  <2>5. at'[c] = "save" => spec[name[c]] = None
    BY <1>8, <2>3, <2>4 DEF Probe, Goto, ClientOK
  <2> QED BY <2>1, <2>2, <2>3, <2>5 DEF Free, Foreign, Reads, Settled, Resting
<1>9. ASSUME NEW c \in Clients, Save(c) PROVE Free'
    BY <1>9 DEF Save
<1>10. ASSUME NEW c \in Clients, Register(c) PROVE Free'
    BY <1>10 DEF Register
<1>11. ASSUME NEW c \in Clients, ReadSpec(c) PROVE Free'
    BY <1>11 DEF ReadSpec
<1>12. ASSUME NEW c \in Clients, CheckOwner(c) PROVE Free'
    BY <1>12 DEF CheckOwner, Release, Forget
<1>13. ASSUME NEW c \in Clients, Ensure(c) PROVE Free'
  <2> HIDE DEF RegistryAssumption, SchemaOK, ClientOK, Alone, GoalOK, NameOK, Reads, Works,
      ClientAt, Goal, Resting, Named, Foreign, Writing, PartsOK, Callable, Fresh,
      Agree, Copies, Free, Procedures, Package, Owner, Base, Whole, Past, OwnedByAnother,
      Settled, Goto, schemaVars, diskVars, nameVars, copyVars, history, faults
  <2>1. \A d \in Clients \ {c} : at'[d] = at[d] /\ at[d] \in Resting
    BY <1>13 DEF Alone, Ensure, Goto, ClientOK, Resting, Forget, AfterDrop
  <2>2. spec' = spec /\ body' = body /\ name' = name
    BY <1>13 DEF Ensure, schemaVars, nameVars
  <2>3. ~Foreign(c, spec[name[c]]) /\ ~Foreign(c, body[name[c]])
    BY <1>13 DEF Ensure, Free, Reads, Settled
  <2>4. at'[c] \in {"registered", "readSpec", "writeSpec"} /\ goal'[c] # "drop"
    BY <1>13 DEF Ensure, Goto, ClientOK
  <2> QED BY <2>1, <2>2, <2>3, <2>4 DEF Free, Foreign, Reads, Settled, Resting
<1>14. ASSUME NEW c \in Clients, Strip(c) PROVE Free'
  <2> HIDE DEF RegistryAssumption, SchemaOK, ClientOK, Alone, GoalOK, NameOK, Reads, Works,
      ClientAt, Goal, Resting, Named, Foreign, Writing, PartsOK, Callable, Fresh,
      Agree, Copies, Free, Procedures, Package, Owner, Base, Whole, Past, OwnedByAnother,
      Settled, Goto, schemaVars, diskVars, nameVars, copyVars, history, faults
  <2>1. \A d \in Clients \ {c} : at'[d] = at[d] /\ at[d] \in Resting
    BY <1>14 DEF Alone, Strip, Goto, ClientOK, Resting, Forget, AfterDrop
  <2>2. spec' = spec /\ body' = body /\ name' = name /\ goal' = goal
    BY <1>14 DEF Strip, schemaVars, nameVars
  <2>3. at'[c] \in {"failed", "registered", "writeSpec"}
    BY <1>14 DEF Strip, Goto, ClientOK, Forget, AfterDrop
  <2>4. spec = body /\ copySpec[c] = spec /\ name[c] \in Names
    BY <1>14 DEF Agree, Strip, Writing, Alone, Resting, Fresh, ClientOK, Named
  <2>5. goal[c] # "drop" => ~Foreign(c, spec[name[c]]) /\ ~Foreign(c, body[name[c]])
    BY <1>14 DEF Strip, Free, Reads, Settled, GoalOK
  <2>6. ASSUME goal[c] = "drop"
        PROVE  c \in lost' /\ spec[name[c]] \in lost' \cup {None, Unmarked}
    <3>1. lost' = lost \cup ({spec[name[c]]} \cap Clients)
      BY <1>14, <2>4, <2>6 DEF Strip
    <3>2. c \notin lost => spec[name[c]] = c
      BY <1>14, <2>6 DEF Strip, Procedures, Reads
    <3>3. spec[name[c]] \in Clients \cup {None, Unmarked}
      BY <2>4 DEF SchemaOK, Package, Owner
    <3> QED BY <3>1, <3>2, <3>3
  <2> QED BY <2>1, <2>2, <2>3, <2>4, <2>5, <2>6 DEF Free, Foreign, Reads, Settled, Resting
<1>15. ASSUME NEW c \in Clients, WriteSpec(c) PROVE Free'
  <2> HIDE DEF RegistryAssumption, SchemaOK, ClientOK, Alone, GoalOK, NameOK, Reads, Works,
      ClientAt, Goal, Resting, Named, Foreign, Writing, PartsOK, Callable, Fresh,
      Agree, Copies, Free, Procedures, Package, Owner, Base, Whole, Past, OwnedByAnother,
      Settled, Goto, schemaVars, diskVars, nameVars, copyVars, history, faults
  <2>1. \A d \in Clients \ {c} : at'[d] = at[d] /\ at[d] \in Resting
    BY <1>15 DEF Alone, WriteSpec, Goto, ClientOK, Resting, Forget, AfterDrop
  <2>2. /\ spec' = copySpec[c] /\ body' = body /\ name' = name /\ goal' = goal
        /\ lost' = lost /\ at'[c] = "writeBody"
    BY <1>15 DEF WriteSpec, nameVars, history, faults, Goto, ClientOK
  <2>3. copySpec[c][name[c]] = (IF goal[c] = "ensure" THEN c ELSE None)
    BY <1>15 DEF WriteSpec, Copies
  <2>4. /\ goal[c] # "drop" => ~Foreign(c, body[name[c]])
        /\ goal[c] = "drop" => c \in lost /\ body[name[c]] \in lost \cup {None, Unmarked}
    BY <1>15 DEF WriteSpec, Free, Settled
  <2> QED BY <2>1, <2>2, <2>3, <2>4 DEF Free, Foreign, Reads, Settled, Resting
<1>16. ASSUME NEW c \in Clients, WriteBody(c) PROVE Free'
    BY <1>16 DEF WriteBody, Forget, AfterDrop
<1>17. ASSUME NEW c \in Clients, CallRefused(c) PROVE Free'
    BY <1>17 DEF CallRefused, GiveUp, AfterDrop, Release, Forget
<1>18. ASSUME NEW c \in Clients, CallFails(c) PROVE Free'
    BY <1>18 DEF CallFails, GiveUp, AfterDrop, Release, Forget
<1>19. ASSUME NEW c \in Clients, DropProcedure(c) PROVE Free'
    BY <1>19 DEF DropProcedure
<1>20. ASSUME NEW c \in Clients, NEW b \in BOOLEAN, Quit(c, b) PROVE Free'
    BY <1>20 DEF Quit, Die, Forget
<1>21. ASSUME NEW c \in Clients, Crash(c) PROVE Free'
    BY <1>21 DEF Crash, Die, Forget
<1>22. CASE UNCHANGED vars
    BY <1>22 DEF vars
<1> QED BY <1>1, <1>2, <1>3, <1>4, <1>5, <1>6, <1>7, <1>8, <1>9, <1>10, <1>11, <1>12, <1>13,
    <1>14, <1>15, <1>16, <1>17, <1>18, <1>19, <1>20, <1>21, <1>22 DEF Next, ClientStep

\* A registered client has its procedure.
LEMMA ProceduresStep ==
    ASSUME ~torn, ~torn', SchemaOK, ClientOK, PartsOK, Alone, GoalOK,
           Fresh, NameOK, Agree, Copies, Free, Procedures, [Next]_vars
    PROVE  Procedures'
<1> USE RegistryAssumption DEF RegistryAssumption, SchemaOK, ClientOK, Alone, GoalOK, NameOK,
    Reads, Works, ClientAt, Goal, Resting, Named, Foreign, Writing, Fresh, Agree,
    Copies, Free, Procedures, Package, Owner, Base, Goto, schemaVars, diskVars, nameVars,
    copyVars, history, faults
<1>1. ASSUME NEW c \in Clients, Start(c) PROVE Procedures'
    BY <1>1 DEF Start
<1>2. ASSUME NEW c \in Clients, CheckPackage(c) PROVE Procedures'
    BY <1>2 DEF CheckPackage, BeginNaming
<1>3. ASSUME NEW c \in Clients, DeployBaseSpec(c) PROVE Procedures'
    BY <1>3 DEF DeployBaseSpec
<1>4. ASSUME NEW c \in Clients, NEW b \in BOOLEAN, DeployBaseBody(c, b) PROVE Procedures'
    BY <1>4 DEF DeployBaseBody, BeginNaming
<1>5. ASSUME NEW c \in Clients, Initialize(c) PROVE Procedures'
  <2> HIDE DEF RegistryAssumption, SchemaOK, ClientOK, Alone, GoalOK, NameOK, Reads, Works,
      ClientAt, Goal, Resting, Named, Foreign, Writing, Fresh, Agree, Copies, Free,
      Procedures, Package, Owner, Base, Goto, schemaVars, diskVars, nameVars, copyVars,
      history, faults
  <2>1. \A d \in Clients \ {c} : at'[d] = at[d] /\ at[d] \in Resting
    BY <1>5 DEF Alone, Initialize, Goto, ClientOK, Resting, Forget, AfterDrop,
        BeginNaming
  <2>2. at'[c] \in {"draw", "readSpec"} /\ (at'[c] = "readSpec" => goal'[c] = "owned")
    BY <1>5 DEF Initialize, BeginNaming, Goto, ClientOK
  <2>3. spec' = spec /\ body' = body /\ lost' = lost /\ \A d \in Clients \ {c} : name'[d] = name[d]
    BY <1>5 DEF Initialize, BeginNaming, history, faults, ClientOK
  <2> QED BY <2>1, <2>2, <2>3 DEF Procedures, Reads, Resting
<1>6. ASSUME NEW c \in Clients, NEW n \in Names, Draw(c, n) PROVE Procedures'
    BY <1>6 DEF Draw
<1>7. ASSUME NEW c \in Clients, NoNameLeft(c) PROVE Procedures'
    BY <1>7 DEF NoNameLeft
<1>8. ASSUME NEW c \in Clients, NEW b \in BOOLEAN, Probe(c, b) PROVE Procedures'
    BY <1>8 DEF Probe, Release
<1>9. ASSUME NEW c \in Clients, Save(c) PROVE Procedures'
    BY <1>9 DEF Save
<1>10. ASSUME NEW c \in Clients, Register(c) PROVE Procedures'
    BY <1>10 DEF Register
<1>11. ASSUME NEW c \in Clients, ReadSpec(c) PROVE Procedures'
    BY <1>11 DEF ReadSpec
<1>12. ASSUME NEW c \in Clients, CheckOwner(c) PROVE Procedures'
    BY <1>12 DEF CheckOwner, Release, Forget
<1>13. ASSUME NEW c \in Clients, Ensure(c) PROVE Procedures'
    BY <1>13 DEF Ensure, Forget
<1>14. ASSUME NEW c \in Clients, Strip(c) PROVE Procedures'
  <2> HIDE DEF RegistryAssumption, SchemaOK, ClientOK, Alone, GoalOK, NameOK, Reads, Works,
      ClientAt, Goal, Resting, Named, Foreign, Writing, Fresh, Agree, Copies, Free,
      Procedures, Package, Owner, Base, Goto, schemaVars, diskVars, nameVars, copyVars,
      history, faults
  <2>1. \A d \in Clients \ {c} : at'[d] = at[d] /\ at[d] \in Resting
    BY <1>14 DEF Alone, Strip, Goto, ClientOK, Resting, Forget, AfterDrop
  <2>2. spec' = spec /\ body' = body /\ name' = name /\ goal' = goal /\ lost \subseteq lost'
    BY <1>14 DEF Strip, schemaVars, nameVars
  <2>3. at'[c] # "registered" \/ (goal[c] = "drop" /\ body[name[c]] = None)
    BY <1>14 DEF Strip, Goto, ClientOK, Forget, AfterDrop, GoalOK
  <2>4. at'[c] \in {"failed", "registered", "writeSpec"}
    BY <1>14 DEF Strip, Goto, ClientOK, Forget, AfterDrop
  <2>5. goal[c] = "drop" /\ c \notin lost => body[name[c]] = c
    BY <1>14 DEF Strip, Procedures, Reads
  <2> QED BY <2>1, <2>2, <2>3, <2>4, <2>5, RegistryAssumption DEF Procedures, Reads, Resting,
      RegistryAssumption
<1>15. ASSUME NEW c \in Clients, WriteSpec(c) PROVE Procedures'
  <2> HIDE DEF RegistryAssumption, SchemaOK, ClientOK, Alone, GoalOK, NameOK, Reads, Works,
      ClientAt, Goal, Resting, Named, Foreign, Writing, Fresh, Agree, Copies, Free,
      Procedures, Package, Owner, Base, Goto, schemaVars, diskVars, nameVars, copyVars,
      history, faults
  <2>1. \A d \in Clients \ {c} : at'[d] = at[d] /\ at[d] \in Resting
    BY <1>15 DEF Alone, WriteSpec, Goto, ClientOK, Resting, Forget, AfterDrop
  <2>2. spec' = copySpec[c] /\ body' = body /\ name' = name /\ lost' = lost /\ at'[c] = "writeBody"
    BY <1>15 DEF WriteSpec, nameVars, history, faults, Goto, ClientOK
  <2>3. ASSUME NEW d \in Clients \ {c}, at[d] = "registered", d \notin lost
        PROVE  spec'[name[d]] = d /\ (body[name[d]] = d)
    <3>1. spec[name[d]] = d /\ (body[name[d]] = d) /\ name[d] \in Names
      BY <2>3 DEF Procedures, ClientOK, Named
    <3>2. name[d] # name[c]
      <4>1. goal[c] # "drop" => ~Foreign(c, spec[name[c]])
        BY <1>15 DEF WriteSpec, Free, Settled
      <4>2. goal[c] = "drop" => spec[name[c]] \in lost \cup {None, Unmarked}
        BY <1>15 DEF WriteSpec, Free, Settled
      <4> QED BY <2>3, <3>1, <4>1, <4>2, RegistryAssumption DEF Foreign, RegistryAssumption
    <3>3. copySpec[c][name[d]] = spec[name[d]]
      BY <1>15, <3>1, <3>2 DEF WriteSpec, Copies
    <3> QED BY <2>2, <3>1, <3>3
  <2> QED BY <2>1, <2>2, <2>3 DEF Procedures, Reads, Resting
<1>16. ASSUME NEW c \in Clients, WriteBody(c) PROVE Procedures'
  <2> HIDE DEF RegistryAssumption, SchemaOK, ClientOK, Alone, GoalOK, NameOK, Reads, Works,
      ClientAt, Goal, Resting, Named, Foreign, Writing, Fresh, Agree, Copies, Free,
      Procedures, Package, Owner, Base, Goto, schemaVars, diskVars, nameVars, copyVars,
      history, faults
  <2>1. \A d \in Clients \ {c} : at'[d] = at[d] /\ at[d] \in Resting
    BY <1>16 DEF Alone, WriteBody, Goto, ClientOK, Resting, Forget, AfterDrop
  <2>2. /\ spec' = spec /\ body' = copyBody[c] /\ name' = name /\ lost' = lost
        /\ at'[c] \in {"registered", "failed"}
    BY <1>16 DEF WriteBody, nameVars, history, faults, Goto, ClientOK, AfterDrop
  <2>3. ASSUME NEW d \in Clients \ {c}, at[d] = "registered", d \notin lost
        PROVE  spec[name[d]] = d /\ (copyBody[c][name[d]] = d)
    <3>1. spec[name[d]] = d /\ (body[name[d]] = d) /\ name[d] \in Names
      BY <2>3 DEF Procedures, ClientOK, Named
    <3>2. name[d] # name[c]
      <4>1. goal[c] # "drop" => ~Foreign(c, body[name[c]])
        BY <1>16 DEF WriteBody, Free, Settled
      <4>2. goal[c] = "drop" => body[name[c]] \in lost \cup {None, Unmarked}
        BY <1>16 DEF WriteBody, Free, Settled
      <4> QED BY <2>3, <3>1, <4>1, <4>2, RegistryAssumption DEF Foreign, RegistryAssumption
    <3>3. copyBody[c] = copySpec[c] /\ copySpec[c][name[d]] = spec[name[d]]
      BY <1>16, <3>1, <3>2 DEF WriteBody, Copies
    <3> QED BY <3>1, <3>3
  <2>4. ASSUME at'[c] = "registered", c \notin lost
        PROVE  spec[name[c]] = c /\ (copyBody[c][name[c]] = c)
    <3>1. goal[c] \in {"ensure", "drop"}
      BY <1>16, <2>4 DEF WriteBody, Goto, ClientOK, AfterDrop, GoalOK
    <3>2. goal[c] = "drop" => c \in lost
      BY <1>16 DEF WriteBody, Free, Settled
    <3>3. /\ copyBody[c] = copySpec[c] /\ spec = copySpec[c]
          /\ copySpec[c][name[c]] = (IF goal[c] = "ensure" THEN c ELSE None)
      BY <1>16 DEF WriteBody, Copies
    <3> QED BY <2>4, <3>1, <3>2, <3>3
  <2> QED BY <2>1, <2>2, <2>3, <2>4 DEF Procedures, Reads, Resting
<1>17. ASSUME NEW c \in Clients, CallRefused(c) PROVE Procedures'
    BY <1>17 DEF CallRefused, GiveUp, AfterDrop, Release, Forget
<1>18. ASSUME NEW c \in Clients, CallFails(c) PROVE Procedures'
  <2> HIDE DEF RegistryAssumption, SchemaOK, ClientOK, Alone, GoalOK, NameOK, Reads, Works,
      ClientAt, Goal, Resting, Named, Foreign, Writing, Fresh, Agree, Copies, Free,
      Procedures, Package, Owner, Base, Goto, schemaVars, diskVars, nameVars, copyVars,
      history, faults
  <2>1. \A d \in Clients \ {c} : at'[d] = at[d] /\ at[d] \in Resting
    BY <1>18 DEF Alone, CallFails, Goto, ClientOK, Resting, Forget, AfterDrop, GiveUp
  <2>2. spec' = spec /\ body' = body /\ name' = name /\ lost' = lost
    BY <1>18 DEF CallFails, GiveUp, schemaVars
  <2>3. /\ at'[c] \in {"registered", "failed", "readSpec"}
        /\ at'[c] = "readSpec" => goal'[c] = "undo"
    BY <1>18 DEF CallFails, GiveUp, Goto, ClientOK, AfterDrop
  <2>4. at'[c] = "registered" =>
            Reads(c, {"drop"}) \/ (at[c] \in {"writeSpec", "writeBody"} /\ goal[c] = "drop")
    BY <1>18 DEF CallFails, GiveUp, Goto, ClientOK, AfterDrop, Reads, Resting
  <2>5. at[c] \in {"writeSpec", "writeBody"} /\ goal[c] = "drop" => c \in lost
    BY DEF Free
  <2> QED BY <2>1, <2>2, <2>3, <2>4, <2>5 DEF Procedures, Reads, Resting
<1>19. ASSUME NEW c \in Clients, DropProcedure(c) PROVE Procedures'
    BY <1>19 DEF DropProcedure
<1>20. ASSUME NEW c \in Clients, NEW b \in BOOLEAN, Quit(c, b) PROVE Procedures'
    BY <1>20 DEF Quit, Die, Forget
<1>21. ASSUME NEW c \in Clients, Crash(c) PROVE Procedures'
    BY <1>21 DEF Crash, Die, Forget
<1>22. CASE UNCHANGED vars
    BY <1>22 DEF vars
<1> QED BY <1>1, <1>2, <1>3, <1>4, <1>5, <1>6, <1>7, <1>8, <1>9, <1>10, <1>11, <1>12, <1>13,
    <1>14, <1>15, <1>16, <1>17, <1>18, <1>19, <1>20, <1>21, <1>22 DEF Next, ClientStep

\* No consumer is forgotten.
LEMMA KnownStep ==
    ASSUME ~torn, ~torn', SchemaOK, ClientOK, PartsOK, Alone, GoalOK,
           Fresh, NameOK, Agree, Owned, Known, [Next]_vars
    PROVE  Known'
<1> USE RegistryAssumption DEF RegistryAssumption, SchemaOK, ClientOK, Alone, GoalOK, NameOK,
    Reads, Works, ClientAt, Goal, Resting, Named, Foreign, Writing, Agree, Owned,
    Known, Package, Owner, Goto, schemaVars, diskVars, nameVars, copyVars, history, faults
<1>1. ASSUME NEW c \in Clients, Start(c) PROVE Known'
    BY <1>1 DEF Start
<1>2. ASSUME NEW c \in Clients, CheckPackage(c) PROVE Known'
    BY <1>2 DEF CheckPackage, BeginNaming
<1>3. ASSUME NEW c \in Clients, DeployBaseSpec(c) PROVE Known'
    BY <1>3 DEF DeployBaseSpec
<1>4. ASSUME NEW c \in Clients, NEW b \in BOOLEAN, DeployBaseBody(c, b) PROVE Known'
    BY <1>4 DEF DeployBaseBody, BeginNaming
<1>5. ASSUME NEW c \in Clients, Initialize(c) PROVE Known'
    BY <1>5 DEF Initialize, BeginNaming
<1>6. ASSUME NEW c \in Clients, NEW n \in Names, Draw(c, n) PROVE Known'
    BY <1>6 DEF Draw
<1>7. ASSUME NEW c \in Clients, NoNameLeft(c) PROVE Known'
    BY <1>7 DEF NoNameLeft
<1>8. ASSUME NEW c \in Clients, NEW b \in BOOLEAN, Probe(c, b) PROVE Known'
    BY <1>8 DEF Probe, Release
<1>9. ASSUME NEW c \in Clients, Save(c) PROVE Known'
  <2> USE <1>9 DEF Save
  <2>1. goal[c] = "reserve" => stored[c] = None
    OBVIOUS
  <2>2. goal[c] = "owned" => stored[c] = name[c]
    OBVIOUS
  <2>3. goal[c] = "redraw" => \E d \in Clients \ {c} : stored[d] = stored[c]
    BY SMTT(60) DEF Owned
  <2> QED BY <2>1, <2>2, <2>3
<1>10. ASSUME NEW c \in Clients, Register(c) PROVE Known'
    BY <1>10 DEF Register
<1>11. ASSUME NEW c \in Clients, ReadSpec(c) PROVE Known'
    BY <1>11 DEF ReadSpec
<1>12. ASSUME NEW c \in Clients, CheckOwner(c) PROVE Known'
    BY <1>12 DEF CheckOwner, Release, Forget
<1>13. ASSUME NEW c \in Clients, Ensure(c) PROVE Known'
    BY <1>13 DEF Ensure, Forget
<1>14. ASSUME NEW c \in Clients, Strip(c) PROVE Known'
    BY <1>14 DEF Strip, Forget, AfterDrop
<1>15. ASSUME NEW c \in Clients, WriteSpec(c) PROVE Known'
    BY <1>15 DEF WriteSpec
<1>16. ASSUME NEW c \in Clients, WriteBody(c) PROVE Known'
    BY <1>16 DEF WriteBody, Forget, AfterDrop
<1>17. ASSUME NEW c \in Clients, CallRefused(c) PROVE Known'
    BY <1>17 DEF CallRefused, GiveUp, AfterDrop, Release, Forget
<1>18. ASSUME NEW c \in Clients, CallFails(c) PROVE Known'
    BY <1>18 DEF CallFails, GiveUp, AfterDrop, Release, Forget
<1>19. ASSUME NEW c \in Clients, DropProcedure(c) PROVE Known'
    BY <1>19 DEF DropProcedure
<1>20. ASSUME NEW c \in Clients, NEW b \in BOOLEAN, Quit(c, b) PROVE Known'
    BY <1>20 DEF Quit, Die, Forget
<1>21. ASSUME NEW c \in Clients, Crash(c) PROVE Known'
    BY <1>21 DEF Crash, Die, Forget
<1>22. CASE UNCHANGED vars
    BY <1>22 DEF vars
<1> QED BY <1>1, <1>2, <1>3, <1>4, <1>5, <1>6, <1>7, <1>8, <1>9, <1>10, <1>11, <1>12, <1>13,
    <1>14, <1>15, <1>16, <1>17, <1>18, <1>19, <1>20, <1>21, <1>22 DEF Next, ClientStep

-----------------------------------------------------------------------------
(* Registrations that overlap *)

\* A client that nobody has overtaken is going to write, of the procedures of others,
\* what is there.
LEMMA CurrentStep ==
    ASSUME SchemaOK, ClientOK, GoalOK, Current, [Next]_vars
    PROVE  Current'
<1> USE RegistryAssumption DEF RegistryAssumption, SchemaOK, ClientOK, GoalOK, Current, Holding,
    Overtake, ClientAt, Goal, Named, Foreign, Package, Owner, Goto, schemaVars, diskVars, nameVars,
    copyVars, history, faults
<1>1. ASSUME NEW c \in Clients, Start(c) PROVE Current'
    BY <1>1 DEF Start
<1>2. ASSUME NEW c \in Clients, CheckPackage(c) PROVE Current'
    BY <1>2 DEF CheckPackage, BeginNaming
<1>3. ASSUME NEW c \in Clients, DeployBaseSpec(c) PROVE Current'
    BY <1>3 DEF DeployBaseSpec
<1>4. ASSUME NEW c \in Clients, NEW b \in BOOLEAN, DeployBaseBody(c, b) PROVE Current'
    BY <1>4 DEF DeployBaseBody, BeginNaming
<1>5. ASSUME NEW c \in Clients, Initialize(c) PROVE Current'
    BY <1>5 DEF Initialize, BeginNaming
<1>6. ASSUME NEW c \in Clients, NEW n \in Names, Draw(c, n) PROVE Current'
    BY <1>6 DEF Draw
<1>7. ASSUME NEW c \in Clients, NoNameLeft(c) PROVE Current'
    BY <1>7 DEF NoNameLeft
<1>8. ASSUME NEW c \in Clients, NEW b \in BOOLEAN, Probe(c, b) PROVE Current'
  <2> HIDE DEF RegistryAssumption, SchemaOK, ClientOK, GoalOK, Current, Holding, Overtake,
      ClientAt, Goal, Named, Foreign, Package, Owner, Goto, schemaVars, diskVars, nameVars,
      copyVars, history, faults
  <2>1. UNCHANGED <<spec, body, goal, copySpec, copyBody, stale>>
    BY <1>8 DEF Probe, schemaVars, copyVars
  <2>2. at'[c] \in {"draw", "save"} /\ \A d \in Clients \ {c} : at'[d] = at[d]
    BY <1>8 DEF Probe, Goto, ClientOK
  <2> QED BY <2>1, <2>2 DEF Current
<1>9. ASSUME NEW c \in Clients, Save(c) PROVE Current'
    BY <1>9 DEF Save
<1>10. ASSUME NEW c \in Clients, Register(c) PROVE Current'
    BY <1>10 DEF Register
<1>11. ASSUME NEW c \in Clients, ReadSpec(c) PROVE Current'
    BY <1>11 DEF ReadSpec
<1>12. ASSUME NEW c \in Clients, CheckOwner(c) PROVE Current'
    BY <1>12 DEF CheckOwner, Release, Forget
<1>13. ASSUME NEW c \in Clients, Ensure(c) PROVE Current'
    BY <1>13 DEF Ensure, Forget
<1>14. ASSUME NEW c \in Clients, Strip(c) PROVE Current'
  <2> HIDE DEF RegistryAssumption, SchemaOK, ClientOK, GoalOK, Current, Holding, Overtake,
      ClientAt, Goal, Named, Foreign, Package, Owner, Goto, schemaVars, diskVars, nameVars,
      copyVars, history, faults
  <2>1. UNCHANGED <<spec, body, goal>> /\ goal[c] # "ensure" /\ at'[c] # "readBody"
    BY <1>14 DEF Strip, Goto, ClientOK, AfterDrop, schemaVars
  <2>2. \A d \in Clients \ {c} :
            /\ at'[d] = at[d] /\ copySpec'[d] = copySpec[d] /\ copyBody'[d] = copyBody[d]
            /\ d \in stale' <=> d \in stale
    BY <1>14 DEF Strip, Goto, ClientOK, SchemaOK, Forget
  <2> QED BY <2>1, <2>2 DEF Current
<1>15. ASSUME NEW c \in Clients, WriteSpec(c) PROVE Current'
    BY <1>15 DEF WriteSpec
<1>16. ASSUME NEW c \in Clients, WriteBody(c) PROVE Current'
    BY <1>16 DEF WriteBody, Forget, AfterDrop
<1>17. ASSUME NEW c \in Clients, CallRefused(c) PROVE Current'
    BY <1>17 DEF CallRefused, GiveUp, AfterDrop, Release, Forget
<1>18. ASSUME NEW c \in Clients, CallFails(c) PROVE Current'
    BY <1>18 DEF CallFails, GiveUp, AfterDrop, Release, Forget
<1>19. ASSUME NEW c \in Clients, DropProcedure(c) PROVE Current'
    BY <1>19 DEF DropProcedure
<1>20. ASSUME NEW c \in Clients, NEW b \in BOOLEAN, Quit(c, b) PROVE Current'
    BY <1>20 DEF Quit, Die, Forget
<1>21. ASSUME NEW c \in Clients, Crash(c) PROVE Current'
    BY <1>21 DEF Crash, Die, Forget
<1>22. CASE UNCHANGED vars
    BY <1>22 DEF vars
<1> QED BY <1>1, <1>2, <1>3, <1>4, <1>5, <1>6, <1>7, <1>8, <1>9, <1>10, <1>11, <1>12, <1>13,
    <1>14, <1>15, <1>16, <1>17, <1>18, <1>19, <1>20, <1>21, <1>22 DEF Next, ClientStep

-----------------------------------------------------------------------------
(* The theorems *)

Inv ==
    /\ TypeInv /\ GoalOK /\ Current
    /\ overlaps = 0 => Alone /\ Fresh /\ NameOK /\ Schema

LEMMA InvInit == Init => Inv
<1> SUFFICES ASSUME Init PROVE Inv
    OBVIOUS
<1>1. \A c \in Clients : at[c] = "off"
    BY DEF Init
<1>2. Alone /\ GoalOK /\ Fresh /\ NameOK
    BY <1>1 DEF Alone, GoalOK, Fresh, NameOK, Reads, Works, Resting
<1>3. Agree /\ Copies /\ Free /\ Procedures /\ Known
    <2>1. spec = body /\ compiled /\ consumers = {}
        BY DEF Init
    <2> QED BY <1>1, <2>1 DEF Agree, Copies, Free, Procedures, Known, Settled, Reads
<1>4. Owned
    BY RegistryAssumption DEF Init, Owned, Base, RegistryAssumption
<1>5. Current
    BY <1>1 DEF Current
<1> QED BY TypeInit, <1>2, <1>3, <1>4, <1>5 DEF Inv, Schema

\* A deployment that was torn stays so.
LEMMA TornStays == ASSUME FlagOK, [Next]_vars, torn PROVE torn'
BY ZenonT(60) DEF FlagOK, Next, ClientStep, Start, CheckPackage, DeployBaseSpec, DeployBaseBody,
    Initialize, Draw, NoNameLeft, Probe, Save, Register, ReadSpec, CheckOwner, Ensure, Strip,
    WriteSpec, WriteBody, CallRefused, CallFails, DropProcedure, Quit, Crash, vars, history, faults

\* Nor is it forgotten that clients were at work in the package together.
LEMMA OverlapsStay ==
    ASSUME TypeInv, [Next]_vars, overlaps' = 0
    PROVE  overlaps = 0
<1> USE DEF TypeInv, CountOK
<1>1. ASSUME NEW c \in Clients, Begin(c) PROVE overlaps = 0
    BY <1>1 DEF Begin
<1>2. \/ \E c \in Clients : Begin(c)
      \/ overlaps' = overlaps
    BY ZenonT(60) DEF Next, ClientStep, Start, CheckPackage, DeployBaseSpec,
       DeployBaseBody, Initialize, Draw, NoNameLeft, Probe, Save, Register, ReadSpec,
       CheckOwner, Ensure, Strip, WriteSpec, WriteBody, CallRefused, CallFails,
       DropProcedure, Quit, Crash, vars, history
<1> QED BY <1>1, <1>2

LEMMA InvStep ==
    ASSUME Inv, [Next]_vars
    PROVE  Inv'
<1>1. TypeInv' /\ GoalOK' /\ Current'
    BY SchemaStep, ClientStays, PartsStep, CountStep, FlagStep, GoalStep, CurrentStep
       DEF Inv, TypeInv
<1>2. ASSUME overlaps' = 0
      PROVE  (Alone /\ Fresh /\ NameOK /\ Schema)'
    <2>1. overlaps = 0
        BY <1>2, OverlapsStay DEF Inv
    <2>2. overlaps \in Nat
        BY <2>1
    <2>3. TypeInv /\ Alone /\ GoalOK /\ Fresh /\ NameOK /\ Schema
        BY <2>1 DEF Inv
    <2>4. Alone' /\ Fresh' /\ NameOK'
        BY <1>2, <2>2, <2>3, AloneStep, FreshStep, NameStep DEF TypeInv
    <2>5. ASSUME ~torn'
          PROVE  (Agree /\ Owned /\ Copies /\ Free /\ Procedures /\ Known)'
        <3>1. ~torn
            BY <2>3, <2>5, TornStays DEF TypeInv
        <3>2. Agree /\ Owned /\ Copies /\ Free /\ Procedures /\ Known
            BY <2>3, <3>1 DEF Schema
        <3> USE <2>3, <2>4, <2>5, <3>1, <3>2 DEF TypeInv
        <3>3. Agree'
            BY AgreeStep
        <3>4. Owned'
            BY OwnedStep
        <3>5. Copies'
            BY CopiesStep
        <3>6. Free'
            BY FreeStep
        <3>7. Procedures'
            BY ProceduresStep
        <3>8. Known'
            BY KnownStep
        <3> QED BY <3>3, <3>4, <3>5, <3>6, <3>7, <3>8
    <2> QED BY <2>4, <2>5 DEF Schema
<1> QED BY <1>1, <1>2 DEF Inv

LEMMA Invariance == Spec => []Inv
<1>1. Inv /\ [Next]_vars => Inv'
    BY InvStep
<1> QED BY InvInit, <1>1, PTL DEF Spec

\* While clients are at work one at a time, no consumer is left in AQ that no client
\* would unregister, whatever fails and whoever dies between two deployments, with
\* any number of clients, faults and, later, overlaps.
THEOREM ConsumersAreKnown == Spec => []NoOrphanConsumer
<1>1. Inv => NoOrphanConsumer
    BY DEF Inv, Schema, Known, NoOrphanConsumer
<1> QED BY Invariance, <1>1, PTL

\* A client that is registered has its own procedure in both parts of the package,
\* unless it is known to be lost or clients have been at work there together.
THEOREM OwnProcedure == Spec => []RegisteredOwnsProcedure
<1>1. Inv => RegisteredOwnsProcedure
    BY DEF Inv, Schema, Procedures, RegisteredOwnsProcedure
<1> QED BY Invariance, <1>1, PTL

LEMMA OnlySaveStores ==
    ASSUME [Next]_vars, stored' # stored
    PROVE  \E c \in Clients : Save(c)
<1> USE DEF diskVars
<1>1. ASSUME NEW c \in Clients,
             \/ Start(c) \/ CheckPackage(c) \/ DeployBaseSpec(c) \/ Initialize(c)
             \/ \E b \in BOOLEAN : DeployBaseBody(c, b)
      PROVE  stored' = stored
    BY <1>1 DEF Start, CheckPackage, DeployBaseSpec, Initialize, DeployBaseBody
<1>2. ASSUME NEW c \in Clients,
             \/ \E n \in Names : Draw(c, n)
             \/ NoNameLeft(c) \/ Register(c) \/ ReadSpec(c)
             \/ \E b \in BOOLEAN : Probe(c, b)
      PROVE  stored' = stored
    BY <1>2 DEF Draw, NoNameLeft, Register, ReadSpec, Probe
<1>3. ASSUME NEW c \in Clients,
             CheckOwner(c) \/ Ensure(c) \/ Strip(c) \/ WriteSpec(c) \/ WriteBody(c)
      PROVE  stored' = stored
    BY <1>3 DEF CheckOwner, Ensure, Strip, WriteSpec, WriteBody
<1>4. ASSUME NEW c \in Clients,
             \/ CallRefused(c) \/ CallFails(c) \/ DropProcedure(c) \/ Crash(c)
             \/ \E b \in BOOLEAN : Quit(c, b)
      PROVE  stored' = stored
    BY <1>4 DEF CallRefused, CallFails, GiveUp, DropProcedure, Crash, Quit
<1> QED BY <1>1, <1>2, <1>3, <1>4 DEF Next, ClientStep, vars

\* A restart, an error or a conflict never costs a client its stored name unless the
\* procedure of that name is another's.
THEOREM NameIsKept == Spec => KeepsItsName
<1>1. ASSUME Inv, [Next]_vars, NEW c \in Clients, overlaps = 0,
             stored[c] # None, stored'[c] # stored[c]
      PROVE  Foreign(c, spec[stored[c]]) \/ Foreign(c, body[stored[c]])
    <2>1. PICK d \in Clients : Save(d)
        BY <1>1, OnlySaveStores
    <2>2. d = c
        BY <1>1, <2>1 DEF Save, Inv, TypeInv, SchemaOK
    <2>3. goal[c] = "redraw"
        BY <1>1, <2>1, <2>2 DEF Save, Inv, TypeInv, SchemaOK, GoalOK, NameOK
    <2> QED BY <2>1, <2>2, <2>3 , <1>1 DEF Save, Inv, NameOK
<1>2. Inv /\ [Next]_vars =>
          [\A c \in Clients :
              LET old == stored[c] IN
              old # None /\ stored'[c] # old /\ overlaps = 0 =>
                  Foreign(c, spec[old]) \/ Foreign(c, body[old])]_vars
    BY <1>1
<1> QED BY Invariance, <1>2, PTL DEF Spec, KeepsItsName

\* A client that writes the package it has read takes no procedure of another from
\* it, however many clients are at work there: only a stale copy does.
THEOREM OthersUntouched == Spec => WritesOnlyOwn
<1> DEFINE Kept(c, n) == /\ spec'[n] # spec[n] => ~Foreign(c, spec[n])
                         /\ body'[n] # body[n] => ~Foreign(c, body[n])
           Single(c) == goal[c] = "undo" /\ overlaps = 0 /\ ~torn
<1>1. ASSUME Inv, NEW c \in Clients, NEW n \in Names, Single(c), WriteSpec(c)
      PROVE  Kept(c, n)
    BY <1>1 DEF Inv, Schema, Copies, Free, Settled, WriteSpec
<1>2. ASSUME Inv, NEW c \in Clients, NEW n \in Names, Single(c), WriteBody(c)
      PROVE  Kept(c, n)
    BY <1>2 DEF Inv, Schema, Copies, Free, Settled, WriteBody
<1>3. ASSUME Inv, NEW c \in Clients, NEW n \in Names, goal[c] = "ensure", c \notin stale,
             WriteSpec(c) \/ WriteBody(c)
      PROVE  Kept(c, n)
    BY <1>3 DEF Inv, Current, WriteSpec, WriteBody
<1>4. Inv /\ [Next]_vars =>
          [\A c \in Clients, n \in Names :
              /\ WriteSpec(c) \/ WriteBody(c)
              /\ \/ goal[c] = "ensure" /\ c \notin stale
                 \/ goal[c] = "undo" /\ overlaps = 0 /\ ~torn
              =>
                  /\ spec'[n] # spec[n] => ~Foreign(c, spec[n])
                  /\ body'[n] # body[n] => ~Foreign(c, body[n])]_vars
    BY <1>1, <1>2, <1>3
<1> QED BY Invariance, <1>4, PTL DEF Spec, WritesOnlyOwn

-----------------------------------------------------------------------------
(* The rollback *)

\* What a client is about to write defines what it declares.
InHand ==
    \A c \in Clients :
        /\ at[c] = "baseBody" => spec = Base
        /\ at[c] \in {"writeSpec", "writeBody"} =>
               \A n \in Names : copySpec[c][n] # None => copyBody[c][n] # None
        /\ at[c] = "writeSpec" =>
               /\ \A n \in Names \ {name[c]} : copySpec[c][n] = spec[n]
               /\ goal[c] # "ensure" => copySpec[c][name[c]] = None
        /\ at[c] = "writeBody" => spec = copySpec[c]

\* A procedure that is declared and not defined is about to be defined, or it was left
\* by a write that failed, and the client that failed is about to remove it.
Pending(c) ==
    \/ at[c] = "writeBody" /\ goal[c] = "ensure"
    \/ failures >= 1 /\ goal[c] = "undo" /\ at[c] \in {"readSpec", "readBody", "writeSpec"}

Mended ==
    \A n \in Names : spec[n] # None /\ body[n] = None =>
        \E c \in Clients : name[c] = n /\ Pending(c)

\* Every step of a client keeps what it has in hand consistent.
LEMMA InHandStep ==
    ASSUME SchemaOK, ClientOK, CountOK, Alone, GoalOK, Fresh, InHand, Mended,
           failures' <= 1, crashes' = 0, [Next]_vars
    PROVE  InHand'
<1> USE RegistryAssumption DEF RegistryAssumption, SchemaOK, ClientOK, Alone, GoalOK, Fresh,
    ClientAt, Goal, Resting, Named, InHand, Mended, Pending, Goto, schemaVars, diskVars,
    nameVars, copyVars, history, faults
<1>1. ASSUME NEW c \in Clients, Start(c) PROVE InHand'
    BY <1>1 DEF Start
<1>2. ASSUME NEW c \in Clients, CheckPackage(c) PROVE InHand'
    BY <1>2 DEF CheckPackage, BeginNaming
<1>3. ASSUME NEW c \in Clients, DeployBaseSpec(c) PROVE InHand'
    BY <1>3 DEF DeployBaseSpec
<1>4. ASSUME NEW c \in Clients, NEW b \in BOOLEAN, DeployBaseBody(c, b) PROVE InHand'
    BY <1>4 DEF DeployBaseBody, BeginNaming
<1>5. ASSUME NEW c \in Clients, Initialize(c) PROVE InHand'
    BY <1>5 DEF Initialize, BeginNaming
<1>6. ASSUME NEW c \in Clients, NEW n \in Names, Draw(c, n) PROVE InHand'
    BY <1>6 DEF Draw
<1>7. ASSUME NEW c \in Clients, NoNameLeft(c) PROVE InHand'
    BY <1>7 DEF NoNameLeft
<1>8. ASSUME NEW c \in Clients, NEW b \in BOOLEAN, Probe(c, b) PROVE InHand'
    BY <1>8 DEF Probe, Release
<1>9. ASSUME NEW c \in Clients, Save(c) PROVE InHand'
    BY <1>9 DEF Save
<1>10. ASSUME NEW c \in Clients, Register(c) PROVE InHand'
    BY <1>10 DEF Register
<1>11. ASSUME NEW c \in Clients, ReadSpec(c) PROVE InHand'
    BY <1>11 DEF ReadSpec
<1>12. ASSUME NEW c \in Clients, CheckOwner(c) PROVE InHand'
    BY <1>12 DEF CheckOwner, Release, Forget
<1>13. ASSUME NEW c \in Clients, Ensure(c) PROVE InHand'
  <2> HIDE DEF RegistryAssumption, SchemaOK, ClientOK, Alone, GoalOK, Fresh,
      ClientAt, Goal, Resting, Named, InHand, Mended, Pending, Goto,
      schemaVars, diskVars, nameVars, copyVars, history, faults
  <2>1. /\ at[c] = "readBody" /\ copySpec[c] = spec /\ name[c] \in Names
        /\ spec \in Package /\ body \in Package
    BY <1>13 DEF Ensure, SchemaOK, ClientOK, Fresh, Named
  <2>2. spec' = spec /\ body' = body /\ name' = name
    BY <1>13, Zenon DEF Ensure, schemaVars, nameVars
  <2>3. \A d \in Clients \ {c} : at'[d] = at[d] /\ at[d] \in Resting
    BY <1>13, <2>1 DEF Ensure, Goto, ClientOK, Alone, Resting
  <2>4. \A n \in Names \ {name[c]} : spec[n] # None => body[n] # None
    <3>1. ASSUME NEW d \in Clients, Pending(d) PROVE d = c
      BY <2>3, <3>1 DEF Pending, Resting
    <3> QED BY <3>1, Zenon DEF Mended
  <2>5. at'[c] \in {"registered", "readSpec", "writeSpec"}
    BY <1>13 DEF Ensure, Goto, ClientOK
  <2>6. ASSUME at'[c] = "writeSpec"
        PROVE  /\ \A n \in Names : copySpec'[c][n] # None => copyBody'[c][n] # None
               /\ \A n \in Names \ {name[c]} : copySpec'[c][n] = spec[n]
               /\ goal'[c] = "ensure"
    <3>1. PICK v, w : /\ copySpec' = [copySpec EXCEPT ![c][name[c]] = v]
                      /\ copyBody' = [copyBody EXCEPT ![c] = [body EXCEPT ![name[c]] = w]]
                      /\ w # None
      BY <1>13, <2>6, Owners, RegistryAssumption
      DEF RegistryAssumption, Ensure, Goto, ClientOK, None, Unmarked
    <3>2. copySpec'[c] = [spec EXCEPT ![name[c]] = v]
          /\ copyBody'[c] = [body EXCEPT ![name[c]] = w]
      BY <2>1, <3>1 DEF SchemaOK
    <3>3. goal'[c] = "ensure"
      BY <1>13, <2>6 DEF Ensure, Goto, ClientOK
    <3>4. ASSUME NEW n \in Names
          PROVE  /\ copySpec'[c][n] = IF n = name[c] THEN v ELSE spec[n]
                 /\ copyBody'[c][n] = IF n = name[c] THEN w ELSE body[n]
      BY <2>1, <3>2 DEF Package
    <3> QED BY <2>4, <3>1, <3>3, <3>4, Zenon
  <2>7. ASSUME NEW d \in Clients \ {c}
        PROVE  at'[d] # "baseBody" /\ at'[d] # "writeSpec" /\ at'[d] # "writeBody"
    BY <2>3 DEF Resting
  <2> QED BY <2>1, <2>2, <2>5, <2>6, <2>7, Zenon DEF InHand
<1>14. ASSUME NEW c \in Clients, Strip(c) PROVE InHand'
  <2> HIDE DEF RegistryAssumption, SchemaOK, ClientOK, Alone, GoalOK, Fresh,
      ClientAt, Goal, Resting, Named, InHand, Mended, Pending, Goto,
      schemaVars, diskVars, nameVars, copyVars, history, faults
  <2>1. /\ at[c] = "readBody" /\ copySpec[c] = spec /\ name[c] \in Names
        /\ spec \in Package /\ body \in Package
    BY <1>14 DEF Strip, SchemaOK, ClientOK, Fresh, Named
  <2>2. spec' = spec /\ body' = body /\ name' = name
    BY <1>14, Zenon DEF Strip, schemaVars, nameVars
  <2>3. \A d \in Clients \ {c} : at'[d] = at[d] /\ at[d] \in Resting
    BY <1>14, <2>1 DEF Strip, Goto, ClientOK, Alone, Resting
  <2>4. \A n \in Names \ {name[c]} : spec[n] # None => body[n] # None
    <3>1. ASSUME NEW d \in Clients, Pending(d) PROVE d = c
      BY <2>3, <3>1 DEF Pending, Resting
    <3> QED BY <3>1, Zenon DEF Mended
  <2>5. at'[c] \in {"registered", "failed", "writeSpec"}
    BY <1>14 DEF Strip, Goto, ClientOK, AfterDrop
  <2>6. ASSUME at'[c] = "writeSpec"
        PROVE  /\ \A n \in Names : copySpec'[c][n] # None => copyBody'[c][n] # None
               /\ \A n \in Names \ {name[c]} : copySpec'[c][n] = spec[n]
               /\ copySpec'[c][name[c]] = None
    <3>1. /\ copySpec' = [copySpec EXCEPT ![c][name[c]] = None]
          /\ copyBody' = [copyBody EXCEPT ![c] = [body EXCEPT ![name[c]] = None]]
      BY <1>14, <2>6 DEF Strip, Goto, ClientOK, AfterDrop
    <3>2. copySpec'[c] = [spec EXCEPT ![name[c]] = None]
          /\ copyBody'[c] = [body EXCEPT ![name[c]] = None]
      BY <2>1, <3>1 DEF SchemaOK
    <3> QED BY <2>1, <2>4, <3>2 DEF Package
  <2>7. ASSUME NEW d \in Clients \ {c}
        PROVE  at'[d] # "baseBody" /\ at'[d] # "writeSpec" /\ at'[d] # "writeBody"
    BY <2>3 DEF Resting
  <2> QED BY <2>1, <2>2, <2>5, <2>6, <2>7, Zenon DEF InHand
<1>15. ASSUME NEW c \in Clients, WriteSpec(c) PROVE InHand'
    BY <1>15 DEF WriteSpec
<1>16. ASSUME NEW c \in Clients, WriteBody(c) PROVE InHand'
    BY <1>16 DEF WriteBody, Forget, AfterDrop
<1>17. ASSUME NEW c \in Clients, CallRefused(c) PROVE InHand'
    BY <1>17 DEF CallRefused, GiveUp, AfterDrop, Release, Forget
<1>18. ASSUME NEW c \in Clients, CallFails(c) PROVE InHand'
    BY <1>18 DEF CallFails, GiveUp, AfterDrop, Release, Forget
<1>19. ASSUME NEW c \in Clients, DropProcedure(c) PROVE InHand'
    BY <1>19 DEF DropProcedure
<1>20. ASSUME NEW c \in Clients, NEW b \in BOOLEAN, Quit(c, b) PROVE InHand'
    BY <1>20 DEF Quit, Die, Forget
<1>21. ASSUME NEW c \in Clients, Crash(c) PROVE InHand'
    BY <1>21 DEF Crash, Die, Forget
<1>22. CASE UNCHANGED vars
    BY <1>22 DEF vars
<1> QED BY <1>1, <1>2, <1>3, <1>4, <1>5, <1>6, <1>7, <1>8, <1>9, <1>10, <1>11, <1>12, <1>13,
    <1>14, <1>15, <1>16, <1>17, <1>18, <1>19, <1>20, <1>21, <1>22 DEF Next, ClientStep

\* No step leaves a procedure declared and not defined for good.
LEMMA MendedStep ==
    ASSUME SchemaOK, ClientOK, CountOK, Alone, GoalOK, Fresh, InHand, Mended,
           failures' <= 1, crashes' = 0, [Next]_vars
    PROVE  Mended'
<1> USE RegistryAssumption DEF RegistryAssumption, SchemaOK, ClientOK, Alone, GoalOK, Fresh,
    ClientAt, Goal, Resting, Named, InHand, Mended, Pending, CountOK, Goto, schemaVars, diskVars,
    nameVars, copyVars, history, faults
<1>1. ASSUME NEW c \in Clients, Start(c) PROVE Mended'
    BY <1>1 DEF Start
<1>2. ASSUME NEW c \in Clients, CheckPackage(c) PROVE Mended'
    BY <1>2 DEF CheckPackage, BeginNaming
<1>3. ASSUME NEW c \in Clients, DeployBaseSpec(c) PROVE Mended'
    BY <1>3 DEF DeployBaseSpec, Base
<1>4. ASSUME NEW c \in Clients, NEW b \in BOOLEAN, DeployBaseBody(c, b) PROVE Mended'
    BY <1>4 DEF DeployBaseBody, BeginNaming
<1>5. ASSUME NEW c \in Clients, Initialize(c) PROVE Mended'
    BY <1>5 DEF Initialize, BeginNaming
<1>6. ASSUME NEW c \in Clients, NEW n \in Names, Draw(c, n) PROVE Mended'
    BY <1>6 DEF Draw
<1>7. ASSUME NEW c \in Clients, NoNameLeft(c) PROVE Mended'
    BY <1>7 DEF NoNameLeft
<1>8. ASSUME NEW c \in Clients, NEW b \in BOOLEAN, Probe(c, b) PROVE Mended'
    BY <1>8 DEF Probe, Release
<1>9. ASSUME NEW c \in Clients, Save(c) PROVE Mended'
    BY <1>9 DEF Save
<1>10. ASSUME NEW c \in Clients, Register(c) PROVE Mended'
    BY <1>10 DEF Register
<1>11. ASSUME NEW c \in Clients, ReadSpec(c) PROVE Mended'
    BY <1>11 DEF ReadSpec
<1>12. ASSUME NEW c \in Clients, CheckOwner(c) PROVE Mended'
    BY <1>12 DEF CheckOwner, Release, Forget
<1>13. ASSUME NEW c \in Clients, Ensure(c) PROVE Mended'
    BY <1>13 DEF Ensure, Forget
<1>14. ASSUME NEW c \in Clients, Strip(c) PROVE Mended'
  <2> HIDE DEF RegistryAssumption, SchemaOK, ClientOK, CountOK, Alone, GoalOK, Fresh, InHand,
      Mended, Pending, ClientAt, Goal, Resting, Named, Goto, schemaVars, diskVars, nameVars,
      copyVars, history, faults
  <2>1. UNCHANGED <<spec, body, goal, name, failures>>
    BY <1>14 DEF Strip, schemaVars, nameVars, faults
  <2>2. \A d \in Clients \ {c} : at'[d] = at[d]
    BY <1>14 DEF Strip, Goto, ClientOK, Forget
  <2>3. at[c] = "readBody" /\ (spec[name[c]] # None => at'[c] = "writeSpec")
    BY <1>14 DEF Strip, Goto, ClientOK, Forget, Fresh
  <2>4. ASSUME NEW n \in Names, spec[n] # None, NEW d \in Clients, name[d] = n, Pending(d)
        PROVE  Pending(d)'
    BY <2>1, <2>2, <2>3, <2>4 DEF Pending
  <2> QED BY <2>1, <2>4 DEF Mended
<1>15. ASSUME NEW c \in Clients, WriteSpec(c) PROVE Mended'
    BY <1>15 DEF WriteSpec
<1>16. ASSUME NEW c \in Clients, WriteBody(c) PROVE Mended'
    BY <1>16 DEF WriteBody, Forget, AfterDrop
<1>17. ASSUME NEW c \in Clients, CallRefused(c) PROVE Mended'
    BY <1>17 DEF CallRefused, GiveUp, AfterDrop, Release, Forget
<1>18. ASSUME NEW c \in Clients, CallFails(c) PROVE Mended'
    BY <1>18 DEF CallFails, GiveUp, AfterDrop, Release, Forget
<1>19. ASSUME NEW c \in Clients, DropProcedure(c) PROVE Mended'
    BY <1>19 DEF DropProcedure
<1>20. ASSUME NEW c \in Clients, NEW b \in BOOLEAN, Quit(c, b) PROVE Mended'
    BY <1>20 DEF Quit, Die, Forget
<1>21. ASSUME NEW c \in Clients, Crash(c) PROVE Mended'
    BY <1>21 DEF Crash, Die, Forget
<1>22. CASE UNCHANGED vars
    BY <1>22 DEF vars
<1> QED BY <1>1, <1>2, <1>3, <1>4, <1>5, <1>6, <1>7, <1>8, <1>9, <1>10, <1>11, <1>12, <1>13,
    <1>14, <1>15, <1>16, <1>17, <1>18, <1>19, <1>20, <1>21, <1>22 DEF Next, ClientStep

LEMMA FaultsStay ==
    ASSUME CountOK, [Next]_vars
    PROVE  failures' >= failures /\ crashes' >= crashes
<1> USE DEF CountOK, schemaVars, history, faults
<1>1. ASSUME NEW c \in Clients, CallFails(c) PROVE failures' >= failures /\ crashes' >= crashes
    BY <1>1 DEF CallFails
<1>2. ASSUME NEW c \in Clients, Crash(c) PROVE failures' >= failures /\ crashes' >= crashes
    BY <1>2 DEF Crash
<1>3. \/ \E c \in Clients : CallFails(c) \/ Crash(c)
      \/ UNCHANGED <<failures, crashes>>
    BY ZenonT(60) DEF Next, ClientStep, Start, CheckPackage, DeployBaseSpec,
       DeployBaseBody, Initialize, Draw, NoNameLeft, Probe, Save, Register, ReadSpec,
       CheckOwner, Ensure, Strip, WriteSpec, WriteBody, CallRefused, DropProcedure, Quit, vars
<1>4. UNCHANGED <<failures, crashes>> => failures' >= failures /\ crashes' >= crashes
    OBVIOUS
<1> QED BY <1>1, <1>2, <1>3, <1>4, Zenon

\* One error at most, and nobody killed
Healing == failures <= 1 /\ crashes = 0 /\ overlaps = 0 => InHand /\ Mended

LEMMA HealingInit == Init => Healing
<1>1. Init => InHand
    BY DEF Init, InHand
<1>2. Init => Mended
    BY DEF Init, Mended
<1> QED BY <1>1, <1>2 DEF Healing

LEMMA HealingStep ==
    ASSUME Inv, Healing, [Next]_vars
    PROVE  Healing'
<1> SUFFICES ASSUME failures' <= 1, crashes' = 0, overlaps' = 0 PROVE InHand' /\ Mended'
    BY DEF Healing
<1>1. failures <= 1 /\ crashes = 0 /\ overlaps = 0
  <2>1. CountOK
      BY DEF Inv, TypeInv
  <2>2. failures' >= failures /\ crashes' >= crashes
      BY <2>1, FaultsStay
  <2>3. CountOK'
      BY <2>1, CountStep DEF Inv, TypeInv
  <2>4. overlaps = 0
      BY OverlapsStay DEF Inv
  <2> QED BY <2>1, <2>2, <2>3, <2>4 DEF CountOK
<1>2. InHand /\ Mended
    BY <1>1 DEF Healing
<1> QED BY <1>1, <1>2, InHandStep, MendedStep DEF Inv, TypeInv

\* A single error is repaired, wherever it falls: once every client is at rest the
\* package compiles again.  Of two errors the second may fall into the repair.
THEOREM OneErrorHeals == Spec => [](failures <= 1 => RollbackHeals)
<1>1. Inv /\ Healing => (failures <= 1 => RollbackHeals)
  <2> SUFFICES ASSUME Inv, Healing, failures <= 1, crashes = 0, overlaps = 0, "body" \in parts,
                      \A c \in Clients : at[c] \in Resting
               PROVE  Callable
      BY DEF RollbackHeals
  <2>1. parts = {"spec", "body"}
      BY DEF Inv, TypeInv, PartsOK, SchemaOK, Whole
  <2>2. \A c \in Clients : ~Pending(c)
      BY DEF Pending, Resting
  <2>3. \A n \in Names : spec[n] # None => body[n] # None
      BY <2>2, Zenon DEF Healing, Mended
  <2> QED BY <2>1, <2>3 DEF Callable
<1>2. Inv /\ Healing /\ [Next]_vars => Healing'
    BY HealingStep
<1> QED BY Invariance, HealingInit, <1>1, <1>2, PTL DEF Spec
=============================================================================

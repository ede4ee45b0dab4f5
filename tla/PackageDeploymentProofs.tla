------------------------ MODULE PackageDeploymentProofs ------------------------
(***************************************************************************)
(* What the starts of several installations leave in the databases they    *)
(* share, for any number of installations, databases and releases, and of  *)
(* failures and deaths.                                                    *)
(***************************************************************************)
EXTENDS PackageDeployment, TLAPS

SchemaOK ==
    /\ spec \in [Dbs -> Release] /\ body \in [Dbs -> Release]
    /\ queue \in [Dbs -> {"none", "created", "started"}]
    /\ checker \in [Dbs -> SUBSET Parts]
    /\ releases \in [Dbs -> SUBSET Release]

ClientOK ==
    /\ release \in [Clients -> 1..MaxRelease] /\ stored \in [Clients -> Release]
    /\ storedFor \in [Clients -> Dbs]
    /\ pc \in [Clients -> Labels] /\ db \in [Clients -> Dbs]
    /\ validated \in [Clients -> SUBSET Dbs] /\ begun \in [Clients -> SUBSET Dbs]
    /\ strayed \subseteq Clients

CountOK == faults \in 0..MaxFaults /\ ends \in 0..MaxEnds

FlagOK == verdict \in [Clients -> BOOLEAN] /\ exists \in [Clients -> BOOLEAN]

\* A connection is marked by a client that has the verdict.
Vouched ==
    \A c \in Clients :
        /\ validated[c] # {} => verdict[c]
        /\ pc[c] = "drop" => verdict[c]

TypeInv == SchemaOK /\ ClientOK /\ CountOK /\ FlagOK /\ Vouched

LEMMA Releases == 0 \in Release /\ 1..MaxRelease \subseteq Release /\ 1 \in 1..MaxRelease
  BY DeploymentAssumption DEF DeploymentAssumption, Release

LEMMA InstalledRelease ==
    ASSUME ClientOK, NEW c \in Clients
    PROVE  /\ release[c] \in Release /\ release[c] \in 1..MaxRelease /\ release[c] # 0
           /\ db[c] \in Dbs
  BY Releases DEF ClientOK

\* Only the specification makes the package of the check one that is found.
LEMMA DroppedPackage ==
    ASSUME SchemaOK, ClientOK, NEW c \in Clients, DropPackage(c)
    PROVE  /\ checker' \in [Dbs -> SUBSET Parts]
           /\ "spec" \notin checker'[db[c]]
           /\ \A d \in Dbs \ {db[c]} : checker'[d] = checker[d]
<1>1. PICK left \in SUBSET (checker[db[c]] \cap {"body"}) :
          checker' = [checker EXCEPT ![db[c]] = left]
  BY DEF DropPackage
<1>2. db[c] \in Dbs /\ left \subseteq {"body"}
  BY DEF ClientOK
<1>3. "spec" \notin left /\ left \subseteq Parts
  BY <1>2 DEF Parts
<1> QED
  BY <1>1, <1>2, <1>3 DEF SchemaOK

\* The schemas keep their shape.
LEMMA SchemaStep ==
    ASSUME SchemaOK, ClientOK, [Next]_vars
    PROVE  SchemaOK'
<1> USE DEF SchemaOK, At, Goto, schema, client, hash, history, bounds
<1>1. ASSUME NEW c \in Clients, FindChecker(c) PROVE SchemaOK'
    BY <1>1 DEF FindChecker
<1>2. ASSUME NEW c \in Clients, DeployCheckerSpec(c) PROVE SchemaOK'
    BY <1>2 DEF DeployCheckerSpec, Parts
<1>3. ASSUME NEW c \in Clients, DeployCheckerBody(c) PROVE SchemaOK'
    BY <1>3 DEF DeployCheckerBody, Parts
<1>4. ASSUME NEW c \in Clients, Report(c) PROVE SchemaOK'
    BY <1>4 DEF Report
<1>5. ASSUME NEW c \in Clients, SaveVerdict(c) PROVE SchemaOK'
    BY <1>5 DEF SaveVerdict
<1>6. ASSUME NEW c \in Clients, DropChecker(c) PROVE SchemaOK'
    BY <1>6, DroppedPackage DEF DropChecker
<1>7. ASSUME NEW c \in Clients, Cleanup(c) PROVE SchemaOK'
    BY <1>7, DroppedPackage DEF Cleanup
<1>8. ASSUME NEW c \in Clients, PackageExists(c) PROVE SchemaOK'
    BY <1>8 DEF PackageExists
<1>9. ASSUME NEW c \in Clients, DeploySpec(c) PROVE SchemaOK'
    BY <1>9, InstalledRelease DEF DeploySpec
<1>10. ASSUME NEW c \in Clients, DeployBody(c) PROVE SchemaOK'
    BY <1>10, InstalledRelease DEF DeployBody
<1>11. ASSUME NEW c \in Clients, StoreHash(c) PROVE SchemaOK'
    BY <1>11 DEF StoreHash
<1>12. ASSUME NEW c \in Clients, Initialize(c) PROVE SchemaOK'
    BY <1>12 DEF Initialize
<1>13. ASSUME NEW c \in Clients, StartQueue(c) PROVE SchemaOK'
    BY <1>13 DEF StartQueue
<1>14. ASSUME NEW c \in Clients, Register(c) PROVE SchemaOK'
    BY <1>14 DEF Register
<1>15. ASSUME NEW c \in Clients, NEW d \in Dbs, Connect(c, d) PROVE SchemaOK'
    BY <1>15 DEF Connect
<1>16. ASSUME NEW c \in Clients, NEW r \in Release, Leave(c, r) PROVE SchemaOK'
    BY <1>16 DEF Leave
<1>17. ASSUME NEW c \in Clients, Fault(c) PROVE SchemaOK'
    BY <1>17 DEF Fault
<1>18. ASSUME NEW c \in Clients, Kill(c) PROVE SchemaOK'
    BY <1>18 DEF Kill
<1>19. CASE UNCHANGED vars
    BY <1>19 DEF vars
<1> QED
  BY <1>1, <1>2, <1>3, <1>4, <1>5, <1>6, <1>7, <1>8, <1>9, <1>10, <1>11, <1>12, <1>13,
     <1>14, <1>15, <1>16, <1>17, <1>18, <1>19 DEF Next, Step

\* The installations keep theirs.
LEMMA ClientStep ==
    ASSUME ClientOK, FlagOK, [Next]_vars
    PROVE  ClientOK'
<1> USE DEF ClientOK, Labels, Resting, Checks, Past, At, Goto, schema, client, hash,
       history, bounds
<1>1. ASSUME NEW c \in Clients, FindChecker(c) PROVE ClientOK'
    BY <1>1 DEF FindChecker
<1>2. ASSUME NEW c \in Clients, DeployCheckerSpec(c) PROVE ClientOK'
    BY <1>2 DEF DeployCheckerSpec
<1>3. ASSUME NEW c \in Clients, DeployCheckerBody(c) PROVE ClientOK'
    BY <1>3 DEF DeployCheckerBody
<1>4. ASSUME NEW c \in Clients, Report(c) PROVE ClientOK'
    BY <1>4 DEF Report
<1>5. ASSUME NEW c \in Clients, SaveVerdict(c) PROVE ClientOK'
    BY <1>5 DEF SaveVerdict
<1>6. ASSUME NEW c \in Clients, DropChecker(c) PROVE ClientOK'
    BY <1>6 DEF DropChecker
<1>7. ASSUME NEW c \in Clients, Cleanup(c) PROVE ClientOK'
    BY <1>7 DEF Cleanup
<1>8. ASSUME NEW c \in Clients, PackageExists(c) PROVE ClientOK'
  <2>1. /\ UNCHANGED <<release, stored, storedFor, db, validated, begun>>
        /\ pc' \in [Clients -> Labels] /\ strayed' \subseteq Clients
    BY <1>8 DEF PackageExists
  <2> QED BY <2>1
<1>9. ASSUME NEW c \in Clients, DeploySpec(c) PROVE ClientOK'
    BY <1>9 DEF DeploySpec
<1>10. ASSUME NEW c \in Clients, DeployBody(c) PROVE ClientOK'
    BY <1>10 DEF DeployBody
<1>11. ASSUME NEW c \in Clients, StoreHash(c) PROVE ClientOK'
    BY <1>11, InstalledRelease DEF StoreHash
<1>12. ASSUME NEW c \in Clients, Initialize(c) PROVE ClientOK'
    BY <1>12 DEF Initialize
<1>13. ASSUME NEW c \in Clients, StartQueue(c) PROVE ClientOK'
    BY <1>13 DEF StartQueue
<1>14. ASSUME NEW c \in Clients, Register(c) PROVE ClientOK'
    BY <1>14 DEF Register
<1>15. ASSUME NEW c \in Clients, NEW d \in Dbs, Connect(c, d) PROVE ClientOK'
    BY <1>15 DEF Connect
<1>16. ASSUME NEW c \in Clients, NEW r \in Release, Leave(c, r) PROVE ClientOK'
    BY <1>16 DEF Leave
<1>17. ASSUME NEW c \in Clients, Fault(c) PROVE ClientOK'
    BY <1>17 DEF Fault
<1>18. ASSUME NEW c \in Clients, Kill(c) PROVE ClientOK'
    BY <1>18 DEF Kill
<1>19. CASE UNCHANGED vars
    BY <1>19 DEF vars
<1> QED
  BY <1>1, <1>2, <1>3, <1>4, <1>5, <1>6, <1>7, <1>8, <1>9, <1>10, <1>11, <1>12, <1>13,
     <1>14, <1>15, <1>16, <1>17, <1>18, <1>19 DEF Next, Step

\* The bounds hold.
LEMMA CountStep ==
    ASSUME CountOK, [Next]_vars
    PROVE  CountOK'
<1> USE DEF CountOK, At, Goto, schema, client, hash, history, bounds
<1>1. ASSUME NEW c \in Clients, FindChecker(c) PROVE CountOK'
    BY <1>1 DEF FindChecker
<1>2. ASSUME NEW c \in Clients, DeployCheckerSpec(c) PROVE CountOK'
    BY <1>2 DEF DeployCheckerSpec
<1>3. ASSUME NEW c \in Clients, DeployCheckerBody(c) PROVE CountOK'
    BY <1>3 DEF DeployCheckerBody
<1>4. ASSUME NEW c \in Clients, Report(c) PROVE CountOK'
    BY <1>4 DEF Report
<1>5. ASSUME NEW c \in Clients, SaveVerdict(c) PROVE CountOK'
    BY <1>5 DEF SaveVerdict
<1>6. ASSUME NEW c \in Clients, DropChecker(c) PROVE CountOK'
    BY <1>6 DEF DropChecker
<1>7. ASSUME NEW c \in Clients, Cleanup(c) PROVE CountOK'
    BY <1>7 DEF Cleanup
<1>8. ASSUME NEW c \in Clients, PackageExists(c) PROVE CountOK'
    BY <1>8 DEF PackageExists
<1>9. ASSUME NEW c \in Clients, DeploySpec(c) PROVE CountOK'
    BY <1>9 DEF DeploySpec
<1>10. ASSUME NEW c \in Clients, DeployBody(c) PROVE CountOK'
    BY <1>10 DEF DeployBody
<1>11. ASSUME NEW c \in Clients, StoreHash(c) PROVE CountOK'
    BY <1>11 DEF StoreHash
<1>12. ASSUME NEW c \in Clients, Initialize(c) PROVE CountOK'
    BY <1>12 DEF Initialize
<1>13. ASSUME NEW c \in Clients, StartQueue(c) PROVE CountOK'
    BY <1>13 DEF StartQueue
<1>14. ASSUME NEW c \in Clients, Register(c) PROVE CountOK'
    BY <1>14 DEF Register
<1>15. ASSUME NEW c \in Clients, NEW d \in Dbs, Connect(c, d) PROVE CountOK'
    BY <1>15 DEF Connect
<1>16. ASSUME NEW c \in Clients, NEW r \in Release, Leave(c, r) PROVE CountOK'
    BY <1>16, DeploymentAssumption DEF Leave, DeploymentAssumption
<1>17. ASSUME NEW c \in Clients, Fault(c) PROVE CountOK'
    BY <1>17, DeploymentAssumption DEF Fault, DeploymentAssumption
<1>18. ASSUME NEW c \in Clients, Kill(c) PROVE CountOK'
    BY <1>18, DeploymentAssumption DEF Kill, DeploymentAssumption
<1>19. CASE UNCHANGED vars
    BY <1>19 DEF vars
<1> QED
  BY <1>1, <1>2, <1>3, <1>4, <1>5, <1>6, <1>7, <1>8, <1>9, <1>10, <1>11, <1>12, <1>13,
     <1>14, <1>15, <1>16, <1>17, <1>18, <1>19 DEF Next, Step

\* Boolean variables.
LEMMA FlagStep ==
    ASSUME FlagOK, [Next]_vars
    PROVE  FlagOK'
<1> USE DEF FlagOK, At, Goto, schema, client, hash, history, bounds
<1>1. ASSUME NEW c \in Clients, FindChecker(c) PROVE FlagOK'
    BY <1>1 DEF FindChecker
<1>2. ASSUME NEW c \in Clients, DeployCheckerSpec(c) PROVE FlagOK'
    BY <1>2 DEF DeployCheckerSpec
<1>3. ASSUME NEW c \in Clients, DeployCheckerBody(c) PROVE FlagOK'
    BY <1>3 DEF DeployCheckerBody
<1>4. ASSUME NEW c \in Clients, Report(c) PROVE FlagOK'
    BY <1>4 DEF Report
<1>5. ASSUME NEW c \in Clients, SaveVerdict(c) PROVE FlagOK'
  <2>1. verdict' = [verdict EXCEPT ![c] = TRUE] /\ exists' = exists
    BY <1>5 DEF SaveVerdict
  <2> QED BY <2>1, Zenon
<1>6. ASSUME NEW c \in Clients, DropChecker(c) PROVE FlagOK'
    BY <1>6 DEF DropChecker
<1>7. ASSUME NEW c \in Clients, Cleanup(c) PROVE FlagOK'
    BY <1>7 DEF Cleanup
<1>8. ASSUME NEW c \in Clients, PackageExists(c) PROVE FlagOK'
    BY <1>8 DEF PackageExists
<1>9. ASSUME NEW c \in Clients, DeploySpec(c) PROVE FlagOK'
    BY <1>9 DEF DeploySpec
<1>10. ASSUME NEW c \in Clients, DeployBody(c) PROVE FlagOK'
    BY <1>10 DEF DeployBody
<1>11. ASSUME NEW c \in Clients, StoreHash(c) PROVE FlagOK'
    BY <1>11 DEF StoreHash
<1>12. ASSUME NEW c \in Clients, Initialize(c) PROVE FlagOK'
    BY <1>12 DEF Initialize
<1>13. ASSUME NEW c \in Clients, StartQueue(c) PROVE FlagOK'
    BY <1>13 DEF StartQueue
<1>14. ASSUME NEW c \in Clients, Register(c) PROVE FlagOK'
    BY <1>14 DEF Register
<1>15. ASSUME NEW c \in Clients, NEW d \in Dbs, Connect(c, d) PROVE FlagOK'
    BY <1>15 DEF Connect
<1>16. ASSUME NEW c \in Clients, NEW r \in Release, Leave(c, r) PROVE FlagOK'
    BY <1>16 DEF Leave
<1>17. ASSUME NEW c \in Clients, Fault(c) PROVE FlagOK'
    BY <1>17 DEF Fault
<1>18. ASSUME NEW c \in Clients, Kill(c) PROVE FlagOK'
    BY <1>18 DEF Kill
<1>19. CASE UNCHANGED vars
    BY <1>19 DEF vars
<1> QED
  BY <1>1, <1>2, <1>3, <1>4, <1>5, <1>6, <1>7, <1>8, <1>9, <1>10, <1>11, <1>12, <1>13,
     <1>14, <1>15, <1>16, <1>17, <1>18, <1>19 DEF Next, Step

\* A mark needs the verdict first.
LEMMA VouchedStep ==
    ASSUME ClientOK, FlagOK, Vouched, [Next]_vars
    PROVE  Vouched'
<1> USE DEF ClientOK, Vouched, Labels, Resting, Checks, Past, At, Goto, schema, client,
       hash, history, bounds
<1>1. ASSUME NEW c \in Clients, FindChecker(c) PROVE Vouched'
    BY <1>1 DEF FindChecker
<1>2. ASSUME NEW c \in Clients, DeployCheckerSpec(c) PROVE Vouched'
    BY <1>2 DEF DeployCheckerSpec
<1>3. ASSUME NEW c \in Clients, DeployCheckerBody(c) PROVE Vouched'
    BY <1>3 DEF DeployCheckerBody
<1>4. ASSUME NEW c \in Clients, Report(c) PROVE Vouched'
    BY <1>4 DEF Report
<1>5. ASSUME NEW c \in Clients, SaveVerdict(c) PROVE Vouched'
  <2> HIDE DEF Vouched
  <2>1. \A e \in Clients : verdict[e] \/ e = c => verdict'[e]
    BY <1>5, Zenon DEF SaveVerdict, FlagOK
  <2>2. validated' = validated /\ \A e \in Clients \ {c} : pc'[e] = pc[e]
    BY <1>5 DEF SaveVerdict
  <2> QED BY <2>1, <2>2, Zenon DEF Vouched
<1>6. ASSUME NEW c \in Clients, DropChecker(c) PROVE Vouched'
    BY <1>6 DEF DropChecker
<1>7. ASSUME NEW c \in Clients, Cleanup(c) PROVE Vouched'
    BY <1>7 DEF Cleanup
<1>8. ASSUME NEW c \in Clients, PackageExists(c) PROVE Vouched'
    BY <1>8 DEF PackageExists
<1>9. ASSUME NEW c \in Clients, DeploySpec(c) PROVE Vouched'
    BY <1>9 DEF DeploySpec
<1>10. ASSUME NEW c \in Clients, DeployBody(c) PROVE Vouched'
    BY <1>10 DEF DeployBody
<1>11. ASSUME NEW c \in Clients, StoreHash(c) PROVE Vouched'
    BY <1>11 DEF StoreHash
<1>12. ASSUME NEW c \in Clients, Initialize(c) PROVE Vouched'
    BY <1>12 DEF Initialize
<1>13. ASSUME NEW c \in Clients, StartQueue(c) PROVE Vouched'
    BY <1>13 DEF StartQueue
<1>14. ASSUME NEW c \in Clients, Register(c) PROVE Vouched'
    BY <1>14 DEF Register
<1>15. ASSUME NEW c \in Clients, NEW d \in Dbs, Connect(c, d) PROVE Vouched'
    BY <1>15 DEF Connect
<1>16. ASSUME NEW c \in Clients, NEW r \in Release, Leave(c, r) PROVE Vouched'
    BY <1>16 DEF Leave
<1>17. ASSUME NEW c \in Clients, Fault(c) PROVE Vouched'
    BY <1>17 DEF Fault
<1>18. ASSUME NEW c \in Clients, Kill(c) PROVE Vouched'
    BY <1>18 DEF Kill
<1>19. CASE UNCHANGED vars
    BY <1>19 DEF vars
<1> QED
  BY <1>1, <1>2, <1>3, <1>4, <1>5, <1>6, <1>7, <1>8, <1>9, <1>10, <1>11, <1>12, <1>13,
     <1>14, <1>15, <1>16, <1>17, <1>18, <1>19 DEF Next, Step

LEMMA TypeInvariant == Spec => []TypeInv
<1>1. Init => TypeInv
    <2> SUFFICES ASSUME Init PROVE TypeInv
        OBVIOUS
    <2>1. SchemaOK /\ ClientOK /\ CountOK
        BY Releases, DeploymentAssumption
        DEF Init, SchemaOK, ClientOK, CountOK, Labels, Resting, DeploymentAssumption
    <2>2. FlagOK
        BY Zenon DEF Init, FlagOK
    <2>3. Vouched
        BY DEF Init, Vouched
    <2> QED BY <2>1, <2>2, <2>3 DEF TypeInv
<1>2. TypeInv /\ [Next]_vars => TypeInv'
    BY SchemaStep, ClientStep, CountStep, FlagStep, VouchedStep DEF TypeInv
<1> QED BY <1>1, <1>2, PTL DEF Spec

\* The state of schemas and installations keeps its shape, and no connection is marked
\* before its permissions are known: for any installations, databases and releases.
THEOREM TypeCorrect == Spec => []TypeOK
<1>1. TypeInv => TypeOK
    BY Zenon DEF TypeInv, SchemaOK, ClientOK, CountOK, FlagOK, Vouched, TypeOK
<1> QED BY TypeInvariant, <1>1, PTL

-----------------------------------------------------------------------------
(* The tracer package *)

\* What a database has is of a release that was deployed there, and a body has its
\* specification.
Accounted ==
    \A d \in Dbs :
        /\ spec[d] # 0 => spec[d] \in releases[d]
        /\ body[d] # 0 => body[d] \in releases[d] /\ spec[d] # 0

\* A stored hash stands for a package with a body, and so does getting past the
\* deployment, unless the hash was of another database.
Backed ==
    \A c \in Clients :
        /\ stored[c] # 0 => body[storedFor[c]] # 0
        /\ pc[c] = "body" => spec[db[c]] # 0 /\ release[c] \in releases[db[c]]
        /\ pc[c] = "store" => body[db[c]] # 0
        /\ pc[c] \in Past /\ c \notin strayed => body[db[c]] # 0

\* No step takes a specification, a body or a deployed release away.
Growing ==
    \A d \in Dbs : /\ spec[d] # 0 => spec'[d] # 0
                   /\ body[d] # 0 => body'[d] # 0
                   /\ releases[d] \subseteq releases'[d]

\* Parts are replaced and never removed.
LEMMA GrowingStep ==
    ASSUME SchemaOK, ClientOK, [Next]_vars
    PROVE  Growing
<1> USE DEF Growing, At, Goto, schema, client, hash, history, bounds
<1>1. ASSUME NEW c \in Clients, FindChecker(c) PROVE Growing
    BY <1>1 DEF FindChecker
<1>2. ASSUME NEW c \in Clients, DeployCheckerSpec(c) PROVE Growing
    BY <1>2 DEF DeployCheckerSpec
<1>3. ASSUME NEW c \in Clients, DeployCheckerBody(c) PROVE Growing
    BY <1>3 DEF DeployCheckerBody
<1>4. ASSUME NEW c \in Clients, Report(c) PROVE Growing
    BY <1>4 DEF Report
<1>5. ASSUME NEW c \in Clients, SaveVerdict(c) PROVE Growing
    BY <1>5 DEF SaveVerdict
<1>6. ASSUME NEW c \in Clients, DropChecker(c) PROVE Growing
    BY <1>6 DEF DropChecker
<1>7. ASSUME NEW c \in Clients, Cleanup(c) PROVE Growing
    BY <1>7 DEF Cleanup
<1>8. ASSUME NEW c \in Clients, PackageExists(c) PROVE Growing
    BY <1>8 DEF PackageExists
<1>9. ASSUME NEW c \in Clients, DeploySpec(c) PROVE Growing
    BY <1>9, InstalledRelease DEF DeploySpec, SchemaOK
<1>10. ASSUME NEW c \in Clients, DeployBody(c) PROVE Growing
    BY <1>10, InstalledRelease DEF DeployBody, SchemaOK
<1>11. ASSUME NEW c \in Clients, StoreHash(c) PROVE Growing
    BY <1>11 DEF StoreHash
<1>12. ASSUME NEW c \in Clients, Initialize(c) PROVE Growing
    BY <1>12 DEF Initialize
<1>13. ASSUME NEW c \in Clients, StartQueue(c) PROVE Growing
    BY <1>13 DEF StartQueue
<1>14. ASSUME NEW c \in Clients, Register(c) PROVE Growing
    BY <1>14 DEF Register
<1>15. ASSUME NEW c \in Clients, NEW d \in Dbs, Connect(c, d) PROVE Growing
    BY <1>15 DEF Connect
<1>16. ASSUME NEW c \in Clients, NEW r \in Release, Leave(c, r) PROVE Growing
    BY <1>16 DEF Leave
<1>17. ASSUME NEW c \in Clients, Fault(c) PROVE Growing
    BY <1>17 DEF Fault
<1>18. ASSUME NEW c \in Clients, Kill(c) PROVE Growing
    BY <1>18 DEF Kill
<1>19. CASE UNCHANGED vars
    BY <1>19 DEF vars
<1> QED
  BY <1>1, <1>2, <1>3, <1>4, <1>5, <1>6, <1>7, <1>8, <1>9, <1>10, <1>11, <1>12, <1>13,
     <1>14, <1>15, <1>16, <1>17, <1>18, <1>19 DEF Next, Step

\* A body follows its specification.
LEMMA AccountedStep ==
    ASSUME SchemaOK, ClientOK, Accounted, Backed, [Next]_vars
    PROVE  Accounted'
<1> USE DEF Accounted, At, Goto, schema, client, hash, history, bounds
<1>1. ASSUME NEW c \in Clients, FindChecker(c) PROVE Accounted'
    BY <1>1 DEF FindChecker
<1>2. ASSUME NEW c \in Clients, DeployCheckerSpec(c) PROVE Accounted'
    BY <1>2 DEF DeployCheckerSpec
<1>3. ASSUME NEW c \in Clients, DeployCheckerBody(c) PROVE Accounted'
    BY <1>3 DEF DeployCheckerBody
<1>4. ASSUME NEW c \in Clients, Report(c) PROVE Accounted'
    BY <1>4 DEF Report
<1>5. ASSUME NEW c \in Clients, SaveVerdict(c) PROVE Accounted'
    BY <1>5 DEF SaveVerdict
<1>6. ASSUME NEW c \in Clients, DropChecker(c) PROVE Accounted'
    BY <1>6 DEF DropChecker
<1>7. ASSUME NEW c \in Clients, Cleanup(c) PROVE Accounted'
    BY <1>7 DEF Cleanup
<1>8. ASSUME NEW c \in Clients, PackageExists(c) PROVE Accounted'
    BY <1>8 DEF PackageExists
<1>9. ASSUME NEW c \in Clients, DeploySpec(c) PROVE Accounted'
  <2>1. /\ db[c] \in Dbs /\ release[c] # 0 /\ body' = body
        /\ spec' = [spec EXCEPT ![db[c]] = release[c]]
        /\ releases' = [releases EXCEPT ![db[c]] = releases[db[c]] \cup {release[c]}]
    BY <1>9, InstalledRelease DEF DeploySpec
  <2> QED BY <2>1 DEF SchemaOK
<1>10. ASSUME NEW c \in Clients, DeployBody(c) PROVE Accounted'
  <2>1. /\ db[c] \in Dbs /\ release[c] # 0 /\ spec[db[c]] # 0
        /\ release[c] \in releases[db[c]]
        /\ UNCHANGED <<spec, releases>> /\ body' = [body EXCEPT ![db[c]] = release[c]]
    BY <1>10, InstalledRelease DEF DeployBody, Backed
  <2> QED BY <2>1 DEF SchemaOK
<1>11. ASSUME NEW c \in Clients, StoreHash(c) PROVE Accounted'
    BY <1>11 DEF StoreHash
<1>12. ASSUME NEW c \in Clients, Initialize(c) PROVE Accounted'
    BY <1>12 DEF Initialize
<1>13. ASSUME NEW c \in Clients, StartQueue(c) PROVE Accounted'
    BY <1>13 DEF StartQueue
<1>14. ASSUME NEW c \in Clients, Register(c) PROVE Accounted'
    BY <1>14 DEF Register
<1>15. ASSUME NEW c \in Clients, NEW d \in Dbs, Connect(c, d) PROVE Accounted'
    BY <1>15 DEF Connect
<1>16. ASSUME NEW c \in Clients, NEW r \in Release, Leave(c, r) PROVE Accounted'
    BY <1>16 DEF Leave
<1>17. ASSUME NEW c \in Clients, Fault(c) PROVE Accounted'
    BY <1>17 DEF Fault
<1>18. ASSUME NEW c \in Clients, Kill(c) PROVE Accounted'
    BY <1>18 DEF Kill
<1>19. CASE UNCHANGED vars
    BY <1>19 DEF vars
<1> QED
  BY <1>1, <1>2, <1>3, <1>4, <1>5, <1>6, <1>7, <1>8, <1>9, <1>10, <1>11, <1>12, <1>13,
     <1>14, <1>15, <1>16, <1>17, <1>18, <1>19 DEF Next, Step

\* A hash is stored for the database whose package is complete.
LEMMA BackedStep ==
    ASSUME SchemaOK, ClientOK, Backed, [Next]_vars
    PROVE  Backed'
<1> USE DEF At, Goto, schema, client, hash, history, bounds
<1>1. ASSUME NEW c \in Clients, FindChecker(c) PROVE Backed'
  <2>1. /\ UNCHANGED <<release, hash, db, strayed>> /\ \A e \in Clients \ {c} : pc'[e] = pc[e]
        /\ pc'[c] \notin Past \cup {"body", "store"}
    BY <1>1 DEF FindChecker, ClientOK, Labels, Resting, Checks, Past
  <2> QED BY <2>1, GrowingStep DEF Backed, Growing, ClientOK, Past
<1>2. ASSUME NEW c \in Clients, DeployCheckerSpec(c) PROVE Backed'
  <2>1. /\ UNCHANGED <<release, hash, db, strayed>> /\ \A e \in Clients \ {c} : pc'[e] = pc[e]
        /\ pc'[c] \notin Past \cup {"body", "store"}
    BY <1>2 DEF DeployCheckerSpec, ClientOK, Labels, Resting, Checks, Past
  <2> QED BY <2>1, GrowingStep DEF Backed, Growing, ClientOK, Past
<1>3. ASSUME NEW c \in Clients, DeployCheckerBody(c) PROVE Backed'
  <2>1. /\ UNCHANGED <<release, hash, db, strayed>> /\ \A e \in Clients \ {c} : pc'[e] = pc[e]
        /\ pc'[c] \notin Past \cup {"body", "store"}
    BY <1>3 DEF DeployCheckerBody, ClientOK, Labels, Resting, Checks, Past
  <2> QED BY <2>1, GrowingStep DEF Backed, Growing, ClientOK, Past
<1>4. ASSUME NEW c \in Clients, Report(c) PROVE Backed'
  <2>1. /\ UNCHANGED <<release, hash, db, strayed>> /\ \A e \in Clients \ {c} : pc'[e] = pc[e]
        /\ pc'[c] \notin Past \cup {"body", "store"}
    BY <1>4 DEF Report, ClientOK, Labels, Resting, Checks, Past
  <2> QED BY <2>1, GrowingStep DEF Backed, Growing, ClientOK, Past
<1>5. ASSUME NEW c \in Clients, SaveVerdict(c) PROVE Backed'
  <2>1. /\ UNCHANGED <<release, hash, db, strayed>> /\ \A e \in Clients \ {c} : pc'[e] = pc[e]
        /\ pc'[c] \notin Past \cup {"body", "store"}
    BY <1>5 DEF SaveVerdict, ClientOK, Labels, Resting, Checks, Past
  <2> QED BY <2>1, GrowingStep DEF Backed, Growing, ClientOK, Past
<1>6. ASSUME NEW c \in Clients, DropChecker(c) PROVE Backed'
  <2>1. /\ UNCHANGED <<release, hash, db, strayed>> /\ \A e \in Clients \ {c} : pc'[e] = pc[e]
        /\ pc'[c] \notin Past \cup {"body", "store"}
    BY <1>6 DEF DropChecker, ClientOK, Labels, Resting, Checks, Past
  <2> QED BY <2>1, GrowingStep DEF Backed, Growing, ClientOK, Past
<1>7. ASSUME NEW c \in Clients, Cleanup(c) PROVE Backed'
  <2>1. /\ UNCHANGED <<release, hash, db, strayed>> /\ \A e \in Clients \ {c} : pc'[e] = pc[e]
        /\ pc'[c] \notin Past \cup {"body", "store"}
    BY <1>7 DEF Cleanup, ClientOK, Labels, Resting, Checks, Past
  <2> QED BY <2>1, GrowingStep DEF Backed, Growing, ClientOK, Past
<1>8. ASSUME NEW c \in Clients, PackageExists(c) PROVE Backed'
  <2>1. /\ UNCHANGED <<release, hash, db>>
        /\ \A e \in Clients \ {c} : pc'[e] = pc[e] /\ (e \in strayed' <=> e \in strayed)
    BY <1>8 DEF PackageExists, ClientOK
  <2>2. \/ pc'[c] = "spec"
        \/ pc'[c] = "register" /\ stored[c] # 0 /\ (c \in strayed' \/ storedFor[c] = db[c])
    BY <1>8, InstalledRelease DEF PackageExists, ClientOK
  <2> QED BY <2>1, <2>2, GrowingStep DEF Backed, Growing, ClientOK, Past
<1>9. ASSUME NEW c \in Clients, DeploySpec(c) PROVE Backed'
  <2>1. /\ UNCHANGED <<release, hash, db, strayed>> /\ \A e \in Clients \ {c} : pc'[e] = pc[e]
        /\ pc'[c] = "body" /\ spec'[db[c]] # 0 /\ release[c] \in releases'[db[c]]
    BY <1>9, InstalledRelease DEF DeploySpec, ClientOK, SchemaOK
  <2> QED BY <2>1, GrowingStep DEF Backed, Growing, ClientOK, Past
<1>10. ASSUME NEW c \in Clients, DeployBody(c) PROVE Backed'
  <2>1. /\ UNCHANGED <<release, hash, db, strayed>> /\ \A e \in Clients \ {c} : pc'[e] = pc[e]
        /\ pc'[c] = "store" /\ body'[db[c]] # 0
    BY <1>10, InstalledRelease DEF DeployBody, ClientOK, SchemaOK
  <2> QED BY <2>1, GrowingStep DEF Backed, Growing, ClientOK, Past
<1>11. ASSUME NEW c \in Clients, StoreHash(c) PROVE Backed'
  <2>1. /\ UNCHANGED <<release, db, strayed>> /\ \A e \in Clients \ {c} : pc'[e] = pc[e]
        /\ pc[c] = "store" /\ pc'[c] \in {"register", "initialize"} /\ body' = body
    BY <1>11 DEF StoreHash, ClientOK
  <2>2. \A e \in Clients : \/ stored'[e] = stored[e] /\ storedFor'[e] = storedFor[e]
                           \/ e = c /\ storedFor'[e] = db[c]
    BY <1>11 DEF StoreHash, ClientOK
  <2> QED BY <2>1, <2>2, GrowingStep DEF Backed, Growing, ClientOK, Past
<1>12. ASSUME NEW c \in Clients, Initialize(c) PROVE Backed'
  <2>1. /\ UNCHANGED <<release, hash, db, strayed>> /\ \A e \in Clients \ {c} : pc'[e] = pc[e]
        /\ pc[c] \in Past /\ pc'[c] \in Past
    BY <1>12 DEF Initialize, ClientOK, Labels, Resting, Checks, Past
  <2> QED BY <2>1, GrowingStep DEF Backed, Growing, ClientOK, Past
<1>13. ASSUME NEW c \in Clients, StartQueue(c) PROVE Backed'
  <2>1. /\ UNCHANGED <<release, hash, db, strayed>> /\ \A e \in Clients \ {c} : pc'[e] = pc[e]
        /\ pc[c] \in Past /\ pc'[c] \in Past
    BY <1>13 DEF StartQueue, ClientOK, Labels, Resting, Checks, Past
  <2> QED BY <2>1, GrowingStep DEF Backed, Growing, ClientOK, Past
<1>14. ASSUME NEW c \in Clients, Register(c) PROVE Backed'
  <2>1. /\ UNCHANGED <<release, hash, db, strayed>> /\ \A e \in Clients \ {c} : pc'[e] = pc[e]
        /\ pc[c] \in Past /\ pc'[c] \in {"ready", "failed"}
    BY <1>14 DEF Register, ClientOK, Labels, Resting, Checks, Past
  <2> QED BY <2>1, GrowingStep DEF Backed, Growing, ClientOK, Past
<1>15. ASSUME NEW c \in Clients, NEW d \in Dbs, Connect(c, d) PROVE Backed'
  <2>1. /\ UNCHANGED <<release, hash, strayed>> /\ pc'[c] \notin Past \cup {"body", "store"}
        /\ \A e \in Clients \ {c} : pc'[e] = pc[e] /\ db'[e] = db[e]
    BY <1>15 DEF Connect, ClientOK, Past
  <2> QED BY <2>1, GrowingStep DEF Backed, Growing, ClientOK
<1>16. ASSUME NEW c \in Clients, NEW r \in Release, Leave(c, r) PROVE Backed'
  <2>1. /\ UNCHANGED <<db, hash, strayed>> /\ pc'[c] = "down"
        /\ \A e \in Clients \ {c} : pc'[e] = pc[e] /\ release'[e] = release[e]
    BY <1>16 DEF Leave, ClientOK
  <2> QED BY <2>1, GrowingStep DEF Backed, Growing, ClientOK, Past
<1>17. ASSUME NEW c \in Clients, Fault(c) PROVE Backed'
  <2>1. /\ UNCHANGED <<release, hash, db, strayed>> /\ \A e \in Clients \ {c} : pc'[e] = pc[e]
        /\ pc'[c] \notin Past \cup {"body", "store"}
    BY <1>17 DEF Fault, ClientOK, Labels, Resting, Checks, Past
  <2> QED BY <2>1, GrowingStep DEF Backed, Growing, ClientOK, Past
<1>18. ASSUME NEW c \in Clients, Kill(c) PROVE Backed'
  <2>1. /\ UNCHANGED <<release, hash, db, strayed>> /\ \A e \in Clients \ {c} : pc'[e] = pc[e]
        /\ pc'[c] \notin Past \cup {"body", "store"}
    BY <1>18 DEF Kill, ClientOK, Labels, Resting, Checks, Past
  <2> QED BY <2>1, GrowingStep DEF Backed, Growing, ClientOK, Past
<1>19. CASE UNCHANGED vars
  <2>1. UNCHANGED <<release, hash, db, strayed, pc>>
    BY <1>19 DEF vars
  <2> QED BY <2>1, GrowingStep DEF Backed, Growing, ClientOK
<1> QED
  BY <1>1, <1>2, <1>3, <1>4, <1>5, <1>6, <1>7, <1>8, <1>9, <1>10, <1>11, <1>12, <1>13,
     <1>14, <1>15, <1>16, <1>17, <1>18, <1>19 DEF Next, Step

\* Whoever gets past the deployment finds the whole package of its release, whatever
\* other installations deploy, fail at and leave half done, in any number of
\* databases: except with the hash of another database, or after another release.
THEOREM DeploymentIsWhole == Spec => []Deployed
<1>1. Init => Accounted /\ Backed
    BY DEF Init, Accounted, Backed, Past
<1>2. TypeInv /\ Accounted /\ Backed /\ [Next]_vars => Accounted' /\ Backed'
    BY AccountedStep, BackedStep DEF TypeInv
<1>3. TypeInv /\ Accounted /\ Backed => Deployed
    <2> SUFFICES ASSUME TypeInv, Accounted, Backed, NEW c \in Clients, pc[c] \in Past,
                        c \notin strayed, releases[db[c]] \subseteq {release[c]}
                 PROVE  spec[db[c]] = release[c] /\ body[db[c]] = release[c]
        BY DEF Deployed
    <2>1. db[c] \in Dbs /\ body[db[c]] # 0
        BY InstalledRelease DEF TypeInv, Backed
    <2> QED BY <2>1 DEF Accounted
<1> QED BY <1>1, <1>2, <1>3, TypeInvariant, PTL DEF Spec

-----------------------------------------------------------------------------
(* The check package *)

\* While the check package is there, some installation has begun its check and not
\* passed it.
Unfinished ==
    \A d \in Dbs : "spec" \in checker[d] =>
        \E c \in Clients : d \in begun[c] /\ d \notin validated[c]

\* Who is at the check of a database has begun it and has no mark.
Checking ==
    \A c \in Clients :
        /\ pc[c] = "check" => db[c] \notin validated[c]
        /\ pc[c] \in {"checkerSpec", "checkerBody", "report", "save", "drop"} =>
               db[c] \in begun[c] /\ db[c] \notin validated[c]

\* The mark comes after the check.
LEMMA CheckingStep ==
    ASSUME ClientOK, Checking, [Next]_vars
    PROVE  Checking'
<1> USE DEF At, Goto, schema, client, hash, history, bounds
<1>1. ASSUME NEW c \in Clients, FindChecker(c) PROVE Checking'
  <2>1. /\ UNCHANGED <<db, validated>> /\ \A e \in Clients \ {c} : pc'[e] = pc[e]
        /\ pc[c] = "check" /\ pc'[c] # "check"
        /\ begun' = [begun EXCEPT ![c] = begun[c] \cup {db[c]}]
    BY <1>1 DEF FindChecker, ClientOK
  <2> QED BY <2>1 DEF Checking, ClientOK
<1>2. ASSUME NEW c \in Clients, DeployCheckerSpec(c) PROVE Checking'
  <2>1. /\ UNCHANGED <<db, begun, validated>> /\ \A e \in Clients \ {c} : pc'[e] = pc[e]
        /\ pc[c] \in {"checkerSpec", "checkerBody", "report", "save", "drop"} /\ pc'[c] # "check"
    BY <1>2 DEF DeployCheckerSpec, ClientOK, Labels, Resting, Checks, Past
  <2> QED BY <2>1 DEF Checking, ClientOK
<1>3. ASSUME NEW c \in Clients, DeployCheckerBody(c) PROVE Checking'
  <2>1. /\ UNCHANGED <<db, begun, validated>> /\ \A e \in Clients \ {c} : pc'[e] = pc[e]
        /\ pc[c] \in {"checkerSpec", "checkerBody", "report", "save", "drop"} /\ pc'[c] # "check"
    BY <1>3 DEF DeployCheckerBody, ClientOK, Labels, Resting, Checks, Past
  <2> QED BY <2>1 DEF Checking, ClientOK
<1>4. ASSUME NEW c \in Clients, Report(c) PROVE Checking'
  <2>1. /\ UNCHANGED <<db, begun, validated>> /\ \A e \in Clients \ {c} : pc'[e] = pc[e]
        /\ pc[c] = "report" /\ pc'[c] # "check"
    BY <1>4 DEF Report, ClientOK, Labels, Resting, Checks, Past
  <2> QED BY <2>1 DEF Checking, ClientOK
<1>5. ASSUME NEW c \in Clients, SaveVerdict(c) PROVE Checking'
  <2>1. /\ UNCHANGED <<db, begun, validated>> /\ \A e \in Clients \ {c} : pc'[e] = pc[e]
        /\ pc[c] \in {"checkerSpec", "checkerBody", "report", "save", "drop"} /\ pc'[c] # "check"
    BY <1>5 DEF SaveVerdict, ClientOK, Labels, Resting, Checks, Past
  <2> QED BY <2>1 DEF Checking, ClientOK
<1>6. ASSUME NEW c \in Clients, DropChecker(c) PROVE Checking'
  <2>1. /\ UNCHANGED <<db, begun>> /\ \A e \in Clients \ {c} : pc'[e] = pc[e]
        /\ pc'[c] = "exists" /\ validated' = [validated EXCEPT ![c] = validated[c] \cup {db[c]}]
    BY <1>6 DEF DropChecker, ClientOK
  <2> QED BY <2>1 DEF Checking, ClientOK
<1>7. ASSUME NEW c \in Clients, Cleanup(c) PROVE Checking'
  <2>1. /\ UNCHANGED <<db, begun, validated>> /\ \A e \in Clients \ {c} : pc'[e] = pc[e]
        /\ pc'[c] \notin {"check"} \cup {"checkerSpec", "checkerBody", "report", "save", "drop"}
    BY <1>7 DEF Cleanup, ClientOK, Labels, Resting, Checks, Past
  <2> QED BY <2>1 DEF Checking, ClientOK
<1>8. ASSUME NEW c \in Clients, PackageExists(c) PROVE Checking'
  <2>1. /\ UNCHANGED <<db, begun, validated>> /\ \A e \in Clients \ {c} : pc'[e] = pc[e]
        /\ pc'[c] \notin {"check"} \cup {"checkerSpec", "checkerBody", "report", "save", "drop"}
    BY <1>8 DEF PackageExists, ClientOK, Labels, Resting, Checks, Past
  <2> QED BY <2>1 DEF Checking, ClientOK
<1>9. ASSUME NEW c \in Clients, DeploySpec(c) PROVE Checking'
  <2>1. /\ UNCHANGED <<db, begun, validated>> /\ \A e \in Clients \ {c} : pc'[e] = pc[e]
        /\ pc'[c] \notin {"check"} \cup {"checkerSpec", "checkerBody", "report", "save", "drop"}
    BY <1>9 DEF DeploySpec, ClientOK, Labels, Resting, Checks, Past
  <2> QED BY <2>1 DEF Checking, ClientOK
<1>10. ASSUME NEW c \in Clients, DeployBody(c) PROVE Checking'
  <2>1. /\ UNCHANGED <<db, begun, validated>> /\ \A e \in Clients \ {c} : pc'[e] = pc[e]
        /\ pc'[c] \notin {"check"} \cup {"checkerSpec", "checkerBody", "report", "save", "drop"}
    BY <1>10 DEF DeployBody, ClientOK, Labels, Resting, Checks, Past
  <2> QED BY <2>1 DEF Checking, ClientOK
<1>11. ASSUME NEW c \in Clients, StoreHash(c) PROVE Checking'
  <2>1. /\ UNCHANGED <<db, begun, validated>> /\ \A e \in Clients \ {c} : pc'[e] = pc[e]
        /\ pc'[c] \notin {"check"} \cup {"checkerSpec", "checkerBody", "report", "save", "drop"}
    BY <1>11 DEF StoreHash, ClientOK, Labels, Resting, Checks, Past
  <2> QED BY <2>1 DEF Checking, ClientOK
<1>12. ASSUME NEW c \in Clients, Initialize(c) PROVE Checking'
  <2>1. /\ UNCHANGED <<db, begun, validated>> /\ \A e \in Clients \ {c} : pc'[e] = pc[e]
        /\ pc'[c] \notin {"check"} \cup {"checkerSpec", "checkerBody", "report", "save", "drop"}
    BY <1>12 DEF Initialize, ClientOK, Labels, Resting, Checks, Past
  <2> QED BY <2>1 DEF Checking, ClientOK
<1>13. ASSUME NEW c \in Clients, StartQueue(c) PROVE Checking'
  <2>1. /\ UNCHANGED <<db, begun, validated>> /\ \A e \in Clients \ {c} : pc'[e] = pc[e]
        /\ pc'[c] \notin {"check"} \cup {"checkerSpec", "checkerBody", "report", "save", "drop"}
    BY <1>13 DEF StartQueue, ClientOK, Labels, Resting, Checks, Past
  <2> QED BY <2>1 DEF Checking, ClientOK
<1>14. ASSUME NEW c \in Clients, Register(c) PROVE Checking'
  <2>1. /\ UNCHANGED <<db, begun, validated>> /\ \A e \in Clients \ {c} : pc'[e] = pc[e]
        /\ pc'[c] \notin {"check"} \cup {"checkerSpec", "checkerBody", "report", "save", "drop"}
    BY <1>14 DEF Register, ClientOK, Labels, Resting, Checks, Past
  <2> QED BY <2>1 DEF Checking, ClientOK
<1>15. ASSUME NEW c \in Clients, NEW d \in Dbs, Connect(c, d) PROVE Checking'
  <2>1. /\ UNCHANGED <<begun, validated>>
        /\ \A e \in Clients \ {c} : pc'[e] = pc[e] /\ db'[e] = db[e]
        /\ pc'[c] = "exists" \/ (pc'[c] = "check" /\ db'[c] \notin validated[c])
    BY <1>15 DEF Connect, ClientOK
  <2> QED BY <2>1 DEF Checking, ClientOK
<1>16. ASSUME NEW c \in Clients, NEW r \in Release, Leave(c, r) PROVE Checking'
  <2>1. /\ UNCHANGED <<db, begun, validated>> /\ \A e \in Clients \ {c} : pc'[e] = pc[e]
        /\ pc'[c] \notin {"check"} \cup {"checkerSpec", "checkerBody", "report", "save", "drop"}
    BY <1>16 DEF Leave, ClientOK, Labels, Resting, Checks, Past
  <2> QED BY <2>1 DEF Checking, ClientOK
<1>17. ASSUME NEW c \in Clients, Fault(c) PROVE Checking'
  <2>1. /\ UNCHANGED <<db, begun, validated>> /\ \A e \in Clients \ {c} : pc'[e] = pc[e]
        /\ pc'[c] \notin {"check"} \cup {"checkerSpec", "checkerBody", "report", "save", "drop"}
    BY <1>17 DEF Fault, ClientOK, Labels, Resting, Checks, Past
  <2> QED BY <2>1 DEF Checking, ClientOK
<1>18. ASSUME NEW c \in Clients, Kill(c) PROVE Checking'
  <2>1. /\ UNCHANGED <<db, begun, validated>> /\ \A e \in Clients \ {c} : pc'[e] = pc[e]
        /\ pc'[c] \notin {"check"} \cup {"checkerSpec", "checkerBody", "report", "save", "drop"}
    BY <1>18 DEF Kill, ClientOK, Labels, Resting, Checks, Past
  <2> QED BY <2>1 DEF Checking, ClientOK
<1>19. CASE UNCHANGED vars
  <2>1. UNCHANGED <<db, begun, validated, pc>>
    BY <1>19 DEF vars
  <2> QED BY <2>1 DEF Checking, ClientOK
<1> QED
  BY <1>1, <1>2, <1>3, <1>4, <1>5, <1>6, <1>7, <1>8, <1>9, <1>10, <1>11, <1>12, <1>13,
     <1>14, <1>15, <1>16, <1>17, <1>18, <1>19 DEF Next, Step

\* Who marks its connection has dropped the package, and who deploys it has no mark.
LEMMA UnfinishedStep ==
    ASSUME SchemaOK, ClientOK, Checking, Unfinished, [Next]_vars
    PROVE  Unfinished'
<1> USE DEF At, Goto, schema, client, hash, history, bounds
<1>1. ASSUME NEW c \in Clients, FindChecker(c) PROVE Unfinished'
  <2>1. UNCHANGED <<checker, validated>> /\ \A e \in Clients : begun[e] \subseteq begun'[e]
    BY <1>1 DEF FindChecker, ClientOK
  <2> QED BY <2>1 DEF Unfinished
<1>2. ASSUME NEW c \in Clients, DeployCheckerSpec(c) PROVE Unfinished'
  <2>1. UNCHANGED <<begun, validated>> /\ \A d \in Dbs \ {db[c]} : checker'[d] = checker[d]
    BY <1>2 DEF DeployCheckerSpec, SchemaOK
  <2>2. db[c] \in begun[c] /\ db[c] \notin validated[c]
    BY <1>2 DEF DeployCheckerSpec, Checking
  <2> QED BY <2>1, <2>2 DEF Unfinished
<1>3. ASSUME NEW c \in Clients, DeployCheckerBody(c) PROVE Unfinished'
  <2>1. /\ UNCHANGED <<begun, validated>>
        /\ \A d \in Dbs : "spec" \in checker'[d] => "spec" \in checker[d]
    BY <1>3 DEF DeployCheckerBody, SchemaOK
  <2> QED BY <2>1 DEF Unfinished
<1>4. ASSUME NEW c \in Clients, Report(c) PROVE Unfinished'
  <2>1. UNCHANGED <<checker, begun, validated>>
    BY <1>4 DEF Report
  <2> QED BY <2>1 DEF Unfinished
<1>5. ASSUME NEW c \in Clients, SaveVerdict(c) PROVE Unfinished'
  <2>1. UNCHANGED <<checker, begun, validated>>
    BY <1>5 DEF SaveVerdict
  <2> QED BY <2>1 DEF Unfinished
<1>6. ASSUME NEW c \in Clients, DropChecker(c) PROVE Unfinished'
  <2>1. /\ begun' = begun /\ validated' = [validated EXCEPT ![c] = validated[c] \cup {db[c]}]
        /\ \A d \in Dbs : "spec" \in checker'[d] => "spec" \in checker[d] /\ d # db[c]
    BY <1>6, DroppedPackage DEF DropChecker
  <2>2. \A d \in Dbs, e \in Clients :
            d # db[c] /\ d \notin validated[e] => d \notin validated'[e]
    BY <2>1 DEF ClientOK
  <2> QED BY <2>1, <2>2 DEF Unfinished
<1>7. ASSUME NEW c \in Clients, Cleanup(c) PROVE Unfinished'
  <2>1. /\ UNCHANGED <<begun, validated>>
        /\ \A d \in Dbs : "spec" \in checker'[d] => "spec" \in checker[d]
    BY <1>7, DroppedPackage DEF Cleanup
  <2> QED BY <2>1 DEF Unfinished
<1>8. ASSUME NEW c \in Clients, PackageExists(c) PROVE Unfinished'
  <2>1. UNCHANGED <<checker, begun, validated>>
    BY <1>8 DEF PackageExists
  <2> QED BY <2>1 DEF Unfinished
<1>9. ASSUME NEW c \in Clients, DeploySpec(c) PROVE Unfinished'
  <2>1. UNCHANGED <<checker, begun, validated>>
    BY <1>9 DEF DeploySpec
  <2> QED BY <2>1 DEF Unfinished
<1>10. ASSUME NEW c \in Clients, DeployBody(c) PROVE Unfinished'
  <2>1. UNCHANGED <<checker, begun, validated>>
    BY <1>10 DEF DeployBody
  <2> QED BY <2>1 DEF Unfinished
<1>11. ASSUME NEW c \in Clients, StoreHash(c) PROVE Unfinished'
  <2>1. UNCHANGED <<checker, begun, validated>>
    BY <1>11 DEF StoreHash
  <2> QED BY <2>1 DEF Unfinished
<1>12. ASSUME NEW c \in Clients, Initialize(c) PROVE Unfinished'
  <2>1. UNCHANGED <<checker, begun, validated>>
    BY <1>12 DEF Initialize
  <2> QED BY <2>1 DEF Unfinished
<1>13. ASSUME NEW c \in Clients, StartQueue(c) PROVE Unfinished'
  <2>1. UNCHANGED <<checker, begun, validated>>
    BY <1>13 DEF StartQueue
  <2> QED BY <2>1 DEF Unfinished
<1>14. ASSUME NEW c \in Clients, Register(c) PROVE Unfinished'
  <2>1. UNCHANGED <<checker, begun, validated>>
    BY <1>14 DEF Register
  <2> QED BY <2>1 DEF Unfinished
<1>15. ASSUME NEW c \in Clients, NEW d \in Dbs, Connect(c, d) PROVE Unfinished'
  <2>1. UNCHANGED <<checker, begun, validated>>
    BY <1>15 DEF Connect
  <2> QED BY <2>1 DEF Unfinished
<1>16. ASSUME NEW c \in Clients, NEW r \in Release, Leave(c, r) PROVE Unfinished'
  <2>1. UNCHANGED <<checker, begun, validated>>
    BY <1>16 DEF Leave
  <2> QED BY <2>1 DEF Unfinished
<1>17. ASSUME NEW c \in Clients, Fault(c) PROVE Unfinished'
  <2>1. UNCHANGED <<checker, begun, validated>>
    BY <1>17 DEF Fault
  <2> QED BY <2>1 DEF Unfinished
<1>18. ASSUME NEW c \in Clients, Kill(c) PROVE Unfinished'
  <2>1. UNCHANGED <<checker, begun, validated>>
    BY <1>18 DEF Kill
  <2> QED BY <2>1 DEF Unfinished
<1>19. CASE UNCHANGED vars
  <2>1. UNCHANGED <<checker, begun, validated>>
    BY <1>19 DEF vars
  <2> QED BY <2>1 DEF Unfinished
<1> QED
  BY <1>1, <1>2, <1>3, <1>4, <1>5, <1>6, <1>7, <1>8, <1>9, <1>10, <1>11, <1>12, <1>13,
     <1>14, <1>15, <1>16, <1>17, <1>18, <1>19 DEF Next, Step

\* The check package is in a database only as long as an installation has begun its
\* check there and not passed it, however many checks ran into each other, failed or
\* were killed, and whichever databases the programs went to meanwhile.
THEOREM CheckerIsDropped == Spec => []NothingLeft
<1>1. Init => Checking /\ Unfinished
    BY DEF Init, Checking, Unfinished
<1>2. TypeInv /\ Checking /\ Unfinished /\ [Next]_vars => Checking' /\ Unfinished'
    BY CheckingStep, UnfinishedStep DEF TypeInv
<1>3. Unfinished => NothingLeft
    BY DEF Unfinished, NothingLeft
<1> QED BY <1>1, <1>2, <1>3, TypeInvariant, PTL DEF Spec
=============================================================================

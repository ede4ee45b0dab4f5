-------------------------- MODULE SettingsStoreProofs --------------------------
(***************************************************************************)
(* For every number of keys, databases, users, starts and writes, and for a *)
(* careless user as well: the default pointer has its record, nothing      *)
(* counts as validated whose schema was never found sufficient (unless a    *)
(* late verdict was taken for another connection), the default is given up  *)
(* only where the user did so, and what is gone comes back only as the      *)
(* active connection.  For a careful user the store implements       *)
(* SettingsPromise.  The last section is about the key of the passwords in  *)
(* the store, CredentialKey.                                               *)
(***************************************************************************)
EXTENDS SettingsStore, CredentialKey, TLAPS

-----------------------------------------------------------------------------
(* The values that are written *)

LEMMA NoneIsNoValue ==
    /\ None \notin Record /\ None \notin Active /\ None \notin Form
    /\ None \notin Keys /\ None \notin Chain
  BY NoneAssumption, SettingsAssumption DEF NoneAssumption, SettingsAssumption

LEMMA NewRecords ==
    ASSUME NEW c \in Conns
    PROVE  /\ New(c) \in Record /\ ~New(c).isDefault /\ ~New(c).validated
           /\ [New(c) EXCEPT !.isDefault = TRUE] \in Record
           /\ [New(c) EXCEPT !.isDefault = TRUE].isDefault
           /\ ~[New(c) EXCEPT !.isDefault = TRUE].validated
  BY DEF New, Record

LEMMA ActiveRecords ==
    ASSUME NEW k \in Keys, NEW r \in Record
    PROVE  /\ ActiveOf(k, r) \in Active
           /\ ActiveOf(k, r).conn = r.conn /\ ActiveOf(k, r).validated = r.validated
  BY DEF ActiveOf, Active, Record

LEMMA StoredActive ==
    ASSUME NEW a \in Active
    PROVE  /\ RecordOf(a) \in Record
           /\ RecordOf(a).conn = a.conn /\ RecordOf(a).validated = a.validated
           /\ a.key \in Keys /\ a.conn \in Conns /\ a.conn.user \in Users
  BY DEF RecordOf, Active, Record, Conns

LEMMA MarkedActive ==
    ASSUME NEW a \in Active
    PROVE  /\ [a EXCEPT !.validated = TRUE] \in Active
           /\ [a EXCEPT !.validated = TRUE].conn = a.conn
           /\ [a EXCEPT !.isDefault = FALSE] \in Active
           /\ [a EXCEPT !.isDefault = FALSE].conn = a.conn
           /\ [a EXCEPT !.isDefault = FALSE].validated = a.validated
           /\ [a EXCEPT !.isDefault = FALSE].key = a.key
  BY DEF Active

LEMMA ChosenRecord ==
    ASSUME NEW r \in Record
    PROVE  /\ [r EXCEPT !.isDefault = TRUE] \in Record
           /\ [r EXCEPT !.isDefault = TRUE].conn = r.conn
           /\ [r EXCEPT !.isDefault = TRUE].validated = r.validated
  BY DEF Record

LEMMA EditedRecord ==
    ASSUME NEW r \in Record, NEW c \in Conns
    PROVE  Update(r, c) \in Record /\ ~Update(r, c).validated
  BY DEF Update, Record

\* A copy of a value that is vouched for is vouched for.
LEMMA ChosenVouched ==
    ASSUME NEW r \in Record, Vouched(r)
    PROVE  Vouched([r EXCEPT !.isDefault = TRUE])
  BY NoneIsNoValue DEF Record, Vouched

LEMMA ActiveVouched ==
    ASSUME NEW k \in Keys, NEW r \in Record, Vouched(r)
    PROVE  Vouched(ActiveOf(k, r))
  BY NoneIsNoValue DEF Record, ActiveOf, Vouched

LEMMA ClearedVouched ==
    ASSUME NEW a \in Active, Vouched(a)
    PROVE  /\ Vouched([a EXCEPT !.isDefault = FALSE])
           /\ Vouched(RecordOf([a EXCEPT !.isDefault = FALSE]))
           /\ Vouched(RecordOf(a))
  BY NoneIsNoValue DEF Active, RecordOf, Vouched

-----------------------------------------------------------------------------
(* The transactions, as long as the pointer names a new key *)

Bucket == records \in [Keys -> Record \cup {None}] /\ pointer \in Keys \cup {None}
Named == pointer # None => records[pointer] # None

LEMMA SaveStep ==
    ASSUME Bucket, Named, NEW k \in Keys, NEW r \in Record, Save(k, r)
    PROVE  /\ Bucket' /\ Named'
           /\ records'[k] = r
           /\ \A x \in Keys : records'[x] = r \/ records'[x] = records[x]
  BY NoneIsNoValue DEF Bucket, Named, Save

LEMMA DeleteStep ==
    ASSUME Bucket, Named, NEW k \in Keys, Delete(k)
    PROVE  /\ Bucket' /\ Named'
           /\ \A x \in Keys : records'[x] = None \/ records'[x] = records[x]
  BY NoneIsNoValue DEF Bucket, Named, Delete

LEMMA ReplaceStep ==
    ASSUME Bucket, Named, NEW old \in Keys, NEW k \in Keys, NEW r \in Record,
           Replace(old, k, r)
    PROVE  /\ Bucket' /\ Named'
           /\ \A x \in Keys :
                  records'[x] = r \/ records'[x] = None \/ records'[x] = records[x]
<1>1. records' \in [Keys -> Record \cup {None}]
  BY DEF Bucket, Replace
<1>2. /\ records'[k] = r
      /\ k # old => records'[old] = None
      /\ \A x \in Keys \ {old, k} : records'[x] = records[x]
  BY DEF Bucket, Replace
<1>3. pointer' \in {None, k} \/ (pointer' = pointer /\ (pointer = old => old = k))
  BY DEF Replace
<1> QED
  BY <1>1, <1>2, <1>3, NoneIsNoValue DEF Bucket, Named

LEMMA SwitchStep ==
    ASSUME Bucket, Named, NEW previous \in Active \cup {None}, NEW k \in Keys,
           NEW r \in Record, SwitchDefault(previous, k, r)
    PROVE  /\ Bucket' /\ Named'
           /\ records'[k] = r
           /\ \A x \in Keys : \/ records'[x] = r \/ records'[x] = records[x]
                              \/ previous # None /\ records'[x] = RecordOf(previous)
<1>1. previous # None => RecordOf(previous) \in Record
  BY StoredActive
<1> QED
  BY <1>1, NoneIsNoValue DEF Bucket, Named, SwitchDefault

-----------------------------------------------------------------------------
(* The chains of commands *)

LEMMA ActiveConn ==
    ASSUME NEW a \in Active PROVE a.conn \in Conns
  BY DEF Active

\* A step that starts, continues or ends a chain makes no chain "checked".
NoNewCheck ==
    /\ chains' \in [Slots -> Chain \cup {None}]
    /\ \A x \in Slots : AtStage(x, "checked")' => chains'[x] = chains[x]

LEMMA BeginStep ==
    ASSUME Commands, NEW c \in Slots, NEW conn \in Conns, Begin(c, conn)
    PROVE  NoNewCheck
<1> DEFINE new == [stage |-> "connect", conn |-> conn]
<1>1. new \in Chain /\ new.stage = "connect"
  BY DEF Chain, Stages
<1>2. chains' = [chains EXCEPT ![c] = new]
  BY DEF Begin
<1> HIDE DEF new
<1> QED
  BY <1>1, <1>2 DEF Commands, NoNewCheck, AtStage

LEMMA IssueStep ==
    ASSUME Commands, NEW c \in Slots, appConfig \in Active,
           NEW s \in Stages, s # "checked", Issue(c, s)
    PROVE  NoNewCheck
<1> DEFINE new == [stage |-> s, conn |-> appConfig.conn]
<1>1. new \in Chain /\ new.stage = s
  BY ActiveConn DEF Chain
<1>2. chains' = [chains EXCEPT ![c] = new]
  BY DEF Issue
<1> HIDE DEF new
<1> QED
  BY <1>1, <1>2 DEF Commands, NoNewCheck, AtStage

LEMMA FinishStep ==
    ASSUME Commands, NEW c \in Slots, Finish(c)
    PROVE  NoNewCheck
  BY DEF Commands, NoNewCheck, Finish, AtStage

LEMMA KeepStep ==
    ASSUME Commands, UNCHANGED chains
    PROVE  NoNewCheck
  BY DEF Commands, NoNewCheck

-----------------------------------------------------------------------------
(* The steps of the system, one case each *)

\* The commands of the loading sequence write no setting, but for what a permission
\* check saves.
CommandStep ==
    \/ \E c \in Slots : Connected(c) \/ Ready(c) \/ LoadingFails(c)
                            \/ ResultDropped(c) \/ Retry(c)
    \/ \E c \in Slots, conn \in Conns : CheckPermissions(c, conn)
    \/ AskSwitch \/ AskDropped \/ SwitchFails

Opening == OpenOverlay \/ OpenAsked

LEMMA StepCases ==
    ASSUME [Next]_vars
    PROVE  \/ Start
           \/ Exit
           \/ \E k \in Keys, c \in Conns : Onboard(k, c)
           \/ CommandStep
           \/ \E c \in Slots : PermissionsChecked(c)
           \/ Opening
           \/ CloseOverlay
           \/ \E old \in Keys \cup {None}, k \in Keys, c \in Conns : Submit(old, k, c)
           \/ RunAdd
           \/ LoadEdited
           \/ RunEdit
           \/ \E seen \in BOOLEAN : Reload(seen)
           \/ \E k \in Keys : DeleteConfirmed(k)
           \/ \E k \in Keys : SetAsMain(k)
           \/ UNCHANGED vars
  BY DEF Next, CommandStep, Opening

\* What the commands and the opening of the overlay leave alone
LEMMA CommandLeaves ==
    ASSUME CommandStep
    PROVE  /\ UNCHANGED <<records, legacy, pointer, oldStyle, appConfig, overlay, list,
                          activeID, saving, loaded, reload, careful, gone, misled>>
           /\ phase' = phase \/ (phase = "loading" /\ phase' = "main")
<1> USE DEF bucket, session, panel, forms, checks, aside, pending
<1>1. ASSUME NEW c \in Slots,
             \/ Connected(c) \/ Ready(c) \/ LoadingFails(c) \/ ResultDropped(c) \/ Retry(c)
      PROVE  /\ UNCHANGED <<records, legacy, pointer, oldStyle, appConfig, overlay, list,
                            activeID, saving, loaded, reload, careful, gone, misled>>
             /\ phase' = phase \/ (phase = "loading" /\ phase' = "main")
  BY <1>1 DEF Connected, Ready, LoadingFails, ResultDropped, Retry, Loading
<1>2. ASSUME NEW c \in Slots, NEW conn \in Conns, CheckPermissions(c, conn)
      PROVE  /\ UNCHANGED <<records, legacy, pointer, oldStyle, appConfig, overlay, list,
                            activeID, saving, loaded, reload, careful, gone, misled>>
             /\ phase' = phase
  BY <1>2 DEF CheckPermissions
<1>3. CASE AskSwitch \/ AskDropped \/ SwitchFails
  BY <1>3 DEF AskSwitch, AskDropped, SwitchFails
<1> QED
  BY <1>1, <1>2, <1>3 DEF CommandStep

LEMMA CommandVerdicts ==
    ASSUME CommandStep, Shape
    PROVE  verdicts \subseteq verdicts' /\ verdicts' \subseteq Users
<1>1. ASSUME NEW c \in Slots, NEW conn \in Conns, CheckPermissions(c, conn)
      PROVE  verdicts \subseteq verdicts' /\ verdicts' \subseteq Users
  BY <1>1 DEF CheckPermissions, Shape, Conns
<1>2. ASSUME ~\E c \in Slots, conn \in Conns : CheckPermissions(c, conn)
      PROVE  UNCHANGED verdicts
  BY <1>2 DEF CommandStep, Connected, Ready, LoadingFails, ResultDropped, Retry, AskSwitch,
     AskDropped, SwitchFails, checks
<1> QED
  BY <1>1, <1>2 DEF Shape

LEMMA OpeningLeaves ==
    ASSUME Opening
    PROVE  /\ UNCHANGED <<bucket, checks, session, forms, aside, events, chains>>
           /\ phase \in {"loading", "main"} /\ Quiet /\ Show
  BY DEF Opening, OpenOverlay, OpenAsked, Loading, pending

LEMMA FlagsStep ==
    ASSUME Flags, [Next]_vars
    PROVE  Flags'
<1> USE DEF Flags, vars, bucket, session, panel, forms, aside, pending, checks
<1>1. CASE Start
BY <1>1, Zenon DEF Start, StartWith
<1>2. CASE Exit
BY <1>2, Zenon DEF Exit
<1>3. ASSUME NEW k \in Keys, NEW c \in Conns, Onboard(k, c)
      PROVE  Flags'
BY <1>3, Zenon DEF Onboard
<1>4. CASE CommandStep
  <2>1. ASSUME NEW c \in Slots, Connected(c) PROVE Flags'
    BY <2>1, Zenon DEF Connected
  <2>2. ASSUME NEW c \in Slots, Ready(c) PROVE Flags'
    BY <2>2, Zenon DEF Ready
  <2>3. ASSUME NEW c \in Slots, LoadingFails(c) PROVE Flags'
    BY <2>3, Zenon DEF LoadingFails
  <2>4. ASSUME NEW c \in Slots, ResultDropped(c) PROVE Flags'
    BY <2>4, Zenon DEF ResultDropped
  <2>5. ASSUME NEW c \in Slots, Retry(c) PROVE Flags'
    BY <2>5, Zenon DEF Retry
  <2>6. ASSUME NEW c \in Slots, NEW conn \in Conns, CheckPermissions(c, conn)
        PROVE  Flags'
    BY <2>6, Zenon DEF CheckPermissions
  <2>7. CASE AskSwitch
    BY <2>7, Zenon DEF AskSwitch
  <2>8. CASE AskDropped
    BY <2>8, Zenon DEF AskDropped
  <2>9. CASE SwitchFails
    BY <2>9, Zenon DEF SwitchFails
  <2> QED
    BY <1>4, <2>1, <2>2, <2>3, <2>4, <2>5, <2>6, <2>7, <2>8, <2>9, Zenon DEF CommandStep
<1>5. ASSUME NEW c \in Slots, PermissionsChecked(c)
      PROVE  Flags'
  <2>1. misled' \in BOOLEAN
    BY <1>5, Zenon DEF PermissionsChecked
  <2> QED
    BY <1>5, <2>1, Zenon DEF PermissionsChecked
<1>6. CASE OpenOverlay
BY <1>6, Zenon DEF OpenOverlay, Show
<1>7. CASE OpenAsked
BY <1>7, Zenon DEF OpenAsked, Show
<1>8. CASE CloseOverlay
BY <1>8, Zenon DEF CloseOverlay
<1>9. ASSUME NEW old \in Keys \cup {None}, NEW k \in Keys, NEW c \in Conns, Submit(old, k, c)
      PROVE  Flags'
BY <1>9, Zenon DEF Submit
<1>10. CASE RunAdd
BY <1>10, Zenon DEF RunAdd
<1>11. CASE LoadEdited
BY <1>11, Zenon DEF LoadEdited
<1>12. CASE RunEdit
BY <1>12, Zenon DEF RunEdit
<1>13. ASSUME NEW seen \in BOOLEAN, Reload(seen)
       PROVE  Flags'
BY <1>13, Zenon DEF Reload
<1>14. ASSUME NEW k \in Keys, DeleteConfirmed(k)
       PROVE  Flags'
BY <1>14, Zenon DEF DeleteConfirmed
<1>15. ASSUME NEW k \in Keys, SetAsMain(k)
       PROVE  Flags'
BY <1>15, Zenon DEF SetAsMain
<1>16. CASE UNCHANGED vars
  BY <1>16, Zenon
<1> QED
  BY <1>1, <1>2, <1>3, <1>4, <1>5, <1>6, <1>7, <1>8, <1>9, <1>10, <1>11, <1>12, <1>13,
     <1>14, <1>15, <1>16, StepCases DEF Opening

-----------------------------------------------------------------------------
(* The inductive invariant *)

\* The pointer names an old key only before the first start.
OldStyleFirst == oldStyle => phase = "down" /\ saving = None

\* A permission check that has passed left a verdict of the schema it was about.
CheckedVouched ==
    \A c \in Slots : AtStage(c, "checked") => chains[c].conn.user \in verdicts

IInv == TypeOK /\ OldStyleFirst /\ PointerHasRecord /\ CheckedVouched /\ ValidatedHasVerdict

\* The bucket is in its new form whenever something is written.
LEMMA BucketNow ==
    ASSUME IInv, phase # "down" \/ saving # None
    PROVE  ~oldStyle /\ Bucket /\ Named
  BY DEF IInv, OldStyleFirst, TypeOK, Shape, PointerHasRecord, Bucket, Named

\* An edit under way has its form and the record it loaded.
LEMMA EditNow ==
    ASSUME IInv, loaded # None
    PROVE  /\ saving # None /\ saving.old \in Keys /\ saving.key \in Keys
           /\ saving.conn \in Conns /\ loaded \in Record
  BY DEF IInv, TypeOK, Shape, Form

LEMMA ShapeStep ==
    ASSUME IInv, [Next]_vars
    PROVE  Shape'
<1> USE DEF IInv, TypeOK, vars, bucket, session, panel, forms, aside, checks, pending
<1>1. CASE Start
  <2>1. /\ records' \in [Keys -> Record \cup {None}]
        /\ legacy' \in [Keys -> Record \cup {None}]
    BY <1>1 DEF Start, StartWith, Nothing, Shape
  <2>2. /\ appConfig' \in Active \cup {None} /\ phase' \in {"onboarding", "loading"}
        /\ (phase' = "loading" <=> appConfig' # None)
    <3>1. CASE pointer = None
      BY <1>1, <3>1 DEF Start, StartWith, Shape
    <3>2. CASE pointer # None
      <4>1. pointer \in Keys /\ records'[pointer] \in Record
        BY <1>1, <3>2 DEF Start, StartWith, Shape, PointerHasRecord
      <4>2. appConfig' = ActiveOf(pointer, records'[pointer]) /\ phase' = "loading"
        BY <1>1, <3>2 DEF Start, StartWith
      <4> QED
        BY <4>1, <4>2, ActiveRecords, NoneIsNoValue
    <3> QED
      BY <3>1, <3>2
  <2>3. /\ UNCHANGED <<pointer, verdicts, overlay, list, activeID, saving, loaded, gone>>
        /\ phase = "down"
    BY <1>1, SettingsAssumption DEF Start, StartWith, SettingsAssumption, Shape
  <2> QED
    BY <2>1, <2>2, <2>3 DEF Shape
<1>2. CASE Exit
BY <1>2 DEF Exit, Shape, Nothing
<1>3. ASSUME NEW k \in Keys, NEW c \in Conns, Onboard(k, c)
      PROVE  Shape'
  <2>1. [New(c) EXCEPT !.isDefault = TRUE] \in Record
    BY NewRecords
  <2>2. Bucket' /\ records'[k] = [New(c) EXCEPT !.isDefault = TRUE]
    BY <1>3, <2>1, BucketNow, SaveStep DEF Onboard
  <2>3. appConfig' \in Active
    BY <1>3, <2>1, <2>2, ActiveRecords DEF Onboard
  <2> QED
    BY <1>3, <2>2, <2>3, NoneIsNoValue DEF Onboard, Bucket, Shape
<1>4. CASE CommandStep
  <2>1. appConfig # None => phase' \in {"loading", "main"}
    BY <1>4, CommandLeaves DEF Shape
  <2> QED
    BY <1>4, <2>1, CommandLeaves, CommandVerdicts DEF Shape
<1>5. ASSUME NEW c \in Slots, PermissionsChecked(c)
      PROVE  Shape'
  <2>1. appConfig' \in Active /\ RecordOf(appConfig') \in Record
    BY <1>5, MarkedActive, StoredActive DEF PermissionsChecked, Loading, Shape
  <2>2. Bucket'
    BY <1>5, <2>1, BucketNow, SaveStep, StoredActive
    DEF PermissionsChecked, Loading, Shape
  <2> QED
    BY <1>5, <2>1, <2>2, NoneIsNoValue DEF PermissionsChecked, Loading, Bucket, Shape
<1>6. CASE Opening
BY <1>6, OpeningLeaves DEF Show, Shape, Active
<1>7. CASE CloseOverlay
BY <1>7 DEF CloseOverlay, Shape, Nothing
<1>8. ASSUME NEW old \in Keys \cup {None}, NEW k \in Keys, NEW c \in Conns, Submit(old, k, c)
      PROVE  Shape'
  <2>1. saving' \in Form /\ loaded = None
    BY <1>8 DEF Submit, Form, Shape
  <2> QED
    BY <1>8, <2>1, SettingsAssumption DEF Submit, Shape, SettingsAssumption
<1>9. CASE RunAdd
  <2>1. saving.key \in Keys /\ saving.conn \in Conns /\ loaded = None
    BY <1>9 DEF RunAdd, Shape, Form
  <2>2. Bucket'
    BY <1>9, <2>1, BucketNow, SaveStep, NewRecords DEF RunAdd
  <2> QED
    BY <1>9, <2>1, <2>2 DEF RunAdd, Bucket, Shape
<1>10. CASE LoadEdited
  <2>1. /\ saving' \in Form \cup {None} /\ loaded' \in Record \cup {None}
        /\ loaded' # None => saving' # None /\ saving'.old # None
    <3>1. saving.old \in Keys
      BY <1>10 DEF LoadEdited, Shape, Form
    <3> QED
      BY <1>10, <3>1 DEF LoadEdited, Shape
  <2> QED
    BY <1>10, <2>1 DEF LoadEdited, Shape
<1>11. CASE RunEdit
  <2>1. Update(loaded, saving.conn) \in Record
    BY <1>11, EditNow, EditedRecord DEF RunEdit
  <2>2. Bucket'
    BY <1>11, <2>1, EditNow, BucketNow, ReplaceStep DEF RunEdit
  <2>3. gone' \subseteq Keys
    BY <1>11, EditNow DEF RunEdit, Shape
  <2> QED
    BY <1>11, <2>2, <2>3 DEF RunEdit, Bucket, Shape
<1>12. ASSUME NEW seen \in BOOLEAN, Reload(seen)
       PROVE  Shape'
BY <1>12 DEF Reload, Shape
<1>13. ASSUME NEW k \in Keys, DeleteConfirmed(k)
       PROVE  Shape'
  <2>1. Bucket'
    BY <1>13, BucketNow, DeleteStep DEF DeleteConfirmed, Shape
  <2> QED
    BY <1>13, <2>1, SettingsAssumption
    DEF DeleteConfirmed, Bucket, Shape, SettingsAssumption
<1>14. ASSUME NEW k \in Keys, SetAsMain(k)
       PROVE  Shape'
  <2>1. list[k] \in Record /\ appConfig \in Active
    BY <1>14 DEF SetAsMain, Shape
  <2>2. [list[k] EXCEPT !.isDefault = TRUE] \in Record
        /\ Cleared(appConfig, k) \in Active \cup {None}
    BY <2>1, ChosenRecord, MarkedActive DEF Cleared
  <2>3. Bucket' /\ records'[k] = [list[k] EXCEPT !.isDefault = TRUE]
    BY <1>14, <2>2, BucketNow, SwitchStep DEF SetAsMain, Shape
  <2>4. appConfig' \in Active
    BY <1>14, <2>2, <2>3, ActiveRecords DEF SetAsMain
  <2> QED
    BY <1>14, <2>3, <2>4, NoneIsNoValue DEF SetAsMain, Bucket, Shape, Nothing
<1>15. CASE UNCHANGED vars
  BY <1>15 DEF Shape
<1> QED
  BY <1>1, <1>2, <1>3, <1>4, <1>5, <1>6, <1>7, <1>8, <1>9, <1>10, <1>11, <1>12, <1>13,
     <1>14, <1>15, StepCases

\* A chain is "checked" only if the permission check has just passed.
LEMMA ChainsStep ==
    ASSUME IInv, [Next]_vars
    PROVE  NoNewCheck \/ \E c \in Slots, conn \in Conns : CheckPermissions(c, conn)
<1> USE DEF IInv, TypeOK
<1>0. Shape'
  BY ShapeStep
<1>a. appConfig # None => appConfig \in Active
  BY DEF Shape
<1>b. appConfig' # None => appConfig' \in Active /\ appConfig'.conn \in Conns
  BY <1>0, ActiveConn DEF Shape
<1>s. {"connect", "check", "deploy"} \subseteq Stages
  BY DEF Stages
<1>1. CASE Start
  <2>1. CASE pointer = None
    BY <1>1, <2>1, KeepStep DEF Start, StartWith
  <2>2. CASE pointer # None
    <3>1. appConfig' # None
      BY <1>0, <1>1, <2>2 DEF Start, StartWith, Shape
    <3> QED
      BY <1>1, <1>b, <2>2, <3>1, BeginStep DEF Start, StartWith
  <2> QED
    BY <2>1, <2>2
<1>2. CASE Exit
BY <1>2 DEF Exit, Idle, NoNewCheck, AtStage
<1>3. ASSUME NEW k \in Keys, NEW c \in Conns, Onboard(k, c)
      PROVE  NoNewCheck
BY <1>3, BeginStep DEF Onboard
<1>4. ASSUME NEW c \in Slots, Connected(c)
      PROVE  NoNewCheck
  <2>1. appConfig # None
    BY <1>4 DEF Connected, Loading, Shape
  <2> QED
    BY <1>4, <1>a, <1>s, <2>1, IssueStep DEF Connected
<1>5. ASSUME NEW c \in Slots, PermissionsChecked(c)
      PROVE  NoNewCheck
  <2>1. appConfig # None /\ appConfig'.conn = appConfig.conn
    BY <1>5, <1>a, MarkedActive DEF PermissionsChecked, Loading, Shape
  <2>2. Issue(c, "deploy")
    BY <1>5 DEF PermissionsChecked
  <2> QED
    BY <1>a, <1>s, <2>1, <2>2, IssueStep
<1>6. ASSUME NEW c \in Slots, Ready(c) \/ LoadingFails(c) \/ ResultDropped(c)
      PROVE  NoNewCheck
BY <1>6, FinishStep DEF Ready, LoadingFails, ResultDropped
<1>7. ASSUME NEW c \in Slots, Retry(c)
      PROVE  NoNewCheck
  <2>1. appConfig # None
    BY <1>7 DEF Retry, Loading, Shape
  <2> QED
    BY <1>7, <1>a, <2>1, ActiveConn, BeginStep DEF Retry
<1>8. CASE AskSwitch \/ AskDropped \/ SwitchFails \/ CloseOverlay \/ RunAdd \/ LoadEdited
           \/ RunEdit \/ Opening
BY <1>8, KeepStep, OpeningLeaves
DEF AskSwitch, AskDropped, SwitchFails, CloseOverlay, RunAdd, LoadEdited, RunEdit, pending
<1>9. ASSUME NEW old \in Keys \cup {None}, NEW k \in Keys, NEW c \in Conns, Submit(old, k, c)
      PROVE  NoNewCheck
BY <1>9, KeepStep DEF Submit, pending
<1>10. ASSUME NEW seen \in BOOLEAN, Reload(seen)
       PROVE  NoNewCheck
BY <1>10, KeepStep DEF Reload, pending
<1>11. ASSUME NEW k \in Keys, DeleteConfirmed(k)
       PROVE  NoNewCheck
BY <1>11, KeepStep DEF DeleteConfirmed, pending
<1>12. ASSUME NEW k \in Keys, SetAsMain(k)
       PROVE  NoNewCheck
  <2>1. appConfig' # None
    BY <1>0, <1>12 DEF SetAsMain, Shape
  <2> QED
    BY <1>12, <1>b, <2>1, BeginStep DEF SetAsMain
<1>13. CASE UNCHANGED vars
  BY <1>13, KeepStep DEF vars, pending
<1> QED
  BY <1>1, <1>2, <1>3, <1>4, <1>5, <1>6, <1>7, <1>8, <1>9, <1>10, <1>11, <1>12, <1>13,
     StepCases DEF CommandStep

LEMMA EventsStep ==
    ASSUME Commands, [Next]_vars
    PROVE  events' \in 0..MaxEvents /\ asks' \in 0..events'
<1> USE SettingsAssumption DEF SettingsAssumption
<1>1. events \in Nat /\ asks \in Nat /\ asks <= events /\ events <= MaxEvents
  BY DEF Commands
<1>2. CASE Event /\ asks' \in {asks, asks + 1}
  BY <1>1, <1>2 DEF Event
<1>3. CASE events' = events /\ (asks' \in {0, asks} \/ (asks > 0 /\ asks' = asks - 1))
  BY <1>1, <1>3
<1>4. CASE CommandStep
  <2>1. CASE AskSwitch
    BY <1>2, <2>1 DEF AskSwitch
  <2>2. CASE AskDropped
    BY <1>3, <2>2 DEF AskDropped
  <2>3. CASE ~AskSwitch /\ ~AskDropped
    BY <1>3, <1>4, <2>3 DEF CommandStep, Connected, Ready, LoadingFails, ResultDropped,
       Retry, CheckPermissions, SwitchFails, pending
  <2> QED
    BY <2>1, <2>2, <2>3
<1>5. CASE Opening
  BY <1>3, <1>5 DEF Opening, OpenOverlay, OpenAsked, pending
<1>6. CASE Exit
  BY <1>3, <1>6 DEF Exit
<1>7. ASSUME ~CommandStep, ~Opening, ~Exit
      PROVE  asks' = asks /\ (events' = events \/ Event)
  BY <1>7, StepCases
  DEF Start, StartWith, Onboard, PermissionsChecked, CloseOverlay, Submit, RunAdd,
      LoadEdited, RunEdit, Reload, DeleteConfirmed, SetAsMain, vars, pending
<1> QED
  BY <1>2, <1>3, <1>4, <1>5, <1>6, <1>7

LEMMA CommandsStep ==
    ASSUME IInv, [Next]_vars
    PROVE  Commands' /\ CheckedVouched'
<1> USE DEF IInv, TypeOK
<1>1. events' \in 0..MaxEvents /\ asks' \in 0..events'
  BY EventsStep
<1>2. verdicts \subseteq verdicts'
  <2>1. CASE CommandStep
    BY <2>1, CommandVerdicts
  <2>2. CASE Opening
    BY <2>2, OpeningLeaves DEF checks
  <2>3. ASSUME ~CommandStep, ~Opening
        PROVE  verdicts' = verdicts
    BY <2>3, StepCases
    DEF Start, StartWith, Exit, Onboard, PermissionsChecked, CloseOverlay, Submit, RunAdd,
        LoadEdited, RunEdit, Reload, DeleteConfirmed, SetAsMain, vars, checks
  <2> QED
    BY <2>1, <2>2, <2>3
<1>3. CASE NoNewCheck
  BY <1>1, <1>2, <1>3 DEF NoNewCheck, Commands, CheckedVouched, AtStage
<1>4. ASSUME NEW c \in Slots, NEW conn \in Conns, CheckPermissions(c, conn)
      PROVE  Commands' /\ CheckedVouched'
  <2> DEFINE new == [stage |-> "checked", conn |-> conn]
  <2>1. new \in Chain /\ new.conn = conn
    BY DEF Chain, Stages
  <2>2. /\ chains' = [chains EXCEPT ![c] = new]
        /\ conn.user \in verdicts'
    BY <1>4 DEF CheckPermissions
  <2> HIDE DEF new
  <2> QED
    BY <1>1, <1>2, <2>1, <2>2 DEF Commands, CheckedVouched, AtStage
<1> QED
  BY <1>3, <1>4, ChainsStep

LEMMA TypeStep ==
    ASSUME IInv, [Next]_vars
    PROVE  TypeOK'
<1>1. Flags'
  BY FlagsStep DEF IInv, TypeOK
<1> QED
  BY <1>1, ShapeStep, CommandsStep DEF TypeOK

\* The steps that write to the bucket, and all the others
LEMMA WritingSteps ==
    ASSUME [Next]_vars
    PROVE  \/ Start
           \/ \E k \in Keys, c \in Conns : Onboard(k, c)
           \/ \E c \in Slots : PermissionsChecked(c)
           \/ RunAdd
           \/ RunEdit
           \/ \E k \in Keys : DeleteConfirmed(k)
           \/ \E k \in Keys : SetAsMain(k)
           \/ UNCHANGED bucket
<1>1. CASE CommandStep
BY <1>1, CommandLeaves DEF bucket
<1>2. CASE Opening
BY <1>2, OpeningLeaves
<1>3. CASE Exit \/ CloseOverlay \/ LoadEdited \/ UNCHANGED vars
BY <1>3 DEF Exit, CloseOverlay, LoadEdited, vars
<1>4. ASSUME NEW old \in Keys \cup {None}, NEW k \in Keys, NEW c \in Conns,
             Submit(old, k, c)
      PROVE  UNCHANGED bucket
BY <1>4 DEF Submit
<1>5. ASSUME NEW seen \in BOOLEAN, Reload(seen)
      PROVE  UNCHANGED bucket
BY <1>5 DEF Reload
<1> QED
  BY <1>1, <1>2, <1>3, <1>4, <1>5, StepCases

LEMMA OldStyleStep ==
    ASSUME IInv, [Next]_vars
    PROVE  OldStyleFirst'
<1> SUFFICES ASSUME oldStyle'
             PROVE  phase' = "down" /\ saving' = None
  BY DEF OldStyleFirst
<1>1. oldStyle
  BY WritingSteps DEF Start, StartWith, Onboard, PermissionsChecked, RunAdd, RunEdit,
     DeleteConfirmed, SetAsMain, bucket
<1>2. /\ phase = "down" /\ saving = None /\ loaded = None /\ ~overlay
  BY <1>1 DEF IInv, OldStyleFirst, TypeOK, Shape
<1>3. CASE CommandStep
BY <1>2, <1>3, CommandLeaves
<1>4. CASE ~CommandStep
  BY <1>2, <1>4, StepCases, OpeningLeaves
  DEF Start, StartWith, Exit, Onboard, PermissionsChecked, CloseOverlay, Submit,
      RunAdd, LoadEdited, RunEdit, Reload, DeleteConfirmed, SetAsMain, Loading, vars,
      session, forms
<1> QED
  BY <1>3, <1>4

LEMMA PointerStep ==
    ASSUME IInv, [Next]_vars
    PROVE  PointerHasRecord'
<1> USE DEF IInv, TypeOK
<1>1. CASE Start
  <2>1. \A k \in Keys : records[k] # None \/ legacy[k] # None => records'[k] # None
    BY <1>1 DEF Start, StartWith, Shape
  <2> QED
    BY <1>1, <2>1 DEF Start, StartWith, PointerHasRecord, Shape
<1>2. ASSUME NEW k \in Keys, NEW c \in Conns, Onboard(k, c)
      PROVE  PointerHasRecord'
  <2>1. Named'
    BY <1>2, BucketNow, SaveStep, NewRecords DEF Onboard
  <2> QED
    BY <1>2, <2>1, BucketNow DEF Onboard, PointerHasRecord, Named
<1>3. ASSUME NEW c \in Slots, PermissionsChecked(c)
      PROVE  PointerHasRecord'
  <2>1. appConfig \in Active /\ RecordOf(appConfig') \in Record
    BY <1>3, MarkedActive, StoredActive DEF PermissionsChecked, Loading, Shape
  <2>2. Named'
    BY <1>3, <2>1, BucketNow, SaveStep, StoredActive DEF PermissionsChecked, Loading
  <2> QED
    BY <1>3, <2>2, BucketNow DEF PermissionsChecked, Loading, PointerHasRecord, Named
<1>4. CASE RunAdd
  <2>1. saving.key \in Keys /\ saving.conn \in Conns
    BY <1>4 DEF RunAdd, Shape, Form
  <2>2. Named'
    BY <1>4, <2>1, BucketNow, SaveStep, NewRecords DEF RunAdd
  <2> QED
    BY <1>4, <2>2, BucketNow DEF RunAdd, PointerHasRecord, Named
<1>5. CASE RunEdit
  <2>1. Update(loaded, saving.conn) \in Record
    BY <1>5, EditNow, EditedRecord DEF RunEdit
  <2>2. Named' /\ ~oldStyle
    BY <1>5, <2>1, EditNow, BucketNow, ReplaceStep DEF RunEdit
  <2> QED
    BY <1>5, <2>2 DEF RunEdit, PointerHasRecord, Named
<1>6. ASSUME NEW k \in Keys, DeleteConfirmed(k)
      PROVE  PointerHasRecord'
  <2>1. Named' /\ ~oldStyle
    BY <1>6, BucketNow, DeleteStep DEF DeleteConfirmed, Shape
  <2> QED
    BY <1>6, <2>1 DEF DeleteConfirmed, PointerHasRecord, Named
<1>7. ASSUME NEW k \in Keys, SetAsMain(k)
      PROVE  PointerHasRecord'
  <2>1. list[k] \in Record /\ appConfig \in Active
    BY <1>7 DEF SetAsMain, Shape
  <2>2. [list[k] EXCEPT !.isDefault = TRUE] \in Record
        /\ Cleared(appConfig, k) \in Active \cup {None}
    BY <2>1, ChosenRecord, MarkedActive DEF Cleared
  <2>3. Named' /\ ~oldStyle
    BY <1>7, <2>2, BucketNow, SwitchStep DEF SetAsMain, Shape
  <2> QED
    BY <1>7, <2>3 DEF SetAsMain, PointerHasRecord, Named
<1>8. CASE UNCHANGED bucket
  BY <1>8 DEF PointerHasRecord, bucket
<1> QED
  BY <1>1, <1>2, <1>3, <1>4, <1>5, <1>6, <1>7, <1>8, WritingSteps

\* The copies vouched for: what ValidatedHasVerdict says unless a verdict was misled.
AllVouched ==
    /\ \A k \in Keys : Vouched(records[k]) /\ Vouched(legacy[k]) /\ Vouched(list[k])
    /\ Vouched(appConfig)

\* What is vouched for stays so when verdicts are added.
LEMMA StillVouched ==
    ASSUME AllVouched, UNCHANGED <<records, legacy, list, appConfig>>,
           verdicts \subseteq verdicts'
    PROVE  AllVouched'
  BY DEF AllVouched, Vouched

LEMMA MisledStays ==
    ASSUME [Next]_vars, misled
    PROVE  misled'
<1>1. CASE CommandStep
BY <1>1, CommandLeaves
<1>2. CASE Opening
BY <1>2, OpeningLeaves DEF checks
<1>3. CASE ~CommandStep /\ ~Opening
  BY <1>3, StepCases
  DEF Start, StartWith, Exit, Onboard, PermissionsChecked, CloseOverlay, Submit,
      RunAdd, LoadEdited, RunEdit, Reload, DeleteConfirmed, SetAsMain, vars, checks
<1> QED
  BY <1>1, <1>2, <1>3

LEMMA VouchedStep ==
    ASSUME IInv, [Next]_vars
    PROVE  ValidatedHasVerdict'
<1>0. SUFFICES ASSUME ~misled', ~misled
               PROVE  AllVouched'
  BY MisledStays DEF ValidatedHasVerdict, AllVouched
<1>v. AllVouched
  BY <1>0 DEF IInv, ValidatedHasVerdict, AllVouched
<1> USE DEF IInv, TypeOK, vars, bucket, session, panel, forms, aside, checks
<1>1. CASE Start
  <2>1. \A k \in Keys : Vouched(records'[k]) /\ Vouched(legacy'[k])
    BY <1>1, <1>v DEF Start, StartWith, Nothing, AllVouched, Vouched, Shape
  <2>2. Vouched(appConfig')
    <3>1. CASE pointer = None
      BY <1>1, <1>v, <3>1 DEF Start, StartWith, AllVouched, Vouched
    <3>2. CASE pointer # None
      <4>1. pointer \in Keys /\ records'[pointer] \in Record
        BY <1>1, <3>2 DEF Start, StartWith, Shape, PointerHasRecord
      <4>2. Vouched(ActiveOf(pointer, records'[pointer]))
        BY <2>1, <4>1, ActiveVouched
      <4> QED
        BY <1>1, <3>2, <4>2 DEF Start, StartWith
    <3> QED
      BY <3>1, <3>2
  <2>3. verdicts' = verdicts /\ list' = list
    BY <1>1 DEF Start, StartWith
  <2> QED
    BY <1>v, <2>1, <2>2, <2>3 DEF AllVouched, Vouched
<1>2. CASE Exit
BY <1>2, <1>v DEF Exit, AllVouched, Vouched, Nothing
<1>3. ASSUME NEW k \in Keys, NEW c \in Conns, Onboard(k, c)
      PROVE  AllVouched'
  <2>1. /\ [New(c) EXCEPT !.isDefault = TRUE] \in Record
        /\ ~[New(c) EXCEPT !.isDefault = TRUE].validated
    BY NewRecords
  <2>2. /\ records'[k] \in Record /\ ~records'[k].validated
        /\ \A x \in Keys : Vouched(records'[x])
    BY <1>3, <1>v, <2>1, BucketNow, SaveStep DEF Onboard, AllVouched, Vouched
  <2>3. Vouched(appConfig')
    <3>1. ~ActiveOf(k, records'[k]).validated
      BY <2>2 DEF ActiveOf
    <3> QED
      BY <1>3, <3>1 DEF Onboard, Vouched
  <2> QED
    BY <1>3, <1>v, <2>2, <2>3 DEF Onboard, AllVouched, Vouched
<1>4. CASE CommandStep
BY <1>4, <1>v, CommandLeaves, CommandVerdicts, StillVouched
<1>5. ASSUME NEW c \in Slots, PermissionsChecked(c)
      PROVE  AllVouched'
  <2>1. appConfig \in Active /\ appConfig.conn.user \in verdicts
    BY <1>0, <1>5 DEF PermissionsChecked, Loading, Shape, CheckedVouched
  <2>2. /\ appConfig' \in Active /\ appConfig'.conn.user \in verdicts
        /\ RecordOf(appConfig') \in Record
        /\ RecordOf(appConfig').conn.user \in verdicts
    BY <1>5, <2>1, MarkedActive, StoredActive DEF PermissionsChecked
  <2>3. \A x \in Keys : Vouched(records'[x])
    BY <1>5, <1>v, <2>1, <2>2, BucketNow, SaveStep, StoredActive
    DEF PermissionsChecked, Loading, AllVouched, Vouched
  <2>4. UNCHANGED <<verdicts, legacy, list>>
    BY <1>5 DEF PermissionsChecked
  <2> QED
    BY <1>v, <2>2, <2>3, <2>4 DEF AllVouched, Vouched
<1>6. CASE Opening
BY <1>6, <1>v, OpeningLeaves DEF Show, AllVouched, Vouched
<1>7. CASE CloseOverlay
BY <1>7, <1>v DEF CloseOverlay, AllVouched, Vouched, Nothing
<1>8. ASSUME NEW old \in Keys \cup {None}, NEW k \in Keys, NEW c \in Conns, Submit(old, k, c)
      PROVE  AllVouched'
BY <1>8, <1>v DEF Submit, AllVouched, Vouched
<1>9. CASE RunAdd
  <2>1. saving.key \in Keys /\ saving.conn \in Conns
    BY <1>9 DEF RunAdd, Shape, Form
  <2>2. New(saving.conn) \in Record /\ ~New(saving.conn).validated
    BY <2>1, NewRecords
  <2>3. \A x \in Keys : records'[x] = New(saving.conn) \/ records'[x] = records[x]
    BY <1>9, <2>1, <2>2, BucketNow, SaveStep DEF RunAdd
  <2> QED
    BY <1>9, <1>v, <2>2, <2>3 DEF RunAdd, AllVouched, Vouched
<1>10. CASE LoadEdited
BY <1>10, <1>v DEF LoadEdited, AllVouched, Vouched
<1>11. CASE RunEdit
  <2>1. Update(loaded, saving.conn) \in Record /\ ~Update(loaded, saving.conn).validated
    BY <1>11, EditNow, EditedRecord DEF RunEdit
  <2>2. \A x \in Keys : \/ records'[x] = Update(loaded, saving.conn)
                        \/ records'[x] = None \/ records'[x] = records[x]
    BY <1>11, <2>1, EditNow, BucketNow, ReplaceStep DEF RunEdit
  <2> QED
    BY <1>11, <1>v, <2>1, <2>2 DEF RunEdit, AllVouched, Vouched
<1>12. ASSUME NEW seen \in BOOLEAN, Reload(seen)
       PROVE  AllVouched'
BY <1>12, <1>v DEF Reload, AllVouched, Vouched
<1>13. ASSUME NEW k \in Keys, DeleteConfirmed(k)
       PROVE  AllVouched'
  <2>1. \A x \in Keys : Vouched(records'[x])
    BY <1>13, <1>v, BucketNow, DeleteStep DEF DeleteConfirmed, Shape, AllVouched, Vouched
  <2> QED
    BY <1>13, <1>v, <2>1 DEF DeleteConfirmed, AllVouched, Vouched
<1>14. ASSUME NEW k \in Keys, SetAsMain(k)
       PROVE  AllVouched'
  <2>1. list[k] \in Record /\ appConfig \in Active
    BY <1>14 DEF SetAsMain, Shape
  <2>2. /\ [list[k] EXCEPT !.isDefault = TRUE] \in Record
        /\ Vouched([list[k] EXCEPT !.isDefault = TRUE])
    BY <1>v, <2>1, ChosenRecord, ChosenVouched DEF AllVouched
  <2>3. /\ Cleared(appConfig, k) \in Active \cup {None}
        /\ Cleared(appConfig, k) # None => Vouched(RecordOf(Cleared(appConfig, k)))
    BY <1>v, <2>1, MarkedActive, ClearedVouched DEF Cleared, AllVouched
  <2>4. /\ records'[k] = [list[k] EXCEPT !.isDefault = TRUE]
        /\ \A x \in Keys : Vouched(records'[x])
    <3>1. SwitchDefault(Cleared(appConfig, k), k, [list[k] EXCEPT !.isDefault = TRUE])
          /\ UNCHANGED verdicts /\ phase # "down"
      BY <1>14 DEF SetAsMain, Shape
    <3>2. \A x \in Keys :
              \/ records'[x] = [list[k] EXCEPT !.isDefault = TRUE]
              \/ records'[x] = records[x]
              \/ /\ Cleared(appConfig, k) # None
                 /\ records'[x] = RecordOf(Cleared(appConfig, k))
      BY <2>2, <2>3, <3>1, BucketNow, SwitchStep
    <3>3. records'[k] = [list[k] EXCEPT !.isDefault = TRUE]
      BY <2>2, <2>3, <3>1, BucketNow, SwitchStep
    <3>4. \A x \in Keys : Vouched(records'[x])
      BY <1>v, <2>2, <2>3, <3>1, <3>2 DEF AllVouched, Vouched
    <3> QED
      BY <3>3, <3>4
  <2>5. Vouched(appConfig')
    <3>1. records'[k] \in Record /\ Vouched(records'[k])
      BY <2>2, <2>4
    <3>2. Vouched(ActiveOf(k, records'[k]))
      BY <3>1, ActiveVouched
    <3> QED
      BY <1>14, <3>2 DEF SetAsMain, Vouched
  <2> QED
    BY <1>14, <1>v, <2>4, <2>5 DEF SetAsMain, AllVouched, Vouched, Nothing
<1>15. CASE UNCHANGED vars
  BY <1>15, <1>v DEF AllVouched, Vouched
<1> QED
  BY <1>1, <1>2, <1>3, <1>4, <1>5, <1>6, <1>7, <1>8, <1>9, <1>10, <1>11, <1>12, <1>13,
     <1>14, <1>15, StepCases

-----------------------------------------------------------------------------
(* The theorems *)

LEMMA InitInv == Init => IInv
<1> SUFFICES ASSUME Init
             PROVE  IInv
  OBVIOUS
<1>1. /\ legacy \in [Keys -> Record \cup {None}]
      /\ pointer # None => pointer \in Keys /\ legacy[pointer] # None
      /\ \A k \in Keys : legacy[k] = None \/ ~legacy[k].validated
  <2>1. pointer \in Keys \cup {None}
    BY DEF Init
  <2>2. PICK chosen \in [Keys -> Conns \cup {None}] :
            /\ pointer # None => chosen[pointer] # None
            /\ legacy = [k \in Keys |->
                   IF chosen[k] = None THEN None
                   ELSE [New(chosen[k]) EXCEPT !.isDefault = (k = pointer)]]
    BY DEF Init
  <2>3. ASSUME NEW k \in Keys, chosen[k] # None
        PROVE  /\ [New(chosen[k]) EXCEPT !.isDefault = (k = pointer)] \in Record
               /\ ~[New(chosen[k]) EXCEPT !.isDefault = (k = pointer)].validated
    <3>1. chosen[k] \in Conns
      BY <2>2, <2>3
    <3> QED
      BY <3>1 DEF New, Record
  <2> QED
    BY <2>1, <2>2, <2>3, NoneIsNoValue
<1>2. TypeOK
  <2>1. Flags
    BY Zenon DEF Init, Flags
  <2>2. pointer \in Keys \cup {None}
    BY DEF Init
  <2> QED
    BY <1>1, <2>1, <2>2, SettingsAssumption
    DEF Init, TypeOK, Shape, Commands, Nothing, Idle, SettingsAssumption
<1>3. PointerHasRecord /\ OldStyleFirst
  BY <1>1 DEF Init, OldStyleFirst, PointerHasRecord
<1>4. ValidatedHasVerdict
  BY <1>1 DEF Init, ValidatedHasVerdict, Vouched, Nothing
<1>5. CheckedVouched
  BY DEF Init, CheckedVouched, AtStage, Idle
<1> QED
  BY <1>2, <1>3, <1>4, <1>5 DEF IInv

LEMMA Inductive == Spec => []IInv
<1>1. IInv /\ [Next]_vars => IInv'
  BY TypeStep, OldStyleStep, PointerStep, VouchedStep, CommandsStep DEF IInv
<1> QED
  BY <1>1, InitInv, PTL DEF Spec

\* The state has its shape, whatever the user does and however often.
THEOREM SettingsTyped == Spec => []TypeOK
<1>1. IInv => TypeOK
  BY DEF IInv
<1> QED
  BY <1>1, Inductive, PTL

\* The default pointer never dangles, so a start never ends on a default that is
\* not there.
THEOREM PointerNeverDangles == Spec => []PointerHasRecord
<1>1. IInv => PointerHasRecord
  BY DEF IInv
<1> QED
  BY <1>1, Inductive, PTL

\* No stale copy of a connection makes one count as validated whose schema has not
\* been found sufficient; only a verdict that comes in after a switch can, and then
\* misled says so.
THEOREM ValidatedIsVouched == Spec => []ValidatedHasVerdict
<1>1. IInv => ValidatedHasVerdict
  BY DEF IInv
<1> QED
  BY <1>1, Inductive, PTL

-----------------------------------------------------------------------------
(* What becomes of the copies: the migration, the overlay and its forms *)

\* Either the old records have been moved, or nothing has been done with them.
Migrated ==
    legacy = Nothing \/ (records = Nothing /\ gone = {} /\ phase = "down")

\* The program asks for a first connection only when there is no default.
Asking == phase = "onboarding" => pointer = None

\* A form is submitted over an active connection, and does not outlive the program.
FormsInSession == appConfig = None => saving = None /\ ~reload

\* While the overlay is open the active connection stays what it was.
SameActive == overlay => activeID = appConfig.key

Session == Migrated /\ Asking /\ FormsInSession /\ SameActive

LEMMA MigratedStep ==
    ASSUME IInv, Session, [Next]_vars
    PROVE  Migrated'
<1>1. CASE Start
BY <1>1 DEF Start, StartWith, Migrated
<1>2. ASSUME ~Start, legacy = Nothing
      PROVE  Migrated'
  <2>1. legacy' = legacy
    BY <1>2, WritingSteps
    DEF Onboard, PermissionsChecked, RunAdd, RunEdit, DeleteConfirmed, SetAsMain, bucket
  <2> QED
    BY <1>2, <2>1 DEF Migrated, Nothing
<1>3. ASSUME ~Start, legacy # Nothing
      PROVE  Migrated'
  <2>1. /\ records = Nothing /\ gone = {} /\ phase = "down"
        /\ saving = None /\ loaded = None /\ ~overlay
    BY <1>3 DEF Session, Migrated, FormsInSession, IInv, TypeOK, Shape
  <2>2. UNCHANGED <<records, gone, phase>>
    <3>1. CASE CommandStep
      BY <2>1, <3>1, CommandLeaves
    <3>2. CASE ~CommandStep
      BY <1>3, <2>1, <3>2, StepCases, OpeningLeaves
      DEF Exit, Onboard, PermissionsChecked, CloseOverlay, Submit, RunAdd, LoadEdited,
          RunEdit, Reload, DeleteConfirmed, SetAsMain, Loading, vars, bucket, aside, session
    <3> QED
      BY <3>1, <3>2
  <2> QED
    BY <2>1, <2>2 DEF Migrated, Nothing
<1> QED
  BY <1>1, <1>2, <1>3

LEMMA SessionStep ==
    ASSUME IInv, Session, [Next]_vars
    PROVE  Session'
<1> USE DEF IInv, Session, TypeOK, Shape, vars, bucket, session, panel, forms, aside
<1>0. Migrated'
  BY MigratedStep
<1>t. Shape'
  BY ShapeStep
<1> SUFFICES Asking' /\ FormsInSession' /\ SameActive'
  BY <1>0
<1> USE DEF Asking, FormsInSession, SameActive
<1>1. CASE Start
BY <1>1 DEF Start, StartWith
<1>2. CASE Exit
BY <1>2 DEF Exit
<1>3. ASSUME NEW k \in Keys, NEW c \in Conns, Onboard(k, c)
      PROVE  Asking' /\ FormsInSession' /\ SameActive'
BY <1>3, <1>t DEF Onboard
<1>4. CASE CommandStep
BY <1>4, CommandLeaves
<1>5. ASSUME NEW c \in Slots, PermissionsChecked(c)
      PROVE  Asking' /\ FormsInSession' /\ SameActive'
BY <1>5, <1>t DEF PermissionsChecked, Loading
<1>6. CASE Opening
BY <1>6, OpeningLeaves DEF Show
<1>7. CASE CloseOverlay
BY <1>7 DEF CloseOverlay
<1>8. ASSUME NEW old \in Keys \cup {None}, NEW k \in Keys, NEW c \in Conns,
             Submit(old, k, c)
      PROVE  Asking' /\ FormsInSession' /\ SameActive'
BY <1>8 DEF Submit
<1>9. CASE RunAdd
BY <1>9 DEF RunAdd
<1>10. CASE LoadEdited
BY <1>10 DEF LoadEdited
<1>11. CASE RunEdit
BY <1>11 DEF RunEdit
<1>12. ASSUME NEW seen \in BOOLEAN, Reload(seen)
       PROVE  Asking' /\ FormsInSession' /\ SameActive'
BY <1>12 DEF Reload
<1>13. ASSUME NEW k \in Keys, DeleteConfirmed(k)
       PROVE  Asking' /\ FormsInSession' /\ SameActive'
BY <1>13 DEF DeleteConfirmed
<1>14. ASSUME NEW k \in Keys, SetAsMain(k)
       PROVE  Asking' /\ FormsInSession' /\ SameActive'
BY <1>14, <1>t DEF SetAsMain
<1>15. CASE UNCHANGED vars
  BY <1>15
<1> QED
  BY <1>1, <1>2, <1>3, <1>4, <1>5, <1>6, <1>7, <1>8, <1>9, <1>10, <1>11, <1>12, <1>13,
     <1>14, <1>15, StepCases

LEMMA SessionInv == Spec => [](IInv /\ Session)
<1>1. Init => Session
  BY DEF Init, Session, Migrated, Asking, FormsInSession, SameActive
<1>2. IInv /\ Session /\ [Next]_vars => Session'
  BY SessionStep
<1> QED
  BY <1>1, <1>2, Inductive, PTL DEF Spec

-----------------------------------------------------------------------------
(* What a step may do to the pointer and to the records that are gone *)

LEMMA DefaultStep ==
    ASSUME IInv, [Next]_vars, pointer # None, pointer' = None
    PROVE  \/ pointer \in gone'
           \/ saving # None /\ saving' = None /\ saving.key = pointer
           \/ appConfig.key = pointer /\ ~appConfig.isDefault
<1> USE DEF IInv
<1>1. CASE Start
BY <1>1 DEF Start, StartWith
<1>2. ASSUME NEW k \in Keys, NEW c \in Conns, Onboard(k, c)
      PROVE  FALSE
BY <1>2, NewRecords, NoneIsNoValue DEF Onboard, Save
<1>3. ASSUME NEW c \in Slots, PermissionsChecked(c)
      PROVE  appConfig.key = pointer /\ ~appConfig.isDefault
  <2>1. /\ appConfig \in Active /\ appConfig.key \in Keys
        /\ RecordOf(appConfig').isDefault = appConfig.isDefault
    BY <1>3 DEF PermissionsChecked, Loading, TypeOK, Shape, Active, RecordOf
  <2> QED
    BY <1>3, <2>1, NoneIsNoValue DEF PermissionsChecked, Save
<1>4. CASE RunAdd
  <2>1. saving.key \in Keys
    BY <1>4 DEF RunAdd, TypeOK, Shape, Form
  <2> QED
    BY <1>4, <2>1, NoneIsNoValue DEF RunAdd, Save
<1>5. CASE RunEdit
BY <1>5, EditNow, NoneIsNoValue DEF RunEdit, Replace
<1>6. ASSUME NEW k \in Keys, DeleteConfirmed(k)
      PROVE  pointer \in gone'
BY <1>6 DEF DeleteConfirmed, Delete
<1>7. ASSUME NEW k \in Keys, SetAsMain(k)
      PROVE  FALSE
BY <1>7, NoneIsNoValue DEF SetAsMain, SwitchDefault
<1> QED
  BY <1>1, <1>2, <1>3, <1>4, <1>5, <1>6, <1>7, WritingSteps DEF bucket

LEMMA ReturnStep ==
    ASSUME IInv, Session, [Next]_vars,
           NEW k \in gone, records[k] = None, records'[k] # None
    PROVE  k \notin gone' \/ k \in {appConfig.key, appConfig'.key}
<1> USE DEF IInv
<1>0. k \in Keys
  BY DEF TypeOK, Shape
<1>1. CASE Start
  <2>1. legacy[k] = None
    BY <1>0 DEF Session, Migrated, Nothing
  <2> QED
    BY <1>0, <1>1, <2>1 DEF Start, StartWith
<1>2. ASSUME NEW x \in Keys, NEW c \in Conns, Onboard(x, c)
      PROVE  k \notin gone'
BY <1>0, <1>2 DEF Onboard, Save, TypeOK, Shape
<1>3. ASSUME NEW c \in Slots, PermissionsChecked(c)
      PROVE  k \in {appConfig.key, appConfig'.key}
BY <1>0, <1>3 DEF PermissionsChecked, Save, TypeOK, Shape
<1>4. CASE RunAdd
BY <1>0, <1>4 DEF RunAdd, Save, TypeOK, Shape
<1>5. CASE RunEdit
  <2>1. saving.key \in Keys /\ saving.old \in Keys
    BY <1>5, EditNow DEF RunEdit
  <2> QED
    BY <1>0, <1>5, <2>1 DEF RunEdit, Replace, TypeOK, Shape
<1>6. ASSUME NEW x \in Keys, DeleteConfirmed(x)
      PROVE  FALSE
BY <1>0, <1>6 DEF DeleteConfirmed, Delete, TypeOK, Shape
<1>7. ASSUME NEW x \in Keys, SetAsMain(x)
      PROVE  k \in {appConfig.key, appConfig'.key}
  <2>1. appConfig'.key = x
    BY <1>7 DEF SetAsMain, ActiveOf
  <2>2. /\ appConfig \in Active
        /\ Cleared(appConfig, x) # None => Cleared(appConfig, x).key = appConfig.key
    BY <1>7, MarkedActive DEF SetAsMain, TypeOK, Shape, Cleared
  <2> QED
    BY <1>0, <1>7, <2>1, <2>2 DEF SetAsMain, SwitchDefault
<1> QED
  BY <1>1, <1>2, <1>3, <1>4, <1>5, <1>6, <1>7, WritingSteps DEF bucket

\* Whatever stale copy is written, the default is given up only where the user
\* removed it or entered another connection over it.
THEOREM DefaultIsKept == Spec => DefaultKept
<1>1. IInv /\ [Next]_vars =>
        [pointer # None /\ pointer' = None =>
            \/ pointer \in gone'
            \/ saving # None /\ saving' = None /\ saving.key = pointer
            \/ appConfig.key = pointer /\ ~appConfig.isDefault]_vars
  BY DefaultStep
<1> QED
  BY <1>1, Inductive, PTL DEF Spec, DefaultKept

\* A record that is gone is written again only by the user's own entry, or as the
\* connection that is or becomes the active one.
THEOREM OnlyActiveComesBack == Spec => ComesBackAsActive
<1>1. IInv /\ Session /\ [Next]_vars =>
        [\A k \in gone : records[k] = None /\ records'[k] # None =>
             k \notin gone' \/ k \in {appConfig.key, appConfig'.key}]_vars
  BY ReturnStep
<1> QED
  BY <1>1, SessionInv, PTL DEF Spec, ComesBackAsActive

-----------------------------------------------------------------------------
(* The promise to a careful user *)

\* Exactly the record the pointer names is flagged as the default.
Marked(f) == \A k \in Keys : f[k] # None => (f[k].isDefault <=> k = pointer)

\* No copy a careful user's step is about to write is stale: the one of the active
\* connection is the default record, the list is the bucket, and a form under way
\* is not about the default and has loaded what is stored.
Spared ==
    careful =>
        /\ Marked(records) /\ Marked(legacy)
        /\ appConfig # None =>
               appConfig.key = pointer /\ records[pointer] = RecordOf(appConfig)
        /\ overlay /\ ~reload => list = records
        /\ saving # None => pointer \notin {saving.old, saving.key}
        /\ loaded # None => records[saving.old] = loaded

Entries == [k \in Keys |-> IF records[k] # None THEN records[k].conn
                           ELSE IF legacy[k] # None THEN legacy[k].conn
                           ELSE None]

CInv == IInv /\ Session /\ Spared

LEMMA ActiveMarks ==
    ASSUME NEW k \in Keys, NEW r \in Record
    PROVE  RecordOf(ActiveOf(k, r)) = r /\ ActiveOf(k, r).key = k
  BY DEF RecordOf, ActiveOf, Record

LEMMA NewMarks ==
    ASSUME NEW k \in Keys, NEW c \in Conns
    PROVE  /\ New(c).conn = c
           /\ [New(c) EXCEPT !.isDefault = TRUE].conn = c
           /\ RecordOf(ActiveOf(k, [New(c) EXCEPT !.isDefault = TRUE]))
                  = [New(c) EXCEPT !.isDefault = TRUE]
           /\ ActiveOf(k, [New(c) EXCEPT !.isDefault = TRUE]).key = k
<1>1. New(c).conn = c /\ [New(c) EXCEPT !.isDefault = TRUE].conn = c
  BY DEF New
<1> QED
  BY <1>1, NewRecords, ActiveMarks

\* Over the active connection of a careful user there is a default record.
LEMMA DefaultNow ==
    ASSUME CInv, careful, appConfig # None
    PROVE  /\ ~oldStyle /\ legacy = Nothing /\ Bucket /\ Named
           /\ pointer \in Keys /\ records[pointer] \in Record
           /\ appConfig \in Active /\ appConfig.key = pointer
           /\ records[pointer] = RecordOf(appConfig) /\ appConfig.isDefault
           /\ phase \in {"loading", "main"}
<1>1. phase \in {"loading", "main"} /\ appConfig \in Active
  BY DEF CInv, IInv, TypeOK, Shape
<1>2. ~oldStyle /\ Bucket /\ Named
  BY <1>1, BucketNow DEF CInv
<1>3. legacy = Nothing
  BY <1>1 DEF CInv, Session, Migrated
<1>4. appConfig.key = pointer /\ records[pointer] = RecordOf(appConfig)
  BY DEF CInv, Spared
<1>5. pointer \in Keys /\ records[pointer] \in Record
  BY <1>1, <1>4, StoredActive
<1>6. appConfig.isDefault
  <2>1. records[pointer].isDefault
    BY <1>5, NoneIsNoValue DEF CInv, Spared, Marked
  <2> QED
    BY <2>1, <1>4 DEF RecordOf
<1> QED
  BY <1>1, <1>2, <1>3, <1>4, <1>5, <1>6

\* The permission check writes the default record with nothing changed but its flag.
LEMMA CheckedStep ==
    ASSUME CInv, careful, NEW c \in Slots, PermissionsChecked(c)
    PROVE  /\ pointer' = pointer /\ pointer \in Keys
           /\ appConfig'.key = pointer
           /\ RecordOf(appConfig') \in Record
           /\ RecordOf(appConfig').isDefault
           /\ RecordOf(appConfig').conn = records[pointer].conn
           /\ records[pointer] # None
           /\ records' = [records EXCEPT ![pointer] = RecordOf(appConfig')]
<1>1. appConfig # None
  BY DEF PermissionsChecked, Loading, CInv, IInv, TypeOK, Shape
<1>2. appConfig' = [appConfig EXCEPT !.validated = TRUE]
  BY DEF PermissionsChecked
<1>3. /\ appConfig' \in Active /\ appConfig'.key = appConfig.key
      /\ appConfig'.isDefault = appConfig.isDefault /\ appConfig'.conn = appConfig.conn
  BY <1>1, <1>2, DefaultNow DEF Active
<1>4. /\ RecordOf(appConfig') \in Record /\ RecordOf(appConfig').isDefault
      /\ RecordOf(appConfig').conn = records[pointer].conn
  BY <1>1, <1>3, DefaultNow, StoredActive DEF RecordOf
<1>5. Save(appConfig.key, RecordOf(appConfig'))
  BY DEF PermissionsChecked
<1> QED
  BY <1>1, <1>3, <1>4, <1>5, DefaultNow, NoneIsNoValue DEF Save

\* An edit moves a record that is not the default and still there.
LEMMA EditStep ==
    ASSUME CInv, careful, RunEdit
    PROVE  /\ saving.old \in Keys /\ saving.key \in Keys /\ saving.conn \in Conns
           /\ records[saving.old] \in Record
           /\ pointer \notin {saving.old, saving.key} /\ pointer' = pointer
           /\ Update(loaded, saving.conn) \in Record
           /\ Update(loaded, saving.conn).conn = saving.conn
           /\ ~Update(loaded, saving.conn).isDefault
           /\ records' = [records EXCEPT ![saving.old] = None,
                             ![saving.key] = Update(loaded, saving.conn)]
<1>1. /\ saving.key \in Keys /\ saving.conn \in Conns /\ saving.old \in Keys
      /\ saving # None /\ loaded \in Record
  BY EditNow DEF RunEdit, CInv
<1>2. pointer \notin {saving.old, saving.key} /\ records[saving.old] = loaded
  BY <1>1 DEF RunEdit, CInv, Spared
<1>3. ~loaded.isDefault
  BY <1>1, <1>2, NoneIsNoValue DEF CInv, Spared, Marked
<1>4. /\ Update(loaded, saving.conn) \in Record
      /\ Update(loaded, saving.conn).conn = saving.conn
      /\ ~Update(loaded, saving.conn).isDefault
  BY <1>1, <1>3, EditedRecord DEF Update
<1>5. Replace(saving.old, saving.key, Update(loaded, saving.conn))
  BY DEF RunEdit
<1> QED
  BY <1>1, <1>2, <1>4, <1>5 DEF Replace

\* A switch flags the chosen record and clears the flag of the default record; what
\* they say stays.
LEMMA ChoiceStep ==
    ASSUME CInv, careful, NEW k \in Keys, SetAsMain(k)
    PROVE  /\ pointer \in Keys /\ pointer # k /\ pointer' = k
           /\ records[k] \in Record
           /\ appConfig' = ActiveOf(k, records'[k])
           /\ records' \in [Keys -> Record \cup {None}]
           /\ records'[k] = [records[k] EXCEPT !.isDefault = TRUE]
           /\ records'[pointer] # None /\ ~records'[pointer].isDefault
           /\ records[pointer] # None
           /\ records'[pointer].conn = records[pointer].conn
           /\ \A x \in Keys \ {k, pointer} : records'[x] = records[x]
<1>1. overlay /\ appConfig # None /\ ~reload
  BY DEF SetAsMain, Quiet, CInv, IInv, TypeOK, Shape
<1>2. list = records /\ activeID = pointer
  BY <1>1, DefaultNow DEF CInv, Spared, Session, SameActive
<1>3. records[k] \in Record /\ pointer # k
  BY <1>2 DEF SetAsMain, CInv, IInv, TypeOK, Shape
<1>4. Cleared(appConfig, k) = [appConfig EXCEPT !.isDefault = FALSE]
  BY <1>1, <1>3, DefaultNow DEF Cleared
<1>5. /\ Cleared(appConfig, k) \in Active /\ Cleared(appConfig, k) # None
      /\ Cleared(appConfig, k).key = pointer
      /\ Cleared(appConfig, k).conn = appConfig.conn
      /\ ~Cleared(appConfig, k).isDefault
  BY <1>1, <1>4, DefaultNow, NoneIsNoValue DEF Active
<1>6. /\ RecordOf(Cleared(appConfig, k)) \in Record
      /\ RecordOf(Cleared(appConfig, k)).conn = records[pointer].conn
      /\ ~RecordOf(Cleared(appConfig, k)).isDefault
  BY <1>1, <1>5, DefaultNow, StoredActive DEF RecordOf
<1>7. [records[k] EXCEPT !.isDefault = TRUE] \in Record
  BY <1>3, ChosenRecord
<1>8. SwitchDefault(Cleared(appConfig, k), k, [records[k] EXCEPT !.isDefault = TRUE])
  BY <1>2 DEF SetAsMain
<1>9. /\ records' \in [Keys -> Record \cup {None}]
      /\ records'[k] = [records[k] EXCEPT !.isDefault = TRUE]
      /\ records'[pointer] = RecordOf(Cleared(appConfig, k))
      /\ \A x \in Keys \ {k, pointer} : records'[x] = records[x]
      /\ pointer' = k
  BY <1>1, <1>3, <1>5, <1>6, <1>7, <1>8, DefaultNow DEF SwitchDefault, Bucket
<1> QED
  BY <1>1, <1>3, <1>6, <1>9, DefaultNow, NoneIsNoValue DEF SetAsMain

LEMMA SparedStep ==
    ASSUME CInv, [Next]_vars
    PROVE  Spared'
<1> SUFFICES ASSUME careful'
             PROVE  Spared'
  BY DEF Spared
<1>c. careful
  BY StepCases, CommandLeaves, OpeningLeaves
  DEF Start, StartWith, Exit, Onboard, PermissionsChecked, CloseOverlay, Submit, RunAdd,
      LoadEdited, RunEdit, Reload, DeleteConfirmed, SetAsMain, vars, aside
<1>s. /\ Marked(records) /\ Marked(legacy)
      /\ appConfig # None =>
             appConfig.key = pointer /\ records[pointer] = RecordOf(appConfig)
      /\ overlay /\ ~reload => list = records
      /\ saving # None => pointer \notin {saving.old, saving.key}
      /\ loaded # None => records[saving.old] = loaded
  BY <1>c DEF CInv, Spared
<1>m. legacy' = Nothing => Marked(legacy)'
  BY DEF Nothing, Marked
<1>t. /\ records \in [Keys -> Record \cup {None}]
      /\ phase \in {"loading", "main"} <=> appConfig # None
      /\ overlay => phase \in {"loading", "main"}
      /\ saving # None \/ reload => appConfig # None
      /\ loaded # None => saving # None /\ saving.old \in Keys
  BY EditNow DEF CInv, IInv, TypeOK, Shape, Session, FormsInSession
<1>n. appConfig # None => legacy = Nothing /\ pointer \in Keys
  BY <1>c, DefaultNow
<1> USE DEF vars, bucket, session, panel, forms, aside
<1>1. CASE Start
  <2>1. ~overlay' /\ saving' = None /\ loaded' = None
    BY <1>1, <1>t DEF Start, StartWith
  <2>2. Marked(records)'
    BY <1>1, <1>s DEF Start, StartWith, Marked
  <2>3. appConfig' # None =>
            appConfig'.key = pointer' /\ records'[pointer'] = RecordOf(appConfig')
    <3>1. CASE pointer = None
      BY <1>1, <1>t, <3>1 DEF Start, StartWith
    <3>2. CASE pointer # None
      <4>1. pointer \in Keys /\ records'[pointer] \in Record
        BY <1>1, <3>2 DEF Start, StartWith, CInv, IInv, TypeOK, Shape, PointerHasRecord
      <4> QED
        BY <1>1, <3>2, <4>1, ActiveMarks DEF Start, StartWith
    <3> QED
      BY <3>1, <3>2
  <2> QED
    BY <1>1, <1>m, <2>1, <2>2, <2>3 DEF Start, StartWith, Spared
<1>2. CASE Exit
BY <1>2, <1>s DEF Exit, Spared, Marked
<1>3. ASSUME NEW k \in Keys, NEW c \in Conns, Onboard(k, c)
      PROVE  Spared'
  <2> DEFINE r == [New(c) EXCEPT !.isDefault = TRUE]
  <2>1. pointer = None /\ ~overlay /\ saving = None /\ phase # "down"
    BY <1>3, <1>t DEF Onboard, CInv, Session, Asking
  <2>2. r \in Record /\ r.isDefault
    BY NewRecords
  <2>3. RecordOf(ActiveOf(k, r)) = r /\ ActiveOf(k, r).key = k
    BY NewMarks
  <2>4. legacy' = Nothing
    BY <1>3, <2>1 DEF Onboard, CInv, Session, Migrated
  <2> HIDE DEF r
  <2>5. Save(k, r) /\ appConfig' = ActiveOf(k, records'[k])
    BY <1>3 DEF Onboard, r
  <2>6. pointer' = k /\ records'[k] = r /\ \A x \in Keys \ {k} : records'[x] = records[x]
    BY <2>2, <2>5, <1>t DEF Save
  <2>7. Marked(records)'
    BY <1>s, <2>1, <2>2, <2>6, NoneIsNoValue DEF Marked
  <2>8. ~overlay' /\ saving' = None /\ loaded' = None
    BY <1>3, <1>t, <2>1 DEF Onboard
  <2> QED
    BY <1>m, <2>3, <2>4, <2>5, <2>6, <2>7, <2>8 DEF Spared
<1>4. CASE CommandStep
BY <1>4, <1>s, CommandLeaves DEF Spared, Marked
<1>5. ASSUME NEW c \in Slots, PermissionsChecked(c)
      PROVE  Spared'
  <2>1. /\ ~overlay' /\ legacy' = legacy /\ appConfig # None
        /\ saving' = saving /\ loaded' = loaded
    BY <1>5, <1>t DEF PermissionsChecked, Loading
  <2>2. pointer' = pointer /\ appConfig'.key = pointer
    BY <1>5, <1>c, CheckedStep
  <2>3. records'[pointer] = RecordOf(appConfig')
    BY <1>5, <1>c, <1>t, CheckedStep
  <2>4. \A x \in Keys \ {pointer} : records'[x] = records[x]
    BY <1>5, <1>c, <1>t, CheckedStep
  <2>5. Marked(records)'
    <3>1. records'[pointer].isDefault
      BY <1>5, <1>c, <2>3, CheckedStep
    <3> QED
      BY <1>s, <2>2, <2>4, <3>1 DEF Marked
  <2>6. loaded' # None => records'[saving'.old] = loaded'
    BY <1>s, <1>t, <2>1, <2>4
  <2> QED
    BY <1>s, <1>n, <1>m, <2>1, <2>2, <2>3, <2>5, <2>6 DEF Spared
<1>6. CASE Opening
BY <1>6, <1>s, OpeningLeaves DEF Show, Spared, Marked
<1>7. CASE CloseOverlay
BY <1>7, <1>s DEF CloseOverlay, Spared, Marked
<1>8. ASSUME NEW old \in Keys \cup {None}, NEW k \in Keys, NEW c \in Conns,
              Submit(old, k, c)
       PROVE  Spared'
  <2>1. /\ activeID \notin {old, k} /\ overlay
        /\ saving'.old = old /\ saving'.key = k
        /\ UNCHANGED <<records, legacy, pointer, appConfig, overlay, list, reload>>
        /\ loaded' = None
    BY <1>8, <1>c, <1>t DEF Submit
  <2>2. activeID = pointer
    BY <1>s, <1>t, <2>1 DEF CInv, Session, SameActive
  <2> QED
    BY <1>s, <2>1, <2>2 DEF Spared, Marked
<1>9. CASE RunAdd
  <2>1. saving.key \in Keys /\ saving.conn \in Conns /\ appConfig # None
    BY <1>9, <1>t DEF RunAdd, CInv, IInv, TypeOK, Shape, Form
  <2>2. saving.key # pointer
    BY <1>9, <1>s DEF RunAdd
  <2>3. ~New(saving.conn).isDefault
    BY <2>1, NewRecords
  <2>4. /\ pointer' = pointer /\ records'[saving.key] = New(saving.conn)
        /\ \A x \in Keys \ {saving.key} : records'[x] = records[x]
    BY <1>9, <1>t, <2>1, <2>2, <2>3 DEF RunAdd, Save
  <2>5. Marked(records)'
    BY <1>s, <2>2, <2>3, <2>4 DEF Marked
  <2>6. /\ saving' = None /\ reload' /\ UNCHANGED <<legacy, appConfig>>
        /\ loaded' = None
    BY <1>9, <1>t, NoneIsNoValue DEF RunAdd
  <2> QED
    BY <1>s, <1>n, <1>m, <2>1, <2>2, <2>4, <2>5, <2>6 DEF Spared
<1>10. CASE LoadEdited
  <2>1. loaded' # None => records[saving.old] = loaded' /\ saving' = saving
    BY <1>10, NoneIsNoValue DEF LoadEdited
  <2>2. UNCHANGED <<records, legacy, pointer, appConfig, overlay, list, reload>>
    BY <1>10 DEF LoadEdited
  <2>3. saving' \in {saving, None}
    BY <1>10 DEF LoadEdited
  <2> QED
    BY <1>s, <2>1, <2>2, <2>3 DEF Spared, Marked
<1>11. CASE RunEdit
  <2>1. /\ appConfig # None /\ saving' = None /\ loaded' = None /\ reload'
        /\ UNCHANGED <<legacy, appConfig, overlay, list>>
    BY <1>11, <1>t DEF RunEdit
  <2>2. pointer' = pointer /\ pointer \notin {saving.old, saving.key}
    BY <1>11, <1>c, EditStep
  <2>3. /\ saving.old \in Keys /\ saving.key \in Keys
        /\ ~Update(loaded, saving.conn).isDefault
        /\ records'[saving.key] = Update(loaded, saving.conn)
        /\ saving.old # saving.key => records'[saving.old] = None
        /\ \A x \in Keys \ {saving.old, saving.key} : records'[x] = records[x]
    BY <1>11, <1>c, <1>t, EditStep
  <2>4. Marked(records)'
    BY <1>s, <2>2, <2>3 DEF Marked
  <2> QED
    BY <1>s, <1>n, <1>m, <2>1, <2>2, <2>3, <2>4 DEF Spared
<1>12. ASSUME NEW seen \in BOOLEAN, Reload(seen)
       PROVE  Spared'
BY <1>12, <1>c, <1>s DEF Reload, Spared, Marked
<1>13. ASSUME NEW k \in Keys, DeleteConfirmed(k)
       PROVE  Spared'
  <2>1. /\ overlay /\ k # activeID /\ saving = None
        /\ Delete(k) /\ list' = records'
        /\ UNCHANGED <<legacy, appConfig, overlay, saving, reload>>
        /\ loaded' = None
    BY <1>13, <1>c, <1>t DEF DeleteConfirmed, Quiet
  <2>2. activeID = pointer /\ appConfig # None
    BY <1>s, <1>t, <2>1 DEF CInv, Session, SameActive
  <2>3. /\ pointer' = pointer /\ records'[k] = None
        /\ \A x \in Keys \ {k} : records'[x] = records[x]
    BY <1>t, <2>1, <2>2 DEF Delete
  <2>4. Marked(records)'
    BY <1>s, <2>3 DEF Marked
  <2> QED
    BY <1>s, <1>n, <1>m, <2>1, <2>2, <2>3, <2>4 DEF Spared
<1>14. ASSUME NEW k \in Keys, SetAsMain(k)
       PROVE  Spared'
  <2>1. /\ ~overlay' /\ saving' = None /\ loaded' = None
        /\ legacy' = legacy /\ appConfig # None
    BY <1>14, <1>c, <1>t DEF SetAsMain, Quiet
  <2>2. /\ pointer' = k /\ pointer # k /\ pointer \in Keys
        /\ records[k] \in Record
        /\ records'[k] = [records[k] EXCEPT !.isDefault = TRUE]
        /\ ~records'[pointer].isDefault
        /\ \A x \in Keys \ {k, pointer} : records'[x] = records[x]
        /\ appConfig' = ActiveOf(k, records'[k])
    BY <1>14, <1>c, ChoiceStep
  <2>3. records'[k] \in Record /\ records'[k].isDefault
    BY <2>2 DEF Record
  <2>4. Marked(records)'
    BY <1>s, <2>2, <2>3 DEF Marked
  <2>5. appConfig'.key = k /\ records'[k] = RecordOf(appConfig')
    BY <2>2, <2>3, ActiveMarks
  <2> QED
    BY <1>n, <1>m, <2>1, <2>2, <2>4, <2>5 DEF Spared
<1>15. CASE UNCHANGED vars
  BY <1>15, <1>s DEF Spared, Marked
<1> QED
  BY <1>1, <1>2, <1>3, <1>4, <1>5, <1>6, <1>7, <1>8, <1>9, <1>10, <1>11, <1>12, <1>13,
     <1>14, <1>15, StepCases

LEMMA CarefulInv == Spec => []CInv
<1>1. Init => Spared
  <2> SUFFICES ASSUME Init
               PROVE  Spared
    OBVIOUS
  <2>1. Marked(legacy)
    <3>1. PICK chosen \in [Keys -> Conns \cup {None}] :
              legacy = [k \in Keys |->
                  IF chosen[k] = None THEN None
                  ELSE [New(chosen[k]) EXCEPT !.isDefault = (k = pointer)]]
      BY DEF Init
    <3>2. ASSUME NEW k \in Keys
          PROVE  [New(chosen[k]) EXCEPT !.isDefault = (k = pointer)].isDefault
                     <=> k = pointer
      BY DEF New
    <3> QED
      BY <3>1, <3>2 DEF Marked
  <2>2. Marked(records)
    BY DEF Init, Nothing, Marked
  <2> QED
    BY <2>1, <2>2 DEF Init, Spared
<1>2. CInv /\ [Next]_vars => CInv'
  <2>1. IInv /\ [Next]_vars => IInv'
    BY TypeStep, OldStyleStep, PointerStep, VouchedStep, CommandsStep DEF IInv
  <2> QED
    BY <2>1, SessionStep, SparedStep DEF CInv
<1>3. Init => CInv
  BY <1>1, InitInv DEF CInv, Init, Session, Migrated, Asking, FormsInSession, SameActive
<1> QED
  BY <1>2, <1>3, PTL DEF Spec

\* The connections as the user sees them once the old records have been moved
LEMMA EntriesNow ==
    ASSUME legacy = Nothing, legacy' = Nothing
    PROVE  /\ Entries = [k \in Keys |-> IF records[k] # None THEN records[k].conn ELSE None]
           /\ Entries' = [k \in Keys |-> IF records'[k] # None THEN records'[k].conn ELSE None]
  BY DEF Entries, Nothing

\* A start moves records and shows the same connections.
LEMMA StartShowsSame ==
    ASSUME IInv, Session, Start
    PROVE  Entries' = Entries /\ pointer' = pointer
<1>1. /\ pointer' = pointer /\ legacy' = Nothing
      /\ records' = [k \in Keys |-> IF legacy[k] = None THEN records[k] ELSE legacy[k]]
  BY DEF Start, StartWith
<1>2. CASE legacy = Nothing
  <2>1. records' = records
    BY <1>1, <1>2 DEF IInv, TypeOK, Shape, Nothing
  <2> QED
    BY <1>1, <1>2, <2>1 DEF Entries
<1>3. CASE records = Nothing
  <2>1. records' = legacy
    BY <1>1, <1>3 DEF IInv, TypeOK, Shape, Nothing
  <2> QED
    BY <1>1, <1>3, <2>1 DEF Entries, Nothing
<1> QED
  BY <1>1, <1>2, <1>3 DEF Session, Migrated

LEMMA OnboardIsFirst ==
    ASSUME IInv, Session, NEW k \in Keys, NEW c \in Conns, Onboard(k, c)
    PROVE  Promise!First(k, c)
<1> DEFINE r == [New(c) EXCEPT !.isDefault = TRUE]
<1>1. r \in Record /\ r.isDefault /\ r.conn = c
  BY NewRecords, NewMarks
<1>2. pointer = None /\ legacy = Nothing /\ legacy' = legacy /\ phase = "onboarding"
  BY DEF Onboard, Session, Asking, Migrated
<1>3. Save(k, r)
  BY DEF Onboard
<1> HIDE DEF r
<1>4. pointer' = k /\ records' = [records EXCEPT ![k] = r]
  BY <1>1, <1>3 DEF Save
<1>5. Entries' = [Entries EXCEPT ![k] = c]
  BY <1>1, <1>2, <1>4, EntriesNow, NoneIsNoValue DEF IInv, TypeOK, Shape
<1> QED
  BY <1>2, <1>4, <1>5 DEF Promise!First, Entries

LEMMA CheckShowsSame ==
    ASSUME CInv, careful, NEW c \in Slots, PermissionsChecked(c)
    PROVE  Entries' = Entries /\ pointer' = pointer
<1>1. appConfig # None /\ legacy' = legacy
  BY DEF PermissionsChecked, Loading, CInv, IInv, TypeOK, Shape
<1>2. legacy = Nothing
  BY <1>1, DefaultNow
<1> QED
  BY <1>1, <1>2, CheckedStep, EntriesNow, NoneIsNoValue DEF CInv, IInv, TypeOK, Shape

LEMMA AddIsAdd ==
    ASSUME CInv, careful, RunAdd
    PROVE  \E k \in Keys, c \in Conns : Promise!Add(k, c)
<1>1. PICK k \in Keys, c \in Conns :
          k = saving.key /\ c = saving.conn /\ k # pointer /\ appConfig # None
  <2>1. saving.key \in Keys /\ saving.conn \in Conns /\ appConfig # None
    BY DEF RunAdd, CInv, IInv, TypeOK, Shape, Form, Session, FormsInSession
  <2>2. saving.key # pointer
    BY DEF RunAdd, CInv, Spared
  <2> QED
    BY <2>1, <2>2
<1> DEFINE r == New(c)
<1>2. r \in Record /\ ~r.isDefault /\ r.conn = c
  BY NewRecords, NewMarks
<1>3. Save(k, r)
  BY <1>1 DEF RunAdd
<1>4. legacy = Nothing /\ legacy' = legacy
  BY <1>1, DefaultNow DEF RunAdd
<1> HIDE DEF r
<1>5. pointer' = pointer /\ records' = [records EXCEPT ![k] = r]
  BY <1>1, <1>2, <1>3 DEF Save
<1>6. Entries' = [Entries EXCEPT ![k] = c]
  <2>1. records \in [Keys -> Record \cup {None}] /\ r # None
    BY <1>2, NoneIsNoValue DEF CInv, IInv, TypeOK, Shape
  <2> QED
    BY <1>2, <1>4, <1>5, <2>1, EntriesNow
<1>7. Promise!Add(k, c)
  BY <1>1, <1>5, <1>6 DEF Promise!Add, Entries
<1> QED
  BY <1>7

LEMMA EditIsMove ==
    ASSUME CInv, careful, RunEdit
    PROVE  \E old \in Keys, k \in Keys, c \in Conns : Promise!Move(old, k, c)
<1>1. legacy = Nothing /\ legacy' = legacy
  <2>1. appConfig # None
    BY EditNow DEF RunEdit, CInv, Session, FormsInSession
  <2> QED
    BY <2>1, DefaultNow DEF RunEdit
<1>2. /\ Entries[saving.old] # None
      /\ Entries' = [Entries EXCEPT ![saving.old] = None, ![saving.key] = saving.conn]
  <2>1. records[saving.old] \in Record /\ records[saving.old].conn # None
    BY EditStep, NoneAssumption DEF NoneAssumption, CInv, IInv, TypeOK, Shape, Record
  <2> QED
    BY <1>1, <2>1, EditStep, EntriesNow, NoneIsNoValue DEF CInv, IInv, TypeOK, Shape
<1>3. PICK old \in Keys, k \in Keys, c \in Conns :
          old = saving.old /\ k = saving.key /\ c = saving.conn
  BY EditStep
<1>4. Promise!Move(old, k, c)
  BY <1>2, <1>3, EditStep DEF Promise!Move, Entries
<1> QED
  BY <1>4

LEMMA DeleteIsRemove ==
    ASSUME CInv, careful, NEW k \in Keys, DeleteConfirmed(k)
    PROVE  Promise!Remove(k)
<1>1. overlay /\ k # activeID /\ Delete(k) /\ legacy' = legacy
  BY DEF DeleteConfirmed
<1>2. appConfig # None
  BY <1>1 DEF CInv, IInv, TypeOK, Shape
<1>3. k # pointer /\ legacy = Nothing
  BY <1>1, <1>2, DefaultNow DEF CInv, Session, SameActive
<1>4. pointer' = pointer /\ records' = [records EXCEPT ![k] = None]
  BY <1>1, <1>3 DEF Delete
<1>5. Entries' = [Entries EXCEPT ![k] = None]
  BY <1>1, <1>3, <1>4, EntriesNow DEF CInv, IInv, TypeOK, Shape
<1> QED
  BY <1>3, <1>4, <1>5 DEF Promise!Remove, Entries

LEMMA SwitchIsChoose ==
    ASSUME CInv, careful, NEW k \in Keys, SetAsMain(k)
    PROVE  Promise!Choose(k)
<1>1. legacy = Nothing /\ legacy' = legacy
  <2>1. appConfig # None
    BY DEF SetAsMain, CInv, IInv, TypeOK, Shape
  <2> QED
    BY <2>1, DefaultNow DEF SetAsMain
<1>2. \A x \in Keys : /\ records'[x] # None <=> records[x] # None
                      /\ records[x] # None => records'[x].conn = records[x].conn
  <2>1. /\ records'[k] # None /\ records'[k].conn = records[k].conn
        /\ records[k] # None
    <3>1. records[k] \in Record /\ records'[k] = [records[k] EXCEPT !.isDefault = TRUE]
      BY ChoiceStep
    <3>2. [records[k] EXCEPT !.isDefault = TRUE] \in Record
          /\ [records[k] EXCEPT !.isDefault = TRUE].conn = records[k].conn
      BY <3>1, ChosenRecord
    <3> QED
      BY <3>1, <3>2, NoneIsNoValue
  <2> QED
    BY <2>1, ChoiceStep
<1>3. Entries' = Entries
  BY <1>1, <1>2, EntriesNow
<1>4. Entries[k] # None
  <2>1. records[k] # None /\ records[k].conn # None
    BY ChoiceStep, NoneAssumption, NoneIsNoValue DEF NoneAssumption, Record
  <2> QED
    BY <1>1, <2>1, EntriesNow
<1>5. pointer' = k
  BY ChoiceStep
<1> QED
  BY <1>3, <1>4, <1>5 DEF Promise!Choose, Entries

LEMMA PromiseStep ==
    ASSUME CInv, careful, [Next]_vars
    PROVE  [Promise!Next]_(Promise!vars)
<1> SUFFICES Promise!Next \/ (Entries' = Entries /\ pointer' = pointer)
  BY DEF Promise!vars, Entries
<1>1. CASE Start
BY <1>1, StartShowsSame DEF CInv
<1>2. ASSUME NEW k \in Keys, NEW c \in Conns, Onboard(k, c)
      PROVE  Promise!Next
  <2>1. Promise!First(k, c)
    BY <1>2, OnboardIsFirst DEF CInv
  <2> QED
    BY <2>1 DEF Promise!Next
<1>3. ASSUME NEW c \in Slots, PermissionsChecked(c)
      PROVE  Entries' = Entries /\ pointer' = pointer
BY <1>3, CheckShowsSame
<1>4. CASE RunAdd
  <2>1. PICK k \in Keys, c \in Conns : Promise!Add(k, c)
    BY <1>4, AddIsAdd
  <2> QED
    BY <2>1 DEF Promise!Next
<1>5. CASE RunEdit
  <2>1. PICK old \in Keys, k \in Keys, c \in Conns : Promise!Move(old, k, c)
    BY <1>5, EditIsMove
  <2> QED
    BY <2>1 DEF Promise!Next
<1>6. ASSUME NEW k \in Keys, DeleteConfirmed(k)
      PROVE  Promise!Next
  <2>1. Promise!Remove(k)
    BY <1>6, DeleteIsRemove
  <2> QED
    BY <2>1 DEF Promise!Next
<1>7. ASSUME NEW k \in Keys, SetAsMain(k)
      PROVE  Promise!Next
  <2>1. Promise!Choose(k)
    BY <1>7, SwitchIsChoose
  <2> QED
    BY <2>1 DEF Promise!Next
<1>8. CASE UNCHANGED bucket
BY <1>8 DEF bucket, Entries
<1> QED
  BY <1>1, <1>2, <1>3, <1>4, <1>5, <1>6, <1>7, <1>8, WritingSteps

\* The store implements SettingsPromise for a careful user: what it stores and what
\* it starts with change only as that user asks, whatever is written from a copy.
THEOREM StoreKeepsPromise == Spec => KeepsPromise
<1>1. Init => Promise!Init
  <2> SUFFICES ASSUME Init
               PROVE  Promise!Init
    OBVIOUS
  <2>1. IInv /\ records = Nothing
    BY InitInv DEF Init
  <2>2. Entries \in [Keys -> Conns \cup {None}]
    BY <2>1 DEF IInv, TypeOK, Shape, Entries, Record
  <2>3. pointer \in Keys \cup {None}
    BY <2>1 DEF IInv, TypeOK, Shape
  <2>4. pointer # None => Entries[pointer] # None
    <3>1. ASSUME pointer # None
          PROVE  legacy[pointer] # None /\ pointer \in Keys
      BY <2>1, <2>3, <3>1 DEF IInv, PointerHasRecord, Nothing
    <3> QED
      BY <2>1, <3>1, NoneAssumption DEF NoneAssumption, IInv, TypeOK, Shape, Entries, Record, Nothing
  <2> QED
    BY <2>2, <2>3, <2>4 DEF Promise!Init, Entries
<1>2. CInv /\ [Next]_vars => [careful => [Promise!Next]_(Promise!vars)]_vars
  BY PromiseStep
<1> QED
  BY <1>1, <1>2, CarefulInv, PTL DEF Spec, KeepsPromise

-----------------------------------------------------------------------------
(* The key of the passwords: a program that runs has it on disk and can read *)
(* every password                                                            *)

\* Before the guard has let a program pass.
BeforeGuard == {"down", "stat database", "stat key", "scan", "refused"}

\* A password under a key is in a database that is there, and its key is the one
\* in the file; or the file is lost, and no program has passed the guard since.
GuardedKeys ==
    \A r \in Records : password[r] \in KeyIds =>
        /\ dbFile = "present"
        /\ \/ password[r] = keyFile
           \/ keyFile = 0 /\ \A p \in Procs : pc[p] \in BeforeGuard

\* Who runs has the database open, and it is there.
OpenIsThere == \A p \in Procs : At(p, "running") => dbFile = "present"

KeyInv == KeyTypeOK /\ KeyOnDisk /\ OpenIsThere /\ GuardedKeys

LEMMA KeyInitInv == KeyInit => KeyInv
BY BoundAssumption, ValueAssumption
DEF BoundAssumption, ValueAssumption, KeyInit, KeyInv, KeyTypeOK, KeyOnDisk, OpenIsThere,
    GuardedKeys, Labels, At

LEMMA LaunchStep ==
    ASSUME KeyInv, NEW p \in Procs, Launch(p)
    PROVE  KeyInv'
<1>0. 0 \in 0..MaxKeys
    BY BoundAssumption DEF BoundAssumption
<1>1. KeyTypeOK'
    BY <1>0 DEF KeyInv, KeyTypeOK, Labels, At, Goto, files, Launch
<1>2. KeyOnDisk'
    BY DEF KeyInv, KeyTypeOK, KeyOnDisk, At, Goto, files, Launch
<1>3. OpenIsThere'
    BY DEF KeyInv, KeyTypeOK, OpenIsThere, At, Goto, files, Launch
<1>4. GuardedKeys'
    BY ValueAssumption
    DEF ValueAssumption, KeyInv, KeyTypeOK, KeyOnDisk, OpenIsThere, GuardedKeys, BeforeGuard, At,
        Goto, files,
        Launch
<1> QED BY <1>1, <1>2, <1>3, <1>4 DEF KeyInv

LEMMA KeyStatDatabaseStep ==
    ASSUME KeyInv, NEW p \in Procs, StatDatabase(p)
    PROVE  KeyInv'
<1>1. KeyTypeOK'
    BY BoundAssumption, ValueAssumption
    DEF BoundAssumption, ValueAssumption, KeyInv, KeyTypeOK, Labels, At, Goto, files, StatDatabase
<1>2. KeyOnDisk'
    BY DEF KeyInv, KeyTypeOK, KeyOnDisk, At, Goto, files, StatDatabase
<1>3. OpenIsThere'
    BY DEF KeyInv, KeyTypeOK, OpenIsThere, At, Goto, files, StatDatabase
<1>4. GuardedKeys'
    BY ValueAssumption
    DEF ValueAssumption, KeyInv, KeyTypeOK, KeyOnDisk, OpenIsThere, GuardedKeys, BeforeGuard, At,
        Goto, files,
        StatDatabase
<1> QED BY <1>1, <1>2, <1>3, <1>4 DEF KeyInv

LEMMA KeyStatKeyStep ==
    ASSUME KeyInv, NEW p \in Procs, StatKey(p)
    PROVE  KeyInv'
<1>1. KeyTypeOK'
    BY BoundAssumption, ValueAssumption
    DEF BoundAssumption, ValueAssumption, KeyInv, KeyTypeOK, Labels, At, Goto, files, StatKey
<1>2. KeyOnDisk'
    BY DEF KeyInv, KeyTypeOK, KeyOnDisk, At, Goto, files, StatKey
<1>3. OpenIsThere'
    BY DEF KeyInv, KeyTypeOK, OpenIsThere, At, Goto, files, StatKey
<1>4. GuardedKeys'
    BY ValueAssumption
    DEF ValueAssumption, KeyInv, KeyTypeOK, KeyOnDisk, OpenIsThere, GuardedKeys, BeforeGuard, At,
        Goto, files,
        StatKey
<1> QED BY <1>1, <1>2, <1>3, <1>4 DEF KeyInv

LEMMA KeyScanStep ==
    ASSUME KeyInv, NEW p \in Procs, Scan(p)
    PROVE  KeyInv'
<1>1. KeyTypeOK'
    BY BoundAssumption, ValueAssumption
    DEF BoundAssumption, ValueAssumption, KeyInv, KeyTypeOK, Labels, At, Goto, files, Scan
<1>2. KeyOnDisk'
    BY DEF KeyInv, KeyTypeOK, KeyOnDisk, At, Goto, files, Scan
<1>3. OpenIsThere'
    BY DEF KeyInv, KeyTypeOK, OpenIsThere, At, Goto, files, Scan
<1>4. GuardedKeys'
    BY ValueAssumption
    DEF ValueAssumption, KeyInv, KeyTypeOK, KeyOnDisk, OpenIsThere, GuardedKeys, BeforeGuard, At,
        Goto, files,
        Scan
<1> QED BY <1>1, <1>2, <1>3, <1>4 DEF KeyInv

LEMMA KeyLoadStep ==
    ASSUME KeyInv, NEW p \in Procs, Load(p)
    PROVE  KeyInv'
<1>1. KeyTypeOK'
    BY BoundAssumption, ValueAssumption
    DEF BoundAssumption, ValueAssumption, KeyInv, KeyTypeOK, Labels, At, Goto, files, Load
<1>2. KeyOnDisk'
    BY DEF KeyInv, KeyTypeOK, KeyOnDisk, At, Goto, files, Load
<1>3. OpenIsThere'
    BY DEF KeyInv, KeyTypeOK, OpenIsThere, At, Goto, files, Load
<1>4. GuardedKeys'
    BY ValueAssumption
    DEF ValueAssumption, KeyInv, KeyTypeOK, KeyOnDisk, OpenIsThere, GuardedKeys, BeforeGuard, At,
        Goto, files,
        Load
<1> QED BY <1>1, <1>2, <1>3, <1>4 DEF KeyInv

LEMMA KeyGenerateStep ==
    ASSUME KeyInv, NEW p \in Procs, Generate(p)
    PROVE  KeyInv'
<1>0. made + 1 \in 0..MaxKeys /\ made + 1 # 0
    BY BoundAssumption DEF BoundAssumption, KeyInv, KeyTypeOK, Generate
<1>1. KeyTypeOK'
    BY <1>0 DEF KeyInv, KeyTypeOK, Labels, At, Goto, files, Generate
<1>2. KeyOnDisk'
    BY DEF KeyInv, KeyTypeOK, KeyOnDisk, At, Goto, files, Generate
<1>3. OpenIsThere'
    BY DEF KeyInv, KeyTypeOK, OpenIsThere, At, Goto, files, Generate
<1>4. GuardedKeys'
    BY ValueAssumption
    DEF ValueAssumption, KeyInv, KeyTypeOK, KeyOnDisk, OpenIsThere, GuardedKeys, BeforeGuard, At,
        Goto, files,
        Generate
<1> QED BY <1>1, <1>2, <1>3, <1>4 DEF KeyInv

LEMMA KeyLinkStep ==
    ASSUME KeyInv, NEW p \in Procs, Link(p)
    PROVE  KeyInv'
<1>1. KeyTypeOK'
    BY BoundAssumption DEF BoundAssumption, KeyIds, KeyInv, KeyTypeOK, Labels, At, Goto, files, Link
<1>2. KeyOnDisk'
    BY DEF KeyInv, KeyTypeOK, KeyOnDisk, At, Goto, files, Link
<1>3. OpenIsThere'
    BY DEF KeyInv, KeyTypeOK, OpenIsThere, At, Goto, files, Link
<1>4. GuardedKeys'
    <2>1. CASE keyFile = 0
        <3>1. pc[p] \notin BeforeGuard
            BY DEF Link, At, BeforeGuard
        <3>2. \A r \in Records : password[r] \notin KeyIds
            <4> SUFFICES ASSUME NEW r \in Records, password[r] \in KeyIds PROVE FALSE
                OBVIOUS
            <4>1. password[r] = keyFile
                BY <3>1 DEF KeyInv, GuardedKeys
            <4> QED BY <4>1, <2>1, BoundAssumption DEF KeyIds, BoundAssumption
        <3> QED BY <3>2 DEF GuardedKeys, Link, files
    <2>2. CASE keyFile # 0
        BY <2>2 DEF KeyInv, GuardedKeys, Link, files
    <2> QED BY <2>1, <2>2
<1> QED BY <1>1, <1>2, <1>3, <1>4 DEF KeyInv

LEMMA KeyOpenStep ==
    ASSUME KeyInv, NEW p \in Procs, Open(p)
    PROVE  KeyInv'
<1>1. KeyTypeOK'
    BY BoundAssumption, ValueAssumption
    DEF BoundAssumption, ValueAssumption, KeyInv, KeyTypeOK, Labels, At, Goto, files, Open
<1>2. KeyOnDisk'
    BY DEF KeyInv, KeyTypeOK, KeyOnDisk, At, Goto, files, Open
<1>3. OpenIsThere'
    BY DEF KeyInv, KeyTypeOK, OpenIsThere, At, Goto, files, Open
<1>4. GuardedKeys'
    BY ValueAssumption
    DEF ValueAssumption, KeyInv, KeyTypeOK, KeyOnDisk, OpenIsThere, GuardedKeys, BeforeGuard, At,
        Goto, files,
        Open
<1> QED BY <1>1, <1>2, <1>3, <1>4 DEF KeyInv

LEMMA KeyStopStep ==
    ASSUME KeyInv, NEW p \in Procs, Stop(p)
    PROVE  KeyInv'
<1>1. KeyTypeOK'
    BY BoundAssumption, ValueAssumption
    DEF BoundAssumption, ValueAssumption, KeyInv, KeyTypeOK, Labels, At, Goto, files, Stop
<1>2. KeyOnDisk'
    BY DEF KeyInv, KeyTypeOK, KeyOnDisk, At, Goto, files, Stop
<1>3. OpenIsThere'
    BY DEF KeyInv, KeyTypeOK, OpenIsThere, At, Goto, files, Stop
<1>4. GuardedKeys'
    BY ValueAssumption
    DEF ValueAssumption, KeyInv, KeyTypeOK, KeyOnDisk, OpenIsThere, GuardedKeys, BeforeGuard, At,
        Goto, files,
        Stop
<1> QED BY <1>1, <1>2, <1>3, <1>4 DEF KeyInv

LEMMA SavePasswordStep ==
    ASSUME KeyInv, NEW p \in Procs, NEW r \in Records, SavePassword(p, r)
    PROVE  KeyInv'
<1>0. key[p] \in KeyIds
    BY BoundAssumption DEF KeyTypeOK, KeyInv, SavePassword, At, KeyIds, BoundAssumption
<1>1. KeyTypeOK'
    BY <1>0, BoundAssumption DEF BoundAssumption, KeyInv, KeyTypeOK, Labels, At, Goto, files,
        SavePassword
<1>2. KeyOnDisk'
    BY DEF KeyInv, KeyTypeOK, KeyOnDisk, At, Goto, files, SavePassword
<1>3. OpenIsThere'
    BY DEF KeyInv, KeyTypeOK, OpenIsThere, At, Goto, files, SavePassword
<1>4. GuardedKeys'
    BY ValueAssumption
    DEF ValueAssumption, KeyInv, KeyTypeOK, KeyOnDisk, OpenIsThere, GuardedKeys, BeforeGuard, At,
        Goto, files,
        SavePassword
<1> QED BY <1>1, <1>2, <1>3, <1>4 DEF KeyInv

LEMMA DeletePasswordStep ==
    ASSUME KeyInv, NEW p \in Procs, NEW r \in Records, DeletePassword(p, r)
    PROVE  KeyInv'
<1>1. KeyTypeOK'
    BY BoundAssumption, ValueAssumption
    DEF BoundAssumption, ValueAssumption, KeyInv, KeyTypeOK, Labels, At, Goto, files, DeletePassword
<1>2. KeyOnDisk'
    BY DEF KeyInv, KeyTypeOK, KeyOnDisk, At, Goto, files, DeletePassword
<1>3. OpenIsThere'
    BY DEF KeyInv, KeyTypeOK, OpenIsThere, At, Goto, files, DeletePassword
<1>4. GuardedKeys'
    BY ValueAssumption
    DEF ValueAssumption, KeyInv, KeyTypeOK, KeyOnDisk, OpenIsThere, GuardedKeys, BeforeGuard, At,
        Goto, files,
        DeletePassword
<1> QED BY <1>1, <1>2, <1>3, <1>4 DEF KeyInv

LEMMA KeyLoseKeyStep ==
    ASSUME KeyInv, LoseKey
    PROVE  KeyInv'
<1>0. 0 \in 0..MaxKeys /\ lost + 1 \in 0..MaxLost
    BY BoundAssumption DEF BoundAssumption, KeyInv, KeyTypeOK, LoseKey
<1>1. KeyTypeOK'
    BY <1>0 DEF KeyInv, KeyTypeOK, Labels, At, Goto, files, LoseKey, NobodyStarted
<1>2. KeyOnDisk'
    BY DEF KeyInv, KeyTypeOK, KeyOnDisk, At, Goto, files, LoseKey, NobodyStarted
<1>3. OpenIsThere'
    BY DEF KeyInv, KeyTypeOK, OpenIsThere, At, Goto, files, LoseKey, NobodyStarted
<1>4. GuardedKeys'
    BY ValueAssumption
    DEF ValueAssumption, KeyInv, KeyTypeOK, KeyOnDisk, OpenIsThere, GuardedKeys, BeforeGuard, At,
        Goto, files,
        LoseKey, NobodyStarted
<1> QED BY <1>1, <1>2, <1>3, <1>4 DEF KeyInv

LEMMA KeyRemoveDatabaseStep ==
    ASSUME KeyInv, RemoveDatabase
    PROVE  KeyInv'
<1>1. KeyTypeOK'
    BY BoundAssumption, ValueAssumption
    DEF BoundAssumption, ValueAssumption, KeyInv, KeyTypeOK, Labels, At, Goto, files,
        RemoveDatabase, NobodyStarted
<1>2. KeyOnDisk'
    BY DEF KeyInv, KeyTypeOK, KeyOnDisk, At, Goto, files, RemoveDatabase, NobodyStarted
<1>3. OpenIsThere'
    BY DEF KeyInv, KeyTypeOK, OpenIsThere, At, Goto, files, RemoveDatabase, NobodyStarted
<1>4. GuardedKeys'
    BY ValueAssumption
    DEF ValueAssumption, KeyInv, KeyTypeOK, KeyOnDisk, OpenIsThere, GuardedKeys, BeforeGuard, At,
        Goto, files,
        RemoveDatabase, NobodyStarted
<1> QED BY <1>1, <1>2, <1>3, <1>4 DEF KeyInv

LEMMA KeyRestoreKeyStep ==
    ASSUME KeyInv, NEW k \in KeyIds, RestoreKey(k)
    PROVE  KeyInv'
<1>0. k \in 0..MaxKeys
    BY BoundAssumption DEF KeyIds, BoundAssumption
<1>1. KeyTypeOK'
    BY <1>0, BoundAssumption DEF BoundAssumption, KeyInv, KeyTypeOK, Labels, At, Goto, files,
        RestoreKey, NobodyStarted
<1>2. KeyOnDisk'
    BY DEF KeyInv, KeyTypeOK, KeyOnDisk, At, Goto, files, RestoreKey, NobodyStarted
<1>3. OpenIsThere'
    BY DEF KeyInv, KeyTypeOK, OpenIsThere, At, Goto, files, RestoreKey, NobodyStarted
<1>4. GuardedKeys'
    BY ValueAssumption
    DEF ValueAssumption, KeyInv, KeyTypeOK, KeyOnDisk, OpenIsThere, GuardedKeys, BeforeGuard, At,
        Goto, files,
        RestoreKey, NobodyStarted
<1> QED BY <1>1, <1>2, <1>3, <1>4 DEF KeyInv

LEMMA KeyInductive == KeyInv /\ [KeyNext]_keyVars => KeyInv'
<1> SUFFICES ASSUME KeyInv, [KeyNext]_keyVars PROVE KeyInv'
    OBVIOUS
<1>1. CASE UNCHANGED keyVars
    BY <1>1 DEF keyVars, files, KeyInv, KeyTypeOK, KeyOnDisk, OpenIsThere, GuardedKeys, At
<1>2. ASSUME NEW p \in Procs, Launch(p) \/ Startup(p) \/ Stop(p)
      PROVE  KeyInv'
    BY <1>2, LaunchStep, KeyStatDatabaseStep, KeyStatKeyStep, KeyScanStep, KeyLoadStep,
        KeyGenerateStep,
       KeyLinkStep, KeyOpenStep, KeyStopStep DEF Startup
<1>3. ASSUME NEW p \in Procs, NEW r \in Records, SavePassword(p, r) \/ DeletePassword(p, r)
      PROVE  KeyInv'
    BY <1>3, SavePasswordStep, DeletePasswordStep
<1>4. ASSUME NEW k \in KeyIds, RestoreKey(k)
      PROVE  KeyInv'
    BY <1>4, KeyRestoreKeyStep
<1> QED
    BY <1>1, <1>2, <1>3, <1>4, KeyLoseKeyStep, KeyRemoveDatabaseStep DEF KeyNext

LEMMA KeyInvReadable == KeyInv => Readable
<1> SUFFICES ASSUME KeyInv, NEW p \in Procs, At(p, "running"), NEW r \in Records
             PROVE  password[r] \in {Absent, Plain, key[p]}
    BY DEF Readable
<1>1. password[r] \in {Absent, Plain} \cup KeyIds
    BY DEF KeyInv, KeyTypeOK
<1>2. ASSUME password[r] \in KeyIds PROVE password[r] = key[p]
    <2>1. pc[p] \notin BeforeGuard /\ key[p] = keyFile
        BY DEF At, BeforeGuard, KeyInv, KeyOnDisk
    <2> QED BY <2>1, <1>2 DEF KeyInv, GuardedKeys
<1> QED BY <1>1, <1>2

LEMMA KeyAlways == KeySpec => []KeyInv
BY KeyInitInv, KeyInductive, PTL DEF KeySpec

\* The files, the key and the programs keep their shape, and whoever links or
\* opens has a key, for any number of programs, records and lost keys.
THEOREM CredentialTyped == KeySpec => []KeyTypeOK
<1>1. KeyInv => KeyTypeOK BY DEF KeyInv
<1> QED BY <1>1, KeyAlways, PTL

\* A program that passed the start has the key of the file, whoever made it.
THEOREM KeyIsOnDisk == KeySpec => []KeyOnDisk
<1>1. KeyInv => KeyOnDisk BY DEF KeyInv
<1> QED BY <1>1, KeyAlways, PTL

\* Every password in the database can be decrypted by the program that runs.
THEOREM PasswordsReadable == KeySpec => []Readable
BY KeyAlways, KeyInvReadable, PTL
===============================================================================

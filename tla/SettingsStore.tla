----------------------------- MODULE SettingsStore -----------------------------
(***************************************************************************)
(* The stored connections and everything that writes them: the BoltDB      *)
(* bucket with its default pointer, the copy of the active connection the  *)
(* interface keeps in memory (m.appConfig), the list the settings overlay  *)
(* shows, and the permission check with its two caches, the validated flag *)
(* of a record and the verdict of a schema.                                *)
(*                                                                         *)
(* A BoltDB transaction is one step.  The add and edit forms save on a     *)
(* goroutine, an edit in two transactions; everything else here runs in    *)
(* Update.  A record is stored under the key of its database ID.  The      *)
(* loading sequence is reduced to what reads or writes settings            *)
(* (StartupFlow has the rest): chains of commands, whose results come back *)
(* as messages that do not say which connection they are of.               *)
(***************************************************************************)
EXTENDS Naturals

CONSTANTS
    Keys,      \* storage keys, one for each database ID
    Dbs,       \* Oracle databases
    Users,     \* user names, which are schema names too
    None,
    MaxEvents, \* bound: the starts, the forms submitted, the records deleted and the
               \* s's pressed, all together
    Slots      \* bound: one for each chain under way at a time

ASSUME SettingsAssumption ==
    /\ MaxEvents \in Nat
    /\ None \notin Keys

Conns   == [db : Dbs, user : Users]
Record  == [conn : Conns, isDefault : BOOLEAN, validated : BOOLEAN]
Active  == [key : Keys, conn : Conns, isDefault : BOOLEAN, validated : BOOLEAN]
Form    == [old : Keys \cup {None}, key : Keys, conn : Conns]
Stages  == {"connect", "check", "checked", "deploy"}
Chain   == [stage : Stages, conn : Conns]

ASSUME NoneAssumption ==
    /\ None \notin Conns /\ None \notin Record /\ None \notin Active
    /\ None \notin Form /\ None \notin Chain

VARIABLES
    records,  \* the bucket under "DBconfig:" keys
    legacy,   \* the bucket under "cfg:" keys, left by an older release
    pointer,  \* the key "db:default" names
    oldStyle, \* does it name a "cfg:" key?
    verdicts, \* the permissions bucket: schemas found to be sufficient
    phase,    \* "down", "onboarding", "loading" or "main"
    failed,   \* m.loading.err # nil
    services, \* m.permissionService # nil
    appConfig,
    chains,   \* what of the loading sequence is under way, and for which connection
    asks,     \* SwitchDatabaseMsg's on their way
    overlay,  \* m.dbSettings.visible
    list,     \* m.dbSettings.databases
    activeID,
    saving,   \* a submitted form whose command has not ended
    loaded,   \* the record this command has loaded
    reload,   \* a dbValidationResultMsg on its way
    gone,     \* history: keys deleted or moved away, and not used since
    misled,   \* history: was a connection marked on the verdict of another schema?
    careful,  \* does the user spare the active record, and wait for each save?
    events    \* bound: how many of those that MaxEvents counts there were

bucket   == <<records, legacy, pointer, oldStyle>>
session  == <<phase, failed, services, appConfig>>
pending  == <<chains, asks>>
panel    == <<overlay, list, activeID>>
forms    == <<saving, loaded, reload>>
checks   == <<verdicts, misled>>
aside    == <<careful, gone>>
vars == <<bucket, checks, session, pending, panel, forms, aside, events>>

\* One of what MaxEvents counts
Event == events < MaxEvents /\ events' = events + 1

Nothing == [k \in Keys |-> None]
Idle    == [c \in Slots |-> None]

\* A new record: neither default nor validated.
New(c) == [conn |-> c, isDefault |-> FALSE, validated |-> FALSE]
\* An updated one has to be validated again.
Update(r, c) == [conn |-> c, isDefault |-> r.isDefault, validated |-> FALSE]
RecordOf(a) ==
    [conn |-> a.conn, isDefault |-> a.isDefault, validated |-> a.validated]
ActiveOf(k, r) ==
    [key |-> k, conn |-> r.conn, isDefault |-> r.isDefault, validated |-> r.validated]

\* An older release has left any number of records, one of them the default.
Init ==
    /\ records = Nothing
    /\ pointer \in Keys \cup {None}
    /\ \E chosen \in [Keys -> Conns \cup {None}] :
           /\ pointer # None => chosen[pointer] # None
           /\ legacy = [k \in Keys |->
                  IF chosen[k] = None THEN None
                  ELSE [New(chosen[k]) EXCEPT !.isDefault = (k = pointer)]]
    /\ oldStyle = (pointer # None)
    /\ verdicts = {} /\ misled = FALSE
    /\ phase = "down" /\ failed = FALSE /\ services = FALSE /\ appConfig = None
    /\ chains = Idle /\ asks = 0
    /\ overlay = FALSE /\ list = Nothing /\ activeID = None
    /\ saving = None /\ loaded = None /\ reload = FALSE
    /\ careful \in BOOLEAN
    /\ gone = {} /\ events = 0

-----------------------------------------------------------------------------
(* The repository: what each transaction does to the bucket *)

\* Save: a record that is not the default gives the pointer up.
Save(k, r) ==
    /\ records' = [records EXCEPT ![k] = r]
    /\ pointer' = IF r.isDefault THEN k ELSE IF pointer = k THEN None ELSE pointer

\* SwitchDefault with the cleared copy of the previous default, if there is one
SwitchDefault(previous, k, r) ==
    /\ records' = [x \in Keys |->
           IF x = k THEN r
           ELSE IF previous # None /\ x = previous.key THEN RecordOf(previous)
           ELSE records[x]]
    /\ pointer' = k

Delete(k) ==
    /\ records' = [records EXCEPT ![k] = None]
    /\ pointer' = IF pointer = k THEN None ELSE pointer

\* Replace: whatever record has the new key is overwritten; if that was the
\* default, the pointer stays.
Replace(old, k, r) ==
    /\ records' = [records EXCEPT ![old] = None, ![k] = r]
    /\ pointer' = IF r.isDefault THEN k
                  ELSE IF pointer = old /\ old # k THEN None ELSE pointer

-----------------------------------------------------------------------------
(* The commands of the loading sequence *)

AtStage(c, s) == chains[c] # None /\ chains[c].stage = s

\* The handler of one result issues the next command.
Issue(c, s) == chains' = [chains EXCEPT ![c] = [stage |-> s, conn |-> appConfig.conn]]

Begin(c, conn) ==
    /\ chains[c] = None
    /\ chains' = [chains EXCEPT ![c] = [stage |-> "connect", conn |-> conn]]

Finish(c) == chains' = [chains EXCEPT ![c] = None]

-----------------------------------------------------------------------------
(* Start and end of the program *)

Sole(k) == legacy[k] = None \/ records[k] = None

\* Initialize moves the legacy records and the pointer with them, in one
\* transaction, unless a key is taken; GetDefault decides about onboarding.
StartWith(still) ==
    /\ phase = "down" /\ Event
    /\ \A k \in Keys : Sole(k)
    /\ records' = [k \in Keys |-> IF legacy[k] = None THEN records[k] ELSE legacy[k]]
    /\ legacy' = Nothing
    /\ oldStyle' = still
    /\ IF pointer = None
         THEN phase' = "onboarding" /\ UNCHANGED <<appConfig, chains>>
         ELSE /\ phase' = "loading"
              /\ appConfig' = ActiveOf(pointer, records'[pointer])
              /\ \E c \in Slots : Begin(c, appConfig'.conn)
    /\ UNCHANGED <<pointer, checks, failed, services, asks, panel, forms, aside>>

StartUnmoved == StartWith(TRUE) \* fault: the pointer still names the old key

Start == StartWith(FALSE)

\* The program ends, and with it its goroutines; a form not yet saved is lost.
Exit ==
    /\ phase # "down"
    /\ phase' = "down" /\ failed' = FALSE /\ services' = FALSE /\ appConfig' = None
    /\ chains' = Idle /\ asks' = 0
    /\ overlay' = FALSE /\ list' = Nothing /\ activeID' = None
    /\ saving' = None /\ loaded' = None /\ reload' = FALSE
    /\ UNCHANGED <<bucket, checks, aside, events>>

\* The onboarding form saves the first connection as the default.
Onboard(k, c) ==
    /\ phase = "onboarding"
    /\ Save(k, [New(c) EXCEPT !.isDefault = TRUE])
    /\ appConfig' = ActiveOf(k, records'[k])
    /\ phase' = "loading"
    /\ \E s \in Slots : Begin(s, c)
    /\ gone' = gone \ {k}
    /\ UNCHANGED <<legacy, oldStyle, checks, failed, services, asks, panel, forms,
                   careful, events>>

-----------------------------------------------------------------------------
(* The loading sequence *)

Loading == phase = "loading" /\ ~overlay

\* dbConnectedMsg: the services are made anew, and the validated flag replaces the
\* permission check.
Connected(c) ==
    /\ Loading /\ AtStage(c, "connect")
    /\ services' = TRUE
    /\ Issue(c, IF appConfig.validated THEN "deploy" ELSE "check")
    /\ UNCHANGED <<bucket, checks, phase, failed, appConfig, asks, panel, forms, aside,
                   events>>

\* DeployAndCheck, on its goroutine: a stored verdict of the schema replaces the
\* check.  The command is for the connection it was issued for or, if a switch
\* came before it ran, for the one whose services there are.
CheckPermissions(c, conn) ==
    /\ AtStage(c, "check")
    /\ \/ conn = chains[c].conn
       \/ services /\ conn = appConfig.conn
    /\ verdicts' = verdicts \cup {conn.user}
    /\ chains' = [chains EXCEPT ![c] = [stage |-> "checked", conn |-> conn]]
    /\ UNCHANGED <<bucket, misled, session, asks, panel, forms, aside, events>>

CheckedAfresh(c) == \* fault: a new record is saved
    /\ Loading /\ AtStage(c, "checked")
    /\ appConfig' = [appConfig EXCEPT !.validated = TRUE]
    /\ Save(appConfig.key, [New(appConfig.conn) EXCEPT !.validated = TRUE])
    /\ misled' = (misled \/ chains[c].conn.user # appConfig.conn.user)
    /\ Issue(c, "deploy")
    /\ UNCHANGED <<legacy, oldStyle, verdicts, phase, failed, services, asks, panel, forms,
                   aside, events>>

\* permissionsCheckedMsg: the copy in memory is marked, and saved as it is, whatever
\* connection the message is of.
PermissionsChecked(c) ==
    /\ Loading /\ AtStage(c, "checked")
    /\ appConfig' = [appConfig EXCEPT !.validated = TRUE]
    /\ Save(appConfig.key, RecordOf(appConfig'))
    /\ misled' = (misled \/ chains[c].conn.user # appConfig.conn.user)
    /\ Issue(c, "deploy")
    /\ UNCHANGED <<legacy, oldStyle, verdicts, phase, failed, services, asks, panel, forms,
                   aside, events>>

\* Deployment and registration succeed.  The main screen does not look at the error.
Ready(c) ==
    /\ Loading /\ AtStage(c, "deploy")
    /\ phase' = "main" /\ failed' = FALSE
    /\ Finish(c)
    /\ UNCHANGED <<bucket, checks, services, appConfig, asks, panel, forms, aside, events>>

\* Any command of the sequence fails.
LoadingFails(c) ==
    /\ Loading /\ \E s \in Stages \ {"checked"} : AtStage(c, s)
    /\ failed' = TRUE
    /\ Finish(c)
    /\ UNCHANGED <<bucket, checks, phase, services, appConfig, asks, panel, forms, aside,
                   events>>

\* The overlay swallows the results it does not know, and so does the main screen.
ResultDropped(c) ==
    /\ overlay \/ phase = "main"
    /\ chains[c] # None
    /\ Finish(c)
    /\ UNCHANGED <<bucket, checks, session, asks, panel, forms, aside, events>>

\* The retry timer is over; the adapter is the one made from appConfig.
Retry(c) ==
    /\ Loading /\ failed
    /\ failed' = FALSE
    /\ Begin(c, appConfig.conn)
    /\ UNCHANGED <<bucket, checks, phase, services, appConfig, asks, panel, forms, aside,
                   events>>

-----------------------------------------------------------------------------
(* The settings overlay *)

Quiet == careful => saving = None /\ ~reload

Show ==
    /\ overlay' = TRUE
    /\ list' = records
    /\ activeID' = appConfig.key

\* From the main screen
OpenOverlay ==
    /\ phase = "main" /\ ~overlay /\ Quiet
    /\ Show
    /\ UNCHANGED <<bucket, checks, session, pending, forms, aside, events>>

\* s, after a failed start, sends a message to the program itself.
AskSwitch ==
    /\ Loading /\ failed /\ Quiet
    /\ Event
    /\ asks' = asks + 1
    /\ UNCHANGED <<bucket, checks, session, chains, panel, forms, aside>>

\* SwitchDatabaseMsg: opens the overlay wherever the loading stands by then.
OpenAsked ==
    /\ Loading /\ Quiet
    /\ asks > 0 /\ asks' = asks - 1
    /\ Show
    /\ UNCHANGED <<bucket, checks, session, chains, forms, aside, events>>

AskDropped ==
    /\ overlay \/ phase = "main"
    /\ asks > 0 /\ asks' = asks - 1
    /\ UNCHANGED <<bucket, checks, session, chains, panel, forms, aside, events>>

CloseOverlay ==
    /\ overlay /\ Quiet
    /\ overlay' = FALSE /\ list' = Nothing /\ activeID' = None
    /\ UNCHANGED <<bucket, checks, session, pending, forms, aside, events>>

\* The form of a new connection, or of one in the list, is submitted.
Submit(old, k, c) ==
    /\ overlay /\ saving = None /\ Quiet
    /\ Event
    /\ old # None => list[old] # None
    /\ careful => activeID \notin {old, k}
    /\ saving' = [old |-> old, key |-> k, conn |-> c]
    /\ UNCHANGED <<bucket, checks, session, pending, panel, loaded, reload, aside>>

RunAdd ==
    /\ saving # None /\ saving.old = None
    /\ Save(saving.key, New(saving.conn))
    /\ gone' = gone \ {saving.key}
    /\ saving' = None /\ reload' = TRUE
    /\ UNCHANGED <<legacy, oldStyle, checks, session, pending, panel, loaded, careful,
                   events>>

LoadAsDefault == \* fault: what is loaded counts as the default
    /\ saving # None /\ saving.old # None /\ loaded = None
    /\ IF records[saving.old] = None
         THEN saving' = None /\ UNCHANGED loaded
         ELSE loaded' = [records[saving.old] EXCEPT !.isDefault = TRUE] /\ UNCHANGED saving
    /\ UNCHANGED <<bucket, checks, session, pending, panel, reload, aside, events>>

\* An edit loads the record again,
LoadEdited ==
    /\ saving # None /\ saving.old # None /\ loaded = None
    /\ IF records[saving.old] = None
         THEN saving' = None /\ UNCHANGED loaded
         ELSE loaded' = records[saving.old] /\ UNCHANGED saving
    /\ UNCHANGED <<bucket, checks, session, pending, panel, reload, aside, events>>

EditKeepingVerdict == \* fault: the edited record stays validated
    /\ loaded # None
    /\ Replace(saving.old, saving.key, [loaded EXCEPT !.conn = saving.conn])
    /\ gone' = (gone \cup {saving.old}) \ {saving.key}
    /\ saving' = None /\ loaded' = None /\ reload' = TRUE
    /\ UNCHANGED <<legacy, oldStyle, checks, session, pending, panel, careful, events>>

\* updates it and, in a second transaction, puts it under its new key, whatever has
\* become of it meanwhile.
RunEdit ==
    /\ loaded # None
    /\ Replace(saving.old, saving.key, Update(loaded, saving.conn))
    /\ gone' = (gone \cup {saving.old}) \ {saving.key}
    /\ saving' = None /\ loaded' = None /\ reload' = TRUE
    /\ UNCHANGED <<legacy, oldStyle, checks, session, pending, panel, careful, events>>

\* dbValidationResultMsg: the list is read again, unless a form that is open takes
\* the message.
Reload(seen) ==
    /\ reload /\ reload' = FALSE
    /\ careful => seen
    /\ list' = IF overlay /\ seen THEN records ELSE list
    /\ UNCHANGED <<bucket, checks, session, pending, overlay, activeID, saving, loaded,
                   aside, events>>

\* deleteConfirmedMsg for a connection that is not the active one
DeleteConfirmed(k) ==
    /\ overlay /\ Quiet
    /\ Event
    /\ list[k] # None /\ k # activeID
    /\ Delete(k)
    /\ gone' = gone \cup {k}
    /\ list' = records'
    /\ UNCHANGED <<legacy, oldStyle, checks, session, pending, overlay, activeID, forms,
                   careful>>

\* The copy in memory, cleared, if it was the default
Cleared(a, k) ==
    IF a.key # k /\ a.isDefault THEN [a EXCEPT !.isDefault = FALSE] ELSE None

SetAsMainOfList(k) == \* fault: every record is written as the list has it
    /\ overlay /\ Quiet
    /\ list[k] # None /\ k # activeID
    /\ records' = [x \in Keys |->
           IF list[x] = None THEN None ELSE [list[x] EXCEPT !.isDefault = (x = k)]]
    /\ pointer' = k
    /\ appConfig' = ActiveOf(k, records'[k])
    /\ overlay' = FALSE /\ list' = Nothing /\ activeID' = None
    /\ phase' = "loading" /\ failed' = FALSE /\ services' = FALSE
    /\ \E c \in Slots : Begin(c, appConfig'.conn)
    /\ UNCHANGED <<legacy, oldStyle, checks, asks, forms, aside, events>>

\* handleSettingsSetAsMain, once the database has answered the probe
SetAsMain(k) ==
    /\ overlay /\ Quiet
    /\ list[k] # None /\ k # activeID
    /\ SwitchDefault(Cleared(appConfig, k), k, [list[k] EXCEPT !.isDefault = TRUE])
    /\ appConfig' = ActiveOf(k, records'[k])
    /\ overlay' = FALSE /\ list' = Nothing /\ activeID' = None
    /\ phase' = "loading" /\ failed' = FALSE /\ services' = FALSE
    /\ \E c \in Slots : Begin(c, appConfig'.conn)
    /\ UNCHANGED <<legacy, oldStyle, checks, asks, forms, aside, events>>

\* showDatabaseSwitchError: the overlay stays, over a loading screen with an error.
SwitchFails ==
    /\ overlay /\ Quiet
    /\ phase = "loading" /\ ~failed
    /\ \E k \in Keys : list[k] # None /\ k # activeID
    /\ failed' = TRUE
    /\ UNCHANGED <<bucket, checks, phase, services, appConfig, pending, panel, forms,
                   aside, events>>

Next ==
    \/ Start
    \/ Exit
    \/ \E k \in Keys, c \in Conns : Onboard(k, c)
    \/ \E c \in Slots : Connected(c)
    \/ \E c \in Slots, conn \in Conns : CheckPermissions(c, conn)
    \/ \E c \in Slots : PermissionsChecked(c)
    \/ \E c \in Slots : Ready(c)
    \/ \E c \in Slots : LoadingFails(c)
    \/ \E c \in Slots : ResultDropped(c)
    \/ \E c \in Slots : Retry(c)
    \/ OpenOverlay
    \/ AskSwitch
    \/ OpenAsked
    \/ AskDropped
    \/ CloseOverlay
    \/ \E old \in Keys \cup {None}, k \in Keys, c \in Conns : Submit(old, k, c)
    \/ RunAdd
    \/ LoadEdited
    \/ RunEdit
    \/ \E seen \in BOOLEAN : Reload(seen)
    \/ \E k \in Keys : DeleteConfirmed(k)
    \/ \E k \in Keys : SetAsMain(k)
    \/ SwitchFails

Spec == Init /\ [][Next]_vars

-----------------------------------------------------------------------------
(* Properties *)

Flags ==
    /\ oldStyle \in BOOLEAN /\ overlay \in BOOLEAN /\ reload \in BOOLEAN
    /\ failed \in BOOLEAN /\ services \in BOOLEAN
    /\ careful \in BOOLEAN /\ misled \in BOOLEAN

\* What is stored and what is shown.  Only a program past the onboarding has an active
\* configuration, and only over such a one the settings are open.
Shape ==
    /\ records \in [Keys -> Record \cup {None}]
    /\ legacy \in [Keys -> Record \cup {None}]
    /\ pointer \in Keys \cup {None}
    /\ verdicts \subseteq Users
    /\ phase \in {"down", "onboarding", "loading", "main"}
    /\ appConfig \in Active \cup {None}
    /\ phase \in {"loading", "main"} <=> appConfig # None
    /\ list \in [Keys -> Record \cup {None}] /\ activeID \in Keys \cup {None}
    /\ overlay => phase \in {"loading", "main"}
    /\ saving \in Form \cup {None} /\ loaded \in Record \cup {None}
    /\ loaded # None => saving # None /\ saving.old # None
    /\ gone \subseteq Keys

\* What is under way, and its bound
Commands ==
    /\ chains \in [Slots -> Chain \cup {None}]
    /\ events \in 0..MaxEvents /\ asks \in 0..events

\* The shape of the state.
TypeOK == Shape /\ Commands /\ Flags

\* The default pointer never dangles, whatever is saved, moved, deleted, switched or
\* migrated: a dangling pointer would end every start with an error.
PointerHasRecord ==
    pointer # None =>
        IF oldStyle THEN legacy[pointer] # None ELSE records[pointer] # None

Vouched(r) == r = None \/ ~r.validated \/ r.conn.user \in verdicts

\* However old the copy that was last written, a connection counts as validated only
\* if its schema has a verdict: editing a connection takes the flag away, and no
\* stale copy brings it back to other contents.  But a verdict that comes in after a
\* switch marks the connection switched to (misled).
ValidatedHasVerdict ==
    \/ misled
    \/ /\ \A k \in Keys : Vouched(records[k]) /\ Vouched(legacy[k]) /\ Vouched(list[k])
       /\ Vouched(appConfig)

Promise == INSTANCE SettingsPromise WITH
    entries <- [k \in Keys |-> IF records[k] # None THEN records[k].conn
                               ELSE IF legacy[k] # None THEN legacy[k].conn
                               ELSE None],
    default <- pointer

\* The store keeps its promise to a careful user, through switches, permission
\* checks, failed starts and restarts: see SettingsPromise.
KeepsPromise ==
    Promise!Init /\ [][careful => [Promise!Next]_(Promise!vars)]_vars

\* A record that was deleted or moved away comes back only from a form, entered again
\* or under way when it was deleted, or as the active connection: a switch or a permission
\* check writes it from a copy that is older than the deletion.
ComesBackAsActive ==
    [][\A k \in gone : records[k] = None /\ records'[k] # None =>
           k \notin gone' \/ k \in {appConfig.key, appConfig'.key}]_vars

\* Once there is a default there is one, until the user deletes it or enters another
\* connection over it.  What an edit enters over it keeps the pointer without the
\* flag, and the next permission check of that record gives the pointer up; no other
\* check and no switch does, however stale the copy that is written.
DefaultKept ==
    [][pointer # None /\ pointer' = None =>
           \/ pointer \in gone'
           \/ saving # None /\ saving' = None /\ saving.key = pointer
           \/ appConfig.key = pointer /\ ~appConfig.isDefault]_vars
=============================================================================

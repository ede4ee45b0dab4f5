---------------------------- MODULE TracerListener ----------------------------
(***************************************************************************)
(* The event listener of one database connection: TracerService of         *)
(* internal/service/tracer with the Oracle adapter below it and the        *)
(* Bubble Tea event loop above it.                                         *)
(*                                                                         *)
(* StartEventListener starts two goroutines that share processMu: one      *)
(* drains what was queued before the start, the other loops on a blocking  *)
(* dequeue.  What they dequeue goes to a buffered channel, from which the  *)
(* pump command of the UI takes one message at a time, and to the webhook  *)
(* pool.  CancelConnectionListener, on the UI goroutine, stops both, waits *)
(* for them, drains the channel and unregisters the consumer.              *)
(*                                                                         *)
(* Messages are numbered in the order AQ delivers them to the consumer.    *)
(***************************************************************************)
EXTENDS Naturals, Sequences

CONSTANTS
    MaxMsgs,          \* bound: the messages the traced programs publish
    MaxRegistrations, \* bound: the startup chains that register the consumer
    ChanCap,          \* the capacity of the event channel
    BatchSize,        \* the consumer's batch size
    Malformed,        \* the messages whose payload is not the expected JSON
    ToWebhook         \* the messages sent by Trace_Message_To_Webhook

Msgs == 1..MaxMsgs

ASSUME ListenerAssumption ==
    /\ MaxMsgs \in Nat /\ MaxRegistrations \in Nat
    /\ ChanCap \in Nat \ {0} /\ BatchSize \in Nat \ {0}
    /\ Malformed \subseteq Msgs /\ ToWebhook \subseteq Msgs

VARIABLES
    registered,    \* does AQ know the consumer?
    aq,            \* the messages AQ keeps for it
    published,     \* the number of messages published so far
    registrations, \* how many startup chains have registered the consumer
    startMsgs,     \* subscriberRegisteredMsg's on their way to the UI
    connOpen,      \* is the adapter's connection open?
    listening,     \* ts.listenerCancel # nil
    ctxLive,       \* is ts.listenerCtx live?
    active,        \* ts.activeSubscriber # nil
    at,            \* where each goroutine of the listener stands
    batch,         \* the messages the holder of processMu has still to handle
    channel,       \* ts.eventChannel
    onMain,        \* is the main screen shown?
    pump,          \* the command that waits for the next event
    held,          \* the message it carries to the UI, 0 for none
    ui,            \* where the UI goroutine stands
    why,           \* what CancelConnectionListener was called for
    unregFailed,   \* history: has an unregistration failed?
    shown,         \* history: the messages shown, in their order
    forwarded      \* history: the messages handed to the webhook pool, in theirs

aqVars      == <<registered, aq, published>>
startupVars == <<registrations, startMsgs>>
tsVars      == <<listening, active>>
uiVars      == <<ui, why, onMain, unregFailed>>
pumpVars    == <<pump, held>>
history     == <<shown, forwarded>>

vars == <<aqVars, startupVars, connOpen, tsVars, ctxLive, at, batch, channel,
          uiVars, pumpVars, history>>

Goroutine   == {"initial", "loop"}
GoroutineAt == {"off", "top", "lock", "ready", "dequeue", "deliver", "backoff"}
UiAt        == {"idle", "wait", "drain", "unregister", "cancelled", "ended"}
Reason      == {"none", "start", "quit", "switch", "signal"}

Elems(s)     == {s[i] : i \in DOMAIN s}
From(s, n)   == SubSeq(s, n + 1, Len(s))
Holds(g)     == at[g] \in {"ready", "dequeue", "deliver"}
AllOff       == \A g \in Goroutine : at[g] = "off"

Init ==
    /\ registered = FALSE /\ aq = <<>> /\ published = 0
    /\ registrations = 0 /\ startMsgs = 0
    /\ connOpen = TRUE
    /\ listening = FALSE /\ active = FALSE
    /\ ctxLive = TRUE
    /\ at = [g \in Goroutine |-> "off"]
    /\ batch = <<>>
    /\ channel = <<>>
    /\ onMain = FALSE
    /\ pump = "off" /\ held = 0
    /\ ui = "idle" /\ why = "none"
    /\ unregFailed = FALSE
    /\ shown = <<>> /\ forwarded = <<>>

-----------------------------------------------------------------------------
(* Oracle: a traced program calls Trace_Message. *)

\* AQ keeps the message for the consumers registered at that time.
Publish ==
    /\ published < MaxMsgs
    /\ published' = published + 1
    /\ aq' = IF registered THEN Append(aq, published + 1) ELSE aq
    /\ UNCHANGED <<registered, startupVars, connOpen, tsVars, ctxLive, at, batch,
                   channel, uiVars, pumpVars, history>>

-----------------------------------------------------------------------------
(* The goroutines *)

BatchEndsLoop(g, failed) == \* fault: an error ends the loop
    at' = [at EXCEPT ![g] = IF failed \/ g = "initial" THEN "off" ELSE "top"]

\* The closure of processBatch returns, with an error or without, and unlocks.
\* An error ends the initial goroutine as success does and delays the loop.
BatchEnds(g, failed) ==
    at' = [at EXCEPT ![g] = IF g = "initial" THEN "off"
                            ELSE IF failed THEN "backoff" ELSE "top"]

LoopTopBlind(g) == \* fault: the loop never looks at its context
    /\ at[g] = "top"
    /\ at' = [at EXCEPT ![g] = "lock"]
    /\ UNCHANGED <<aqVars, startupVars, connOpen, tsVars, ctxLive, batch, channel,
                   uiVars, pumpVars, history>>

LoopTop(g) ==
    /\ at[g] = "top"
    /\ at' = [at EXCEPT ![g] = IF ctxLive THEN "lock" ELSE "off"]
    /\ UNCHANGED <<aqVars, startupVars, connOpen, tsVars, ctxLive, batch, channel,
                   uiVars, pumpVars, history>>

Lock(g) ==
    /\ at[g] = "lock"
    /\ \A h \in Goroutine : ~Holds(h)
    /\ at' = [at EXCEPT ![g] = "ready"]
    /\ UNCHANGED <<aqVars, startupVars, connOpen, tsVars, ctxLive, batch, channel,
                   uiVars, pumpVars, history>>

\* BulkDequeueTracerMessages looks at the context and at the connection before it
\* enters the blocking call, and at nothing after.
EnterDequeue(g) ==
    /\ at[g] = "ready"
    /\ IF ctxLive /\ connOpen
         THEN at' = [at EXCEPT ![g] = "dequeue"]
         ELSE BatchEnds(g, TRUE)
    /\ UNCHANGED <<aqVars, startupVars, connOpen, tsVars, ctxLive, batch, channel,
                   uiVars, pumpVars, history>>

DequeueSomeKept(g, n) == \* fault: the dequeue is never committed
    /\ at[g] = "dequeue"
    /\ registered
    /\ n <= Len(aq)
    /\ batch' = SubSeq(aq, 1, n)
    /\ at' = [at EXCEPT ![g] = "deliver"]
    /\ UNCHANGED <<aqVars, startupVars, connOpen, tsVars, ctxLive, channel, uiVars,
                   pumpVars, history>>

\* DEQUEUE_ARRAY removes the messages at once (visibility IMMEDIATE).
DequeueSome(g, n) ==
    /\ at[g] = "dequeue"
    /\ registered
    /\ n <= Len(aq)
    /\ batch' = SubSeq(aq, 1, n)
    /\ aq' = From(aq, n)
    /\ at' = [at EXCEPT ![g] = "deliver"]
    /\ UNCHANGED <<registered, published, startupVars, connOpen, tsVars, ctxLive,
                   channel, uiVars, pumpVars, history>>

\* ORA-25228: the wait time is over.
DequeueNone(g) ==
    /\ at[g] = "dequeue"
    /\ registered
    /\ aq = <<>>
    /\ BatchEnds(g, FALSE)
    /\ UNCHANGED <<aqVars, startupVars, connOpen, tsVars, ctxLive, batch, channel,
                   uiVars, pumpVars, history>>

\* The call fails, or the extraction of the messages it has already removed does.
DequeueFails(g, n) ==
    /\ at[g] = "dequeue"
    /\ n <= Len(aq)
    /\ aq' = From(aq, n)
    /\ BatchEnds(g, TRUE)
    /\ UNCHANGED <<registered, published, startupVars, connOpen, tsVars, ctxLive,
                   batch, channel, uiVars, pumpVars, history>>

\* The next message of the batch, or the end of it.
Proceed(g) ==
    /\ batch' = Tail(batch)
    /\ IF Len(batch) = 1 THEN BatchEnds(g, FALSE) ELSE UNCHANGED at
    /\ UNCHANGED <<aqVars, startupVars, connOpen, tsVars, ctxLive, uiVars, pumpVars,
                   shown>>

\* handleTracerMessage hands the message to the webhook pool if it asks for it and
\* a webhook is configured.
Forward(m) ==
    \/ m \in ToWebhook /\ forwarded' = Append(forwarded, m)
    \/ UNCHANGED forwarded

SkipMalformed(g) ==
    /\ at[g] = "deliver"
    /\ Head(batch) \in Malformed
    /\ UNCHANGED <<channel, forwarded>>
    /\ Proceed(g)

Deliver(g) ==
    /\ at[g] = "deliver"
    /\ Head(batch) \notin Malformed
    /\ Len(channel) < ChanCap
    /\ channel' = Append(channel, Head(batch))
    /\ Forward(Head(batch))
    /\ Proceed(g)

\* Neither the channel nor the context is ready: the default case of the select.
DropFull(g) ==
    /\ at[g] = "deliver"
    /\ Head(batch) \notin Malformed
    /\ Len(channel) >= ChanCap
    /\ ctxLive
    /\ Forward(Head(batch))
    /\ UNCHANGED channel
    /\ Proceed(g)

\* ctx.Done wins the select: processBatch gives up the rest of the batch.
AbandonBatch(g) ==
    /\ at[g] = "deliver"
    /\ Head(batch) \notin Malformed
    /\ ~ctxLive
    /\ batch' = <<>>
    /\ BatchEnds(g, TRUE)
    /\ UNCHANGED <<aqVars, startupVars, connOpen, tsVars, ctxLive, channel,
                   uiVars, pumpVars, history>>

\* After an error the loop waits for five seconds or for the cancellation.
BackoffOver(g) ==
    /\ at[g] = "backoff"
    /\ at' = [at EXCEPT ![g] = "top"]
    /\ UNCHANGED <<aqVars, startupVars, connOpen, tsVars, ctxLive, batch, channel,
                   uiVars, pumpVars, history>>

BackoffCancelled(g) ==
    /\ at[g] = "backoff"
    /\ ~ctxLive
    /\ at' = [at EXCEPT ![g] = "off"]
    /\ UNCHANGED <<aqVars, startupVars, connOpen, tsVars, ctxLive, batch, channel,
                   uiVars, pumpVars, history>>

-----------------------------------------------------------------------------
(* Startup and the event pump *)

\* registerSubscriberCmd, on a goroutine of its own: the consumer is in AQ when it
\* returns, also when it returns an error because the consumer's procedure could
\* not be generated; then no listener is started.
RegisterSubscriber(ok) ==
    /\ registrations < MaxRegistrations
    /\ ~onMain /\ why # "switch" /\ ui # "ended"
    /\ registered' = TRUE
    /\ registrations' = registrations + 1
    /\ startMsgs' = IF ok THEN startMsgs + 1 ELSE startMsgs
    /\ UNCHANGED <<aq, published, connOpen, tsVars, ctxLive, at, batch, channel,
                   uiVars, pumpVars, history>>

EnterMainScreen ==
    /\ ui = "idle" /\ listening /\ ~onMain
    /\ onMain' = TRUE
    /\ pump' = "armed"
    /\ UNCHANGED <<aqVars, startupVars, connOpen, tsVars, ctxLive, at, batch, channel,
                   ui, why, unregFailed, held, history>>

\* waitForEventCmd: its select takes a message, or ends once the context is done.
PumpTakes ==
    /\ pump = "armed" /\ channel # <<>>
    /\ held' = Head(channel)
    /\ channel' = Tail(channel)
    /\ pump' = "off"
    /\ UNCHANGED <<aqVars, startupVars, connOpen, tsVars, ctxLive, at, batch,
                   uiVars, history>>

PumpStops ==
    /\ pump = "armed" /\ ~ctxLive
    /\ pump' = "off"
    /\ UNCHANGED <<aqVars, startupVars, connOpen, tsVars, ctxLive, at, batch, channel,
                   uiVars, held, history>>

\* updateMain handles a queueMessageMsg and arms the pump again.
Show ==
    /\ ui = "idle" /\ onMain /\ held # 0
    /\ shown' = Append(shown, held)
    /\ held' = 0
    /\ pump' = "armed"
    /\ UNCHANGED <<aqVars, startupVars, connOpen, tsVars, ctxLive, at, batch, channel,
                   uiVars, forwarded>>

-----------------------------------------------------------------------------
(* CancelConnectionListener, from its three callers *)

Cancel(reason) ==
    /\ ctxLive' = FALSE
    /\ why' = reason
    /\ ui' = IF listening THEN "wait" ELSE "drain"

\* subscriberRegisteredMsg: StartEventListener cancels what was running first.
StartEventListener ==
    /\ ui = "idle" /\ ~onMain /\ startMsgs > 0
    /\ startMsgs' = startMsgs - 1
    /\ Cancel("start")
    /\ UNCHANGED <<aqVars, registrations, connOpen, tsVars, at, batch, channel,
                   onMain, unregFailed, pumpVars, history>>

\* ctrl+c, or q on a screen that does not need the key.
Quit ==
    /\ ui = "idle"
    /\ Cancel("quit")
    /\ UNCHANGED <<aqVars, startupVars, connOpen, tsVars, at, batch, channel,
                   onMain, unregFailed, pumpVars, history>>

\* n on the loading screen, after an update that failed: m.cancel() and tea.Quit.
QuitAfterUpdateError ==
    /\ ui = "idle" /\ ~onMain
    /\ ctxLive' = FALSE
    /\ why' = "quit"
    /\ ui' = "ended"
    /\ UNCHANGED <<aqVars, startupVars, connOpen, tsVars, at, batch, channel,
                   onMain, unregFailed, pumpVars, history>>

\* SIGTERM or SIGINT: Bubble Tea ends its loop without a call of Model.Update, and
\* main stops no more than the webhook pool.
Signal ==
    /\ ui = "idle"
    /\ why' = "signal"
    /\ ui' = "ended"
    /\ UNCHANGED <<aqVars, startupVars, connOpen, tsVars, ctxLive, at, batch, channel,
                   onMain, unregFailed, pumpVars, history>>

\* main returns: what still runs ends where it is.
Exit ==
    /\ ui = "ended" /\ why \in {"quit", "signal"}
    /\ ctxLive' = FALSE
    /\ at' = [g \in Goroutine |-> "off"]
    /\ batch' = <<>>
    /\ UNCHANGED <<aqVars, startupVars, connOpen, tsVars, channel, uiVars, pumpVars,
                   history>>

\* handleSettingsSetAsMain: another database becomes the active one.
SwitchDatabase ==
    /\ ui = "idle" /\ startMsgs = 0
    /\ onMain' = FALSE
    /\ Cancel("switch")
    /\ UNCHANGED <<aqVars, startupVars, connOpen, tsVars, at, batch, channel,
                   unregFailed, pumpVars, history>>

WaitedNot == \* fault: no listenerWg.Wait
    /\ ui = "wait"
    /\ listening' = FALSE
    /\ ui' = "drain"
    /\ UNCHANGED <<aqVars, startupVars, connOpen, active, ctxLive, at, batch, channel,
                   why, onMain, unregFailed, pumpVars, history>>

\* listenerWg.Wait() returns.
Waited ==
    /\ ui = "wait"
    /\ AllOff
    /\ listening' = FALSE
    /\ ui' = "drain"
    /\ UNCHANGED <<aqVars, startupVars, connOpen, active, ctxLive, at, batch, channel,
                   why, onMain, unregFailed, pumpVars, history>>

DrainOne ==
    /\ ui = "drain" /\ channel # <<>>
    /\ channel' = Tail(channel)
    /\ UNCHANGED <<aqVars, startupVars, connOpen, tsVars, ctxLive, at, batch,
                   uiVars, pumpVars, history>>

DrainedNot == \* fault: no drainEventChannel
    /\ ui = "drain"
    /\ active' = FALSE
    /\ ui' = IF active THEN "unregister" ELSE "cancelled"
    /\ UNCHANGED <<aqVars, startupVars, connOpen, listening, ctxLive, at, batch,
                   channel, why, onMain, unregFailed, pumpVars, history>>

DrainedByListening == \* fault: looks at the listener, which has ended
    /\ ui = "drain" /\ channel = <<>>
    /\ active' = FALSE
    /\ ui' = IF listening THEN "unregister" ELSE "cancelled"
    /\ UNCHANGED <<aqVars, startupVars, connOpen, listening, ctxLive, at, batch,
                   channel, why, onMain, unregFailed, pumpVars, history>>

\* The channel is found empty; the active subscriber is taken under subscriberMu.
Drained ==
    /\ ui = "drain" /\ channel = <<>>
    /\ active' = FALSE
    /\ ui' = IF active THEN "unregister" ELSE "cancelled"
    /\ UNCHANGED <<aqVars, startupVars, connOpen, listening, ctxLive, at, batch,
                   channel, why, onMain, unregFailed, pumpVars, history>>

Unregister ==
    /\ ui = "unregister"
    /\ registered' = FALSE
    /\ aq' = <<>>
    /\ ui' = "cancelled"
    /\ UNCHANGED <<published, startupVars, connOpen, tsVars, ctxLive, at, batch,
                   channel, why, onMain, unregFailed, pumpVars, history>>

\* An error is logged and never stops the caller.
UnregisterFails ==
    /\ ui = "unregister"
    /\ unregFailed' = TRUE
    /\ ui' = "cancelled"
    /\ UNCHANGED <<aqVars, startupVars, connOpen, tsVars, ctxLive, at, batch, channel,
                   why, onMain, pumpVars, history>>

\* CancelConnectionListener has returned to StartEventListener,
Started ==
    /\ ui = "cancelled" /\ why = "start"
    /\ active' = TRUE
    /\ listening' = TRUE
    /\ ctxLive' = TRUE
    /\ at' = [g \in Goroutine |-> IF g = "initial" THEN "lock" ELSE "top"]
    /\ ui' = "idle"
    /\ UNCHANGED <<aqVars, startupVars, connOpen, batch, channel, why, onMain,
                   unregFailed, pumpVars, history>>

\* to the key handler, which quits,
HasQuit ==
    /\ ui = "cancelled" /\ why = "quit"
    /\ ui' = "ended"
    /\ UNCHANGED <<aqVars, startupVars, connOpen, tsVars, ctxLive, at, batch, channel,
                   why, onMain, unregFailed, pumpVars, history>>

\* or to the database switch, which closes the connection under the service.
Switched ==
    /\ ui = "cancelled" /\ why = "switch"
    /\ connOpen' = FALSE
    /\ ui' = "ended"
    /\ UNCHANGED <<aqVars, startupVars, tsVars, ctxLive, at, batch, channel,
                   why, onMain, unregFailed, pumpVars, history>>

-----------------------------------------------------------------------------
Dequeue(g) == \E n \in 1..BatchSize : DequeueSome(g, n)

GoroutineStep(g) ==
    \/ LoopTop(g)
    \/ Lock(g)
    \/ EnterDequeue(g)
    \/ Dequeue(g)
    \/ DequeueNone(g)
    \/ \E n \in 0..BatchSize : DequeueFails(g, n)
    \/ SkipMalformed(g)
    \/ Deliver(g)
    \/ DropFull(g)
    \/ AbandonBatch(g)
    \/ BackoffOver(g)
    \/ BackoffCancelled(g)

CancelStep ==
    \/ Waited
    \/ DrainOne
    \/ Drained
    \/ Unregister
    \/ UnregisterFails
    \/ Started
    \/ HasQuit
    \/ Switched

\* The program has ended, or the service has been replaced by another one.
Ended == ui = "ended" /\ UNCHANGED vars

Next ==
    \/ Publish
    \/ \E g \in Goroutine : GoroutineStep(g)
    \/ \E ok \in BOOLEAN : RegisterSubscriber(ok)
    \/ EnterMainScreen
    \/ PumpTakes
    \/ PumpStops
    \/ Show
    \/ StartEventListener
    \/ Quit
    \/ QuitAfterUpdateError
    \/ Signal
    \/ Exit
    \/ SwitchDatabase
    \/ CancelStep
    \/ Ended

(***************************************************************************)
(* A goroutine that can run does run, and a blocking dequeue returns: its  *)
(* wait time is at most 300 seconds.  A dequeue that is tried for ever     *)
(* with messages waiting succeeds in the end: Oracle is not down for good. *)
(* A program that has left its loop exits.                                 *)
(* The user need not do anything, and nobody need publish.                 *)
(***************************************************************************)
Fairness ==
    /\ \A g \in Goroutine : WF_vars(GoroutineStep(g)) /\ SF_vars(Dequeue(g))
    /\ WF_vars(CancelStep)
    /\ WF_vars(Exit)

Spec     == Init /\ [][Next]_vars
FairSpec == Spec /\ Fairness

-----------------------------------------------------------------------------
(* Properties *)

\* The shape of the state: the channel within its capacity, and a batch in hand
\* exactly while a goroutine delivers one.
TypeOK ==
    /\ registered \in BOOLEAN /\ connOpen \in BOOLEAN /\ listening \in BOOLEAN
    /\ ctxLive \in BOOLEAN /\ active \in BOOLEAN
    /\ onMain \in BOOLEAN /\ unregFailed \in BOOLEAN
    /\ published \in 0..MaxMsgs
    /\ registrations \in 0..MaxRegistrations /\ startMsgs \in 0..registrations
    /\ aq \in Seq(Msgs)
    /\ at \in [Goroutine -> GoroutineAt]
    /\ batch \in Seq(Msgs)
    /\ batch = <<>> <=> \A g \in Goroutine : at[g] # "deliver"
    /\ channel \in Seq(Msgs) /\ Len(channel) <= ChanCap
    /\ pump \in {"off", "armed"} /\ held \in 0..MaxMsgs
    /\ pump = "armed" => held = 0
    /\ ui \in UiAt /\ why \in Reason
    /\ shown \in Seq(Msgs) /\ forwarded \in Seq(Msgs)

\* The connection is never closed under a goroutine of its listener: none is in
\* the blocking call, or about to enter it, when Close releases the handle.  The
\* call does not see the context, so only the wait in Cancel gives it.
NoUseAfterClose == ~connOpen => AllOff

\* The two goroutines and the pump lose no order and duplicate nothing: screen and
\* webhook pool see each message at most once, in the order of publication, across
\* cancellations and restarts.
Delivery == INSTANCE OrderedDelivery
DeliversInOrder == Delivery!Spec

\* When CancelConnectionListener comes to the unregistration, no goroutine of the
\* listener runs and the channel is empty, and so they stay until a new start:
\* "clears any queued connection events that raced with cancellation".
CancelIsClean == ui \in {"unregister", "cancelled"} => AllOff /\ channel = <<>>

\* The UI goroutine, which waits for both goroutines, never hangs in Cancel.
CancelReturns == ui = "wait" ~> ui \in {"idle", "ended"}

\* As long as the listener is not cancelled, what AQ keeps for the consumer is
\* dequeued: no error ends the loop, and no full channel blocks it.
MessagesAreDequeued ==
    \A m \in Msgs : (m \in Elems(aq) /\ listening /\ ctxLive)
                   ~> (m \notin Elems(aq) \/ ~ctxLive)

\* Who leaves the main screen by a key (ctrl+c, or q) has unregistered the consumer
\* when the program ends, unless Oracle refused: wherever the listener stands.
QuitUnregisters ==
    ui = "ended" /\ why = "quit" /\ onMain => ~registered \/ unregFailed
=============================================================================

--------------------------- MODULE WebhookDispatcher ---------------------------
(***************************************************************************)
(* The bounded webhook worker pool of internal/service/tracer: a global    *)
(* dispatcher created on first use, a buffered channel of jobs, a fixed    *)
(* set of workers ranging over it, Enqueue under the read side of an       *)
(* RWMutex, and Stop, which closes the channel under the write side and    *)
(* then waits for the workers.                                             *)
(*                                                                         *)
(* A caller is a goroutine running handleTracerMessage.  The goroutine     *)
(* that runs main calls StopWebhookDispatcher once the TUI has ended.      *)
(***************************************************************************)
EXTENDS Naturals, Sequences, FiniteSets

CONSTANTS
    Jobs,      \* the webhook jobs ever offered
    Callers,   \* the goroutines that offer them
    Workers,   \* the goroutines of the pool (webhookWorkers of them)
    QueueCap,  \* the capacity of the channel (webhookQueueSize)
    NoJob      \* "holds no job"

ASSUME DispatcherAssumption ==
    /\ QueueCap \in Nat \ {0}
    /\ Workers # {}
    /\ NoJob \notin Jobs

VARIABLES
    created,   \* has dispatcherOnce run? (globalWebhookDispatcher # nil)
    queue,     \* d.queue, the buffered channel
    closed,    \* has close(d.queue) run?
    stopped,   \* d.stopped
    callerAt,  \* where each caller stands in getWebhookDispatcher().Enqueue
    callerJob, \* the job each caller carries
    workerAt,  \* where each worker stands in its loop
    workerJob, \* the job each worker is posting
    stopper,   \* where main stands in StopWebhookDispatcher
    posted,    \* history: the jobs whose delivery attempt has ended
    refused    \* history: the jobs Enqueue dropped

vars == <<created, queue, closed, stopped, callerAt, callerJob,
          workerAt, workerJob, stopper, posted, refused>>

callerVars == <<callerAt, callerJob>>
workerVars == <<workerAt, workerJob>>

CallerAt  == {"idle", "rlock", "check", "send"}
WorkerAt  == {"unborn", "receive", "post", "exited"}
StopperAt == {"running", "lock", "mark", "close", "unlock", "wait", "returned"}

(***************************************************************************)
(* d.mu.  A caller holds the read side from RLock to the return of         *)
(* Enqueue, main the write side from Lock to Unlock.  As sync.RWMutex      *)
(* documents, a waiting Lock keeps new readers out.                        *)
(***************************************************************************)
ReadHolders == {c \in Callers : callerAt[c] \in {"check", "send"}}
WriteHeld   == stopper \in {"mark", "close", "unlock"}
WriteWanted == stopper = "lock"

InFlight == {workerJob[w] : w \in {v \in Workers : workerAt[v] = "post"}}
Carried  == {callerJob[c] : c \in {d \in Callers : callerAt[d] # "idle"}}
Queued   == {queue[i] : i \in DOMAIN queue}

Init ==
    /\ created = FALSE
    /\ queue = <<>>
    /\ closed = FALSE
    /\ stopped = FALSE
    /\ callerAt = [c \in Callers |-> "idle"]
    /\ callerJob = [c \in Callers |-> NoJob]
    /\ workerAt = [w \in Workers |-> "unborn"]
    /\ workerJob = [w \in Workers |-> NoJob]
    /\ stopper = "running"
    /\ posted = {}
    /\ refused = {}

-----------------------------------------------------------------------------
(* Enqueue *)

Offered(j) == j \in posted \cup refused \cup InFlight \cup Carried \cup Queued

\* handleTracerMessage reaches getWebhookDispatcher(): the first caller creates
\* the dispatcher and starts its workers, whether or not main has stopped it.
\* The step stands for the return of Once.Do, whose mutex publishes the pointer:
\* main's unsynchronised read of it finds nil before and the pool after.
GetDispatcher(c, j) ==
    /\ callerAt[c] = "idle"
    /\ ~Offered(j)
    /\ created' = TRUE
    /\ workerAt' = IF created THEN workerAt ELSE [w \in Workers |-> "receive"]
    /\ callerAt' = [callerAt EXCEPT ![c] = "rlock"]
    /\ callerJob' = [callerJob EXCEPT ![c] = j]
    /\ UNCHANGED <<queue, closed, stopped, workerJob, stopper, posted, refused>>

RLock(c) ==
    /\ callerAt[c] = "rlock"
    /\ ~WriteHeld
    /\ ~WriteWanted
    /\ callerAt' = [callerAt EXCEPT ![c] = "check"]
    /\ UNCHANGED <<created, queue, closed, stopped, callerJob, workerVars,
                   stopper, posted, refused>>

\* Enqueue returns, and with it the deferred RUnlock runs.
EnqueueReturns(c) ==
    /\ callerAt' = [callerAt EXCEPT ![c] = "idle"]
    /\ callerJob' = [callerJob EXCEPT ![c] = NoJob]
    /\ UNCHANGED <<created, closed, stopped, workerVars, stopper, posted>>

\* if d.stopped { log; return }
RefuseStopped(c) ==
    /\ callerAt[c] = "check"
    /\ stopped
    /\ refused' = refused \cup {callerJob[c]}
    /\ UNCHANGED queue
    /\ EnqueueReturns(c)

PassStopCheck(c) ==
    /\ callerAt[c] = "check"
    /\ ~stopped
    /\ callerAt' = [callerAt EXCEPT ![c] = "send"]
    /\ UNCHANGED <<created, queue, closed, stopped, callerJob, workerVars,
                   stopper, posted, refused>>

\* The select: the send succeeds while the buffer has room (a send on a closed
\* channel would panic: NoSendOnClosed), otherwise default drops the job.
SendJob(c) ==
    /\ callerAt[c] = "send"
    /\ Len(queue) < QueueCap
    /\ queue' = Append(queue, callerJob[c])
    /\ UNCHANGED refused
    /\ EnqueueReturns(c)

RefuseFull(c) ==
    /\ callerAt[c] = "send"
    /\ Len(queue) >= QueueCap
    /\ refused' = refused \cup {callerJob[c]}
    /\ UNCHANGED queue
    /\ EnqueueReturns(c)

-----------------------------------------------------------------------------
(* The workers: for job := range d.queue { SendToWebhook(job) } *)

Receive(w) ==
    /\ workerAt[w] = "receive"
    /\ queue # <<>>
    /\ workerJob' = [workerJob EXCEPT ![w] = Head(queue)]
    /\ workerAt' = [workerAt EXCEPT ![w] = "post"]
    /\ queue' = Tail(queue)
    /\ UNCHANGED <<created, closed, stopped, callerVars, stopper, posted, refused>>

\* SendToWebhook returns, with or without an error: an error is only logged.
PostEnds(w) ==
    /\ workerAt[w] = "post"
    /\ posted' = posted \cup {workerJob[w]}
    /\ workerJob' = [workerJob EXCEPT ![w] = NoJob]
    /\ workerAt' = [workerAt EXCEPT ![w] = "receive"]
    /\ UNCHANGED <<created, queue, closed, stopped, callerVars, stopper, refused>>

\* The channel is closed and drained: the range loop ends, wg.Done runs.
WorkerExits(w) ==
    /\ workerAt[w] = "receive"
    /\ closed
    /\ queue = <<>>
    /\ workerAt' = [workerAt EXCEPT ![w] = "exited"]
    /\ UNCHANGED <<created, queue, closed, stopped, callerVars, workerJob,
                   stopper, posted, refused>>

-----------------------------------------------------------------------------
(* StopWebhookDispatcher *)

\* No dispatcher was ever created: there is nothing to stop.
StopFindsNone ==
    /\ stopper = "running"
    /\ ~created
    /\ stopper' = "returned"
    /\ UNCHANGED <<created, queue, closed, stopped, callerVars, workerVars,
                   posted, refused>>

StopBegins ==
    /\ stopper = "running"
    /\ created
    /\ stopper' = "lock"
    /\ UNCHANGED <<created, queue, closed, stopped, callerVars, workerVars,
                   posted, refused>>

StopLocksAnyway == \* fault: no write lock around the close
    /\ stopper = "lock"
    /\ stopper' = "mark"
    /\ UNCHANGED <<created, queue, closed, stopped, callerVars, workerVars,
                   posted, refused>>

StopLocks ==
    /\ stopper = "lock"
    /\ ReadHolders = {}
    /\ stopper' = "mark"
    /\ UNCHANGED <<created, queue, closed, stopped, callerVars, workerVars,
                   posted, refused>>

StopMarks ==
    /\ stopper = "mark"
    /\ stopped' = TRUE
    /\ stopper' = "close"
    /\ UNCHANGED <<created, queue, closed, callerVars, workerVars, posted, refused>>

StopForgetsClose == \* fault: marks the pool stopped, leaves the channel open
    /\ stopper = "close"
    /\ stopper' = "unlock"
    /\ UNCHANGED <<created, queue, closed, stopped, callerVars, workerVars,
                   posted, refused>>

StopCloses ==
    /\ stopper = "close"
    /\ closed' = TRUE
    /\ stopper' = "unlock"
    /\ UNCHANGED <<created, queue, stopped, callerVars, workerVars, posted, refused>>

StopUnlocks ==
    /\ stopper = "unlock"
    /\ stopper' = "wait"
    /\ UNCHANGED <<created, queue, closed, stopped, callerVars, workerVars,
                   posted, refused>>

StopReturnsAtOnce == \* fault: no wg.Wait
    /\ stopper = "wait"
    /\ stopper' = "returned"
    /\ UNCHANGED <<created, queue, closed, stopped, callerVars, workerVars,
                   posted, refused>>

\* d.wg.Wait() returns once every worker has called wg.Done.
StopReturns ==
    /\ stopper = "wait"
    /\ \A w \in Workers : workerAt[w] = "exited"
    /\ stopper' = "returned"
    /\ UNCHANGED <<created, queue, closed, stopped, callerVars, workerVars,
                   posted, refused>>

-----------------------------------------------------------------------------
CallerStep(c) ==
    \/ RLock(c)
    \/ RefuseStopped(c)
    \/ PassStopCheck(c)
    \/ SendJob(c)
    \/ RefuseFull(c)

WorkerStep(w) ==
    \/ Receive(w)
    \/ PostEnds(w)
    \/ WorkerExits(w)

StopperStep ==
    \/ StopLocks
    \/ StopMarks
    \/ StopCloses
    \/ StopUnlocks
    \/ StopReturns

\* Where a worker rests for good: a pool that main did not stop waits for jobs.
RestsAt == IF stopped THEN "exited" ELSE IF created THEN "receive" ELSE "unborn"

\* Nothing is left to do.  Any other state without a step is a deadlock.
Terminated ==
    /\ stopper = "returned"
    /\ \A j \in Jobs : Offered(j)
    /\ \A c \in Callers : callerAt[c] = "idle"
    /\ \A w \in Workers : workerAt[w] = RestsAt
    /\ UNCHANGED vars

Next ==
    \/ \E c \in Callers, j \in Jobs : GetDispatcher(c, j)
    \/ \E c \in Callers : CallerStep(c)
    \/ \E w \in Workers : WorkerStep(w)
    \/ StopFindsNone
    \/ StopBegins
    \/ StopperStep
    \/ Terminated

(***************************************************************************)
(* Goroutines that can run do run: a caller inside Enqueue never blocks    *)
(* but on the lock, a post is bounded by the HTTP client's timeout, and    *)
(* main is not preempted forever.  No job has to be offered, and main need *)
(* not begin the shutdown.                                                 *)
(***************************************************************************)
Fairness ==
    /\ \A c \in Callers : WF_vars(CallerStep(c))
    /\ \A w \in Workers : WF_vars(WorkerStep(w))
    /\ WF_vars(StopperStep)

Spec     == Init /\ [][Next]_vars
FairSpec == Spec /\ Fairness

-----------------------------------------------------------------------------
(* Properties *)

\* The shape of the state: the channel never holds more than its capacity, and a
\* goroutine holds a job exactly while it is offering or posting one.
TypeOK ==
    /\ created \in BOOLEAN /\ closed \in BOOLEAN /\ stopped \in BOOLEAN
    /\ queue \in Seq(Jobs) /\ Len(queue) <= QueueCap
    /\ callerAt \in [Callers -> CallerAt]
    /\ callerJob \in [Callers -> Jobs \cup {NoJob}]
    /\ \A c \in Callers : callerJob[c] = NoJob <=> callerAt[c] = "idle"
    /\ workerAt \in [Workers -> WorkerAt]
    /\ workerJob \in [Workers -> Jobs \cup {NoJob}]
    /\ \A w \in Workers : workerJob[w] # NoJob <=> workerAt[w] = "post"
    /\ stopper \in StopperAt
    /\ posted \subseteq Jobs /\ refused \subseteq Jobs

\* Enqueue never reaches its send after Stop has closed the channel: the send
\* would panic and take the process down.  The stop flag alone does not give it,
\* since it is read some steps before the send.
NoSendOnClosed == \A c \in Callers : callerAt[c] = "send" => ~closed

\* A job is in one place at most: carried by one caller, in one slot of the
\* channel, held by one worker, posted or refused.  No webhook is called twice
\* for a message, and none is called for a message that was dropped.
JobInOnePlace ==
    /\ \A i, k \in DOMAIN queue : queue[i] = queue[k] => i = k
    /\ \A c, d \in Callers :
          callerAt[c] # "idle" /\ callerJob[c] = callerJob[d] => c = d
    /\ \A v, w \in Workers :
          workerAt[w] = "post" /\ workerJob[v] = workerJob[w] => v = w
    /\ Carried \cap (Queued \cup InFlight \cup posted \cup refused) = {}
    /\ Queued \cap (InFlight \cup posted \cup refused) = {}
    /\ InFlight \cap (posted \cup refused) = {}
    /\ posted \cap refused = {}

(***************************************************************************)
(* The pool keeps its promise: what Enqueue put in the channel is accepted *)
(* until the workers have posted it, and a Stop that found a pool returns  *)
(* only when nothing accepted is left ("flushes any queued webhook         *)
(* deliveries").  A pool created after main looked for one stays open.     *)
(***************************************************************************)
Promise == INSTANCE WebhookPromise WITH
    open     <- ~stopped,
    accepted <- posted \cup InFlight \cup Queued,
    refused  <- refused,
    posted   <- posted,
    flushed  <- stopped /\ stopper = "returned"

KeepsPromise == Promise!Spec

\* Stop always returns: the callers let go of the lock and every worker comes to
\* the end of the closed channel, so that quitting the program cannot hang.
ShutdownReturns == stopper = "lock" ~> stopper = "returned"
=============================================================================

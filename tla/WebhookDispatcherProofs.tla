------------------------ MODULE WebhookDispatcherProofs ------------------------
(***************************************************************************)
(* The webhook pool is safe for every number of jobs, callers and workers  *)
(* and every capacity: Enqueue never sends on the closed channel, a job is *)
(* in one place, and the pool implements WebhookPromise.                   *)
(***************************************************************************)
EXTENDS WebhookDispatcher, TLAPS

(***************************************************************************)
(* NoSendOnClosed is not inductive: it needs that nobody holds the read    *)
(* side while main is between Lock and Unlock (Exclusion), and that the    *)
(* flags follow main's progress (Phases).  The promise needs that a worker *)
(* leaves only a closed and empty channel (Drained), and that main, which  *)
(* waits for the workers, has workers to wait for (Creation).              *)
(***************************************************************************)
Exclusion == WriteHeld => \A c \in Callers : callerAt[c] \notin {"check", "send"}

Phases ==
    /\ stopper \in {"running", "lock", "mark"} => ~stopped
    /\ stopper \in {"close", "unlock", "wait"} => stopped
    /\ stopper \in {"unlock", "wait"} => closed
    /\ stopper = "close" => ~closed
    /\ closed => stopped
    /\ stopped /\ stopper = "returned" => closed

SendersSeeOpen == \A c \in Callers : callerAt[c] = "send" => ~stopped

Drained == \A w \in Workers : workerAt[w] = "exited" => closed /\ queue = <<>>

Unborn == ~created => \A w \in Workers : workerAt[w] = "unborn"

Creation == stopper \notin {"running", "returned"} \/ stopped => created

TypeInv == TypeOK /\ Unborn

AllOut == stopped /\ stopper = "returned"
          => \A w \in Workers : workerAt[w] = "exited"

ShutdownInv == Exclusion /\ Phases /\ SendersSeeOpen /\ Drained /\ Creation /\ AllOut


(* The steps of the system, one case each, for the lemmas below. *)
LEMMA StepCases ==
    ASSUME [Next]_vars
    PROVE  \/ \E c \in Callers, j \in Jobs : GetDispatcher(c, j)
           \/ \E c \in Callers : RLock(c)
           \/ \E c \in Callers : RefuseStopped(c)
           \/ \E c \in Callers : PassStopCheck(c)
           \/ \E c \in Callers : SendJob(c)
           \/ \E c \in Callers : RefuseFull(c)
           \/ \E w \in Workers : Receive(w)
           \/ \E w \in Workers : PostEnds(w)
           \/ \E w \in Workers : WorkerExits(w)
           \/ StopFindsNone \/ StopBegins \/ StopLocks \/ StopMarks
           \/ StopCloses \/ StopUnlocks \/ StopReturns
           \/ UNCHANGED vars
  BY DEF Next, CallerStep, WorkerStep, StopperStep, Terminated

LEMMA TypeInvariant == Spec => []TypeInv
<1>1. Init => TypeInv
  <2> SUFFICES ASSUME Init PROVE TypeInv
    OBVIOUS
  <2> USE DispatcherAssumption DEF Init
  <2>1. queue \in Seq(Jobs) /\ Len(queue) <= QueueCap
    OBVIOUS
  <2>2. callerAt \in [Callers -> CallerAt] /\ workerAt \in [Workers -> WorkerAt]
    BY DEF CallerAt, WorkerAt
  <2>3. stopper \in StopperAt
    BY DEF StopperAt
  <2> QED
    BY <2>1, <2>2, <2>3 DEF TypeInv, TypeOK, Unborn
<1>2. TypeInv /\ [Next]_vars => TypeInv'
  <2> SUFFICES ASSUME TypeInv, [Next]_vars PROVE TypeInv'
    OBVIOUS
  <2> USE DispatcherAssumption DEF TypeInv, TypeOK, Unborn, CallerAt, WorkerAt, StopperAt,
          callerVars, workerVars, EnqueueReturns
  <2>1. ASSUME NEW c \in Callers, NEW j \in Jobs, GetDispatcher(c, j) PROVE TypeInv'
    BY <2>1 DEF GetDispatcher
  <2>2. ASSUME NEW c \in Callers, RLock(c) PROVE TypeInv'
    BY <2>2 DEF RLock
  <2>3. ASSUME NEW c \in Callers, RefuseStopped(c) PROVE TypeInv'
    BY <2>3 DEF RefuseStopped
  <2>4. ASSUME NEW c \in Callers, PassStopCheck(c) PROVE TypeInv'
    BY <2>4 DEF PassStopCheck
  <2>5. ASSUME NEW c \in Callers, SendJob(c) PROVE TypeInv'
    BY <2>5 DEF SendJob
  <2>6. ASSUME NEW c \in Callers, RefuseFull(c) PROVE TypeInv'
    BY <2>6 DEF RefuseFull
  <2>7. ASSUME NEW w \in Workers, Receive(w) PROVE TypeInv'
    BY <2>7 DEF Receive
  <2>8. ASSUME NEW w \in Workers, PostEnds(w) PROVE TypeInv'
    BY <2>8 DEF PostEnds
  <2>9. ASSUME NEW w \in Workers, WorkerExits(w) PROVE TypeInv'
    BY <2>9 DEF WorkerExits
  <2>10. CASE StopFindsNone
    BY <2>10 DEF StopFindsNone
  <2>11. CASE StopBegins
    BY <2>11 DEF StopBegins
  <2>12. CASE StopLocks
    BY <2>12 DEF StopLocks
  <2>13. CASE StopMarks
    BY <2>13 DEF StopMarks
  <2>14. CASE StopCloses
    BY <2>14 DEF StopCloses
  <2>15. CASE StopUnlocks
    BY <2>15 DEF StopUnlocks
  <2>16. CASE StopReturns
    BY <2>16 DEF StopReturns
  <2>17. CASE UNCHANGED vars
    BY <2>17 DEF vars
  <2> QED
    BY StepCases, <2>1, <2>2, <2>3, <2>4, <2>5, <2>6, <2>7, <2>8, <2>9, <2>10, <2>11, <2>12, <2>13, <2>14, <2>15, <2>16, <2>17
<1> QED
  BY <1>1, <1>2, PTL DEF Spec

\* The channel, the goroutines and the history have the shape TypeOK states.
THEOREM TypeCorrect == Spec => []TypeOK
  BY TypeInvariant, PTL DEF TypeInv

-----------------------------------------------------------------------------
(* The shutdown. *)

LEMMA ShutdownInvariant == Spec => []ShutdownInv
<1>1. Init => ShutdownInv
  BY DEF Init, ShutdownInv, Exclusion, WriteHeld, Phases, SendersSeeOpen,
         Drained, Creation, AllOut
<1>2. TypeInv /\ ShutdownInv /\ [Next]_vars => ShutdownInv'
  <2> SUFFICES ASSUME TypeInv, ShutdownInv, [Next]_vars PROVE ShutdownInv'
    OBVIOUS
  <2> USE DEF TypeInv, TypeOK, Unborn, ShutdownInv, Exclusion, WriteHeld, Phases,
          SendersSeeOpen, Drained, Creation, AllOut, WorkerAt, CallerAt, StopperAt,
          callerVars, workerVars, EnqueueReturns, ReadHolders
  <2>1. ASSUME NEW c \in Callers, NEW j \in Jobs, GetDispatcher(c, j) PROVE ShutdownInv'
    BY <2>1 DEF GetDispatcher
  <2>2. ASSUME NEW c \in Callers, RLock(c) PROVE ShutdownInv'
    BY <2>2 DEF RLock
  <2>3. ASSUME NEW c \in Callers, RefuseStopped(c) PROVE ShutdownInv'
    BY <2>3 DEF RefuseStopped
  <2>4. ASSUME NEW c \in Callers, PassStopCheck(c) PROVE ShutdownInv'
    BY <2>4 DEF PassStopCheck
  <2>5. ASSUME NEW c \in Callers, SendJob(c) PROVE ShutdownInv'
    BY <2>5 DEF SendJob
  <2>6. ASSUME NEW c \in Callers, RefuseFull(c) PROVE ShutdownInv'
    BY <2>6 DEF RefuseFull
  <2>7. ASSUME NEW w \in Workers, Receive(w) PROVE ShutdownInv'
    BY <2>7 DEF Receive
  <2>8. ASSUME NEW w \in Workers, PostEnds(w) PROVE ShutdownInv'
    BY <2>8 DEF PostEnds
  <2>9. ASSUME NEW w \in Workers, WorkerExits(w) PROVE ShutdownInv'
    BY <2>9 DEF WorkerExits
  <2>10. CASE StopFindsNone
    BY <2>10 DEF StopFindsNone
  <2>11. CASE StopBegins
    BY <2>11 DEF StopBegins
  <2>12. CASE StopLocks
    BY <2>12 DEF StopLocks
  <2>13. CASE StopMarks
    BY <2>13 DEF StopMarks
  <2>14. CASE StopCloses
    BY <2>14 DEF StopCloses
  <2>15. CASE StopUnlocks
    BY <2>15 DEF StopUnlocks
  <2>16. CASE StopReturns
    BY <2>16 DEF StopReturns
  <2>17. CASE UNCHANGED vars
    BY <2>17 DEF vars
  <2> QED
    BY StepCases, <2>1, <2>2, <2>3, <2>4, <2>5, <2>6, <2>7, <2>8, <2>9, <2>10, <2>11, <2>12, <2>13, <2>14, <2>15, <2>16, <2>17
<1> QED
  BY <1>1, <1>2, TypeInvariant, PTL DEF Spec

\* No Enqueue reaches its send once Stop has closed the channel.
THEOREM NeverSendsOnClosed == Spec => []NoSendOnClosed
<1>1. ShutdownInv => NoSendOnClosed
  BY DEF ShutdownInv, Phases, SendersSeeOpen, NoSendOnClosed
<1> QED
  BY <1>1, ShutdownInvariant, PTL

-----------------------------------------------------------------------------
(* The jobs. *)

LEMMA QueuedAfterAppend ==
    ASSUME queue \in Seq(Jobs), NEW j \in Jobs, queue' = Append(queue, j)
    PROVE  Queued' = Queued \cup {j}
  BY DEF Queued

LEMMA QueuedAfterReceive ==
    ASSUME queue \in Seq(Jobs), queue # <<>>, queue' = Tail(queue)
    PROVE  /\ Head(queue) \in Jobs
           /\ Queued = Queued' \cup {Head(queue)}
<1>1. /\ Len(queue) \in Nat \ {0}
      /\ Head(queue) = queue[1]
      /\ DOMAIN queue = 1..Len(queue)
      /\ DOMAIN queue' = 1..(Len(queue) - 1)
      /\ \A i \in 1..(Len(queue) - 1) : queue'[i] = queue[i + 1]
  OBVIOUS
<1>2. Head(queue) \in Jobs
  BY <1>1
<1>3. ASSUME NEW i \in DOMAIN queue, i # 1
      PROVE  i - 1 \in DOMAIN queue' /\ queue'[i - 1] = queue[i]
  BY <1>1, <1>3
<1>4. ASSUME NEW j \in Queued, j # Head(queue) PROVE j \in Queued'
  <2>1. PICK i \in DOMAIN queue : queue[i] = j
    BY DEF Queued
  <2> QED
    BY <1>1, <1>3, <1>4, <2>1 DEF Queued
<1>5. ASSUME NEW j \in Queued' PROVE j \in Queued
  <2>1. PICK i \in DOMAIN queue' : queue'[i] = j
    BY DEF Queued
  <2> QED
    BY <1>1, <2>1 DEF Queued
<1>6. Head(queue) \in Queued
  BY <1>1 DEF Queued
<1> QED
  BY <1>2, <1>4, <1>5, <1>6

\* What an action does to the jobs the callers carry, and to those the workers hold.
LEMMA CarriedUnchanged ==
    ASSUME callerJob' = callerJob,
           \A c \in Callers : callerAt'[c] = "idle" <=> callerAt[c] = "idle"
    PROVE  Carried' = Carried
  BY DEF Carried

LEMMA InFlightUnchanged ==
    ASSUME workerJob' = workerJob,
           \A w \in Workers : workerAt'[w] = "post" <=> workerAt[w] = "post"
    PROVE  InFlight' = InFlight
  BY DEF InFlight

LEMMA CarriedAfterOffer ==
    ASSUME TypeOK, NEW c \in Callers, NEW j \in Jobs, callerAt[c] = "idle",
           callerAt' = [callerAt EXCEPT ![c] = "rlock"],
           callerJob' = [callerJob EXCEPT ![c] = j]
    PROVE  Carried' = Carried \cup {j}
  BY DEF Carried, TypeOK

LEMMA CarriedAfterReturn ==
    ASSUME TypeOK, JobInOnePlace, NEW c \in Callers, callerAt[c] # "idle",
           EnqueueReturns(c)
    PROVE  /\ callerJob[c] \in Carried
           /\ Carried' = Carried \ {callerJob[c]}
<1> USE DEF EnqueueReturns, TypeOK, CallerAt
<1>1. callerJob[c] \in Carried
  BY DEF Carried
<1>2. ASSUME NEW j, j \in Carried' PROVE j \in Carried /\ j # callerJob[c]
  <2>1. PICK d \in Callers : callerAt'[d] # "idle" /\ callerJob'[d] = j
    BY <1>2 DEF Carried
  <2>2. d # c
    BY <2>1
  <2>3. callerAt[d] # "idle" /\ callerJob[d] = j
    BY <2>1, <2>2
  <2> QED
    BY <2>2, <2>3 DEF Carried, JobInOnePlace
<1>3. ASSUME NEW j, j \in Carried, j # callerJob[c] PROVE j \in Carried'
  BY <1>3 DEF Carried
<1> QED
  BY <1>1, <1>2, <1>3

LEMMA InFlightAfterReceive ==
    ASSUME TypeOK, NEW w \in Workers, workerAt[w] = "receive", NEW j,
           workerJob' = [workerJob EXCEPT ![w] = j],
           workerAt' = [workerAt EXCEPT ![w] = "post"]
    PROVE  InFlight' = InFlight \cup {j}
  BY DEF InFlight, TypeOK

LEMMA InFlightAfterPost ==
    ASSUME TypeOK, JobInOnePlace, NEW w \in Workers, workerAt[w] = "post",
           workerJob' = [workerJob EXCEPT ![w] = NoJob],
           workerAt' = [workerAt EXCEPT ![w] = "receive"]
    PROVE  /\ workerJob[w] \in InFlight
           /\ InFlight' = InFlight \ {workerJob[w]}
<1> USE DEF TypeOK, WorkerAt
<1>1. workerJob[w] \in InFlight
  BY DEF InFlight
<1>2. ASSUME NEW j, j \in InFlight' PROVE j \in InFlight /\ j # workerJob[w]
  <2>1. PICK v \in Workers : workerAt'[v] = "post" /\ workerJob'[v] = j
    BY <1>2 DEF InFlight
  <2>2. v # w
    BY <2>1
  <2>3. workerAt[v] = "post" /\ workerJob[v] = j
    BY <2>1, <2>2
  <2> QED
    BY <2>2, <2>3 DEF InFlight, JobInOnePlace
<1>3. ASSUME NEW j, j \in InFlight, j # workerJob[w] PROVE j \in InFlight'
  BY <1>3 DEF InFlight
<1> QED
  BY <1>1, <1>2, <1>3

\* A job is in one place: no webhook is called twice for a message, and none for a
\* message that was dropped.
THEOREM OnePlace == Spec => []JobInOnePlace
<1>1. Init => JobInOnePlace
  BY DEF Init, JobInOnePlace, Carried, Queued, InFlight
<1>2. TypeInv /\ JobInOnePlace /\ [Next]_vars => JobInOnePlace'
  <2> SUFFICES ASSUME TypeInv, JobInOnePlace, [Next]_vars PROVE JobInOnePlace'
    OBVIOUS
  <2> USE DispatcherAssumption DEF TypeInv, callerVars, workerVars
  <2>0. ASSUME UNCHANGED <<callerVars, workerVars, queue, posted, refused>>
        PROVE  JobInOnePlace'
    <3>1. Carried' = Carried /\ InFlight' = InFlight /\ Queued' = Queued
      BY <2>0, CarriedUnchanged, InFlightUnchanged DEF Queued
    <3> QED
      BY <2>0, <3>1 DEF JobInOnePlace
  <2>1. ASSUME NEW c \in Callers, NEW j \in Jobs, GetDispatcher(c, j) PROVE JobInOnePlace'
    <3>1. Carried' = Carried \cup {j} /\ Queued' = Queued
      BY <2>1, CarriedAfterOffer DEF GetDispatcher, Queued
    <3>2. InFlight' = InFlight
      BY <2>1, InFlightUnchanged DEF GetDispatcher, Unborn
    <3>3. \A d, e \in Callers :
             callerAt'[d] # "idle" /\ callerJob'[d] = callerJob'[e] => d = e
      BY <2>1 DEF GetDispatcher, Offered, Carried, TypeOK, JobInOnePlace
    <3>4. \A v, w \in Workers :
             workerAt'[w] = "post" /\ workerJob'[v] = workerJob'[w] => v = w
      BY <2>1 DEF GetDispatcher, Unborn, JobInOnePlace
    <3> QED
      BY <2>1, <3>1, <3>2, <3>3, <3>4 DEF GetDispatcher, Offered, JobInOnePlace
  <2>2. ASSUME NEW c \in Callers, RLock(c) PROVE JobInOnePlace'
    <3>1. Carried' = Carried /\ InFlight' = InFlight /\ Queued' = Queued
      BY <2>2, CarriedUnchanged, InFlightUnchanged DEF RLock, TypeOK, Queued
    <3> QED
      BY <2>2, <3>1 DEF RLock, JobInOnePlace, TypeOK
  <2>3. ASSUME NEW c \in Callers, RefuseStopped(c) PROVE JobInOnePlace'
    <3>1. /\ callerJob[c] \in Carried
          /\ Carried' = Carried \ {callerJob[c]}
      BY <2>3, CarriedAfterReturn DEF RefuseStopped
    <3>2. InFlight' = InFlight /\ Queued' = Queued
      BY <2>3, InFlightUnchanged DEF RefuseStopped, EnqueueReturns, Queued
    <3>3. \A d, e \in Callers :
             callerAt'[d] # "idle" /\ callerJob'[d] = callerJob'[e] => d = e
      BY <2>3 DEF RefuseStopped, EnqueueReturns, TypeOK, JobInOnePlace
    <3> QED
      BY <2>3, <3>1, <3>2, <3>3 DEF RefuseStopped, EnqueueReturns, JobInOnePlace
  <2>4. ASSUME NEW c \in Callers, PassStopCheck(c) PROVE JobInOnePlace'
    <3>1. Carried' = Carried /\ InFlight' = InFlight /\ Queued' = Queued
      BY <2>4, CarriedUnchanged, InFlightUnchanged DEF PassStopCheck, TypeOK, Queued
    <3> QED
      BY <2>4, <3>1 DEF PassStopCheck, JobInOnePlace, TypeOK
  <2>5. ASSUME NEW c \in Callers, SendJob(c) PROVE JobInOnePlace'
    <3>1. /\ callerJob[c] \in Carried
          /\ Carried' = Carried \ {callerJob[c]}
      BY <2>5, CarriedAfterReturn DEF SendJob
    <3>2. Queued' = Queued \cup {callerJob[c]}
      BY <2>5, QueuedAfterAppend DEF SendJob, TypeOK, CallerAt
    <3>3. \A i, k \in DOMAIN queue' : queue'[i] = queue'[k] => i = k
      BY <2>5, <3>1 DEF SendJob, Queued, JobInOnePlace, TypeOK
    <3>4. \A d, e \in Callers :
             callerAt'[d] # "idle" /\ callerJob'[d] = callerJob'[e] => d = e
      BY <2>5 DEF SendJob, EnqueueReturns, TypeOK, JobInOnePlace
    <3>5. InFlight' = InFlight
      BY <2>5, InFlightUnchanged DEF SendJob, EnqueueReturns
    <3> QED
      BY <2>5, <3>1, <3>2, <3>3, <3>4, <3>5 DEF SendJob, EnqueueReturns, JobInOnePlace
  <2>6. ASSUME NEW c \in Callers, RefuseFull(c) PROVE JobInOnePlace'
    <3>1. /\ callerJob[c] \in Carried
          /\ Carried' = Carried \ {callerJob[c]}
      BY <2>6, CarriedAfterReturn DEF RefuseFull
    <3>2. InFlight' = InFlight /\ Queued' = Queued
      BY <2>6, InFlightUnchanged DEF RefuseFull, EnqueueReturns, Queued
    <3>3. \A d, e \in Callers :
             callerAt'[d] # "idle" /\ callerJob'[d] = callerJob'[e] => d = e
      BY <2>6 DEF RefuseFull, EnqueueReturns, TypeOK, JobInOnePlace
    <3> QED
      BY <2>6, <3>1, <3>2, <3>3 DEF RefuseFull, EnqueueReturns, JobInOnePlace
  <2>7. ASSUME NEW w \in Workers, Receive(w) PROVE JobInOnePlace'
    <3> DEFINE j == Head(queue)
    <3>1. Queued = Queued' \cup {j} /\ j \in Jobs
      BY <2>7, QueuedAfterReceive DEF Receive, TypeOK
    <3>2. /\ \A i, k \in DOMAIN queue' : queue'[i] = queue'[k] => i = k
          /\ j \notin Queued'
      BY <2>7 DEF Receive, Queued, JobInOnePlace, TypeOK
    <3>3. InFlight' = InFlight \cup {j} /\ Carried' = Carried
      BY <2>7, InFlightAfterReceive, CarriedUnchanged DEF Receive
    <3>4. \A u, v \in Workers :
             workerAt'[v] = "post" /\ workerJob'[u] = workerJob'[v] => u = v
      <4>1. ASSUME NEW u \in Workers, workerJob[u] = j PROVE FALSE
        <5>1. workerAt[u] = "post"
          BY <3>1, <4>1 DEF TypeOK
        <5>2. j \in InFlight
          BY <4>1, <5>1 DEF InFlight
        <5> QED
          BY <3>1, <5>2 DEF JobInOnePlace
      <4> QED
        BY <2>7, <4>1 DEF Receive, JobInOnePlace, TypeOK
    <3> QED
      BY <2>7, <3>1, <3>2, <3>3, <3>4 DEF Receive, JobInOnePlace
  <2>8. ASSUME NEW w \in Workers, PostEnds(w) PROVE JobInOnePlace'
    <3>1. /\ workerJob[w] \in InFlight
          /\ InFlight' = InFlight \ {workerJob[w]}
      BY <2>8, InFlightAfterPost DEF PostEnds
    <3>2. Carried' = Carried /\ Queued' = Queued
      BY <2>8, CarriedUnchanged DEF PostEnds, Queued
    <3>3. \A u, v \in Workers :
             workerAt'[v] = "post" /\ workerJob'[u] = workerJob'[v] => u = v
      BY <2>8 DEF PostEnds, JobInOnePlace, TypeOK
    <3> QED
      BY <2>8, <3>1, <3>2, <3>3 DEF PostEnds, JobInOnePlace
  <2>9. ASSUME NEW w \in Workers, WorkerExits(w) PROVE JobInOnePlace'
    <3>1. Carried' = Carried /\ InFlight' = InFlight /\ Queued' = Queued
      BY <2>9, CarriedUnchanged, InFlightUnchanged DEF WorkerExits, TypeOK, Queued
    <3> QED
      BY <2>9, <3>1 DEF WorkerExits, JobInOnePlace, TypeOK
  <2>10. CASE StopFindsNone
    BY <2>10, <2>0 DEF StopFindsNone
  <2>11. CASE StopBegins
    BY <2>11, <2>0 DEF StopBegins
  <2>12. CASE StopLocks
    BY <2>12, <2>0 DEF StopLocks
  <2>13. CASE StopMarks
    BY <2>13, <2>0 DEF StopMarks
  <2>14. CASE StopCloses
    BY <2>14, <2>0 DEF StopCloses
  <2>15. CASE StopUnlocks
    BY <2>15, <2>0 DEF StopUnlocks
  <2>16. CASE StopReturns
    BY <2>16, <2>0 DEF StopReturns
  <2>17. CASE UNCHANGED vars
    BY <2>17, <2>0 DEF vars
  <2> QED
    BY StepCases, <2>1, <2>2, <2>3, <2>4, <2>5, <2>6, <2>7, <2>8, <2>9, <2>10, <2>11, <2>12, <2>13, <2>14, <2>15, <2>16, <2>17
<1> QED
  BY <1>1, <1>2, TypeInvariant, PTL DEF Spec

-----------------------------------------------------------------------------
(* The promise. *)

Accepted == posted \cup InFlight \cup Queued
Flushed  == stopped /\ stopper = "returned"

\* A step that moves no job, does not close the gate and does not end Stop.
LEMMA Stutters ==
    ASSUME Accepted' = Accepted, UNCHANGED <<posted, refused, stopped>>,
           Flushed' = Flushed
    PROVE  UNCHANGED Promise!vars
  BY DEF Promise!vars, Accepted, Flushed

\* The pool implements WebhookPromise: Enqueue accepts or refuses a job once, each
\* accepted job is posted once, and a Stop that found a pool has flushed it.
THEOREM ImplementsPromise == Spec => KeepsPromise
<1>1. Init => Promise!Init
  BY DEF Init, Promise!Init, InFlight, Queued
<1>2. TypeInv /\ ShutdownInv /\ JobInOnePlace /\ [Next]_vars
      => [Promise!Next]_(Promise!vars)
  <2> SUFFICES ASSUME TypeInv, ShutdownInv, JobInOnePlace, [Next]_vars
               PROVE  Promise!Next \/ UNCHANGED Promise!vars
    OBVIOUS
  <2> USE DEF TypeInv, TypeOK, callerVars, workerVars
  <2>1. ASSUME NEW c \in Callers, NEW j \in Jobs, GetDispatcher(c, j) PROVE Promise!Next \/ UNCHANGED Promise!vars
    <3>1. Accepted' = Accepted
      BY <2>1, InFlightUnchanged DEF GetDispatcher, Accepted, Queued, Unborn
    <3> QED
      BY <2>1, <3>1, Stutters DEF GetDispatcher, Flushed
  <2>2. ASSUME NEW c \in Callers, RLock(c) PROVE Promise!Next \/ UNCHANGED Promise!vars
    <3>1. Accepted' = Accepted
      BY <2>2, InFlightUnchanged DEF RLock, Accepted, Queued
    <3> QED
      BY <2>2, <3>1, Stutters DEF RLock, Flushed
  <2>3. ASSUME NEW c \in Callers, RefuseStopped(c) PROVE Promise!Next \/ UNCHANGED Promise!vars
    <3>1. callerJob[c] \in Carried /\ callerJob[c] \in Jobs
      BY <2>3, CarriedAfterReturn DEF RefuseStopped
    <3>2. InFlight' = InFlight /\ Queued' = Queued
      BY <2>3, InFlightUnchanged DEF RefuseStopped, EnqueueReturns, Queued
    <3>3. Promise!Refuse(callerJob[c])
      BY <2>3, <3>1, <3>2
         DEF RefuseStopped, EnqueueReturns, JobInOnePlace, Promise!Refuse, Promise!Fresh
    <3> QED
      BY <3>1, <3>3 DEF Promise!Next
  <2>4. ASSUME NEW c \in Callers, PassStopCheck(c) PROVE Promise!Next \/ UNCHANGED Promise!vars
    <3>1. Accepted' = Accepted
      BY <2>4, InFlightUnchanged DEF PassStopCheck, Accepted, Queued
    <3> QED
      BY <2>4, <3>1, Stutters DEF PassStopCheck, Flushed
  <2>5. ASSUME NEW c \in Callers, SendJob(c) PROVE Promise!Next \/ UNCHANGED Promise!vars
    <3>1. callerJob[c] \in Carried /\ callerJob[c] \in Jobs
      BY <2>5, CarriedAfterReturn DEF SendJob
    <3>2. InFlight' = InFlight /\ Queued' = Queued \cup {callerJob[c]}
      BY <2>5, <3>1, InFlightUnchanged, QueuedAfterAppend DEF SendJob, EnqueueReturns
    <3>3. ~stopped /\ stopped' = stopped /\ stopper' = stopper
      BY <2>5 DEF SendJob, EnqueueReturns, ShutdownInv, SendersSeeOpen
    <3>4. Promise!Accept(callerJob[c])
      BY <2>5, <3>1, <3>2, <3>3
         DEF SendJob, EnqueueReturns, JobInOnePlace, Promise!Accept, Promise!Fresh
    <3> QED
      BY <3>1, <3>4 DEF Promise!Next
  <2>6. ASSUME NEW c \in Callers, RefuseFull(c) PROVE Promise!Next \/ UNCHANGED Promise!vars
    <3>1. callerJob[c] \in Carried /\ callerJob[c] \in Jobs
      BY <2>6, CarriedAfterReturn DEF RefuseFull
    <3>2. InFlight' = InFlight /\ Queued' = Queued
      BY <2>6, InFlightUnchanged DEF RefuseFull, EnqueueReturns, Queued
    <3>3. Promise!Refuse(callerJob[c])
      BY <2>6, <3>1, <3>2
         DEF RefuseFull, EnqueueReturns, JobInOnePlace, Promise!Refuse, Promise!Fresh
    <3> QED
      BY <3>1, <3>3 DEF Promise!Next
  <2>7. ASSUME NEW w \in Workers, Receive(w) PROVE Promise!Next \/ UNCHANGED Promise!vars
    <3>1. Queued = Queued' \cup {Head(queue)}
      BY <2>7, QueuedAfterReceive DEF Receive
    <3>2. InFlight' = InFlight \cup {Head(queue)}
      BY <2>7, InFlightAfterReceive DEF Receive
    <3>3. Accepted' = Accepted
      BY <2>7, <3>1, <3>2 DEF Receive, Accepted
    <3> QED
      BY <2>7, <3>3, Stutters DEF Receive, Flushed
  <2>8. ASSUME NEW w \in Workers, PostEnds(w) PROVE Promise!Next \/ UNCHANGED Promise!vars
    <3>1. /\ workerJob[w] \in InFlight /\ workerJob[w] \in Jobs
          /\ InFlight' = InFlight \ {workerJob[w]}
      BY <2>8, InFlightAfterPost, DispatcherAssumption DEF PostEnds
    <3>2. Queued' = Queued
      BY <2>8 DEF PostEnds, Queued
    <3>3. Promise!Post(workerJob[w])
      BY <2>8, <3>1, <3>2 DEF PostEnds, JobInOnePlace, Promise!Post
    <3> QED
      BY <3>1, <3>3 DEF Promise!Next
  <2>9. ASSUME NEW w \in Workers, WorkerExits(w) PROVE Promise!Next \/ UNCHANGED Promise!vars
    <3>1. Accepted' = Accepted
      BY <2>9, InFlightUnchanged DEF WorkerExits, Accepted, Queued
    <3> QED
      BY <2>9, <3>1, Stutters DEF WorkerExits, Flushed
  <2>10. CASE StopFindsNone
    <3>1. Accepted' = Accepted
      BY <2>10, InFlightUnchanged DEF StopFindsNone, Accepted, Queued
    <3>2. Flushed' = Flushed
      BY <2>10 DEF StopFindsNone, Flushed, ShutdownInv, Phases
    <3> QED
      BY <2>10, <3>1, <3>2, Stutters DEF StopFindsNone
  <2>11. CASE StopBegins
    <3>1. Accepted' = Accepted
      BY <2>11, InFlightUnchanged DEF StopBegins, Accepted, Queued
    <3>2. Flushed' = Flushed
      BY <2>11 DEF StopBegins, Flushed, ShutdownInv, Phases
    <3> QED
      BY <2>11, <3>1, <3>2, Stutters DEF StopBegins
  <2>12. CASE StopLocks
    <3>1. Accepted' = Accepted
      BY <2>12, InFlightUnchanged DEF StopLocks, Accepted, Queued
    <3>2. Flushed' = Flushed
      BY <2>12 DEF StopLocks, Flushed, ShutdownInv, Phases
    <3> QED
      BY <2>12, <3>1, <3>2, Stutters DEF StopLocks
  <2>13. CASE StopMarks
    <3>1. InFlight' = InFlight /\ Queued' = Queued
      BY <2>13, InFlightUnchanged DEF StopMarks, Queued
    <3>2. ~stopped /\ stopped' /\ stopper # "returned" /\ stopper' # "returned"
      BY <2>13 DEF StopMarks, ShutdownInv, Phases
    <3>3. Promise!Close
      BY <2>13, <3>1, <3>2 DEF StopMarks, Promise!Close
    <3> QED
      BY <3>3 DEF Promise!Next
  <2>14. CASE StopCloses
    <3>1. Accepted' = Accepted
      BY <2>14, InFlightUnchanged DEF StopCloses, Accepted, Queued
    <3>2. Flushed' = Flushed
      BY <2>14 DEF StopCloses, Flushed, ShutdownInv, Phases
    <3> QED
      BY <2>14, <3>1, <3>2, Stutters DEF StopCloses
  <2>15. CASE StopUnlocks
    <3>1. Accepted' = Accepted
      BY <2>15, InFlightUnchanged DEF StopUnlocks, Accepted, Queued
    <3>2. Flushed' = Flushed
      BY <2>15 DEF StopUnlocks, Flushed, ShutdownInv, Phases
    <3> QED
      BY <2>15, <3>1, <3>2, Stutters DEF StopUnlocks
  <2>16. CASE StopReturns
    <3>1. InFlight' = InFlight /\ Queued' = Queued
      BY <2>16, InFlightUnchanged DEF StopReturns, Queued
    <3>2. InFlight = {}
      BY <2>16 DEF StopReturns, InFlight
    <3>3. Queued = {}
      <4>1. queue = <<>>
        BY <2>16, DispatcherAssumption DEF StopReturns, ShutdownInv, Drained
      <4> QED
        BY <4>1 DEF Queued
    <3>4. stopped /\ stopped' /\ stopper # "returned" /\ stopper' = "returned"
      BY <2>16 DEF StopReturns, ShutdownInv, Phases
    <3>5. Promise!Flush
      BY <2>16, <3>1, <3>2, <3>3, <3>4 DEF StopReturns, Promise!Flush
    <3> QED
      BY <3>5 DEF Promise!Next
  <2>17. CASE UNCHANGED vars
    BY <2>17, InFlightUnchanged DEF vars, Queued, Promise!vars
  <2> QED
    BY StepCases, <2>1, <2>2, <2>3, <2>4, <2>5, <2>6, <2>7, <2>8, <2>9, <2>10, <2>11, <2>12, <2>13, <2>14, <2>15, <2>16, <2>17
<1> QED
  BY <1>1, <1>2, TypeInvariant, ShutdownInvariant, OnePlace, PTL
     DEF Spec, KeepsPromise, Promise!Spec
=============================================================================

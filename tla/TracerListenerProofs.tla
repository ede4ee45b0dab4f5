------------------------- MODULE TracerListenerProofs -------------------------
(***************************************************************************)
(* The listener of a connection is safe for every number of messages and   *)
(* registrations, every batch size and channel capacity: Close never pulls *)
(* the connection from under a dequeue, Cancel leaves nothing behind, who  *)
(* quits from the main screen is unregistered, and screen and webhook pool *)
(* see each message at most once and in order.                             *)
(***************************************************************************)
EXTENDS TracerListener, SequenceTheorems, TLAPS

(* Increasing sequences and what is below them. *)
Increasing(s) == \A i, k \in DOMAIN s : i < k => s[i] < s[k]
Below(S, T)   == \A x \in S, y \in T : x < y

LEMMA AppendElems ==
    ASSUME NEW S, NEW s \in Seq(S), NEW e \in S
    PROVE  Elems(Append(s, e)) = Elems(s) \cup {e}
<1>1. /\ DOMAIN s = 1..Len(s)
      /\ DOMAIN Append(s, e) = 1..Len(s) + 1
      /\ Len(s) \in Nat
  BY AppendProperties, LenProperties
<1>2. /\ \A i \in 1..Len(s) : Append(s, e)[i] = s[i]
      /\ Append(s, e)[Len(s) + 1] = e
  BY AppendProperties
<1>3. \A i \in 1..Len(s) + 1 : i = Len(s) + 1 \/ i \in 1..Len(s)
  BY <1>1
<1> QED
  BY <1>1, <1>2, <1>3 DEF Elems

LEMMA AppendIncreasing ==
    ASSUME NEW S \in SUBSET Nat, NEW s \in Seq(S), NEW e \in S,
           Increasing(s), Below(Elems(s), {e})
    PROVE  Increasing(Append(s, e))
<1>1. /\ DOMAIN s = 1..Len(s)
      /\ DOMAIN Append(s, e) = 1..Len(s) + 1
      /\ Len(s) \in Nat
  BY AppendProperties, LenProperties
<1>2. /\ \A i \in 1..Len(s) : Append(s, e)[i] = s[i]
      /\ Append(s, e)[Len(s) + 1] = e
  BY AppendProperties
<1>3. \A i \in 1..Len(s) : s[i] < e
  BY <1>1 DEF Below, Elems
<1> QED
  BY <1>1, <1>2, <1>3 DEF Increasing

\* A sequence cut after its n-th element.
LEMMA Cut ==
    ASSUME NEW S, NEW s \in Seq(S), NEW n \in 0..Len(s)
    PROVE  /\ SubSeq(s, 1, n) \in Seq(S)
           /\ Len(SubSeq(s, 1, n)) = n
           /\ DOMAIN SubSeq(s, 1, n) = 1..n
           /\ \A i \in 1..n : SubSeq(s, 1, n)[i] = s[i]
           /\ From(s, n) \in Seq(S)
           /\ DOMAIN From(s, n) = 1..(Len(s) - n)
           /\ \A i \in 1..(Len(s) - n) : From(s, n)[i] = s[n + i]
<1>1. Len(s) \in Nat /\ n \in Nat /\ n <= Len(s) /\ \A i \in 1..Len(s) : s[i] \in S
  BY LenProperties, ElementOfSeq
<1>2. /\ SubSeq(s, 1, n) \in Seq(S)
      /\ Len(SubSeq(s, 1, n)) = n
      /\ \A i \in 1..n : SubSeq(s, 1, n)[i] = s[i]
  BY <1>1, SubSeqProperties
<1> DEFINE m == n + 1
           r == SubSeq(s, m, Len(s))
<1>3. m \in Int /\ Len(s) \in Int /\ \A i \in m..Len(s) : s[i] \in S
  BY <1>1
<1> HIDE DEF m
<1>4. /\ r \in Seq(S)
      /\ Len(r) = IF m <= Len(s) THEN Len(s) - m + 1 ELSE 0
      /\ \A i \in 1..Len(s) - m + 1 : r[i] = s[m + i - 1]
  BY <1>3, SubSeqProperties
<1>5. Len(s) - m + 1 = Len(s) - n /\ \A i \in Nat : m + i - 1 = n + i
  BY <1>1 DEF m
<1>6. Len(r) = Len(s) - n
  <2>1. CASE n < Len(s)
    <3>1. m <= Len(s)
      BY <1>1, <2>1 DEF m
    <3> QED
      BY <1>4, <1>5, <3>1
  <2>2. CASE n = Len(s)
    <3>1. ~(m <= Len(s)) /\ Len(s) - n = 0
      BY <1>1, <2>2 DEF m
    <3> QED
      BY <1>4, <3>1
  <2>3. n < Len(s) \/ n = Len(s)
    BY <1>1
  <2> QED
    BY <2>1, <2>2, <2>3
<1>7. \A i \in 1..(Len(s) - n) : r[i] = s[n + i]
  BY <1>1, <1>4, <1>5
<1>8. DOMAIN r = 1..(Len(s) - n) /\ DOMAIN SubSeq(s, 1, n) = 1..n
  BY <1>2, <1>4, <1>6, LenProperties
<1>9. From(s, n) = r
  BY DEF From, m
<1> QED
  BY <1>2, <1>4, <1>7, <1>8, <1>9

LEMMA CutElems ==
    ASSUME NEW S, NEW s \in Seq(S), NEW n \in 0..Len(s)
    PROVE  /\ Elems(SubSeq(s, 1, n)) \subseteq Elems(s)
           /\ Elems(From(s, n)) \subseteq Elems(s)
<1> DEFINE p == SubSeq(s, 1, n)
           r == From(s, n)
<1>1. /\ DOMAIN p = 1..n /\ \A i \in 1..n : p[i] = s[i]
      /\ DOMAIN r = 1..(Len(s) - n) /\ \A i \in 1..(Len(s) - n) : r[i] = s[n + i]
  BY Cut
<1>2. DOMAIN s = 1..Len(s) /\ Len(s) \in Nat
  BY LenProperties
<1> HIDE DEF p, r
<1>3. Elems(p) \subseteq Elems(s)
  BY <1>1, <1>2 DEF Elems
<1>4. \A i \in 1..(Len(s) - n) : n + i \in 1..Len(s)
  BY <1>2
<1>5. Elems(r) \subseteq Elems(s)
  BY <1>1, <1>2, <1>4 DEF Elems
<1> QED
  BY <1>3, <1>5 DEF p, r

LEMMA CutIncreasing ==
    ASSUME NEW S \in SUBSET Nat, NEW s \in Seq(S), NEW n \in 0..Len(s), Increasing(s)
    PROVE  /\ Increasing(SubSeq(s, 1, n))
           /\ Increasing(From(s, n))
           /\ Below(Elems(SubSeq(s, 1, n)), Elems(From(s, n)))
<1> DEFINE p == SubSeq(s, 1, n)
           r == From(s, n)
<1>1. /\ DOMAIN p = 1..n /\ \A i \in 1..n : p[i] = s[i]
      /\ DOMAIN r = 1..(Len(s) - n) /\ \A i \in 1..(Len(s) - n) : r[i] = s[n + i]
  BY Cut
<1>2. DOMAIN s = 1..Len(s) /\ Len(s) \in Nat /\ n \in Nat /\ n <= Len(s)
  BY LenProperties
<1> HIDE DEF p, r
<1>3. Increasing(p)
  BY <1>1, <1>2 DEF Increasing
<1>4. Increasing(r)
  <2>1. ASSUME NEW i \in 1..(Len(s) - n), NEW k \in 1..(Len(s) - n), i < k
        PROVE  s[n + i] < s[n + k]
    BY <1>2, <2>1 DEF Increasing
  <2> QED
    BY <1>1, <2>1 DEF Increasing
<1>5. Below(Elems(p), Elems(r))
  <2>1. ASSUME NEW i \in 1..n, NEW k \in 1..(Len(s) - n) PROVE s[i] < s[n + k]
    BY <1>2 DEF Increasing
  <2> QED
    BY <1>1, <2>1 DEF Below, Elems
<1> QED
  BY <1>3, <1>4, <1>5 DEF p, r

\* The first element of a sequence, and the rest of it.
LEMMA HeadTailElems ==
    ASSUME NEW S, NEW s \in Seq(S), s # <<>>
    PROVE  /\ Head(s) \in S /\ Tail(s) \in Seq(S) /\ Len(Tail(s)) = Len(s) - 1
           /\ Head(s) \in Elems(s)
           /\ Elems(Tail(s)) \subseteq Elems(s)
<1>1. /\ Len(s) \in Nat \ {0} /\ DOMAIN s = 1..Len(s) /\ Head(s) = s[1]
      /\ Tail(s) \in Seq(S) /\ Len(Tail(s)) = Len(s) - 1
      /\ \A i \in 1..(Len(s) - 1) : Tail(s)[i] = s[i + 1]
  BY HeadTailProperties, LenProperties, EmptySeq
<1>2. DOMAIN Tail(s) = 1..(Len(s) - 1)
  BY <1>1, LenProperties
<1> QED
  BY <1>1, <1>2, HeadTailProperties DEF Elems

LEMMA HeadTailIncreasing ==
    ASSUME NEW S \in SUBSET Nat, NEW s \in Seq(S), s # <<>>, Increasing(s)
    PROVE  Increasing(Tail(s)) /\ Below({Head(s)}, Elems(Tail(s)))
<1>1. /\ Len(s) \in Nat \ {0} /\ DOMAIN s = 1..Len(s) /\ Head(s) = s[1]
      /\ Tail(s) \in Seq(S) /\ Len(Tail(s)) = Len(s) - 1
      /\ \A i \in 1..(Len(s) - 1) : Tail(s)[i] = s[i + 1]
  BY HeadTailProperties, LenProperties, EmptySeq
<1>2. DOMAIN Tail(s) = 1..(Len(s) - 1)
  BY <1>1, LenProperties
<1> QED
  BY <1>1, <1>2 DEF Increasing, Below, Elems

-----------------------------------------------------------------------------
(* The shape of the state. *)

(* The steps of the system, one case each. *)
LEMMA StepCases ==
    ASSUME [Next]_vars
    PROVE  \/ Publish
           \/ \E g \in Goroutine : LoopTop(g)
           \/ \E g \in Goroutine : Lock(g)
           \/ \E g \in Goroutine : EnterDequeue(g)
           \/ \E g \in Goroutine, n \in 1..BatchSize : DequeueSome(g, n)
           \/ \E g \in Goroutine : DequeueNone(g)
           \/ \E g \in Goroutine, n \in 0..BatchSize : DequeueFails(g, n)
           \/ \E g \in Goroutine : SkipMalformed(g)
           \/ \E g \in Goroutine : Deliver(g)
           \/ \E g \in Goroutine : DropFull(g)
           \/ \E g \in Goroutine : AbandonBatch(g)
           \/ \E g \in Goroutine : BackoffOver(g)
           \/ \E g \in Goroutine : BackoffCancelled(g)
           \/ \E ok \in BOOLEAN : RegisterSubscriber(ok)
           \/ EnterMainScreen
           \/ PumpTakes
           \/ PumpStops
           \/ Show
           \/ StartEventListener
           \/ Quit
           \/ QuitAfterUpdateError
           \/ Signal
           \/ Exit
           \/ SwitchDatabase
           \/ Waited
           \/ DrainOne
           \/ Drained
           \/ Unregister
           \/ UnregisterFails
           \/ Started
           \/ HasQuit
           \/ Switched
           \/ UNCHANGED vars
  BY DEF Next, GoroutineStep, Dequeue, CancelStep, Ended

(***************************************************************************)
(* TypeOK is not inductive: that a batch is in hand exactly while a        *)
(* goroutine delivers needs that one goroutine at most holds processMu,    *)
(* that an armed pump carries nothing needs that there is no pump          *)
(* before the main screen, and that a start finds no goroutine at work     *)
(* needs that the listener of a cancelled service is quiet.                *)
(***************************************************************************)
OneHolder == \A g, h \in Goroutine : Holds(g) /\ Holds(h) => g = h

PumpRests ==
    /\ ui = "idle" => why # "switch"
    /\ ~onMain /\ why # "switch" => pump = "off" /\ held = 0

Quiet ==
    /\ ~listening => AllOff
    /\ ui \in {"drain", "unregister", "cancelled"} => ~listening

TypeInv == TypeOK /\ OneHolder /\ PumpRests /\ Quiet

\* What is forwarded is a message; it goes to the end.
LEMMA ForwardShape ==
    ASSUME TypeInv, NEW m \in Msgs, Forward(m)
    PROVE  /\ forwarded' \in Seq(Msgs)
           /\ \/ Elems(forwarded') = Elems(forwarded)
              \/ Elems(forwarded') = Elems(forwarded) \cup {m}
<1>1. forwarded \in Seq(Msgs)
  BY DEF TypeInv, TypeOK
<1>2. CASE forwarded' = Append(forwarded, m)
  BY <1>1, <1>2, AppendElems, AppendProperties
<1>3. CASE UNCHANGED forwarded
  BY <1>1, <1>3
<1> QED
  BY <1>2, <1>3 DEF Forward

\* The holder of processMu goes on to the next message or ends its batch.
LEMMA ProceedShape ==
    ASSUME TypeInv, NEW g \in Goroutine, at[g] = "deliver", Proceed(g)
    PROVE  /\ at' \in [Goroutine -> GoroutineAt]
           /\ batch' \in Seq(Msgs)
           /\ batch' = <<>> <=> \A h \in Goroutine : at'[h] # "deliver"
           /\ OneHolder' /\ Quiet'
           /\ Head(batch) \in Msgs
<1>1. batch \in Seq(Msgs) /\ batch # <<>> /\ batch' = Tail(batch)
  BY DEF TypeInv, TypeOK, Proceed
<1>2. /\ batch' \in Seq(Msgs) /\ Head(batch) \in Msgs /\ Len(batch) \in Nat \ {0}
      /\ Len(batch') = Len(batch) - 1
  BY <1>1, HeadTailProperties, EmptySeq
<1>3. batch' = <<>> <=> Len(batch) = 1
  <2>1. batch' # <<>> => Len(batch') \in Nat \ {0}
    BY <1>2, EmptySeq
  <2>2. batch' = <<>> => Len(batch') = 0
    BY EmptySeq
  <2> QED
    BY <1>2, <2>1, <2>2
<1> USE DEF TypeInv, TypeOK, OneHolder, Quiet, Holds, Proceed, BatchEnds, AllOff,
            tsVars, uiVars
<1>4. at' \in [Goroutine -> GoroutineAt]
  BY DEF GoroutineAt
<1>5. \A h \in Goroutine : h # g => at'[h] = at[h] /\ ~Holds(h)
  OBVIOUS
<1>6. CASE Len(batch) = 1
  <2>1. at'[g] \in {"off", "top"}
    BY <1>6
  <2> QED
    BY <1>2, <1>3, <1>4, <1>5, <1>6, <2>1
<1>7. CASE Len(batch) # 1
  <2>1. at' = at
    BY <1>7
  <2> QED
    BY <1>2, <1>3, <1>4, <1>5, <1>7, <2>1
<1> QED
  BY <1>6, <1>7

LEMMA TypeInvariant == Spec => []TypeInv
<1> USE ListenerAssumption
<1>1. Init => TypeInv
  <2> SUFFICES ASSUME Init PROVE TypeInv
    OBVIOUS
  <2> USE DEF Init
  <2>1. aq \in Seq(Msgs) /\ batch \in Seq(Msgs) /\ channel \in Seq(Msgs)
        /\ Len(channel) = 0 /\ shown \in Seq(Msgs) /\ forwarded \in Seq(Msgs)
    BY EmptySeq
  <2>2. at \in [Goroutine -> GoroutineAt] /\ (\A g \in Goroutine : at[g] = "off")
    BY DEF Goroutine, GoroutineAt
  <2>3. OneHolder /\ PumpRests /\ Quiet
    BY <2>2 DEF OneHolder, Holds, PumpRests, Quiet, AllOff
  <2>4. ui \in UiAt /\ why \in Reason
    BY DEF UiAt, Reason
  <2>5. published \in 0..MaxMsgs /\ registrations \in 0..MaxRegistrations
        /\ startMsgs \in 0..registrations /\ held \in 0..MaxMsgs
    OBVIOUS
  <2>6. batch = <<>> <=> \A g \in Goroutine : at[g] # "deliver"
    BY <2>2
  <2>7. Len(channel) <= ChanCap
    BY <2>1
  <2> QED
    BY <2>1, <2>2, <2>3, <2>4, <2>5, <2>6, <2>7 DEF TypeInv, TypeOK
<1>2. TypeInv /\ [Next]_vars => TypeInv'
  <2> SUFFICES ASSUME TypeInv, [Next]_vars PROVE TypeInv'
    OBVIOUS
  <2>0. ASSUME NEW n \in 0..Len(aq)
        PROVE  /\ SubSeq(aq, 1, n) \in Seq(Msgs) /\ Len(SubSeq(aq, 1, n)) = n
               /\ From(aq, n) \in Seq(Msgs)
    <3>1. aq \in Seq(Msgs)
      BY DEF TypeInv, TypeOK
    <3> QED
      BY <3>1, Cut
  <2> USE DEF TypeInv, TypeOK, OneHolder, PumpRests, Quiet, AllOff, Holds, Goroutine, GoroutineAt,
          UiAt, Reason, aqVars, startupVars, tsVars, uiVars, pumpVars, history,
          BatchEnds, Cancel
  <2>1. CASE Publish
    <3>1. published + 1 \in Msgs
      BY <2>1 DEF Publish, Msgs
    <3>2. aq' \in Seq(Msgs)
      BY <2>1, <3>1, AppendProperties DEF Publish
    <3> QED
      BY <2>1, <3>2 DEF Publish
  <2>2. ASSUME NEW g \in Goroutine, LoopTop(g) PROVE TypeInv'
    BY <2>2 DEF LoopTop
  <2>3. ASSUME NEW g \in Goroutine, Lock(g) PROVE TypeInv'
    BY <2>3 DEF Lock
  <2>4. ASSUME NEW g \in Goroutine, EnterDequeue(g) PROVE TypeInv'
    BY <2>4 DEF EnterDequeue
  <2>5. ASSUME NEW g \in Goroutine, NEW n \in 1..BatchSize, DequeueSome(g, n) PROVE TypeInv'
    <3>1. /\ n \in 0..Len(aq) /\ n # 0 /\ Len(aq) \in Nat
      BY <2>5, LenProperties DEF DequeueSome
    <3>2. /\ SubSeq(aq, 1, n) \in Seq(Msgs) /\ Len(SubSeq(aq, 1, n)) = n
          /\ From(aq, n) \in Seq(Msgs)
      BY <2>0, <3>1
    <3>3. batch' \in Seq(Msgs) /\ batch' # <<>> /\ aq' \in Seq(Msgs)
      BY <2>5, <3>1, <3>2 DEF DequeueSome
    <3>4. at' \in [Goroutine -> GoroutineAt] /\ at'[g] = "deliver"
      BY <2>5 DEF DequeueSome
    <3>5. OneHolder' /\ Quiet' /\ PumpRests'
      BY <2>5 DEF DequeueSome
    <3>6. (batch = <<>> <=> \A h \in Goroutine : at[h] # "deliver")'
      BY <3>3, <3>4
    <3> HIDE DEF OneHolder, Quiet, PumpRests
    <3>8. UNCHANGED <<registered, published, startupVars, connOpen, tsVars, ctxLive,
                      channel, uiVars, pumpVars, history>>
      BY <2>5 DEF DequeueSome
    <3>9. TypeOK'
      BY <3>3, <3>4, <3>6, <3>8
    <3> QED
      BY <3>5, <3>9
  <2>6. ASSUME NEW g \in Goroutine, DequeueNone(g) PROVE TypeInv'
    BY <2>6 DEF DequeueNone
  <2>7. ASSUME NEW g \in Goroutine, NEW n \in 0..BatchSize, DequeueFails(g, n) PROVE TypeInv'
    <3>1. n \in 0..Len(aq)
      BY <2>7, LenProperties DEF DequeueFails
    <3>2. aq' \in Seq(Msgs)
      BY <2>0, <2>7, <3>1 DEF DequeueFails
    <3> QED
      BY <2>7, <3>2 DEF DequeueFails
  <2>8. ASSUME NEW g \in Goroutine, SkipMalformed(g) PROVE TypeInv'
    <3>1. /\ at' \in [Goroutine -> GoroutineAt]
          /\ batch' \in Seq(Msgs)
          /\ batch' = <<>> <=> \A h \in Goroutine : at'[h] # "deliver"
          /\ OneHolder' /\ Quiet'
          /\ Head(batch) \in Msgs
      BY <2>8, ProceedShape DEF SkipMalformed
    <3>2. /\ channel' \in Seq(Msgs) /\ Len(channel') <= ChanCap
          /\ forwarded' \in Seq(Msgs)
      BY <2>8, <3>1, AppendProperties, LenProperties DEF SkipMalformed
    <3> HIDE DEF OneHolder, Quiet
    <3> QED
      BY <2>8, <3>1, <3>2 DEF SkipMalformed, Proceed
  <2>9. ASSUME NEW g \in Goroutine, Deliver(g) PROVE TypeInv'
    <3>1. /\ at' \in [Goroutine -> GoroutineAt]
          /\ batch' \in Seq(Msgs)
          /\ batch' = <<>> <=> \A h \in Goroutine : at'[h] # "deliver"
          /\ OneHolder' /\ Quiet'
          /\ Head(batch) \in Msgs
      BY <2>9, ProceedShape DEF Deliver
    <3>2. /\ channel' \in Seq(Msgs) /\ Len(channel') <= ChanCap
          /\ forwarded' \in Seq(Msgs)
      BY <2>9, <3>1, ForwardShape, AppendProperties, LenProperties DEF Deliver
    <3> HIDE DEF OneHolder, Quiet
    <3> QED
      BY <2>9, <3>1, <3>2 DEF Deliver, Proceed
  <2>10. ASSUME NEW g \in Goroutine, DropFull(g) PROVE TypeInv'
    <3>1. /\ at' \in [Goroutine -> GoroutineAt]
          /\ batch' \in Seq(Msgs)
          /\ batch' = <<>> <=> \A h \in Goroutine : at'[h] # "deliver"
          /\ OneHolder' /\ Quiet'
          /\ Head(batch) \in Msgs
      BY <2>10, ProceedShape DEF DropFull
    <3>2. /\ channel' \in Seq(Msgs) /\ Len(channel') <= ChanCap
          /\ forwarded' \in Seq(Msgs)
      BY <2>10, <3>1, ForwardShape, AppendProperties, LenProperties DEF DropFull
    <3> HIDE DEF OneHolder, Quiet
    <3> QED
      BY <2>10, <3>1, <3>2 DEF DropFull, Proceed
  <2>11. ASSUME NEW g \in Goroutine, AbandonBatch(g) PROVE TypeInv'
    BY <2>11 DEF AbandonBatch
  <2>12. ASSUME NEW g \in Goroutine, BackoffOver(g) PROVE TypeInv'
    BY <2>12 DEF BackoffOver
  <2>13. ASSUME NEW g \in Goroutine, BackoffCancelled(g) PROVE TypeInv'
    BY <2>13 DEF BackoffCancelled
  <2>14. ASSUME NEW ok \in BOOLEAN, RegisterSubscriber(ok) PROVE TypeInv'
    BY <2>14 DEF RegisterSubscriber
  <2>15. CASE EnterMainScreen
    BY <2>15 DEF EnterMainScreen
  <2>16. CASE PumpTakes
    <3>1. channel' \in Seq(Msgs) /\ Len(channel') <= ChanCap /\ held' \in 0..MaxMsgs
      BY <2>16, HeadTailProperties, LenProperties DEF PumpTakes, Msgs
    <3> QED
      BY <2>16, <3>1 DEF PumpTakes
  <2>17. CASE PumpStops
    BY <2>17 DEF PumpStops
  <2>18. CASE Show
    <3>1. held \in Msgs
      BY <2>18 DEF Show, Msgs
    <3>2. shown' \in Seq(Msgs)
      BY <2>18, <3>1, AppendProperties DEF Show
    <3> QED
      BY <2>18, <3>1, <3>2 DEF Show
  <2>19. CASE StartEventListener
    <3>0. startMsgs' \in 0..registrations'
      BY <2>19 DEF StartEventListener
    <3>1. /\ registered' \in BOOLEAN /\ connOpen' \in BOOLEAN /\ listening' \in BOOLEAN
          /\ ctxLive' \in BOOLEAN /\ active' \in BOOLEAN
          /\ onMain' \in BOOLEAN /\ unregFailed' \in BOOLEAN
      BY <2>19 DEF StartEventListener
    <3>2. OneHolder' /\ PumpRests' /\ Quiet'
      BY <2>19, <3>0 DEF StartEventListener
    <3> QED
      BY <2>19, <3>1, <3>2, <3>0 DEF StartEventListener
  <2>20. CASE Quit
    BY <2>20 DEF Quit
  <2>21. CASE QuitAfterUpdateError
    BY <2>21 DEF QuitAfterUpdateError
  <2>32. CASE Signal
    BY <2>32 DEF Signal
  <2>33. CASE Exit
    <3>1. /\ at' \in [Goroutine -> GoroutineAt]
          /\ \A h \in Goroutine : at'[h] = "off"
      BY <2>33 DEF Exit
    <3>2. batch' = <<>> /\ batch' \in Seq(Msgs)
      BY <2>33 DEF Exit
    <3>3. OneHolder' /\ PumpRests' /\ Quiet'
      BY <2>33, <3>1 DEF Exit
    <3> HIDE DEF OneHolder, PumpRests, Quiet
    <3> QED
      BY <2>33, <3>1, <3>2, <3>3 DEF Exit
  <2>22. CASE SwitchDatabase
    BY <2>22 DEF SwitchDatabase
  <2>23. CASE Waited
    <3>1. /\ registered' \in BOOLEAN /\ connOpen' \in BOOLEAN /\ listening' \in BOOLEAN
          /\ ctxLive' \in BOOLEAN /\ active' \in BOOLEAN
          /\ onMain' \in BOOLEAN /\ unregFailed' \in BOOLEAN
      BY <2>23 DEF Waited
    <3>2. OneHolder' /\ PumpRests' /\ Quiet'
      BY <2>23 DEF Waited
    <3> QED
      BY <2>23, <3>1, <3>2 DEF Waited
  <2>24. CASE DrainOne
    <3>1. channel' \in Seq(Msgs) /\ Len(channel') <= ChanCap
      BY <2>24, HeadTailProperties, LenProperties DEF DrainOne
    <3> QED
      BY <2>24, <3>1 DEF DrainOne
  <2>25. CASE Drained
    <3>1. /\ registered' \in BOOLEAN /\ connOpen' \in BOOLEAN /\ listening' \in BOOLEAN
          /\ ctxLive' \in BOOLEAN /\ active' \in BOOLEAN
          /\ onMain' \in BOOLEAN /\ unregFailed' \in BOOLEAN
      BY <2>25 DEF Drained
    <3>2. OneHolder' /\ PumpRests' /\ Quiet'
      BY <2>25 DEF Drained
    <3> QED
      BY <2>25, <3>1, <3>2 DEF Drained
  <2>26. CASE Unregister
    <3>0. aq' \in Seq(Msgs)
      BY <2>26, EmptySeq DEF Unregister
    <3>1. /\ registered' \in BOOLEAN /\ connOpen' \in BOOLEAN /\ listening' \in BOOLEAN
          /\ ctxLive' \in BOOLEAN /\ active' \in BOOLEAN
          /\ onMain' \in BOOLEAN /\ unregFailed' \in BOOLEAN
      BY <2>26 DEF Unregister
    <3>2. OneHolder' /\ PumpRests' /\ Quiet'
      BY <2>26, <3>0 DEF Unregister
    <3> QED
      BY <2>26, <3>1, <3>2, <3>0 DEF Unregister
  <2>27. CASE UnregisterFails
    BY <2>27 DEF UnregisterFails
  <2>28. CASE Started
    <3>0. /\ at' \in [Goroutine -> GoroutineAt]
          /\ \A g \in Goroutine : at'[g] \notin {"ready", "dequeue", "deliver"}
      BY <2>28 DEF Started
    <3>1. /\ registered' \in BOOLEAN /\ connOpen' \in BOOLEAN /\ listening' \in BOOLEAN
          /\ ctxLive' \in BOOLEAN /\ active' \in BOOLEAN
          /\ onMain' \in BOOLEAN /\ unregFailed' \in BOOLEAN
      BY <2>28 DEF Started
    <3>2. OneHolder' /\ PumpRests' /\ Quiet'
      BY <2>28, <3>0 DEF Started
    <3> QED
      BY <2>28, <3>1, <3>2, <3>0 DEF Started
  <2>29. CASE HasQuit
    BY <2>29 DEF HasQuit
  <2>30. CASE Switched
    BY <2>30 DEF Switched
  <2>31. CASE UNCHANGED vars
    BY <2>31 DEF vars
  <2> QED
    BY StepCases, <2>1, <2>2, <2>3, <2>4, <2>5, <2>6, <2>7, <2>8, <2>9,
       <2>10, <2>11, <2>12, <2>13, <2>14, <2>15, <2>16, <2>17, <2>18, <2>19,
       <2>20, <2>21, <2>22, <2>23, <2>24, <2>25, <2>26, <2>27, <2>28, <2>29,
       <2>30, <2>31, <2>32, <2>33
<1> QED
  BY <1>1, <1>2, PTL DEF Spec

\* Every variable of the listener has the shape TypeOK states.
THEOREM TypeCorrect == Spec => []TypeOK
  BY TypeInvariant, PTL DEF TypeInv

-----------------------------------------------------------------------------
(* Close and cancellation. *)

Clean ==
    /\ ~connOpen => ui = "ended" /\ ~listening
    /\ ui \in {"unregister", "cancelled"} => channel = <<>>

LEMMA CleanInvariant == Spec => []Clean
<1>1. Init => Clean
  BY DEF Init, Clean
<1>2. TypeInv /\ Clean /\ [Next]_vars => Clean'
  <2> SUFFICES ASSUME TypeInv, Clean, [Next]_vars PROVE Clean'
    OBVIOUS
  <2> USE DEF TypeInv, Quiet, AllOff, Clean, aqVars, startupVars, tsVars, uiVars,
          pumpVars, history, Cancel, Proceed
  <2>1. CASE Publish
    BY <2>1 DEF Publish
  <2>2. ASSUME NEW g \in Goroutine, LoopTop(g) PROVE Clean'
    BY <2>2 DEF LoopTop
  <2>3. ASSUME NEW g \in Goroutine, Lock(g) PROVE Clean'
    BY <2>3 DEF Lock
  <2>4. ASSUME NEW g \in Goroutine, EnterDequeue(g) PROVE Clean'
    BY <2>4 DEF EnterDequeue
  <2>5. ASSUME NEW g \in Goroutine, NEW n \in 1..BatchSize, DequeueSome(g, n) PROVE Clean'
    BY <2>5 DEF DequeueSome
  <2>6. ASSUME NEW g \in Goroutine, DequeueNone(g) PROVE Clean'
    BY <2>6 DEF DequeueNone
  <2>7. ASSUME NEW g \in Goroutine, NEW n \in 0..BatchSize, DequeueFails(g, n) PROVE Clean'
    BY <2>7 DEF DequeueFails
  <2>8. ASSUME NEW g \in Goroutine, SkipMalformed(g) PROVE Clean'
    BY <2>8 DEF SkipMalformed
  <2>9. ASSUME NEW g \in Goroutine, Deliver(g) PROVE Clean'
    BY <2>9 DEF Deliver
  <2>10. ASSUME NEW g \in Goroutine, DropFull(g) PROVE Clean'
    BY <2>10 DEF DropFull
  <2>11. ASSUME NEW g \in Goroutine, AbandonBatch(g) PROVE Clean'
    BY <2>11 DEF AbandonBatch
  <2>12. ASSUME NEW g \in Goroutine, BackoffOver(g) PROVE Clean'
    BY <2>12 DEF BackoffOver
  <2>13. ASSUME NEW g \in Goroutine, BackoffCancelled(g) PROVE Clean'
    BY <2>13 DEF BackoffCancelled
  <2>14. ASSUME NEW ok \in BOOLEAN, RegisterSubscriber(ok) PROVE Clean'
    BY <2>14 DEF RegisterSubscriber
  <2>15. CASE EnterMainScreen
    BY <2>15 DEF EnterMainScreen
  <2>16. CASE PumpTakes
    BY <2>16 DEF PumpTakes
  <2>17. CASE PumpStops
    BY <2>17 DEF PumpStops
  <2>18. CASE Show
    BY <2>18 DEF Show
  <2>19. CASE StartEventListener
    BY <2>19 DEF StartEventListener
  <2>20. CASE Quit
    BY <2>20 DEF Quit
  <2>21. CASE QuitAfterUpdateError
    BY <2>21 DEF QuitAfterUpdateError
  <2>32. CASE Signal
    BY <2>32 DEF Signal
  <2>33. CASE Exit
    BY <2>33 DEF Exit
  <2>22. CASE SwitchDatabase
    BY <2>22 DEF SwitchDatabase
  <2>23. CASE Waited
    BY <2>23 DEF Waited
  <2>24. CASE DrainOne
    BY <2>24 DEF DrainOne
  <2>25. CASE Drained
    BY <2>25 DEF Drained
  <2>26. CASE Unregister
    BY <2>26 DEF Unregister
  <2>27. CASE UnregisterFails
    BY <2>27 DEF UnregisterFails
  <2>28. CASE Started
    BY <2>28 DEF Started
  <2>29. CASE HasQuit
    BY <2>29 DEF HasQuit
  <2>30. CASE Switched
    BY <2>30 DEF Switched
  <2>31. CASE UNCHANGED vars
    BY <2>31 DEF vars
  <2> QED
    BY StepCases, <2>1, <2>2, <2>3, <2>4, <2>5, <2>6, <2>7, <2>8, <2>9,
       <2>10, <2>11, <2>12, <2>13, <2>14, <2>15, <2>16, <2>17, <2>18, <2>19,
       <2>20, <2>21, <2>22, <2>23, <2>24, <2>25, <2>26, <2>27, <2>28, <2>29,
       <2>30, <2>31, <2>32, <2>33
<1> QED
  BY <1>1, <1>2, TypeInvariant, PTL DEF Spec

\* The connection is never closed under a goroutine of the listener.
THEOREM ClosesQuietly == Spec => []NoUseAfterClose
<1>1. TypeInv /\ Clean => NoUseAfterClose
  BY DEF TypeInv, Quiet, Clean, NoUseAfterClose
<1> QED
  BY <1>1, TypeInvariant, CleanInvariant, PTL

\* Cancel leaves no goroutine and no queued event behind.
THEOREM CancelsCleanly == Spec => []CancelIsClean
<1>1. TypeInv /\ Clean => CancelIsClean
  BY DEF TypeInv, Quiet, Clean, CancelIsClean
<1> QED
  BY <1>1, TypeInvariant, CleanInvariant, PTL

-----------------------------------------------------------------------------
(* Leaving the main screen. *)

(***************************************************************************)
(* Whoever quits from the main screen has a listener, and with it a        *)
(* subscriber to unregister; nobody registers one meanwhile.  A signal     *)
(* leaves it registered.                                                   *)
(***************************************************************************)
Leaving ==
    /\ listening => active
    /\ onMain =>
         /\ ui = "idle" => listening
         /\ ui # "idle" => why \in {"quit", "signal"}
         /\ ui \in {"wait", "drain"} => active
         /\ why = "quit" /\ ui \in {"cancelled", "ended"} => ~registered \/ unregFailed

\* What concerns only the messages does not concern the subscriber.
LEMMA LeavingFrame ==
    ASSUME Leaving, UNCHANGED <<registered, tsVars, uiVars>>
    PROVE  Leaving'
  BY Zenon DEF Leaving, tsVars, uiVars

LEMMA LeavingInvariant == Spec => []Leaving
<1>1. Init => Leaving
  BY DEF Init, Leaving
<1>2. TypeInv /\ Leaving /\ [Next]_vars => Leaving'
  <2> SUFFICES ASSUME TypeInv, Leaving, [Next]_vars PROVE Leaving'
    OBVIOUS
  <2> USE DEF aqVars
  <2>1. \/ Publish \/ PumpTakes \/ PumpStops \/ Show \/ UNCHANGED vars
        \/ (\E g \in Goroutine : \/ LoopTop(g) \/ Lock(g) \/ EnterDequeue(g)
                                 \/ DequeueNone(g) \/ SkipMalformed(g) \/ Deliver(g)
                                 \/ DropFull(g) \/ AbandonBatch(g) \/ BackoffOver(g)
                                 \/ BackoffCancelled(g))
        \/ (\E g \in Goroutine, n \in 1..BatchSize : DequeueSome(g, n))
        \/ (\E g \in Goroutine, n \in 0..BatchSize : DequeueFails(g, n))
        => UNCHANGED <<registered, tsVars, uiVars>>
    BY Zenon DEF Publish, PumpTakes, PumpStops, Show, vars, LoopTop, Lock, EnterDequeue,
                 DequeueNone, SkipMalformed, Deliver, DropFull, AbandonBatch,
                 BackoffOver, BackoffCancelled, DequeueSome, DequeueFails, Proceed
  <2> USE DEF Leaving, tsVars, uiVars, Cancel
  <2>2. ASSUME NEW ok \in BOOLEAN, RegisterSubscriber(ok) PROVE Leaving'
    BY <2>2 DEF RegisterSubscriber
  <2>3. CASE EnterMainScreen
    BY <2>3 DEF EnterMainScreen
  <2>4. CASE StartEventListener
    BY <2>4 DEF StartEventListener
  <2>5. CASE Quit
    BY <2>5 DEF Quit
  <2>6. CASE QuitAfterUpdateError
    BY <2>6 DEF QuitAfterUpdateError
  <2>16. CASE Signal
    BY <2>16 DEF Signal
  <2>17. CASE Exit
    BY <2>17 DEF Exit
  <2>7. CASE SwitchDatabase
    BY <2>7 DEF SwitchDatabase
  <2>8. CASE Waited
    BY <2>8 DEF Waited
  <2>9. CASE DrainOne
    BY <2>9 DEF DrainOne
  <2>10. CASE Drained
    BY <2>10 DEF Drained, TypeInv, Quiet
  <2>11. CASE Unregister
    BY <2>11 DEF Unregister
  <2>12. CASE UnregisterFails
    BY <2>12 DEF UnregisterFails
  <2>13. CASE Started
    BY <2>13 DEF Started
  <2>14. CASE HasQuit
    BY <2>14 DEF HasQuit
  <2>15. CASE Switched
    BY <2>15 DEF Switched
  <2> HIDE DEF Leaving
  <2> QED
    BY StepCases, LeavingFrame, <2>1, <2>2, <2>3, <2>4, <2>5, <2>6, <2>7, <2>8, <2>9,
       <2>10, <2>11, <2>12, <2>13, <2>14, <2>15, <2>16, <2>17, Zenon
<1> QED
  BY <1>1, <1>2, TypeInvariant, PTL DEF Spec

\* Who quits from the main screen by a key leaves no consumer behind in AQ, unless
\* Oracle refused to remove it.  A signal does, from any screen.
THEOREM QuitsUnregistered == Spec => []QuitUnregisters
<1>1. Leaving => QuitUnregisters
  BY DEF Leaving, QuitUnregisters
<1> QED
  BY <1>1, LeavingInvariant, PTL

-----------------------------------------------------------------------------
(* The order of delivery. *)

(***************************************************************************)
(* The pipeline from the screen back to the next publication: what has     *)
(* been shown comes before what the pump carries, that before what is in   *)
(* the channel, and so on to the number published + 1; each stretch that   *)
(* is a sequence is increasing.  What was forwarded comes before the batch *)
(* in hand.                                                                *)
(***************************************************************************)
Carried      == IF held = 0 THEN {} ELSE {held}
AfterBatch   == Elems(aq) \cup {published + 1}
AfterChannel == Elems(batch) \cup AfterBatch
AfterPump    == Elems(channel) \cup AfterChannel
AfterScreen  == Carried \cup AfterPump

OrderInv ==
    /\ Increasing(aq) /\ Increasing(batch) /\ Increasing(channel)
    /\ Below(Elems(aq), {published + 1})
    /\ Below(Elems(batch), AfterBatch)
    /\ Below(Elems(channel), AfterChannel)
    /\ Below(Carried, AfterPump)
    /\ Below(Elems(shown), AfterScreen)
    /\ Below(Elems(forwarded), AfterChannel)

LEMMA OrderFrame ==
    ASSUME OrderInv, UNCHANGED <<aq, batch, channel, held, shown, forwarded, published>>
    PROVE  OrderInv'
  BY DEF OrderInv, Carried, AfterBatch, AfterChannel, AfterPump, AfterScreen

LEMMA OrderInvariant == Spec => []OrderInv
<1>1. Init => OrderInv
  BY DEF Init, OrderInv, Carried, AfterBatch, AfterChannel, AfterPump, AfterScreen,
         Increasing, Below, Elems
<1>2. TypeInv /\ OrderInv /\ [Next]_vars => OrderInv'
  <2> SUFFICES ASSUME TypeInv, OrderInv, [Next]_vars PROVE OrderInv'
    OBVIOUS
  <2> USE DEF aqVars, startupVars, tsVars, uiVars, pumpVars, history
  <2>0. \A g \in Goroutine : at[g] = "deliver" =>
           batch # <<>> /\ batch \in Seq(Msgs) /\ Msgs \in SUBSET Nat /\ Increasing(batch)
    BY DEF TypeInv, TypeOK, Msgs, OrderInv
  <2>1. /\ aq \in Seq(Msgs) /\ channel \in Seq(Msgs) /\ batch \in Seq(Msgs)
        /\ Msgs \in SUBSET Nat
    BY DEF TypeInv, TypeOK, Msgs
  <2>2. /\ Elems(aq) \subseteq Nat /\ Elems(channel) \subseteq Nat
        /\ Elems(batch) \subseteq Nat /\ Carried \subseteq Nat
        /\ Elems(shown) \subseteq Nat /\ Elems(forwarded) \subseteq Nat /\ published \in Nat
    <3>1. ASSUME NEW q \in Seq(Msgs) PROVE Elems(q) \subseteq Nat
      BY <2>1, LenProperties, ElementOfSeq DEF Elems
    <3> QED
      BY <2>1, <3>1 DEF TypeInv, TypeOK, Carried
  <2>3. published \in Nat
    BY <2>2
  <2>11. CASE Publish
    <3>1. UNCHANGED <<batch, channel, held, shown, forwarded>>
          /\ published' = published + 1 /\ published \in Nat
      BY <2>11, <2>3 DEF Publish
    <3>2. /\ Increasing(aq')
          /\ Elems(aq') = Elems(aq) \/ Elems(aq') = Elems(aq) \cup {published + 1}
      <4>1. published + 1 \in Msgs
        BY <2>11, <2>3, ListenerAssumption DEF Publish, Msgs
      <4>2. Below(Elems(aq), {published + 1}) /\ Increasing(aq)
        BY DEF OrderInv
      <4>3. Elems(Append(aq, published + 1)) = Elems(aq) \cup {published + 1}
        BY <2>1, <4>1, AppendElems
      <4>4. Increasing(Append(aq, published + 1))
        BY <2>1, <4>1, <4>2, AppendIncreasing
      <4> QED
        BY <2>11, <4>2, <4>3, <4>4 DEF Publish
    <3> QED
      BY <3>1, <3>2, <2>2 DEF OrderInv, Carried, AfterBatch, AfterChannel, AfterPump, AfterScreen, Below
  <2>12. ASSUME NEW g \in Goroutine, LoopTop(g) PROVE OrderInv'
    BY <2>12, OrderFrame DEF LoopTop
  <2>13. ASSUME NEW g \in Goroutine, Lock(g) PROVE OrderInv'
    BY <2>13, OrderFrame DEF Lock
  <2>14. ASSUME NEW g \in Goroutine, EnterDequeue(g) PROVE OrderInv'
    BY <2>14, OrderFrame DEF EnterDequeue
  <2>15. ASSUME NEW g \in Goroutine, NEW n \in 1..BatchSize, DequeueSome(g, n) PROVE OrderInv'
    <3>1. n \in 0..Len(aq)
      BY <2>15, <2>1, LenProperties DEF DequeueSome
    <3>2. /\ Elems(SubSeq(aq, 1, n)) \subseteq Elems(aq)
          /\ Elems(From(aq, n)) \subseteq Elems(aq)
      BY <2>1, <3>1, CutElems
    <3>3. /\ Increasing(SubSeq(aq, 1, n)) /\ Increasing(From(aq, n))
          /\ Below(Elems(SubSeq(aq, 1, n)), Elems(From(aq, n)))
      BY <2>1, <3>1, CutIncreasing DEF OrderInv
    <3>4. UNCHANGED <<published, shown, held, channel, forwarded>>
          /\ aq' = From(aq, n) /\ batch' = SubSeq(aq, 1, n)
      BY <2>15 DEF DequeueSome
    <3> QED
      BY <3>2, <3>3, <3>4 DEF OrderInv, Carried, AfterBatch, AfterChannel, AfterPump, AfterScreen, Below
  <2>16. ASSUME NEW g \in Goroutine, DequeueNone(g) PROVE OrderInv'
    BY <2>16, OrderFrame DEF DequeueNone
  <2>17. ASSUME NEW g \in Goroutine, NEW n \in 0..BatchSize, DequeueFails(g, n) PROVE OrderInv'
    <3>1. n \in 0..Len(aq)
      BY <2>17, <2>1, LenProperties DEF DequeueFails
    <3>2. Elems(From(aq, n)) \subseteq Elems(aq) /\ Increasing(From(aq, n))
      BY <2>1, <3>1, CutElems, CutIncreasing DEF OrderInv
    <3>3. UNCHANGED <<batch, published, shown, held, channel, forwarded>>
          /\ aq' = From(aq, n)
      BY <2>17 DEF DequeueFails
    <3> QED
      BY <3>2, <3>3 DEF OrderInv, Carried, AfterBatch, AfterChannel, AfterPump, AfterScreen, Below
  <2>18. ASSUME NEW g \in Goroutine, SkipMalformed(g) PROVE OrderInv'
    <3>1. Head(batch) \in Elems(batch) /\ Elems(batch') \subseteq Elems(batch)
      BY <2>18, <2>0, HeadTailElems DEF SkipMalformed, Proceed
    <3>2. Increasing(batch') /\ Below({Head(batch)}, Elems(batch'))
      BY <2>18, <2>0, HeadTailIncreasing DEF SkipMalformed, Proceed
    <3>3. /\ UNCHANGED <<aq, published, shown, held>>
          /\ \/ Elems(forwarded') = Elems(forwarded)
             \/ Elems(forwarded') = Elems(forwarded) \cup {Head(batch)}
      BY <2>18 DEF SkipMalformed, Proceed
    <3>4. Head(batch) \in Nat
      BY <3>1, <2>2
    <3>5. channel' = channel
      BY <2>18 DEF SkipMalformed
    <3> QED
      BY <3>1, <3>2, <3>3, <3>4, <3>5, <2>2
         DEF OrderInv, Carried, AfterBatch, AfterChannel, AfterPump, AfterScreen, Below
  <2>19. ASSUME NEW g \in Goroutine, Deliver(g) PROVE OrderInv'
    <3>1. Head(batch) \in Elems(batch) /\ Elems(batch') \subseteq Elems(batch)
      BY <2>19, <2>0, HeadTailElems DEF Deliver, Proceed
    <3>2. Increasing(batch') /\ Below({Head(batch)}, Elems(batch'))
      BY <2>19, <2>0, HeadTailIncreasing DEF Deliver, Proceed
    <3>3. /\ UNCHANGED <<aq, published, shown, held>>
          /\ \/ Elems(forwarded') = Elems(forwarded)
             \/ Elems(forwarded') = Elems(forwarded) \cup {Head(batch)}
      BY <2>19, <2>0, HeadTailElems, ForwardShape DEF Deliver, Proceed
    <3>4. Head(batch) \in Nat
      BY <3>1, <2>2
    <3>5. Below(Elems(channel), {Head(batch)})
      BY <3>1 DEF OrderInv, AfterBatch, AfterChannel, Below
    <3>6. Head(batch) \in Msgs
      BY <2>19, <2>0, HeadTailElems DEF Deliver
    <3>7. Increasing(channel)
      BY DEF OrderInv
    <3>8. /\ Elems(Append(channel, Head(batch))) = Elems(channel) \cup {Head(batch)}
          /\ Increasing(Append(channel, Head(batch)))
      <4>1. Elems(Append(channel, Head(batch))) = Elems(channel) \cup {Head(batch)}
        BY <3>6, <2>1, AppendElems
      <4>2. Increasing(Append(channel, Head(batch)))
        BY <3>5, <3>6, <3>7, <2>1, AppendIncreasing
      <4> QED
        BY <4>1, <4>2
    <3>9. /\ Elems(channel') = Elems(channel) \cup {Head(batch)}
          /\ Increasing(channel')
      BY <3>8, <2>19 DEF Deliver
    <3>10. AfterBatch' = AfterBatch /\ Carried' = Carried
      BY <3>3 DEF AfterBatch, Carried
    <3>11. AfterChannel' \subseteq AfterChannel /\ Head(batch) \in AfterChannel
      BY <3>1, <3>10 DEF AfterChannel
    <3>12. AfterPump' \subseteq AfterPump
      BY <3>9, <3>11 DEF AfterPump
    <3>13. AfterScreen' \subseteq AfterScreen
      BY <3>10, <3>12 DEF AfterScreen
    <3>14. Below({Head(batch)}, AfterChannel')
      BY <3>1, <3>2, <3>10 DEF OrderInv, AfterChannel, Below
    <3>15. Below(Elems(aq'), {published' + 1}) /\ Increasing(aq')
      BY <3>3 DEF OrderInv
    <3>16. Below(Elems(batch'), AfterBatch')
      BY <3>1, <3>10 DEF OrderInv, Below
    <3>17. Below(Elems(channel'), AfterChannel')
      BY <3>9, <3>11, <3>14 DEF OrderInv, Below
    <3>18. Below(Carried', AfterPump') /\ Below(Elems(shown'), AfterScreen')
      BY <3>3, <3>10, <3>12, <3>13 DEF OrderInv, Below
    <3>19. Below(Elems(forwarded'), AfterChannel')
      BY <3>3, <3>11, <3>14 DEF OrderInv, Below
    <3> QED
      BY <3>2, <3>9, <3>15, <3>16, <3>17, <3>18, <3>19 DEF OrderInv
  <2>20. ASSUME NEW g \in Goroutine, DropFull(g) PROVE OrderInv'
    <3>1. Head(batch) \in Elems(batch) /\ Elems(batch') \subseteq Elems(batch)
      BY <2>20, <2>0, HeadTailElems DEF DropFull, Proceed
    <3>2. Increasing(batch') /\ Below({Head(batch)}, Elems(batch'))
      BY <2>20, <2>0, HeadTailIncreasing DEF DropFull, Proceed
    <3>3. /\ UNCHANGED <<aq, published, shown, held>>
          /\ \/ Elems(forwarded') = Elems(forwarded)
             \/ Elems(forwarded') = Elems(forwarded) \cup {Head(batch)}
      BY <2>20, <2>0, HeadTailElems, ForwardShape DEF DropFull, Proceed
    <3>4. Head(batch) \in Nat
      BY <3>1, <2>2
    <3>5. channel' = channel
      BY <2>20 DEF DropFull
    <3> QED
      BY <3>1, <3>2, <3>3, <3>4, <3>5, <2>2
         DEF OrderInv, Carried, AfterBatch, AfterChannel, AfterPump, AfterScreen, Below
  <2>21. ASSUME NEW g \in Goroutine, AbandonBatch(g) PROVE OrderInv'
    <3>1. Elems(batch') = {} /\ Increasing(batch')
      BY <2>21 DEF AbandonBatch, Elems, Increasing
    <3>2. UNCHANGED <<aq, published, shown, held, channel, forwarded>>
      BY <2>21 DEF AbandonBatch
    <3> QED
      BY <3>1, <3>2 DEF OrderInv, Carried, AfterBatch, AfterChannel, AfterPump, AfterScreen, Below
  <2>22. ASSUME NEW g \in Goroutine, BackoffOver(g) PROVE OrderInv'
    BY <2>22, OrderFrame DEF BackoffOver
  <2>23. ASSUME NEW g \in Goroutine, BackoffCancelled(g) PROVE OrderInv'
    BY <2>23, OrderFrame DEF BackoffCancelled
  <2>24. ASSUME NEW ok \in BOOLEAN, RegisterSubscriber(ok) PROVE OrderInv'
    BY <2>24, OrderFrame DEF RegisterSubscriber
  <2>25. CASE EnterMainScreen
    BY <2>25, OrderFrame DEF EnterMainScreen
  <2>26. CASE PumpTakes
    <3>1. /\ Head(channel) \in Elems(channel)
          /\ Elems(channel') \subseteq Elems(channel) /\ Increasing(channel')
          /\ Below({Head(channel)}, Elems(channel'))
      BY <2>26, <2>1, HeadTailElems, HeadTailIncreasing DEF PumpTakes, OrderInv
    <3>2. UNCHANGED <<aq, batch, published, shown, forwarded>> /\ held' = Head(channel)
      BY <2>26 DEF PumpTakes
    <3> QED
      BY <3>1, <3>2 DEF OrderInv, Carried, AfterBatch, AfterChannel, AfterPump, AfterScreen, Below
  <2>27. CASE PumpStops
    BY <2>27, OrderFrame DEF PumpStops
  <2>28. CASE Show
    <3>1. UNCHANGED <<aq, batch, channel, published, forwarded>>
      BY <2>28 DEF Show
    <3>2. held \in Msgs /\ shown \in Seq(Msgs)
      BY <2>28 DEF Show, Msgs, TypeInv, TypeOK
    <3>3. /\ Carried = {held} /\ Carried' = {}
          /\ Elems(shown') = Elems(shown) \cup {held}
      BY <2>28, <3>2, AppendElems DEF Show, Carried
    <3> QED
      BY <3>1, <3>3 DEF OrderInv, AfterBatch, AfterChannel, AfterPump, AfterScreen, Below
  <2>29. CASE StartEventListener
    BY <2>29, OrderFrame DEF StartEventListener
  <2>30. CASE Quit
    BY <2>30, OrderFrame DEF Quit
  <2>31. CASE QuitAfterUpdateError
    BY <2>31, OrderFrame DEF QuitAfterUpdateError
  <2>42. CASE Signal
    BY <2>42, OrderFrame DEF Signal
  <2>43. CASE Exit
    <3>1. Elems(batch') = {} /\ Increasing(batch')
      BY <2>43 DEF Exit, Elems, Increasing
    <3>2. UNCHANGED <<aq, published, shown, held, channel, forwarded>>
      BY <2>43 DEF Exit
    <3> QED
      BY <3>1, <3>2 DEF OrderInv, Carried, AfterBatch, AfterChannel, AfterPump, AfterScreen, Below
  <2>32. CASE SwitchDatabase
    BY <2>32, OrderFrame DEF SwitchDatabase
  <2>33. CASE Waited
    BY <2>33, OrderFrame DEF Waited
  <2>34. CASE DrainOne
    <3>1. Elems(channel') \subseteq Elems(channel) /\ Increasing(channel')
      BY <2>34, <2>1, HeadTailElems, HeadTailIncreasing DEF DrainOne, OrderInv
    <3>2. UNCHANGED <<aq, batch, published, shown, held, forwarded>>
      BY <2>34 DEF DrainOne
    <3> QED
      BY <3>1, <3>2 DEF OrderInv, Carried, AfterBatch, AfterChannel, AfterPump, AfterScreen, Below
  <2>35. CASE Drained
    BY <2>35, OrderFrame DEF Drained
  <2>36. CASE Unregister
    <3>1. Elems(aq') = {} /\ Increasing(aq')
      BY <2>36 DEF Unregister, Elems, Increasing
    <3>2. UNCHANGED <<batch, published, shown, held, channel, forwarded>>
      BY <2>36 DEF Unregister
    <3> QED
      BY <3>1, <3>2 DEF OrderInv, Carried, AfterBatch, AfterChannel, AfterPump, AfterScreen, Below
  <2>37. CASE UnregisterFails
    BY <2>37, OrderFrame DEF UnregisterFails
  <2>38. CASE Started
    BY <2>38, OrderFrame DEF Started
  <2>39. CASE HasQuit
    BY <2>39, OrderFrame DEF HasQuit
  <2>40. CASE Switched
    BY <2>40, OrderFrame DEF Switched
  <2>41. CASE UNCHANGED vars
    BY <2>41, OrderFrame DEF vars
  <2> QED
    BY StepCases, <2>11, <2>12, <2>13, <2>14, <2>15, <2>16, <2>17, <2>18, <2>19,
       <2>20, <2>21, <2>22, <2>23, <2>24, <2>25, <2>26, <2>27, <2>28, <2>29,
       <2>30, <2>31, <2>32, <2>33, <2>34, <2>35, <2>36, <2>37, <2>38, <2>39,
       <2>40, <2>41, <2>42, <2>43
<1> QED
  BY <1>1, <1>2, TypeInvariant, PTL DEF Spec

\* The head of the batch may be forwarded: it is published, and comes after all
\* that was forwarded before.
LEMMA ForwardIsAllowed ==
    ASSUME TypeInv, OrderInv, batch # <<>>, Forward(Head(batch)),
           UNCHANGED <<published, shown>>
    PROVE  Delivery!Next \/ UNCHANGED Delivery!vars
<1>1. Head(batch) \in Elems(batch) /\ Head(batch) \in Msgs
  BY HeadTailElems DEF TypeInv, TypeOK
<1>2. published \in Nat /\ Head(batch) \in Nat /\ Head(batch) >= 1
  BY <1>1 DEF TypeInv, TypeOK, Msgs
<1>3. Head(batch) < published + 1
  BY <1>1 DEF OrderInv, AfterBatch, Below
<1>4. Delivery!Later(Head(batch), forwarded)
  BY <1>1 DEF OrderInv, AfterChannel, Below, Elems, Delivery!Later
<1>5. Head(batch) \in 1..published
  BY <1>2, <1>3
<1>6. CASE forwarded' = Append(forwarded, Head(batch))
  <2>1. Delivery!Forward(Head(batch))
    BY <1>4, <1>6 DEF Delivery!Forward
  <2> QED
    BY <1>5, <2>1 DEF Delivery!Next
<1>7. CASE UNCHANGED forwarded
  BY <1>7 DEF Delivery!vars
<1> QED
  BY <1>6, <1>7 DEF Forward

LEMMA ListenerStutters ==
    ASSUME UNCHANGED <<published, shown, forwarded>>
    PROVE  Delivery!Next \/ UNCHANGED Delivery!vars
  BY DEF Delivery!vars

\* Screen and webhook pool see each message at most once and in the order of its
\* publication: the listener implements OrderedDelivery.
THEOREM ImplementsDelivery == Spec => DeliversInOrder
<1>1. Init => Delivery!Init
  BY DEF Init, Delivery!Init
<1>2. TypeInv /\ OrderInv /\ [Next]_vars => [Delivery!Next]_(Delivery!vars)
  <2> SUFFICES ASSUME TypeInv, OrderInv, [Next]_vars
               PROVE  Delivery!Next \/ UNCHANGED Delivery!vars
    OBVIOUS
  <2> USE DEF aqVars, startupVars, tsVars, uiVars, pumpVars, history
  <2>0. \A g \in Goroutine : at[g] = "deliver" => batch # <<>>
    BY DEF TypeInv, TypeOK
  <2>1. CASE Publish
    BY <2>1 DEF Publish, Delivery!Next, Delivery!Publish
  <2>2. ASSUME NEW g \in Goroutine, LoopTop(g) PROVE Delivery!Next \/ UNCHANGED Delivery!vars
    BY <2>2, ListenerStutters DEF LoopTop
  <2>3. ASSUME NEW g \in Goroutine, Lock(g) PROVE Delivery!Next \/ UNCHANGED Delivery!vars
    BY <2>3, ListenerStutters DEF Lock
  <2>4. ASSUME NEW g \in Goroutine, EnterDequeue(g) PROVE Delivery!Next \/ UNCHANGED Delivery!vars
    BY <2>4, ListenerStutters DEF EnterDequeue
  <2>5. ASSUME NEW g \in Goroutine, NEW n \in 1..BatchSize, DequeueSome(g, n) PROVE Delivery!Next \/ UNCHANGED Delivery!vars
    BY <2>5, ListenerStutters DEF DequeueSome
  <2>6. ASSUME NEW g \in Goroutine, DequeueNone(g) PROVE Delivery!Next \/ UNCHANGED Delivery!vars
    BY <2>6, ListenerStutters DEF DequeueNone
  <2>7. ASSUME NEW g \in Goroutine, NEW n \in 0..BatchSize, DequeueFails(g, n) PROVE Delivery!Next \/ UNCHANGED Delivery!vars
    BY <2>7, ListenerStutters DEF DequeueFails
  <2>8. ASSUME NEW g \in Goroutine, SkipMalformed(g) PROVE Delivery!Next \/ UNCHANGED Delivery!vars
    BY <2>8, ListenerStutters DEF SkipMalformed, Proceed
  <2>9. ASSUME NEW g \in Goroutine, Deliver(g) PROVE Delivery!Next \/ UNCHANGED Delivery!vars
    BY <2>9, <2>0, ForwardIsAllowed DEF Deliver, Proceed
  <2>10. ASSUME NEW g \in Goroutine, DropFull(g) PROVE Delivery!Next \/ UNCHANGED Delivery!vars
    BY <2>10, <2>0, ForwardIsAllowed DEF DropFull, Proceed
  <2>11. ASSUME NEW g \in Goroutine, AbandonBatch(g) PROVE Delivery!Next \/ UNCHANGED Delivery!vars
    BY <2>11, ListenerStutters DEF AbandonBatch
  <2>12. ASSUME NEW g \in Goroutine, BackoffOver(g) PROVE Delivery!Next \/ UNCHANGED Delivery!vars
    BY <2>12, ListenerStutters DEF BackoffOver
  <2>13. ASSUME NEW g \in Goroutine, BackoffCancelled(g) PROVE Delivery!Next \/ UNCHANGED Delivery!vars
    BY <2>13, ListenerStutters DEF BackoffCancelled
  <2>14. ASSUME NEW ok \in BOOLEAN, RegisterSubscriber(ok) PROVE Delivery!Next \/ UNCHANGED Delivery!vars
    BY <2>14, ListenerStutters DEF RegisterSubscriber
  <2>15. CASE EnterMainScreen
    BY <2>15, ListenerStutters DEF EnterMainScreen
  <2>16. CASE PumpTakes
    BY <2>16, ListenerStutters DEF PumpTakes
  <2>17. CASE PumpStops
    BY <2>17, ListenerStutters DEF PumpStops
  <2>18. CASE Show
    <3>1. held \in 1..published
      <4>1. held \in Nat /\ held # 0 /\ published \in Nat
        BY <2>18 DEF Show, TypeInv, TypeOK
      <4>2. held < published + 1
        BY <4>1 DEF OrderInv, Carried, AfterPump, AfterChannel, AfterBatch, Below
      <4> QED
        BY <4>1, <4>2
    <3>2. Delivery!Later(held, shown)
      BY <2>18 DEF Show, OrderInv, AfterScreen, Carried, Below, Elems, Delivery!Later
    <3>3. Delivery!Show(held)
      BY <2>18, <3>2 DEF Show, Delivery!Show
    <3> QED
      BY <3>1, <3>3 DEF Delivery!Next
  <2>19. CASE StartEventListener
    BY <2>19, ListenerStutters DEF StartEventListener
  <2>20. CASE Quit
    BY <2>20, ListenerStutters DEF Quit
  <2>21. CASE QuitAfterUpdateError
    BY <2>21, ListenerStutters DEF QuitAfterUpdateError
  <2>32. CASE Signal
    BY <2>32, ListenerStutters DEF Signal
  <2>33. CASE Exit
    BY <2>33, ListenerStutters DEF Exit
  <2>22. CASE SwitchDatabase
    BY <2>22, ListenerStutters DEF SwitchDatabase
  <2>23. CASE Waited
    BY <2>23, ListenerStutters DEF Waited
  <2>24. CASE DrainOne
    BY <2>24, ListenerStutters DEF DrainOne
  <2>25. CASE Drained
    BY <2>25, ListenerStutters DEF Drained
  <2>26. CASE Unregister
    BY <2>26, ListenerStutters DEF Unregister
  <2>27. CASE UnregisterFails
    BY <2>27, ListenerStutters DEF UnregisterFails
  <2>28. CASE Started
    BY <2>28, ListenerStutters DEF Started
  <2>29. CASE HasQuit
    BY <2>29, ListenerStutters DEF HasQuit
  <2>30. CASE Switched
    BY <2>30, ListenerStutters DEF Switched
  <2>31. CASE UNCHANGED vars
    BY <2>31, ListenerStutters DEF vars
  <2> QED
    BY StepCases, <2>1, <2>2, <2>3, <2>4, <2>5, <2>6, <2>7, <2>8, <2>9, <2>10,
       <2>11, <2>12, <2>13, <2>14, <2>15, <2>16, <2>17, <2>18, <2>19, <2>20,
       <2>21, <2>22, <2>23, <2>24, <2>25, <2>26, <2>27, <2>28, <2>29, <2>30,
       <2>31, <2>32, <2>33
<1> QED
  BY <1>1, <1>2, TypeInvariant, OrderInvariant, PTL
     DEF Spec, DeliversInOrder, Delivery!Spec
=============================================================================

--------------------------- MODULE TraceScreenProofs ---------------------------
(***************************************************************************)
(* For every set of kinds and widths, caps, capacity and number of events   *)
(* and switches: the buffer keeps to its caps and misses nothing, its lines *)
(* are those of the mode and of one layout, and one message is on its way   *)
(* at a time.                                                              *)
(***************************************************************************)
EXTENDS TraceScreen, SequenceTheorems, FiniteSetTheorems, WellFoundedInduction, TLAPS

-----------------------------------------------------------------------------
(* Induction over the length of a sequence, for sets and functions *)

LEMMA Least ==
    ASSUME NEW T, T \subseteq Nat, T # {}
    PROVE  \E x \in T : \A y \in T : x <= y
<1> DEFINE R == OpToRel(<, Nat)
<1>1. PICK x \in T : \A y \in T : ~(<<y, x>> \in R)
  <2>1. IsWellFoundedOn(R, Nat)
    BY NatLessThanWellFounded
  <2> HIDE DEF R
  <2> QED
    BY <2>1, WFMin
<1>2. ASSUME NEW y \in T
      PROVE  x <= y
  <2>1. <<y, x>> \in Nat \X Nat /\ y \in Nat /\ x \in Nat
    OBVIOUS
  <2>2. ~(y < x)
    BY <1>1, <2>1 DEF OpToRel
  <2> QED
    BY <2>1, <2>2
<1> QED
  BY <1>2

LEMMA InductTo ==
    ASSUME NEW n \in Nat, NEW T, 0 \in T, \A i \in 1..n : i - 1 \in T => i \in T
    PROVE  \A i \in 0..n : i \in T
<1> DEFINE Rest == {i \in 0..n : i \notin T}
<1> SUFFICES ASSUME Rest # {}
             PROVE  FALSE
  OBVIOUS
<1>1. PICK x \in Rest : \A y \in Rest : x <= y
  <2>1. Rest \subseteq Nat
    OBVIOUS
  <2> HIDE DEF Rest
  <2> QED
    BY <2>1, Least
<1>2. x \in 1..n /\ x - 1 \in 0..n /\ ~(x <= x - 1)
  OBVIOUS
<1> QED
  BY <1>1, <1>2

\* Two functions with the same first value and the same step are the same.
LEMMA SameValues ==
    ASSUME NEW n \in Nat, NEW g, NEW h, g[0] = h[0],
           \A i \in 1..n : g[i - 1] = h[i - 1] => g[i] = h[i]
    PROVE  \A i \in 0..n : g[i] = h[i]
<1> DEFINE T == {i \in 0..n : g[i] = h[i]}
<1>1. 0 \in T /\ \A i \in 1..n : i - 1 \in T => i \in T
  OBVIOUS
<1>2. \A i \in 0..n : i \in T
  <2> HIDE DEF T
  <2> QED
    BY <1>1, InductTo
<1> QED
  BY <1>2

\* The function of that first value and that step, as far as n
Unfolds(g, n, S, z, step) ==
    /\ g \in [0..n -> S]
    /\ g[0] = z
    /\ \A i \in 1..n : g[i] = step[i][g[i - 1]]

LEMMA Recursion ==
    ASSUME NEW n \in Nat, NEW S, NEW z \in S, NEW step \in [1..n -> [S -> S]]
    PROVE  \E g : Unfolds(g, n, S, z, step)
<1> DEFINE T == {k \in 0..n : \E g : Unfolds(g, k, S, z, step)}
<1>1. 0 \in T
  <2>1. Unfolds([i \in 0..0 |-> z], 0, S, z, step)
    BY DEF Unfolds
  <2> QED
    BY <2>1
<1>2. ASSUME NEW k \in 1..n, k - 1 \in T
      PROVE  k \in T
  <2>1. PICK g : Unfolds(g, k - 1, S, z, step)
    BY <1>2
  <2> DEFINE h == [i \in 0..k |-> IF i = k THEN step[k][g[k - 1]] ELSE g[i]]
  <2>2. g[k - 1] \in S /\ step[k] \in [S -> S]
    BY <2>1 DEF Unfolds
  <2>3. h \in [0..k -> S]
    BY <2>1, <2>2 DEF Unfolds
  <2>4. h[0] = z
    BY <2>1 DEF Unfolds
  <2>5. ASSUME NEW i \in 1..k
        PROVE  h[i] = step[i][h[i - 1]]
    BY <2>1 DEF Unfolds
  <2>6. Unfolds(h, k, S, z, step)
    BY <2>3, <2>4, <2>5 DEF Unfolds
  <2> HIDE DEF h
  <2> QED
    BY <2>6
<1>3. \A i \in 0..n : i \in T
  <2> HIDE DEF T
  <2> QED
    BY <1>1, <1>2, InductTo
<1>4. n \in T
  BY <1>3
<1> QED
  BY <1>4

-----------------------------------------------------------------------------
(* The bytes of a buffer *)

LEMMA KindsOfMessages ==
    ASSUME NEW m \in Messages
    PROVE  /\ m.of \in 0..MaxSwitches /\ m.n \in 1..MaxEvents
           /\ m.kind.level \in 1..2 /\ m.kind.api \in 1..2 /\ m.kind.size \in Nat
           /\ m.kind.global \in BOOLEAN
  BY ScreenAssumption DEF ScreenAssumption, Messages

LEMMA RawBytesUpto ==
    ASSUME NEW s \in Seq(Messages)
    PROVE  \E g :
               /\ g \in [0..Len(s) -> Nat]
               /\ g[0] = 0
               /\ \A i \in 1..Len(s) : g[i] = g[i - 1] + s[i].kind.size
               /\ RawBytes(s) = g[Len(s)]
<1> DEFINE IsUpto(f) ==
        f = [i \in 0..Len(s) |-> IF i = 0 THEN 0 ELSE f[i - 1] + s[i].kind.size]
<1>1. \E f : IsUpto(f)
  <2> DEFINE step == [i \in 1..Len(s) |-> [v \in Nat |-> v + s[i].kind.size]]
  <2>1. Len(s) \in Nat /\ \A i \in 1..Len(s) : s[i].kind.size \in Nat
    BY KindsOfMessages
  <2>2. step \in [1..Len(s) -> [Nat -> Nat]]
    BY <2>1
  <2>3. PICK g : Unfolds(g, Len(s), Nat, 0, step)
    <3> HIDE DEF step
    <3> QED
      BY <2>1, <2>2, Recursion
  <2>4. ASSUME NEW i \in 1..Len(s)
        PROVE  g[i] = g[i - 1] + s[i].kind.size
    <3>1. i - 1 \in 0..Len(s) /\ g[i - 1] \in Nat
      BY <2>1, <2>3 DEF Unfolds
    <3> QED
      BY <2>1, <2>3, <3>1 DEF Unfolds
  <2>5. g[0] = 0 /\ g \in [0..Len(s) -> Nat]
    BY <2>3 DEF Unfolds
  <2>6. IsUpto(g)
    BY <2>1, <2>4, <2>5
  <2> QED
    BY <2>6
<1> DEFINE f == CHOOSE f : IsUpto(f)
<1>2. IsUpto(f)
  BY <1>1, Zenon
<1>3. RawBytes(s) = f[Len(s)]
  BY Zenon DEF RawBytes
<1> HIDE DEF f
<1>4. Len(s) \in Nat /\ \A i \in 1..Len(s) : s[i].kind.size \in Nat
  BY KindsOfMessages
<1>5. f[0] = 0 /\ \A i \in 1..Len(s) : f[i] = f[i - 1] + s[i].kind.size
  BY <1>2, <1>4
<1>6. \A i \in 0..Len(s) : i \in {j \in 0..Len(s) : f[j] \in Nat}
  <2>1. 0 \in {j \in 0..Len(s) : f[j] \in Nat}
    BY <1>4, <1>5
  <2>2. ASSUME NEW i \in 1..Len(s), i - 1 \in {j \in 0..Len(s) : f[j] \in Nat}
        PROVE  i \in {j \in 0..Len(s) : f[j] \in Nat}
    BY <1>4, <1>5, <2>2
  <2> QED
    BY <1>4, <2>1, <2>2, InductTo
<1>7. f \in [0..Len(s) -> Nat]
  BY <1>2, <1>6
<1> QED
  BY <1>3, <1>5, <1>7

LEMMA RawBytesProperties ==
    /\ RawBytes(<<>>) = 0
    /\ \A s \in Seq(Messages) : RawBytes(s) \in Nat
    /\ \A s \in Seq(Messages), m \in Messages :
           RawBytes(Append(s, m)) = RawBytes(s) + m.kind.size
<1>1. RawBytes(<<>>) = 0
  BY <<>> \in Seq(Messages), Len(<<>>) = 0, RawBytesUpto
<1>2. ASSUME NEW s \in Seq(Messages)
      PROVE  RawBytes(s) \in Nat
  BY RawBytesUpto
<1>3. ASSUME NEW s \in Seq(Messages), NEW m \in Messages
      PROVE  RawBytes(Append(s, m)) = RawBytes(s) + m.kind.size
  <2> DEFINE n == Len(s)  t == Append(s, m)
  <2>1. /\ n \in Nat /\ t \in Seq(Messages) /\ Len(t) = n + 1
        /\ \A i \in 1..n : t[i] = s[i]
        /\ t[n + 1] = m
    OBVIOUS
  <2>2. PICK g :
            /\ g \in [0..n -> Nat]
            /\ g[0] = 0
            /\ \A i \in 1..n : g[i] = g[i - 1] + s[i].kind.size
            /\ RawBytes(s) = g[n]
    BY RawBytesUpto
  <2>3. PICK h :
            /\ h \in [0..Len(t) -> Nat]
            /\ h[0] = 0
            /\ \A i \in 1..Len(t) : h[i] = h[i - 1] + t[i].kind.size
            /\ RawBytes(t) = h[Len(t)]
    BY <2>1, RawBytesUpto
  <2> HIDE DEF n, t
  <2>4. ASSUME NEW i \in 1..n, g[i - 1] = h[i - 1]
        PROVE  g[i] = h[i]
    <3>1. i \in 1..Len(t) /\ t[i] = s[i]
      BY <2>1
    <3> QED
      BY <2>2, <2>3, <2>4, <3>1
  <2>5. \A i \in 0..n : g[i] = h[i]
    <3>1. g[0] = h[0]
      BY <2>2, <2>3
    <3>2. n \in Nat
      BY <2>1
    <3> QED
      BY <2>4, <3>1, <3>2, SameValues, SMTT(60)
  <2>6. h[n + 1] = h[n] + m.kind.size
    BY <2>1, <2>3
  <2> QED
    BY <2>1, <2>2, <2>3, <2>5, <2>6 DEF t
<1> QED
  BY <1>1, <1>2, <1>3

-----------------------------------------------------------------------------
(* What the filter leaves *)

LEMMA FilterUpto ==
    ASSUME NEW s \in Seq(Messages), NEW md
    PROVE  \E g :
               /\ g \in [0..Len(s) -> Seq(Messages)]
               /\ g[0] = <<>>
               /\ \A i \in 1..Len(s) :
                      g[i] = IF Matches(s[i], md) THEN Append(g[i - 1], s[i]) ELSE g[i - 1]
               /\ filterMessages(s, md) = g[Len(s)]
<1> DEFINE n == Len(s)
           Add(v, i) == IF Matches(s[i], md) THEN Append(v, s[i]) ELSE v
           IsUpto(f) == f = [i \in 0..n |-> IF i = 0 THEN <<>> ELSE Add(f[i - 1], i)]
<1>1. n \in Nat /\ \A i \in 1..n : s[i] \in Messages
  OBVIOUS
<1>2. ASSUME NEW i \in 1..n, NEW v \in Seq(Messages)
      PROVE  Add(v, i) \in Seq(Messages)
  <2>1. s[i] \in Messages
    BY <1>1
  <2>2. Append(v, s[i]) \in Seq(Messages)
    BY <2>1
  <2> QED
    BY <2>2
<1>3. PICK g : /\ g \in [0..n -> Seq(Messages)] /\ g[0] = <<>>
               /\ \A i \in 1..n : g[i] = Add(g[i - 1], i)
  <2> DEFINE S == Seq(Messages)
             step == [i \in 1..n |-> [v \in S |-> Add(v, i)]]
  <2>1. <<>> \in S
    OBVIOUS
  <2> HIDE DEF n, Add, S
  <2>2. step \in [1..n -> [S -> S]]
    BY <1>2 DEF S
  <2>3. PICK g : Unfolds(g, n, S, <<>>, step)
    <3> HIDE DEF step
    <3> QED
      BY <1>1, <2>1, <2>2, Recursion
  <2>4. ASSUME NEW i \in 1..n
        PROVE  g[i] = Add(g[i - 1], i)
    <3>1. i - 1 \in 0..n
      BY <1>1
    <3>2. g[i - 1] \in S
      BY <2>3, <3>1 DEF Unfolds
    <3>3. g[i] = step[i][g[i - 1]]
      BY <2>3 DEF Unfolds
    <3> QED
      BY <3>2, <3>3
  <2> QED
    BY <2>3, <2>4 DEF Unfolds, S
<1> DEFINE f == CHOOSE f : IsUpto(f)
<1>4. filterMessages(s, md) = f[n]
  BY Zenon DEF filterMessages
<1> HIDE DEF n, Add
<1>5. IsUpto(f)
  <2>1. IsUpto(g)
    BY <1>1, <1>3
  <2> HIDE DEF IsUpto
  <2> QED
    BY <2>1, Zenon
<1> HIDE DEF f
<1>6. \A i \in 0..n : f[i] = g[i]
  <2>1. f[0] = g[0]
    BY <1>1, <1>3, <1>5
  <2>2. ASSUME NEW i \in 1..n, f[i - 1] = g[i - 1]
        PROVE  f[i] = g[i]
    <3>1. i \in 0..n /\ i # 0
      BY <1>1
    <3>2. f[i] = Add(f[i - 1], i)
      BY <1>5, <3>1, Zenon
    <3>3. g[i] = Add(g[i - 1], i)
      BY <1>3
    <3> QED
      BY <2>2, <3>2, <3>3, Zenon
  <2>3. n \in Nat
    BY <1>1
  <2> HIDE DEF IsUpto
  <2>4. \A i \in 1..n : f[i - 1] = g[i - 1] => f[i] = g[i]
    BY <2>2
  <2> QED
    BY <2>1, <2>3, <2>4, SameValues, SMTT(60)
<1>7. filterMessages(s, md) = g[n]
  BY <1>1, <1>4, <1>6
<1> QED
  BY <1>3, <1>7 DEF n, Add

LEMMA FilterProperties ==
    ASSUME NEW md
    PROVE  /\ filterMessages(<<>>, md) = <<>>
           /\ \A s \in Seq(Messages) : filterMessages(s, md) \in Seq(Messages)
           /\ \A s \in Seq(Messages), m \in Messages :
                  filterMessages(Append(s, m), md) =
                      IF Matches(m, md) THEN Append(filterMessages(s, md), m)
                      ELSE filterMessages(s, md)
<1>1. filterMessages(<<>>, md) = <<>>
  BY <<>> \in Seq(Messages), Len(<<>>) = 0, FilterUpto
<1>2. ASSUME NEW s \in Seq(Messages)
      PROVE  filterMessages(s, md) \in Seq(Messages)
  <2>1. PICK g : g \in [0..Len(s) -> Seq(Messages)] /\ filterMessages(s, md) = g[Len(s)]
    BY FilterUpto
  <2> QED
    BY <2>1
<1>3. ASSUME NEW s \in Seq(Messages), NEW m \in Messages
      PROVE  filterMessages(Append(s, m), md) =
                 IF Matches(m, md) THEN Append(filterMessages(s, md), m)
                 ELSE filterMessages(s, md)
  <2> DEFINE n == Len(s)  t == Append(s, m)
  <2>1. /\ n \in Nat /\ t \in Seq(Messages) /\ Len(t) = n + 1
        /\ \A i \in 1..n : t[i] = s[i]
        /\ t[n + 1] = m
    OBVIOUS
  <2>2. PICK g :
            /\ g[0] = <<>>
            /\ \A i \in 1..n :
                   g[i] = IF Matches(s[i], md) THEN Append(g[i - 1], s[i]) ELSE g[i - 1]
            /\ filterMessages(s, md) = g[n]
    BY FilterUpto
  <2>3. PICK h :
            /\ h[0] = <<>>
            /\ \A i \in 1..Len(t) :
                   h[i] = IF Matches(t[i], md) THEN Append(h[i - 1], t[i]) ELSE h[i - 1]
            /\ filterMessages(t, md) = h[Len(t)]
    BY <2>1, FilterUpto
  <2> HIDE DEF n, t
  <2>4. ASSUME NEW i \in 1..n, g[i - 1] = h[i - 1]
        PROVE  g[i] = h[i]
    <3>1. i \in 1..Len(t) /\ t[i] = s[i]
      BY <2>1
    <3> QED
      BY <2>2, <2>3, <2>4, <3>1
  <2>5. \A i \in 0..n : g[i] = h[i]
    <3>1. g[0] = h[0]
      BY <2>2, <2>3
    <3>2. n \in Nat
      BY <2>1
    <3> QED
      BY <2>4, <3>1, <3>2, SameValues, SMTT(60)
  <2>6. h[n + 1] = IF Matches(m, md) THEN Append(h[n], m) ELSE h[n]
    BY <2>1, <2>3
  <2> QED
    BY <2>1, <2>2, <2>3, <2>5, <2>6 DEF t
<1> QED
  BY <1>1, <1>2, <1>3
-----------------------------------------------------------------------------
(* What eviction leaves *)

LEMMA EvictedProperties ==
    ASSUME messages \in Seq(Messages), NEW m \in Messages
    PROVE  /\ Evicted(m) \in Seq(Messages)
           /\ Evicted(m) = <<>> \/ Fits(Evicted(m), m)
           /\ \E k \in 0..Len(messages) :
                  /\ Len(Evicted(m)) = Len(messages) - k
                  /\ \A i \in 1..Len(Evicted(m)) : Evicted(m)[i] = messages[k + i]
<1> DEFINE n == Len(messages)
           Suffix(k) == SubSeq(messages, k + 1, n)
           Enough(i) == i = n \/ Fits(Suffix(i), m)
           IsFirst(i) == Enough(i) /\ \A j \in 0..(i - 1) : ~Fits(Suffix(j), m)
           k == CHOOSE i \in 0..n : IsFirst(i)
<1>1. n \in Nat
  OBVIOUS
<1>2. Evicted(m) = Suffix(k)
  BY Zenon DEF Evicted
<1>3. k \in 0..n /\ IsFirst(k)
  <2>1. PICK i \in {x \in 0..n : Enough(x)} : \A y \in {x \in 0..n : Enough(x)} : i <= y
    <3> DEFINE T == {x \in 0..n : Enough(x)}
    <3>1. T \subseteq Nat /\ n \in T
      BY <1>1
    <3> HIDE DEF T
    <3>2. \E x \in T : \A y \in T : x <= y
      BY <3>1, Least
    <3> QED
      BY <3>2 DEF T
  <2> HIDE DEF Suffix, n
  <2>2. ASSUME NEW j \in 0..(i - 1)
        PROVE  ~Fits(Suffix(j), m)
    <3>1. j \in 0..n /\ ~(i <= j)
      BY <1>1
    <3> QED
      BY <2>1, <3>1
  <2>3. i \in 0..n /\ IsFirst(i)
    BY <2>1, <2>2
  <2> HIDE DEF IsFirst
  <2> QED
    BY <2>3, Zenon
<1> HIDE DEF k
<1>4. Enough(k)
  BY <1>3
<1>5. /\ Suffix(k) \in Seq(Messages)
      /\ Len(Suffix(k)) = n - k
      /\ \A i \in 1..Len(Suffix(k)) : Suffix(k)[i] = messages[k + i]
  <2>1. k + 1 \in 1..(n + 1) /\ k \in Nat /\ k <= n
    BY <1>1, <1>3
  <2>2. ASSUME NEW i \in (k + 1)..n
        PROVE  messages[i] \in Messages
    BY <2>1
  <2>3. Suffix(k) \in Seq(Messages) /\ Len(Suffix(k)) = n - k
    BY <2>1, <2>2
  <2>4. ASSUME NEW i \in 1..(n - k)
        PROVE  Suffix(k)[i] = messages[k + i]
    BY <2>1
  <2> QED
    BY <2>3, <2>4
<1>6. Suffix(k) = <<>> \/ Fits(Suffix(k), m)
  <2>1. CASE k = n
    <3>1. Len(Suffix(k)) = 0
      BY <1>1, <1>5, <2>1
    <3> HIDE DEF Suffix, n
    <3> QED
      BY <1>5, <3>1
  <2> QED
    BY <1>4, <2>1
<1> QED
  <2> HIDE DEF Suffix
  <2> QED
    BY <1>2, <1>3, <1>5, <1>6

-----------------------------------------------------------------------------
(* Column widths and layouts *)

LEMMA MaxOfWidths ==
    ASSUME NEW S, S \subseteq 0..2, S # {}
    PROVE  Max(S) \in S /\ \A y \in S : Max(S) >= y
<1>1. \E x \in S : \A y \in S : x >= y
  <2>1. CASE 2 \in S
    BY <2>1
  <2>2. CASE 2 \notin S /\ 1 \in S
    BY <2>2
  <2>3. CASE 2 \notin S /\ 1 \notin S
    <3>1. \A y \in S : y = 0
      BY <2>3
    <3>2. PICK x : x \in S
      OBVIOUS
    <3>3. x = 0 /\ 0 >= 0
      BY <3>1, <3>2
    <3> QED
      BY <3>1, <3>2, <3>3, Zenon
  <2> QED
    BY <2>1, <2>2, <2>3
<1> QED
  BY <1>1, Zenon DEF Max

\* Widths that are for some viewport, and what they are when there are none
ValidWidths(c) ==
    /\ c \in [level: 0..2, api: 0..2, key: Widths \cup {0}]
    /\ c.key # 0 => c.level > 0

LEMMA ColumnWidthsValid ==
    ASSUME NEW w \in Widths, NEW s \in Seq(Messages), NEW c, ValidWidths(c)
    PROVE  ValidWidths(ColumnWidths(w, s, c)) /\ ColumnWidths(w, s, c).key = w
<1>1. w \in 1..4
  BY ScreenAssumption DEF ScreenAssumption
<1>2. ASSUME NEW i \in DOMAIN s
      PROVE  s[i].kind.level \in 1..2 /\ s[i].kind.api \in 1..2
  BY KindsOfMessages
<1> DEFINE L == {1} \cup {s[i].kind.level : i \in DOMAIN s}
           A == {0} \cup {s[i].kind.api : i \in DOMAIN s}
<1>3. L \subseteq 1..2 /\ A \subseteq 0..2 /\ L # {} /\ A # {}
  BY <1>2
<1> HIDE DEF L, A
<1>4. Max(L) \in 1..2 /\ Max(A) \in 0..2
  <2>1. L \subseteq 0..2
    BY <1>3
  <2>2. Max(L) \in L
    BY <1>3, <2>1, MaxOfWidths
  <2>3. Max(A) \in A
    BY <1>3, MaxOfWidths
  <2> QED
    BY <1>3, <2>2, <2>3
<1>5. ColumnWidths(w, s, c) =
          IF c.key = w /\ s # <<>> THEN c
          ELSE [level |-> Max(L), api |-> Max(A), key |-> w]
  BY Zenon DEF ColumnWidths, L, A
<1>6. CASE c.key = w /\ s # <<>>
  BY <1>5, <1>6
<1>7. CASE ~(c.key = w /\ s # <<>>)
  BY <1>1, <1>4, <1>5, <1>7 DEF ValidWidths
<1> QED
  BY <1>6, <1>7

LEMMA LayoutType ==
    ASSUME NEW c, ValidWidths(c), UseColumns(c.key)
    PROVE  Layout(c) \in [level: 1..2, api: 1..2]
<1>1. c.key \in 2..4 /\ c.level \in 1..2 /\ c.api \in 0..2
  <2>1. c.key \in Widths \cup {0} /\ c.level \in 0..2 /\ c.api \in 0..2
    BY DEF ValidWidths
  <2>2. c.key \in 0..4
    <3>1. Widths \subseteq 1..4
      BY ScreenAssumption, Zenon DEF ScreenAssumption
    <3>2. c.key \in 1..4 \/ c.key = 0
      BY <2>1, <3>1
    <3> QED
      BY <3>2
  <2>3. c.key > 1
    BY DEF UseColumns
  <2>4. c.level > 0
    BY <2>2, <2>3 DEF ValidWidths
  <2> QED
    BY <2>1, <2>2, <2>3, <2>4
<1>2. AllowedAPIWidth(c.key, c.level) \in 1..2
  BY <1>1 DEF AllowedAPIWidth, Larger, Smaller
<1> QED
  BY <1>1, <1>2 DEF Layout, Larger, Smaller

-----------------------------------------------------------------------------
(* What rendering leaves in the view *)

LineRecords == [of: 0..MaxSwitches, n: 1..MaxEvents, layout: Layouts]

\* The lines, the widths c and what the viewport shows are those of the buffer s
\* under the mode md at the width w.
Rendered(lines, s, w, md, c, sh) ==
    /\ ValidWidths(c) /\ lines \in Seq(LineRecords) /\ sh \in {"placeholder", "lines"}
    /\ Len(lines) = Len(filterMessages(s, md))
    /\ \A i \in 1..Len(lines) :
           /\ lines[i].of = filterMessages(s, md)[i].of
           /\ lines[i].n = filterMessages(s, md)[i].n
           /\ lines[i].layout = IF UseColumns(w) THEN Layout(c) ELSE Compact
    /\ filterMessages(s, md) # <<>> => sh = "lines"
    /\ s = <<>> => sh = "placeholder"
    /\ UseColumns(w) /\ lines # <<>> => c.key = w

LEMMA LineType ==
    ASSUME NEW m \in Messages, NEW w \in Widths, NEW c,
           UseColumns(w) => ValidWidths(c) /\ c.key = w
    PROVE  Line(m, w, c) \in LineRecords
<1>1. m.of \in 0..MaxSwitches /\ m.n \in 1..MaxEvents
  BY KindsOfMessages
<1>2. (IF UseColumns(w) THEN Layout(c) ELSE Compact) \in Layouts
  <2>1. CASE UseColumns(w)
    <3>1. Layout(c) \in [level: 1..2, api: 1..2]
      BY <2>1, LayoutType
    <3> QED
      BY <2>1, <3>1 DEF Layouts
  <2>2. CASE ~UseColumns(w)
    BY <2>2 DEF Layouts
  <2> QED
    BY <2>1, <2>2
<1> HIDE DEF Layouts
<1> QED
  BY <1>1, <1>2 DEF Line, LineRecords

LEMMA Rebuilds ==
    ASSUME NEW s \in Seq(Messages), NEW w \in Widths, NEW md, NEW c, ValidWidths(c),
           rebuildRenderedContent(s, w, md, c)
    PROVE  Rendered(renderedLines', s, w, md, cached', shown')
<1> DEFINE f == filterMessages(s, md)
           fresh == ColumnWidths(w, s, c)
<1>1. CASE s = <<>>
  <2>1. renderedLines' = <<>> /\ shown' = "placeholder" /\ cached' = c
    BY <1>1, Zenon DEF rebuildRenderedContent
  <2>2. f = <<>>
    BY <1>1, FilterProperties
  <2>3. Len(<<>>) = 0 /\ <<>> \in Seq(LineRecords)
    OBVIOUS
  <2> HIDE DEF f
  <2> QED
    BY <1>1, <2>1, <2>2, <2>3 DEF Rendered, f
<1>2. CASE s # <<>>
  <2>1. /\ cached' = fresh /\ renderedLines' = Lines(f, w, fresh)
        /\ shown' = "lines"
    BY <1>2, Zenon DEF rebuildRenderedContent
  <2>2. ValidWidths(fresh) /\ fresh.key = w
    BY ColumnWidthsValid
  <2>3. f \in Seq(Messages)
    BY FilterProperties
  <2> HIDE DEF f, fresh
  <2>4. ASSUME NEW i \in 1..Len(f)
        PROVE  Line(f[i], w, fresh) \in LineRecords
    <3>1. f[i] \in Messages
      BY <2>3
    <3> QED
      BY <2>2, <3>1, LineType
  <2>5. /\ Lines(f, w, fresh) \in Seq(LineRecords)
        /\ Len(Lines(f, w, fresh)) = Len(f)
        /\ \A i \in 1..Len(f) : Lines(f, w, fresh)[i] = Line(f[i], w, fresh)
    <3>1. Len(f) \in Nat
      BY <2>3
    <3> QED
      BY <2>4, <3>1 DEF Lines
  <2>6. ASSUME NEW i \in 1..Len(f)
        PROVE  /\ renderedLines'[i].of = f[i].of
               /\ renderedLines'[i].n = f[i].n
               /\ renderedLines'[i].layout = IF UseColumns(w) THEN Layout(cached') ELSE Compact
    <3>1. renderedLines'[i] = Line(f[i], w, cached')
      BY <2>1, <2>5
    <3> QED
      BY <3>1 DEF Line
  <2>7. /\ renderedLines' \in Seq(LineRecords) /\ Len(renderedLines') = Len(f)
        /\ ValidWidths(cached') /\ cached'.key = w
    BY <2>1, <2>2, <2>5
  <2> QED
    BY <1>2, <2>1, <2>6, <2>7 DEF Rendered, f
<1> QED
  BY <1>1, <1>2

LEMMA WiderValid ==
    ASSUME NEW m \in Messages, NEW w \in Widths, NEW c, ValidWidths(c), c.key = w
    PROVE  ValidWidths([level |-> Larger(m.kind.level, c.level),
                        api   |-> Larger(m.kind.api, c.api), key |-> w])
<1>1. m.kind.level \in 1..2 /\ m.kind.api \in 1..2
  BY KindsOfMessages
<1>2. c.level \in 0..2 /\ c.api \in 0..2
  BY DEF ValidWidths
<1>3. Larger(m.kind.level, c.level) \in 1..2 /\ Larger(m.kind.api, c.api) \in 0..2
  BY <1>1, <1>2 DEF Larger
<1> HIDE DEF Larger
<1> QED
  BY <1>3 DEF ValidWidths

\* One line more, of the layout of the others
LEMMA OneLineMore ==
    ASSUME NEW lines, NEW s \in Seq(Messages), NEW w \in Widths, NEW md, NEW c, NEW sh,
           NEW d, NEW m \in Messages, Matches(m, md),
           Rendered(lines, s, w, md, c, sh), ValidWidths(d),
           UseColumns(w) => d.key = w,
           UseColumns(w) /\ lines # <<>> => Layout(c) = Layout(d)
    PROVE  Rendered(Append(lines, Line(m, w, d)), Append(s, m), w, md, d, "lines")
<1> DEFINE f == filterMessages(s, md)
           g == filterMessages(Append(s, m), md)
           l == Append(lines, Line(m, w, d))
<1>1. f \in Seq(Messages) /\ g = Append(f, m)
  BY FilterProperties
<1>2. lines \in Seq(LineRecords) /\ Len(lines) = Len(f)
  BY DEF Rendered
<1>3. Line(m, w, d) \in LineRecords
  BY LineType
<1>4. l \in Seq(LineRecords) /\ Len(l) = Len(lines) + 1 /\ Len(g) = Len(f) + 1
  BY <1>1, <1>2, <1>3
<1>5. ASSUME NEW i \in 1..Len(l)
      PROVE  /\ l[i].of = g[i].of
             /\ l[i].n = g[i].n
             /\ l[i].layout = IF UseColumns(w) THEN Layout(d) ELSE Compact
  <2>1. CASE i = Len(lines) + 1
    <3>1. l[i] = Line(m, w, d) /\ g[i] = m
      BY <1>1, <1>2, <1>3, <2>1
    <3> HIDE DEF l, g
    <3> QED
      BY <3>1 DEF Line
  <2>2. CASE i # Len(lines) + 1
    <3>1. i \in 1..Len(lines)
      BY <1>2, <1>4, <2>2
    <3>2. l[i] = lines[i] /\ g[i] = f[i]
      BY <1>1, <1>2, <1>3, <3>1
    <3>3. /\ lines[i].of = f[i].of /\ lines[i].n = f[i].n
          /\ lines[i].layout = IF UseColumns(w) THEN Layout(c) ELSE Compact
      BY <3>1 DEF Rendered
    <3>4. lines # <<>>
      BY <1>2, <3>1
    <3> HIDE DEF l, g, f
    <3> QED
      BY <3>2, <3>3, <3>4
  <2> QED
    BY <2>1, <2>2
<1>6. Append(s, m) # <<>>
  OBVIOUS
<1> HIDE DEF l, g, f
<1> QED
  BY <1>2, <1>4, <1>5, <1>6 DEF Rendered, l, g

LEMMA Appends ==
    ASSUME NEW s \in Seq(Messages), NEW m \in Messages, NEW w \in Widths,
           Rendered(renderedLines, s, w, mode, cached, shown),
           appendSingleMessage(s, m, w)
    PROVE  Rendered(renderedLines', Append(s, m), w, mode, cached', shown')
<1> DEFINE t == Append(s, m)
           prev == ColumnWidths(w, s, cached)
           wider == [level |-> Larger(m.kind.level, prev.level),
                     api   |-> Larger(m.kind.api, prev.api), key |-> w]
<1>1. t \in Seq(Messages) /\ t # <<>>
  <2>1. t \in Seq(Messages) /\ Len(t) = Len(s) + 1 /\ Len(s) \in Nat
    OBVIOUS
  <2> HIDE DEF t
  <2> QED
    BY <2>1
<1>2. ValidWidths(prev) /\ prev.key = w
  BY ColumnWidthsValid DEF Rendered
<1>3. ValidWidths(wider) /\ wider.key = w
  BY <1>2, WiderValid
<1>4. renderedLines # <<>> => s # <<>>
  <2> SUFFICES ASSUME s = <<>>
               PROVE  renderedLines = <<>>
    OBVIOUS
  <2>1. Len(renderedLines) = Len(<<>>)
    BY FilterProperties DEF Rendered
  <2> QED
    BY <2>1 DEF Rendered
<1>5. ValidWidths(cached)
  BY DEF Rendered
<1>6. CASE ~Matches(m, mode)
  <2>1. cached' = cached /\ renderedLines' = renderedLines /\ shown' = shown
    <3>1. UNCHANGED view
      BY <1>6, Zenon DEF appendSingleMessage
    <3> QED
      BY <3>1 DEF view
  <2>2. filterMessages(t, mode) = filterMessages(s, mode)
    BY <1>6, FilterProperties
  <2> HIDE DEF t
  <2> QED
    <3>1. Rendered(renderedLines, t, w, mode, cached, shown)
      BY <1>1, <2>2, Zenon DEF Rendered
    <3> QED
      BY <2>1, <3>1 DEF t
<1>7. CASE Matches(m, mode) /\ ~UseColumns(w)
  <2>1. /\ renderedLines' = Append(renderedLines, Line(m, w, cached))
        /\ shown' = "lines" /\ cached' = cached
    BY <1>7, Zenon DEF appendSingleMessage
  <2>2. Rendered(Append(renderedLines, Line(m, w, cached)), t, w, mode, cached, "lines")
    BY <1>5, <1>7, OneLineMore
  <2> QED
    BY <2>1, <2>2
<1>8. CASE Matches(m, mode) /\ UseColumns(w) /\ Layout(prev) # Layout(wider)
  <2>1. rebuildRenderedContent(t, w, mode, wider)
    BY <1>8, Zenon DEF appendSingleMessage
  <2> HIDE DEF t, wider
  <2> QED
    BY <1>1, <1>3, <2>1, Rebuilds DEF t
<1>9. CASE Matches(m, mode) /\ UseColumns(w) /\ Layout(prev) = Layout(wider)
  <2>1. /\ renderedLines' = Append(renderedLines, Line(m, w, wider))
        /\ shown' = "lines" /\ cached' = wider
    BY <1>9, Zenon DEF appendSingleMessage
  <2>2. renderedLines # <<>> => prev = cached
    <3>1. renderedLines # <<>> => cached.key = w
      BY <1>9 DEF Rendered
    <3> QED
      BY <1>4, <3>1, Zenon DEF ColumnWidths
  <2>3. Rendered(Append(renderedLines, Line(m, w, wider)), t, w, mode, wider, "lines")
    <3> HIDE DEF wider, prev
    <3> QED
      BY <1>3, <1>9, <2>2, OneLineMore
  <2> QED
    BY <2>1, <2>3
<1> QED
  BY <1>6, <1>7, <1>8, <1>9

-----------------------------------------------------------------------------
(* The shape of the state *)

Typed ==
    /\ screen \in {"loading", "main"} /\ width \in Widths
    /\ mode \in Modes /\ savedMode \in Modes
    /\ messages \in Seq(Messages) /\ last \in 0..MaxEvents
    /\ of \in 0..MaxSwitches /\ channel \in Seq(Messages) /\ sent \in 0..MaxEvents
    /\ waiting \in Nat /\ stray \in Nat
    /\ held \subseteq Messages /\ IsFiniteSet(held)

LEMMA BoundsAreNumbers ==
    MaxSwitches \in Nat /\ MaxEvents \in Nat /\ MaxMessages \in Nat \ {0} /\ MaxRawBytes \in Nat
  BY ScreenAssumption, Zenon DEF ScreenAssumption

LEMMA InitTyped == Init => Typed
<1> SUFFICES ASSUME Init
             PROVE  Typed
  OBVIOUS
<1>1. <<>> \in Seq(Messages) /\ IsFiniteSet({}) /\ "Global" \in Modes
  BY FS_EmptySet DEF Modes
<1> QED
  BY <1>1, BoundsAreNumbers DEF Init, Typed

LEMMA SendTyped ==
    ASSUME Typed, NEW kind \in Kinds, Send(kind)
    PROVE  Typed'
<1> DEFINE m == [of |-> of, n |-> sent + 1, kind |-> kind]
<1>1. sent + 1 \in 1..MaxEvents
  BY BoundsAreNumbers DEF Typed, Send
<1>2. m \in Messages
  BY <1>1 DEF Typed, Messages
<1> HIDE DEF m
<1>3. Append(channel, m) \in Seq(Messages)
  BY <1>2 DEF Typed
<1>4. channel' = Append(channel, m) /\ sent' = sent + 1
  BY Zenon DEF Send, m
<1> QED
  BY <1>1, <1>3, <1>4 DEF Send, Typed, modes, buffer, view

LEMMA TakeTyped ==
    ASSUME Typed, Take
    PROVE  Typed'
<1>1. Head(channel) \in Messages /\ Tail(channel) \in Seq(Messages)
  BY DEF Typed, Take
<1>2. held \cup {Head(channel)} \subseteq Messages
  BY <1>1 DEF Typed
<1>3. IsFiniteSet(held \cup {Head(channel)})
  BY FS_AddElement DEF Typed
<1>4. waiting - 1 \in Nat
  BY DEF Typed, Take
<1> QED
  BY <1>1, <1>2, <1>3, <1>4 DEF Take, Typed, modes, buffer, view

LEMMA ReceiveTyped ==
    ASSUME Typed, NEW m \in Messages, Receive(m)
    PROVE  /\ messages' \in Seq(Messages) /\ last' \in 0..MaxEvents /\ last' = m.n
           /\ messages' = Append(Evicted(m), m)
<1>1. messages' = Append(Evicted(m), m) /\ last' = m.n
  BY Zenon DEF Receive
<1>2. Evicted(m) \in Seq(Messages)
  BY EvictedProperties DEF Typed
<1>3. m.n \in 1..MaxEvents
  BY KindsOfMessages
<1> QED
  BY <1>1, <1>2, <1>3, BoundsAreNumbers

LEMMA DeliverTyped ==
    ASSUME Typed, NEW m \in held, Deliver(m)
    PROVE  Typed'
<1>1. m \in Messages
  BY DEF Typed
<1>2. held' = held \ {m} /\ IsFiniteSet(held \ {m})
  BY FS_RemoveElement DEF Deliver, Typed
<1>3. screen' = screen /\ width' = width /\ modes' = modes /\ of' = of
      /\ channel' = channel /\ sent' = sent
  BY DEF Deliver
<1>4. CASE Receive(m) /\ waiting' = waiting + 1
           /\ stray' = IF m.of = of THEN stray ELSE stray + 1
  <2>1. messages' \in Seq(Messages) /\ last' \in 0..MaxEvents
    BY <1>1, <1>4, ReceiveTyped
  <2>2. waiting' \in Nat /\ stray' \in Nat
    BY <1>4 DEF Typed
  <2> QED
    BY <1>2, <1>3, <2>1, <2>2 DEF Typed, modes
<1>5. CASE UNCHANGED <<buffer, view, waiting, stray>>
  BY <1>2, <1>3, <1>5 DEF Typed, modes, buffer
<1> QED
  BY <1>4, <1>5 DEF Deliver

LEMMA FirstOnes ==
    ASSUME NEW s \in Seq(Messages), NEW k \in Nat, k <= Len(s)
    PROVE  /\ {s[i] : i \in 1..k} \subseteq Messages
           /\ IsFiniteSet({s[i] : i \in 1..k})
           /\ Cardinality({s[i] : i \in 1..k}) <= k
<1> DEFINE T == {s[i] : i \in 1..k}
           f == [i \in 1..k |-> s[i]]
<1>1. T \subseteq Messages
  OBVIOUS
<1>2. IsFiniteSet(1..k) /\ Cardinality(1..k) = k
  <2>1. 1 \in Int /\ k \in Int
    OBVIOUS
  <2>2. Cardinality(1..k) = IF 1 > k THEN 0 ELSE k - 1 + 1
    BY <2>1, FS_Interval
  <2> QED
    BY <2>1, <2>2, FS_Interval
<1>3. f \in Surjection(1..k, T)
  BY DEF Surjection
<1> HIDE DEF f, T
<1>4. IsFiniteSet(T) /\ Cardinality(T) <= Cardinality(1..k)
  BY <1>2, <1>3, FS_Surjection
<1> QED
  BY <1>1, <1>2, <1>4 DEF T

LEMMA SwitchTyped ==
    ASSUME Typed, Switch
    PROVE  Typed'
<1>1. PICK k \in 0..Smaller(waiting, Len(channel)) :
          held' = held \cup {channel[i] : i \in 1..k}
  BY Zenon DEF Switch
<1>2. k \in Nat /\ k <= Len(channel)
  BY <1>1 DEF Smaller, Typed
<1>3. channel \in Seq(Messages)
  BY DEF Typed
<1>4. {channel[i] : i \in 1..k} \subseteq Messages /\ IsFiniteSet({channel[i] : i \in 1..k})
  BY <1>2, <1>3, FirstOnes
<1>5. held' \subseteq Messages /\ IsFiniteSet(held')
  BY <1>1, <1>4, FS_Union DEF Typed
<1>6. of + 1 \in 0..MaxSwitches
  BY BoundsAreNumbers DEF Switch, Typed
<1>7. <<>> \in Seq(Messages) /\ 0 \in 0..MaxEvents
  BY BoundsAreNumbers
<1> QED
  BY <1>5, <1>6, <1>7 DEF Switch, Typed, modes, resetMainLogState

\* The state keeps its shape, whatever is in the buffer and on the screen.
THEOREM Typing == Spec => []Typed
<1>1. Typed /\ [Next]_vars => Typed'
  <2> SUFFICES ASSUME Typed, [Next]_vars
               PROVE  Typed'
    OBVIOUS
  <2>1. CASE \E kind \in Kinds : Send(kind)
    BY <2>1, SendTyped
  <2>2. CASE Take
    BY <2>2, TakeTyped
  <2>3. CASE \E m \in held : Deliver(m)
    BY <2>3, DeliverTyped
  <2>4. CASE enterMainScreen
    BY <2>4 DEF enterMainScreen, Typed, buffer
  <2>5. CASE cycleBroadcastMode
    BY <2>5 DEF cycleBroadcastMode, NextMode, Typed, Modes, modes, buffer, stream
  <2>6. CASE Clear
    BY <2>6 DEF Clear, resetMainLogState, Typed, modes, stream
  <2>7. CASE \E w \in Widths : resizeMainViewport(w)
    BY <2>7 DEF resizeMainViewport, Typed, modes, buffer, stream
  <2>8. CASE Switch
    BY <2>8, SwitchTyped
  <2>9. CASE UNCHANGED vars
    BY <2>9 DEF vars, modes, buffer, stream, Typed
  <2> QED
    BY <2>1, <2>2, <2>3, <2>4, <2>5, <2>6, <2>7, <2>8, <2>9 DEF Next
<1> QED
  BY <1>1, InitTyped, PTL DEF Spec

-----------------------------------------------------------------------------
(* The lines *)

View ==
    /\ ValidWidths(cached) /\ renderedLines \in Seq(LineRecords)
    /\ shown \in {"placeholder", "lines"}
    /\ screen = "main" => Rendered(renderedLines, messages, width, mode, cached, shown)

LEMMA ReceiveRenders ==
    ASSUME Typed, View, screen = "main", NEW m \in Messages, Receive(m)
    PROVE  Rendered(renderedLines', messages', width, mode, cached', shown')
<1> DEFINE kept == Evicted(m)
<1>1. /\ messages' = Append(kept, m)
      /\ IF kept # messages
         THEN rebuildRenderedContent(messages', width, mode, NoWidths)
         ELSE appendSingleMessage(messages, m, width)
  BY Zenon DEF Receive
<1>2. messages \in Seq(Messages) /\ width \in Widths
  BY DEF Typed
<1>3. messages' \in Seq(Messages)
  BY ReceiveTyped
<1>4. ValidWidths(NoWidths)
  BY DEF ValidWidths, NoWidths
<1>5. CASE kept # messages
  <2> HIDE DEF kept
  <2> QED
    BY <1>1, <1>2, <1>3, <1>4, <1>5, Rebuilds
<1>6. CASE kept = messages
  <2>1. Rendered(renderedLines, messages, width, mode, cached, shown)
    BY DEF View
  <2> HIDE DEF kept
  <2>2. Rendered(renderedLines', Append(messages, m), width, mode, cached', shown')
    BY <1>1, <1>2, <1>6, <2>1, Appends
  <2> QED
    BY <1>1, <1>6, <2>2
<1> QED
  BY <1>5, <1>6

\* Whatever is received, evicted, cleared, resized or switched, the main screen
\* shows the lines of its buffer.
THEOREM Viewing == Spec => []View
<1>1. Init => View
  <2> SUFFICES ASSUME Init
               PROVE  View
    OBVIOUS
  <2>1. ValidWidths(NoWidths) /\ <<>> \in Seq(LineRecords)
    BY DEF ValidWidths, NoWidths
  <2> QED
    BY <2>1 DEF Init, View
<1>2. Typed /\ View /\ [Next]_vars => View'
  <2> SUFFICES ASSUME Typed, View, [Next]_vars
               PROVE  View'
    OBVIOUS
  <2> DEFINE Now == Rendered(renderedLines, messages, width, mode, cached, shown)
  <2>1. messages \in Seq(Messages) /\ width \in Widths /\ ValidWidths(cached)
    BY DEF Typed, View
  <2>2. ASSUME NEW m \in held, Deliver(m)
        PROVE  View'
    <3>1. m \in Messages
      BY DEF Typed
    <3>2. screen' = screen /\ width' = width /\ mode' = mode
      BY <2>2 DEF Deliver, modes
    <3>3. CASE screen = "main" /\ Receive(m)
      <4>1. Rendered(renderedLines', messages', width, mode, cached', shown')
        BY <3>1, <3>3, ReceiveRenders
      <4>2. Now'
        BY <3>2, <4>1
      <4> QED
        BY <4>2 DEF Rendered, View
    <3>4. CASE screen = "loading" /\ UNCHANGED <<buffer, view>>
      BY <3>2, <3>4 DEF View, view
    <3> QED
      BY <2>2, <3>3, <3>4 DEF Deliver
  <2>3. CASE enterMainScreen
    <3>1. /\ rebuildRenderedContent(messages, width, mode', cached)
          /\ width' = width /\ messages' = messages
      BY <2>3 DEF enterMainScreen, buffer
    <3>2. Rendered(renderedLines', messages, width, mode', cached', shown')
      BY <2>1, <3>1, Rebuilds
    <3>3. Now'
      BY <3>1, <3>2
    <3> QED
      BY <3>3 DEF Rendered, View
  <2>4. CASE cycleBroadcastMode
    <3>1. /\ rebuildRenderedContent(messages, width, mode', cached)
          /\ width' = width /\ messages' = messages
      BY <2>4 DEF cycleBroadcastMode, buffer
    <3>2. Rendered(renderedLines', messages, width, mode', cached', shown')
      BY <2>1, <3>1, Rebuilds
    <3>3. Now'
      BY <3>1, <3>2
    <3> QED
      BY <3>3 DEF Rendered, View
  <2>5. CASE Clear
    <3>1. /\ messages' = <<>> /\ renderedLines' = <<>> /\ cached' = NoWidths
          /\ shown' = "placeholder"
      BY <2>5 DEF Clear, resetMainLogState
    <3>2. /\ Len(<<>>) = 0 /\ <<>> \in Seq(LineRecords) /\ ValidWidths(NoWidths)
          /\ filterMessages(<<>>, mode') = <<>>
      BY FilterProperties DEF ValidWidths, NoWidths
    <3>3. Rendered(<<>>, <<>>, width', mode', NoWidths, "placeholder")
      BY <3>2 DEF Rendered
    <3>4. Now'
      BY <3>1, <3>3
    <3> QED
      BY <3>4 DEF Rendered, View
  <2>6. ASSUME NEW w \in Widths, resizeMainViewport(w)
        PROVE  View'
    <3>1. /\ width' = w /\ messages' = messages /\ mode' = mode /\ screen' = screen
      BY <2>6 DEF resizeMainViewport, buffer, modes
    <3>2. CASE screen = "main"
      <4>1. rebuildRenderedContent(messages, w, mode, cached)
        BY <2>6, <3>2 DEF resizeMainViewport
      <4>2. Rendered(renderedLines', messages, w, mode, cached', shown')
        BY <2>1, <4>1, Rebuilds
      <4>3. Now'
        BY <3>1, <4>2
      <4> QED
        BY <4>3 DEF Rendered, View
    <3>3. CASE screen # "main"
      <4>1. UNCHANGED view
        BY <2>6, <3>3 DEF resizeMainViewport
      <4> QED
        BY <3>1, <3>3, <4>1 DEF View, view
    <3> QED
      BY <3>2, <3>3
  <2>7. CASE Switch
    <3>1. ValidWidths(NoWidths) /\ <<>> \in Seq(LineRecords)
      BY DEF ValidWidths, NoWidths
    <3>2. screen' = "loading" /\ renderedLines' = <<>> /\ cached' = NoWidths /\ shown' = shown
      BY <2>7 DEF Switch, resetMainLogState
    <3> QED
      BY <3>1, <3>2 DEF View
  <2>8. CASE \/ \E kind \in Kinds : Send(kind)
             \/ Take
             \/ UNCHANGED vars
    <3>1. screen' = screen /\ width' = width /\ modes' = modes /\ buffer' = buffer /\ view' = view
      BY <2>8 DEF Send, Take, vars
    <3>2. /\ screen' = screen /\ width' = width /\ mode' = mode /\ messages' = messages
          /\ cached' = cached /\ renderedLines' = renderedLines /\ shown' = shown
      BY <3>1 DEF modes, buffer, view
    <3> QED
      BY <3>2 DEF View
  <2> QED
    BY <2>2, <2>3, <2>4, <2>5, <2>6, <2>7, <2>8 DEF Next
<1> QED
  BY <1>1, <1>2, Typing, PTL DEF Spec

\* The lines are the messages of the mode, in the order of the buffer: what
\* rebuildRenderedContent and appendSingleMessage leave is the same.
THEOREM LinesAreOfMode == Spec => []LinesOfMode
<1>1. Typed /\ View => LinesOfMode
  <2> SUFFICES ASSUME Typed, View, screen = "main"
               PROVE  LinesOfMode
    BY DEF LinesOfMode
  <2>1. Rendered(renderedLines, messages, width, mode, cached, shown)
    BY DEF View
  <2> QED
    BY <2>1 DEF Rendered, LinesOfMode
<1> QED
  BY <1>1, Typing, Viewing, PTL

\* The lines have one layout, that of the cached widths and the present width.
THEOREM LinesAreAligned == Spec => []Aligned
<1>1. View => Aligned
  BY DEF View, Rendered, Aligned
<1> QED
  BY <1>1, Viewing, PTL

-----------------------------------------------------------------------------
(* The stream of the present connection *)

\* The messages of the present connection that a command has taken, and the others
Present == {m \in held : m.of = of}
Others == held \ Present

\* The channel holds the end of what was sent; what was taken from it came before.
InChannel ==
    /\ Len(channel) <= sent
    /\ \A i \in 1..Len(channel) :
           channel[i].of = of /\ channel[i].n + Len(channel) = sent + i
    /\ \A m \in held : m.of <= of
    /\ \A m \in Present : m.n + Len(channel) <= sent

\* Nothing asks for an event before the main screen is entered.
Quiet == screen = "loading" => waiting = 0 /\ stray = 0 /\ Present = {}

\* One command waits or one message is on its way, and one more for each that strayed in.
Pumping == screen = "main" => waiting + Cardinality(Present) = 1 + stray

\* A switch leaves behind at most one message more than have strayed in since the last.
LeftBehind == Cardinality(Others) + stray <= of

\* Until a message strays in, the one that is out is the next.
NextInLine ==
    stray = 0 =>
        /\ last + Cardinality(Present) + Len(channel) = sent
        /\ \A m \in Present : m.n = last + 1

Stream == InChannel /\ Quiet /\ Pumping /\ LeftBehind /\ NextInLine

LEMMA Counts ==
    ASSUME Typed
    PROVE  /\ IsFiniteSet(Present) /\ Cardinality(Present) \in Nat
           /\ IsFiniteSet(Others) /\ Cardinality(Others) \in Nat
<1>1. Present \in SUBSET held /\ Others \in SUBSET held /\ IsFiniteSet(held)
  BY DEF Typed, Present, Others
<1>2. IsFiniteSet(Present) /\ IsFiniteSet(Others)
  BY <1>1, FS_Subset
<1> QED
  BY <1>2, FS_CardinalityType

LEMMA NumbersOfState ==
    ASSUME Typed
    PROVE  /\ last \in Nat /\ of \in Nat /\ sent \in Nat /\ waiting \in Nat /\ stray \in Nat
           /\ Len(channel) \in Nat /\ channel \in Seq(Messages)
           /\ screen \in {"loading", "main"}
           /\ \A m \in held : m.of \in Nat /\ m.n \in Nat
<1>1. \A m \in held : m.of \in Nat /\ m.n \in Nat
  <2> SUFFICES ASSUME NEW m \in held
               PROVE  m.of \in Nat /\ m.n \in Nat
    OBVIOUS
  <2>1. m \in Messages
    BY DEF Typed
  <2>2. m.of \in 0..MaxSwitches /\ m.n \in 1..MaxEvents
    BY <2>1, KindsOfMessages
  <2> QED
    BY <2>2, BoundsAreNumbers
<1> QED
  BY <1>1, BoundsAreNumbers DEF Typed

LEMMA SendStream ==
    ASSUME Typed, Stream, NEW kind \in Kinds, Send(kind)
    PROVE  Stream'
<1> DEFINE m == [of |-> of, n |-> sent + 1, kind |-> kind]
<1>1. /\ channel' = Append(channel, m) /\ sent' = sent + 1
      /\ screen' = screen /\ of' = of /\ waiting' = waiting /\ held' = held
      /\ stray' = stray /\ last' = last
  BY DEF Send, buffer
<1>2. Present' = Present /\ Others' = Others
  BY <1>1 DEF Present, Others
<1>3. m.of = of /\ m.n = sent + 1
  OBVIOUS
<1> HIDE DEF m
<1>4. Len(channel') = Len(channel) + 1 /\ Len(channel) \in Nat
  BY <1>1, NumbersOfState
<1>5. ASSUME NEW i \in 1..Len(channel')
      PROVE  channel'[i].of = of /\ channel'[i].n + Len(channel') = sent' + i
  <2>1. CASE i = Len(channel) + 1
    <3>1. channel'[i] = m
      BY <1>1, <2>1, NumbersOfState
    <3> QED
      BY <1>1, <1>3, <1>4, <2>1, <3>1, NumbersOfState
  <2>2. CASE i # Len(channel) + 1
    <3>1. i \in 1..Len(channel)
      BY <1>4, <2>2
    <3>2. channel'[i] = channel[i]
      BY <1>1, <3>1, NumbersOfState
    <3>3. channel[i].of = of /\ channel[i].n + Len(channel) = sent + i
      BY <3>1 DEF Stream, InChannel
    <3>4. channel[i].n \in Nat
      <4>1. channel[i] \in Messages
        BY <3>1, NumbersOfState
      <4>2. channel[i].n \in 1..MaxEvents
        BY <4>1, KindsOfMessages
      <4> QED
        BY <4>2, BoundsAreNumbers
    <3>5. sent \in Nat /\ Len(channel) \in Nat /\ i \in Nat
      BY <3>1, NumbersOfState
    <3>6. channel[i].n + (Len(channel) + 1) = (sent + 1) + i
      <4> DEFINE x == channel[i].n
      <4>1. x + Len(channel) = sent + i /\ x \in Nat
        BY <3>3, <3>4
      <4> HIDE DEF x
      <4>2. x + (Len(channel) + 1) = (sent + 1) + i
        BY <3>5, <4>1
      <4> QED
        BY <4>2 DEF x
    <3>7. channel'[i].n = channel[i].n /\ channel'[i].of = of
      BY <3>2, <3>3
    <3> QED
      BY <1>1, <1>4, <3>6, <3>7
  <2> QED
    BY <2>1, <2>2
<1>6. \A x \in Present : x.n \in Nat
  BY NumbersOfState DEF Present
<1>7. InChannel'
  <2>1. Len(channel') <= sent' /\ \A x \in held' : x.of <= of'
    BY <1>1, <1>4, NumbersOfState DEF Stream, InChannel
  <2>2. \A x \in Present' : x.n + Len(channel') <= sent'
    BY <1>1, <1>2, <1>4, <1>6, NumbersOfState DEF Stream, InChannel
  <2> QED
    BY <1>1, <1>5, <2>1, <2>2 DEF InChannel
<1>8. NextInLine'
  BY <1>1, <1>2, <1>4, Counts, NumbersOfState DEF Stream, NextInLine
<1>9. Quiet' /\ Pumping' /\ LeftBehind'
  BY <1>1, <1>2 DEF Stream, Quiet, Pumping, LeftBehind
<1> QED
  BY <1>7, <1>8, <1>9 DEF Stream

LEMMA TakeStream ==
    ASSUME Typed, Stream, Take
    PROVE  Stream'
<1> DEFINE m == Head(channel)
<1>1. /\ waiting > 0 /\ channel # <<>> /\ waiting' = waiting - 1
      /\ held' = held \cup {m} /\ channel' = Tail(channel)
      /\ screen' = screen /\ of' = of /\ sent' = sent /\ stray' = stray /\ last' = last
  BY DEF Take, buffer
<1>2. /\ m = channel[1] /\ m \in Messages /\ 1 \in 1..Len(channel)
      /\ Len(channel') = Len(channel) - 1
      /\ \A i \in 1..Len(channel') : channel'[i] = channel[i + 1] /\ i + 1 \in 1..Len(channel)
  BY <1>1, NumbersOfState
<1>3. m.of = of /\ m.n + Len(channel) = sent + 1
  BY <1>2 DEF Stream, InChannel
<1>4. m.n \in Nat
  <2>1. m.n \in 1..MaxEvents
    BY <1>2, KindsOfMessages
  <2> QED
    BY <2>1, BoundsAreNumbers
<1> HIDE DEF m
<1>5. screen = "main"
  BY <1>1, NumbersOfState DEF Stream, Quiet
<1>6. m \notin held
  <2> SUFFICES ASSUME m \in held
               PROVE  FALSE
    OBVIOUS
  <2>1. m \in Present
    BY <1>3 DEF Present
  <2>2. m.n + Len(channel) <= sent
    BY <2>1 DEF Stream, InChannel
  <2> QED
    BY <1>3, <1>4, <2>2, NumbersOfState
<1>7. Present' = Present \cup {m} /\ Others' = Others /\ m \notin Present
  BY <1>1, <1>3, <1>6 DEF Present, Others
<1>8. Cardinality(Present') = Cardinality(Present) + 1
  <2>1. IsFiniteSet(Present)
    BY Counts
  <2> QED
    BY <1>7, <2>1, FS_AddElement
<1>9. InChannel'
  <2>1. Len(channel') <= sent' /\ \A x \in held' : x.of <= of'
    BY <1>1, <1>2, <1>3, NumbersOfState DEF Stream, InChannel
  <2>2. ASSUME NEW i \in 1..Len(channel')
        PROVE  channel'[i].of = of' /\ channel'[i].n + Len(channel') = sent' + i
    <3>1. i + 1 \in 1..Len(channel) /\ channel'[i] = channel[i + 1]
      BY <1>2
    <3>2. channel[i + 1].of = of /\ channel[i + 1].n + Len(channel) = sent + (i + 1)
      BY <3>1 DEF Stream, InChannel
    <3>3. channel[i + 1].n \in Nat
      <4>1. channel[i + 1] \in Messages
        BY <3>1, NumbersOfState
      <4>2. channel[i + 1].n \in 1..MaxEvents
        BY <4>1, KindsOfMessages
      <4> QED
        BY <4>2, BoundsAreNumbers
    <3> QED
      BY <1>1, <1>2, <3>1, <3>2, <3>3, NumbersOfState, SMTT(60)
  <2>3. ASSUME NEW x \in Present'
        PROVE  x.n + Len(channel') <= sent'
    <3>1. CASE x = m
      BY <1>1, <1>2, <1>3, <1>4, <3>1, NumbersOfState
    <3>2. CASE x \in Present
      <4>1. x.n + Len(channel) <= sent /\ x.n \in Nat
        BY <3>2, NumbersOfState DEF Stream, InChannel, Present
      <4> QED
        BY <1>1, <1>2, <4>1, NumbersOfState
    <3> QED
      BY <1>7, <3>1, <3>2
  <2> QED
    BY <2>1, <2>2, <2>3 DEF InChannel
<1>10. Quiet' /\ Pumping' /\ LeftBehind'
  <2>1. Quiet'
    BY <1>1, <1>5 DEF Quiet
  <2>2. Pumping'
    BY <1>1, <1>5, <1>8, Counts, NumbersOfState DEF Stream, Pumping
  <2>3. LeftBehind'
    BY <1>1, <1>7 DEF Stream, LeftBehind
  <2> QED
    BY <2>1, <2>2, <2>3
<1>11. ASSUME stray' = 0
       PROVE  /\ last' + Cardinality(Present') + Len(channel') = sent'
              /\ \A x \in Present' : x.n = last' + 1
  <2>1. waiting + Cardinality(Present) = 1 /\ last + Cardinality(Present) + Len(channel) = sent
    BY <1>1, <1>5, <1>11, NumbersOfState DEF Stream, Pumping, NextInLine
  <2>2. Cardinality(Present) = 0
    BY <1>1, <2>1, Counts, NumbersOfState
  <2>3. Present = {}
    BY <2>2, Counts, FS_EmptySet
  <2>4. m.n = last + 1
    BY <1>3, <1>4, <2>1, <2>2, NumbersOfState
  <2> QED
    BY <1>1, <1>2, <1>7, <1>8, <2>1, <2>2, <2>3, <2>4, NumbersOfState
<1> QED
  BY <1>9, <1>10, <1>11 DEF Stream, NextInLine

LEMMA DeliverStream ==
    ASSUME Typed, Stream, NEW m \in held, Deliver(m)
    PROVE  Stream'
<1>1. /\ held' = held \ {m} /\ screen' = screen /\ of' = of
      /\ channel' = channel /\ sent' = sent
  BY DEF Deliver
<1>2. \/ /\ screen = "main" /\ last' = m.n /\ waiting' = waiting + 1
         /\ stray' = IF m.of = of THEN stray ELSE stray + 1
      \/ screen = "loading" /\ last' = last /\ waiting' = waiting /\ stray' = stray
  BY Zenon DEF Deliver, Receive, buffer
<1>3. m.n \in Nat /\ m.of \in Nat
  BY NumbersOfState
<1>4. InChannel'
  <2>1. Present' \subseteq Present
    BY <1>1 DEF Present
  <2> QED
    BY <1>1, <2>1 DEF Stream, InChannel
<1>5. CASE m \in Present
  <2>1. /\ screen = "main" /\ last' = m.n /\ waiting' = waiting + 1 /\ stray' = stray
    BY <1>2, <1>5 DEF Stream, Quiet, Present
  <2>2. Present' = Present \ {m} /\ Others' = Others
    BY <1>1, <1>5 DEF Present, Others
  <2>3. Cardinality(Present') = Cardinality(Present) - 1
    <3>1. IsFiniteSet(Present)
      BY Counts
    <3> QED
      BY <1>5, <2>2, <3>1, FS_RemoveElement
  <2>4. Quiet' /\ LeftBehind'
    BY <1>1, <2>1, <2>2 DEF Stream, Quiet, LeftBehind
  <2>5. Pumping'
    BY <1>1, <2>1, <2>3, Counts, NumbersOfState DEF Stream, Pumping
  <2>6. ASSUME stray' = 0
        PROVE  /\ last' + Cardinality(Present') + Len(channel') = sent'
               /\ \A x \in Present' : x.n = last' + 1
    <3>1. /\ waiting + Cardinality(Present) = 1 /\ m.n = last + 1
          /\ last + Cardinality(Present) + Len(channel) = sent
      BY <1>5, <2>1, <2>6, NumbersOfState DEF Stream, Pumping, NextInLine
    <3>2. Cardinality(Present) # 0
      BY <1>5, Counts, FS_EmptySet
    <3>3. Cardinality(Present) = 1 /\ Cardinality(Present') = 0
      <4>1. Cardinality(Present) \in Nat /\ waiting \in Nat
        BY Counts, NumbersOfState
      <4> QED
        BY <2>3, <3>1, <3>2, <4>1
    <3>4. Present' = {}
      <4>1. IsFiniteSet(Present')
        BY <2>2, Counts, FS_RemoveElement
      <4> QED
        BY <3>3, <4>1, FS_EmptySet
    <3>5. last' + Cardinality(Present') + Len(channel') = sent'
      <4>1. last \in Nat /\ Len(channel) \in Nat /\ sent \in Nat
        BY NumbersOfState
      <4> QED
        BY <1>1, <2>1, <3>1, <3>3, <4>1
    <3> QED
      BY <3>4, <3>5
  <2> QED
    BY <1>4, <2>4, <2>5, <2>6 DEF Stream, NextInLine
<1>6. CASE m \notin Present
  <2>1. m.of # of
    BY <1>6 DEF Present
  <2>2. Present' = Present /\ Others' = Others \ {m} /\ m \in Others
    BY <1>1, <1>6, <2>1 DEF Present, Others
  <2>3. Cardinality(Others') = Cardinality(Others) - 1
    <3>1. IsFiniteSet(Others)
      BY Counts
    <3> QED
      BY <2>2, <3>1, FS_RemoveElement
  <2>4. Cardinality(Present) \in Nat /\ Cardinality(Others) \in Nat
    BY Counts
  <2>5. CASE /\ screen = "main" /\ waiting' = waiting + 1 /\ stray' = stray + 1
    <3>1. Quiet' /\ NextInLine'
      BY <1>1, <2>5, NumbersOfState DEF Quiet, NextInLine
    <3>2. Pumping'
      BY <1>1, <2>2, <2>4, <2>5, NumbersOfState DEF Stream, Pumping
    <3>3. LeftBehind'
      BY <1>1, <2>3, <2>4, <2>5, NumbersOfState DEF Stream, LeftBehind
    <3> QED
      BY <1>4, <3>1, <3>2, <3>3 DEF Stream
  <2>6. CASE screen = "loading" /\ last' = last /\ waiting' = waiting /\ stray' = stray
    <3>1. Quiet' /\ NextInLine' /\ Pumping'
      BY <1>1, <2>2, <2>6 DEF Stream, Quiet, NextInLine, Pumping
    <3>2. LeftBehind'
      BY <1>1, <2>3, <2>4, <2>6, NumbersOfState DEF Stream, LeftBehind
    <3> QED
      BY <1>4, <3>1, <3>2 DEF Stream
  <2> QED
    BY <1>2, <2>1, <2>5, <2>6
<1> QED
  BY <1>5, <1>6

LEMMA UnionBound ==
    ASSUME NEW S, NEW T, IsFiniteSet(S), IsFiniteSet(T)
    PROVE  /\ IsFiniteSet(S \cup T)
           /\ Cardinality(S \cup T) <= Cardinality(S) + Cardinality(T)
<1>1. IsFiniteSet(S \cap T) /\ Cardinality(S \cap T) \in Nat
  <2>1. S \cap T \in SUBSET S
    OBVIOUS
  <2>2. IsFiniteSet(S \cap T)
    BY <2>1, FS_Subset
  <2> QED
    BY <2>2, FS_CardinalityType
<1>2. Cardinality(S) \in Nat /\ Cardinality(T) \in Nat
  BY FS_CardinalityType
<1>3. /\ IsFiniteSet(S \cup T)
      /\ Cardinality(S \cup T) = Cardinality(S) + Cardinality(T) - Cardinality(S \cap T)
  BY FS_Union
<1> QED
  BY <1>1, <1>2, <1>3

LEMMA SwitchStream ==
    ASSUME Typed, Stream, Switch
    PROVE  Stream'
<1>1. /\ screen = "main" /\ screen' = "loading" /\ of' = of + 1
      /\ channel' = <<>> /\ sent' = 0 /\ last' = 0 /\ waiting' = 0 /\ stray' = 0
  BY DEF Switch
<1>2. PICK k \in 0..Smaller(waiting, Len(channel)) :
          held' = held \cup {channel[i] : i \in 1..k}
  BY Zenon DEF Switch
<1> DEFINE F == {channel[i] : i \in 1..k}
<1>3. k \in Nat /\ k <= Len(channel) /\ k <= waiting
  BY <1>2, NumbersOfState DEF Smaller
<1>4. F \subseteq Messages /\ IsFiniteSet(F) /\ Cardinality(F) <= k
  BY <1>3, NumbersOfState, FirstOnes
<1>5. \A x \in F : x.of = of
  BY <1>3, NumbersOfState DEF Stream, InChannel
<1> HIDE DEF F
<1>6. \A x \in held' : x.of <= of /\ x.of # of + 1 /\ x.of <= of + 1
  <2> SUFFICES ASSUME NEW x \in held'
               PROVE  x.of <= of /\ x.of # of + 1 /\ x.of <= of + 1
    OBVIOUS
  <2>1. x \in held \/ x \in F
    BY <1>2 DEF F
  <2>2. x.of \in Nat /\ x.of <= of /\ of \in Nat
    BY <1>5, <2>1, NumbersOfState DEF Stream, InChannel
  <2> QED
    BY <2>2
<1>7. Present' = {} /\ Others' = held'
  BY <1>1, <1>6 DEF Present, Others
<1>8. InChannel'
  BY <1>1, <1>6, <1>7 DEF InChannel
<1>9. Quiet' /\ Pumping'
  BY <1>1, <1>7 DEF Quiet, Pumping
<1>10. NextInLine'
  BY <1>1, <1>7, FS_EmptySet DEF NextInLine
<1>11. LeftBehind'
  <2>1. held' = (Present \cup Others) \cup F
    BY <1>2 DEF Present, Others, F
  <2>2. /\ IsFiniteSet(Present) /\ Cardinality(Present) \in Nat
        /\ IsFiniteSet(Others) /\ Cardinality(Others) \in Nat
        /\ Cardinality(F) \in Nat
    BY <1>4, Counts, FS_CardinalityType
  <2>3. /\ IsFiniteSet(Present \cup Others)
        /\ Cardinality(Present \cup Others) <= Cardinality(Present) + Cardinality(Others)
    BY <2>2, UnionBound
  <2>4. Cardinality(held') <= Cardinality(Present \cup Others) + Cardinality(F)
    BY <1>4, <2>1, <2>3, UnionBound
  <2>5. Cardinality(held') \in Nat /\ Cardinality(Present \cup Others) \in Nat
    BY <1>4, <2>1, <2>3, FS_CardinalityType, FS_Union
  <2>6. waiting + Cardinality(Present) = 1 + stray /\ Cardinality(Others) + stray <= of
    BY <1>1 DEF Stream, Pumping, LeftBehind
  <2>7. waiting \in Nat /\ stray \in Nat /\ of \in Nat
    BY NumbersOfState
  <2>8. Cardinality(held') <= of + 1
    BY <1>3, <1>4, <2>2, <2>3, <2>4, <2>5, <2>6, <2>7
  <2> QED
    BY <1>1, <1>7, <2>5, <2>8 DEF LeftBehind
<1> QED
  BY <1>8, <1>9, <1>10, <1>11 DEF Stream

\* One command of one message waits for the events of the present connection,
\* and each of an earlier one that strays in adds another.
THEOREM Streaming == Spec => []Stream
<1>1. Init => Stream
  <2> SUFFICES ASSUME Init
               PROVE  Stream
    OBVIOUS
  <2>1. Present = {} /\ Others = {} /\ Cardinality({}) = 0 /\ Len(channel) = 0
    BY FS_EmptySet DEF Init, Present, Others
  <2> QED
    BY <2>1 DEF Init, Stream, InChannel, Quiet, Pumping, LeftBehind, NextInLine
<1>2. Typed /\ Stream /\ [Next]_vars => Stream'
  <2> SUFFICES ASSUME Typed, Stream, [Next]_vars
               PROVE  Stream'
    OBVIOUS
  <2>1. CASE enterMainScreen
    <3>1. /\ screen = "loading" /\ screen' = "main" /\ waiting' = waiting + 1
          /\ of' = of /\ channel' = channel /\ sent' = sent /\ held' = held
          /\ stray' = stray /\ last' = last
      BY <2>1 DEF enterMainScreen, buffer
    <3>2. Present' = Present /\ Others' = Others
      BY <3>1 DEF Present, Others
    <3>3. waiting = 0 /\ stray = 0 /\ Cardinality(Present) = 0
      BY <3>1, FS_EmptySet DEF Stream, Quiet
    <3>4. Pumping' /\ Quiet'
      BY <3>1, <3>2, <3>3 DEF Pumping, Quiet
    <3> QED
      BY <3>1, <3>2, <3>4 DEF Stream, InChannel, LeftBehind, NextInLine
  <2>2. CASE \/ cycleBroadcastMode \/ Clear
             \/ (\E w \in Widths : resizeMainViewport(w))
             \/ UNCHANGED vars
    <3>1. screen' = screen /\ last' = last /\ stream' = stream
      BY <2>2 DEF cycleBroadcastMode, Clear, resizeMainViewport, vars, buffer
    <3>2. /\ screen' = screen /\ last' = last /\ waiting' = waiting
          /\ of' = of /\ channel' = channel /\ sent' = sent /\ held' = held
          /\ stray' = stray
      BY <3>1 DEF stream
    <3>3. Present' = Present /\ Others' = Others
      BY <3>2 DEF Present, Others
    <3> QED
      BY <3>2, <3>3 DEF Stream, InChannel, Quiet, Pumping, LeftBehind, NextInLine
  <2> QED
    BY <2>1, <2>2, SendStream, TakeStream, DeliverStream, SwitchStream DEF Next
<1> QED
  BY <1>1, <1>2, Typing, PTL DEF Spec

\* There is one command that waits or one message on its way to the main screen,
\* and one more for each message that strayed in.
THEOREM OneMessageAtATime == Spec => []OnePump
<1>1. Stream => OnePump
  BY DEF Stream, Pumping, OnePump, Present
<1> QED
  BY <1>1, Streaming, PTL

-----------------------------------------------------------------------------
(* The buffer *)

Capped ==
    /\ Len(messages) <= MaxMessages
    /\ totalRawBytes = RawBytes(messages)
    /\ totalRawBytes <= MaxRawBytes \/ Len(messages) = 1

LEMMA ReceiveCapped ==
    ASSUME Typed, Capped, NEW m \in Messages, Receive(m)
    PROVE  Capped'
<1> DEFINE kept == Evicted(m)
<1>1. messages \in Seq(Messages)
  BY DEF Typed
<1>2. kept \in Seq(Messages) /\ (kept = <<>> \/ Fits(kept, m))
  BY <1>1, EvictedProperties
<1>3. /\ messages' = Append(kept, m)
      /\ totalRawBytes' = (totalRawBytes - (RawBytes(messages) - RawBytes(kept))) + m.kind.size
  BY Zenon DEF Receive
<1> HIDE DEF kept
<1>4. /\ RawBytes(messages') = RawBytes(kept) + m.kind.size
      /\ RawBytes(kept) \in Nat /\ RawBytes(messages) \in Nat /\ RawBytes(<<>>) = 0
  BY <1>1, <1>2, <1>3, RawBytesProperties
<1>5. m.kind.size \in Nat
  BY KindsOfMessages
<1>6. totalRawBytes' = RawBytes(messages')
  BY <1>3, <1>4, <1>5 DEF Capped
<1>7. Len(messages') = Len(kept) + 1 /\ Len(kept) \in Nat
  BY <1>2, <1>3
<1>8. CASE kept = <<>>
  <2>1. Len(messages') = 1
    BY <1>7, <1>8
  <2> QED
    BY <1>6, <2>1, BoundsAreNumbers DEF Capped
<1>9. CASE Fits(kept, m)
  <2>1. Len(kept) < MaxMessages /\ RawBytes(kept) + m.kind.size <= MaxRawBytes
    BY <1>9 DEF Fits
  <2> QED
    BY <1>4, <1>6, <1>7, <2>1, BoundsAreNumbers DEF Capped
<1> QED
  BY <1>2, <1>8, <1>9

\* The buffer keeps to both caps, but for one message that alone is larger than
\* the cap of bytes, and its count of bytes is that of its messages.
THEOREM Capping == Spec => []Capped
<1>1. Init => Capped
  <2>1. RawBytes(<<>>) = 0 /\ Len(<<>>) = 0
    BY RawBytesProperties
  <2> QED
    BY <2>1, BoundsAreNumbers DEF Init, Capped
<1>2. Typed /\ Capped /\ [Next]_vars => Capped'
  <2> SUFFICES ASSUME Typed, Capped, [Next]_vars
               PROVE  Capped'
    OBVIOUS
  <2>1. ASSUME NEW m \in held, Deliver(m)
        PROVE  Capped'
    <3>1. CASE Receive(m)
      <4>1. m \in Messages
        BY DEF Typed
      <4> QED
        BY <3>1, <4>1, ReceiveCapped
    <3>2. CASE UNCHANGED buffer
      BY <3>2 DEF buffer, Capped
    <3> QED
      BY <2>1, <3>1, <3>2 DEF Deliver
  <2>2. CASE Clear \/ Switch
    <3>1. messages' = <<>> /\ totalRawBytes' = 0
      BY <2>2 DEF Clear, Switch, resetMainLogState
    <3>2. RawBytes(<<>>) = 0 /\ Len(<<>>) = 0
      BY RawBytesProperties
    <3> QED
      BY <3>1, <3>2, BoundsAreNumbers DEF Capped
  <2>3. CASE \/ \E kind \in Kinds : Send(kind)
             \/ Take \/ enterMainScreen \/ cycleBroadcastMode
             \/ \E w \in Widths : resizeMainViewport(w)
             \/ UNCHANGED vars
    <3>1. UNCHANGED buffer
      BY <2>3 DEF Send, Take, enterMainScreen, cycleBroadcastMode, resizeMainViewport, vars
    <3> QED
      BY <3>1 DEF buffer, Capped
  <2> QED
    BY <2>1, <2>2, <2>3 DEF Next
<1> QED
  BY <1>1, <1>2, Typing, PTL DEF Spec

\* The state has its shape, and the bounds of the buffer and of what strays in.
THEOREM TypesAndBounds == Spec => []TypeOK
<1>1. Typed /\ View /\ Stream /\ Capped => TypeOK
  <2> SUFFICES ASSUME Typed, View, Stream, Capped
               PROVE  TypeOK
    OBVIOUS
  <2>1. stray \in 0..MaxSwitches
    <3>1. Cardinality(Others) \in Nat /\ Cardinality(Others) + stray <= of
      BY Counts DEF Stream, LeftBehind
    <3> QED
      BY <3>1, BoundsAreNumbers DEF Typed
  <2>2. cached \in [level: 0..2, api: 0..2, key: Widths \cup {0}]
    BY DEF View, ValidWidths
  <2>3. /\ renderedLines \in Seq([of: 0..MaxSwitches, n: 1..MaxEvents, layout: Layouts])
        /\ shown \in {"placeholder", "lines"}
    BY Zenon DEF View, LineRecords
  <2> QED
    BY <2>1, <2>2, <2>3 DEF Typed, Capped, TypeOK
<1> QED
  BY <1>1, Typing, Viewing, Streaming, Capping, PTL

\* The buffer holds the last messages of the present connection in the order in
\* which they were sent, none missing, until one of an earlier connection strays in.
THEOREM NothingMissing == Spec => []NoGaps
<1>1. Init => NoGaps
  BY DEF Init, NoGaps
<1>2. Typed /\ Stream /\ NoGaps /\ [Next]_vars => NoGaps'
  <2> SUFFICES ASSUME Typed, Stream, NoGaps, [Next]_vars
               PROVE  NoGaps'
    OBVIOUS
  <2>1. ASSUME NEW m \in held, Deliver(m), Receive(m),
               stray' = IF m.of = of THEN stray ELSE stray + 1, stray' = 0,
               NEW i \in 1..Len(messages')
        PROVE  messages'[i].of = of' /\ messages'[i].n + Len(messages') = last' + i
    <3> DEFINE kept == Evicted(m)
    <3>1. m \in Messages /\ messages \in Seq(Messages)
      BY DEF Typed
    <3>2. messages' = Append(kept, m) /\ last' = m.n
      BY <2>1, <3>1, ReceiveTyped
    <3>3. kept \in Seq(Messages)
      BY <3>1, EvictedProperties
    <3>4. PICK k \in 0..Len(messages) :
              /\ Len(kept) = Len(messages) - k
              /\ \A j \in 1..Len(kept) : kept[j] = messages[k + j]
      BY <3>1, EvictedProperties
    <3> HIDE DEF kept
    <3>5. stray = 0 /\ m.of = of /\ of' = of
      BY <2>1, NumbersOfState DEF Deliver
    <3>6. m.n = last + 1
      BY <3>5 DEF Stream, NextInLine, Present
    <3>7. Len(messages') = Len(kept) + 1 /\ Len(kept) \in Nat
      BY <3>1, <3>2, <3>3
    <3>8. CASE i = Len(kept) + 1
      <4>1. messages'[i] = m
        BY <3>1, <3>2, <3>3, <3>8
      <4> QED
        BY <3>2, <3>5, <3>7, <3>8, <4>1
    <3>9. CASE i # Len(kept) + 1
      <4>1. i \in 1..Len(kept) /\ k \in Nat /\ k + i \in 1..Len(messages)
        BY <3>1, <3>4, <3>7, <3>9
      <4>2. messages'[i] = messages[k + i]
        BY <3>1, <3>2, <3>3, <3>4, <4>1
      <4>3. messages[k + i].of = of /\ messages[k + i].n + Len(messages) = last + (k + i)
        BY <3>5, <4>1 DEF NoGaps
      <4>4. messages[k + i] \in Messages
        BY <3>1, <4>1
      <4> DEFINE x == messages[k + i].n
      <4>5. x \in Nat
        <5>1. x \in 1..MaxEvents
          BY <4>4, KindsOfMessages
        <5> QED
          BY <5>1, BoundsAreNumbers
      <4>6. x + Len(messages) = last + (k + i)
        BY <4>3
      <4>7. messages'[i].n = x /\ messages'[i].of = of
        BY <4>2, <4>3
      <4> HIDE DEF x
      <4>8. Len(messages) \in Nat /\ last \in Nat
        BY <3>1, NumbersOfState
      <4>9. x + (Len(kept) + 1) = (last + 1) + i
        <5>1. Len(kept) = Len(messages) - k /\ k \in Nat /\ i \in Nat
          BY <3>4, <4>1
        <5> QED
          BY <4>5, <4>6, <4>8, <5>1
      <4> QED
        BY <3>2, <3>5, <3>6, <3>7, <4>7, <4>9
    <3> QED
      BY <3>8, <3>9
  <2>2. CASE \E m \in held : Deliver(m)
    <3>1. PICK m \in held : Deliver(m)
      BY <2>2
    <3>2. CASE Receive(m) /\ stray' = IF m.of = of THEN stray ELSE stray + 1
      BY <2>1, <3>1, <3>2 DEF NoGaps
    <3>3. CASE UNCHANGED <<buffer, stray>>
      BY <3>1, <3>3 DEF Deliver, buffer, NoGaps
    <3> QED
      BY <3>1, <3>2, <3>3 DEF Deliver
  <2>3. CASE Clear \/ Switch
    <3>1. messages' = <<>>
      BY <2>3 DEF Clear, Switch, resetMainLogState
    <3> QED
      BY <3>1 DEF NoGaps
  <2>4. CASE \/ \E kind \in Kinds : Send(kind)
             \/ Take \/ enterMainScreen \/ cycleBroadcastMode
             \/ \E w \in Widths : resizeMainViewport(w)
             \/ UNCHANGED vars
    <3>1. messages' = messages /\ last' = last /\ of' = of /\ stray' = stray
      BY <2>4 DEF Send, Take, enterMainScreen, cycleBroadcastMode, resizeMainViewport,
                  vars, buffer, stream
    <3> QED
      BY <3>1 DEF NoGaps
  <2> QED
    BY <2>2, <2>3, <2>4 DEF Next
<1> QED
  BY <1>1, <1>2, Typing, Streaming, PTL DEF Spec
=============================================================================

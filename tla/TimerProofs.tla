----------------------------- MODULE TimerProofs -----------------------------
(***************************************************************************)
(* Timer for every number of events, threads and intervals: the order of   *)
(* the pending events, the timerfd that is armed for the first of them,    *)
(* what a deletion can lose and what it keeps from running.                *)
(***************************************************************************)
EXTENDS Timer, FiniteSetTheorems, SequenceTheorems, TLAPS

(***************************************************************************)
(* Sets of numbers: the least element, and the sets that go from 1 up.     *)
(***************************************************************************)
LEMMA Least ==
    ASSUME NEW S \in SUBSET Nat, S # {}
    PROVE  \E m \in S : \A j \in S : m <= j
<1> DEFINE R == OpToRel(<, Nat)
<1>1. PICK m \in S : \A j \in S : <<j, m>> \notin R
  <2>1. IsWellFoundedOn(R, Nat)
    BY NatLessThanWellFounded
  <2> HIDE DEF R
  <2> QED BY <2>1, WFMin
<1>2. \A j \in S : ~ (j < m)
  BY <1>1 DEF OpToRel
<1> QED BY <1>2

LEMMA DownwardClosed ==
    ASSUME NEW n \in Nat, NEW S \in SUBSET (1 .. n),
           \A i \in S : \A j \in 1 .. i : j \in S
    PROVE  Cardinality(S) \in 0 .. n /\ S = 1 .. Cardinality(S)
<1>1. PICK k \in 0 .. n : S = 1 .. k
  <2>1. CASE S = 1 .. n
    BY <2>1
  <2>2. CASE S # 1 .. n
    <3> DEFINE T == (1 .. n) \ S
    <3>1. T \in SUBSET Nat /\ T # {}
      <4>1. T \subseteq Nat
        OBVIOUS
      <4>2. T # {}
        BY <2>2
      <4> QED BY <4>1, <4>2
    <3>2. PICK m \in T : \A j \in T : m <= j
      BY <3>1, Least
    <3>3. \A j \in 1 .. n : j < m => j \in S
      BY <3>2
    <3>4. \A j \in 1 .. n : j \in S => j < m
      BY <3>2
    <3>5. m - 1 \in 0 .. n /\ S = 1 .. (m - 1)
      <4>1. m \in 1 .. n
        BY <3>2
      <4>2. S \subseteq 1 .. n
        OBVIOUS
      <4>3. S \subseteq 1 .. (m - 1)
        <5> SUFFICES ASSUME NEW j \in S PROVE j \in 1 .. (m - 1)
          OBVIOUS
        <5>1. j \in 1 .. n
          BY <4>2
        <5> QED BY <3>4, <4>1, <5>1
      <4>4. 1 .. (m - 1) \subseteq S
        BY <3>3, <4>1
      <4>5. m - 1 \in 0 .. n
        BY <4>1
      <4> QED BY <4>3, <4>4, <4>5
    <3> QED BY <3>5
  <2> QED BY <2>1, <2>2
<1>2. Cardinality(1 .. k) = k
  BY FS_Interval
<1> QED BY <1>1, <1>2

(***************************************************************************)
(* A sequence with one element more, or one element less.                  *)
(***************************************************************************)
LEMMA InsertAtIs ==
    ASSUME NEW s \in Seq(Events), NEW e \in Events, NEW k \in 1 .. Len(s) + 1
    PROVE  /\ InsertAt(s, k, e) \in Seq(Events)
           /\ Len(InsertAt(s, k, e)) = Len(s) + 1
           /\ \A i \in 1 .. Len(s) + 1 :
                  InsertAt(s, k, e)[i] =
                      IF i < k THEN s[i] ELSE IF i = k THEN e ELSE s[i - 1]
<1> DEFINE u == SubSeq(s, 1, k - 1)
           v == <<e>>
           w == SubSeq(s, k, Len(s))
           x == u \o v
<1>1. /\ u \in Seq(Events) /\ Len(u) = k - 1
      /\ \A i \in 1 .. k - 1 : u[i] = s[i]
  BY SubSeqProperties
<1>2. /\ w \in Seq(Events) /\ Len(w) = Len(s) - k + 1
      /\ \A i \in 1 .. Len(s) - k + 1 : w[i] = s[k + i - 1]
  BY SubSeqProperties
<1>3. v \in Seq(Events) /\ Len(v) = 1 /\ v[1] = e
  OBVIOUS
<1>4. k \in Int /\ Len(s) \in Nat /\ k >= 1 /\ k <= Len(s) + 1
  OBVIOUS
<1> HIDE DEF u, v, w
<1>5. /\ x \in Seq(Events) /\ Len(x) = k
      /\ \A i \in 1 .. k : x[i] = IF i <= k - 1 THEN u[i] ELSE v[i - (k - 1)]
  <2>1. /\ x \in Seq(Events) /\ Len(x) = Len(u) + Len(v)
        /\ \A i \in 1 .. Len(u) + Len(v) :
               x[i] = IF i <= Len(u) THEN u[i] ELSE v[i - Len(u)]
    BY <1>1, <1>3, ConcatProperties
  <2>2. Len(u) + Len(v) = k
    BY <1>1, <1>3, <1>4
  <2> HIDE DEF x
  <2> QED BY <1>1, <2>1, <2>2
<1>6. \A i \in 1 .. k : x[i] = IF i < k THEN s[i] ELSE e
  BY <1>1, <1>3, <1>4, <1>5
<1> HIDE DEF x
<1>7. /\ x \o w \in Seq(Events) /\ Len(x \o w) = Len(s) + 1
      /\ \A i \in 1 .. Len(s) + 1 : (x \o w)[i] = IF i <= k THEN x[i] ELSE w[i - k]
  <2>1. /\ x \o w \in Seq(Events) /\ Len(x \o w) = Len(x) + Len(w)
        /\ \A i \in 1 .. Len(x) + Len(w) :
               (x \o w)[i] = IF i <= Len(x) THEN x[i] ELSE w[i - Len(x)]
    BY <1>2, <1>5, ConcatProperties
  <2>2. Len(x) + Len(w) = Len(s) + 1
    BY <1>2, <1>4, <1>5
  <2> QED BY <1>5, <2>1, <2>2
<1>8. \A i \in 1 .. Len(s) + 1 : i > k => w[i - k] = s[i - 1]
  <2> SUFFICES ASSUME NEW i \in 1 .. Len(s) + 1, i > k PROVE w[i - k] = s[i - 1]
    OBVIOUS
  <2>1. i - k \in 1 .. Len(s) - k + 1 /\ k + (i - k) - 1 = i - 1
    BY <1>4
  <2> QED BY <1>2, <2>1
<1>9. \A i \in 1 .. Len(s) + 1 :
          (x \o w)[i] = IF i < k THEN s[i] ELSE IF i = k THEN e ELSE s[i - 1]
  BY <1>4, <1>6, <1>7, <1>8
<1>10. InsertAt(s, k, e) = x \o w
  BY DEF InsertAt, u, v, w, x
<1> QED BY <1>7, <1>9, <1>10

LEMMA RemoveAtIs ==
    ASSUME NEW s \in Seq(Events), NEW k \in 1 .. Len(s)
    PROVE  /\ RemoveAt(s, k) \in Seq(Events)
           /\ Len(RemoveAt(s, k)) = Len(s) - 1
           /\ \A i \in 1 .. Len(s) - 1 :
                  RemoveAt(s, k)[i] = IF i < k THEN s[i] ELSE s[i + 1]
<1> DEFINE u == SubSeq(s, 1, k - 1)
           w == SubSeq(s, k + 1, Len(s))
           x == u \o w
<1>1. /\ u \in Seq(Events) /\ Len(u) = k - 1
      /\ \A i \in 1 .. k - 1 : u[i] = s[i]
  BY SubSeqProperties
<1>2. /\ w \in Seq(Events) /\ Len(w) = Len(s) - k
      /\ \A i \in 1 .. Len(s) - k : w[i] = s[k + i]
  BY SubSeqProperties
<1>3. k \in Int /\ Len(s) \in Nat /\ k >= 1 /\ k <= Len(s)
  OBVIOUS
<1> HIDE DEF u, w
<1>4. /\ x \in Seq(Events) /\ Len(x) = Len(s) - 1
      /\ \A i \in 1 .. Len(s) - 1 :
             x[i] = IF i <= k - 1 THEN u[i] ELSE w[i - (k - 1)]
  <2>1. /\ x \in Seq(Events) /\ Len(x) = Len(u) + Len(w)
        /\ \A i \in 1 .. Len(u) + Len(w) :
               x[i] = IF i <= Len(u) THEN u[i] ELSE w[i - Len(u)]
    BY <1>1, <1>2, ConcatProperties
  <2>2. Len(u) + Len(w) = Len(s) - 1
    BY <1>1, <1>2, <1>3
  <2> HIDE DEF x
  <2> QED BY <1>1, <2>1, <2>2
<1>5. \A i \in 1 .. Len(s) - 1 : i >= k => w[i - (k - 1)] = s[i + 1]
  <2> SUFFICES ASSUME NEW i \in 1 .. Len(s) - 1, i >= k
               PROVE  w[i - (k - 1)] = s[i + 1]
    OBVIOUS
  <2>1. i - (k - 1) \in 1 .. Len(s) - k /\ k + (i - (k - 1)) = i + 1
    BY <1>3
  <2> QED BY <1>2, <2>1
<1> HIDE DEF x
<1>6. \A i \in 1 .. Len(s) - 1 : x[i] = IF i < k THEN s[i] ELSE s[i + 1]
  <2> SUFFICES ASSUME NEW i \in 1 .. Len(s) - 1
               PROVE  x[i] = IF i < k THEN s[i] ELSE s[i + 1]
    OBVIOUS
  <2>1. CASE i < k
    BY <1>1, <1>3, <1>4, <2>1
  <2>2. CASE i >= k
    BY <1>3, <1>4, <1>5, <2>2
  <2> QED BY <1>3, <2>1, <2>2
<1>7. RemoveAt(s, k) = x
  BY DEF RemoveAt, u, w, x
<1> QED BY <1>4, <1>6, <1>7

-----------------------------------------------------------------------------
(***************************************************************************)
(* The ticks, and the order of the pending events by them.                 *)
(***************************************************************************)
LEMMA TicksAre ==
    /\ Ticks \subseteq Int /\ Past \in Ticks /\ 0 \in Ticks
    /\ \A i \in Intervals \cup {0} : i \in Ticks
    /\ \A n \in Ticks : n >= Past /\ Less(n) \in Ticks
    /\ \A n \in Ticks : Interval(n) \in Ticks /\ Interval(n) > 0
    /\ None \notin Ticks
<1>1. MaxTicks \in Intervals \cup {Grace} /\ \A i \in Intervals \cup {Grace} : i <= MaxTicks
  BY LongestAssumption DEF MaxTicks
<1>2. MaxTicks \in Nat \ {0}
  BY <1>1, TimesAssumption
<1> HIDE DEF MaxTicks
<1> QED
  BY <1>1, <1>2, TimesAssumption, NoneAssumption DEF Ticks, Past, Less, Interval

Sorted(s, d) ==
    \A i, j \in DOMAIN s : i < j => s[i] # s[j] /\ d[s[i]] <= d[s[j]]

\* t is s with e, due in so many ticks, put in at k.
IsInserted(t, s, d, e, ticks, k) ==
    /\ t \in Seq(Events)
    /\ Sorted(t, [d EXCEPT ![e] = ticks])
    /\ Range(t) = Range(s) \cup {e}
    /\ t # <<>>
    /\ k = 1 \/ Head(t) = Head(s)

LEMMA InsertSorted ==
    ASSUME NEW s \in Seq(Events), NEW d \in [Events -> Int], Sorted(s, d),
           NEW e \in Events, e \notin Range(s), NEW ticks \in Int,
           NEW k \in 1 .. Len(s) + 1,
           \A i \in 1 .. k - 1 : d[s[i]] <= ticks,
           \A i \in k .. Len(s) : ticks < d[s[i]]
    PROVE  IsInserted(InsertAt(s, k, e), s, d, e, ticks, k)
<1> DEFINE t == InsertAt(s, k, e)
<1>1. /\ t \in Seq(Events) /\ Len(t) = Len(s) + 1
      /\ \A i \in 1 .. Len(s) + 1 :
             t[i] = IF i < k THEN s[i] ELSE IF i = k THEN e ELSE s[i - 1]
  BY InsertAtIs
<1> HIDE DEF t
<1> DEFINE c == [d EXCEPT ![e] = ticks]
<1>2. /\ DOMAIN s = 1 .. Len(s) /\ DOMAIN t = 1 .. Len(s) + 1 /\ Len(s) \in Nat
      /\ \A i \in 1 .. Len(s) : s[i] \in Events /\ s[i] # e
      /\ k \in Int /\ 1 <= k /\ k <= Len(s) + 1
  BY <1>1 DEF Range
<1>3. c[e] = ticks /\ \A i \in 1 .. Len(s) : c[s[i]] = d[s[i]] /\ d[s[i]] \in Int
  BY <1>2
<1>4. ASSUME NEW i \in DOMAIN t, NEW j \in DOMAIN t, i < j
      PROVE  t[i] # t[j] /\ c[t[i]] <= c[t[j]]
  <2> HIDE DEF c
  <2>1. CASE j < k
    BY <1>1, <1>2, <1>3, <1>4, <2>1 DEF Sorted
  <2>2. CASE j = k
    BY <1>1, <1>2, <1>3, <1>4, <2>2
  <2>3. CASE i < k /\ j > k
    <3>1. t[i] = s[i] /\ t[j] = s[j - 1] /\ i \in 1 .. k - 1 /\ j - 1 \in k .. Len(s)
      <4>1. i \in Int /\ j \in Int /\ i \in 1 .. Len(s) + 1 /\ j \in 1 .. Len(s) + 1
        BY <1>2
      <4>2. t[i] = s[i]
        BY <1>1, <2>3, <4>1
      <4>3. t[j] = s[j - 1]
        BY <1>1, <1>2, <2>3, <4>1
      <4> QED BY <1>2, <2>3, <4>1, <4>2, <4>3
    <3>2. d[s[i]] <= ticks /\ ticks < d[s[j - 1]]
      BY <3>1
    <3>3. i \in DOMAIN s /\ j - 1 \in DOMAIN s /\ i < j - 1
      BY <1>2, <3>1
    <3> QED BY <1>2, <1>3, <3>1, <3>3 DEF Sorted
  <2>4. CASE i = k
    <3>1. t[i] = e /\ t[j] = s[j - 1] /\ j - 1 \in k .. Len(s) /\ j - 1 \in 1 .. Len(s)
      BY <1>1, <1>2, <1>4, <2>4
    <3>2. ticks < d[s[j - 1]]
      BY <3>1
    <3> QED BY <1>2, <1>3, <3>1, <3>2
  <2>5. CASE i > k
    <3>1. t[i] = s[i - 1] /\ t[j] = s[j - 1]
      <4>1. i \in Int /\ j \in Int /\ i \in 1 .. Len(s) + 1 /\ j \in 1 .. Len(s) + 1
        BY <1>2
      <4>2. ~ (i < k) /\ i # k /\ ~ (j < k) /\ j # k
        BY <1>2, <1>4, <2>5, <4>1
      <4> QED BY <1>1, <4>1, <4>2
    <3>2. i - 1 \in DOMAIN s /\ j - 1 \in DOMAIN s /\ i - 1 < j - 1
      BY <1>2, <1>4, <2>5
    <3> QED BY <1>2, <1>3, <3>1, <3>2 DEF Sorted
  <2>6. i \in Int /\ j \in Int
    BY <1>2
  <2> QED BY <1>2, <1>4, <2>1, <2>2, <2>3, <2>4, <2>5, <2>6
<1>5. Range(t) = Range(s) \cup {e}
  <2>1. ASSUME NEW x \in Range(t) PROVE x \in Range(s) \cup {e}
    <3>1. PICK i \in DOMAIN t : t[i] = x
      BY DEF Range
    <3>2. CASE i < k
      <4>1. i \in DOMAIN s /\ t[i] = s[i]
        BY <1>1, <1>2, <3>2
      <4> QED BY <3>1, <4>1 DEF Range
    <3>3. CASE i = k
      BY <1>1, <1>2, <3>1, <3>3
    <3>4. CASE i > k
      <4>1. i - 1 \in DOMAIN s /\ t[i] = s[i - 1]
        BY <1>1, <1>2, <3>4
      <4> QED BY <3>1, <4>1 DEF Range
    <3> QED BY <1>2, <3>2, <3>3, <3>4
  <2>2. e \in Range(t)
    <3>1. k \in DOMAIN t /\ t[k] = e
      BY <1>1, <1>2
    <3> QED BY <3>1 DEF Range
  <2>3. ASSUME NEW x \in Range(s) PROVE x \in Range(t)
    <3>1. PICK i \in DOMAIN s : s[i] = x
      BY DEF Range
    <3>2. CASE i < k
      <4>1. i \in DOMAIN t /\ t[i] = s[i]
        BY <1>1, <1>2, <3>2
      <4> QED BY <3>1, <4>1 DEF Range
    <3>3. CASE i >= k
      <4>1. i + 1 \in DOMAIN t /\ t[i + 1] = s[i]
        BY <1>1, <1>2, <3>3
      <4> QED BY <3>1, <4>1 DEF Range
    <3> QED BY <1>2, <3>2, <3>3
  <2> QED BY <2>1, <2>2, <2>3
<1>6. t # <<>> /\ (k > 1 => Head(t) = Head(s))
  <2>1. t # <<>> /\ Head(t) = t[1]
    BY <1>1, <1>2
  <2>2. ASSUME k > 1 PROVE t[1] = s[1] /\ Head(s) = s[1]
    BY <1>1, <1>2, <2>2
  <2> QED BY <2>1, <2>2
<1> QED BY <1>1, <1>4, <1>5, <1>6 DEF t, Sorted, IsInserted

LEMMA RemoveSorted ==
    ASSUME NEW s \in Seq(Events), NEW d, Sorted(s, d), NEW k \in 1 .. Len(s)
    PROVE  /\ RemoveAt(s, k) \in Seq(Events)
           /\ Sorted(RemoveAt(s, k), d)
           /\ Range(RemoveAt(s, k)) = Range(s) \ {s[k]}
<1> DEFINE t == RemoveAt(s, k)
<1>1. /\ t \in Seq(Events) /\ Len(t) = Len(s) - 1
      /\ \A i \in 1 .. Len(s) - 1 : t[i] = IF i < k THEN s[i] ELSE s[i + 1]
  BY RemoveAtIs
<1> HIDE DEF t
<1>2. /\ DOMAIN s = 1 .. Len(s) /\ DOMAIN t = 1 .. Len(s) - 1 /\ Len(s) \in Nat
      /\ k \in Int /\ 1 <= k /\ k <= Len(s)
  BY <1>1
<1> DEFINE from(i) == IF i < k THEN i ELSE i + 1
<1>3. \A i \in DOMAIN t : from(i) \in DOMAIN s \ {k} /\ t[i] = s[from(i)]
  BY <1>1, <1>2
<1>4. \A i, j \in DOMAIN t : i < j => from(i) < from(j)
  BY <1>2
<1>5. ASSUME NEW j \in DOMAIN s \ {k} PROVE \E i \in DOMAIN t : from(i) = j
  <2>1. CASE j < k
    <3>1. j \in DOMAIN t /\ from(j) = j
      BY <1>2, <2>1
    <3> QED BY <3>1
  <2>2. CASE j > k
    <3>1. j - 1 \in DOMAIN t /\ from(j - 1) = j
      BY <1>2, <2>2
    <3> QED BY <3>1
  <2> QED BY <1>2, <2>1, <2>2
<1> HIDE DEF from
<1>6. Sorted(t, d)
  BY <1>3, <1>4 DEF Sorted
<1>7. \A i, j \in DOMAIN s : i # j => s[i] # s[j]
  <2> SUFFICES ASSUME NEW i \in DOMAIN s, NEW j \in DOMAIN s, i # j
               PROVE  s[i] # s[j]
    OBVIOUS
  <2>1. i < j \/ j < i
    BY <1>2
  <2> QED BY <2>1 DEF Sorted
<1>8. Range(t) = Range(s) \ {s[k]}
  <2>1. ASSUME NEW x \in Range(t) PROVE x \in Range(s) \ {s[k]}
    <3>1. PICK i \in DOMAIN t : t[i] = x
      BY DEF Range
    <3>2. from(i) \in DOMAIN s \ {k} /\ x = s[from(i)] /\ k \in DOMAIN s
      BY <1>2, <1>3, <3>1
    <3> QED BY <1>7, <3>2 DEF Range
  <2>2. ASSUME NEW x \in Range(s) \ {s[k]} PROVE x \in Range(t)
    <3>1. PICK j \in DOMAIN s : s[j] = x
      BY DEF Range
    <3>2. PICK i \in DOMAIN t : from(i) = j
      BY <1>5, <3>1
    <3> QED BY <1>3, <3>1, <3>2 DEF Range
  <2> QED BY <2>1, <2>2
<1> QED BY <1>1, <1>6, <1>8 DEF t

LEMMA SplitSorted ==
    ASSUME NEW s \in Seq(Events), NEW d, Sorted(s, d), NEW n \in 0 .. Len(s)
    PROVE  LET p == SubSeq(s, 1, n)
               q == SubSeq(s, n + 1, Len(s))
           IN  /\ p \in Seq(Events) /\ q \in Seq(Events)
               /\ \A i, j \in DOMAIN p : i # j => p[i] # p[j]
               /\ Sorted(q, d)
               /\ Range(p) = {s[i] : i \in 1 .. n}
               /\ Range(q) = {s[i] : i \in n + 1 .. Len(s)}
               /\ Range(p) \cup Range(q) = Range(s)
               /\ Range(p) \cap Range(q) = {}
<1> DEFINE p == SubSeq(s, 1, n)
           q == SubSeq(s, n + 1, Len(s))
<1>1. /\ p \in Seq(Events) /\ Len(p) = n
      /\ \A i \in 1 .. n : p[i] = s[i]
  BY SubSeqProperties
<1>2. /\ q \in Seq(Events) /\ Len(q) = Len(s) - n
      /\ \A i \in 1 .. Len(s) - n : q[i] = s[n + i]
  BY SubSeqProperties
<1> HIDE DEF p, q
<1>3. /\ DOMAIN s = 1 .. Len(s) /\ DOMAIN p = 1 .. n /\ DOMAIN q = 1 .. Len(s) - n
      /\ Len(s) \in Nat /\ n \in Nat /\ n <= Len(s)
  BY <1>1, <1>2
<1>4. \A i, j \in DOMAIN s : i # j => s[i] # s[j]
  <2> SUFFICES ASSUME NEW i \in DOMAIN s, NEW j \in DOMAIN s, i # j
               PROVE  s[i] # s[j]
    OBVIOUS
  <2>1. i < j \/ j < i
    BY <1>3
  <2> QED BY <2>1 DEF Sorted
<1>5. \A i, j \in DOMAIN p : i # j => p[i] # p[j]
  BY <1>1, <1>3, <1>4
<1>6. Sorted(q, d)
  <2> SUFFICES ASSUME NEW i \in DOMAIN q, NEW j \in DOMAIN q, i < j
               PROVE  q[i] # q[j] /\ d[q[i]] <= d[q[j]]
    BY DEF Sorted
  <2>1. n + i \in DOMAIN s /\ n + j \in DOMAIN s /\ n + i < n + j
    BY <1>3
  <2>2. q[i] = s[n + i] /\ q[j] = s[n + j]
    BY <1>2, <1>3
  <2> QED BY <2>1, <2>2 DEF Sorted
<1>7. Range(p) = {s[i] : i \in 1 .. n}
  BY <1>1, <1>3 DEF Range
<1>8. Range(q) = {s[i] : i \in n + 1 .. Len(s)}
  <2>1. ASSUME NEW x \in Range(q) PROVE x \in {s[i] : i \in n + 1 .. Len(s)}
    <3>1. PICK i \in DOMAIN q : q[i] = x
      BY DEF Range
    <3>2. n + i \in n + 1 .. Len(s) /\ x = s[n + i]
      BY <1>2, <1>3, <3>1
    <3> QED BY <3>2
  <2>2. ASSUME NEW i \in n + 1 .. Len(s) PROVE s[i] \in Range(q)
    <3>1. i - n \in DOMAIN q /\ n + (i - n) = i
      BY <1>3
    <3>2. q[i - n] = s[i]
      BY <1>2, <1>3, <3>1
    <3> QED BY <3>1, <3>2 DEF Range
  <2> QED BY <2>1, <2>2
<1>9. Range(p) \cup Range(q) = Range(s)
  <2>1. \A i \in DOMAIN s : i \in 1 .. n \/ i \in n + 1 .. Len(s)
    BY <1>3
  <2>2. 1 .. n \subseteq DOMAIN s /\ n + 1 .. Len(s) \subseteq DOMAIN s
    BY <1>3
  <2> QED BY <1>7, <1>8, <2>1, <2>2 DEF Range
<1>10. Range(p) \cap Range(q) = {}
  <2> SUFFICES ASSUME NEW i \in 1 .. n, NEW j \in n + 1 .. Len(s) PROVE s[i] # s[j]
    BY <1>7, <1>8
  <2>1. i \in DOMAIN s /\ j \in DOMAIN s /\ i # j
    BY <1>3
  <2> QED BY <1>4, <2>1
<1> QED BY <1>1, <1>2, <1>5, <1>6, <1>7, <1>8, <1>9, <1>10 DEF p, q

-----------------------------------------------------------------------------
(***************************************************************************)
(* The operators of Timer.                                                 *)
(***************************************************************************)
LEMMA InsertedIs ==
    ASSUME TypeOK, NEW e \in Events, e \notin Pending, NEW ticks \in Ticks
    PROVE  /\ Inserted(e, ticks) \in Seq(Events)
           /\ Sorted(Inserted(e, ticks), [due EXCEPT ![e] = ticks])
           /\ Range(Inserted(e, ticks)) = Pending \cup {e}
           /\ Inserted(e, ticks) # <<>>
           /\ m_pending_events # <<>> /\ due[Head(m_pending_events)] <= ticks
                 => Head(Inserted(e, ticks)) = Head(m_pending_events)
<1> DEFINE s == m_pending_events
           before == {i \in DOMAIN s : due[s[i]] <= ticks}
           n == Cardinality(before)
<1>1. /\ s \in Seq(Events) /\ due \in [Events -> Int] /\ Sorted(s, due)
      /\ e \notin Range(s) /\ ticks \in Int
  BY TicksAre DEF TypeOK, Sorted, Pending
<1>2. DOMAIN s = 1 .. Len(s) /\ Len(s) \in Nat /\ \A i \in DOMAIN s : due[s[i]] \in Int
  BY <1>1
<1>3. before \in SUBSET (1 .. Len(s))
  BY <1>2
<1>4. \A i \in before : \A j \in 1 .. i : j \in before
  <2> SUFFICES ASSUME NEW i \in before, NEW j \in 1 .. i PROVE j \in before
    OBVIOUS
  <2>1. i \in DOMAIN s /\ j \in DOMAIN s /\ (j = i \/ j < i)
    BY <1>2
  <2>2. due[s[j]] <= due[s[i]]
    BY <1>1, <1>2, <2>1 DEF Sorted
  <2> QED BY <1>1, <1>2, <2>1, <2>2
<1>5. n \in 0 .. Len(s) /\ before = 1 .. n
  <2> HIDE DEF before
  <2> QED BY <1>2, <1>3, <1>4, DownwardClosed
<1> HIDE DEF n
<1> DEFINE k == n + 1
<1>6. k \in 1 .. Len(s) + 1
  BY <1>2, <1>5
<1>7. \A i \in 1 .. k - 1 : due[s[i]] <= ticks
  BY <1>5
<1>8. \A i \in k .. Len(s) : ticks < due[s[i]]
  <2> SUFFICES ASSUME NEW i \in k .. Len(s) PROVE ticks < due[s[i]]
    OBVIOUS
  <2>1. i \in DOMAIN s /\ i \notin before
    BY <1>2, <1>5
  <2> QED BY <1>1, <1>2, <2>1
<1>9. Inserted(e, ticks) = InsertAt(s, k, e)
  BY DEF Inserted, n, k
<1>10. s # <<>> /\ due[Head(s)] <= ticks => k # 1
  <2> SUFFICES ASSUME s # <<>>, due[Head(s)] <= ticks PROVE k # 1
    OBVIOUS
  <2>1. 1 \in before
    BY <1>1, <1>2
  <2> QED BY <1>5, <2>1
<1> HIDE DEF s, before, k
<1>11. IsInserted(InsertAt(s, k, e), s, due, e, ticks, k)
  BY <1>1, <1>6, <1>7, <1>8, InsertSorted
<1> QED BY <1>9, <1>10, <1>11 DEF s, Pending, IsInserted

LEMMA CollectIs ==
    ASSUME TypeOK, Collect
    PROVE  \E n \in 0 .. Len(m_pending_events) :
               /\ batch' = SubSeq(m_pending_events, 1, n)
               /\ tmps' = SubSeq(m_pending_events, 1, n)
               /\ m_pending_events' =
                      SubSeq(m_pending_events, n + 1, Len(m_pending_events))
               /\ \A i \in 1 .. n : Collectable(m_pending_events[i])
<1> DEFINE s == m_pending_events
           stops == {i \in DOMAIN s : ~Collectable(s[i])}
           first == CHOOSE i \in stops : \A j \in stops : i <= j
           n == IF stops = {} THEN Len(s) ELSE first - 1
<1>1. DOMAIN s = 1 .. Len(s) /\ Len(s) \in Nat
  BY DEF TypeOK
<1>2. /\ batch' = SubSeq(s, 1, n) /\ tmps' = SubSeq(s, 1, n)
      /\ m_pending_events' = SubSeq(s, n + 1, Len(s))
  BY DEF Collect
<1>3. n \in 0 .. Len(s) /\ \A i \in 1 .. n : Collectable(s[i])
  <2>1. CASE stops = {}
    BY <1>1, <2>1
  <2>2. CASE stops # {}
    <3>1. stops \in SUBSET Nat
      BY <1>1
    <3>2. \E i \in stops : \A j \in stops : i <= j
      <4> HIDE DEF stops
      <4> QED BY <2>2, <3>1, Least
    <3>3. first \in stops /\ \A j \in stops : first <= j
      BY <3>2
    <3> HIDE DEF first
    <3>4. n = first - 1 /\ first \in 1 .. Len(s)
      BY <1>1, <2>2, <3>3
    <3> QED BY <1>1, <3>3, <3>4
  <2> QED BY <2>1, <2>2
<1> HIDE DEF n
<1> QED BY <1>2, <1>3

LEMMA DelEraseIs ==
    ASSUME TypeOK, NEW t \in Threads, DelErase(t)
    PROVE  LET e == deleting[t]
           IN  /\ e \in Events
               /\ life' = [life EXCEPT ![e] = "deleted"]
               /\ deleting' = [deleting EXCEPT ![t] = None]
               /\ \/ UNCHANGED m_pending_events
                  \/ \E i \in 1 .. Len(m_pending_events) :
                         m_pending_events' = RemoveAt(m_pending_events, i)
               /\ m_pending_events' \in Seq(Events)
               /\ Sorted(m_pending_events', due)
               /\ Range(m_pending_events') \subseteq Pending \ {e}
               /\ e \in Pending =>
                      Range(m_pending_events') = Pending \ {e} /\ erased' = erased
               /\ e \notin Pending =>
                      erased' = erased \cup (Pending \ Range(m_pending_events'))
<1> DEFINE s == m_pending_events
           e == deleting[t]
<1>1. e \in Events
  BY DEF DelErase, TypeOK
<1>2. s \in Seq(Events) /\ DOMAIN s = 1 .. Len(s) /\ Sorted(s, due)
  BY DEF TypeOK, Sorted
<1>3. /\ life' = [life EXCEPT ![e] = "deleted"]
      /\ deleting' = [deleting EXCEPT ![t] = None]
      /\ erased' = IF e \in Pending THEN erased
                   ELSE erased \cup (Pending \ Range(m_pending_events'))
  BY DEF DelErase, Pending
<1>4. CASE \E i \in Erased(e) : m_pending_events' = RemoveAt(s, i)
  <2>1. PICK i \in Erased(e) : m_pending_events' = RemoveAt(s, i)
    BY <1>4
  <2>2. i \in 1 .. Len(s) /\ (e \in Pending => s[i] = e)
    BY <1>2, <2>1 DEF Erased, UpperBounds
  <2>3. /\ m_pending_events' \in Seq(Events)
        /\ Sorted(m_pending_events', due)
        /\ Range(m_pending_events') = Pending \ {s[i]}
    <3> HIDE DEF s
    <3> QED BY <1>2, <2>1, <2>2, RemoveSorted DEF Pending, s
  <2> QED BY <1>1, <1>3, <2>1, <2>2, <2>3
<1>5. CASE Erased(e) = {} /\ UNCHANGED m_pending_events
  <2>1. e \notin Pending
    BY <1>5 DEF Erased, Pending, Range
  <2> QED BY <1>1, <1>2, <1>3, <1>5, <2>1 DEF Pending
<1> QED BY <1>4, <1>5 DEF DelErase

LEMMA HeadTailRange ==
    ASSUME NEW s \in Seq(Events), s # <<>>
    PROVE  /\ Head(s) \in Range(s) /\ Head(s) \in Events
           /\ Tail(s) \in Seq(Events)
           /\ Range(Tail(s)) \subseteq Range(s)
           /\ Range(s) = Range(Tail(s)) \cup {Head(s)}
<1> DEFINE t == Tail(s)
<1>1. /\ Head(s) = s[1] /\ 1 \in DOMAIN s /\ t \in Seq(Events) /\ Head(s) \in Events
      /\ DOMAIN t = 1 .. Len(s) - 1 /\ DOMAIN s = 1 .. Len(s) /\ Len(s) \in Nat
      /\ \A i \in DOMAIN t : t[i] = s[i + 1]
  OBVIOUS
<1> HIDE DEF t
<1>2. \A i \in DOMAIN t : i + 1 \in DOMAIN s
  BY <1>1
<1>3. Range(t) \subseteq Range(s) /\ Head(s) \in Range(s)
  BY <1>1, <1>2 DEF Range
<1>4. ASSUME NEW x \in Range(s), x # Head(s) PROVE x \in Range(t)
  <2>1. PICK i \in DOMAIN s : s[i] = x
    BY DEF Range
  <2>2. i - 1 \in DOMAIN t /\ t[i - 1] = s[i]
    BY <1>1, <1>4, <2>1
  <2> QED BY <2>1, <2>2 DEF Range
<1> QED BY <1>1, <1>3, <1>4 DEF t

LEMMA HeadNotInTail ==
    ASSUME NEW s \in Seq(Events), s # <<>>,
           \A i, j \in DOMAIN s : i # j => s[i] # s[j]
    PROVE  Head(s) \notin Range(Tail(s))
<1> DEFINE t == Tail(s)
<1>1. /\ Head(s) = s[1] /\ 1 \in DOMAIN s /\ DOMAIN t \subseteq Nat \ {0}
      /\ \A i \in DOMAIN t : i + 1 \in DOMAIN s /\ t[i] = s[i + 1]
  OBVIOUS
<1> HIDE DEF t
<1>2. \A i \in DOMAIN t : i + 1 # 1
  BY <1>1
<1>3. Head(s) \notin Range(t)
  BY <1>1, <1>2 DEF Range
<1> QED BY <1>3 DEF t

LEMMA TailDistinct ==
    ASSUME NEW s \in Seq(Events), s # <<>>,
           \A i, j \in DOMAIN s : i # j => s[i] # s[j]
    PROVE  \A i, j \in DOMAIN Tail(s) : i # j => Tail(s)[i] # Tail(s)[j]
<1> DEFINE t == Tail(s)
<1>1. /\ DOMAIN t \subseteq Int
      /\ \A i \in DOMAIN t : i + 1 \in DOMAIN s /\ t[i] = s[i + 1]
  OBVIOUS
<1> HIDE DEF t
<1> SUFFICES ASSUME NEW i \in DOMAIN t, NEW j \in DOMAIN t, i # j
             PROVE  t[i] # t[j]
  BY DEF t
<1>2. i + 1 # j + 1
  BY <1>1
<1> QED BY <1>1, <1>2

-----------------------------------------------------------------------------
(***************************************************************************)
(* ScheduleInv, action by action.                                          *)
(***************************************************************************)
LEMMA ScheduleInit == Init => ScheduleInv
<1> SUFFICES ASSUME Init PROVE ScheduleInv
  OBVIOUS
<1>1. \A s \in {m_pending_events, batch, tmps} :
          s \in Seq(Events) /\ DOMAIN s = {} /\ Range(s) = {}
  <2>1. <<>> \in Seq(Events) /\ DOMAIN <<>> = {}
    OBVIOUS
  <2>2. Range(<<>>) = {}
    BY <2>1 DEF Range
  <2> QED BY <2>1, <2>2 DEF Init
<1>2. TypeOK
  BY <1>1, TicksAre, NoneAssumption DEF Init, TypeOK
<1>3. Pending = {} /\ armed = None /\ Past # None
  BY <1>1, NoneAssumption DEF Init, Pending, Past
<1> QED BY <1>1, <1>2, <1>3 DEF Init, ScheduleInv, Threads

LEMMA TickSchedule ==
    ASSUME ScheduleInv, Tick
    PROVE  ScheduleInv'
<1> USE DEF ScheduleInv
<1>1. UNCHANGED <<m_pending_events, m_is_cancled, interval, loop_pc, batch, tmps,
                  running, reset_pc, deleting, life, erased, late>>
  BY DEF Tick, loopVars, historyVars
<1>2. due' = [e \in Events |-> Less(due[e])] /\ head' = [t \in Threads |-> Less(head[t])]
  BY DEF Tick
<1>3. due' \in [Events -> Ticks] /\ head' \in [Threads -> Ticks]
  BY <1>2, TicksAre DEF TypeOK
<1>4. armed' \in Ticks \cup {None} /\ armed' # Past
  <2>1. CASE armed \in {None, 0}
    BY <2>1 DEF Tick, TypeOK
  <2>2. CASE armed \notin {None, 0}
    <3>1. armed \in Ticks /\ armed # Past /\ armed # 0 /\ armed' = armed - 1
      BY <2>2 DEF Tick, TypeOK
    <3>2. Less(armed) = armed - 1 /\ Less(armed) \in Ticks
      BY <3>1, TicksAre DEF Less
    <3>3. armed \in Int /\ armed >= Past
      BY <3>1, TicksAre
    <3> QED BY <3>1, <3>2, <3>3 DEF Past
  <2> QED BY <2>1, <2>2
<1>5. Sorted(m_pending_events', due')
  <2> SUFFICES ASSUME NEW i \in DOMAIN m_pending_events,
                      NEW j \in DOMAIN m_pending_events, i < j
               PROVE  /\ m_pending_events[i] # m_pending_events[j]
                      /\ due'[m_pending_events[i]] <= due'[m_pending_events[j]]
    BY <1>1 DEF Sorted
  <2> DEFINE a == m_pending_events[i]
             b == m_pending_events[j]
  <2>1. a \in Events /\ b \in Events /\ a # b /\ due[a] <= due[b]
    BY DEF TypeOK
  <2>2. due[a] \in Int /\ due[b] \in Int /\ due[a] >= Past /\ due[b] >= Past
    BY <2>1, TicksAre DEF TypeOK
  <2>3. due'[a] = Less(due[a]) /\ due'[b] = Less(due[b])
    BY <1>2, <2>1
  <2> HIDE DEF a, b
  <2>4. Less(due[a]) <= Less(due[b])
    BY <2>1, <2>2 DEF Less, Past
  <2> QED BY <2>1, <2>3, <2>4 DEF a, b
<1>6. TypeOK'
  BY <1>1, <1>3, <1>4, <1>5 DEF TypeOK, Sorted
<1> QED BY <1>1, <1>4, <1>6 DEF Pending

LEMMA AddSchedule ==
    ASSUME ScheduleInv, NEW t \in Threads, NEW e \in Events,
           NEW ticks \in Intervals, Add(t, e, ticks)
    PROVE  ScheduleInv'
<1> USE DEF ScheduleInv
<1>1. UNCHANGED <<armed, loop_pc, batch, tmps, running, head, deleting, late>>
      /\ erased' = erased \ {e}
  BY DEF Add, loopVars
<1>2. e \notin Pending /\ e \notin Range(batch) /\ e \notin Range(tmps) /\ ticks \in Ticks
  BY TicksAre DEF Add
<1>3. /\ m_pending_events' = Inserted(e, ticks) /\ due' = [due EXCEPT ![e] = ticks]
      /\ m_is_cancled' \in [Events -> BOOLEAN]
      /\ interval' \in [Events -> Intervals \cup {0}]
      /\ life' = [life EXCEPT ![e] = "live"]
      /\ reset_pc' \in [Threads -> {"none", "copy", "set"}]
      /\ \A u \in Threads : u # t => reset_pc'[u] = reset_pc[u]
      /\ deleting[t] = None
  BY DEF Add, Free, TypeOK
<1>4. /\ m_pending_events' \in Seq(Events) /\ Sorted(m_pending_events', due')
      /\ Range(m_pending_events') = Pending \cup {e}
  BY <1>2, <1>3, InsertedIs
<1>5. due' \in [Events -> Ticks]
  BY <1>2, <1>3 DEF TypeOK
<1>6. life' \in [Events -> {"unused", "live", "fired", "deleted"}]
      /\ life'[e] = "live" /\ \A d \in Events : d # e => life'[d] = life[d]
  BY <1>3 DEF TypeOK
<1>7. TypeOK'
  BY <1>1, <1>3, <1>4, <1>5, <1>6 DEF TypeOK, Sorted
<1>8. Pending \subseteq Events /\ Range(batch) \subseteq Events /\ Range(tmps) \subseteq Events
  BY DEF TypeOK, Pending, Range
<1>9. \A d \in Pending' : life'[d] = "live"
  BY <1>4, <1>6, <1>8 DEF Pending
<1>10. \A d \in Range(batch') : life'[d] # "unused" /\ (d \in Pending' => d \in Repeating)
  BY <1>1, <1>2, <1>4, <1>6, <1>8 DEF Pending
<1>11. \A d \in Range(tmps') :
           d \in Range(batch') /\ d \notin Pending' /\ life'[d] = "live"
  BY <1>1, <1>2, <1>4, <1>6, <1>8 DEF Pending
<1>12. \A u \in Threads : deleting'[u] # None => reset_pc'[u] = "none"
  BY <1>1, <1>3
<1> QED BY <1>1, <1>7, <1>9, <1>10, <1>11, <1>12

LEMMA DelMarkSchedule ==
    ASSUME ScheduleInv, NEW t \in Threads, NEW e \in Events, DelMark(t, e)
    PROVE  ScheduleInv'
<1> USE DEF ScheduleInv
<1>1. UNCHANGED <<m_pending_events, due, interval, armed, loop_pc, batch, tmps,
                  running, reset_pc, head, life, erased>>
      /\ late' \subseteq late \cup {e}
  BY DEF DelMark, loopVars
<1>2. /\ m_is_cancled' \in [Events -> BOOLEAN]
      /\ deleting' = [deleting EXCEPT ![t] = e]
      /\ reset_pc[t] = "none" /\ (t = "loop" => loop_pc \in {"task", "run"})
  BY DEF DelMark, Free, TypeOK
<1>3. deleting' \in [Threads -> Events \cup {None}]
      /\ \A u \in Threads : u # t => deleting'[u] = deleting[u]
  BY <1>2 DEF TypeOK
<1>4. TypeOK'
  BY <1>1, <1>2, <1>3 DEF TypeOK
<1>5. \A u \in Threads : deleting'[u] # None => reset_pc'[u] = "none"
  BY <1>1, <1>2, <1>3
<1>6. deleting'["loop"] # None => loop_pc' \in {"task", "run"}
  BY <1>1, <1>2, <1>3 DEF Threads
<1> QED BY <1>1, <1>4, <1>5, <1>6 DEF Pending

\* Nobody deletes an event that onTimer() is about to repeat.
TmpsAreFree == \A t \in Threads : deleting[t] \notin Range(tmps)

LEMMA DelEraseSchedule ==
    ASSUME ScheduleInv, TmpsAreFree, NEW t \in Threads, DelErase(t)
    PROVE  ScheduleInv'
<1> USE DEF ScheduleInv
<1> DEFINE e == deleting[t]
<1>1. UNCHANGED <<m_is_cancled, due, interval, armed, loop_pc, batch, tmps,
                  running, reset_pc, head, late>>
  BY DEF DelErase, loopVars
<1>2. /\ e \in Events /\ life' = [life EXCEPT ![e] = "deleted"]
      /\ erased' \subseteq erased \cup Pending
      /\ deleting' = [deleting EXCEPT ![t] = None]
      /\ m_pending_events' \in Seq(Events) /\ Sorted(m_pending_events', due)
      /\ Range(m_pending_events') \subseteq Pending \ {e}
  BY DelEraseIs
<1>3. e \notin Range(tmps)
  BY DEF TmpsAreFree
<1> HIDE DEF e
<1>4. life' \in [Events -> {"unused", "live", "fired", "deleted"}]
      /\ life'[e] = "deleted" /\ \A d \in Events : d # e => life'[d] = life[d]
  BY <1>2 DEF TypeOK
<1>5. deleting' \in [Threads -> Events \cup {None}]
      /\ \A u \in Threads : deleting'[u] # None => deleting'[u] = deleting[u]
  BY <1>2 DEF TypeOK
<1>7. Pending \subseteq Events /\ Range(batch) \subseteq Events /\ Range(tmps) \subseteq Events
  BY DEF TypeOK, Pending, Range
<1>6. TypeOK'
  BY <1>1, <1>2, <1>4, <1>5, <1>7 DEF TypeOK, Sorted
<1>8. \A d \in Pending' : life'[d] = "live"
  BY <1>2, <1>4, <1>7 DEF Pending
<1>9. \A d \in Range(batch') : life'[d] # "unused" /\ (d \in Pending' => d \in Repeating)
  BY <1>1, <1>2, <1>4, <1>7 DEF Pending
<1>10. \A d \in Range(tmps') :
           d \in Range(batch') /\ d \notin Pending' /\ life'[d] = "live"
  BY <1>1, <1>2, <1>3, <1>4, <1>7 DEF Pending
<1>11. \A u \in Threads : deleting'[u] # None => reset_pc'[u] = "none"
  BY <1>1, <1>5
<1>12. deleting'["loop"] # None => loop_pc' \in {"task", "run"}
  BY <1>1, <1>5 DEF Threads
<1> QED BY <1>1, <1>6, <1>8, <1>9, <1>10, <1>11, <1>12

LEMMA CollectSchedule ==
    ASSUME ScheduleInv, Collect
    PROVE  ScheduleInv'
<1> USE DEF ScheduleInv
<1>1. UNCHANGED <<m_is_cancled, due, interval, armed, running, reset_pc, head,
                  deleting, life, erased, late>>
      /\ loop_pc = "collect" /\ loop_pc' = "repeat"
  BY DEF Collect, threadVars, historyVars
<1>2. m_pending_events \in Seq(Events) /\ Sorted(m_pending_events, due)
  BY DEF TypeOK, Sorted
<1>3. PICK n \in 0 .. Len(m_pending_events) :
          /\ batch' = SubSeq(m_pending_events, 1, n)
          /\ tmps' = SubSeq(m_pending_events, 1, n)
          /\ m_pending_events' =
                 SubSeq(m_pending_events, n + 1, Len(m_pending_events))
  BY CollectIs
<1>4. /\ batch' \in Seq(Events) /\ m_pending_events' \in Seq(Events)
      /\ \A i, j \in DOMAIN batch' : i # j => batch'[i] # batch'[j]
      /\ Sorted(m_pending_events', due)
      /\ Range(batch') \cup Range(m_pending_events') = Pending
      /\ Range(batch') \cap Range(m_pending_events') = {}
  BY <1>2, <1>3, SplitSorted DEF Pending
<1>5. tmps' = batch'
  BY <1>3
<1>6. TypeOK'
  BY <1>1, <1>4, <1>5 DEF TypeOK, Sorted
<1>7. \A e \in Pending' : life'[e] = "live"
  BY <1>1, <1>4 DEF Pending
<1>8. \A e \in Range(batch') : life'[e] = "live" /\ e \notin Pending'
  BY <1>1, <1>4 DEF Pending
<1>9. deleting'["loop"] = None
  BY <1>1
<1> QED BY <1>1, <1>4, <1>5, <1>6, <1>7, <1>8, <1>9

LEMMA RepeatSchedule ==
    ASSUME ScheduleInv, Repeat
    PROVE  ScheduleInv'
<1> USE DEF ScheduleInv
<1>1. UNCHANGED <<interval, armed, loop_pc, batch, running, reset_pc, head,
                  deleting, life, erased, late>>
  BY DEF Repeat, threadVars, historyVars
<1>2. tmps # <<>> /\ tmps \in Seq(Events) /\ tmps' = Tail(tmps) /\ loop_pc = "repeat"
  BY DEF Repeat, TypeOK
<1>3. PICK e \in Events : e = Head(tmps) /\ e \in Range(tmps)
  BY <1>2, HeadTailRange
<1>4. tmps' \in Seq(Events) /\ Range(tmps') \subseteq Range(tmps)
  BY <1>2, HeadTailRange
<1>5. /\ \A i \in DOMAIN tmps' : i + 1 \in DOMAIN tmps /\ tmps'[i] = tmps[i + 1]
      /\ DOMAIN tmps' \subseteq Int /\ 1 \in DOMAIN tmps /\ e = tmps[1]
      /\ \A i \in DOMAIN tmps' : i + 1 # 1
  BY <1>2, <1>3
<1>6. \A i, j \in DOMAIN tmps' : i # j => tmps'[i] # tmps'[j]
  BY <1>2, TailDistinct
<1>7. e \notin Range(tmps')
  BY <1>5 DEF Range
<1>8. interval[e] \in Ticks /\ e \notin Pending /\ life[e] = "live"
  BY <1>3, TicksAre DEF TypeOK
<1>9. CASE e \in Repeating
  <2>1. /\ m_pending_events' = Inserted(e, interval[e])
        /\ due' = [due EXCEPT ![e] = interval[e]]
        /\ m_is_cancled' = [m_is_cancled EXCEPT ![e] = FALSE]
    BY <1>3, <1>9 DEF Repeat
  <2>2. /\ m_pending_events' \in Seq(Events) /\ Sorted(m_pending_events', due')
        /\ Range(m_pending_events') = Pending \cup {e}
    BY <1>8, <2>1, InsertedIs
  <2>3. due' \in [Events -> Ticks] /\ m_is_cancled' \in [Events -> BOOLEAN]
    BY <1>8, <2>1 DEF TypeOK
  <2>4. TypeOK'
    BY <1>1, <1>4, <2>2, <2>3 DEF TypeOK, Sorted
  <2>5. \A d \in Pending' : life'[d] = "live"
    BY <1>1, <1>8, <2>2 DEF Pending
  <2>6. \A d \in Range(batch') : life'[d] # "unused" /\ (d \in Pending' => d \in Repeating)
    BY <1>1, <1>9, <2>2 DEF Pending
  <2>7. \A d \in Range(tmps') :
            d \in Range(batch') /\ d \notin Pending' /\ life'[d] = "live"
    BY <1>1, <1>4, <1>7, <2>2 DEF Pending
  <2> QED BY <1>1, <1>2, <1>6, <2>4, <2>5, <2>6, <2>7
<1>10. CASE e \notin Repeating
  <2>1. UNCHANGED <<m_pending_events, due, m_is_cancled>>
    BY <1>3, <1>10 DEF Repeat
  <2>2. TypeOK'
    BY <1>1, <1>4, <2>1 DEF TypeOK
  <2> QED BY <1>1, <1>2, <1>4, <1>6, <2>1, <2>2 DEF Pending
<1> QED BY <1>9, <1>10

LEMMA RunTaskSchedule ==
    ASSUME ScheduleInv, RunTask
    PROVE  ScheduleInv'
<1> USE DEF ScheduleInv
<1>1. UNCHANGED <<m_pending_events, m_is_cancled, due, interval, armed, tmps,
                  reset_pc, head, deleting, erased>>
      /\ loop_pc = "tasks" /\ loop_pc' = "task" /\ batch # <<>> /\ tmps = <<>>
      /\ late' \subseteq late
  BY DEF RunTask, eventVars, threadVars
<1>2. PICK e \in Events : e = Head(batch) /\ e \in Range(batch)
  BY <1>1, HeadTailRange DEF TypeOK
<1>3. batch' = Tail(batch) /\ running' = e
      /\ life' = IF life[e] = "live" /\ e \notin Repeating
                   THEN [life EXCEPT ![e] = "fired"] ELSE life
  BY <1>2 DEF RunTask
<1>4. batch' \in Seq(Events) /\ Range(batch') \subseteq Range(batch)
  BY <1>1, <1>3, HeadTailRange DEF TypeOK
<1>5. life' \in [Events -> {"unused", "live", "fired", "deleted"}]
      /\ \A d \in Events : life'[d] # life[d] => d = e /\ life'[d] = "fired" /\ d \notin Repeating
  BY <1>3 DEF TypeOK
<1>6. TypeOK'
  BY <1>1, <1>3, <1>4, <1>5 DEF TypeOK
<1>7. Pending \subseteq Events /\ Range(batch) \subseteq Events
  BY DEF TypeOK, Pending, Range
<1>8. Pending' = Pending
  BY <1>1 DEF Pending
<1>9. \A d \in Pending' : life'[d] = "live"
  BY <1>2, <1>5, <1>7, <1>8
<1>10. \A d \in Range(batch') : life'[d] # "unused" /\ (d \in Pending' => d \in Repeating)
  BY <1>4, <1>5, <1>7, <1>8
<1>11. Range(tmps') = {} /\ \A i, j \in DOMAIN tmps' : i # j => tmps'[i] # tmps'[j]
  BY <1>1 DEF Range
<1>12. \A i, j \in DOMAIN batch' : i # j => batch'[i] # batch'[j]
  <2>1. batch \in Seq(Events) /\ \A i, j \in DOMAIN batch : i # j => batch[i] # batch[j]
    BY DEF TypeOK
  <2> QED BY <1>1, <1>3, <2>1, TailDistinct
<1> QED BY <1>1, <1>6, <1>9, <1>10, <1>11, <1>12

\* The steps that move no event and change no clock.
LEMMA QuietSchedule ==
    ASSUME ScheduleInv,
           \/ \E t \in Threads : ResetCopy(t) \/ ResetSet(t)
           \/ PollTimer \/ PollOther \/ StartReset \/ TaskDone \/ OnTimerDone
           \/ IterationDone
           \/ \E e \in Events : New(e)
           \/ UNCHANGED vars
    PROVE  ScheduleInv'
<1> USE DEF ScheduleInv
<1>1. UNCHANGED <<m_pending_events, m_is_cancled, due, interval, batch, tmps,
                  deleting, erased, late>>
  BY DEF ResetCopy, ResetSet, PollTimer, PollOther, StartReset, TaskDone,
         OnTimerDone, IterationDone, New, eventVars, loopVars, threadVars,
         historyVars, vars
<1>2. loop_pc' \in {"poll", "collect", "repeat", "tasks", "task", "run"}
      /\ (loop_pc' # loop_pc => tmps = <<>> /\ deleting["loop"] = None)
  BY DEF ResetCopy, ResetSet, PollTimer, PollOther, StartReset, TaskDone,
         OnTimerDone, IterationDone, New, Free, loopVars, vars, TypeOK
<1>3. armed' \in Ticks \cup {None} /\ armed' # Past
  <2>1. ASSUME NEW t \in Threads, ResetSet(t) PROVE armed' \in Ticks /\ armed' # Past
    <3>1. head[t] \in Ticks /\ armed' = Interval(head[t])
      BY <2>1 DEF ResetSet, TypeOK
    <3>2. armed' \in Ticks /\ armed' > 0
      BY <3>1, TicksAre
    <3> QED BY <3>2, TicksAre DEF Past
  <2>2. Past # None
    BY NoneAssumption DEF Past
  <2> QED
    BY <2>1, <2>2
       DEF ResetCopy, PollTimer, PollOther, StartReset, TaskDone, OnTimerDone,
           IterationDone, New, vars, TypeOK
<1>4. running' \in Events \cup {None}
  BY DEF ResetCopy, ResetSet, PollTimer, PollOther, StartReset, TaskDone,
         OnTimerDone, IterationDone, New, loopVars, vars, TypeOK
<1>5. /\ reset_pc' \in [Threads -> {"none", "copy", "set"}]
      /\ head' \in [Threads -> Ticks]
      /\ \A t \in Threads : deleting[t] # None => reset_pc'[t] = "none"
  <2>1. ASSUME NEW t \in Threads, ResetCopy(t)
        PROVE  /\ reset_pc' \in [Threads -> {"none", "copy", "set"}]
               /\ head' \in [Threads -> Ticks]
               /\ deleting[t] = None
               /\ \A u \in Threads : u # t => reset_pc'[u] = reset_pc[u]
    <3>1. CASE m_pending_events = <<>>
      BY <2>1, <3>1 DEF ResetCopy, TypeOK
    <3>2. CASE m_pending_events # <<>>
      <4>1. Head(m_pending_events) \in Events
        BY <3>2, HeadTailRange DEF TypeOK
      <4>2. PICK n \in Ticks : n = due[Head(m_pending_events)]
        BY <4>1 DEF TypeOK
      <4>3. /\ reset_pc' = [reset_pc EXCEPT ![t] = "set"]
            /\ head' = [head EXCEPT ![t] = n] /\ reset_pc[t] = "copy"
        BY <2>1, <3>2, <4>2 DEF ResetCopy
      <4> QED BY <4>3 DEF TypeOK
    <3> QED BY <3>1, <3>2
  <2>2. ASSUME NEW t \in Threads, ResetSet(t)
        PROVE  /\ reset_pc' \in [Threads -> {"none", "copy", "set"}]
               /\ head' = head
               /\ deleting[t] = None
               /\ \A u \in Threads : u # t => reset_pc'[u] = reset_pc[u]
    BY <2>2 DEF ResetSet, TypeOK
  <2>3. ASSUME StartReset
        PROVE  /\ reset_pc' \in [Threads -> {"none", "copy", "set"}]
               /\ head' = head
               /\ deleting["loop"] = None
               /\ \A u \in Threads : u # "loop" => reset_pc'[u] = reset_pc[u]
    BY <2>3 DEF StartReset, TypeOK
  <2>4. ASSUME \/ PollTimer \/ PollOther \/ TaskDone \/ OnTimerDone \/ IterationDone
               \/ (\E e \in Events : New(e)) \/ UNCHANGED vars
        PROVE  UNCHANGED <<reset_pc, head>>
    BY <2>4
       DEF PollTimer, PollOther, TaskDone, OnTimerDone, IterationDone, New,
           threadVars, vars
  <2> QED BY <2>1, <2>2, <2>3, <2>4 DEF TypeOK
<1>6. /\ life' \in [Events -> {"unused", "live", "fired", "deleted"}]
      /\ \A e \in Events : life'[e] # life[e] => life[e] # "live" /\ e \notin Range(batch)
  BY DEF ResetCopy, ResetSet, PollTimer, PollOther, StartReset, TaskDone,
         OnTimerDone, IterationDone, New, vars, TypeOK
<1>7. TypeOK'
  BY <1>1, <1>2, <1>3, <1>4, <1>5, <1>6 DEF TypeOK
<1>8. Pending' = Pending /\ Pending \subseteq Events
      /\ Range(batch) \subseteq Events /\ Range(tmps) \subseteq Events
  BY <1>1 DEF TypeOK, Pending, Range
<1>9. /\ \A e \in Pending' : life'[e] = "live"
      /\ \A e \in Range(tmps') : e \in Range(batch') /\ e \notin Pending' /\ life'[e] = "live"
  BY <1>1, <1>6, <1>8
<1>10. \A e \in Range(batch') : life'[e] # "unused" /\ (e \in Pending' => e \in Repeating)
  BY <1>1, <1>6, <1>8
<1>11. /\ tmps' # <<>> => loop_pc' = "repeat"
       /\ deleting'["loop"] # None => loop_pc' \in {"task", "run"}
  BY <1>1, <1>2
<1> QED BY <1>1, <1>3, <1>5, <1>7, <1>9, <1>10, <1>11

LEMMA ScheduleStep == ScheduleInv /\ TmpsAreFree /\ [Next]_vars => ScheduleInv'
<1> SUFFICES ASSUME ScheduleInv, TmpsAreFree, [Next]_vars PROVE ScheduleInv'
  OBVIOUS
<1> QED
  BY TickSchedule, AddSchedule, DelMarkSchedule, DelEraseSchedule,
     CollectSchedule, RepeatSchedule, RunTaskSchedule, QuietSchedule
     DEF Next, LoopStep, ThreadStep

-----------------------------------------------------------------------------
(***************************************************************************)
(* An event that is being deleted: another thread's is not in the batch,   *)
(* and the loop deletes none while onTimer() takes events out and puts     *)
(* them back.                                                              *)
(***************************************************************************)

\* Other threads delete pending events only; the loop's coroutines any.
Undisturbed == Remotes = {} \/ RemoteDeletable \subseteq {"pending"}

LEMMA DeletionsFree == ASSUME ScheduleInv, DeletionsInv PROVE TmpsAreFree
<1> SUFFICES ASSUME NEW t \in Threads, deleting[t] \in Range(tmps) PROVE FALSE
  BY DEF TmpsAreFree
<1>1. deleting[t] \in Range(batch) /\ deleting[t] # None /\ tmps # <<>>
  BY NoneAssumption DEF ScheduleInv, TypeOK, Range
<1>2. t = "loop"
  BY <1>1 DEF DeletionsInv
<1> QED BY <1>1, <1>2 DEF ScheduleInv

LEMMA DeletionsStep ==
    ASSUME Undisturbed, ScheduleInv, DeletionsInv, [Next]_vars
    PROVE  DeletionsInv'
<1> USE DEF ScheduleInv
<1>1. TmpsAreFree
  BY DeletionsFree
<1>2. ASSUME deleting' = deleting,
             \A t \in Threads : deleting[t] # None =>
                 /\ life'[deleting[t]] \in {"live", "fired"}
                 /\ deleting[t] \in Pending' =>
                        deleting[t] \in Pending
                        /\ m_is_cancled'[deleting[t]] = m_is_cancled[deleting[t]]
                 /\ deleting[t] \in Range(batch') =>
                        deleting[t] \in Range(batch)
                        /\ (deleting[t] \in late => deleting[t] \in late')
      PROVE  DeletionsInv'
  BY <1>2 DEF DeletionsInv
<1>3. ASSUME NEW t \in Threads, NEW e \in Events, NEW ticks \in Intervals, Add(t, e, ticks)
      PROVE  DeletionsInv'
  <2>1. e \notin Pending /\ ticks \in Ticks /\ life[e] = "unused"
    BY <1>3, TicksAre DEF Add
  <2>2. /\ m_pending_events' = Inserted(e, ticks) /\ UNCHANGED <<deleting, batch, late>>
        /\ \A d \in Events : d # e => m_is_cancled'[d] = m_is_cancled[d]
        /\ \A d \in Events : d # e => life'[d] = life[d]
    BY <1>3 DEF Add, loopVars, TypeOK
  <2>3. Pending' = Pending \cup {e}
    BY <2>1, <2>2, InsertedIs DEF Pending
  <2>4. \A u \in Threads : deleting[u] # None =>
            /\ deleting[u] \in Events /\ deleting[u] # e
            /\ life[deleting[u]] \in {"live", "fired"}
    BY <2>1 DEF DeletionsInv, TypeOK
  <2> QED BY <1>2, <2>2, <2>3, <2>4
<1>4. ASSUME NEW t \in Threads, NEW e \in Events, DelMark(t, e) PROVE DeletionsInv'
  <2>1. /\ UNCHANGED <<m_pending_events, batch, life>> /\ \A u \in Threads : deleting[u] # e
        /\ m_is_cancled' = [m_is_cancled EXCEPT ![e] = TRUE]
        /\ deleting' = [deleting EXCEPT ![t] = e]
        /\ late \subseteq late' /\ life[e] \in {"live", "fired"}
        /\ Where(e) = "batch" => e \in late'
        /\ t # "loop" => Where(e) \in RemoteDeletable
    BY <1>4 DEF DelMark, loopVars
  <2>2. e \in Range(batch) => t = "loop" /\ e \in late'
    <3> SUFFICES ASSUME e \in Range(batch) PROVE t = "loop" /\ e \in late'
      OBVIOUS
    <3>1. Where(e) = "batch"
      BY DEF Where
    <3>2. t # "loop" => Remotes # {}
      BY DEF Threads
    <3> QED BY <2>1, <3>1, <3>2 DEF Undisturbed
  <2>3. /\ deleting'[t] = e /\ \A u \in Threads : u # t => deleting'[u] = deleting[u]
        /\ m_is_cancled'[e] /\ \A d \in Events : d # e => m_is_cancled'[d] = m_is_cancled[d]
        /\ \A u \in Threads : deleting[u] \in Events \cup {None}
    BY <2>1 DEF TypeOK
  <2>4. Pending' = Pending /\ Range(batch') = Range(batch)
    BY <2>1 DEF Pending
  <2>5. ASSUME NEW u \in Threads, deleting'[u] # None
        PROVE  /\ life'[deleting'[u]] \in {"live", "fired"}
               /\ deleting'[u] \in Pending' => m_is_cancled'[deleting'[u]]
               /\ deleting'[u] \in Range(batch') => u = "loop" /\ deleting'[u] \in late'
    <3>1. CASE u = t
      BY <2>1, <2>2, <2>3, <2>4, <3>1
    <3>2. CASE u # t
      <4>1. deleting'[u] = deleting[u] /\ deleting[u] # e /\ deleting[u] \in Events
        BY <2>1, <2>3, <2>5, <3>2
      <4> QED BY <2>1, <2>3, <2>4, <2>5, <4>1 DEF DeletionsInv
    <3> QED BY <3>1, <3>2
  <2>6. ASSUME NEW u \in Threads, NEW v \in Threads, u # v, deleting'[u] # None
        PROVE  deleting'[u] # deleting'[v]
    BY <2>1, <2>3, <2>6 DEF DeletionsInv
  <2> QED BY <2>5, <2>6 DEF DeletionsInv
<1>5. ASSUME NEW t \in Threads, DelErase(t) PROVE DeletionsInv'
  <2>1. deleting[t] # None
    BY <1>5 DEF DelErase
  <2>2. /\ UNCHANGED <<m_is_cancled, batch, late>>
        /\ deleting' = [deleting EXCEPT ![t] = None]
        /\ life' = [life EXCEPT ![deleting[t]] = "deleted"]
        /\ Pending' \subseteq Pending
    BY <1>5, <2>1, DelEraseIs DEF DelErase, loopVars, Pending
  <2>3. \A u \in Threads : deleting'[u] = IF u = t THEN None ELSE deleting[u]
    BY <2>2 DEF TypeOK
  <2>4. ASSUME NEW u \in Threads, deleting'[u] # None
        PROVE  /\ life'[deleting'[u]] \in {"live", "fired"}
               /\ deleting'[u] \in Pending' => m_is_cancled'[deleting'[u]]
               /\ deleting'[u] \in Range(batch') => u = "loop" /\ deleting'[u] \in late'
    <3>1. u # t /\ deleting'[u] = deleting[u] /\ deleting[u] # None
          /\ deleting[u] \in Events
      BY <2>3, <2>4 DEF TypeOK
    <3>2. deleting[u] # deleting[t]
      BY <2>1, <3>1 DEF DeletionsInv
    <3>3. life'[deleting[u]] = life[deleting[u]]
      BY <2>2, <3>1, <3>2 DEF TypeOK
    <3> QED BY <2>2, <3>1, <3>3 DEF DeletionsInv
  <2>5. ASSUME NEW u \in Threads, NEW v \in Threads, u # v, deleting'[u] # None
        PROVE  deleting'[u] # deleting'[v]
    BY <2>3, <2>5 DEF DeletionsInv
  <2> QED BY <2>4, <2>5 DEF DeletionsInv
<1>6. ASSUME Collect PROVE DeletionsInv'
  <2>1. UNCHANGED <<deleting, m_is_cancled, life, late>>
    BY <1>6 DEF Collect, threadVars, historyVars
  <2>2. PICK n \in 0 .. Len(m_pending_events) :
            /\ batch' = SubSeq(m_pending_events, 1, n)
            /\ m_pending_events' =
                   SubSeq(m_pending_events, n + 1, Len(m_pending_events))
            /\ \A i \in 1 .. n : Collectable(m_pending_events[i])
    BY <1>6, CollectIs
  <2>3. m_pending_events \in Seq(Events) /\ Sorted(m_pending_events, due)
    BY DEF TypeOK, Sorted
  <2>4. /\ Range(batch') = {m_pending_events[i] : i \in 1 .. n}
        /\ Range(batch') \cup Pending' = Pending
    BY <2>2, <2>3, SplitSorted DEF Pending
  <2>5. \A e \in Range(batch') : ~m_is_cancled[e] /\ e \in Pending
    BY <2>2, <2>4 DEF Collectable
  <2>6. \A t \in Threads : deleting[t] # None => deleting[t] \notin Range(batch')
    BY <2>5 DEF DeletionsInv
  <2>7. \A t \in Threads : deleting[t] # None => life[deleting[t]] \in {"live", "fired"}
    BY DEF DeletionsInv
  <2> QED BY <1>2, <2>1, <2>4, <2>6, <2>7
<1>7. ASSUME Repeat PROVE DeletionsInv'
  <2>1. tmps # <<>> /\ tmps \in Seq(Events) /\ UNCHANGED <<deleting, batch, life, late>>
    BY <1>7 DEF Repeat, TypeOK, threadVars, historyVars
  <2>2. PICK e \in Events : e = Head(tmps) /\ e \in Range(tmps)
    BY <2>1, HeadTailRange
  <2>3. e \notin Pending /\ interval[e] \in Ticks
    BY <2>2, TicksAre DEF TypeOK
  <2>4. \A u \in Threads : deleting[u] # None =>
            /\ deleting[u] \in Events /\ deleting[u] # e
            /\ life[deleting[u]] \in {"live", "fired"}
    BY <1>1, <2>2 DEF DeletionsInv, TmpsAreFree, TypeOK
  <2>5. /\ Pending' \subseteq Pending \cup {e}
        /\ \A d \in Events : d # e => m_is_cancled'[d] = m_is_cancled[d]
    <3>1. CASE e \in Repeating
      <4>1. /\ m_pending_events' = Inserted(e, interval[e])
            /\ m_is_cancled' = [m_is_cancled EXCEPT ![e] = FALSE]
        BY <1>7, <2>2, <3>1 DEF Repeat
      <4> QED BY <2>3, <4>1, InsertedIs DEF Pending, TypeOK
    <3>2. CASE e \notin Repeating
      BY <1>7, <2>2, <3>2 DEF Repeat, Pending
    <3> QED BY <3>1, <3>2
  <2> QED BY <1>2, <2>1, <2>4, <2>5
<1>8. ASSUME RunTask PROVE DeletionsInv'
  <2>1. /\ UNCHANGED <<m_pending_events, m_is_cancled, deleting>>
        /\ batch # <<>> /\ batch' = Tail(batch) /\ loop_pc = "tasks"
    BY <1>8 DEF RunTask, eventVars, threadVars
  <2>2. Range(batch') \subseteq Range(batch)
    BY <2>1, HeadTailRange DEF TypeOK
  <2>3. \A t \in Threads : deleting[t] # None => deleting[t] \notin Range(batch)
    BY <2>1 DEF DeletionsInv
  <2>4. Head(batch) \in Events
    BY <2>1, HeadTailRange DEF TypeOK
  <2>5. \A d \in Events : life'[d] = life[d] \/ life'[d] = "fired"
    BY <1>8, <2>4 DEF RunTask, TypeOK
  <2>6. \A t \in Threads : deleting[t] # None =>
            deleting[t] \in Events /\ life[deleting[t]] \in {"live", "fired"}
    BY DEF DeletionsInv, TypeOK
  <2>7. Pending' = Pending
    BY <2>1 DEF Pending
  <2> QED BY <1>2, <2>1, <2>2, <2>3, <2>5, <2>6, <2>7
<1>9. ASSUME \/ \E t \in Threads : ResetCopy(t) \/ ResetSet(t)
             \/ PollTimer \/ PollOther \/ StartReset \/ TaskDone \/ OnTimerDone
             \/ IterationDone \/ Tick
             \/ \E e \in Events : New(e)
             \/ UNCHANGED vars
      PROVE  DeletionsInv'
  <2>1. UNCHANGED <<m_pending_events, m_is_cancled, batch, deleting, late>>
    BY <1>9
       DEF ResetCopy, ResetSet, PollTimer, PollOther, StartReset, TaskDone,
           OnTimerDone, IterationDone, Tick, New, eventVars, loopVars, threadVars,
           historyVars, vars
  <2>2. \A t \in Threads : deleting[t] # None => life'[deleting[t]] = life[deleting[t]]
    BY <1>9
       DEF ResetCopy, ResetSet, PollTimer, PollOther, StartReset, TaskDone,
           OnTimerDone, IterationDone, Tick, New, vars, TypeOK
  <2>3. \A t \in Threads : deleting[t] # None => life[deleting[t]] \in {"live", "fired"}
    BY DEF DeletionsInv
  <2> QED BY <1>2, <2>1, <2>2, <2>3 DEF Pending
<1> HIDE DEF ScheduleInv
<1> QED
  BY <1>3, <1>4, <1>5, <1>6, <1>7, <1>8, <1>9 DEF Next, LoopStep, ThreadStep

(***************************************************************************)
(* When only pending events are deleted, an event that is being deleted    *)
(* stays where it is, and its deletion finds it.                           *)
(***************************************************************************)
LEMMA PendingStep ==
    ASSUME Deletable \cup RemoteDeletable \subseteq {"pending"},
           ScheduleInv, DeletionsInv, PendingInv, [Next]_vars
    PROVE  PendingInv'
<1> USE DEF ScheduleInv, OthersKept
<1>1. ASSUME deleting' = deleting, erased' \subseteq erased,
             \A t \in Threads : deleting[t] # None => deleting[t] \in Pending'
      PROVE  PendingInv'
  BY <1>1 DEF PendingInv
<1>2. ASSUME deleting' = deleting, erased' \subseteq erased, Pending \subseteq Pending'
      PROVE  PendingInv'
  BY <1>1, <1>2 DEF PendingInv
<1>3. ASSUME NEW t \in Threads, NEW e \in Events, NEW ticks \in Intervals, Add(t, e, ticks)
      PROVE  PendingInv'
  <2>1. e \notin Pending /\ ticks \in Ticks
    BY <1>3, TicksAre DEF Add
  <2>2. /\ m_pending_events' = Inserted(e, ticks) /\ deleting' = deleting
        /\ erased' = erased \ {e}
    BY <1>3 DEF Add
  <2>3. Pending' = Pending \cup {e}
    BY <1>3, <2>1, <2>2, InsertedIs DEF Pending, Add
  <2> QED BY <1>2, <2>2, <2>3
<1>4. ASSUME NEW t \in Threads, NEW e \in Events, DelMark(t, e) PROVE PendingInv'
  <2>1. e \in Pending
    BY <1>4 DEF DelMark, Where
  <2>2. /\ UNCHANGED <<m_pending_events, erased>>
        /\ deleting' = [deleting EXCEPT ![t] = e]
    BY <1>4 DEF DelMark
  <2>3. \A u \in Threads : deleting'[u] = IF u = t THEN e ELSE deleting[u]
    BY <2>2 DEF TypeOK
  <2> QED BY <2>1, <2>2, <2>3 DEF PendingInv, Pending
<1>5. ASSUME NEW t \in Threads, DelErase(t) PROVE PendingInv'
  <2>1. deleting[t] # None
    BY <1>5 DEF DelErase
  <2>2. deleting[t] \in Pending
    BY <2>1 DEF PendingInv
  <2>3. /\ deleting' = [deleting EXCEPT ![t] = None]
        /\ Pending' = Pending \ {deleting[t]} /\ erased' = erased
    BY <1>5, <2>2, DelEraseIs DEF Pending
  <2>4. \A u \in Threads : deleting'[u] = IF u = t THEN None ELSE deleting[u]
    BY <2>3 DEF TypeOK
  <2> QED BY <2>1, <2>3, <2>4 DEF PendingInv, DeletionsInv
<1>6. ASSUME Collect PROVE PendingInv'
  <2>1. UNCHANGED <<deleting, erased>>
    BY <1>6 DEF Collect, threadVars, historyVars
  <2>2. PICK n \in 0 .. Len(m_pending_events) :
            /\ batch' = SubSeq(m_pending_events, 1, n)
            /\ m_pending_events' =
                   SubSeq(m_pending_events, n + 1, Len(m_pending_events))
            /\ \A i \in 1 .. n : Collectable(m_pending_events[i])
    BY <1>6, CollectIs
  <2>3. m_pending_events \in Seq(Events) /\ Sorted(m_pending_events, due)
    BY DEF TypeOK, Sorted
  <2>4. /\ Range(batch') = {m_pending_events[i] : i \in 1 .. n}
        /\ Range(batch') \cup Pending' = Pending
    BY <2>2, <2>3, SplitSorted DEF Pending
  <2>5. \A e \in Range(batch') : ~m_is_cancled[e]
    BY <2>2, <2>4 DEF Collectable
  <2>6. \A t \in Threads : deleting[t] # None => deleting[t] \in Pending'
    BY <2>4, <2>5 DEF DeletionsInv, PendingInv
  <2> QED BY <1>1, <2>1, <2>6
<1>7. ASSUME Repeat PROVE PendingInv'
  <2>1. tmps # <<>> /\ tmps \in Seq(Events) /\ UNCHANGED <<deleting, erased>>
    BY <1>7 DEF Repeat, TypeOK, threadVars, historyVars
  <2>2. PICK e \in Events : e = Head(tmps) /\ e \in Range(tmps)
    BY <2>1, HeadTailRange
  <2>3. e \notin Pending /\ interval[e] \in Ticks
    BY <2>2, TicksAre DEF TypeOK
  <2>4. Pending \subseteq Pending'
    <3>1. CASE e \in Repeating
      <4>1. m_pending_events' = Inserted(e, interval[e])
            /\ due' = [due EXCEPT ![e] = interval[e]]
        BY <1>7, <2>2, <3>1 DEF Repeat
      <4> QED BY <2>3, <4>1, InsertedIs DEF Pending
    <3>2. CASE e \notin Repeating
      BY <1>7, <2>2, <3>2 DEF Repeat, Pending
    <3> QED BY <3>1, <3>2
  <2> QED BY <1>2, <2>1, <2>4
<1>8. ASSUME \/ \E t \in Threads : ResetCopy(t) \/ ResetSet(t)
             \/ PollTimer \/ PollOther \/ StartReset \/ RunTask \/ TaskDone
             \/ OnTimerDone \/ IterationDone \/ Tick
             \/ \E e \in Events : New(e)
             \/ UNCHANGED vars
      PROVE  PendingInv'
  <2>1. UNCHANGED <<m_pending_events, deleting, erased>>
    BY <1>8
       DEF ResetCopy, ResetSet, PollTimer, PollOther, StartReset, RunTask, TaskDone,
           OnTimerDone, IterationDone, Tick, New, eventVars, threadVars,
           historyVars, vars
  <2> QED BY <1>2, <2>1 DEF Pending
<1> HIDE DEF ScheduleInv, OthersKept
<1> QED
  BY <1>3, <1>4, <1>5, <1>6, <1>7, <1>8 DEF Next, LoopStep, ThreadStep

-----------------------------------------------------------------------------
(***************************************************************************)
(* An event leaves m_pending_events to run, and comes back if it is        *)
(* repeated, or because it is deleted, or because the deletion of an event *)
(* that is not pending takes it out.                                       *)
(***************************************************************************)
LEMMA KeptStep ==
    ASSUME ScheduleInv, DeletionsInv, KeptInv, [Next]_vars
    PROVE  KeptInv'
<1> USE DEF ScheduleInv, KeptInv
<1>1. /\ Pending \subseteq Events /\ Range(batch) \subseteq Events
      /\ Range(tmps) \subseteq Events /\ Range(tmps) \subseteq Range(batch)
  BY DEF TypeOK, Pending, Range
<1>2. ASSUME UNCHANGED <<batch, tmps>>, Pending \subseteq Pending', late \subseteq late',
             loop_pc' \in {"poll", "collect", "run"} =>
                 loop_pc \in {"poll", "collect", "run"} \/ batch = <<>>,
             \A e \in Events :
                 /\ life'[e] = "live" =>
                        \/ life[e] = "live" /\ (e \in erased => e \in erased')
                        \/ e \in Pending'
                 /\ life'[e] = "deleted" => life[e] = "deleted"
      PROVE  KeptInv'
  <2>1. NoEventLost'
    BY <1>2 DEF NoEventLost
  <2>2. DeletedNotRun'
    BY <1>1, <1>2 DEF DeletedNotRun
  <2>3. BatchRepeats'
    BY <1>1, <1>2 DEF BatchRepeats
  <2> QED BY <2>1, <2>2, <2>3
<1>3. ASSUME NEW t \in Threads, NEW e \in Events, NEW ticks \in Intervals, Add(t, e, ticks)
      PROVE  KeptInv'
  <2>1. e \notin Pending /\ ticks \in Ticks
    BY <1>3, TicksAre DEF Add
  <2>2. /\ m_pending_events' = Inserted(e, ticks) /\ UNCHANGED <<batch, tmps, loop_pc, late>>
        /\ \A d \in Events : life'[d] = IF d = e THEN "live" ELSE life[d]
        /\ erased' = erased \ {e}
    BY <1>3 DEF Add, loopVars, TypeOK
  <2>3. Pending' = Pending \cup {e}
    BY <2>1, <2>2, InsertedIs DEF Pending
  <2> QED BY <1>2, <2>2, <2>3
<1>4. ASSUME NEW t \in Threads, DelErase(t) PROVE KeptInv'
  <2>1. /\ deleting[t] # None /\ deleting[t] \in Events
        /\ UNCHANGED <<batch, tmps, loop_pc, late>>
    BY <1>4, DelEraseIs DEF DelErase, loopVars
  <2>2. /\ life' = [life EXCEPT ![deleting[t]] = "deleted"]
        /\ \A d \in Pending : d # deleting[t] => d \in Pending' \/ d \in erased'
        /\ erased \subseteq erased'
    BY <1>4, DelEraseIs DEF Pending
  <2>3. \A d \in Events : life'[d] = IF d = deleting[t] THEN "deleted" ELSE life[d]
    BY <2>2 DEF TypeOK
  <2>4. NoEventLost'
    BY <2>1, <2>2, <2>3 DEF NoEventLost
  <2>5. DeletedNotRun'
    <3>1. deleting[t] \in Range(batch) => deleting[t] \in late
      BY <2>1 DEF DeletionsInv
    <3> QED BY <1>1, <2>1, <2>3, <3>1 DEF DeletedNotRun
  <2>6. BatchRepeats'
    BY <1>1, <2>1, <2>2, <2>3 DEF BatchRepeats
  <2> QED BY <2>4, <2>5, <2>6
<1>5. ASSUME Collect PROVE KeptInv'
  <2>1. UNCHANGED <<life, erased>> /\ batch = <<>> /\ loop_pc' = "repeat"
    BY <1>5 DEF Collect, BatchRepeats, historyVars
  <2>2. PICK n \in 0 .. Len(m_pending_events) :
            /\ batch' = SubSeq(m_pending_events, 1, n)
            /\ tmps' = SubSeq(m_pending_events, 1, n)
            /\ m_pending_events' =
                   SubSeq(m_pending_events, n + 1, Len(m_pending_events))
    BY <1>5, CollectIs
  <2>3. m_pending_events \in Seq(Events) /\ Sorted(m_pending_events, due)
    BY DEF TypeOK, Sorted
  <2>4. Range(batch') \cup Pending' = Pending /\ tmps' = batch'
    BY <2>2, <2>3, SplitSorted DEF Pending
  <2>5. Range(batch) = {}
    BY <2>1 DEF Range
  <2>6. NoEventLost'
    BY <2>1, <2>4, <2>5 DEF NoEventLost
  <2>7. DeletedNotRun'
    BY <2>1, <2>4 DEF DeletedNotRun
  <2>8. BatchRepeats'
    BY <2>1, <2>4 DEF BatchRepeats
  <2> QED BY <2>6, <2>7, <2>8
<1>6. ASSUME Repeat PROVE KeptInv'
  <2>1. /\ tmps # <<>> /\ tmps \in Seq(Events) /\ tmps' = Tail(tmps)
        /\ UNCHANGED <<batch, life, loop_pc, erased, late>> /\ loop_pc = "repeat"
    BY <1>6 DEF Repeat, TypeOK, threadVars, historyVars
  <2>2. PICK e \in Events : e = Head(tmps) /\ e \in Range(tmps)
    BY <2>1, HeadTailRange
  <2>3. Range(tmps) = Range(tmps') \cup {e}
    BY <2>1, <2>2, HeadTailRange
  <2>4. e \notin Pending /\ interval[e] \in Ticks
    BY <2>2, TicksAre DEF TypeOK
  <2>5. CASE e \in Repeating
    <3>1. m_pending_events' = Inserted(e, interval[e])
      BY <1>6, <2>2, <2>5 DEF Repeat
    <3>2. Pending' = Pending \cup {e}
      BY <2>4, <3>1, InsertedIs DEF Pending
    <3>3. NoEventLost'
      BY <2>1, <3>2 DEF NoEventLost
    <3>4. DeletedNotRun'
      BY <2>1 DEF DeletedNotRun
    <3>5. BatchRepeats'
      BY <2>1, <2>3, <3>2 DEF BatchRepeats
    <3> QED BY <3>3, <3>4, <3>5
  <2>6. CASE e \notin Repeating
    <3>1. Pending' = Pending
      BY <1>6, <2>2, <2>6 DEF Repeat, Pending
    <3>2. NoEventLost'
      BY <2>1, <3>1 DEF NoEventLost
    <3>3. DeletedNotRun'
      BY <2>1 DEF DeletedNotRun
    <3>4. BatchRepeats'
      BY <2>1, <2>3, <2>6, <3>1 DEF BatchRepeats
    <3> QED BY <3>2, <3>3, <3>4
  <2> QED BY <2>5, <2>6
<1>7. ASSUME RunTask PROVE KeptInv'
  <2>1. /\ UNCHANGED <<m_pending_events, tmps>> /\ loop_pc = "tasks" /\ loop_pc' = "task"
        /\ batch # <<>> /\ batch' = Tail(batch) /\ tmps = <<>>
        /\ erased' = erased /\ late' = late \ {Head(batch)}
    BY <1>7 DEF RunTask, eventVars
  <2>2. PICK e \in Events : e = Head(batch) /\ e \in Range(batch)
    BY <2>1, HeadTailRange DEF TypeOK
  <2>3. Range(batch) = Range(batch') \cup {e} /\ Pending' = Pending /\ Range(tmps) = {}
    <3>1. Range(batch) = Range(batch') \cup {e}
      BY <2>1, <2>2, HeadTailRange DEF TypeOK
    <3>2. Pending' = Pending
      BY <2>1 DEF Pending
    <3>3. Range(tmps) = {}
      BY <2>1 DEF Range
    <3> QED BY <3>1, <3>2, <3>3
  <2>4. \A d \in Events :
            life'[d] = IF d = e /\ life[e] = "live" /\ e \notin Repeating
                         THEN "fired" ELSE life[d]
    BY <1>7, <2>2 DEF RunTask, TypeOK
  <2>5. NoEventLost'
    <3> SUFFICES ASSUME NEW d \in Events, life'[d] = "live"
                 PROVE  d \in Pending' \/ d \in Range(batch') \/ d \in erased'
      BY DEF NoEventLost
    <3>1. life[d] = "live" /\ (d \in Pending \/ d \in Range(batch) \/ d \in erased)
      BY <2>4 DEF NoEventLost
    <3>2. CASE d = e
      <4>1. e \in Repeating
        BY <2>4, <3>1, <3>2
      <4>2. e \in Pending \/ e \in erased
        BY <2>2, <2>3, <3>1, <3>2, <4>1 DEF BatchRepeats
      <4> QED BY <2>1, <2>3, <3>2, <4>2
    <3>3. CASE d # e
      BY <2>1, <2>3, <3>1, <3>3
    <3> QED BY <3>2, <3>3
  <2>6. DeletedNotRun'
    <3>1. e \notin Range(batch')
      BY <2>1, <2>2, HeadNotInTail DEF TypeOK
    <3> QED BY <1>1, <2>1, <2>2, <2>3, <2>4, <3>1 DEF DeletedNotRun
  <2>7. BatchRepeats'
    <3>1. \A d \in Range(batch') \cap Repeating :
              life'[d] = "live" => d \in Pending' \/ d \in erased'
      BY <1>1, <2>1, <2>3, <2>4 DEF BatchRepeats
    <3> QED BY <2>1, <3>1 DEF BatchRepeats
  <2> QED BY <2>5, <2>6, <2>7
<1>8. ASSUME \/ \E t \in Threads : ResetCopy(t) \/ ResetSet(t)
             \/ \E t \in Threads, e \in Events : DelMark(t, e)
             \/ PollTimer \/ PollOther \/ StartReset \/ TaskDone \/ OnTimerDone
             \/ IterationDone \/ Tick
             \/ \E e \in Events : New(e)
             \/ UNCHANGED vars
      PROVE  KeptInv'
  <2>1. /\ UNCHANGED <<m_pending_events, batch, tmps, erased>> /\ late \subseteq late'
        /\ \A e \in Events : life'[e] = life[e] \/ life'[e] = "unused"
    BY <1>8
       DEF ResetCopy, ResetSet, DelMark, PollTimer, PollOther, StartReset, TaskDone,
           OnTimerDone, IterationDone, Tick, New, eventVars, loopVars, threadVars,
           historyVars, vars, TypeOK
  <2>2. loop_pc' \in {"poll", "collect", "run"} =>
            loop_pc \in {"poll", "collect", "run"} \/ batch = <<>>
    BY <1>8
       DEF ResetCopy, ResetSet, DelMark, PollTimer, PollOther, StartReset, TaskDone,
           OnTimerDone, IterationDone, Tick, New, loopVars, vars
  <2> QED BY <1>2, <2>1, <2>2 DEF Pending
<1> HIDE DEF ScheduleInv, KeptInv
<1> QED
  BY <1>3, <1>4, <1>5, <1>6, <1>7, <1>8 DEF Next, LoopStep, ThreadStep

-----------------------------------------------------------------------------
(***************************************************************************)
(* With one thread, the timerfd is set for the event that is first when    *)
(* resetArriveTime() copies it, which is still the first when it is set.   *)
(***************************************************************************)
LEMMA ArmedStep ==
    ASSUME Remotes = {}, ScheduleInv, ArmedInv, [Next]_vars
    PROVE  ArmedInv'
<1> USE DEF ScheduleInv
<1> DEFINE s == m_pending_events
           first == due[Head(s)]
           Watching == loop_pc \in {"poll", "tasks", "task", "run"} /\ reset_pc["loop"] = "none"
           Armed == armed # None /\ (armed <= first \/ armed <= Grace)
<1>1. Threads = {"loop"}
  BY DEF Threads
<1>2. ArmedForHead <=> (s # <<>> /\ Watching => Armed)
  BY <1>1 DEF ArmedForHead
<1>3. ArmedForHead' <=> (s # <<>> /\ Watching => Armed)'
  BY <1>1 DEF ArmedForHead
<1>4. (s # <<>> => Head(s) \in Events /\ first \in Ticks) /\ Grace \in Nat \ {0}
  BY HeadTailRange, TimesAssumption DEF TypeOK
<1>5. armed = None \/ armed \in Nat
  BY TicksAre DEF TypeOK, Past
<1> HIDE DEF s, first, Watching, Armed
<1>6. ASSUME UNCHANGED <<m_pending_events, due, armed, head, reset_pc>>,
             Watching' => Watching,
             reset_pc["loop"] # "none" => loop_pc' \in {"tasks", "task", "run"}
      PROVE  ArmedInv'
  BY <1>2, <1>3, <1>6 DEF ArmedInv, s, first, Armed
<1>7. ASSUME Tick PROVE ArmedInv'
  <2>1. /\ UNCHANGED <<m_pending_events, loop_pc, reset_pc>>
        /\ due' = [e \in Events |-> Less(due[e])]
        /\ head' = [t \in Threads |-> Less(head[t])]
        /\ armed' = IF armed \in {None, 0} THEN armed ELSE armed - 1
    BY <1>7 DEF Tick, loopVars
  <2>2. Watching' = Watching /\ s' = s
    BY <2>1 DEF Watching, s
  <2>3. s # <<>> => first' = Less(first)
    BY <1>4, <2>1 DEF s, first
  <2>4. ASSUME s # <<>>, Armed PROVE Armed'
    <3>1. armed \in Nat /\ first \in Int /\ first' = Less(first)
      BY <1>4, <1>5, <2>3, <2>4, TicksAre DEF Armed
    <3>2. armed' \in Nat
      BY <2>1, <3>1
    <3>3. armed' <= first' \/ armed' <= Grace
      <4>1. CASE armed = 0
        BY <1>4, <2>1, <4>1
      <4>2. CASE armed # 0
        <5>1. armed' = armed - 1
          BY <2>1, <2>4, <3>1, <4>2 DEF Armed
        <5>2. CASE armed <= Grace
          BY <1>4, <3>1, <5>1, <5>2
        <5>3. CASE armed <= first
          BY <3>1, <4>2, <5>1, <5>3 DEF Less, Past
        <5> QED BY <2>4, <5>2, <5>3 DEF Armed
      <4> QED BY <4>1, <4>2
    <3> QED BY <3>2, <3>3, NoneAssumption DEF Armed
  <2>5. ArmedForHead'
    BY <1>2, <1>3, <2>2, <2>4 DEF ArmedInv
  <2>6. reset_pc'["loop"] = "set" => s' # <<>> /\ head'["loop"] = first'
    BY <1>1, <2>1, <2>2, <2>3 DEF ArmedInv, s, first
  <2> QED BY <2>1, <2>5, <2>6 DEF ArmedInv, s, first
<1>8. ASSUME NEW t \in Threads, NEW e \in Events, NEW ticks \in Intervals, Add(t, e, ticks)
      PROVE  ArmedInv'
  <2>1. e \notin Pending /\ ticks \in Ticks /\ t = "loop" /\ ticks \in Nat
    BY <1>1, <1>8, TicksAre, TimesAssumption DEF Add
  <2>2. /\ m_pending_events' = Inserted(e, ticks) /\ due' = [due EXCEPT ![e] = ticks]
        /\ UNCHANGED <<armed, head, loop_pc>>
        /\ reset_pc["loop"] = "none" /\ loop_pc \in {"task", "run"}
        /\ reset_pc' = IF NeedsReset(ticks) THEN [reset_pc EXCEPT !["loop"] = "copy"]
                                            ELSE reset_pc
    BY <1>8, <2>1 DEF Add, Free, loopVars
  <2>3. CASE NeedsReset(ticks)
    <3>1. reset_pc'["loop"] = "copy"
      BY <1>1, <2>2, <2>3 DEF TypeOK
    <3> QED BY <1>3, <2>2, <3>1 DEF ArmedInv, Watching
  <2>4. CASE ~NeedsReset(ticks)
    <3>1. s # <<>> /\ ~(ticks < first)
      BY <2>4 DEF NeedsReset, s, first
    <3>2. first \in Int /\ first <= ticks
      <4>1. first \in Int
        BY <1>4, <3>1, TicksAre
      <4> QED BY <2>1, <3>1, <4>1
    <3>3. Head(m_pending_events') = Head(m_pending_events)
      BY <2>1, <2>2, <3>1, <3>2, InsertedIs DEF s, first
    <3>4. Head(m_pending_events) # e /\ Head(m_pending_events) \in Events
      BY <1>4, <2>1, <3>1, HeadTailRange DEF s, Pending, TypeOK
    <3>5. first' = first
      BY <2>2, <3>3, <3>4 DEF first, s, TypeOK
    <3>6. reset_pc' = reset_pc
      BY <2>2, <2>4
    <3> QED
      BY <1>2, <1>3, <2>2, <3>1, <3>5, <3>6 DEF ArmedInv, Watching, Armed
  <2> QED BY <2>3, <2>4
<1>9. ASSUME NEW t \in Threads, DelErase(t) PROVE ArmedInv'
  <2>1. /\ UNCHANGED <<due, armed, loop_pc, reset_pc, head>>
        /\ t = "loop" /\ deleting["loop"] # None
    BY <1>1, <1>9 DEF DelErase, loopVars
  <2>2. reset_pc["loop"] = "none"
    BY <1>1, <2>1
  <2>3. ASSUME s' # <<>>
        PROVE  s # <<>> /\ first <= first' /\ first \in Int /\ first' \in Int
    <3>1. /\ m_pending_events' \in Seq(Events)
          /\ Range(m_pending_events') \subseteq Pending
      BY <1>9, DelEraseIs
    <3>2. PICK h \in Events : h = Head(m_pending_events') /\ h \in Pending
      BY <2>3, <3>1, HeadTailRange DEF s
    <3>3. PICK i \in DOMAIN m_pending_events : m_pending_events[i] = h
      BY <3>2 DEF Pending, Range
    <3>4. /\ s # <<>> /\ Head(s) = m_pending_events[1]
          /\ 1 \in DOMAIN m_pending_events /\ (i = 1 \/ 1 < i)
      BY <3>3 DEF s, TypeOK
    <3>5. first' = due[h] /\ first \in Int /\ due[h] \in Int
      BY <1>4, <2>1, <3>2, <3>4, TicksAre DEF first, s, TypeOK
    <3>6. first <= due[h]
      BY <3>3, <3>4, <3>5 DEF first, s, TypeOK
    <3> QED BY <3>4, <3>5, <3>6
  <2>4. ASSUME s' # <<>>, Armed PROVE Armed'
    <3>1. armed # None /\ armed \in Nat /\ armed' = armed
      BY <1>5, <2>1, <2>4 DEF Armed
    <3> QED BY <2>3, <2>4, <3>1 DEF Armed
  <2>5. Watching' = Watching
    BY <2>1 DEF Watching
  <2> QED BY <1>2, <1>3, <2>1, <2>2, <2>3, <2>4, <2>5 DEF ArmedInv
<1>10. ASSUME Collect \/ Repeat \/ PollTimer PROVE ArmedInv'
  <2>1. reset_pc["loop"] = "none" /\ reset_pc' = reset_pc /\ loop_pc' \in {"collect", "repeat"}
    BY <1>10 DEF Collect, Repeat, PollTimer, threadVars, ArmedInv, TypeOK
  <2> QED BY <1>3, <2>1 DEF ArmedInv, Watching
<1>11. ASSUME NEW t \in Threads, ResetCopy(t) PROVE ArmedInv'
  <2>1. /\ UNCHANGED <<m_pending_events, due, loop_pc>> /\ t = "loop"
        /\ loop_pc \in {"tasks", "task", "run"}
    BY <1>1, <1>11 DEF ResetCopy, eventVars, loopVars, ArmedInv
  <2>2. CASE m_pending_events = <<>>
    BY <1>1, <1>3, <1>11, <2>1, <2>2 DEF ResetCopy, ArmedInv, s, TypeOK
  <2>3. CASE m_pending_events # <<>>
    <3>1. reset_pc'["loop"] = "set" /\ head'["loop"] = due[Head(m_pending_events)]
      BY <1>1, <1>11, <2>1, <2>3 DEF ResetCopy, TypeOK
    <3> QED BY <1>3, <2>1, <2>3, <3>1 DEF ArmedInv, Watching
  <2> QED BY <2>2, <2>3
<1>12. ASSUME NEW t \in Threads, ResetSet(t) PROVE ArmedInv'
  <2>1. /\ UNCHANGED <<m_pending_events, due, loop_pc, head>> /\ t = "loop"
        /\ reset_pc'["loop"] = "none" /\ armed' = Interval(head["loop"])
        /\ s # <<>> /\ head["loop"] = first /\ head["loop"] \in Ticks
    BY <1>1, <1>12 DEF ResetSet, eventVars, loopVars, ArmedInv, s, first, TypeOK
  <2>2. armed' \in Int /\ armed' # None /\ (armed' <= first \/ armed' <= Grace)
    <3>1. armed' \in Int /\ armed' # None
      BY <2>1, TicksAre
    <3>2. first \in Int /\ Grace \in Int
      <4>1. first \in Ticks
        BY <2>1
      <4> QED BY <1>4, <4>1, TicksAre
    <3> QED BY <2>1, <3>1, <3>2 DEF Interval
  <2>3. first' = first
    BY <2>1 DEF first, s
  <2>4. Armed'
    BY <2>2, <2>3 DEF Armed
  <2> QED BY <1>3, <2>1, <2>4 DEF ArmedInv
<1>13. ASSUME StartReset PROVE ArmedInv'
  <2>1. reset_pc'["loop"] = "copy" /\ loop_pc' = "tasks"
    BY <1>1, <1>13 DEF StartReset, TypeOK
  <2> QED BY <1>3, <2>1 DEF ArmedInv, Watching
<1>14. ASSUME \/ \E t \in Threads, e \in Events : DelMark(t, e)
              \/ PollOther \/ RunTask \/ TaskDone \/ OnTimerDone \/ IterationDone
              \/ \E e \in Events : New(e)
              \/ UNCHANGED vars
       PROVE  ArmedInv'
  <2>1. UNCHANGED <<m_pending_events, due, armed, head, reset_pc>>
    BY <1>14
       DEF DelMark, PollOther, RunTask, TaskDone, OnTimerDone, IterationDone, New,
           eventVars, threadVars, vars
  <2>2. /\ Watching' => Watching
        /\ reset_pc["loop"] # "none" => loop_pc' \in {"tasks", "task", "run"}
    BY <1>14
       DEF DelMark, PollOther, RunTask, TaskDone, OnTimerDone, IterationDone, New,
           Free, Watching, ArmedInv, loopVars, threadVars, vars
  <2> QED BY <1>6, <2>1, <2>2
<1> HIDE DEF ScheduleInv
<1> QED
  BY <1>7, <1>8, <1>9, <1>10, <1>11, <1>12, <1>13, <1>14
     DEF Next, LoopStep, ThreadStep

-----------------------------------------------------------------------------
(***************************************************************************)
(* The pending events stay ordered by arrival, none is there twice, and    *)
(* onTimer() repeats only events that are neither pending nor deleted: for *)
(* the loop's own coroutines, whatever they delete, and for any threads    *)
(* that delete pending events only.                                        *)
(***************************************************************************)
THEOREM ScheduleInvariant ==
    ASSUME Undisturbed
    PROVE  Safety => [](ScheduleInv /\ DeletionsInv)
<1>1. Init => DeletionsInv
  BY DEF Init, DeletionsInv
<1>2. ScheduleInv /\ DeletionsInv /\ [Next]_vars => (ScheduleInv /\ DeletionsInv)'
  BY DeletionsFree, ScheduleStep, DeletionsStep
<1> QED BY <1>1, <1>2, ScheduleInit, PTL DEF Safety

(***************************************************************************)
(* Types, and the order of m_pending_events: addTimerEvent(), onTimer()    *)
(* and delTimerEvent() keep it for any number of events and threads.       *)
(***************************************************************************)
THEOREM TimerTypes ==
    ASSUME Undisturbed
    PROVE  Safety => []TypeOK
<1>1. ScheduleInv => TypeOK
  BY DEF ScheduleInv
<1> QED BY <1>1, ScheduleInvariant, PTL

(***************************************************************************)
(* The timerfd fires in time for the first pending event, when only the    *)
(* coroutines of the loop add and delete events.                           *)
(***************************************************************************)
THEOREM FirstIsArmed ==
    ASSUME Remotes = {}
    PROVE  Safety => []ArmedForHead
<1>1. Init => ArmedInv
  BY DEF Init, ArmedInv, ArmedForHead, Threads
<1>2. ScheduleInv /\ ArmedInv /\ [Next]_vars => ArmedInv'
  BY ArmedStep
<1>3. ArmedInv => ArmedForHead
  BY DEF ArmedInv
<1>4. Safety => [](ScheduleInv /\ DeletionsInv)
  BY ScheduleInvariant DEF Undisturbed
<1> QED BY <1>1, <1>2, <1>3, <1>4, PTL DEF Safety

(***************************************************************************)
(* What onTimer() has taken out of m_pending_events runs or is put back,   *)
(* wherever the coroutines delete their events and however the steps of    *)
(* other threads interleave with the loop's.                               *)
(***************************************************************************)
THEOREM KeptInvariant ==
    ASSUME Undisturbed
    PROVE  Safety => []KeptInv
<1>1. Init => KeptInv
  <2> SUFFICES ASSUME Init PROVE KeptInv
    OBVIOUS
  <2>1. Range(batch) = {}
    BY DEF Init, Range
  <2> QED BY <2>1 DEF Init, KeptInv, NoEventLost, DeletedNotRun, BatchRepeats
<1>2. ScheduleInv /\ DeletionsInv /\ KeptInv /\ [Next]_vars => KeptInv'
  BY KeptStep
<1>3. Safety => [](ScheduleInv /\ DeletionsInv)
  BY ScheduleInvariant
<1> QED BY <1>1, <1>2, <1>3, PTL DEF Safety

(***************************************************************************)
(* An event that was added, and neither ran nor was deleted by its owner,  *)
(* is still scheduled: only the deletion of an event that has fired        *)
(* (net_socket.cc:149) loses another one.                                  *)
(***************************************************************************)
THEOREM EventsKept ==
    ASSUME Undisturbed
    PROVE  Safety => []NoEventLost
<1>1. KeptInv => NoEventLost
  BY DEF KeptInv
<1> QED BY <1>1, KeptInvariant, PTL

(***************************************************************************)
(* The task of an event whose delTimerEvent() has returned does not run,   *)
(* but once if the event was in the batch that onTimer() is running.       *)
(***************************************************************************)
THEOREM DeletedStayOut ==
    ASSUME Undisturbed
    PROVE  Safety => []DeletedNotRun
<1>1. KeptInv => DeletedNotRun
  BY DEF KeptInv
<1> QED BY <1>1, KeptInvariant, PTL

(***************************************************************************)
(* Deletions of pending events, by any threads at once, take out the event *)
(* that is deleted and no other.                                           *)
(***************************************************************************)
THEOREM PendingDeletionsKeepOthers ==
    ASSUME Deletable \cup RemoteDeletable \subseteq {"pending"}
    PROVE  Safety => []OthersKept
<1>1. Init => PendingInv
  BY DEF Init, PendingInv, OthersKept
<1>2. ScheduleInv /\ DeletionsInv /\ PendingInv /\ [Next]_vars => PendingInv'
  BY PendingStep
<1>3. PendingInv => OthersKept
  BY DEF PendingInv
<1>4. Safety => [](ScheduleInv /\ DeletionsInv)
  BY ScheduleInvariant DEF Undisturbed
<1> QED BY <1>1, <1>2, <1>3, <1>4, PTL DEF Safety
=============================================================================

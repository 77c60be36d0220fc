---------------------------- MODULE ListTheorems ----------------------------
(***************************************************************************)
(* Facts about sequences that the proofs about the units' lists use.  They *)
(* need induction on the length, which is had here from the existence of a *)
(* least element: a property of numbers is the set of those that have it.  *)
(***************************************************************************)
EXTENDS Lists, FiniteSetTheorems, SequenceTheorems, WellFoundedInduction, TLAPS

-----------------------------------------------------------------------------
(***************************************************************************)
(* Induction.                                                              *)
(***************************************************************************)
LEMMA LeastNumber ==
  ASSUME NEW S, S \subseteq Nat, S # {}
  PROVE  \E n \in S : \A k \in S : n <= k
<1> DEFINE R == OpToRel(<, Nat)
<1>1. IsWellFoundedOn(R, Nat)
  BY NatLessThanWellFounded
<1>2. PICK n \in S : \A k \in S : <<k, n>> \notin R
  <2> HIDE DEF R
  <2> QED BY <1>1, WFMin
<1>3. \A k \in S : ~(k < n)
  BY <1>2 DEF OpToRel
<1> QED BY <1>3

LEMMA Induct ==
  ASSUME NEW S, S \subseteq Nat, 0 \in S, \A n \in S : n + 1 \in S
  PROVE  S = Nat
<1> SUFFICES ASSUME S # Nat PROVE FALSE
  OBVIOUS
<1>1. PICK n \in Nat \ S : \A k \in Nat \ S : n <= k
  BY LeastNumber
<1>2. n - 1 \in S
  BY <1>1
<1> QED BY <1>1, <1>2

-----------------------------------------------------------------------------
(***************************************************************************)
(* What Kept computes.                                                     *)
(***************************************************************************)
LEMMA KeptDefined ==
  ASSUME NEW S, NEW seq, Len(seq) \in Nat
  PROVE  \E f : /\ f = [n \in 0 .. Len(seq) |->
                          IF n = 0 THEN <<>>
                          ELSE IF seq[n] \in S THEN Append(f[n - 1], seq[n]) ELSE f[n - 1]]
                /\ Kept(seq, S) = f[Len(seq)]
<1> DEFINE Next(f, n) == IF n = 0 THEN <<>>
                         ELSE IF seq[n] \in S THEN Append(f[n - 1], seq[n]) ELSE f[n - 1]
           Upto == {m \in Nat : \E f : f = [n \in 0 .. m |-> Next(f, n)]}
<1>1. 0 \in Upto
  <2> DEFINE g == [n \in 0 .. 0 |-> <<>>]
  <2>1. g = [n \in 0 .. 0 |-> Next(g, n)]
    OBVIOUS
  <2> QED BY <2>1
<1>2. ASSUME NEW m \in Upto PROVE m + 1 \in Upto
  <2>1. PICK f : f = [n \in 0 .. m |-> Next(f, n)]
    BY <1>2
  <2> DEFINE g == [n \in 0 .. m + 1 |-> IF n = m + 1 THEN Next(f, n) ELSE f[n]]
  <2>2. ASSUME NEW n \in 0 .. m + 1 PROVE g[n] = Next(g, n)
    <3>1. CASE n = 0
      BY <2>1, <3>1
    <3>2. CASE n # 0
      <4>1. g[n - 1] = f[n - 1]
        BY <3>2
      <4>2. CASE n = m + 1
        BY <3>2, <4>1, <4>2
      <4>3. CASE n \in 0 .. m
        BY <2>1, <3>2, <4>1, <4>3
      <4> QED BY <4>2, <4>3
    <3> QED BY <3>1, <3>2
  <2>3. g = [n \in 0 .. m + 1 |-> Next(g, n)]
    <3>1. DOMAIN g = 0 .. m + 1
      OBVIOUS
    <3> HIDE DEF Next
    <3> QED BY <2>2, <3>1
  <2> HIDE DEF g, Next
  <2> QED BY <2>3
<1>3. Len(seq) \in Upto
  <2> HIDE DEF Upto
  <2>1. Upto \subseteq Nat
    BY DEF Upto
  <2> QED BY <1>1, <1>2, <2>1, Induct
<1> DEFINE Whole(f) == [n \in 0 .. Len(seq) |-> Next(f, n)]
           kept == CHOOSE f : f = Whole(f)
<1>4. kept = Whole(kept)
  <2>1. \E f : f = Whole(f)
    BY <1>3
  <2> HIDE DEF Whole
  <2> QED BY <2>1
<1>5. Kept(seq, S) = kept[Len(seq)]
  BY Zenon DEF Kept
<1> HIDE DEF kept
<1> QED BY <1>4, <1>5

\* Kept keeps what is in S, once for each time it occurs, in the same order.
LEMMA KeptFacts ==
  ASSUME NEW T, NEW seq \in Seq(T), NEW S
  PROVE  /\ Kept(seq, S) \in Seq(T)
         /\ Elements(Kept(seq, S)) = Elements(seq) \cap S
         /\ \A j, k \in DOMAIN Kept(seq, S) : j < k =>
              \E a, b \in DOMAIN seq :
                a < b /\ Kept(seq, S)[j] = seq[a] /\ Kept(seq, S)[k] = seq[b]
<1>0. Len(seq) \in Nat /\ DOMAIN seq = 1 .. Len(seq)
  BY LenProperties
<1>1. PICK f : /\ f = [n \in 0 .. Len(seq) |->
                         IF n = 0 THEN <<>>
                         ELSE IF seq[n] \in S THEN Append(f[n - 1], seq[n]) ELSE f[n - 1]]
               /\ Kept(seq, S) = f[Len(seq)]
  BY <1>0, KeptDefined
<1>a. /\ f[0] = <<>>
      /\ \A n \in 1 .. Len(seq) :
           f[n] = IF seq[n] \in S THEN Append(f[n - 1], seq[n]) ELSE f[n - 1]
  <2>1. f[0] = <<>>
    BY <1>0, <1>1
  <2>2. ASSUME NEW n \in 1 .. Len(seq)
        PROVE  f[n] = IF seq[n] \in S THEN Append(f[n - 1], seq[n]) ELSE f[n - 1]
    <3>1. n \in 0 .. Len(seq) /\ n # 0
      BY <1>0
    <3> QED BY <1>1, <3>1
  <2> QED BY <2>1, <2>2
<1> DEFINE Right(n) ==
      /\ f[n] \in Seq(T)
      /\ \A x : x \in Elements(f[n]) <=> x \in S /\ \E a \in 1 .. n : x = seq[a]
      /\ \A j, k \in DOMAIN f[n] : j < k =>
           \E a, b \in 1 .. n : a < b /\ f[n][j] = seq[a] /\ f[n][k] = seq[b]
      /\ \A j \in DOMAIN f[n] : \E a \in 1 .. n : f[n][j] = seq[a]
    Upto == {n \in Nat : n <= Len(seq) => Right(n)}
<1>2. 0 \in Upto
  <2>1. f[0] = <<>>
    BY <1>a
  <2>2. <<>> \in Seq(T) /\ DOMAIN <<>> = {} /\ Elements(<<>>) = {} /\ 1 .. 0 = {}
    BY DEF Elements
  <2> QED BY <2>1, <2>2
<1>3. ASSUME NEW n \in Upto PROVE n + 1 \in Upto
  <2> SUFFICES ASSUME n + 1 <= Len(seq) PROVE Right(n + 1)
    BY <1>3
  <2>1. Right(n) /\ n \in Nat /\ seq[n + 1] \in T
    BY <1>3
  <2>2. f[n + 1] = IF seq[n + 1] \in S THEN Append(f[n], seq[n + 1]) ELSE f[n]
    <3>1. n + 1 \in 1 .. Len(seq) /\ (n + 1) - 1 = n
      BY <1>0, <2>1
    <3> QED BY <1>a, <3>1
  <2>3. CASE seq[n + 1] \notin S
    <3>1. f[n + 1] = f[n]
      BY <2>2, <2>3
    <3>2. \A x : x \in Elements(f[n]) <=> x \in S /\ \E a \in 1 .. n + 1 : x = seq[a]
      BY <2>1, <2>3
    <3>3. 1 .. n \subseteq 1 .. n + 1
      BY <2>1
    <3> HIDE DEF Elements
    <3> QED BY <2>1, <3>1, <3>2, <3>3
  <2>4. CASE seq[n + 1] \in S
    <3> DEFINE g == f[n]  e == seq[n + 1]
    <3>1. /\ f[n + 1] = Append(g, e)
          /\ Append(g, e) \in Seq(T)
          /\ Len(Append(g, e)) = Len(g) + 1 /\ Len(g) \in Nat
          /\ \A j \in 1 .. Len(g) : Append(g, e)[j] = g[j]
          /\ Append(g, e)[Len(g) + 1] = e
          /\ DOMAIN Append(g, e) = 1 .. Len(g) + 1 /\ DOMAIN g = 1 .. Len(g)
      BY <2>1, <2>2, <2>4, AppendProperties, LenProperties
    <3>2. \A x : x \in Elements(Append(g, e)) <=> x \in Elements(g) \/ x = e
      <4> DEFINE h == Append(g, e)
      <4>1. \A x : (\E j \in 1 .. Len(g) + 1 : x = h[j])
                   <=> (\E j \in 1 .. Len(g) : x = h[j]) \/ x = h[Len(g) + 1]
        BY <3>1
      <4>2. \A x : x \in Elements(h) <=> \E j \in 1 .. Len(g) + 1 : x = h[j]
        BY <3>1 DEF Elements
      <4>3. \A x : x \in Elements(g) <=> \E j \in 1 .. Len(g) : x = g[j]
        BY <3>1 DEF Elements
      <4>4. h[Len(g) + 1] = e /\ \A j \in 1 .. Len(g) : h[j] = g[j]
        BY <3>1
      <4> HIDE DEF h, g
      <4>5. \A x : (\E j \in 1 .. Len(g) : x = h[j]) <=> (\E j \in 1 .. Len(g) : x = g[j])
        BY <4>4
      <4>6. \A x : x \in Elements(h) <=> x \in Elements(g) \/ x = e
        BY <4>1, <4>2, <4>3, <4>4, <4>5
      <4> QED BY <4>6 DEF h, g
    <3>3. \A x : x \in Elements(f[n + 1]) <=> x \in S /\ \E a \in 1 .. n + 1 : x = seq[a]
      BY <2>1, <2>4, <3>1, <3>2
    <3>4. ASSUME NEW j \in DOMAIN f[n + 1], NEW k \in DOMAIN f[n + 1], j < k
          PROVE  \E a, b \in 1 .. n + 1 :
                   a < b /\ f[n + 1][j] = seq[a] /\ f[n + 1][k] = seq[b]
      <4>1. j \in 1 .. Len(g) /\ (k \in 1 .. Len(g) \/ k = Len(g) + 1)
        BY <3>1, <3>4
      <4>2. CASE k \in 1 .. Len(g)
        <5>1. \A i, l \in DOMAIN g : i < l =>
                \E a, b \in 1 .. n : a < b /\ g[i] = seq[a] /\ g[l] = seq[b]
          BY <2>1
        <5>2. j \in DOMAIN g /\ k \in DOMAIN g
          BY <3>1, <4>1, <4>2
        <5> HIDE DEF g
        <5>3. PICK a \in 1 .. n, b \in 1 .. n : a < b /\ g[j] = seq[a] /\ g[k] = seq[b]
          BY <3>4, <5>1, <5>2
        <5>4. f[n + 1][j] = g[j] /\ f[n + 1][k] = g[k]
          BY <3>1, <4>1, <4>2
        <5>5. a \in 1 .. n + 1 /\ b \in 1 .. n + 1
          BY <2>1
        <5> QED BY <5>3, <5>4, <5>5
      <4>3. CASE k = Len(g) + 1
        <5>1. PICK a \in 1 .. n : g[j] = seq[a]
          BY <2>1, <3>1, <4>1
        <5>2. a < n + 1 /\ a \in 1 .. n + 1 /\ n + 1 \in 1 .. n + 1
          BY <2>1
        <5> QED BY <3>1, <4>1, <4>3, <5>1, <5>2
      <4> QED BY <4>1, <4>2, <4>3
    <3>5. ASSUME NEW j \in DOMAIN f[n + 1] PROVE \E a \in 1 .. n + 1 : f[n + 1][j] = seq[a]
      <4>1. CASE j \in 1 .. Len(g)
        <5>1. PICK a \in 1 .. n : g[j] = seq[a]
          BY <2>1, <3>1, <4>1
        <5> QED BY <2>1, <3>1, <4>1, <5>1
      <4>2. CASE j = Len(g) + 1
        BY <2>1, <3>1, <4>2
      <4> QED BY <3>1, <4>1, <4>2
    <3> QED BY <3>1, <3>3, <3>4, <3>5
  <2> QED BY <2>3, <2>4
<1>4. Len(seq) \in Upto
  <2> HIDE DEF Upto
  <2>1. Upto \subseteq Nat
    BY DEF Upto
  <2> QED BY <1>0, <1>2, <1>3, <2>1, Induct
<1>5. Right(Len(seq))
  BY <1>0, <1>4
<1>6. Elements(f[Len(seq)]) = Elements(seq) \cap S
  <2>1. \A x : x \in Elements(f[Len(seq)]) <=> x \in S /\ \E a \in 1 .. Len(seq) : x = seq[a]
    BY <1>5
  <2>2. \A x : x \in Elements(seq) <=> \E a \in 1 .. Len(seq) : x = seq[a]
    BY <1>0 DEF Elements
  <2> HIDE DEF Right
  <2> QED BY <2>1, <2>2
<1> DEFINE q == f[Len(seq)]
<1>7. /\ q \in Seq(T)
      /\ \A j, k \in DOMAIN q : j < k =>
           \E a, b \in 1 .. Len(seq) : a < b /\ q[j] = seq[a] /\ q[k] = seq[b]
  BY <1>5
<1>8. q = Kept(seq, S)
  BY <1>1
<1> HIDE DEF q
<1> QED BY <1>0, <1>6, <1>7, <1>8 DEF q

-----------------------------------------------------------------------------
(***************************************************************************)
(* Lists without repetitions, and lists sorted by a clock.                 *)
(***************************************************************************)
\* What remove_if leaves is as distinct and as sorted as the list was.
LEMMA KeptDistinct ==
  ASSUME NEW T, NEW seq \in Seq(T), NEW S, Distinct(seq)
  PROVE  Distinct(Kept(seq, S))
<1> DEFINE q == Kept(seq, S)
<1>1. q \in Seq(T)
  BY KeptFacts
<1>2. ASSUME NEW j \in DOMAIN q, NEW k \in DOMAIN q, j < k
      PROVE  \E a, b \in DOMAIN seq : a < b /\ q[j] = seq[a] /\ q[k] = seq[b]
  BY <1>2, KeptFacts
<1>3. DOMAIN q \subseteq Nat /\ DOMAIN seq \subseteq Nat
  BY <1>1
<1> HIDE DEF q
<1>4. ASSUME NEW j \in DOMAIN q, NEW k \in DOMAIN q, j < k PROVE q[j] # q[k]
  BY <1>2, <1>3, <1>4 DEF Distinct
<1>5. Distinct(q)
  BY <1>3, <1>4 DEF Distinct
<1> QED BY <1>5 DEF q

LEMMA KeptSorted ==
  ASSUME NEW T, NEW seq \in Seq(T), NEW S, NEW clock, Sorted(seq, clock)
  PROVE  Sorted(Kept(seq, S), clock)
<1> DEFINE q == Kept(seq, S)
<1>1. ASSUME NEW j \in DOMAIN q, NEW k \in DOMAIN q, j < k
      PROVE  \E a, b \in DOMAIN seq : a < b /\ q[j] = seq[a] /\ q[k] = seq[b]
  BY <1>1, KeptFacts
<1> HIDE DEF q
<1>2. Sorted(q, clock)
  BY <1>1 DEF Sorted
<1> QED BY <1>2 DEF q

LEMMA PrefixFacts ==
  ASSUME NEW T, NEW seq \in Seq(T), NEW n \in 0 .. Len(seq)
  PROVE  /\ SubSeq(seq, 1, n) \in Seq(T) /\ Len(SubSeq(seq, 1, n)) = n
         /\ DOMAIN SubSeq(seq, 1, n) = 1 .. n
         /\ \A j \in 1 .. n : SubSeq(seq, 1, n)[j] = seq[j]
         /\ Elements(SubSeq(seq, 1, n)) = {seq[j] : j \in 1 .. n}
         /\ Distinct(seq) => Distinct(SubSeq(seq, 1, n))
<1> DEFINE p == SubSeq(seq, 1, n)
<1>1. /\ DOMAIN seq = 1 .. Len(seq) /\ Len(seq) \in Nat
      /\ \A j \in 1 .. n : j \in DOMAIN seq /\ seq[j] \in T
  BY LenProperties
<1>2. p \in Seq(T) /\ Len(p) = n /\ \A j \in 1 .. n : p[j] = seq[j]
  BY <1>1, SubSeqProperties
<1> HIDE DEF p
<1>3. DOMAIN p = 1 .. n
  BY <1>2, LenProperties
<1>4. Elements(p) = {seq[j] : j \in 1 .. n}
  BY <1>2, <1>3 DEF Elements
<1>5. Distinct(seq) => Distinct(p)
  BY <1>1, <1>2, <1>3 DEF Distinct
<1> QED BY <1>2, <1>3, <1>4, <1>5 DEF p

LEMMA PrefixSorted ==
  ASSUME NEW T, NEW seq \in Seq(T), NEW n \in 0 .. Len(seq), NEW clock, Sorted(seq, clock),
         NEW p, p = SubSeq(seq, 1, n)
  PROVE  /\ Sorted(p, clock)
         /\ \A x \in Elements(p), y \in Elements(seq) \ Elements(p) : clock[x] < clock[y]
<1>1. /\ DOMAIN seq = 1 .. Len(seq) /\ Len(seq) \in Nat
      /\ DOMAIN p = 1 .. n /\ Elements(p) = {seq[j] : j \in 1 .. n}
      /\ \A j \in 1 .. n : j \in DOMAIN seq /\ p[j] = seq[j]
  BY LenProperties, PrefixFacts
<1>2. Sorted(p, clock)
  BY <1>1 DEF Sorted
<1>3. ASSUME NEW x \in Elements(p), NEW y \in Elements(seq) \ Elements(p)
      PROVE  clock[x] < clock[y]
  <2>1. PICK j \in 1 .. n : x = seq[j]
    BY <1>1
  <2>2. PICK k \in DOMAIN seq : y = seq[k]
    BY DEF Elements
  <2>3. k \notin 1 .. n
    BY <1>1, <2>2
  <2> QED BY <1>1, <2>1, <2>2, <2>3 DEF Sorted
<1> QED BY <1>2, <1>3

\* Only the clocks of the elements matter.
LEMMA SortedSame ==
  ASSUME NEW seq, NEW clock, NEW later, Sorted(seq, clock),
         \A x \in Elements(seq) : later[x] = clock[x]
  PROVE  Sorted(seq, later)
BY DEF Sorted, Elements

LEMMA ConcatFacts ==
  ASSUME NEW T, NEW s \in Seq(T), NEW t \in Seq(T), NEW clock
  PROVE  /\ s \o t \in Seq(T)
         /\ Elements(s \o t) = Elements(s) \cup Elements(t)
         /\ Distinct(s) /\ Distinct(t) /\ Elements(s) \cap Elements(t) = {}
              => Distinct(s \o t)
         /\ Sorted(s, clock) /\ Sorted(t, clock)
              /\ (\A x \in Elements(s), y \in Elements(t) : clock[x] < clock[y])
              => Sorted(s \o t, clock)
<1> DEFINE c == s \o t
<1>1. /\ Len(s) \in Nat /\ DOMAIN s = 1 .. Len(s)
      /\ Len(t) \in Nat /\ DOMAIN t = 1 .. Len(t)
      /\ c \in Seq(T) /\ DOMAIN c = 1 .. Len(s) + Len(t)
      /\ \A i \in 1 .. Len(s) + Len(t) : c[i] = IF i <= Len(s) THEN s[i] ELSE t[i - Len(s)]
  BY ConcatProperties, LenProperties
<1> HIDE DEF c
<1>2. \A j \in 1 .. Len(s) : j \in DOMAIN c /\ c[j] = s[j]
  BY <1>1
<1>3. ASSUME NEW j \in 1 .. Len(t) PROVE Len(s) + j \in DOMAIN c /\ c[Len(s) + j] = t[j]
  <2>1. /\ Len(s) + j \in 1 .. Len(s) + Len(t) /\ ~(Len(s) + j <= Len(s))
        /\ (Len(s) + j) - Len(s) = j
    BY <1>1
  <2> QED BY <1>1, <2>1
<1>4. \A i \in DOMAIN c : i \in DOMAIN s \/ (i - Len(s) \in DOMAIN t /\ i > Len(s))
  BY <1>1
<1>a. ASSUME NEW i \in DOMAIN c
      PROVE  /\ i \in Int
             /\ i <= Len(s) => i \in DOMAIN s /\ c[i] = s[i]
             /\ i > Len(s) => i - Len(s) \in DOMAIN t /\ c[i] = t[i - Len(s)]
  BY <1>1
<1>5. Elements(c) = Elements(s) \cup Elements(t)
  <2>1. ASSUME NEW x \in Elements(c) PROVE x \in Elements(s) \cup Elements(t)
    <3>1. PICK i \in DOMAIN c : x = c[i]
      BY DEF Elements
    <3>2. CASE i \in DOMAIN s
      BY <1>1, <1>2, <3>1, <3>2 DEF Elements
    <3>3. CASE i - Len(s) \in DOMAIN t /\ i > Len(s)
      BY <1>1, <3>1, <3>3 DEF Elements
    <3> QED BY <1>4, <3>2, <3>3
  <2>2. ASSUME NEW x \in Elements(s) PROVE x \in Elements(c)
    BY <1>1, <1>2 DEF Elements
  <2>3. ASSUME NEW x \in Elements(t) PROVE x \in Elements(c)
    <3>1. PICK j \in 1 .. Len(t) : x = t[j]
      BY <1>1 DEF Elements
    <3>2. Len(s) + j \in DOMAIN c /\ x = c[Len(s) + j]
      BY <1>3, <3>1
    <3> QED BY <3>2 DEF Elements
  <2> QED BY <2>1, <2>2, <2>3
<1>6. ASSUME Distinct(s), Distinct(t), Elements(s) \cap Elements(t) = {}
      PROVE  Distinct(c)
  <2> SUFFICES ASSUME NEW j \in DOMAIN c, NEW k \in DOMAIN c, c[j] = c[k] PROVE j = k
    BY DEF Distinct
  <2>1. \A i \in DOMAIN s, n \in DOMAIN t : s[i] # t[n]
    BY <1>6 DEF Elements
  <2>2. CASE j <= Len(s) /\ k <= Len(s)
    BY <1>a, <1>6, <2>2 DEF Distinct
  <2>3. CASE j > Len(s) /\ k > Len(s)
    <3>1. t[j - Len(s)] = t[k - Len(s)]
      BY <1>a, <2>3
    <3>2. j - Len(s) = k - Len(s)
      BY <1>a, <1>6, <2>3, <3>1 DEF Distinct
    <3> QED BY <1>1, <1>a, <3>2
  <2>4. CASE j <= Len(s) /\ k > Len(s)
    BY <1>a, <2>1, <2>4
  <2>5. CASE j > Len(s) /\ k <= Len(s)
    BY <1>a, <2>1, <2>5
  <2> QED BY <1>1, <1>a, <2>2, <2>3, <2>4, <2>5
<1>7. ASSUME Sorted(s, clock), Sorted(t, clock),
             \A x \in Elements(s), y \in Elements(t) : clock[x] < clock[y]
      PROVE  Sorted(c, clock)
  <2> SUFFICES ASSUME NEW j \in DOMAIN c, NEW k \in DOMAIN c, j < k
               PROVE  clock[c[j]] < clock[c[k]]
    BY DEF Sorted
  <2>1. CASE k <= Len(s)
    <3>1. j <= Len(s)
      BY <1>1, <1>a, <1>7, <2>1
    <3> QED BY <1>a, <1>7, <2>1, <3>1 DEF Sorted
  <2>2. CASE j > Len(s)
    <3>1. k > Len(s) /\ j - Len(s) < k - Len(s)
      BY <1>1, <1>a, <1>7, <2>2
    <3> QED BY <1>a, <1>7, <2>2, <3>1 DEF Sorted
  <2>3. CASE j <= Len(s) /\ k > Len(s)
    <3>1. c[j] \in Elements(s) /\ c[k] \in Elements(t)
      BY <1>a, <2>3 DEF Elements
    <3> QED BY <1>7, <3>1
  <2> QED BY <1>1, <1>a, <2>1, <2>2, <2>3
<1> QED BY <1>1, <1>5, <1>6, <1>7 DEF c

\* An element is pushed to the back.
LEMMA AppendFacts ==
  ASSUME NEW T, NEW seq \in Seq(T), NEW e \in T
  PROVE  /\ Append(seq, e) \in Seq(T)
         /\ Elements(Append(seq, e)) = Elements(seq) \cup {e}
         /\ Distinct(seq) /\ e \notin Elements(seq) => Distinct(Append(seq, e))
         /\ \A clock : Sorted(seq, clock) /\ (\A x \in Elements(seq) : clock[x] < clock[e])
                         => Sorted(Append(seq, e), clock)
<1> DEFINE q == Append(seq, e)
<1>1. /\ Len(seq) \in Nat /\ DOMAIN seq = 1 .. Len(seq)
      /\ q \in Seq(T) /\ DOMAIN q = 1 .. Len(seq) + 1
      /\ \A i \in 1 .. Len(seq) : q[i] = seq[i]
      /\ q[Len(seq) + 1] = e
  BY AppendProperties, LenProperties
<1> HIDE DEF q
<1>2. ASSUME NEW i \in DOMAIN q
      PROVE  /\ i \in Int
             /\ i <= Len(seq) => i \in DOMAIN seq /\ q[i] = seq[i]
             /\ i > Len(seq) => i = Len(seq) + 1 /\ q[i] = e
  BY <1>1
<1>3. Elements(q) = Elements(seq) \cup {e}
  <2>1. ASSUME NEW x \in Elements(q) PROVE x \in Elements(seq) \cup {e}
    <3>1. PICK i \in DOMAIN q : x = q[i]
      BY DEF Elements
    <3>2. CASE i <= Len(seq)
      BY <1>2, <3>1, <3>2 DEF Elements
    <3>3. CASE i > Len(seq)
      BY <1>2, <3>1, <3>3
    <3> QED BY <1>1, <1>2, <3>2, <3>3
  <2>2. ASSUME NEW x \in Elements(seq) PROVE x \in Elements(q)
    <3>1. PICK i \in DOMAIN seq : x = seq[i]
      BY DEF Elements
    <3>2. i \in DOMAIN q /\ x = q[i]
      BY <1>1, <3>1
    <3> QED BY <3>2 DEF Elements
  <2>3. e \in Elements(q)
    BY <1>1 DEF Elements
  <2> QED BY <2>1, <2>2, <2>3
<1>4. ASSUME Distinct(seq), e \notin Elements(seq) PROVE Distinct(q)
  <2>1. \A i \in DOMAIN seq : seq[i] # e
    BY <1>4 DEF Elements
  <2>2. ASSUME NEW j \in DOMAIN q, NEW k \in DOMAIN q, q[j] = q[k] PROVE j = k
    <3>1. CASE j <= Len(seq) /\ k <= Len(seq)
      BY <1>2, <1>4, <2>2, <3>1 DEF Distinct
    <3>2. CASE j > Len(seq) /\ k > Len(seq)
      BY <1>2, <3>2
    <3>3. CASE j <= Len(seq) /\ k > Len(seq)
      BY <1>2, <2>1, <2>2, <3>3
    <3>4. CASE j > Len(seq) /\ k <= Len(seq)
      BY <1>2, <2>1, <2>2, <3>4
    <3> QED BY <1>1, <1>2, <3>1, <3>2, <3>3, <3>4
  <2> QED BY <2>2 DEF Distinct
<1>5. ASSUME NEW clock, Sorted(seq, clock), \A x \in Elements(seq) : clock[x] < clock[e]
      PROVE  Sorted(q, clock)
  <2> SUFFICES ASSUME NEW j \in DOMAIN q, NEW k \in DOMAIN q, j < k
               PROVE  clock[q[j]] < clock[q[k]]
    BY DEF Sorted
  <2>1. j <= Len(seq) /\ q[j] \in Elements(seq)
    BY <1>1, <1>2 DEF Elements
  <2>2. CASE k <= Len(seq)
    BY <1>2, <1>5, <2>1, <2>2 DEF Sorted
  <2>3. CASE k > Len(seq)
    BY <1>2, <1>5, <2>1, <2>3
  <2> QED BY <1>1, <1>2, <2>2, <2>3
<1> QED BY <1>1, <1>3, <1>4, <1>5 DEF q

\* The front of a list is taken off.
LEMMA TailFacts ==
  ASSUME NEW T, NEW seq \in Seq(T), seq # <<>>, NEW clock
  PROVE  /\ Head(seq) \in T /\ Head(seq) \in Elements(seq) /\ Tail(seq) \in Seq(T)
         /\ Elements(seq) = Elements(Tail(seq)) \cup {Head(seq)}
         /\ Distinct(seq) => Distinct(Tail(seq)) /\ Head(seq) \notin Elements(Tail(seq))
         /\ Sorted(seq, clock) => Sorted(Tail(seq), clock)
<1> DEFINE q == Tail(seq)  h == Head(seq)
<1>1. /\ Len(seq) \in Nat /\ Len(seq) > 0 /\ DOMAIN seq = 1 .. Len(seq)
      /\ q \in Seq(T) /\ DOMAIN q = 1 .. Len(seq) - 1 /\ h = seq[1] /\ h \in T
      /\ \A i \in 1 .. Len(seq) - 1 : q[i] = seq[i + 1]
  BY HeadTailProperties, LenProperties, EmptySeq
<1> HIDE DEF q, h
<1>2. \A i \in DOMAIN seq : i = 1 \/ (i - 1 \in DOMAIN q /\ seq[i] = q[i - 1])
  BY <1>1
<1>3. Elements(seq) = Elements(q) \cup {h}
  <2>1. ASSUME NEW x \in Elements(seq) PROVE x \in Elements(q) \cup {h}
    BY <1>1, <1>2 DEF Elements
  <2>2. ASSUME NEW x \in Elements(q) PROVE x \in Elements(seq)
    <3>1. PICK i \in DOMAIN q : x = q[i]
      BY DEF Elements
    <3>2. i + 1 \in DOMAIN seq /\ x = seq[i + 1]
      BY <1>1, <3>1
    <3> QED BY <3>2 DEF Elements
  <2>3. h \in Elements(seq)
    BY <1>1 DEF Elements
  <2> QED BY <2>1, <2>2, <2>3
<1>4. ASSUME Distinct(seq) PROVE Distinct(q) /\ h \notin Elements(q)
  <2>1. \A i \in DOMAIN q : i + 1 \in DOMAIN seq /\ q[i] = seq[i + 1] /\ i + 1 # 1
    BY <1>1
  <2>2. h \notin Elements(q)
    BY <1>1, <1>4, <2>1 DEF Elements, Distinct
  <2>3. ASSUME NEW j \in DOMAIN q, NEW k \in DOMAIN q, q[j] = q[k] PROVE j = k
    <3>1. j + 1 = k + 1
      BY <1>4, <2>1, <2>3 DEF Distinct
    <3> QED BY <1>1, <3>1
  <2> QED BY <2>2, <2>3 DEF Distinct
<1>5. ASSUME Sorted(seq, clock) PROVE Sorted(q, clock)
  <2> SUFFICES ASSUME NEW j \in DOMAIN q, NEW k \in DOMAIN q, j < k
               PROVE  clock[q[j]] < clock[q[k]]
    BY DEF Sorted
  <2>1. /\ j + 1 \in DOMAIN seq /\ k + 1 \in DOMAIN seq /\ j + 1 < k + 1
        /\ q[j] = seq[j + 1] /\ q[k] = seq[k + 1]
    BY <1>1
  <2> QED BY <1>5, <2>1 DEF Sorted
<1> QED BY <1>1, <1>3, <1>4, <1>5 DEF q, h

-----------------------------------------------------------------------------
(***************************************************************************)
(* Counting.                                                               *)
(***************************************************************************)
LEMMA DistinctLen ==
  ASSUME NEW T, NEW seq \in Seq(T), Distinct(seq)
  PROVE  IsFiniteSet(Elements(seq)) /\ Cardinality(Elements(seq)) = Len(seq)
<1>1. Len(seq) \in Nat /\ DOMAIN seq = 1 .. Len(seq) /\ seq \in [1 .. Len(seq) -> T]
  BY LenProperties
<1>2. seq \in Bijection(1 .. Len(seq), Elements(seq))
  <2>1. seq \in [1 .. Len(seq) -> Elements(seq)]
    BY <1>1 DEF Elements
  <2>2. \A a, b \in 1 .. Len(seq) : seq[a] = seq[b] => a = b
    BY <1>1 DEF Distinct
  <2>3. \A x \in Elements(seq) : \E a \in 1 .. Len(seq) : seq[a] = x
    BY <1>1 DEF Elements
  <2> DEFINE I == 1 .. Len(seq)  E == Elements(seq)
  <2>4. /\ seq \in [I -> E]
        /\ \A a, b \in I : seq[a] = seq[b] => a = b
        /\ \A x \in E : \E a \in I : seq[a] = x
    BY <2>1, <2>2, <2>3
  <2> HIDE DEF I, E
  <2>5. seq \in Injection(I, E)
    BY <2>4 DEF Injection, IsInjective
  <2>6. seq \in Surjection(I, E)
    BY <2>4 DEF Surjection
  <2>7. seq \in Bijection(I, E)
    BY <2>5, <2>6 DEF Bijection
  <2> QED BY <2>7 DEF I, E
<1>3. IsFiniteSet(1 .. Len(seq)) /\ Cardinality(1 .. Len(seq)) = Len(seq)
  BY <1>1, FS_Interval
<1> QED BY <1>2, <1>3, FS_Bijection DEF ExistsBijection

\* As many positions as elements: none occurs twice.
LEMMA LenDistinct ==
  ASSUME NEW T, NEW seq \in Seq(T), Len(seq) = Cardinality(Elements(seq))
  PROVE  Distinct(seq)
<1> DEFINE I == 1 .. Len(seq)  E == Elements(seq)
<1>1. Len(seq) \in Nat /\ DOMAIN seq = I
  BY LenProperties
<1>2. seq \in Surjection(I, E)
  <2>1. seq \in [I -> E]
    BY <1>1, LenProperties DEF Elements
  <2>2. \A x \in E : \E a \in I : seq[a] = x
    BY <1>1 DEF Elements
  <2> HIDE DEF I, E
  <2> QED BY <2>1, <2>2 DEF Surjection
<1>3. IsFiniteSet(I) /\ Cardinality(I) = Cardinality(E)
  BY <1>1, FS_Interval
<1> HIDE DEF I, E
<1>4. seq \in Injection(I, E)
  BY <1>2, <1>3, FS_SurjSameCardinalityImpliesInj
<1> QED BY <1>1, <1>4 DEF Distinct, Injection, IsInjective

\* A set of positions that leaves out none before one it has.
LEMMA PrefixCount ==
  ASSUME NEW n \in Nat, NEW A \in SUBSET (1 .. n),
         \A k \in A, j \in 1 .. n : j < k => j \in A
  PROVE  Cardinality(A) \in 0 .. n /\ A = 1 .. Cardinality(A)
<1>1. \E m \in 0 .. n : A = 1 .. m
  <2>1. CASE A = 1 .. n
    BY <2>1
  <2>2. CASE A # 1 .. n
    <3> DEFINE B == (1 .. n) \ A
    <3>0. B # {}
      <4> SUFFICES ASSUME \A j \in 1 .. n : j \in A PROVE A = 1 .. n
        BY <2>2
      <4>1. \A j \in A : j \in 1 .. n
        OBVIOUS
      <4> QED BY <4>1, Zenon
    <3>1. B \subseteq Nat /\ B # {} /\ \A j : j \in B <=> (j \in 1 .. n /\ j \notin A)
      BY <3>0
    <3> HIDE DEF B
    <3>2. PICK k \in B : \A j \in B : k <= j
      BY <3>1, LeastNumber
    <3>3. k \in 1 .. n /\ k \notin A
      BY <3>1, <3>2
    <3>4. ASSUME NEW j \in 1 .. n PROVE j \in A <=> j \in 1 .. k - 1
      <4>1. j < k => j \in A
        BY <3>1, <3>2, <3>3, <3>4
      <4>2. j = k => j \notin A
        BY <3>3
      <4>3. k < j => j \notin A
        BY <3>3, <3>4
      <4> QED BY <3>3, <4>1, <4>2, <4>3
    <3>5. A = 1 .. k - 1
      <4>1. \A j : j \in A => j \in 1 .. n
        OBVIOUS
      <4>2. \A j : j \in 1 .. k - 1 => j \in 1 .. n
        BY <3>3
      <4>3. \A j : j \in A <=> j \in 1 .. k - 1
        BY <3>4, <4>1, <4>2
      <4> QED BY <4>3, Zenon
    <3> QED BY <3>3, <3>5
  <2> QED BY <2>1, <2>2
<1>2. PICK m \in 0 .. n : A = 1 .. m
  BY <1>1
<1>3. Cardinality(1 .. m) = m
  BY <1>2, FS_Interval
<1> QED BY <1>2, <1>3

\* The elements of S before x.
Before(S, clock, x) == {y \in S : clock[y] < clock[x]}

LEMMA SortedDistinct ==
  ASSUME NEW T, NEW seq \in Seq(T), NEW clock \in [T -> Nat], Sorted(seq, clock)
  PROVE  Distinct(seq)
<1>1. DOMAIN seq \subseteq Nat /\ \A j \in DOMAIN seq : seq[j] \in T
  BY LenProperties
<1> SUFFICES ASSUME NEW j \in DOMAIN seq, NEW k \in DOMAIN seq, seq[j] = seq[k], j < k
             PROVE  FALSE
  BY <1>1 DEF Distinct
<1>2. clock[seq[j]] < clock[seq[k]] /\ clock[seq[j]] \in Nat
  BY <1>1 DEF Sorted
<1> QED BY <1>2

\* The position of an element of a sorted list is the number of smaller ones.
LEMMA SortedRank ==
  ASSUME NEW T, NEW seq \in Seq(T), NEW clock \in [T -> Nat], Sorted(seq, clock),
         NEW n \in DOMAIN seq
  PROVE  Cardinality(Before(Elements(seq), clock, seq[n])) = n - 1
<1>1. /\ Len(seq) \in Nat /\ DOMAIN seq = 1 .. Len(seq) /\ n - 1 \in 0 .. Len(seq)
      /\ \A j \in DOMAIN seq : seq[j] \in T
  BY LenProperties
<1>2. Distinct(seq)
  BY SortedDistinct
<1> DEFINE p == SubSeq(seq, 1, n - 1)
<1>3. /\ p \in Seq(T) /\ Len(p) = n - 1 /\ Distinct(p)
      /\ Elements(p) = {seq[j] : j \in 1 .. n - 1}
  BY <1>1, <1>2, PrefixFacts
<1>4. Elements(p) = Before(Elements(seq), clock, seq[n])
  <2>1. ASSUME NEW j \in DOMAIN seq PROVE clock[seq[j]] < clock[seq[n]] <=> j < n
    <3>1. clock[seq[j]] \in Nat /\ clock[seq[n]] \in Nat
      BY <1>1
    <3>2. j < n => clock[seq[j]] < clock[seq[n]]
      BY DEF Sorted
    <3>3. n < j => clock[seq[n]] < clock[seq[j]]
      BY DEF Sorted
    <3> QED BY <1>1, <3>1, <3>2, <3>3
  <2>2. \A j : j \in 1 .. n - 1 <=> j \in DOMAIN seq /\ j < n
    BY <1>1
  <2> HIDE DEF p
  <2> QED BY <1>3, <2>1, <2>2 DEF Elements, Before
<1> HIDE DEF p
<1> QED BY <1>3, <1>4, DistinctLen

\* The first of a sorted list, at most free of them, are those that have fewer
\* than free before them.
LEMMA FirstFacts ==
  ASSUME NEW T, NEW seq \in Seq(T), NEW clock \in [T -> Nat], Sorted(seq, clock),
         NEW free \in Int, NEW p,
         p = SubSeq(seq, 1, IF free < Len(seq) THEN free ELSE Len(seq))
  PROVE  /\ p \in Seq(T) /\ Distinct(p) /\ Sorted(p, clock)
         /\ \A x : x \in Elements(p)
                     <=> x \in Elements(seq) /\ Cardinality(Before(Elements(seq), clock, x)) < free
         /\ \A x \in Elements(p), y \in Elements(seq) \ Elements(p) : clock[x] < clock[y]
<1> DEFINE n == IF free < Len(seq) THEN free ELSE Len(seq)
           Rank(x) == Cardinality(Before(Elements(seq), clock, x))
<1>0. p = SubSeq(seq, 1, n)
  OBVIOUS
<1>1. Len(seq) \in Nat /\ DOMAIN seq = 1 .. Len(seq) /\ n \in Int
  BY LenProperties
<1>2. \A j \in DOMAIN seq : Rank(seq[j]) = j - 1
  BY SortedRank
<1>3. Distinct(seq)
  BY SortedDistinct
<1>4. {x \in Elements(seq) : Rank(x) < free} = {seq[j] : j \in 1 .. n}
  <2>1. \A j \in DOMAIN seq : Rank(seq[j]) < free <=> j \in 1 .. n
    BY <1>1, <1>2
  <2>2. 1 .. n \subseteq DOMAIN seq
    BY <1>1
  <2> HIDE DEF Rank, n
  <2> QED BY <2>1, <2>2 DEF Elements
<1> HIDE DEF Rank
<1>5. CASE n < 0
  <2>1. p = <<>>
    BY <1>0, <1>1, <1>5, SubSeqEmpty
  <2>2. {seq[j] : j \in 1 .. n} = {}
    BY <1>1, <1>5
  <2>3. /\ <<>> \in Seq(T) /\ Distinct(<<>>) /\ Sorted(<<>>, clock) /\ Elements(<<>>) = {}
    BY DEF Distinct, Sorted, Elements
  <2> HIDE DEF n
  <2> QED BY <1>4, <2>1, <2>2, <2>3 DEF Rank
<1>6. CASE n >= 0
  <2>1. n \in 0 .. Len(seq)
    BY <1>1, <1>6
  <2> HIDE DEF n
  <2>2. /\ p \in Seq(T) /\ Distinct(p) /\ Sorted(p, clock)
        /\ Elements(p) = {seq[j] : j \in 1 .. n}
        /\ \A x \in Elements(p), y \in Elements(seq) \ Elements(p) : clock[x] < clock[y]
    <3>1. p \in Seq(T) /\ Distinct(p) /\ Elements(p) = {seq[j] : j \in 1 .. n}
      <4>1. /\ SubSeq(seq, 1, n) \in Seq(T) /\ Distinct(SubSeq(seq, 1, n))
            /\ Elements(SubSeq(seq, 1, n)) = {seq[j] : j \in 1 .. n}
        BY <1>3, <2>1, PrefixFacts, Zenon
      <4> QED BY <1>0, <4>1
    <3>2. Sorted(p, clock)
      BY <1>0, <2>1, PrefixSorted
    <3>3. \A x \in Elements(p), y \in Elements(seq) \ Elements(p) : clock[x] < clock[y]
      BY <1>0, <2>1, PrefixSorted
    <3> QED BY <3>1, <3>2, <3>3
  <2>3. \A x : x \in Elements(p) <=> x \in Elements(seq) /\ Rank(x) < free
    BY <1>4, <2>2
  <2> QED BY <2>2, <2>3 DEF Rank
<1> QED BY <1>1, <1>5, <1>6
=============================================================================

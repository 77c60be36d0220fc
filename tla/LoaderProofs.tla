---------------------------- MODULE LoaderProofs ----------------------------
(***************************************************************************)
(* Theorems about modules Loader and HexFiles: for digits of any base, and *)
(* files with any number of lines of any length.                           *)
(***************************************************************************)
EXTENDS HexFiles, MemoryTheorems, ListTheorems

-----------------------------------------------------------------------------
(***************************************************************************)
(* Finding characters.                                                     *)
(***************************************************************************)
LEMMA MinOf ==
  ASSUME NEW S, S \subseteq Nat, S # {}
  PROVE  Min(S) \in S /\ \A n \in S : Min(S) <= n
BY LeastNumber DEF Min

LEMMA MaxOf ==
  ASSUME NEW n \in Nat, NEW S, S \subseteq 0 .. n, S # {}
  PROVE  Max(S) \in S /\ \A k \in S : k <= Max(S)
<1> DEFINE T == {n - k : k \in S}
<1>1. T \subseteq Nat /\ T # {}
  OBVIOUS
<1>2. PICK t \in T : \A k \in T : t <= k
  <2> HIDE DEF T
  <2> QED BY <1>1, LeastNumber
<1>3. PICK m \in S : t = n - m
  BY <1>2
<1>4. \A k \in S : k <= m
  BY <1>2, <1>3
<1>5. \E x \in S : \A y \in S : x >= y
  BY <1>4
<1> QED BY <1>5 DEF Max

LEMMA FirstFound ==
  ASSUME NEW text \in Seq(Char), NEW S, NEW from \in Nat
  PROVE  LET p == find_first_of(text, S, from) IN
         /\ p = 0 => \A j \in DOMAIN text : j >= from => text[j] \notin S
         /\ p # 0 => /\ p \in DOMAIN text /\ p >= from /\ text[p] \in S
                     /\ \A j \in DOMAIN text : j >= from /\ j < p => text[j] \notin S
<1> DEFINE found == {j \in DOMAIN text : j >= from /\ text[j] \in S}
<1>1. found \subseteq Nat /\ 0 \notin found
  OBVIOUS
<1>2. find_first_of(text, S, from) = IF found = {} THEN 0 ELSE Min(found)
  BY DEF find_first_of
<1>3. CASE found = {}
  BY <1>2, <1>3
<1>4. CASE found # {}
  <2>1. Min(found) \in found /\ \A n \in found : Min(found) <= n
    <3> HIDE DEF found
    <3> QED BY <1>1, <1>4, MinOf
  <2> DEFINE p == find_first_of(text, S, from)
  <2>2. p = Min(found)
    BY <1>2, <1>4
  <2> HIDE DEF p
  <2>3. /\ p # 0 /\ p \in DOMAIN text /\ p >= from /\ text[p] \in S
        /\ \A j \in found : p <= j
    BY <1>1, <2>1, <2>2
  <2>4. \A j \in DOMAIN text : j >= from /\ j < p => text[j] \notin S
    BY <2>3
  <2> QED BY <2>3, <2>4 DEF p
<1> QED BY <1>3, <1>4

\* The first character of S is where one stands and none before it.
LEMMA FirstAt ==
  ASSUME NEW text \in Seq(Char), NEW S, NEW from \in Nat,
         NEW p \in DOMAIN text, p >= from, text[p] \in S,
         \A j \in DOMAIN text : j >= from /\ j < p => text[j] \notin S
  PROVE  find_first_of(text, S, from) = p
<1> DEFINE q == find_first_of(text, S, from)
<1>1. /\ q = 0 => \A j \in DOMAIN text : j >= from => text[j] \notin S
      /\ q # 0 => /\ q \in DOMAIN text /\ q >= from /\ text[q] \in S
                  /\ \A j \in DOMAIN text : j >= from /\ j < q => text[j] \notin S
  BY FirstFound
<1> HIDE DEF q
<1>2. q # 0
  BY <1>1
<1>3. ~(q < p) /\ ~(p < q) /\ p \in Nat /\ q \in Nat
  BY <1>1, <1>2
<1>4. q = p
  BY <1>3
<1> QED BY <1>4 DEF q

LEMMA NoneFound ==
  ASSUME NEW text \in Seq(Char), NEW S, NEW from \in Nat,
         \A j \in DOMAIN text : j >= from => text[j] \notin S
  PROVE  find_first_of(text, S, from) = 0
BY FirstFound

LEMMA LastFound ==
  ASSUME NEW text \in Seq(Char), NEW S
  PROVE  LET p == find_last_of(text, S) IN
         /\ p = 0 => \A j \in DOMAIN text : text[j] \notin S
         /\ p # 0 => /\ p \in DOMAIN text /\ text[p] \in S
                     /\ \A j \in DOMAIN text : j > p => text[j] \notin S
<1> DEFINE found == {j \in DOMAIN text : text[j] \in S}
<1>1. found \subseteq 0 .. Len(text) /\ 0 \notin found /\ Len(text) \in Nat
  OBVIOUS
<1>2. find_last_of(text, S) = IF found = {} THEN 0 ELSE Max(found)
  BY DEF find_last_of
<1>3. CASE found = {}
  BY <1>2, <1>3
<1>4. CASE found # {}
  <2>1. Max(found) \in found /\ \A k \in found : k <= Max(found)
    <3> HIDE DEF found
    <3> QED BY <1>1, <1>4, MaxOf
  <2> DEFINE p == find_last_of(text, S)
  <2>2. p = Max(found)
    BY <1>2, <1>4
  <2> HIDE DEF p
  <2>3. /\ p # 0 /\ p \in DOMAIN text /\ text[p] \in S
        /\ \A j \in found : j <= p
    BY <1>1, <2>1, <2>2
  <2>4. \A j \in DOMAIN text : j > p => text[j] \notin S
    BY <2>3
  <2> QED BY <2>3, <2>4 DEF p
<1> QED BY <1>3, <1>4

LEMMA LastAt ==
  ASSUME NEW text \in Seq(Char), NEW S, NEW p \in DOMAIN text, text[p] \in S,
         \A j \in DOMAIN text : j > p => text[j] \notin S
  PROVE  find_last_of(text, S) = p
<1> DEFINE q == find_last_of(text, S)
<1>1. /\ q = 0 => \A j \in DOMAIN text : text[j] \notin S
      /\ q # 0 => /\ q \in DOMAIN text /\ text[q] \in S
                  /\ \A j \in DOMAIN text : j > q => text[j] \notin S
  BY LastFound
<1> HIDE DEF q
<1>2. q # 0
  BY <1>1
<1>3. ~(q < p) /\ ~(p < q) /\ p \in Nat /\ q \in Nat
  BY <1>1, <1>2
<1>4. q = p
  BY <1>3
<1> QED BY <1>4 DEF q

LEMMA ContentText ==
  ASSUME NEW text \in Seq(Char) PROVE content(text) \in Seq(Char)
<1> DEFINE hash == find_first_of(text, {Hash}, 1)
<1>1. hash # 0 => hash \in DOMAIN text
  BY FirstFound
<1> HIDE DEF hash
<1>2. hash # 0 => SubSeq(text, 1, hash - 1) \in Seq(Char)
  BY <1>1
<1> QED BY <1>2 DEF content, hash

-----------------------------------------------------------------------------
(***************************************************************************)
(* The value of digits.                                                    *)
(***************************************************************************)
LEMMA ValueDefined ==
  ASSUME NEW text \in Seq(Char)
  PROVE  \E value :
           /\ value = [n \in 0 .. Len(text) |->
                         IF n = 0 THEN 0 ELSE value[n - 1] * D + text[n]]
           /\ hexValue(text) = LET v == value[Cardinality(leadingDigits(text))]
                               IN  IF v < WordMod THEN v ELSE WordMod - 1
<1> DEFINE Next(f, n) == IF n = 0 THEN 0 ELSE f[n - 1] * D + text[n]
           Upto == {m \in Nat : \E f : f = [n \in 0 .. m |-> Next(f, n)]}
<1>1. 0 \in Upto
  <2> DEFINE g == [n \in 0 .. 0 |-> 0]
  <2>1. g = [n \in 0 .. 0 |-> Next(g, n)]
    OBVIOUS
  <2> QED BY <2>1
<1>2. ASSUME NEW m \in Upto PROVE m + 1 \in Upto
  <2>1. PICK f : f = [n \in 0 .. m |-> Next(f, n)]
    BY <1>2
  <2> DEFINE g == [n \in 0 .. m + 1 |-> IF n = m + 1 THEN Next(f, n) ELSE f[n]]
  <2>2. ASSUME NEW n \in 0 .. m + 1 PROVE g[n] = Next(g, n)
    <3>1. CASE n = 0
      BY <2>1, <3>1
    <3>2. CASE n # 0
      <4>1. g[n - 1] = f[n - 1]
        BY <3>2
      <4>2. CASE n = m + 1
        BY <3>2, <4>1, <4>2
      <4>3. CASE n \in 0 .. m
        BY <2>1, <3>2, <4>1, <4>3
      <4> QED BY <4>2, <4>3
    <3> QED BY <3>1, <3>2
  <2>3. g = [n \in 0 .. m + 1 |-> Next(g, n)]
    <3>1. DOMAIN g = 0 .. m + 1
      OBVIOUS
    <3> HIDE DEF Next
    <3> QED BY <2>2, <3>1
  <2> HIDE DEF g, Next
  <2> QED BY <2>3
<1>3. Len(text) \in Upto
  <2> HIDE DEF Upto
  <2>1. Upto \subseteq Nat
    BY DEF Upto
  <2>2. Upto = Nat
    BY <1>1, <1>2, <2>1, Induct
  <2>3. Len(text) \in Nat
    BY LenProperties
  <2> QED BY <2>2, <2>3
<1> DEFINE Whole(f) == [n \in 0 .. Len(text) |-> Next(f, n)]
           value == CHOOSE f : f = Whole(f)
<1>4. value = Whole(value)
  <2>1. \E f : f = Whole(f)
    BY <1>3
  <2> HIDE DEF Whole
  <2> QED BY <2>1
<1>5. hexValue(text) = LET v == value[Cardinality(leadingDigits(text))]
                       IN  IF v < WordMod THEN v ELSE WordMod - 1
  BY Zenon DEF hexValue
<1> HIDE DEF value
<1> QED BY <1>4, <1>5

\* How many digits a text begins with.
LEMMA LeadingCount ==
  ASSUME NEW text \in Seq(Char), NEW n \in 0 .. Len(text),
         \A j \in 1 .. n : text[j] \in Digit,
         n < Len(text) => text[n + 1] \notin Digit
  PROVE  Cardinality(leadingDigits(text)) = n
<1>1. leadingDigits(text) = 1 .. n
  <2>1. ASSUME NEW j \in leadingDigits(text) PROVE j \in 1 .. n
    <3>1. j \in DOMAIN text /\ \A k \in 1 .. j : text[k] \in Digit
      BY DEF leadingDigits, HEX_DIGIT
    <3>2. ~(j > n)
      BY <3>1
    <3> QED BY <3>1, <3>2
  <2>2. ASSUME NEW j \in 1 .. n PROVE j \in leadingDigits(text)
    BY DEF leadingDigits, HEX_DIGIT
  <2> QED BY <2>1, <2>2
<1>2. Cardinality(1 .. n) = n
  BY FS_Interval
<1> QED BY <1>1, <1>2

LEMMA LeadingExists ==
  ASSUME NEW text \in Seq(Char)
  PROVE  \E n \in 0 .. Len(text) :
           /\ \A j \in 1 .. n : text[j] \in Digit
           /\ Cardinality(leadingDigits(text)) = n
<1> DEFINE others == {j \in DOMAIN text : text[j] \notin Digit}
<1>1. CASE others = {}
  <2>1. \A j \in 1 .. Len(text) : text[j] \in Digit
    BY <1>1
  <2> QED BY <2>1, LeadingCount
<1>2. CASE others # {}
  <2>0. others \subseteq Nat
    OBVIOUS
  <2>1. PICK m \in others : \A j \in others : m <= j
    <3> HIDE DEF others
    <3> QED BY <1>2, <2>0, LeastNumber
  <2>2. m - 1 \in 0 .. Len(text) /\ \A j \in 1 .. (m - 1) : text[j] \in Digit
    BY <2>1
  <2>3. text[(m - 1) + 1] \notin Digit
    BY <2>1
  <2> QED BY <2>2, <2>3, LeadingCount
<1> QED BY <1>1, <1>2

LEMMA DigitBase == D \in Nat /\ D >= 2 /\ Digit = 0 .. (D - 1)
BY LoaderAssumption DEF Digit

LEMMA DigitAdded ==
  ASSUME NEW a \in Nat, NEW b \in Nat, NEW c \in Nat PROVE a * b + c \in Nat
OBVIOUS

LEMMA ValueNat ==
  ASSUME NEW text \in Seq(Char), NEW value,
         value = [n \in 0 .. Len(text) |-> IF n = 0 THEN 0 ELSE value[n - 1] * D + text[n]],
         NEW n \in 0 .. Len(text), \A j \in 1 .. n : text[j] \in Digit
  PROVE  value[n] \in Nat
<1> DEFINE Upto == {m \in Nat : m <= n => value[m] \in Nat}
<1>1. 0 \in Upto
  OBVIOUS
<1>2. ASSUME NEW m \in Upto PROVE m + 1 \in Upto
  <2> SUFFICES ASSUME m + 1 <= n PROVE value[m + 1] \in Nat
    OBVIOUS
  <2>1. value[m] \in Nat /\ text[m + 1] \in Nat /\ D \in Nat
    BY DigitBase
  <2>2. value[m + 1] = value[m] * D + text[m + 1]
    OBVIOUS
  <2> QED BY <2>1, <2>2, DigitAdded
<1>3. Upto = Nat
  <2>1. Upto \subseteq Nat
    OBVIOUS
  <2> HIDE DEF Upto
  <2> QED BY <1>1, <1>2, <2>1, Induct
<1>4. n \in Upto
  <2>1. n \in Nat
    OBVIOUS
  <2> HIDE DEF Upto
  <2> QED BY <1>3, <2>1, Zenon
<1> QED BY <1>4

LEMMA HexValueWord ==
  ASSUME NEW text \in Seq(Char) PROVE hexValue(text) \in Word
<1>1. PICK value :
        /\ value = [n \in 0 .. Len(text) |-> IF n = 0 THEN 0 ELSE value[n - 1] * D + text[n]]
        /\ hexValue(text) = LET v == value[Cardinality(leadingDigits(text))]
                            IN  IF v < WordMod THEN v ELSE WordMod - 1
  BY ValueDefined
<1>2. value[Cardinality(leadingDigits(text))] \in Nat
  BY <1>1, LeadingExists, ValueNat
<1> QED BY <1>1, <1>2, WordModNat DEF Word

\* Up to two characters are no more than a byte.
LEMMA HexValueByte ==
  ASSUME NEW text \in Seq(Char), Len(text) <= 2 PROVE hexValue(text) \in Byte
<1>1. PICK value :
        /\ value = [n \in 0 .. Len(text) |-> IF n = 0 THEN 0 ELSE value[n - 1] * D + text[n]]
        /\ hexValue(text) = LET v == value[Cardinality(leadingDigits(text))]
                            IN  IF v < WordMod THEN v ELSE WordMod - 1
  BY ValueDefined
<1>2. PICK n \in 0 .. Len(text) : /\ \A j \in 1 .. n : text[j] \in Digit
                                  /\ Cardinality(leadingDigits(text)) = n
  BY LeadingExists
<1>3. value[n] \in 0 .. (D * D - 1)
  <2>1. D \in Nat /\ D >= 2 /\ D * D \in Nat /\ D * D >= D
    BY DigitBase
  <2>2. CASE n = 0
    BY <1>1, <2>1, <2>2
  <2>3. CASE n = 1
    <3>1. value[1] = text[1] /\ text[1] \in 0 .. (D - 1)
      BY <1>1, <1>2, <2>1, <2>3, DigitBase
    <3> QED BY <2>1, <2>3, <3>1
  <2>4. CASE n = 2
    <3>1. text[1] \in 0 .. (D - 1) /\ text[2] \in 0 .. (D - 1)
      BY <1>2, <2>4, DigitBase
    <3>2. value[1] = text[1] /\ value[2] = value[1] * D + text[2]
      BY <1>1, <2>1, <2>4, <3>1
    <3>3. ASSUME NEW d \in Nat \ {0}, NEW a \in 0 .. (d - 1), NEW b \in 0 .. (d - 1)
          PROVE  a * d + b \in 0 .. (d * d - 1)
      <4>1. a * d \in Nat /\ (d - 1 - a) * d \in Nat
        OBVIOUS
      <4>2. (d - 1 - a) * d + a * d = d * d - d
        OBVIOUS
      <4>3. d * d \in Nat
        OBVIOUS
      <4> QED BY <4>1, <4>2, <4>3
    <3>4. text[1] * D + text[2] \in 0 .. (D * D - 1)
      <4>1. D \in Nat \ {0}
        BY <2>1
      <4> QED BY <3>1, <3>3, <4>1, Zenon
    <3>5. value[n] = text[1] * D + text[2]
      BY <2>4, <3>2, Zenon
    <3> QED BY <3>4, <3>5, Zenon
  <2>5. n = 0 \/ n = 1 \/ n = 2
    BY <1>2
  <2> QED BY <2>2, <2>3, <2>4, <2>5, Zenon
<1>4. hexValue(text) \in Nat /\ hexValue(text) <= value[n]
  BY <1>1, <1>2, <1>3, WordModNat
<1> QED BY <1>3, <1>4, LoaderAssumption DEF Byte

-----------------------------------------------------------------------------
(***************************************************************************)
(* The bytes of a line.                                                    *)
(***************************************************************************)
\* What the loop makes of the characters from j on, given what it makes of the
\* characters behind.
bytesFrom(data, f, j) ==
  IF j > Len(data) THEN <<>>
  ELSE IF data[j] = Space THEN f[j + 1]
  ELSE IF j = Len(data) \/ data[j + 1] = Space
       THEN <<hexValue(<<data[j]>>)>> \o f[j + 1]
       ELSE <<hexValue(SubSeq(data, j, j + 1))>> \o f[j + 2]

LEMMA BytesFromRest ==
  ASSUME NEW data, NEW L \in Nat, L = Len(data), NEW f, NEW g, NEW j \in 1 .. (L + 1),
         \A i \in 1 .. (L + 1) : i > j => f[i] = g[i]
  PROVE  bytesFrom(data, f, j) = bytesFrom(data, g, j)
<1>1. CASE j > L
  BY <1>1 DEF bytesFrom
<1>2. CASE j <= L
  <2>1. f[j + 1] = g[j + 1]
    BY <1>2
  <2>2. j # L => f[j + 2] = g[j + 2]
    BY <1>2
  <2> QED BY <1>2, <2>1, <2>2 DEF bytesFrom
<1> QED BY <1>1, <1>2

IsFrom(f, data) == f = [j \in 1 .. (Len(data) + 1) |-> bytesFrom(data, f, j)]

LEMMA FromDefined ==
  ASSUME NEW data, Len(data) \in Nat
  PROVE  \E f : IsFrom(f, data)
<1> SUFFICES ASSUME NEW L \in Nat, L = Len(data)
             PROVE  \E f : f = [j \in 1 .. (L + 1) |-> bytesFrom(data, f, j)]
  BY DEF IsFrom
<1> DEFINE Is(f, m) == f = [j \in (L + 1 - m) .. (L + 1) |-> bytesFrom(data, f, j)]
           Upto == {m \in Nat : m <= L => \E f : Is(f, m)}
<1>1. 0 \in Upto
  <2> DEFINE g == [j \in (L + 1 - 0) .. (L + 1) |-> <<>>]
  <2>1. ASSUME NEW j \in (L + 1 - 0) .. (L + 1) PROVE bytesFrom(data, g, j) = <<>>
    <3>1. j > Len(data)
      OBVIOUS
    <3> QED BY <3>1 DEF bytesFrom
  <2>2. Is(g, 0)
    BY <2>1
  <2> QED BY <2>2
<1>2. ASSUME NEW m \in Upto PROVE m + 1 \in Upto
  <2>0. m \in Nat /\ (m <= L => \E f : Is(f, m))
    OBVIOUS
  <2> SUFFICES ASSUME m + 1 <= L PROVE \E f : Is(f, m + 1)
    BY <2>0
  <2>1. PICK k \in 1 .. L : k = L - m /\ L + 1 - m = k + 1 /\ L + 1 - (m + 1) = k
    BY <2>0
  <2>2. PICK f : f = [j \in (k + 1) .. (L + 1) |-> bytesFrom(data, f, j)]
    <3>1. PICK f : Is(f, m)
      BY <2>0
    <3> QED BY <2>1, <3>1
  <2> DEFINE g == [j \in k .. (L + 1) |-> IF j = k THEN bytesFrom(data, f, j) ELSE f[j]]
  <2>3. ASSUME NEW j \in k .. (L + 1) PROVE g[j] = bytesFrom(data, g, j)
    <3>1. \A i \in 1 .. (L + 1) : i > j => f[i] = g[i]
      BY <2>1
    <3>2. j \in 1 .. (L + 1)
      BY <2>1
    <3> HIDE DEF g
    <3>3. bytesFrom(data, f, j) = bytesFrom(data, g, j)
      BY <3>1, <3>2, BytesFromRest
    <3>4. g[j] = IF j = k THEN bytesFrom(data, f, j) ELSE f[j]
      BY DEF g
    <3>5. j # k => f[j] = bytesFrom(data, f, j)
      <4>1. j # k => j \in (k + 1) .. (L + 1)
        BY <2>1
      <4> QED BY <2>2, <4>1
    <3> QED BY <3>3, <3>4, <3>5
  <2>4. g = [j \in k .. (L + 1) |-> bytesFrom(data, g, j)]
    <3>1. DOMAIN g = k .. (L + 1) /\ g = [j \in DOMAIN g |-> g[j]]
      OBVIOUS
    <3> HIDE DEF g
    <3> QED BY <2>3, <3>1
  <2> HIDE DEF g
  <2>5. Is(g, m + 1)
    BY <2>1, <2>4
  <2> QED BY <2>5
<1>3. Upto = Nat
  <2>1. Upto \subseteq Nat
    OBVIOUS
  <2> HIDE DEF Upto
  <2> QED BY <1>1, <1>2, <2>1, Induct
<1>4. PICK f : Is(f, L)
  <2> HIDE DEF Is
  <2>1. L \in Upto
    BY <1>3
  <2> QED BY <2>1
<1>5. L + 1 - L = 1
  OBVIOUS
<1> QED BY <1>4, <1>5

LEMMA BufferDefined ==
  ASSUME NEW text, NEW data, data = SubSeq(text, start(text), end(text)), Len(data) \in Nat
  PROVE  \E f : IsFrom(f, data) /\ buffer(text) = f[1]
<1> DEFINE from == CHOOSE f : IsFrom(f, data)
<1>1. IsFrom(from, data)
  BY FromDefined
<1>2. buffer(text) = from[1]
  BY Zenon DEF buffer, bytesFrom, IsFrom
<1> HIDE DEF from
<1> QED BY <1>1, <1>2

LEMMA DataText ==
  ASSUME NEW text \in Seq(Char), start(text) # 0
  PROVE  /\ start(text) \in DOMAIN text /\ end(text) \in DOMAIN text
         /\ SubSeq(text, start(text), end(text)) \in Seq(Char)
<1>1. colon(text) + 1 \in Nat
  BY FirstFound DEF colon
<1>2. start(text) \in DOMAIN text /\ text[start(text)] \in HEX_DIGIT
  BY <1>1, FirstFound DEF start
<1>3. end(text) \in DOMAIN text
  BY <1>2, LastFound DEF end
<1> QED BY <1>2, <1>3

LEMMA OneCharacter ==
  ASSUME NEW c \in Char PROVE hexValue(<<c>>) \in Byte
<1> DEFINE t == <<c>>
<1>1. t \in Seq(Char) /\ Len(t) <= 2
  OBVIOUS
<1> HIDE DEF t
<1>2. hexValue(t) \in Byte
  BY <1>1, HexValueByte
<1> QED BY <1>2 DEF t

LEMMA TwoCharacters ==
  ASSUME NEW text \in Seq(Char), NEW j \in 1 .. Len(text), j < Len(text)
  PROVE  /\ SubSeq(text, j, j + 1) \in Seq(Char) /\ Len(SubSeq(text, j, j + 1)) = 2
         /\ SubSeq(text, j, j + 1)[1] = text[j] /\ SubSeq(text, j, j + 1)[2] = text[j + 1]
OBVIOUS

LEMMA BytesFromType ==
  ASSUME NEW data \in Seq(Char), NEW f, NEW j \in 1 .. (Len(data) + 1),
         j <= Len(data) => f[j + 1] \in Seq(Byte), j < Len(data) => f[j + 2] \in Seq(Byte)
  PROVE  bytesFrom(data, f, j) \in Seq(Byte)
<1>1. Len(data) \in Nat /\ <<>> \in Seq(Byte)
  OBVIOUS
<1>2. ASSUME NEW b \in Byte, NEW s \in Seq(Byte) PROVE <<b>> \o s \in Seq(Byte)
  OBVIOUS
<1>3. CASE j > Len(data)
  BY <1>3, <1>1 DEF bytesFrom
<1>4. CASE j <= Len(data) /\ data[j] = Space
  BY <1>1, <1>4 DEF bytesFrom
<1>5. CASE j <= Len(data) /\ data[j] # Space /\ (j = Len(data) \/ data[j + 1] = Space)
  <2>1. bytesFrom(data, f, j) = <<hexValue(<<data[j]>>)>> \o f[j + 1]
    BY <1>1, <1>5 DEF bytesFrom
  <2>2. data[j] \in Char
    BY <1>1, <1>5
  <2> QED BY <1>2, <1>5, <2>1, <2>2, OneCharacter
<1>6. CASE j <= Len(data) /\ data[j] # Space /\ ~(j = Len(data) \/ data[j + 1] = Space)
  <2>1. bytesFrom(data, f, j) = <<hexValue(SubSeq(data, j, j + 1))>> \o f[j + 2]
    BY <1>1, <1>6 DEF bytesFrom
  <2>2. j < Len(data)
    BY <1>1, <1>6
  <2> DEFINE t == SubSeq(data, j, j + 1)
  <2>3. t \in Seq(Char) /\ Len(t) <= 2
    <3>1. j \in 1 .. Len(data)
      BY <1>1, <2>2
    <3> QED BY <2>2, <3>1, TwoCharacters
  <2> HIDE DEF t
  <2>4. hexValue(t) \in Byte
    BY <2>3, HexValueByte
  <2> QED BY <1>2, <2>1, <2>2, <2>4 DEF t
<1> QED BY <1>1, <1>3, <1>4, <1>5, <1>6

LEMMA BufferType ==
  ASSUME NEW text \in Seq(Char), start(text) # 0
  PROVE  buffer(text) \in Seq(Byte)
<1> DEFINE data == SubSeq(text, start(text), end(text))
<1>1. data \in Seq(Char)
  BY DataText
<1> HIDE DEF data
<1>2. PICK L \in Nat : L = Len(data)
  BY <1>1, LenProperties
<1>3. PICK f : IsFrom(f, data) /\ buffer(text) = f[1]
  BY <1>2, BufferDefined DEF data
<1>4. \A j \in 1 .. (L + 1) : f[j] = bytesFrom(data, f, j)
  BY <1>2, <1>3 DEF IsFrom
<1> DEFINE Typed(m) == \A j \in 1 .. (L + 1) : j >= L + 1 - m => f[j] \in Seq(Byte)
           Upto == {m \in Nat : m <= L => Typed(m)}
<1>5. 0 \in Upto
  <2>1. bytesFrom(data, f, L + 1) = <<>>
    BY <1>2 DEF bytesFrom
  <2>2. f[L + 1] \in Seq(Byte)
    <3>1. L + 1 \in 1 .. (L + 1) /\ <<>> \in Seq(Byte)
      OBVIOUS
    <3> QED BY <1>4, <2>1, <3>1
  <2>3. \A j \in 1 .. (L + 1) : j >= L + 1 - 0 => j = L + 1
    OBVIOUS
  <2>4. Typed(0)
    BY <2>2, <2>3
  <2> HIDE DEF Typed
  <2> QED BY <2>4
<1>6. ASSUME NEW m \in Upto PROVE m + 1 \in Upto
  <2> SUFFICES ASSUME m \in Nat, Typed(m), m + 1 <= L PROVE Typed(m + 1)
    OBVIOUS
  <2> SUFFICES ASSUME NEW j \in 1 .. (L + 1), j = L - m PROVE f[j] \in Seq(Byte)
    OBVIOUS
  <2>1. /\ j <= L => f[j + 1] \in Seq(Byte)
        /\ j < L => f[j + 2] \in Seq(Byte)
    OBVIOUS
  <2> QED BY <1>1, <1>2, <1>4, <2>1, BytesFromType
<1>7. Typed(L)
  <2> HIDE DEF Typed
  <2>1. Upto \subseteq Nat
    OBVIOUS
  <2>2. Upto = Nat
    <3> HIDE DEF Upto
    <3> QED BY <1>5, <1>6, <2>1, Induct
  <2> QED BY <2>2
<1>8. 1 \in 1 .. (L + 1) /\ 1 >= L + 1 - L
  OBVIOUS
<1> QED BY <1>3, <1>7, <1>8

LEMMA AddressType ==
  ASSUME NEW text \in Seq(Char), colon(text) # 0 PROVE addresses(text) \subseteq Word
<1> DEFINE before == SubSeq(text, 1, colon(text) - 1)
           first  == find_first_of(before, Char \ {Space}, 1)
<1>1. colon(text) \in DOMAIN text
  BY FirstFound DEF colon
<1>2. before \in Seq(Char)
  BY <1>1
<1> HIDE DEF before
<1>3. first # 0 => first \in DOMAIN before
  BY <1>2, FirstFound
<1> HIDE DEF first
<1>4. first # 0 => SubSeq(before, first, Len(before)) \in Seq(Char)
  BY <1>2, <1>3
<1>5. first # 0 => hexValue(SubSeq(before, first, Len(before))) \in Word
  BY <1>4, HexValueWord
<1>6. addresses(text) = IF first = 0 THEN Word
                        ELSE {hexValue(SubSeq(before, first, Len(before)))}
  BY DEF addresses, before, first
<1> QED BY <1>5, <1>6

-----------------------------------------------------------------------------
(***************************************************************************)
(* Types.                                                                  *)
(***************************************************************************)
LoaderInv == file \in Files /\ LoaderTypeOK

LEMMA FileLines ==
  ASSUME NEW f \in Files
  PROVE  f.lines \in Seq(Seq(Char)) /\ Len(f.lines) \in Nat /\ Len(f.lines) > 0
BY LoaderAssumption

LEMMA StoredType ==
  ASSUME NEW m \in [Address -> Byte], NEW a \in Nat, NEW b \in Seq(Byte)
  PROVE  stored(m, a, b, Len(b)) \in [Address -> Byte]
<1>1. MemSize \in Int /\ Len(b) \in Nat
  BY SizeAssumption DEF MemSize, WordBytes
<1>2. ASSUME NEW x \in Address, x \in a .. (a + Len(b) - 1) PROVE b[x - a + 1] \in Byte
  <2>1. x - a + 1 \in 1 .. Len(b)
    BY <1>1, <1>2 DEF Address
  <2> QED BY <2>1
<1> QED BY <1>2 DEF stored

LEMMA LoaderInitInv == LoaderInit => LoaderInv
<1> SUFFICES ASSUME LoaderInit PROVE LoaderInv
  OBVIOUS
<1>1. memory \in [Address -> Byte]
  BY ByteAssumption DEF LoaderInit, Zeros, Byte
<1>2. next \in 1 .. (Len(file.lines) + 1) /\ line \in Seq(Char)
  BY FileLines DEF LoaderInit
<1> QED BY <1>1, <1>2, FileLines DEF LoaderInit, LoaderInv, LoaderTypeOK, MemoryTypeOK, Phases

LEMMA LoaderNextInv == LoaderInv /\ [LoaderNext]_loaderVars => LoaderInv'
<1> SUFFICES ASSUME LoaderInv, [LoaderNext]_loaderVars PROVE LoaderInv'
  OBVIOUS
<1> USE DEF LoaderInv, LoaderTypeOK, MemoryTypeOK
<1>1. CASE UNCHANGED loaderVars
  BY <1>1 DEF loaderVars
<1>2. ASSUME NEW p \in Phases, Goto(p) PROVE LoaderInv'
  BY <1>2 DEF Goto
<1>3. CASE ReadLine
  <2>1. file.lines[next] \in Seq(Char) /\ next + 1 \in 1 .. (Len(file.lines) + 1)
    BY <1>3, FileLines DEF ReadLine, atEnd
  <2>2. line' \in Seq(Char)
    BY <1>3, <2>1, ContentText DEF ReadLine
  <2> QED BY <1>3, <2>1, <2>2 DEF ReadLine, Phases
<1>4. CASE ReadFails
  BY <1>4 DEF ReadFails, Phases
<1>5. CASE StoreLine
  <2>1. PICK addr \in addresses(line) :
          memory' = stored(memory, addr, buffer(line), Len(buffer(line)))
    BY <1>5 DEF StoreLine, writeBuffer
  <2>2. addr \in Nat
    BY <1>5, AddressType, WordModNat DEF StoreLine, HasData, Word
  <2>3. buffer(line) \in Seq(Byte)
    BY <1>5, BufferType DEF StoreLine, HasData
  <2>4. memory' \in [Address -> Byte]
    BY <2>1, <2>2, <2>3, StoredType
  <2> QED BY <1>5, <2>4 DEF StoreLine, Phases
<1>6. CASE Load
  <2>1. {"exited", "terminated", "reading", "aborted", "running"} \subseteq Phases
    BY DEF Phases
  <2> QED BY <1>2, <1>3, <1>4, <1>5, <1>6, <2>1
      DEF Load, BadArguments, NoLogFile, ShortName, WrongName, CannotOpen, Open, SkipLine,
          KillLine, StoreThrows, Run
<1> QED BY <1>1, <1>6 DEF LoaderNext, Ended

LEMMA LoaderInvariance == LoaderSpec => []LoaderInv
BY LoaderInitInv, LoaderNextInv, PTL DEF LoaderSpec

\* Whatever a file contains: the memory keeps its size and holds bytes, and
\* only lines that exist are read.
THEOREM LoaderTypeCorrect == LoaderSpec => []LoaderTypeOK
<1>1. LoaderInv => LoaderTypeOK
  BY DEF LoaderInv
<1> QED BY <1>1, LoaderInvariance, PTL

-----------------------------------------------------------------------------
(***************************************************************************)
(* The text of bytes: byte k of a text of width w stands at (k - 1) * w.   *)
(***************************************************************************)
LEMMA TextPosition ==
  ASSUME NEW w \in Nat \ {0}, NEW n \in Nat, NEW k \in 1 .. n, NEW i \in 1 .. w
  PROVE  /\ (k - 1) * w + i \in 1 .. (w * n)
         /\ (((k - 1) * w + i) - 1) \div w = k - 1
         /\ (((k - 1) * w + i) - 1) % w = i - 1
<1>1. k - 1 \in Nat /\ i - 1 \in 0 .. (w - 1) /\ (k - 1) * w \in Nat
  OBVIOUS
<1>2. ((k - 1) * w + i) - 1 = (k - 1) * w + (i - 1)
  BY <1>1
<1>3. (k - 1) * w + w = k * w /\ k * w <= n * w /\ n * w = w * n
  OBVIOUS
<1>4. (k - 1) * w + i \in 1 .. (w * n)
  BY <1>1, <1>3
<1>5. ASSUME NEW q \in Int, NEW r \in 0 .. (w - 1)
      PROVE  (q * w + r) \div w = q /\ (q * w + r) % w = r
  BY Quotient
<1>6. ((k - 1) * w + (i - 1)) \div w = k - 1 /\ ((k - 1) * w + (i - 1)) % w = i - 1
  <2>1. k - 1 \in Int
    BY <1>1
  <2> QED BY <1>1, <1>5, <2>1
<1> QED BY <1>2, <1>4, <1>6

LEMMA PositionOf ==
  ASSUME NEW w \in Nat \ {0}, NEW n \in Nat, NEW j \in 1 .. (w * n)
  PROVE  \E k \in 1 .. n, i \in 1 .. w : j = (k - 1) * w + i
<1> DEFINE q == (j - 1) \div w
           r == (j - 1) % w
<1>1. q \in Nat /\ r \in 0 .. (w - 1) /\ j - 1 = q * w + r /\ q * w \in Nat
  OBVIOUS
<1> HIDE DEF q, r
<1>2. q < n
  <2> SUFFICES ASSUME q >= n PROVE FALSE
    BY <1>1
  <2>1. q * w >= n * w /\ n * w = w * n
    BY <1>1
  <2> QED BY <1>1, <2>1
<1>3. q + 1 \in 1 .. n /\ r + 1 \in 1 .. w /\ j = ((q + 1) - 1) * w + (r + 1)
  BY <1>1, <1>2
<1> QED BY <1>3

LEMMA ByteDigits ==
  ASSUME NEW b \in Byte
  PROVE  b \div D \in Digit /\ b % D \in Digit /\ (b \div D) * D + (b % D) = b
<1> DEFINE q == b \div D
           r == b % D
<1>1. b \in Nat /\ b < D * D /\ D \in Nat /\ D >= 2
  BY DigitBase, LoaderAssumption DEF Byte
<1>2. q \in Nat /\ r \in 0 .. (D - 1) /\ b = q * D + r
  BY <1>1
<1> HIDE DEF q, r
<1>3. q < D
  <2> SUFFICES ASSUME q >= D PROVE FALSE
    BY <1>1, <1>2
  <2>1. q * D >= D * D
    BY <1>1, <1>2
  <2> QED BY <1>1, <1>2, <2>1
<1>4. q \in Digit /\ r \in Digit /\ q * D + r = b
  BY <1>1, <1>2, <1>3, DigitBase
<1> QED BY <1>4 DEF q, r

digitOf(b, i) == IF i = 1 THEN b \div D ELSE IF i = 2 THEN b % D ELSE Space

width(gap) == 2 + Len(gap)

LEMMA BytesText ==
  ASSUME NEW bytes \in Seq(Byte), NEW gap \in Seq({Space})
  PROVE  /\ bytesText(bytes, gap) \in Seq(Digit \cup {Space})
         /\ Len(bytesText(bytes, gap)) = width(gap) * Len(bytes)
         /\ \A k \in 1 .. Len(bytes), i \in 1 .. width(gap) :
              bytesText(bytes, gap)[(k - 1) * width(gap) + i] = digitOf(bytes[k], i)
<1> DEFINE text(b) == <<b \div D, b % D>> \o gap
           T == bytesText(bytes, gap)
           n == Len(bytes)
           w == width(gap)
<1>1. Len(gap) \in Nat /\ n \in Nat /\ w \in Nat /\ w >= 2 /\ w = 2 + Len(gap)
  BY DEF width
<1>a. w \in Nat \ {0} /\ w * n \in Nat
  BY <1>1
<1>2. T = [j \in 1 .. (w * n) |-> text(bytes[((j - 1) \div w) + 1])[((j - 1) % w) + 1]]
  BY DEF bytesText, width
<1>3. ASSUME NEW b \in Byte, NEW i \in 1 .. w
      PROVE  text(b)[i] = digitOf(b, i) /\ digitOf(b, i) \in Digit \cup {Space}
  <2>1. <<b \div D, b % D>> \in Seq(Digit \cup {Space}) /\ gap \in Seq(Digit \cup {Space})
    BY ByteDigits
  <2>2. text(b)[i] = IF i <= 2 THEN <<b \div D, b % D>>[i] ELSE gap[i - 2]
    BY <1>1, <2>1, ConcatProperties
  <2>3. i > 2 => gap[i - 2] = Space
    BY <1>1
  <2> QED BY <1>1, <2>2, <2>3, ByteDigits DEF digitOf
<1> HIDE DEF text, T, w
<1>4. ASSUME NEW k \in 1 .. n, NEW i \in 1 .. w
      PROVE  T[(k - 1) * w + i] = digitOf(bytes[k], i)
  <2>1. /\ (k - 1) * w + i \in 1 .. (w * n)
        /\ (((k - 1) * w + i) - 1) \div w = k - 1
        /\ (((k - 1) * w + i) - 1) % w = i - 1
    <3>1. n \in Nat /\ k \in 1 .. n /\ i \in 1 .. w
      BY <1>1
    <3> HIDE DEF n
    <3> QED BY <1>a, <3>1, TextPosition
  <2>2. T[(k - 1) * w + i] = text(bytes[(k - 1) + 1])[(i - 1) + 1]
    BY <1>2, <2>1
  <2>3. (k - 1) + 1 = k /\ (i - 1) + 1 = i /\ bytes[k] \in Byte
    BY <1>1
  <2> QED BY <1>3, <2>2, <2>3
<1>5. ASSUME NEW j \in 1 .. (w * n) PROVE T[j] \in Digit \cup {Space}
  <2>1. PICK k \in 1 .. n, i \in 1 .. w : j = (k - 1) * w + i
    BY <1>1, <1>a, PositionOf
  <2>2. bytes[k] \in Byte
    BY <1>1
  <2> QED BY <1>3, <1>4, <2>1, <2>2
<1>6. T \in Seq(Digit \cup {Space}) /\ Len(T) = w * n
  BY <1>1, <1>a, <1>2, <1>5
<1> QED BY <1>1, <1>4, <1>6 DEF T, w

-----------------------------------------------------------------------------
(***************************************************************************)
(* Eight digits, and two.                                                  *)
(***************************************************************************)
LEMMA HexValueDigits ==
  ASSUME NEW text \in Seq(Char), \A j \in 1 .. Len(text) : text[j] \in Digit
  PROVE  \E value :
           /\ value[0] = 0
           /\ \A n \in 1 .. Len(text) : value[n] = value[n - 1] * D + text[n]
           /\ hexValue(text) = IF value[Len(text)] < WordMod THEN value[Len(text)]
                               ELSE WordMod - 1
<1>0. Len(text) \in Nat
  OBVIOUS
<1>1. PICK value :
        /\ value = [n \in 0 .. Len(text) |-> IF n = 0 THEN 0 ELSE value[n - 1] * D + text[n]]
        /\ hexValue(text) = LET v == value[Cardinality(leadingDigits(text))]
                            IN  IF v < WordMod THEN v ELSE WordMod - 1
  BY ValueDefined
<1>2. Cardinality(leadingDigits(text)) = Len(text)
  BY <1>0, LeadingCount
<1>3. value[0] = 0
  BY <1>0, <1>1
<1>4. ASSUME NEW n \in 1 .. Len(text) PROVE value[n] = value[n - 1] * D + text[n]
  <2>1. n \in 0 .. Len(text) /\ n # 0
    BY <1>0
  <2> QED BY <1>1, <2>1
<1> QED BY <1>1, <1>2, <1>3, <1>4

LEMMA ByteWords == D \in Nat /\ D * D = ByteMod /\ ByteMod \in Nat /\ ByteMod <= WordMod
<1>1. D \in Nat /\ D >= 2 /\ D * D = ByteMod /\ ByteMod \in Nat /\ ByteMod >= 1
  BY DigitBase, LoaderAssumption, ByteAssumption
<1>2. ASSUME NEW B \in Nat, B >= 1 PROVE B <= B * B * B * B
  <2>1. B * B >= B /\ B * B \in Nat
    BY <1>2
  <2>2. (B * B) * B >= B * B
    BY <1>2, <2>1
  <2>3. B * B * B \in Nat /\ B * B * B >= B
    BY <1>2, <2>1, <2>2
  <2>4. (B * B * B) * B >= B * B * B
    BY <1>2, <2>3
  <2> QED BY <2>3, <2>4
<1> QED BY <1>1, <1>2 DEF WordMod

LEMMA TwoDigits ==
  ASSUME NEW text \in Seq(Char), Len(text) = 2, NEW b \in Byte,
         text[1] = b \div D, text[2] = b % D
  PROVE  hexValue(text) = b
<1>1. text[1] \in Digit /\ text[2] \in Digit /\ text[1] * D + text[2] = b
  BY ByteDigits
<1>2. \A j \in 1 .. Len(text) : text[j] \in Digit
  BY <1>1
<1>3. PICK value :
           /\ value[0] = 0
           /\ \A n \in 1 .. Len(text) : value[n] = value[n - 1] * D + text[n]
           /\ hexValue(text) = IF value[Len(text)] < WordMod THEN value[Len(text)]
                               ELSE WordMod - 1
  BY <1>2, HexValueDigits
<1>4. value[1] = value[0] * D + text[1] /\ value[2] = value[1] * D + text[2]
  BY <1>3
<1>5. D \in Nat /\ text[1] \in Nat
  BY <1>1, DigitBase
<1>6. value[2] = b
  BY <1>1, <1>3, <1>4, <1>5
<1>7. b < WordMod
  BY ByteWords, WordModNat DEF Byte
<1> QED BY <1>3, <1>6, <1>7

LEMMA SeqOfElements ==
  ASSUME NEW S, NEW T, NEW s \in Seq(S), \A j \in 1 .. Len(s) : s[j] \in T
  PROVE  s \in Seq(T)
OBVIOUS

LEMMA AddressText ==
  ASSUME NEW addr \in Word
  PROVE  /\ addressText(addr) \in Seq(Digit) /\ Len(addressText(addr)) = 8
         /\ \A j \in 1 .. 8 : addressText(addr)[j] \in Digit
         /\ \A k \in 1 .. 4 : /\ addressText(addr)[2 * k - 1] = toBytes(addr)[k] \div D
                              /\ addressText(addr)[2 * k] = toBytes(addr)[k] % D
<1> DEFINE b == toBytes(addr)
           g == <<>>
           A == addressText(addr)
<1>1. b \in Seq(Byte) /\ Len(b) = 4 /\ \A k \in 1 .. 4 : b[k] \in Byte
  <2>1. \A k \in 1 .. 4 : b[k] \in Byte
    BY ToBytes DEF WordBytes
  <2> QED BY <2>1 DEF toBytes
<1>2. g \in Seq({Space}) /\ width(g) = 2 /\ A = bytesText(b, g)
  BY DEF width, addressText
<1> HIDE DEF b, g
<1> HIDE DEF A
<1>3. /\ A \in Seq(Digit \cup {Space}) /\ Len(A) = width(g) * Len(b)
      /\ \A k \in 1 .. Len(b), i \in 1 .. width(g) : A[(k - 1) * width(g) + i] = digitOf(b[k], i)
  BY <1>1, <1>2, BytesText
<1>4. Len(A) = 8 /\ \A k \in 1 .. 4, i \in 1 .. 2 : A[(k - 1) * 2 + i] = digitOf(b[k], i)
  BY <1>1, <1>2, <1>3
<1>5. ASSUME NEW k \in 1 .. 4
      PROVE  /\ A[2 * k - 1] = b[k] \div D /\ A[2 * k] = b[k] % D
             /\ A[2 * k - 1] \in Digit /\ A[2 * k] \in Digit
  <2>1. A[(k - 1) * 2 + 1] = digitOf(b[k], 1) /\ A[(k - 1) * 2 + 2] = digitOf(b[k], 2)
    BY <1>4
  <2>2. (k - 1) * 2 + 1 = 2 * k - 1 /\ (k - 1) * 2 + 2 = 2 * k
    OBVIOUS
  <2>3. b[k] \in Byte
    BY <1>1
  <2> QED BY <2>1, <2>2, <2>3, ByteDigits DEF digitOf
<1>6. ASSUME NEW j \in 1 .. 8 PROVE A[j] \in Digit
  <2>1. \E k \in 1 .. 4 : j = 2 * k - 1 \/ j = 2 * k
    OBVIOUS
  <2> QED BY <1>5, <2>1
<1>7. A \in Seq(Digit)
  <2>1. \A j \in 1 .. Len(A) : A[j] \in Digit
    BY <1>4, <1>6
  <2> QED BY <1>3, <2>1, SeqOfElements
<1> QED BY <1>4, <1>5, <1>6, <1>7 DEF A, b

LEMMA EightDigits ==
  ASSUME NEW text \in Seq(Char), Len(text) = 8, NEW addr \in Word,
         \A j \in 1 .. 8 : text[j] = addressText(addr)[j]
  PROVE  hexValue(text) = addr
<1> DEFINE A == addressText(addr)
<1>1. /\ \A j \in 1 .. 8 : A[j] \in Digit
      /\ \A k \in 1 .. 4 : A[2 * k - 1] = toBytes(addr)[k] \div D
                           /\ A[2 * k] = toBytes(addr)[k] % D
  BY AddressText
<1>2. \A j \in 1 .. Len(text) : text[j] \in Digit
  BY <1>1
<1>3. PICK value :
           /\ value[0] = 0
           /\ \A n \in 1 .. Len(text) : value[n] = value[n - 1] * D + text[n]
           /\ hexValue(text) = IF value[Len(text)] < WordMod THEN value[Len(text)]
                               ELSE WordMod - 1
  BY <1>2, HexValueDigits
<1>4. /\ value[1] = 0 * D + text[1] /\ value[2] = value[1] * D + text[2]
      /\ value[3] = value[2] * D + text[3] /\ value[4] = value[3] * D + text[4]
      /\ value[5] = value[4] * D + text[5] /\ value[6] = value[5] * D + text[6]
      /\ value[7] = value[6] * D + text[7] /\ value[8] = value[7] * D + text[8]
  BY <1>3
<1>5. PICK b1 \in Byte, b2 \in Byte, b3 \in Byte, b4 \in Byte :
        b1 = toBytes(addr)[1] /\ b2 = toBytes(addr)[2]
        /\ b3 = toBytes(addr)[3] /\ b4 = toBytes(addr)[4]
  BY ToBytes DEF WordBytes
<1>6. /\ text[1] = b1 \div D /\ text[2] = b1 % D /\ text[3] = b2 \div D /\ text[4] = b2 % D
      /\ text[5] = b3 \div D /\ text[6] = b3 % D /\ text[7] = b4 \div D /\ text[8] = b4 % D
  BY <1>1, <1>5
<1>7. ASSUME NEW b \in Byte, NEW v \in Nat
      PROVE  (v * D + (b \div D)) * D + (b % D) = v * ByteMod + b
  <2>1. (b \div D) * D + (b % D) = b /\ b \div D \in Nat /\ b % D \in Nat
    BY ByteDigits, DigitBase
  <2>2. ASSUME NEW q \in Nat, NEW r \in Nat, NEW d \in Nat
        PROVE  (v * d + q) * d + r = v * (d * d) + (q * d + r)
    BY <2>2
  <2> DEFINE q == b \div D
             r == b % D
  <2>3. q \in Nat /\ r \in Nat /\ q * D + r = b /\ D \in Nat /\ D * D = ByteMod
    BY <2>1, ByteWords
  <2> HIDE DEF q, r
  <2>4. (v * D + q) * D + r = v * (D * D) + (q * D + r)
    BY <2>2, <2>3
  <2>5. (v * D + q) * D + r = v * ByteMod + b
    BY <2>3, <2>4, Zenon
  <2> QED BY <2>5 DEF q, r
<1>8. D \in Nat /\ ByteMod \in Nat /\ b1 \in Nat /\ b2 \in Nat /\ b3 \in Nat /\ b4 \in Nat
  BY DigitBase, ByteWords DEF Byte
<1>9. value[2] = 0 * ByteMod + b1
  BY <1>4, <1>6, <1>7
<1>10. value[2] = b1 /\ value[2] \in Nat
  BY <1>8, <1>9
<1>11. value[4] = b1 * ByteMod + b2 /\ value[4] \in Nat
  <2>1. value[4] = (b1 * D + (b2 \div D)) * D + (b2 % D)
    BY <1>4, <1>6, <1>10
  <2>2. (b1 * D + (b2 \div D)) * D + (b2 % D) = b1 * ByteMod + b2
    BY <1>7, <1>8
  <2>3. b1 * ByteMod + b2 \in Nat
    BY <1>8, DigitAdded
  <2>4. value[4] = b1 * ByteMod + b2
    BY <2>1, <2>2, Zenon
  <2> QED BY <2>3, <2>4, Zenon
<1> DEFINE v4 == b1 * ByteMod + b2
<1>12. value[6] = v4 * ByteMod + b3 /\ value[6] \in Nat
  <2>0. v4 \in Nat
    BY <1>11
  <2> HIDE DEF v4
  <2>1. value[6] = (v4 * D + (b3 \div D)) * D + (b3 % D)
    BY <1>4, <1>6, <1>11 DEF v4
  <2>2. (v4 * D + (b3 \div D)) * D + (b3 % D) = v4 * ByteMod + b3
    BY <1>7, <1>8, <2>0
  <2>3. v4 * ByteMod + b3 \in Nat
    BY <1>8, <2>0, DigitAdded
  <2>4. value[6] = v4 * ByteMod + b3
    BY <2>1, <2>2, Zenon
  <2> QED BY <2>3, <2>4, Zenon
<1> DEFINE v6 == v4 * ByteMod + b3
<1>13. value[8] = v6 * ByteMod + b4
  <2>0. v6 \in Nat
    BY <1>12
  <2> HIDE DEF v6
  <2>1. value[8] = (v6 * D + (b4 \div D)) * D + (b4 % D)
    BY <1>4, <1>6, <1>12 DEF v6
  <2>2. (v6 * D + (b4 \div D)) * D + (b4 % D) = v6 * ByteMod + b4
    BY <1>7, <1>8, <2>0
  <2> QED BY <2>1, <2>2
<1>14. value[8] = addr
  BY <1>5, <1>13, RoundTrip DEF toWord
<1>15. addr < WordMod
  BY WordModNat DEF Word
<1> QED BY <1>3, <1>14, <1>15

-----------------------------------------------------------------------------
(***************************************************************************)
(* The line of a record.                                                   *)
(***************************************************************************)
IsRecord(e) == e.loads /\ IsEntry(e) /\ e.rest \in Seq(Char)
size(e) == width(e.gap) * Len(e.bytes)

LEMMA RecordFields ==
  ASSUME NEW e, IsRecord(e)
  PROVE  /\ e.addr \in Word /\ e.bytes \in Seq(Byte) /\ e.gap \in Seq({Space})
         /\ e.rest \in Seq(Char) /\ size(e) \in Nat /\ Len(e.bytes) \in Nat
         /\ width(e.gap) \in Nat /\ width(e.gap) >= 2 /\ Len(e.gap) \in Nat
         /\ Len(e.rest) \in Nat
         /\ \A j \in DOMAIN content(e.rest) : content(e.rest)[j] \notin Digit
<1>1. /\ e.addr \in Word /\ e.bytes \in Seq(Byte) /\ e.gap \in Seq({Space})
      /\ e.rest \in Seq(Char)
      /\ \A j \in DOMAIN content(e.rest) : content(e.rest)[j] \notin Digit
  BY DEF IsRecord, IsEntry
<1>2. Len(e.bytes) \in Nat /\ Len(e.gap) \in Nat /\ Len(e.rest) \in Nat
  BY <1>1
<1>3. width(e.gap) \in Nat /\ width(e.gap) >= 2
  BY <1>2 DEF width
<1>4. size(e) \in Nat
  BY <1>2, <1>3 DEF size
<1> QED BY <1>1, <1>2, <1>3, <1>4

\* The characters of a text that begins with the address and the bytes of e.
BeginsWith(text, e) ==
  /\ text \in Seq(Char) /\ Len(text) >= 10 + size(e)
  /\ \A j \in 1 .. 8 : text[j] = addressText(e.addr)[j]
  /\ text[9] = Colon /\ text[10] = Space
  /\ \A j \in 1 .. size(e) : text[10 + j] = bytesText(e.bytes, e.gap)[j]

LEMMA Joined ==
  ASSUME NEW s \in Seq(Char), NEW t \in Seq(Char)
  PROVE  /\ s \o t \in Seq(Char) /\ Len(s \o t) = Len(s) + Len(t)
         /\ \A j \in 1 .. Len(s) : (s \o t)[j] = s[j]
         /\ \A j \in 1 .. Len(t) : (s \o t)[Len(s) + j] = t[j]
<1>1. /\ s \o t \in Seq(Char) /\ Len(s \o t) = Len(s) + Len(t)
      /\ \A i \in 1 .. Len(s) + Len(t) :
           (s \o t)[i] = IF i <= Len(s) THEN s[i] ELSE t[i - Len(s)]
  BY ConcatProperties
<1>2. Len(s) \in Nat /\ Len(t) \in Nat
  OBVIOUS
<1>3. \A j \in 1 .. Len(s) : (s \o t)[j] = s[j]
  BY <1>1, <1>2
<1>4. ASSUME NEW j \in 1 .. Len(t) PROVE (s \o t)[Len(s) + j] = t[j]
  <2>1. /\ Len(s) + j \in 1 .. Len(s) + Len(t) /\ ~(Len(s) + j <= Len(s))
        /\ (Len(s) + j) - Len(s) = j
    BY <1>2
  <2> QED BY <1>1, <2>1
<1> QED BY <1>1, <1>3, <1>4

LEMMA LineOfRecord ==
  ASSUME NEW e, IsRecord(e)
  PROVE  /\ BeginsWith(lineText(e), e)
         /\ Len(lineText(e)) = 10 + size(e) + Len(e.rest)
         /\ \A j \in 1 .. Len(e.rest) : lineText(e)[10 + size(e) + j] = e.rest[j]
<1> DEFINE A == addressText(e.addr)
           M == <<Colon, Space>>
           T == bytesText(e.bytes, e.gap)
           r == e.rest
           n == size(e)
<1>1. /\ A \in Seq(Digit) /\ Len(A) = 8 /\ T \in Seq(Digit \cup {Space}) /\ Len(T) = n
      /\ r \in Seq(Char) /\ Len(r) \in Nat /\ n \in Nat
  BY RecordFields, AddressText, BytesText DEF size
<1>2. Digit \subseteq Char /\ Digit \cup {Space} \subseteq Char
  BY DEF Char
<1>3. /\ A \in Seq(Char) /\ T \in Seq(Char)
      /\ M \in Seq(Char) /\ Len(M) = 2 /\ M[1] = Colon /\ M[2] = Space
  BY <1>1, <1>2, SeqMonotonic DEF Char
<1>4. lineText(e) = ((A \o M) \o T) \o r
  BY DEF lineText, IsRecord
<1> HIDE DEF A, M, T, r, n
<1> DEFINE B == A \o M
           C == B \o T
           P == C \o r
<1>5. /\ B \in Seq(Char) /\ Len(B) = 10
      /\ \A j \in 1 .. 8 : B[j] = A[j]
      /\ B[9] = Colon /\ B[10] = Space
  <2>1. /\ B \in Seq(Char) /\ Len(B) = Len(A) + Len(M)
        /\ \A j \in 1 .. Len(A) : B[j] = A[j]
        /\ \A j \in 1 .. Len(M) : B[Len(A) + j] = M[j]
    BY <1>3, Joined
  <2> HIDE DEF B
  <2>2. B[8 + 1] = M[1] /\ B[8 + 2] = M[2]
    BY <1>1, <1>3, <2>1
  <2> QED BY <1>1, <1>3, <2>1, <2>2
<1> HIDE DEF B
<1>6. /\ C \in Seq(Char) /\ Len(C) = 10 + n
      /\ \A j \in 1 .. 10 : C[j] = B[j]
      /\ \A j \in 1 .. n : C[10 + j] = T[j]
  <2>1. /\ C \in Seq(Char) /\ Len(C) = Len(B) + Len(T)
        /\ \A j \in 1 .. Len(B) : C[j] = B[j]
        /\ \A j \in 1 .. Len(T) : C[Len(B) + j] = T[j]
    BY <1>3, <1>5, Joined
  <2> HIDE DEF C
  <2> QED BY <1>1, <1>5, <2>1
<1> HIDE DEF C
<1>7. /\ P \in Seq(Char) /\ Len(P) = 10 + n + Len(r)
      /\ \A j \in 1 .. 10 + n : P[j] = C[j]
      /\ \A j \in 1 .. Len(r) : P[10 + n + j] = r[j]
  <2>1. /\ P \in Seq(Char) /\ Len(P) = Len(C) + Len(r)
        /\ \A j \in 1 .. Len(C) : P[j] = C[j]
        /\ \A j \in 1 .. Len(r) : P[Len(C) + j] = r[j]
    BY <1>1, <1>6, Joined
  <2> HIDE DEF P
  <2> QED BY <1>1, <1>6, <2>1
<1>8. P = lineText(e)
  BY <1>4 DEF B, C
<1> HIDE DEF P
<1>9. /\ \A j \in 1 .. 8 : P[j] = A[j]
      /\ P[9] = Colon /\ P[10] = Space
      /\ \A j \in 1 .. n : P[10 + j] = T[j]
      /\ Len(P) >= 10 + n
  <2>1. \A j \in 1 .. 10 : P[j] = B[j]
    BY <1>1, <1>6, <1>7
  <2>2. ASSUME NEW j \in 1 .. n PROVE P[10 + j] = T[j]
    <3>1. 10 + j \in 1 .. 10 + n
      BY <1>1
    <3> QED BY <1>6, <1>7, <3>1
  <2> QED BY <1>1, <1>5, <1>7, <2>1, <2>2
<1>10. BeginsWith(P, e)
  BY <1>7, <1>9 DEF BeginsWith, A, T, n
<1> QED BY <1>7, <1>8, <1>10 DEF r, n

LEMMA CharacterKinds ==
  /\ Space \notin Digit /\ Colon \notin Digit /\ Hash \notin Digit
  /\ Space # Hash /\ Colon # Hash /\ Space # Colon
BY DigitBase DEF Space, Colon, Hash

\* What stands at each place of a text that begins with a record.
LEMMA Beginning ==
  ASSUME NEW e, IsRecord(e), NEW text, BeginsWith(text, e)
  PROVE  /\ text \in Seq(Char) /\ Len(text) \in Nat /\ Len(text) >= 10 + size(e)
         /\ \A j \in 1 .. 8 : text[j] \in Digit
         /\ text[9] = Colon /\ text[10] = Space
         /\ \A j \in 1 .. size(e) : text[10 + j] \in Digit \cup {Space}
         /\ \A j \in 1 .. (10 + size(e)) : text[j] # Hash
<1>1. text \in Seq(Char) /\ Len(text) \in Nat /\ Len(text) >= 10 + size(e)
  BY DEF BeginsWith
<1>2. e.addr \in Word /\ e.bytes \in Seq(Byte) /\ e.gap \in Seq({Space}) /\ size(e) \in Nat
  BY RecordFields
<1>3. \A j \in 1 .. 8 : text[j] \in Digit
  BY <1>2, AddressText DEF BeginsWith
<1>4. text[9] = Colon /\ text[10] = Space
  BY DEF BeginsWith
<1>5. \A j \in 1 .. size(e) : text[10 + j] \in Digit \cup {Space}
  <2>1. /\ bytesText(e.bytes, e.gap) \in Seq(Digit \cup {Space})
        /\ Len(bytesText(e.bytes, e.gap)) = size(e)
    BY <1>2, BytesText DEF size
  <2>2. \A j \in 1 .. size(e) : bytesText(e.bytes, e.gap)[j] \in Digit \cup {Space}
    BY <2>1, ElementOfSeq
  <2> QED BY <2>2 DEF BeginsWith
<1>6. ASSUME NEW j \in 1 .. (10 + size(e)) PROVE text[j] # Hash
  <2>1. CASE j <= 8
    BY <1>3, <2>1, CharacterKinds
  <2>2. CASE j = 9 \/ j = 10
    BY <1>4, <2>2, CharacterKinds
  <2>3. CASE j > 10
    <3>1. j - 10 \in 1 .. size(e) /\ 10 + (j - 10) = j
      BY <1>2, <2>3
    <3> QED BY <1>5, <3>1, CharacterKinds
  <2> QED BY <1>2, <2>1, <2>2, <2>3
<1> QED BY <1>1, <1>3, <1>4, <1>5, <1>6

\* Nothing but the record has digits.
EndsPlain(text, e) == \A j \in DOMAIN text : j > 10 + size(e) => text[j] \notin Digit

LEMMA BeginsLonger ==
  ASSUME NEW e, IsRecord(e), NEW text, BeginsWith(text, e), NEW m \in Nat,
         m >= 10 + size(e), m <= Len(text)
  PROVE  /\ BeginsWith(SubSeq(text, 1, m), e)
         /\ Len(SubSeq(text, 1, m)) = m
         /\ \A j \in 1 .. m : SubSeq(text, 1, m)[j] = text[j]
<1> DEFINE s == SubSeq(text, 1, m)
<1>1. text \in Seq(Char) /\ Len(text) \in Nat /\ size(e) \in Nat
  BY Beginning, RecordFields
<1>2. s \in Seq(Char) /\ Len(s) = m /\ \A j \in 1 .. m : s[j] = text[j]
  BY <1>1
<1> HIDE DEF s
<1>3. \A j \in 1 .. size(e) : 10 + j \in 1 .. m
  BY <1>1
<1>4. /\ \A j \in 1 .. 8 : text[j] = addressText(e.addr)[j]
      /\ text[9] = Colon /\ text[10] = Space
      /\ \A j \in 1 .. size(e) : text[10 + j] = bytesText(e.bytes, e.gap)[j]
  BY DEF BeginsWith
<1>5. \A j \in 1 .. 8 : s[j] = addressText(e.addr)[j]
  <2>1. \A j \in 1 .. 8 : j \in 1 .. m
    BY <1>1
  <2> QED BY <1>2, <1>4, <2>1
<1>6. s[9] = Colon /\ s[10] = Space
  BY <1>1, <1>2, <1>4
<1>7. \A j \in 1 .. size(e) : s[10 + j] = bytesText(e.bytes, e.gap)[j]
  BY <1>2, <1>3, <1>4
<1>8. BeginsWith(s, e)
  BY <1>2, <1>5, <1>6, <1>7 DEF BeginsWith
<1> QED BY <1>2, <1>8 DEF s

LEMMA RecordContent ==
  ASSUME NEW e, IsRecord(e)
  PROVE  /\ BeginsWith(content(lineText(e)), e)
         /\ EndsPlain(content(lineText(e)), e)
<1> DEFINE P == lineText(e)
           r == e.rest
           n == 10 + size(e)
           h == find_first_of(r, {Hash}, 1)
<1>1. /\ BeginsWith(P, e) /\ Len(P) = n + Len(r) /\ \A j \in 1 .. Len(r) : P[n + j] = r[j]
      /\ r \in Seq(Char) /\ Len(r) \in Nat /\ n \in Nat
      /\ \A j \in DOMAIN content(r) : content(r)[j] \notin Digit
  <2>1. BeginsWith(P, e) /\ Len(P) = n + Len(r) /\ \A j \in 1 .. Len(r) : P[n + j] = r[j]
    BY LineOfRecord
  <2>2. /\ r \in Seq(Char) /\ Len(r) \in Nat /\ size(e) \in Nat
        /\ \A j \in DOMAIN content(r) : content(r)[j] \notin Digit
    BY RecordFields
  <2>3. n \in Nat
    BY <2>2
  <2> QED BY <2>1, <2>2, <2>3
<1>2. P \in Seq(Char) /\ \A j \in 1 .. n : P[j] # Hash
  BY <1>1, Beginning
<1> HIDE DEF P, r
<1>3. /\ h = 0 => \A j \in 1 .. Len(r) : r[j] # Hash
      /\ h # 0 => /\ h \in 1 .. Len(r) /\ r[h] = Hash
                  /\ \A j \in 1 .. Len(r) : j < h => r[j] # Hash
  BY <1>1, FirstFound
<1>4. CASE h = 0
  <2>1. content(r) = r
    BY <1>4 DEF content
  <2>2. ASSUME NEW j \in 1 .. Len(P) PROVE P[j] # Hash /\ (j > n => P[j] \notin Digit)
    <3>1. CASE j <= n
      BY <1>1, <1>2, <3>1
    <3>2. CASE j > n
      <4>1. j - n \in 1 .. Len(r) /\ n + (j - n) = j
        BY <1>1, <3>2
      <4>2. P[j] = r[j - n]
        BY <1>1, <4>1
      <4> QED BY <1>1, <1>3, <1>4, <2>1, <4>1, <4>2
    <3> QED BY <1>1, <3>1, <3>2
  <2>3. find_first_of(P, {Hash}, 1) = 0
    BY <1>2, <2>2, NoneFound
  <2>4. content(P) = P
    BY <2>3 DEF content
  <2>5. EndsPlain(P, e)
    BY <1>2, <2>2 DEF EndsPlain
  <2> QED BY <1>1, <2>4, <2>5 DEF P
<1>5. CASE h # 0
  <2> HIDE DEF h
  <2>1. h \in Nat /\ h >= 1 /\ h <= Len(r)
    BY <1>1, <1>3, <1>5
  <2>2. n + h \in 1 .. Len(P) /\ P[n + h] = Hash
    BY <1>1, <1>3, <1>5, <2>1
  <2>3. ASSUME NEW j \in 1 .. Len(P), j < n + h PROVE P[j] # Hash
    <3>1. CASE j <= n
      BY <1>1, <1>2, <3>1
    <3>2. CASE j > n
      <4>1. j - n \in 1 .. Len(r) /\ n + (j - n) = j /\ j - n < h
        BY <1>1, <2>1, <2>3, <3>2
      <4>2. P[j] = r[j - n]
        BY <1>1, <4>1
      <4> QED BY <1>3, <1>5, <4>1, <4>2
    <3> QED BY <1>1, <3>1, <3>2
  <2>4. find_first_of(P, {Hash}, 1) = n + h
    BY <1>1, <1>2, <2>1, <2>2, <2>3, FirstAt
  <2> DEFINE m == (n + h) - 1
             C == SubSeq(P, 1, m)
             c == SubSeq(r, 1, h - 1)
  <2>5. content(P) = C
    <3>1. n + h # 0
      BY <1>1, <2>1
    <3> HIDE DEF n
    <3> QED BY <2>4, <3>1 DEF content
  <2>6. content(r) = c
    BY <1>5 DEF content, h
  <2>7. m \in Nat /\ m >= n /\ m <= Len(P)
    BY <1>1, <2>1
  <2>8. BeginsWith(C, e) /\ Len(C) = m /\ \A j \in 1 .. m : C[j] = P[j]
    BY <1>1, <2>7, BeginsLonger
  <2>9. Len(c) = h - 1 /\ DOMAIN c = 1 .. (h - 1) /\ \A j \in 1 .. (h - 1) : c[j] = r[j]
    BY <1>1, <2>1
  <2>10. DOMAIN C = 1 .. m
    BY <2>8 DEF BeginsWith
  <2> HIDE DEF C, c
  <2>11. ASSUME NEW j \in 1 .. m, j > n PROVE C[j] \notin Digit
    <3>1. j - n \in 1 .. (h - 1) /\ j - n \in 1 .. Len(r) /\ n + (j - n) = j
      BY <1>1, <2>1, <2>7, <2>11
    <3>2. C[j] = c[j - n]
      BY <1>1, <2>8, <2>9, <3>1
    <3> QED BY <1>1, <2>6, <2>9, <3>1, <3>2
  <2>12. EndsPlain(C, e)
    BY <2>10, <2>11 DEF EndsPlain
  <2> QED BY <2>5, <2>8, <2>12 DEF P
<1> QED BY <1>4, <1>5

-----------------------------------------------------------------------------
(***************************************************************************)
(* Reading the record.                                                     *)
(***************************************************************************)
LEMMA RecordColon ==
  ASSUME NEW e, IsRecord(e), NEW text, BeginsWith(text, e)
  PROVE  colon(text) = 9
<1>1. /\ text \in Seq(Char) /\ Len(text) \in Nat /\ Len(text) >= 10
      /\ \A j \in 1 .. 8 : text[j] \in Digit
      /\ text[9] = Colon
  BY Beginning, RecordFields
<1>2. 9 \in DOMAIN text /\ text[9] \in {Colon}
  BY <1>1
<1>3. \A j \in DOMAIN text : j >= 1 /\ j < 9 => text[j] \notin {Colon}
  BY <1>1, CharacterKinds
<1> QED BY <1>1, <1>2, <1>3, FirstAt DEF colon

LEMMA WholeText ==
  ASSUME NEW s \in Seq(Char) PROVE SubSeq(s, 1, Len(s)) = s
OBVIOUS

LEMMA RecordAddress ==
  ASSUME NEW e, IsRecord(e), NEW text, BeginsWith(text, e)
  PROVE  addresses(text) = {e.addr}
<1> DEFINE before == SubSeq(text, 1, 8)
<1>1. /\ text \in Seq(Char) /\ Len(text) \in Nat /\ Len(text) >= 10
      /\ \A j \in 1 .. 8 : text[j] \in Digit /\ text[j] = addressText(e.addr)[j]
      /\ e.addr \in Word
  BY Beginning, RecordFields DEF BeginsWith
<1>2. before \in Seq(Char) /\ Len(before) = 8 /\ \A j \in 1 .. 8 : before[j] = text[j]
  BY <1>1
<1> HIDE DEF before
<1>3. find_first_of(before, Char \ {Space}, 1) = 1
  <2>1. 1 \in DOMAIN before /\ before[1] \in Char \ {Space}
    <3>1. 1 \in DOMAIN before /\ before[1] \in Digit
      BY <1>1, <1>2
    <3> QED BY <3>1, CharacterKinds DEF Char
  <2>2. \A j \in DOMAIN before : j >= 1 /\ j < 1 => before[j] \notin Char \ {Space}
    BY <1>2
  <2> QED BY <1>2, <2>1, <2>2, FirstAt
<1>4. SubSeq(before, 1, Len(before)) = before
  BY <1>2, WholeText
<1>5. hexValue(before) = e.addr
  <2>1. before \in Seq(Char) /\ Len(before) = 8
    BY <1>2
  <2>2. \A j \in 1 .. 8 : before[j] = addressText(e.addr)[j]
    BY <1>1, <1>2
  <2>3. e.addr \in Word
    BY <1>1
  <2> QED BY <2>1, <2>2, <2>3, EightDigits
<1>6. SubSeq(text, 1, colon(text) - 1) = before
  <2>1. colon(text) - 1 = 8
    BY RecordColon
  <2> QED BY <2>1 DEF before
<1>7. addresses(text) = {hexValue(before)}
  <2> DEFINE b == SubSeq(text, 1, colon(text) - 1)
             first == find_first_of(b, Char \ {Space}, 1)
  <2>1. addresses(text) = IF first = 0 THEN Word ELSE {hexValue(SubSeq(b, first, Len(b)))}
    BY DEF addresses
  <2>2. b = before
    BY <1>6
  <2> HIDE DEF b
  <2>3. first = 1
    BY <1>3, <2>2
  <2> HIDE DEF first
  <2>4. SubSeq(b, first, Len(b)) = before
    BY <1>4, <2>2, <2>3
  <2>5. first # 0
    BY <2>3
  <2> QED BY <2>1, <2>4, <2>5
<1> QED BY <1>5, <1>7

LEMMA NoBytes ==
  ASSUME NEW e, IsRecord(e), NEW text, BeginsWith(text, e), EndsPlain(text, e),
         e.bytes = <<>>
  PROVE  start(text) = 0
<1>1. size(e) = 0
  <2>1. Len(e.bytes) = 0 /\ width(e.gap) \in Nat
    BY RecordFields
  <2> QED BY <2>1 DEF size
<1>2. text \in Seq(Char) /\ Len(text) \in Nat /\ text[10] = Space
  BY Beginning
<1>3. ASSUME NEW j \in DOMAIN text, j >= 10 PROVE text[j] \notin HEX_DIGIT
  <2>1. CASE j = 10
    BY <1>2, <2>1, CharacterKinds DEF HEX_DIGIT
  <2>2. CASE j > 10
    BY <1>1, <2>2 DEF EndsPlain, HEX_DIGIT
  <2> QED BY <1>2, <1>3, <2>1, <2>2
<1>4. colon(text) + 1 = 10
  BY RecordColon
<1> QED BY <1>2, <1>3, <1>4, NoneFound DEF start

\* The characters of byte k.
LEMMA RecordByte ==
  ASSUME NEW e, IsRecord(e), NEW text, BeginsWith(text, e),
         NEW k \in 1 .. Len(e.bytes), NEW i \in 1 .. width(e.gap)
  PROVE  /\ (k - 1) * width(e.gap) \in Nat
         /\ (k - 1) * width(e.gap) + i \in 1 .. size(e)
         /\ text[10 + ((k - 1) * width(e.gap) + i)] = digitOf(e.bytes[k], i)
<1>1. /\ e.bytes \in Seq(Byte) /\ e.gap \in Seq({Space}) /\ width(e.gap) \in Nat \ {0}
      /\ Len(e.bytes) \in Nat
  BY RecordFields
<1>2. (k - 1) * width(e.gap) + i \in 1 .. size(e)
  BY <1>1, TextPosition DEF size
<1>3. bytesText(e.bytes, e.gap)[(k - 1) * width(e.gap) + i] = digitOf(e.bytes[k], i)
  BY <1>1, BytesText
<1>4. (k - 1) * width(e.gap) \in Nat
  BY <1>1
<1>5. \A j \in 1 .. size(e) : text[10 + j] = bytesText(e.bytes, e.gap)[j]
  BY DEF BeginsWith
<1> QED BY <1>2, <1>3, <1>4, <1>5

\* The last digit of the record.
lastDigit(e) == 10 + ((Len(e.bytes) - 1) * width(e.gap) + 2)

LEMMA RecordData ==
  ASSUME NEW e, IsRecord(e), NEW text, BeginsWith(text, e), EndsPlain(text, e),
         e.bytes # <<>>
  PROVE  start(text) = 11 /\ end(text) = lastDigit(e) /\ lastDigit(e) <= 10 + size(e)
<1> DEFINE L == Len(e.bytes)
           w == width(e.gap)
           p == (L - 1) * w + 2
<1>1. /\ e.bytes \in Seq(Byte) /\ w \in Nat /\ w >= 2 /\ L \in Nat /\ L >= 1
      /\ size(e) = w * L /\ size(e) \in Nat
  <2>1. e.bytes \in Seq(Byte) /\ w \in Nat /\ w >= 2 /\ L \in Nat /\ size(e) \in Nat
    BY RecordFields
  <2>2. L # 0
    BY <2>1, EmptySeq
  <2> QED BY <2>1, <2>2 DEF size
<1>2. text \in Seq(Char) /\ Len(text) \in Nat /\ Len(text) >= 10 + size(e) /\ text[10] = Space
  BY Beginning
<1>3. \A b \in Byte : digitOf(b, 1) \in Digit /\ digitOf(b, 2) \in Digit
  BY ByteDigits DEF digitOf
<1>4. start(text) = 11
  <2>1. (1 - 1) * w + 1 = 1 /\ 1 \in 1 .. L /\ 1 \in 1 .. w
    BY <1>1
  <2>2. 1 \in 1 .. size(e) /\ text[10 + 1] = digitOf(e.bytes[1], 1)
    BY <2>1, RecordByte
  <2>3. e.bytes[1] \in Byte
    BY <1>1
  <2>4. 11 \in DOMAIN text /\ text[11] \in HEX_DIGIT
    BY <1>1, <1>2, <1>3, <2>2, <2>3 DEF HEX_DIGIT
  <2>5. \A j \in DOMAIN text : j >= 10 /\ j < 11 => text[j] \notin HEX_DIGIT
    BY <1>2, CharacterKinds DEF HEX_DIGIT
  <2>6. colon(text) + 1 = 10
    BY RecordColon
  <2>7. find_first_of(text, HEX_DIGIT, 10) = 11
    BY <1>2, <2>4, <2>5, FirstAt
  <2> QED BY <2>6, <2>7 DEF start
<1>5. p \in 1 .. size(e) /\ text[10 + p] \in Digit
  <2>1. L \in 1 .. L /\ 2 \in 1 .. w
    BY <1>1
  <2>2. p \in 1 .. size(e) /\ text[10 + p] = digitOf(e.bytes[L], 2)
    BY <2>1, RecordByte
  <2>3. e.bytes[L] \in Byte
    BY <1>1, <2>1
  <2> QED BY <1>3, <2>2, <2>3
<1>6. ASSUME NEW j \in 1 .. size(e), j > p PROVE text[10 + j] = Space
  <2>1. PICK k \in 1 .. L, i \in 1 .. w : j = (k - 1) * w + i
    <3>1. w \in Nat \ {0} /\ j \in 1 .. (w * L)
      BY <1>1
    <3> HIDE DEF w, L
    <3> QED BY <1>1, <3>1, PositionOf
  <2>2. text[10 + j] = digitOf(e.bytes[k], i)
    BY <2>1, RecordByte
  <2>3. i > 2
    <3>1. CASE k = L
      BY <1>1, <1>6, <2>1, <3>1
    <3>2. CASE k < L
      <4>0. ASSUME NEW a \in Nat, NEW b \in Nat, NEW c \in Nat, c >= 1, c < b
            PROVE  c * a <= (b - 1) * a /\ (c - 1) * a + a = c * a
        BY <4>0
      <4>1. k * w <= (L - 1) * w /\ (k - 1) * w + w = k * w
        <5>1. k \in Nat /\ k >= 1
          BY <1>1
        <5> HIDE DEF w, L
        <5> QED BY <1>1, <3>2, <4>0, <5>1
      <4> HIDE DEF w, L
      <4>2. (k - 1) * w \in Int /\ (L - 1) * w \in Int
        BY <1>1
      <4> DEFINE c == (k - 1) * w
                 d == (L - 1) * w
      <4>3. c \in Int /\ d \in Int /\ c + w <= d /\ j = c + i /\ j > d + 2
        <5>1. j = c + i /\ j > d + 2
          BY <1>6, <2>1, Zenon
        <5>2. c + w <= d
          BY <4>1, Zenon
        <5> QED BY <4>2, <5>1, <5>2, Zenon
      <4> HIDE DEF c, d
      <4> QED BY <1>1, <4>3
    <3> QED BY <1>1, <3>1, <3>2
  <2> QED BY <2>2, <2>3 DEF digitOf
<1>7. end(text) = 10 + p
  <2>1. 10 + p \in DOMAIN text /\ text[10 + p] \in HEX_DIGIT
    BY <1>1, <1>2, <1>5 DEF HEX_DIGIT
  <2>2. ASSUME NEW j \in DOMAIN text, j > 10 + p PROVE text[j] \notin HEX_DIGIT
    <3> HIDE DEF p, L, w
    <3>1. CASE j > 10 + size(e)
      BY <3>1 DEF EndsPlain, HEX_DIGIT
    <3>2. CASE j <= 10 + size(e)
      <4>0. size(e) \in Nat /\ p \in 1 .. size(e) /\ j \in Nat
        BY <1>1, <1>2, <1>5
      <4>1. j - 10 \in 1 .. size(e) /\ j - 10 > p /\ 10 + (j - 10) = j
        BY <2>2, <3>2, <4>0
      <4> QED BY <1>6, <4>1, CharacterKinds DEF HEX_DIGIT
    <3> QED BY <1>1, <1>2, <3>1, <3>2
  <2> HIDE DEF p
  <2> QED BY <1>2, <2>1, <2>2, LastAt DEF end
<1>8. lastDigit(e) = 10 + p
  BY DEF lastDigit
<1> HIDE DEF p
<1> QED BY <1>1, <1>4, <1>5, <1>7, <1>8

LEMMA RowsOfGap ==
  ASSUME NEW L \in Nat, NEW w \in Nat, w >= 2, NEW k \in 1 .. L, NEW i \in 1 .. w,
         i <= 2 \/ k < L
  PROVE  /\ (k - 1) * w \in Nat /\ (L - 1) * w \in Nat
         /\ (k - 1) * w + i <= (L - 1) * w + 2
         /\ (k - 1) * w + w = ((k + 1) - 1) * w
<1>1. (k - 1) * w \in Nat /\ (L - 1) * w \in Nat
  BY DigitAdded
<1>2. (k - 1) * w + w = ((k + 1) - 1) * w
  OBVIOUS
<1>3. k < L => (k - 1) * w + w <= (L - 1) * w
  <2>1. ASSUME NEW a \in Nat, NEW b \in Nat, a + 1 <= b PROVE a * w + w <= b * w
    BY <2>1
  <2> QED BY <2>1
<1>4. k = L \/ k < L
  OBVIOUS
<1>5. CASE k < L
  BY <1>1, <1>3, <1>5
<1>6. CASE k = L
  BY <1>1, <1>6
<1> QED BY <1>1, <1>2, <1>4, <1>5, <1>6

\* The bytes read are those written, whatever stands between them.
LEMMA RecordBuffer ==
  ASSUME NEW e, IsRecord(e), NEW text, BeginsWith(text, e), EndsPlain(text, e),
         e.bytes # <<>>
  PROVE  buffer(text) = e.bytes
<1> DEFINE L == Len(e.bytes)
           w == width(e.gap)
           n == (L - 1) * w + 2
           data == SubSeq(text, 11, 10 + n)
           at(k) == (k - 1) * w + 1
<1>1. /\ e.bytes \in Seq(Byte) /\ w \in Nat /\ w >= 2 /\ L \in Nat /\ L >= 1
  <2>1. e.bytes \in Seq(Byte) /\ w \in Nat /\ w >= 2 /\ L \in Nat
    BY RecordFields
  <2>2. L # 0
    BY <2>1, EmptySeq
  <2> QED BY <2>1, <2>2
<1>2. /\ \A k \in 1 .. L : e.bytes[k] \in Byte
      /\ DOMAIN e.bytes = 1 .. L
  BY <1>1
<1>3. /\ start(text) = 11 /\ end(text) = 10 + n /\ 10 + n <= 10 + size(e)
      /\ n \in Nat /\ n >= 2
  <2>1. start(text) = 11 /\ end(text) = 10 + n /\ 10 + n <= 10 + size(e)
    BY RecordData DEF lastDigit
  <2>2. (L - 1) * w \in Nat
    BY <1>1, DigitAdded
  <2> HIDE DEF L, w
  <2> QED BY <2>1, <2>2
<1>4. /\ data \in Seq(Char) /\ Len(data) = n /\ \A j \in 1 .. n : data[j] = text[10 + j]
  <2>1. text \in Seq(Char) /\ Len(text) \in Nat /\ Len(text) >= 10 + size(e) /\ size(e) \in Nat
    BY Beginning, RecordFields
  <2> HIDE DEF n
  <2> QED BY <1>3, <2>1
<1>5. ASSUME NEW k \in 1 .. L, NEW i \in 1 .. w, i <= 2 \/ k < L
      PROVE  /\ (k - 1) * w \in Nat /\ (k - 1) * w + i \in 1 .. n
             /\ data[(k - 1) * w + i] = digitOf(e.bytes[k], i)
  <2>1. text[10 + ((k - 1) * w + i)] = digitOf(e.bytes[k], i)
    BY RecordByte
  <2>2. (k - 1) * w \in Nat /\ (k - 1) * w + i <= n
    <3> HIDE DEF L, w
    <3> QED BY <1>1, <1>5, RowsOfGap
  <2>3. (k - 1) * w + i \in 1 .. n
    <3> HIDE DEF n, w, L
    <3> QED BY <1>1, <1>3, <2>2
  <2> HIDE DEF n, data
  <2> QED BY <1>4, <2>1, <2>2, <2>3
<1>6. PICK f : IsFrom(f, data) /\ buffer(text) = f[1]
  <2>1. data = SubSeq(text, start(text), end(text))
    BY <1>3
  <2> HIDE DEF data
  <2> QED BY <1>3, <1>4, <2>1, BufferDefined
<1> HIDE DEF n, data
<1>7. \A j \in 1 .. (n + 1) : f[j] = bytesFrom(data, f, j)
  BY <1>4, <1>6 DEF IsFrom
<1>8. ASSUME NEW k \in 1 .. L
      PROVE  at(k) \in 1 .. n /\ f[at(k)] = <<e.bytes[k]>> \o f[at(k) + 2]
  <2> DEFINE b == e.bytes[k]
  <2>1. 1 \in 1 .. w /\ 2 \in 1 .. w
    BY <1>1
  <2>2. /\ (k - 1) * w \in Nat
        /\ (k - 1) * w + 1 \in 1 .. n /\ data[(k - 1) * w + 1] = digitOf(b, 1)
        /\ (k - 1) * w + 2 \in 1 .. n /\ data[(k - 1) * w + 2] = digitOf(b, 2)
    BY <1>5, <2>1
  <2>3. b \in Byte
    BY <1>2
  <2> HIDE DEF b, L, w
  <2>4. PICK j \in 1 .. n : j = at(k) /\ j + 1 \in 1 .. n /\ j + 1 = (k - 1) * w + 2
    BY <1>3, <2>2
  <2>5. data[j] = b \div D /\ data[j + 1] = b % D
    BY <2>2, <2>4 DEF digitOf
  <2>6. b \div D \in Digit /\ b % D \in Digit
    BY <2>3, ByteDigits
  <2>7. data[j] # Space /\ data[j + 1] # Space
    BY <2>5, <2>6, CharacterKinds
  <2>8. ~(j > Len(data)) /\ j # Len(data) /\ j \in 1 .. Len(data) /\ j < Len(data)
    BY <1>3, <1>4, <2>4
  <2>9. bytesFrom(data, f, j) = <<hexValue(SubSeq(data, j, j + 1))>> \o f[j + 2]
    BY <2>7, <2>8 DEF bytesFrom
  <2> DEFINE t == SubSeq(data, j, j + 1)
  <2>10. t \in Seq(Char) /\ Len(t) = 2 /\ t[1] = b \div D /\ t[2] = b % D
    BY <1>4, <2>5, <2>8, TwoCharacters
  <2> HIDE DEF t
  <2>11. hexValue(t) = b
    BY <2>3, <2>10, TwoDigits
  <2>12. f[j] = <<b>> \o f[j + 2]
    <3>1. j \in 1 .. (n + 1)
      BY <1>3, <2>4
    <3> QED BY <1>7, <2>9, <2>11, <3>1 DEF t
  <2> HIDE DEF at
  <2> QED BY <2>4, <2>12 DEF b
<1>9. ASSUME NEW k \in 1 .. L, k < L PROVE f[at(k) + 2] = f[at(k + 1)]
  <2> DEFINE Upto == {m \in Nat : m + 2 <= w => f[at(k) + 2] = f[at(k) + (m + 2)]}
  <2>1. 0 \in Upto
    OBVIOUS
  <2>2. ASSUME NEW m \in Upto PROVE m + 1 \in Upto
    <3>1. m \in Nat /\ (m + 2 <= w => f[at(k) + 2] = f[at(k) + (m + 2)])
      OBVIOUS
    <3> SUFFICES ASSUME (m + 1) + 2 <= w PROVE f[at(k) + 2] = f[at(k) + ((m + 1) + 2)]
      BY <3>1
    <3>2. PICK i \in 1 .. w : i = m + 3
      BY <1>1, <3>1
    <3>3. /\ (k - 1) * w \in Nat /\ (k - 1) * w + i \in 1 .. n
          /\ data[(k - 1) * w + i] = digitOf(e.bytes[k], i)
      BY <1>5, <1>9
    <3>4. digitOf(e.bytes[k], i) = Space
      <4>1. i > 2
        BY <3>1, <3>2
      <4> QED BY <3>2, <4>1 DEF digitOf
    <3> HIDE DEF w, L
    <3>5. PICK j \in 1 .. n : j = at(k) + (m + 2) /\ j = (k - 1) * w + i
                              /\ j + 1 = at(k) + ((m + 1) + 2)
      <4> DEFINE c == (k - 1) * w
      <4>1. c \in Nat /\ c + i \in 1 .. n /\ at(k) = c + 1
        BY <3>3
      <4> HIDE DEF at, c
      <4>2. c + i = at(k) + (m + 2) /\ (c + i) + 1 = at(k) + ((m + 1) + 2)
        BY <3>1, <3>2, <4>1
      <4>3. \E j \in 1 .. n : j = at(k) + (m + 2) /\ j = c + i
                              /\ j + 1 = at(k) + ((m + 1) + 2)
        BY <4>1, <4>2
      <4> QED BY <4>3, Zenon DEF c
    <3>6. data[j] = Space /\ ~(j > Len(data)) /\ j \in 1 .. (n + 1)
      <4>1. data[j] = Space
        BY <3>3, <3>4, <3>5, Zenon
      <4>2. ~(j > Len(data)) /\ j \in 1 .. (n + 1)
        BY <1>3, <1>4
      <4> QED BY <4>1, <4>2
    <3>7. bytesFrom(data, f, j) = f[j + 1]
      BY <3>6 DEF bytesFrom
    <3>8. f[j] = f[j + 1]
      BY <1>7, <3>6, <3>7
    <3>9. m + 2 <= w
      BY <1>1, <3>1
    <3> HIDE DEF at
    <3> QED BY <3>1, <3>5, <3>8, <3>9
  <2>3. PICK m \in Nat : m + 2 = w
    BY <1>1
  <2>4. Upto = Nat
    <3>1. Upto \subseteq Nat
      OBVIOUS
    <3> HIDE DEF Upto
    <3> QED BY <2>1, <2>2, <3>1, Induct
  <2>5. f[at(k) + 2] = f[at(k) + (m + 2)]
    <3>1. m \in Upto /\ m + 2 <= w
      <4>1. m + 2 <= w
        BY <1>1, <2>3
      <4> HIDE DEF Upto
      <4> QED BY <2>4, <4>1
    <3> HIDE DEF w, at
    <3> QED BY <3>1
  <2>6. at(k) + (m + 2) = at(k + 1)
    <3>1. (k - 1) * w \in Nat /\ (k - 1) * w + w = ((k + 1) - 1) * w
      <4>1. 1 \in 1 .. w
        BY <1>1
      <4> HIDE DEF w, L
      <4> QED BY <1>1, <4>1, RowsOfGap
    <3> HIDE DEF w, L
    <3> QED BY <1>1, <2>3, <3>1
  <2> HIDE DEF at
  <2> QED BY <2>5, <2>6
<1>10. f[at(L) + 2] = <<>>
  <2>1. at(L) + 2 = n + 1
    <3>1. (L - 1) * w \in Nat
      BY <1>1, DigitAdded
    <3> HIDE DEF w, L
    <3> QED BY <3>1 DEF n
  <2>2. n + 1 \in 1 .. (n + 1) /\ n + 1 > Len(data)
    BY <1>3, <1>4
  <2>3. bytesFrom(data, f, n + 1) = <<>>
    BY <2>2 DEF bytesFrom
  <2> HIDE DEF at
  <2> QED BY <1>7, <2>1, <2>2, <2>3
<1> HIDE DEF at, w
<1> DEFINE Ends(s, k) == /\ s \in Seq(Byte) /\ Len(s) = L - k + 1
                         /\ \A i \in 1 .. (L - k + 1) : s[i] = e.bytes[(k - 1) + i]
<1>11. ASSUME NEW k \in 1 .. L, NEW s \in Seq(Byte), Len(s) = L - k,
              \A i \in 1 .. (L - k) : s[i] = e.bytes[k + i]
       PROVE  Ends(<<e.bytes[k]>> \o s, k)
  <2> DEFINE t == <<e.bytes[k]>> \o s
  <2>1. e.bytes[k] \in Byte
    BY <1>2
  <2>2. /\ t \in Seq(Byte) /\ Len(t) = 1 + (L - k)
        /\ \A i \in 1 .. (1 + (L - k)) : t[i] = IF i = 1 THEN e.bytes[k] ELSE s[i - 1]
    <3> HIDE DEF L
    <3> QED BY <1>1, <1>11, <2>1
  <2> HIDE DEF t, L
  <2>3. ASSUME NEW i \in 1 .. (L - k + 1) PROVE t[i] = e.bytes[(k - 1) + i]
    <3>1. i \in 1 .. (1 + (L - k))
      BY <1>1
    <3>2. CASE i = 1
      BY <2>2, <3>1, <3>2
    <3>3. CASE i # 1
      <4>1. i - 1 \in 1 .. (L - k) /\ k + (i - 1) = (k - 1) + i
        BY <1>1, <3>3
      <4>2. s[i - 1] = e.bytes[k + (i - 1)]
        BY <1>11, <4>1
      <4> QED BY <2>2, <3>1, <3>3, <4>1, <4>2
    <3> QED BY <3>2, <3>3
  <2>4. Len(t) = L - k + 1
    BY <1>1, <2>2
  <2> QED BY <2>2, <2>3, <2>4 DEF t
<1> DEFINE Back == {m \in Nat : m < L => Ends(f[at(L - m)], L - m)}
<1>12. 0 \in Back
  <2>1. L \in 1 .. L /\ L - 0 = L
    BY <1>1
  <2>2. f[at(L)] = <<e.bytes[L]>> \o <<>>
    BY <1>8, <1>10, <2>1
  <2>3. <<>> \in Seq(Byte) /\ Len(<<>>) = L - L /\ \A i \in 1 .. (L - L) : FALSE
    BY <1>1
  <2>4. Ends(f[at(L)], L)
    <3> HIDE DEF Ends, L
    <3> QED BY <1>11, <2>1, <2>2, <2>3
  <2> HIDE DEF Ends, L
  <2> QED BY <2>1, <2>4
<1>13. ASSUME NEW m \in Back PROVE m + 1 \in Back
  <2>0. m \in Nat /\ (m < L => Ends(f[at(L - m)], L - m))
    OBVIOUS
  <2> SUFFICES ASSUME m + 1 < L PROVE Ends(f[at(L - (m + 1))], L - (m + 1))
    <3> HIDE DEF Ends
    <3> QED BY <2>0
  <2>1. PICK k \in 1 .. L : k = L - (m + 1) /\ k < L /\ k + 1 = L - m
    <3> HIDE DEF L
    <3> QED BY <1>1, <2>0
  <2>2. Ends(f[at(k + 1)], k + 1)
    <3> HIDE DEF Ends
    <3>1. m < L
      BY <1>1, <2>0
    <3> QED BY <2>0, <2>1, <3>1
  <2>3. f[at(k)] = <<e.bytes[k]>> \o f[at(k + 1)]
    BY <1>8, <1>9, <2>1
  <2> DEFINE s == f[at(k + 1)]
  <2>4. /\ s \in Seq(Byte) /\ Len(s) = L - k
        /\ \A i \in 1 .. (L - k) : s[i] = e.bytes[k + i]
    <3> HIDE DEF s, L
    <3>1. L - (k + 1) + 1 = L - k /\ (k + 1) - 1 = k
      BY <1>1, <2>1
    <3> QED BY <2>2, <3>1 DEF s
  <2>5. Ends(<<e.bytes[k]>> \o s, k)
    <3> HIDE DEF Ends, s, L
    <3> QED BY <1>11, <2>4
  <2> HIDE DEF Ends
  <2> QED BY <2>1, <2>3, <2>5
<1>14. Ends(f[at(1)], 1)
  <2> HIDE DEF Ends
  <2>1. Back = Nat
    <3>1. Back \subseteq Nat
      OBVIOUS
    <3> HIDE DEF Back
    <3> QED BY <1>12, <1>13, <3>1, Induct
  <2>2. L - 1 \in Nat /\ L - 1 < L /\ L - (L - 1) = 1
    <3> HIDE DEF L
    <3> QED BY <1>1
  <2> QED BY <2>1, <2>2
<1>15. at(1) = 1
  BY <1>1 DEF at
<1>16. f[1] \in Seq(Byte) /\ Len(f[1]) = L /\ \A i \in 1 .. L : f[1][i] = e.bytes[i]
  <2> HIDE DEF L
  <2>1. L - 1 + 1 = L /\ \A i \in 1 .. L : (1 - 1) + i = i
    BY <1>1
  <2> QED BY <1>14, <1>15, <2>1
<1>17. f[1] = e.bytes
  BY <1>1, <1>16, SeqEqual
<1> QED BY <1>6, <1>17

\* What main makes of the line of an entry.
lineOf(e) == content(lineText(e))

LEMMA EntryRead ==
  ASSUME NEW e, IsEntry(e), e.rest \in Seq(Char)
  PROVE  /\ colon(lineOf(e)) # 0 => e.loads
         /\ e.loads => colon(lineOf(e)) # 0 /\ IsRecord(e)
         /\ e.loads /\ e.bytes = <<>> => start(lineOf(e)) = 0
         /\ e.loads /\ e.bytes # <<>> =>
              /\ start(lineOf(e)) # 0
              /\ addresses(lineOf(e)) = {e.addr} /\ buffer(lineOf(e)) = e.bytes
<1>1. CASE ~e.loads
  <2>1. colon(content(e.rest)) = 0 /\ lineText(e) = e.rest
    BY <1>1 DEF IsEntry, lineText
  <2> QED BY <1>1, <2>1 DEF lineOf
<1>2. CASE e.loads
  <2>1. IsRecord(e)
    BY <1>2 DEF IsRecord
  <2>2. BeginsWith(lineOf(e), e) /\ EndsPlain(lineOf(e), e)
    BY <2>1, RecordContent DEF lineOf
  <2>3. colon(lineOf(e)) = 9
    BY <2>1, <2>2, RecordColon
  <2>4. e.bytes = <<>> => start(lineOf(e)) = 0
    BY <2>1, <2>2, NoBytes
  <2>5. e.bytes # <<>> => start(lineOf(e)) = 11 /\ buffer(lineOf(e)) = e.bytes
    BY <2>1, <2>2, RecordData, RecordBuffer
  <2>6. addresses(lineOf(e)) = {e.addr}
    BY <2>1, <2>2, RecordAddress
  <2> QED BY <1>2, <2>1, <2>3, <2>4, <2>5, <2>6
<1> QED BY <1>1, <1>2

-----------------------------------------------------------------------------
(***************************************************************************)
(* The records of the first lines.                                         *)
(***************************************************************************)
covering(entries, n, a) == {j \in 1 .. n : Covers(entries[j], a)}

LEMMA LoadedByte ==
  ASSUME NEW entries, NEW n \in Nat, NEW a \in Address
  PROVE  /\ covering(entries, n, a) = {} => Loaded(entries, n)[a] = 0
         /\ \A k \in covering(entries, n, a) :
              (\A j \in covering(entries, n, a) : j <= k) =>
                 Loaded(entries, n)[a] = entries[k].bytes[a - entries[k].addr + 1]
<1> DEFINE over == covering(entries, n, a)
           last == entries[Max(over)]
<1>1. Loaded(entries, n)[a] = IF over = {} THEN 0 ELSE last.bytes[a - last.addr + 1]
  BY DEF Loaded, covering
<1>2. over \subseteq 0 .. n /\ \A j \in over : j \in Nat
  BY DEF covering
<1> HIDE DEF over
<1>3. ASSUME NEW k \in over, \A j \in over : j <= k PROVE Max(over) = k
  <2>1. Max(over) \in over /\ \A j \in over : j <= Max(over)
    BY <1>2, MaxOf
  <2> DEFINE m == Max(over)
  <2>2. m \in Nat /\ k \in Nat /\ m <= k /\ k <= m
    BY <1>2, <1>3, <2>1
  <2> HIDE DEF m
  <2>3. m = k
    BY <2>2
  <2> QED BY <2>3 DEF m
<1>4. ASSUME NEW k \in over, \A j \in over : j <= k
      PROVE  Loaded(entries, n)[a] = entries[k].bytes[a - entries[k].addr + 1]
  <2>1. Max(over) = k
    BY <1>3, <1>4
  <2>2. over # {}
    OBVIOUS
  <2>3. Loaded(entries, n)[a] = last.bytes[a - last.addr + 1]
    BY <1>1, <2>2
  <2> QED BY <2>1, <2>3
<1> QED BY <1>1, <1>4 DEF over

LEMMA LoadedNone ==
  ASSUME NEW entries PROVE Loaded(entries, 0) = Zeros
<1>1. \A a \in Address : Loaded(entries, 0)[a] = 0
  <2>1. \A a \in Address : covering(entries, 0, a) = {}
    BY DEF covering
  <2> QED BY <2>1, LoadedByte
<1>2. Loaded(entries, 0) = [a \in Address |-> Loaded(entries, 0)[a]]
  BY DEF Loaded
<1> HIDE DEF Loaded
<1> QED BY <1>1, <1>2 DEF Zeros

LEMMA CoveringNext ==
  ASSUME NEW entries, NEW n \in Nat, NEW a
  PROVE  covering(entries, n + 1, a) =
           covering(entries, n, a) \cup (IF Covers(entries[n + 1], a) THEN {n + 1} ELSE {})
<1>1. 1 .. (n + 1) = (1 .. n) \cup {n + 1}
  OBVIOUS
<1> QED BY <1>1 DEF covering

\* A byte that the next record leaves alone.
LEMMA LoadedKept ==
  ASSUME NEW entries, NEW n \in Nat, NEW a \in Address, ~Covers(entries[n + 1], a)
  PROVE  Loaded(entries, n + 1)[a] = Loaded(entries, n)[a]
<1> DEFINE over == covering(entries, n, a)
<1>1. covering(entries, n + 1, a) = over
  <2>1. covering(entries, n + 1, a) =
          over \cup (IF Covers(entries[n + 1], a) THEN {n + 1} ELSE {})
    BY CoveringNext
  <2> HIDE DEF over
  <2> QED BY <2>1
<1>2. CASE over = {}
  BY <1>1, <1>2, LoadedByte
<1>3. CASE over # {}
  <2>1. over \subseteq 0 .. n
    BY DEF covering
  <2>2. Max(over) \in over /\ \A j \in over : j <= Max(over)
    <3> HIDE DEF over
    <3> QED BY <1>3, <2>1, MaxOf
  <2> DEFINE k == Max(over)
  <2>3. k \in over /\ \A j \in over : j <= k
    BY <2>2
  <2> HIDE DEF k, over
  <2>4. Loaded(entries, n)[a] = entries[k].bytes[a - entries[k].addr + 1]
    BY <2>3, LoadedByte DEF over
  <2>5. Loaded(entries, n + 1)[a] = entries[k].bytes[a - entries[k].addr + 1]
    <3>1. n + 1 \in Nat
      OBVIOUS
    <3> QED BY <1>1, <2>3, <3>1, LoadedByte
  <2> QED BY <2>4, <2>5
<1> QED BY <1>2, <1>3

LEMMA LoadedFunction ==
  ASSUME NEW entries, NEW n
  PROVE  Loaded(entries, n) = [a \in Address |-> Loaded(entries, n)[a]]
BY DEF Loaded

LEMMA LoadedSkip ==
  ASSUME NEW entries, NEW n \in Nat, ~entries[n + 1].loads
  PROVE  Loaded(entries, n + 1) = Loaded(entries, n)
<1>1. \A a \in Address : ~Covers(entries[n + 1], a)
  BY DEF Covers
<1>2. \A a \in Address : Loaded(entries, n + 1)[a] = Loaded(entries, n)[a]
  BY <1>1, LoadedKept
<1> DEFINE F == Loaded(entries, n + 1)
           G == Loaded(entries, n)
<1>3. F = [a \in Address |-> F[a]] /\ G = [a \in Address |-> G[a]]
  BY LoadedFunction
<1> HIDE DEF F, G
<1>4. F = G
  BY <1>2, <1>3 DEF F, G
<1> QED BY <1>4 DEF F, G

LEMMA LoadedNext ==
  ASSUME NEW entries, NEW n \in Nat, entries[n + 1].loads
  PROVE  LET e == entries[n + 1] IN
         Loaded(entries, n + 1) = stored(Loaded(entries, n), e.addr, e.bytes, Len(e.bytes))
<1> DEFINE e == entries[n + 1]
           F == Loaded(entries, n + 1)
           G == Loaded(entries, n)
           in(a) == a \in e.addr .. (e.addr + Len(e.bytes) - 1)
<1>1. F = [a \in Address |-> F[a]] /\ G = [a \in Address |-> G[a]]
  BY LoadedFunction
<1>2. \A a : Covers(e, a) <=> in(a)
  BY DEF Covers
<1>3. ASSUME NEW a \in Address, ~in(a) PROVE F[a] = G[a]
  <2>1. ~Covers(entries[n + 1], a)
    BY <1>2, <1>3
  <2> QED BY <2>1, LoadedKept
<1>4. ASSUME NEW a \in Address, in(a) PROVE F[a] = e.bytes[a - e.addr + 1]
  <2> DEFINE over == covering(entries, n + 1, a)
  <2>1. Covers(entries[n + 1], a)
    BY <1>2, <1>4
  <2>2. n + 1 \in over /\ \A j \in over : j <= n + 1
    BY <2>1 DEF covering
  <2>3. n + 1 \in Nat
    OBVIOUS
  <2> HIDE DEF over, in, e, F
  <2>4. Loaded(entries, n + 1)[a] = entries[n + 1].bytes[a - entries[n + 1].addr + 1]
    BY <2>2, <2>3, LoadedByte DEF over
  <2> QED BY <2>4 DEF F, e
<1>5. DOMAIN G = Address
  BY DEF Loaded
<1>6. stored(G, e.addr, e.bytes, Len(e.bytes)) =
        [a \in Address |-> IF in(a) THEN e.bytes[a - e.addr + 1] ELSE G[a]]
  <2> HIDE DEF G, e
  <2> QED BY <1>5 DEF stored
<1> HIDE DEF F, G, e, in
<1>7. F = [a \in Address |-> IF in(a) THEN e.bytes[a - e.addr + 1] ELSE G[a]]
  BY <1>1, <1>3, <1>4
<1>8. F = stored(G, e.addr, e.bytes, Len(e.bytes))
  BY <1>6, <1>7
<1> QED BY <1>8 DEF F, G, e

-----------------------------------------------------------------------------
(***************************************************************************)
(* The documents.                                                          *)
(***************************************************************************)
LEMMA DocumentLines ==
  ASSUME NEW f \in Files, f.entries # <<>>
  PROVE  /\ f.name = "hex" /\ f.readable = TRUE
         /\ Len(f.lines) \in Nat /\ DOMAIN f.entries = 1 .. Len(f.lines)
         /\ \A j \in 1 .. Len(f.lines) :
              /\ f.lines[j] = lineText(f.entries[j])
              /\ IsEntry(f.entries[j]) /\ f.entries[j].rest \in Seq(Char)
<1>1. /\ f = Document(f.entries)
      /\ \A j \in DOMAIN f.entries : IsEntry(f.entries[j]) /\ f.entries[j].rest \in Seq(Char)
  BY DocumentAssumption
<1> DEFINE E == f.entries
<1>2. /\ f.name = "hex" /\ f.readable = TRUE
      /\ f.lines = [j \in DOMAIN E |-> lineText(E[j])]
  <2>1. \A s : /\ Document(s).name = "hex" /\ Document(s).readable = TRUE
               /\ Document(s).lines = [j \in DOMAIN s |-> lineText(s[j])]
    BY DEF Document
  <2> QED BY <1>1, <2>1, Zenon
<1>3. f.lines \in Seq(Seq(Char)) /\ Len(f.lines) \in Nat
  BY FileLines
<1>4. DOMAIN f.lines = 1 .. Len(f.lines)
  BY <1>3
<1> HIDE DEF E
<1>5. DOMAIN E = 1 .. Len(f.lines) /\ \A j \in 1 .. Len(f.lines) : f.lines[j] = lineText(E[j])
  BY <1>2, <1>4
<1> QED BY <1>1, <1>2, <1>3, <1>5 DEF E

\* The record of entry j can be stored.
Storable(j) == file.entries[j].loads => Fits(file.entries[j]) /\ file.entries[j].bytes # <<>>

\* Before a line is dealt with it is known to be that of its entry, after it its
\* record is in memory; the lines done with have records that fit.
DocumentInv ==
  isDocument =>
    /\ phase = "start" => memory = Zeros /\ next = 1
    /\ phase # "start" => memory = Loaded(file.entries, linesDone)
    /\ phase \in {"line", "aborted", "terminated"} =>
         next \in 2 .. (Len(file.lines) + 1)
    /\ phase = "line" => line = lineOf(file.entries[next - 1])
    /\ \A j \in 1 .. linesDone : Storable(j)
    /\ phase = "running" => next = Len(file.lines) + 1
    /\ phase = "aborted" =>
         file.entries[next - 1].bytes # <<>> /\ ~Fits(file.entries[next - 1])
    /\ phase = "terminated" =>
         file.entries[next - 1].loads /\ file.entries[next - 1].bytes = <<>>

LEMMA DocumentInitInv == LoaderInit => DocumentInv
<1> SUFFICES ASSUME LoaderInit PROVE DocumentInv
  OBVIOUS
<1>1. phase = "start" /\ memory = Zeros /\ next = 1 /\ linesDone = 0
  BY DEF LoaderInit, linesDone
<1> QED BY <1>1 DEF DocumentInv

LEMMA DocumentNextInv ==
  LoaderInv /\ DocumentInv /\ [LoaderNext]_loaderVars => DocumentInv'
<1> SUFFICES ASSUME LoaderInv, DocumentInv, [LoaderNext]_loaderVars, isDocument'
             PROVE  DocumentInv'
  BY DEF DocumentInv
<1>1. file' = file
  BY DEF LoaderNext, Load, Ended, loaderVars, BadArguments, NoLogFile, ShortName,
         WrongName, CannotOpen, Open, ReadLine, ReadFails, SkipLine, KillLine, StoreLine,
         StoreThrows, Run, Goto
<1>2. isDocument
  BY <1>1 DEF isDocument
<1> DEFINE E == file.entries
           L == Len(file.lines)
           e == E[next - 1]
<1>3. /\ file.name = "hex" /\ file.readable = TRUE /\ L \in Nat /\ next \in 1 .. (L + 1)
      /\ DOMAIN E = 1 .. L
      /\ \A j \in 1 .. L : /\ file.lines[j] = lineText(E[j])
                           /\ IsEntry(E[j]) /\ E[j].rest \in Seq(Char)
  BY <1>2, DocumentLines DEF LoaderInv, LoaderTypeOK, isDocument
<1>4. /\ phase = "start" => memory = Zeros /\ next = 1
      /\ phase # "start" => memory = Loaded(E, linesDone)
      /\ phase \in {"line", "aborted", "terminated"} => next \in 2 .. (L + 1)
      /\ phase = "line" => line = lineOf(e)
      /\ \A j \in 1 .. linesDone : Storable(j)
  BY <1>2 DEF DocumentInv
<1>5. linesDone' = IF phase' \in {"line", "aborted", "terminated"} THEN next' - 2
                   ELSE next' - 1
  BY DEF linesDone
<1>6. \A j : Storable(j)' <=> Storable(j)
  BY <1>1 DEF Storable, Fits
<1>7. ASSUME phase = "line"
      PROVE  /\ next \in 2 .. (L + 1) /\ linesDone = next - 2 /\ linesDone \in Nat
             /\ E[linesDone + 1] = e /\ line = lineOf(e)
             /\ memory = Loaded(E, linesDone)
             /\ colon(line) # 0 => e.loads
             /\ e.loads => colon(line) # 0
             /\ e.loads /\ e.bytes = <<>> => start(line) = 0
             /\ e.loads /\ e.bytes # <<>> =>
                  start(line) # 0 /\ addresses(line) = {e.addr} /\ buffer(line) = e.bytes
  <2>1. next \in 2 .. (L + 1) /\ line = lineOf(e) /\ memory = Loaded(E, linesDone)
    BY <1>4, <1>7
  <2>2. linesDone = next - 2 /\ linesDone \in Nat /\ next - 1 \in 1 .. L
        /\ linesDone + 1 = next - 1
    BY <1>3, <1>7, <2>1 DEF linesDone
  <2>3. IsEntry(e) /\ e.rest \in Seq(Char)
    BY <1>3, <2>2
  <2> HIDE DEF L, E
  <2>4. E[linesDone + 1] = e
    BY <2>2
  <2> HIDE DEF e
  <2> QED BY <2>1, <2>2, <2>3, <2>4, EntryRead
<1> HIDE DEF L, E, e
<1>8. ASSUME phase' = "reading", phase = "line", next' = next,
             memory' = Loaded(E, linesDone + 1), Storable(linesDone + 1)
      PROVE  DocumentInv'
  <2>1. linesDone' = linesDone + 1 /\ linesDone \in Nat
    BY <1>5, <1>7, <1>8, <1>3
  <2>2. memory' = Loaded(E, linesDone')
    BY <1>8, <2>1
  <2>3. ASSUME NEW j \in 1 .. linesDone' PROVE Storable(j)'
    <3>1. j \in 1 .. linesDone \/ j = linesDone + 1
      BY <2>1
    <3> QED BY <1>4, <1>6, <1>8, <3>1
  <2> QED BY <1>1, <1>8, <2>2, <2>3 DEF DocumentInv, E
<1>9. CASE UNCHANGED loaderVars \/ Ended
  <2>1. UNCHANGED loaderVars
    BY <1>9 DEF Ended
  <2>2. UNCHANGED <<memory, phase, next, line, linesDone>>
    BY <2>1 DEF loaderVars, linesDone
  <2> QED BY <1>1, <1>2, <1>6, <2>2 DEF DocumentInv
\* From the start of main.
<1>10. ASSUME phase = "start", NEW p \in {"reading", "exited"}, Goto(p) PROVE DocumentInv'
  <2>1. memory' = Zeros /\ next' = 1 /\ phase' = p /\ linesDone' = 0
    BY <1>4, <1>5, <1>10 DEF Goto
  <2>2. memory' = Loaded(E, linesDone')
    BY <2>1, LoadedNone
  <2> QED BY <1>1, <1>10, <2>1, <2>2 DEF DocumentInv, E
<1>11. CASE ReadLine
  <2>1. /\ phase = "reading" /\ phase' = "line" /\ next' = next + 1 /\ memory' = memory
        /\ line' = content(file.lines[next]) /\ next \in 1 .. L
    BY <1>3, <1>11 DEF ReadLine, atEnd, L
  <2>2. linesDone' = linesDone /\ next' \in 2 .. (L + 1) /\ next' - 1 = next
    BY <1>3, <1>5, <2>1 DEF linesDone
  <2>3. line' = lineOf(E[next' - 1])
    BY <1>3, <2>1, <2>2 DEF lineOf
  <2>4. memory' = Loaded(E, linesDone')
    BY <1>4, <2>1, <2>2
  <2>5. \A j \in 1 .. linesDone' : Storable(j)'
    BY <1>4, <1>6, <2>2
  <2> QED BY <1>1, <2>1, <2>2, <2>3, <2>4, <2>5 DEF DocumentInv, E, L
<1>12. CASE SkipLine
  <2>1. phase = "line" /\ colon(line) = 0 /\ phase' = "reading" /\ memory' = memory
        /\ next' = next
    BY <1>12 DEF SkipLine, Goto
  <2>2. ~e.loads /\ linesDone \in Nat /\ E[linesDone + 1] = e /\ memory = Loaded(E, linesDone)
    BY <1>7, <2>1
  <2>3. memory' = Loaded(E, linesDone + 1)
    BY <2>1, <2>2, LoadedSkip
  <2>4. Storable(linesDone + 1)
    BY <2>2 DEF Storable, E
  <2> QED BY <1>8, <2>1, <2>3, <2>4
<1>13. CASE StoreLine
  <2>1. /\ phase = "line" /\ colon(line) # 0 /\ start(line) # 0 /\ phase' = "reading"
        /\ next' = next
    BY <1>13 DEF StoreLine, HasData
  <2>2. /\ e.loads /\ e.bytes # <<>> /\ addresses(line) = {e.addr} /\ buffer(line) = e.bytes
        /\ linesDone \in Nat /\ E[linesDone + 1] = e /\ memory = Loaded(E, linesDone)
    BY <1>7, <2>1
  <2>3. /\ ~Invalid(e.addr, Len(e.bytes))
        /\ memory' = stored(memory, e.addr, e.bytes, Len(e.bytes))
    BY <1>13, <2>2 DEF StoreLine, writeBuffer
  <2>4. memory' = Loaded(E, linesDone + 1)
    <3>1. E[linesDone + 1].loads
      BY <2>2
    <3>2. Loaded(E, linesDone + 1) =
            stored(Loaded(E, linesDone), E[linesDone + 1].addr, E[linesDone + 1].bytes,
                   Len(E[linesDone + 1].bytes))
      BY <2>2, <3>1, LoadedNext
    <3> QED BY <2>2, <2>3, <3>2
  <2>5. Storable(linesDone + 1)
    <3>1. Fits(e)
      <4>1. IsRecord(e)
        <5>1. next - 1 \in 1 .. L
          BY <1>3, <1>7, <2>1
        <5>2. IsEntry(e) /\ e.rest \in Seq(Char)
          BY <1>3, <5>1 DEF e
        <5> QED BY <2>2, <5>2 DEF IsRecord
      <4>2. e.addr + Len(e.bytes) \in Int /\ MemSize \in Int
        BY <4>1, RecordFields, WordModNat, SizeAssumption DEF Word, MemSize, WordBytes
      <4> QED BY <2>3, <4>2 DEF Fits, Invalid
    <3> QED BY <2>2, <3>1 DEF Storable, E
  <2> QED BY <1>8, <2>1, <2>4, <2>5
\* The line that stops the loading.
<1>14. ASSUME phase = "line", NEW p \in {"aborted", "terminated"}, Goto(p),
              p = "aborted" => e.bytes # <<>> /\ ~Fits(e),
              p = "terminated" => e.loads /\ e.bytes = <<>>
       PROVE  DocumentInv'
  <2>1. /\ memory' = memory /\ next' = next /\ phase' = p /\ linesDone' = linesDone
        /\ next \in 2 .. (L + 1) /\ memory = Loaded(E, linesDone)
    BY <1>5, <1>7, <1>14 DEF Goto
  <2>2. \A j \in 1 .. linesDone' : Storable(j)'
    BY <1>4, <1>6, <2>1
  <2>3. Fits(e)' = Fits(e) /\ e' = e
    BY <1>1, <2>1 DEF e, E, Fits
  <2> QED BY <1>1, <1>14, <2>1, <2>2, <2>3 DEF DocumentInv, E, L, e, Fits
<1>15. CASE KillLine
  <2>1. phase = "line" /\ colon(line) # 0 /\ start(line) = 0 /\ Goto("terminated")
    BY <1>15 DEF KillLine
  <2>2. e.loads /\ e.bytes = <<>>
    BY <1>7, <2>1
  <2> QED BY <1>14, <2>1, <2>2
<1>16. CASE StoreThrows
  <2>1. /\ phase = "line" /\ colon(line) # 0 /\ start(line) # 0 /\ Goto("aborted")
    BY <1>16 DEF StoreThrows, HasData
  <2>2. e.loads /\ e.bytes # <<>> /\ addresses(line) = {e.addr} /\ buffer(line) = e.bytes
    BY <1>7, <2>1
  <2>3. Invalid(e.addr, Len(e.bytes))
    BY <1>16, <2>2 DEF StoreThrows
  <2>4. IsRecord(e)
    <3>1. next - 1 \in 1 .. L
      BY <1>3, <1>7, <2>1
    <3>2. IsEntry(e) /\ e.rest \in Seq(Char)
      BY <1>3, <3>1 DEF e
    <3> QED BY <2>2, <3>2 DEF IsRecord
  <2>5. e.addr + Len(e.bytes) \in Int /\ MemSize \in Int
    BY <2>4, RecordFields, WordModNat, SizeAssumption DEF Word, MemSize, WordBytes
  <2>6. ~Fits(e)
    BY <2>3, <2>5 DEF Fits, Invalid
  <2> QED BY <1>14, <2>1, <2>2, <2>6
<1>17. CASE Run
  <2>1. /\ phase = "reading" /\ phase' = "running" /\ memory' = memory /\ next' = next
        /\ next = L + 1 /\ linesDone' = linesDone
    BY <1>3, <1>5, <1>17 DEF Run, atEnd, Goto, L, linesDone
  <2>2. memory' = Loaded(E, linesDone') /\ \A j \in 1 .. linesDone' : Storable(j)'
    BY <1>4, <1>6, <2>1
  <2> QED BY <1>1, <2>1, <2>2 DEF DocumentInv, E, L
<1>18. ~ShortName /\ ~ReadFails /\ ~WrongName /\ ~CannotOpen
  BY <1>3 DEF ShortName, ReadFails, WrongName, CannotOpen
<1>19. CASE BadArguments \/ NoLogFile \/ Open
  BY <1>10, <1>19 DEF BadArguments, NoLogFile, Open
<1> QED BY <1>9, <1>11, <1>12, <1>13, <1>15, <1>16, <1>17, <1>18, <1>19 DEF LoaderNext, Load

LEMMA DocumentInvariance == LoaderSpec => [](LoaderInv /\ DocumentInv)
<1>1. LoaderInit => LoaderInv /\ DocumentInv
  BY LoaderInitInv, DocumentInitInv
<1>2. LoaderInv /\ DocumentInv /\ [LoaderNext]_loaderVars => (LoaderInv /\ DocumentInv)'
  BY LoaderNextInv, DocumentNextInv
<1> QED BY <1>1, <1>2, PTL DEF LoaderSpec

\* loadFromFile fills the memory with the bytes the documents give, at the
\* addresses they give, line after line: whatever gaps and comments stand in
\* them, and whatever the base of the digits and the size of the memory.
THEOREM RecordsAlwaysLoaded == LoaderSpec => []RecordsLoaded
<1>1. DocumentInv => RecordsLoaded
  BY DEF DocumentInv, RecordsLoaded
<1> QED BY <1>1, DocumentInvariance, PTL

\* Only a record that does not fit, or has no bytes, keeps a document from being
\* loaded whole.
THEOREM OnlyBadRecordsStop == LoaderSpec => []StopsAtBadRecord
<1>1. LoaderInv /\ DocumentInv => StopsAtBadRecord
  <2> SUFFICES ASSUME LoaderInv, DocumentInv, isDocument PROVE StopsAtBadRecord
    BY DEF StopsAtBadRecord
  <2>1. DOMAIN file.entries = 1 .. Len(file.lines) /\ Len(file.lines) \in Nat
    BY DocumentLines DEF LoaderInv, isDocument
  <2>2. phase = "running" => linesDone = Len(file.lines)
    BY <2>1 DEF DocumentInv, linesDone
  <2>3. \A j \in 1 .. linesDone : Storable(j)
    BY DEF DocumentInv
  <2>4. phase = "running" => \A j \in DOMAIN file.entries : Storable(j)
    BY <2>1, <2>2, <2>3
  <2> QED BY <2>4 DEF StopsAtBadRecord, DocumentInv, Storable
<1> QED BY <1>1, DocumentInvariance, PTL
=============================================================================

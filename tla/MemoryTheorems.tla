--------------------------- MODULE MemoryTheorems ---------------------------
(***************************************************************************)
(* What the operators of Types and Memory return, for bytes of any size    *)
(* and memories of any size.                                               *)
(***************************************************************************)
EXTENDS Memory, Sequences, TLAPS, FiniteSetTheorems

LEMMA WordModNat == WordMod \in Nat \ {0}
BY ByteAssumption DEF WordMod

\* Arithmetic modulo WordMod stays in the words.
LEMMA ModWord == \A x \in Int : x % WordMod \in Word
BY WordModNat DEF Word

\* One more byte makes a number below M a number below M bytes.
LEMMA Shift ==
  ASSUME NEW M \in Nat \ {0}, NEW x \in 0 .. (M - 1), NEW b \in Byte
  PROVE  x * ByteMod + b \in 0 .. (M * ByteMod - 1)
<1>1. ByteMod \in Nat /\ b \in Nat /\ b <= ByteMod - 1 /\ x \in Nat /\ x + 1 <= M
  BY ByteAssumption DEF Byte
<1>2. (x + 1) * ByteMod <= M * ByteMod
  BY <1>1
<1>3. (x + 1) * ByteMod = x * ByteMod + ByteMod /\ x * ByteMod \in Nat /\ M * ByteMod \in Nat
  BY <1>1
<1> QED BY <1>1, <1>2, <1>3

\* Four bytes are a word, and a word has four bytes.
LEMMA ToWord ==
  ASSUME NEW b1 \in Byte, NEW b2 \in Byte, NEW b3 \in Byte, NEW b4 \in Byte
  PROVE  toWord(b1, b2, b3, b4) \in Word
<1> DEFINE B == ByteMod
<1>1. B \in Nat \ {0} /\ B * B \in Nat \ {0} /\ B * B * B \in Nat \ {0}
  BY ByteAssumption
<1>2. b1 \in 0 .. (B - 1)
  BY DEF Byte
<1>3. b1 * B + b2 \in 0 .. (B * B - 1)
  BY <1>1, <1>2, Shift
<1>4. (b1 * B + b2) * B + b3 \in 0 .. (B * B * B - 1)
  BY <1>1, <1>3, Shift
<1>5. ((b1 * B + b2) * B + b3) * B + b4 \in 0 .. (B * B * B * B - 1)
  BY <1>1, <1>4, Shift
<1> QED BY <1>5 DEF toWord, Word, WordMod

LEMMA ToBytes ==
  ASSUME NEW w \in Word, NEW j \in 1 .. WordBytes
  PROVE  toBytes(w)[j] \in Byte
<1> DEFINE B == ByteMod
<1>1. B \in Nat \ {0} /\ B * B \in Nat \ {0} /\ B * B * B \in Nat \ {0}
  BY ByteAssumption
<1>2. w \in Int BY WordModNat DEF Word
<1>3. w \div B \in Int /\ w \div (B * B) \in Int /\ w \div (B * B * B) \in Int
  BY <1>1, <1>2
<1>4. \A x \in Int : x % B \in Byte BY <1>1 DEF Byte
<1> QED BY <1>2, <1>3, <1>4 DEF toBytes, WordBytes

\* An accessible word, aligned or not, lies in the memory.
LEMMA Readable ==
  ASSUME NEW m \in [Address -> Byte], NEW a \in Word, Accessible(a)
  PROVE  wordAt(m, a) \in Word
<1>1. a \in Int /\ a >= 0 /\ MemSize \in Int
  BY WordModNat, SizeAssumption DEF Word, MemSize, WordBytes
<1>2. {a, a + 1, a + 2, a + 3} \subseteq Address
  BY <1>1 DEF Accessible, Invalid, WordBytes, Address
<1> QED BY <1>2, ToWord DEF wordAt

\* Storing a word leaves a memory.
LEMMA Writable ==
  ASSUME NEW m \in [Address -> Byte], NEW a \in Word, NEW w \in Word
  PROVE  stored(m, a, toBytes(w), WordBytes) \in [Address -> Byte]
<1>1. a \in Int /\ MemSize \in Int
  BY WordModNat, SizeAssumption DEF Word, MemSize, WordBytes
<1>2. \A x \in a .. (a + WordBytes - 1) : x - a + 1 \in 1 .. WordBytes
  BY <1>1 DEF WordBytes
<1>3. DOMAIN m = Address OBVIOUS
<1> QED BY <1>2, <1>3, ToBytes DEF stored

\* A string consists of bytes of the memory and ends with it at the latest.
LEMMA Text ==
  ASSUME NEW m \in [Address -> Byte], NEW a \in Nat
  PROVE  stringAt(m, a) \in Seq(Byte)
<1> DEFINE S == {x \in a .. (MemSize - 1) : \A b \in a .. x : m[b] # 0}
<1>1. MemSize \in Int
  BY SizeAssumption DEF MemSize, WordBytes
<1>2. /\ IsFiniteSet(a .. (MemSize - 1))
      /\ Cardinality(a .. (MemSize - 1)) = IF a > MemSize - 1 THEN 0 ELSE MemSize - a
  BY <1>1, FS_Interval
<1>3. /\ IsFiniteSet(S) /\ Cardinality(S) <= Cardinality(a .. (MemSize - 1))
  BY <1>2, FS_Subset
<1>4. stringLength(m, a) \in Nat
  BY <1>3, FS_CardinalityType DEF stringLength
<1>5. stringLength(m, a) <= IF a > MemSize - 1 THEN 0 ELSE MemSize - a
  BY <1>2, <1>3 DEF stringLength
<1>6. \A j \in 1 .. stringLength(m, a) : a + j - 1 \in Address
  BY <1>1, <1>4, <1>5 DEF Address
<1> QED BY <1>4, <1>6 DEF stringAt

-----------------------------------------------------------------------------
\* Quotient and remainder are unique.
LEMMA Quotient ==
  ASSUME NEW M \in Nat \ {0}, NEW q \in Int, NEW r \in 0 .. (M - 1)
  PROVE  (q * M + r) \div M = q /\ (q * M + r) % M = r
<1> DEFINE n == q * M + r
<1>1. n \in Int /\ n \div M \in Int /\ n % M \in 0 .. (M - 1)
      /\ n = M * (n \div M) + (n % M)
  OBVIOUS
<1>2. M * (q - (n \div M)) = (n % M) - r
  BY <1>1
<1>3. q - (n \div M) = 0
  <2>1. CASE q - (n \div M) >= 1
    <3>1. M * (q - (n \div M)) >= M BY <1>1, <2>1
    <3> QED BY <1>1, <1>2, <3>1
  <2>2. CASE q - (n \div M) <= -1
    <3>1. M * (q - (n \div M)) <= -M BY <1>1, <2>2
    <3> QED BY <1>1, <1>2, <3>1
  <2> QED BY <1>1, <2>1, <2>2
<1> QED BY <1>1, <1>2, <1>3

\* The bytes of a word make that word.
LEMMA RoundTrip ==
  ASSUME NEW w \in Word
  PROVE  toWord(toBytes(w)[1], toBytes(w)[2], toBytes(w)[3], toBytes(w)[4]) = w
<1> DEFINE B  == ByteMod
           q1 == w \div B
           q2 == q1 \div B
           q3 == q2 \div B
<1>1. B \in Nat \ {0} /\ w \in Nat /\ w < B * B * B * B
  BY ByteAssumption DEF Word, WordMod
<1>2. /\ q1 \in Nat /\ w % B \in 0 .. (B - 1) /\ w = q1 * B + (w % B)
      /\ q2 \in Nat /\ q1 % B \in 0 .. (B - 1) /\ q1 = q2 * B + (q1 % B)
      /\ q3 \in Nat /\ q2 % B \in 0 .. (B - 1) /\ q2 = q3 * B + (q2 % B)
  BY <1>1
<1> HIDE DEF q1, q2, q3
<1>3. w \div (B * B) = q2
  <2>1. B * B \in Nat \ {0} BY <1>1
  <2>2. (q1 % B) * B + (w % B) \in 0 .. (B * B - 1)
    BY <1>1, <1>2, Shift DEF Byte
  <2>3. w = q2 * (B * B) + ((q1 % B) * B + (w % B))
    <3>1. w = (q2 * B + (q1 % B)) * B + (w % B) BY <1>2
    <3>2. (q2 * B + (q1 % B)) * B = q2 * (B * B) + (q1 % B) * B
      BY <1>1, <1>2
    <3> QED BY <1>1, <1>2, <3>1, <3>2
  <2> QED BY <1>2, <2>1, <2>2, <2>3, Quotient
<1>4. w \div (B * B * B) = q3
  <2>1. B * B * B \in Nat \ {0} BY <1>1
  <2>2. (q2 % B) * B + (q1 % B) \in 0 .. (B * B - 1)
    BY <1>1, <1>2, Shift DEF Byte
  <2>3. ((q2 % B) * B + (q1 % B)) * B + (w % B) \in 0 .. (B * B * B - 1)
    <3>1. B * B \in Nat \ {0} BY <1>1
    <3> QED BY <1>1, <1>2, <2>2, <3>1, Shift DEF Byte
  <2>4. w = q3 * (B * B * B) + (((q2 % B) * B + (q1 % B)) * B + (w % B))
    <3>1. w = ((q3 * B + (q2 % B)) * B + (q1 % B)) * B + (w % B)
      BY <1>2
    <3>2. /\ q2 % B \in Int /\ q1 % B \in Int /\ w % B \in Int /\ q3 \in Int
          /\ B \in Int
      BY <1>1, <1>2
    <3> QED BY <3>1, <3>2
  <2> QED BY <1>2, <2>1, <2>3, <2>4, Quotient
<1>5. q3 < B
  <2>1. SUFFICES ASSUME q3 >= B PROVE FALSE BY <1>1, <1>2
  <2>2. q2 >= B * B BY <1>1, <1>2, <2>1
  <2>3. q1 >= B * B * B BY <1>1, <1>2, <2>2
  <2>4. w >= B * B * B * B BY <1>1, <1>2, <2>3
  <2> QED BY <1>1, <2>4
<1>6. q3 % B = q3 BY <1>1, <1>2, <1>5
<1>7. toBytes(w) = <<q3, q2 % B, q1 % B, w % B>>
  BY <1>3, <1>4, <1>6 DEF toBytes, q1, q2, q3
<1> QED BY <1>2, <1>7 DEF toWord
=============================================================================

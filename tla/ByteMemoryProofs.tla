-------------------------- MODULE ByteMemoryProofs --------------------------
EXTENDS ByteMemory, MemoryTheorems

\* No call reaches the last byte of the memory.
LastByteZero == MemSize > 0 => memory[MemSize - 1] = 0

ByteInv == ByteTypeOK /\ LastByteZero

LEMMA SizeNat == MemSize \in Nat
BY SizeAssumption DEF MemSize, WordBytes

LEMMA InitByteInv == ByteInit => ByteInv
<1> SUFFICES ASSUME ByteInit PROVE ByteInv OBVIOUS
<1>1. 0 \in Byte BY ByteAssumption DEF Byte
<1>2. MemSize > 0 => MemSize - 1 \in Address BY SizeNat DEF Address
<1> QED
  BY <1>1, <1>2 DEF ByteInit, ByteInv, ByteTypeOK, MemoryTypeOK, LastByteZero, Zeros

\* A store of n bytes that the check of the bounds lets pass.
LEMMA StoreKeepsInv ==
  ASSUME ByteInv, NEW addr \in Nat, NEW n \in Nat, NEW b,
         \A j \in 1 .. n : b[j] \in Byte,
         ~Invalid(addr, n), memory' = stored(memory, addr, b, n),
         threw' \in BOOLEAN
  PROVE  ByteInv'
<1>1. memory \in [Address -> Byte] /\ MemSize \in Nat /\ addr + n < MemSize
  BY SizeNat DEF ByteInv, ByteTypeOK, MemoryTypeOK, Invalid
<1>2. \A x \in addr .. (addr + n - 1) : x - addr + 1 \in 1 .. n
  OBVIOUS
<1>3. memory' = [x \in Address |-> IF x \in addr .. (addr + n - 1)
                                   THEN b[x - addr + 1] ELSE memory[x]]
  BY <1>1 DEF stored
<1>4. memory' \in [Address -> Byte]
  BY <1>1, <1>2, <1>3
<1>5. MemSize > 0 => memory'[MemSize - 1] = memory[MemSize - 1]
  BY <1>1, <1>3 DEF Address
<1> QED BY <1>4, <1>5 DEF ByteInv, ByteTypeOK, MemoryTypeOK, LastByteZero

LEMMA NextByteInv == ByteInv /\ [ByteNext]_byteVars => ByteInv'
<1> SUFFICES ASSUME ByteInv, [ByteNext]_byteVars PROVE ByteInv'
  OBVIOUS
<1> USE SizeNat
<1>1. CASE UNCHANGED memory /\ threw' \in BOOLEAN
  BY <1>1 DEF ByteInv, ByteTypeOK, MemoryTypeOK, LastByteZero
<1>2. ASSUME NEW addr \in Addresses, NEW bytes \in Buffers, Write(addr, bytes)
      PROVE  ByteInv'
  <2>1. addr \in Nat /\ Len(bytes) \in Nat /\ \A j \in 1 .. Len(bytes) : bytes[j] \in Byte
    BY BuffersAssumption DEF Addresses, WordBytes
  <2> QED BY <1>2, <2>1, StoreKeepsInv DEF Write, writeBuffer
<1>3. ASSUME NEW addr \in Addresses, NEW b \in Byte, WriteByte(addr, b)
      PROVE  ByteInv'
  <2>1. addr \in Nat /\ addr < MemSize - 1
    BY <1>3 DEF Addresses, WordBytes, WriteByte, Invalid
  <2>2. memory' = [memory EXCEPT ![addr] = b] /\ threw' = FALSE
    BY <1>3 DEF WriteByte, writeByte
  <2>3. memory \in [Address -> Byte] /\ LastByteZero
    BY DEF ByteInv, ByteTypeOK, MemoryTypeOK
  <2>4. memory' \in [Address -> Byte] BY <2>2, <2>3
  <2>5. MemSize > 0 => memory'[MemSize - 1] = memory[MemSize - 1]
    BY <2>1, <2>2, <2>3 DEF Address
  <2> QED
    BY <2>2, <2>3, <2>4, <2>5 DEF ByteInv, ByteTypeOK, MemoryTypeOK, LastByteZero
<1>4. ASSUME NEW addr \in Addresses, NEW w \in Word, WriteUWord(addr, w)
      PROVE  ByteInv'
  <2>1. addr \in Nat /\ WordBytes \in Nat
    BY DEF Addresses, WordBytes
  <2>2. \A j \in 1 .. WordBytes : toBytes(w)[j] \in Byte
    BY ToBytes
  <2> QED
    BY <1>4, <2>1, <2>2, StoreKeepsInv DEF WriteUWord, writeUWord, Accessible
<1>5. CASE Clear
  <2>1. 0 \in Byte BY ByteAssumption DEF Byte
  <2>2. memory' = [a \in Address |-> 0] /\ threw' = FALSE
    BY <1>5 DEF Clear, clear, Zeros
  <2>3. MemSize > 0 => memory'[MemSize - 1] = 0
    BY <2>2 DEF Address
  <2> QED
    BY <2>1, <2>2, <2>3 DEF ByteInv, ByteTypeOK, MemoryTypeOK, LastByteZero
<1> QED
  BY <1>1, <1>2, <1>3, <1>4, <1>5
  DEF ByteNext, WriteThrows, AccessThrows, Throw, byteVars, ByteInv, ByteTypeOK

THEOREM ByteInvariance == ByteSpec => []ByteInv
BY InitByteInv, NextByteInv, PTL DEF ByteSpec

\* Whatever is called, the memory stays one of bytes of its size.
THEOREM ByteTypeCorrect == ByteSpec => []ByteTypeOK
<1>1. ByteInv => ByteTypeOK BY DEF ByteInv
<1> QED BY <1>1, ByteInvariance, PTL

\* readString finds a zero byte at the latest in the last byte, which the check
\* of the bounds keeps out of reach of every write.
THEOREM StringsAlwaysEnd == ByteSpec => []StringsEnd
<1>1. ASSUME ByteInv, NEW a \in Address
      PROVE  a + Len(readString(a)) < MemSize
  <2> DEFINE S == {x \in a .. (MemSize - 1) : \A b \in a .. x : memory[b] # 0}
             T == a .. (MemSize - 2)
  <2>1. MemSize \in Nat /\ a \in Nat /\ a < MemSize
    BY SizeNat DEF Address
  <2>2. S \subseteq T
    <3>1. memory[MemSize - 1] = 0 BY <1>1, <2>1 DEF ByteInv, LastByteZero
    <3> QED BY <2>1, <3>1
  <2>3. IsFiniteSet(T) /\ Cardinality(T) = IF a > MemSize - 2 THEN 0 ELSE MemSize - 1 - a
    BY <2>1, FS_Interval
  <2>4. IsFiniteSet(S) /\ Cardinality(S) <= Cardinality(T)
    BY <2>2, <2>3, FS_Subset
  <2>5. Cardinality(S) \in Nat BY <2>4, FS_CardinalityType
  <2>6. Cardinality(S) <= MemSize - 1 - a BY <2>1, <2>3, <2>4, <2>5
  <2>7. stringLength(memory, a) = Cardinality(S) BY DEF stringLength
  <2>8. Len(readString(a)) = Cardinality(S)
    BY <2>5, <2>7 DEF readString, stringAt
  <2> QED BY <2>1, <2>5, <2>6, <2>8
<1>2. ByteInv => StringsEnd BY <1>1 DEF StringsEnd
<1> QED BY <1>2, ByteInvariance, PTL

\* A word read one address further on has the same bytes but one.
THEOREM AlwaysBigEndian == ByteSpec => []BigEndian
<1>1. ASSUME ByteInv, NEW a \in Address, Accessible(a), Accessible(a + 1)
      PROVE  readUWord(a + 1) = ((readUWord(a) * ByteMod) % WordMod) + readByte(a + WordBytes)
  <2> DEFINE B == ByteMod
  <2>1. PICK b1 \in Byte, b2 \in Byte, b3 \in Byte, b4 \in Byte, b5 \in Byte :
          /\ memory[a] = b1 /\ memory[a + 1] = b2 /\ memory[a + 2] = b3
          /\ memory[a + 3] = b4 /\ memory[a + 4] = b5
    <3>1. {a, a + 1, a + 2, a + 3, a + 4} \subseteq Address
      BY <1>1, SizeNat DEF Address, Accessible, Invalid, WordBytes
    <3> QED BY <1>1, <3>1 DEF ByteInv, ByteTypeOK, MemoryTypeOK
  <2>2. /\ B \in Nat \ {0} /\ b1 \in Int /\ b2 \in Int /\ b3 \in Int /\ b4 \in Int
        /\ b5 \in Int
    BY ByteAssumption DEF Byte
  <2> DEFINE r == ((b2 * B + b3) * B + b4) * B
  <2>3. r \in 0 .. (WordMod - 1)
    <3>1. 0 \in Byte BY ByteAssumption DEF Byte
    <3>2. toWord(b2, b3, b4, 0) \in Word BY <3>1, ToWord
    <3>3. toWord(b2, b3, b4, 0) = r BY <2>2 DEF toWord
    <3> QED BY <3>2, <3>3 DEF Word
  <2>4. toWord(b1, b2, b3, b4) * B = b1 * WordMod + r
    BY <2>2 DEF toWord, WordMod
  <2> HIDE DEF r
  <2>5. (toWord(b1, b2, b3, b4) * B) % WordMod = r
    BY <2>2, <2>3, <2>4, Quotient, WordModNat
  <2>6. toWord(b2, b3, b4, b5) = r + b5
    BY <2>2 DEF toWord, r
  <2>7. a + 1 + 1 = a + 2 /\ a + 1 + 2 = a + 3 /\ a + 1 + 3 = a + 4
    BY SizeNat DEF Address
  <2> QED BY <2>1, <2>5, <2>6, <2>7 DEF readUWord, wordAt, readByte, WordBytes
<1>2. ByteInv => BigEndian BY <1>1 DEF BigEndian
<1> QED BY <1>2, ByteInvariance, PTL

\* A stored word is read back, at any address and for any size of a byte, and
\* the words beside it are unchanged.
THEOREM StoredReads == ByteSpec => StoredWordReads
<1>1. ASSUME ByteInv, NEW addr \in Address, NEW w \in Word, WriteUWord(addr, w)
      PROVE  /\ readUWord(addr)' = w
             /\ \A a \in Address : Accessible(a) /\ a \notin (addr - 3) .. (addr + 3) =>
                  readUWord(a)' = readUWord(a)
  <2>1. /\ MemSize \in Nat /\ addr \in Nat /\ addr + 4 < MemSize
        /\ memory \in [Address -> Byte]
    BY <1>1, SizeNat DEF Address, WriteUWord, Accessible, Invalid, WordBytes, ByteInv,
       ByteTypeOK, MemoryTypeOK
  <2>2. memory' = [x \in Address |-> IF x \in addr .. (addr + 3)
                                     THEN toBytes(w)[x - addr + 1] ELSE memory[x]]
    BY <1>1, <2>1 DEF WriteUWord, writeUWord, stored, WordBytes
  <2>3. readUWord(addr)' = w
    <3>1. /\ memory'[addr] = toBytes(w)[1] /\ memory'[addr + 1] = toBytes(w)[2]
          /\ memory'[addr + 2] = toBytes(w)[3] /\ memory'[addr + 3] = toBytes(w)[4]
      BY <2>1, <2>2 DEF Address
    <3> QED BY <3>1, RoundTrip DEF readUWord, wordAt
  <2>4. ASSUME NEW a \in Address, Accessible(a), a \notin (addr - 3) .. (addr + 3)
        PROVE  readUWord(a)' = readUWord(a)
    <3>1. \A x \in a .. (a + 3) : x \in Address /\ x \notin addr .. (addr + 3)
      BY <2>1, <2>4 DEF Address, Accessible, Invalid, WordBytes
    <3>2. \A x \in a .. (a + 3) : memory'[x] = memory[x]
      BY <2>2, <3>1
    <3>3. {a, a + 1, a + 2, a + 3} \subseteq a .. (a + 3)
      BY <2>1 DEF Address
    <3> QED BY <3>2, <3>3 DEF readUWord, wordAt
  <2> QED BY <2>3, <2>4
<1>2. ByteInv /\ [ByteNext]_byteVars =>
        [\A addr \in Address, w \in Word :
           WriteUWord(addr, w) =>
             /\ readUWord(addr)' = w
             /\ \A a \in Address : Accessible(a) /\ a \notin (addr - 3) .. (addr + 3) =>
                  readUWord(a)' = readUWord(a)]_byteVars
  BY <1>1
<1> QED BY <1>2, ByteInvariance, PTL DEF ByteSpec, StoredWordReads

\* A text written with its final zero is read back whole: what is stored ends
\* the string where the text ends, and nowhere before.
THEOREM TextReads == ByteSpec => WrittenTextReads
<1>1. ASSUME ByteInv, NEW addr \in Address, NEW bytes \in Buffers, Write(addr, bytes),
             Len(bytes) > 0,
             \A j \in 1 .. Len(bytes) : bytes[j] = 0 <=> j = Len(bytes)
      PROVE  readString(addr)' = SubSeq(bytes, 1, Len(bytes) - 1)
  <2> DEFINE n == Len(bytes)
             S == {x \in addr .. (MemSize - 1) : \A b \in addr .. x : memory'[b] # 0}
             T == addr .. (addr + n - 2)
  <2>1. /\ MemSize \in Nat /\ addr \in Nat /\ bytes \in Seq(Byte) /\ n \in Nat \ {0}
        /\ addr + n < MemSize /\ memory \in [Address -> Byte]
    BY <1>1, SizeNat, BuffersAssumption
    DEF Address, Write, Invalid, ByteInv, ByteTypeOK, MemoryTypeOK
  <2>2. \A j \in 1 .. n : addr + j - 1 \in Address /\ memory'[addr + j - 1] = bytes[j]
    <3>1. memory' = [x \in Address |-> IF x \in addr .. (addr + n - 1)
                                       THEN bytes[x - addr + 1] ELSE memory[x]]
      BY <1>1, <2>1 DEF Write, writeBuffer, stored
    <3> SUFFICES ASSUME NEW j \in 1 .. n
                 PROVE  addr + j - 1 \in Address /\ memory'[addr + j - 1] = bytes[j]
      OBVIOUS
    <3>2. addr + j - 1 \in Address /\ addr + j - 1 \in addr .. (addr + n - 1)
      BY <2>1 DEF Address
    <3>3. (addr + j - 1) - addr + 1 = j
      BY <2>1
    <3> QED BY <3>1, <3>2, <3>3
  <2>3. S = T
    <3>1. ASSUME NEW x \in S PROVE x \in T
      <4>1. memory'[addr + n - 1] = 0
        BY <1>1, <2>1, <2>2
      <4> QED BY <2>1, <3>1, <4>1
    <3>2. ASSUME NEW x \in T PROVE x \in S
      <4>1. ASSUME NEW b \in addr .. x PROVE memory'[b] # 0
        <5>1. b - addr + 1 \in 1 .. n /\ b - addr + 1 # n /\ addr + (b - addr + 1) - 1 = b
          BY <2>1, <3>2, <4>1
        <5> QED BY <1>1, <2>2, <5>1
      <4> QED BY <2>1, <3>2, <4>1
    <3> QED BY <3>1, <3>2
  <2>4. Cardinality(T) = n - 1
    BY <2>1, FS_Interval
  <2>5. stringLength(memory', addr) = n - 1
    BY <2>3, <2>4 DEF stringLength
  <2>6. stringAt(memory', addr) = [j \in 1 .. (n - 1) |-> bytes[j]]
    <3>1. stringAt(memory', addr) = [j \in 1 .. (n - 1) |-> memory'[addr + j - 1]]
      BY <2>5 DEF stringAt
    <3>2. \A j \in 1 .. (n - 1) : memory'[addr + j - 1] = bytes[j]
      BY <2>1, <2>2
    <3> QED BY <3>1, <3>2
  <2>7. SubSeq(bytes, 1, n - 1) = [j \in 1 .. (n - 1) |-> bytes[j]]
    BY <2>1
  <2> QED BY <2>6, <2>7 DEF readString
<1>2. ByteInv /\ [ByteNext]_byteVars =>
        [\A addr \in Address, bytes \in Buffers :
           /\ Write(addr, bytes)
           /\ Len(bytes) > 0 /\ \A j \in 1 .. Len(bytes) : bytes[j] = 0 <=> j = Len(bytes)
           => readString(addr)' = SubSeq(bytes, 1, Len(bytes) - 1)]_byteVars
  BY <1>1
<1> QED BY <1>2, ByteInvariance, PTL DEF ByteSpec, WrittenTextReads
=============================================================================

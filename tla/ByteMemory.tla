----------------------------- MODULE ByteMemory -----------------------------
(***************************************************************************)
(* Any sequence of calls of the Memory of Memory.cpp.  Nothing in the      *)
(* program requires a word to be aligned, and a word shares bytes with its *)
(* neighbours.                                                             *)
(***************************************************************************)
EXTENDS Memory, Sequences

CONSTANT
  Buffers    \* the buffers that write is called with

VARIABLE
  threw      \* whether the last call threw InvalidAddressException

byteVars == <<memory, threw>>

ASSUME BuffersAssumption == Buffers \subseteq Seq(Byte)

ByteTypeOK == MemoryTypeOK /\ threw \in BOOLEAN

ByteInit == memory = Zeros /\ threw = FALSE

-----------------------------------------------------------------------------
Throw == threw' = TRUE /\ UNCHANGED memory

Write(addr, bytes) ==
  /\ ~Invalid(addr, Len(bytes))
  /\ writeBuffer(addr, bytes, Len(bytes))
  /\ threw' = FALSE

WriteThrows(addr, bytes) == Invalid(addr, Len(bytes)) /\ Throw

WriteByte(addr, b) ==
  /\ ~Invalid(addr, 1)
  /\ writeByte(addr, b)
  /\ threw' = FALSE

\* writeWord and writeFloat convert and do the same.
WriteUWord(addr, w) ==
  /\ Accessible(addr)
  /\ writeUWord(addr, w)
  /\ threw' = FALSE

\* A byte or a word that is refused, read or written.
AccessThrows(addr) ==
  /\ Invalid(addr, 1) \/ ~Accessible(addr)
  /\ Throw

Clear == clear /\ threw' = FALSE

\* Addresses up to a word behind the memory.
Addresses == 0 .. (MemSize + WordBytes)

ByteNext ==
  \/ \E addr \in Addresses :
       \/ \E bytes \in Buffers : Write(addr, bytes) \/ WriteThrows(addr, bytes)
       \/ \E b \in Byte : WriteByte(addr, b)
       \/ \E w \in Word : WriteUWord(addr, w)
       \/ AccessThrows(addr)
  \/ Clear

ByteSpec == ByteInit /\ [][ByteNext]_byteVars

-----------------------------------------------------------------------------
\* Aligned or not, a word that was stored is read back, the byte order of
\* writeUWord being the one of readUWord, and no word that shares no byte with
\* it has changed.
StoredWordReads ==
  [][\A addr \in Address, w \in Word :
       WriteUWord(addr, w) =>
         /\ readUWord(addr)' = w
         /\ \A a \in Address : Accessible(a) /\ a \notin (addr - 3) .. (addr + 3) =>
              readUWord(a)' = readUWord(a)]_byteVars

\* The memory is big endian: from one address to the next a word loses its
\* most significant byte and takes the next byte of memory at the other end,
\* which is what the encoding of the programs under Inputs assumes.
BigEndian ==
  \A a \in Address :
    Accessible(a) /\ Accessible(a + 1) =>
      readUWord(a + 1) = ((readUWord(a) * ByteMod) % WordMod) + readByte(a + WordBytes)

\* A string written with its final zero is read back whole, wherever it lies.
WrittenTextReads ==
  [][\A addr \in Address, bytes \in Buffers :
       /\ Write(addr, bytes)
       /\ Len(bytes) > 0 /\ \A j \in 1 .. Len(bytes) : bytes[j] = 0 <=> j = Len(bytes)
       => readString(addr)' = SubSeq(bytes, 1, Len(bytes) - 1)]_byteVars

\* readString finds a zero byte whatever was written, and its error "End of
\* string not found" is never met: the check of the bounds keeps every write
\* from the last byte.
StringsEnd ==
  \A a \in Address : a + Len(readString(a)) < MemSize

-----------------------------------------------------------------------------
(***************************************************************************)
(* What the repository says of the memory and the code does not do.        *)
(***************************************************************************)
\* InvalidAddressException "signals an attempt to access an invalid memory
\* location" (Exceptions.h:44): bytes that lie in the memory can be written.
RefusesOnlyOutside ==
  [][\A addr \in Address, bytes \in Buffers :
       WriteThrows(addr, bytes) =>
         ~ (addr .. (addr + Len(bytes) - 1) \subseteq Address)]_byteVars
=============================================================================

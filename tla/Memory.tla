------------------------------- MODULE Memory -------------------------------
(***************************************************************************)
(* Memory.cpp: a block of bytes that holds code and data.  Each operation  *)
(* checks its bounds by Invalid and throws InvalidAddressException without *)
(* having changed anything; the callers act on Invalid themselves.         *)
(***************************************************************************)
EXTENDS Types, FiniteSets

CONSTANT
  RequestedSize   \* size passed to the constructor

VARIABLE
  memory          \* Memory::mem

ASSUME SizeAssumption == RequestedSize \in Nat

\* The constructor: the size of mem, which is filled with zeros.
MemSize == RequestedSize + (RequestedSize % WordBytes)
Address == 0 .. (MemSize - 1)
Zeros == [a \in Address |-> 0]

MemoryTypeOK == memory \in [Address -> Byte]

\* A mutant of Invalid: the check without the off-by-one.
exactBound(addr, n) == addr + n > MemSize

\* The check of a read or write of n bytes, and that of a word.
Invalid(addr, n) == addr + n >= MemSize
Accessible(addr) == ~Invalid(addr, WordBytes)

readByte(addr)  == memory[addr]
readUWord(addr) == wordAt(memory, addr)

\* readString: the bytes from addr to the first zero or to the end of the
\* memory.  Its length is the number of addresses not behind a zero.
stringLength(m, addr) ==
  Cardinality({a \in addr .. (MemSize - 1) : \A b \in addr .. a : m[b] # 0})
stringAt(m, addr) == [j \in 1 .. stringLength(m, addr) |-> m[addr + j - 1]]
readString(addr) == stringAt(memory, addr)

\* A mutant of writeUWord: the word is stored at the next lower word boundary.
writeAligned(addr, w) ==
  memory' = stored(memory, addr - (addr % WordBytes), toBytes(w), WordBytes)

\* write of n bytes from a buffer, writeByte and writeUWord.
writeBuffer(addr, bytes, n) == memory' = stored(memory, addr, bytes, n)
writeByte(addr, b)  == memory' = [memory EXCEPT ![addr] = b]
writeUWord(addr, w) == memory' = stored(memory, addr, toBytes(w), WordBytes)
clear == memory' = Zeros
=============================================================================

-------------------------------- MODULE Types --------------------------------
(***************************************************************************)
(* types.h: bytes, words of four bytes, and the union Data that converts   *)
(* between them.  A memory is a function from addresses to bytes; a word   *)
(* lies in it with its most significant byte first, at any address.        *)
(***************************************************************************)
EXTENDS Integers

CONSTANT
  ByteMod    \* the number of values of a byte, 256 in the program

ASSUME ByteAssumption == ByteMod \in Nat \ {0}

Byte == 0 .. (ByteMod - 1)

\* sizeof(UWord), and the number of words.
WordBytes == 4
WordMod   == ByteMod * ByteMod * ByteMod * ByteMod
Word      == 0 .. (WordMod - 1)

\* Mutants of toWord and toBytes: the other byte order, and bytes that keep the
\* higher bits.
toWordLittle(b1, b2, b3, b4) == ((b4 * ByteMod + b3) * ByteMod + b2) * ByteMod + b1
toBytesLittle(w) ==
  LET B == ByteMod IN
  <<w % B, (w \div B) % B, (w \div (B * B)) % B, (w \div (B * B * B)) % B>>

toBytesWide(w) ==
  LET B == ByteMod IN <<w \div (B * B * B), w \div (B * B), w \div B, w>>

\* The word with the given bytes, and the bytes of a word, in memory order.
toWord(b1, b2, b3, b4) == ((b1 * ByteMod + b2) * ByteMod + b3) * ByteMod + b4

toBytes(w) ==
  LET B == ByteMod IN
  <<(w \div (B * B * B)) % B, (w \div (B * B)) % B, (w \div B) % B, w % B>>

\* The word at address a of memory m.
wordAt(m, a) == toWord(m[a], m[a + 1], m[a + 2], m[a + 3])

\* A mutant of stored: the last byte is left out.
storedShort(m, a, b, n) ==
  [x \in DOMAIN m |-> IF x \in a .. (a + n - 2) THEN b[x - a + 1] ELSE m[x]]

\* m with n bytes, those of the function b on 1 .. n, stored from address a on.
stored(m, a, b, n) ==
  [x \in DOMAIN m |-> IF x \in a .. (a + n - 1) THEN b[x - a + 1] ELSE m[x]]
=============================================================================

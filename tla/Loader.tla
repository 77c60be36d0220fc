------------------------------- MODULE Loader -------------------------------
(***************************************************************************)
(* main.cpp: the arguments, and loadFromFile, which fills the memory from  *)
(* the lines of a .hex file before the processor runs.                     *)
(*                                                                         *)
(* A line is a sequence of characters: a digit of base D, or Space, Colon, *)
(* Hash or Other.  Digits are hexadecimal in the program, and a byte has   *)
(* two of them: D * D is ByteMod.  Other stands for a character that is no *)
(* digit, blank or sign and no "x".                                        *)
(***************************************************************************)
EXTENDS Memory, Sequences, FiniteSetsExt

CONSTANTS
  D,        \* the base of the digits
  Files     \* the files: records with fields name, readable and lines (what
            \* getline returns; an empty file has one empty line)

VARIABLES
  file,     \* the file named on the command line
  phase,    \* how far main is
  next,     \* number of the next line, one more than the last at the end
  line      \* the line that getline read last, without its comment

loaderVars == <<memory, file, phase, next, line>>

Space == -1
Colon == -2
Hash  == -3
Other == -4
Digit == 0 .. (D - 1)
Char  == Digit \cup {Space, Colon, Hash, Other}

ASSUME LoaderAssumption ==
  /\ D \in Nat \ {0, 1} /\ ByteMod = D * D
  /\ \A f \in Files : /\ f.name \in {"short", "other", "missing", "hex"}
                      /\ f.readable \in BOOLEAN
                      /\ f.lines \in Seq(Seq(Char)) \ {<<>>}

Phases == {"start", "reading", "line", "running", "exited", "aborted", "terminated"}

LoaderTypeOK ==
  /\ MemoryTypeOK
  /\ file.lines \in Seq(Seq(Char))
  /\ phase \in Phases
  /\ next \in 1 .. (Len(file.lines) + 1)
  /\ line \in Seq(Char)

-----------------------------------------------------------------------------
(***************************************************************************)
(* A line, as the streams of the standard library take it apart.           *)
(***************************************************************************)
\* A mutant of HEX_DIGIT: any letter is taken for a digit.
alphanumeric == Digit \cup {Other}

HEX_DIGIT == Digit

\* What >> std::hex takes from a text that no blank begins: the
\* value of its leading digits, 0 if there is none, the largest if too big.
leadingDigits(text) == {j \in DOMAIN text : \A k \in 1 .. j : text[k] \in HEX_DIGIT}
hexValue(text) ==
  LET value[n \in 0 .. Len(text)] ==
        IF n = 0 THEN 0 ELSE value[n - 1] * D + text[n]
      v == value[Cardinality(leadingDigits(text))]
  IN  IF v < WordMod THEN v ELSE WordMod - 1

\* find_first_of, from a position on, and find_last_of: 0 stands for npos.
find_first_of(text, S, from) ==
  LET found == {j \in DOMAIN text : j >= from /\ text[j] \in S}
  IN  IF found = {} THEN 0 ELSE Min(found)
find_last_of(text, S) ==
  LET found == {j \in DOMAIN text : text[j] \in S}
  IN  IF found = {} THEN 0 ELSE Max(found)

\* A line of the file without its comment.
content(text) ==
  LET hash == find_first_of(text, {Hash}, 1)
  IN  IF hash = 0 THEN text ELSE SubSeq(text, 1, hash - 1)

colon(text) == find_first_of(text, {Colon}, 1)
start(text) == find_first_of(text, HEX_DIGIT, colon(text) + 1)
end(text)   == find_last_of(text, HEX_DIGIT)

\* The values that addr may have: where only blanks stand before the colon, >>
\* leaves it as it was, uninitialized.
addresses(text) ==
  LET before == SubSeq(text, 1, colon(text) - 1)
      first  == find_first_of(before, Char \ {Space}, 1)
  IN  IF first = 0 THEN Word
      ELSE {hexValue(SubSeq(before, first, Len(before)))}

\* The bytes: blanks are skipped, and two characters are read at a time, or one
\* that a blank or the end follows.  Two characters are no more than a byte.
buffer(text) ==
  LET data == SubSeq(text, start(text), end(text))
      from[j \in 1 .. (Len(data) + 1)] ==
        IF j > Len(data) THEN <<>>
        ELSE IF data[j] = Space THEN from[j + 1]
        ELSE IF j = Len(data) \/ data[j + 1] = Space
             THEN <<hexValue(<<data[j]>>)>> \o from[j + 1]
             ELSE <<hexValue(SubSeq(data, j, j + 1))>> \o from[j + 2]
  IN  from[1]

-----------------------------------------------------------------------------
LoaderInit ==
  /\ memory = Zeros
  /\ file \in Files
  /\ phase = "start"
  /\ next = 1
  /\ line = <<>>

Goto(p) == phase' = p /\ UNCHANGED <<memory, file, next, line>>

\* parseArgs fails; or the log file cannot be opened.
BadArguments == phase = "start" /\ Goto("exited")
NoLogFile    == phase = "start" /\ Goto("exited")

\* A name shorter than its extension: compare throws std::out_of_range, which
\* the handler of main does not catch.
ShortName == phase = "start" /\ file.name = "short" /\ Goto("terminated")

\* The name does not end in .hex, or the file cannot be opened.
WrongName  == phase = "start" /\ file.name = "other" /\ Goto("exited")
CannotOpen == phase = "start" /\ file.name = "missing" /\ Goto("exited")

Open == phase = "start" /\ file.name = "hex" /\ Goto("reading")

\* eof() is set by the getline that meets the end of the file.
atEnd == next > Len(file.lines)

\* A mutant of ReadLine: the comment stays in the line.
readComment ==
  /\ phase = "reading" /\ file.readable /\ ~atEnd
  /\ line' = file.lines[next]
  /\ next' = next + 1
  /\ phase' = "line"
  /\ UNCHANGED <<memory, file>>

\* A mutant of ReadLine: a line without a colon is read again.
rereadLine ==
  /\ phase = "reading" /\ file.readable /\ ~atEnd
  /\ line' = content(file.lines[next])
  /\ next' = IF colon(line') = 0 THEN next ELSE next + 1
  /\ phase' = "line"
  /\ UNCHANGED <<memory, file>>

ReadLine ==
  /\ phase = "reading" /\ file.readable /\ ~atEnd
  /\ line' = content(file.lines[next])
  /\ next' = next + 1
  /\ phase' = "line"
  /\ UNCHANGED <<memory, file>>

\* getline fails, leaves an empty line and does not set eof().
ReadFails ==
  /\ phase = "reading" /\ ~file.readable
  /\ line' = <<>>
  /\ phase' = "line"
  /\ UNCHANGED <<memory, file, next>>

\* A line without a colon.
SkipLine == phase = "line" /\ colon(line) = 0 /\ Goto("reading")

HasData == phase = "line" /\ colon(line) # 0 /\ start(line) # 0

\* No digit after the colon: substr throws std::out_of_range.
KillLine ==
  /\ phase = "line" /\ colon(line) # 0 /\ start(line) = 0
  /\ Goto("terminated")

\* mem.write, which throws InvalidAddressException or stores the bytes.
StoreLine ==
  /\ HasData
  /\ \E addr \in addresses(line), bytes \in {buffer(line)} :
       ~Invalid(addr, Len(bytes)) /\ writeBuffer(addr, bytes, Len(bytes))
  /\ phase' = "reading"
  /\ UNCHANGED <<file, next, line>>

StoreThrows ==
  /\ HasData
  /\ \E addr \in addresses(line), n \in {Len(buffer(line))} : Invalid(addr, n)
  /\ Goto("aborted")

\* loadFromFile returns, and the processor is built on this memory.
Run == phase = "reading" /\ file.readable /\ atEnd /\ Goto("running")

Ended == phase \in {"running", "exited", "aborted", "terminated"} /\ UNCHANGED loaderVars

Load ==
  \/ BadArguments \/ NoLogFile \/ ShortName \/ WrongName \/ CannotOpen \/ Open
  \/ ReadLine \/ ReadFails \/ SkipLine \/ KillLine \/ StoreLine \/ StoreThrows \/ Run

LoaderNext == Load \/ Ended

\* main runs in one thread and always takes its next step.
LoaderSpec == LoaderInit /\ [][LoaderNext]_loaderVars /\ WF_loaderVars(Load)
=============================================================================

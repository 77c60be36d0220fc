------------------------------ MODULE HexFiles ------------------------------
(***************************************************************************)
(* What the loader makes of the files it is written for: documents, whose  *)
(* lines are as the comment in loadFromFile describes them and as the      *)
(* programs under Inputs are written,                                      *)
(*                                                                         *)
(*     [32 bit address]: [bytes...]  # comment                             *)
(*                                                                         *)
(* or hold no record: empty lines, comments, lines without a colon.        *)
(***************************************************************************)
EXTENDS Loader

\* An entry is a line of a document: whether it holds a record, the address and
\* the bytes of the record, what stands between two bytes, and the rest.
NoRecord(rest) ==
  [loads |-> FALSE, addr |-> 0, bytes |-> <<>>, gap |-> <<>>, rest |-> rest]

\* Two digits for each byte, and eight for an address, the four bytes of a word.
bytesText(bytes, gap) ==
  LET width   == 2 + Len(gap)
      text(b) == <<b \div D, b % D>> \o gap
  IN  [j \in 1 .. (width * Len(bytes)) |->
         text(bytes[((j - 1) \div width) + 1])[((j - 1) % width) + 1]]
addressText(addr) == bytesText(toBytes(addr), <<>>)

lineText(e) ==
  IF ~e.loads THEN e.rest
  ELSE addressText(e.addr) \o <<Colon, Space>>
         \o bytesText(e.bytes, e.gap) \o e.rest

Document(entries) ==
  [name |-> "hex", readable |-> TRUE, entries |-> entries,
   lines |-> [j \in DOMAIN entries |-> lineText(entries[j])]]

\* A file that is no document.
File(name, readable, lines) ==
  [name |-> name, readable |-> readable, entries |-> <<>>, lines |-> lines]

isDocument == file.entries # <<>>

\* What an entry can be: neither bytes nor a colon stand where none belong.
IsEntry(e) ==
  IF e.loads
  THEN /\ e.addr \in Word /\ e.bytes \in Seq(Byte) /\ e.gap \in Seq({Space})
       /\ \A j \in DOMAIN content(e.rest) : content(e.rest)[j] \notin Digit
  ELSE colon(content(e.rest)) = 0

ASSUME DocumentAssumption ==
  \A f \in Files : f.entries # <<>> =>
    /\ f = Document(f.entries)
    /\ \A j \in DOMAIN f.entries :
         IsEntry(f.entries[j]) /\ f.entries[j].rest \in Seq(Char)

\* The records of the first n entries in memory, a later one over an earlier.
Covers(e, a) == e.loads /\ a \in e.addr .. (e.addr + Len(e.bytes) - 1)
Loaded(entries, n) ==
  [a \in Address |->
     LET over == {j \in 1 .. n : Covers(entries[j], a)}
         last == entries[Max(over)]
     IN  IF over = {} THEN 0 ELSE last.bytes[a - last.addr + 1]]

\* The last byte of the memory cannot be written.
Fits(e) == e.addr + Len(e.bytes) < MemSize

\* The number of lines done with.
linesDone == IF phase \in {"line", "aborted", "terminated"} THEN next - 2 ELSE next - 1

-----------------------------------------------------------------------------
\* The memory is at each moment what the records read so far say, in the order
\* of the lines: nothing in a comment is taken for an address or a byte, and a
\* line that stops the loading has changed nothing.
RecordsLoaded ==
  isDocument /\ phase # "start" => memory = Loaded(file.entries, linesDone)

\* The processor starts only on a memory that holds every record.  Otherwise
\* the line read last is to blame: its record does not fit, and main reports
\* the exception; or it has an address and no bytes, and the program is killed.
\* Nothing else about a document stops it.
StopsAtBadRecord ==
  isDocument =>
    /\ phase = "running" =>
         \A j \in DOMAIN file.entries : LET e == file.entries[j] IN
           e.loads => Fits(e) /\ e.bytes # <<>>
    /\ phase = "aborted" =>
         file.entries[next - 1].bytes # <<>> /\ ~Fits(file.entries[next - 1])
    /\ phase = "terminated" =>
         file.entries[next - 1].loads /\ file.entries[next - 1].bytes = <<>>

\* Whatever a file that can be read contains, main gets through it: it starts
\* the processor, exits or is stopped by an exception.
LoadEnds ==
  file.readable ~> phase \in {"running", "exited", "aborted", "terminated"}
=============================================================================

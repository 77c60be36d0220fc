------------------------------ MODULE MCMachine ------------------------------
(***************************************************************************)
(* The small machine the runs check: two stations for each unit but the    *)
(* branch unit, the latencies of Tomasulo.cpp, four registers, bytes 0 .. 3 *)
(* and so words 0 .. 255, and 32 bytes of memory.  The word w of a program *)
(* is the instruction Code[w]; word 0 is NOP and so is a word without a    *)
(* code, as in the program.                                                *)
(***************************************************************************)
EXTENDS Integers, Sequences, FiniteSets, TLC

CONSTANTS i1, i2, t1, t2, b1, m1, m2, f1, f2

MCStations == {i1, i2, t1, t2, b1, m1, m2, f1, f2}

MCunitOf == [s \in MCStations |->
  CASE s \in {i1, i2} -> "Integer"
    [] s \in {t1, t2} -> "Trap"
    [] s \in {m1, m2} -> "Memory"
    [] s \in {f1, f2} -> "FloatingPoint"
    [] OTHER          -> "Branch"]

MCallStations == [u \in {"Integer", "Trap", "Branch", "Memory", "FloatingPoint"} |->
  CASE u = "Integer"       -> <<i1, i2>>
    [] u = "Trap"          -> <<t1, t2>>
    [] u = "Memory"        -> <<m1, m2>>
    [] u = "FloatingPoint" -> <<f1, f2>>
    [] OTHER               -> <<b1>>]

\* The order in which Tomasulo creates the units, the reverse, and another.
MCUnitOrders == {<<"Integer", "Trap", "Branch", "Memory", "FloatingPoint">>,
                 <<"FloatingPoint", "Memory", "Branch", "Trap", "Integer">>,
                 <<"Memory", "Integer", "FloatingPoint", "Branch", "Trap">>}

\* Stations of one unit are interchangeable.
StationSymmetry == Permutations({i1, i2}) \cup Permutations({t1, t2})
                     \cup Permutations({m1, m2}) \cup Permutations({f1, f2})

MCexecuteCycles == [u \in {"Integer", "Trap", "Branch", "Memory", "FloatingPoint"} |->
  CASE u = "FloatingPoint" -> 4 [] u = "Memory" -> 2 [] OTHER -> 1]

MCnumExecuteUnits == [u \in {"Integer", "Trap", "Branch", "Memory", "FloatingPoint"} |->
  CASE u = "Integer" -> 3 [] u = "FloatingPoint" -> 2 [] OTHER -> 1]

MCRegs == {"R0", "R1", "R31", "F1"}

Raw(n, d, a, b, i) == [name |-> n, rd |-> d, rs1 |-> a, rs2 |-> b, imm |-> i]

Code == <<
  Raw("TRAP",    "R0",  "R0",  "R0", 0),    \*  1  halt
  Raw("ADDI",    "R1",  "R1",  "R0", 246),  \*  2  R1 = R1 - 10
  Raw("LF",      "F1",  "R0",  "R0", 24),   \*  3  F1 = memory[24]
  Raw("MOVI2FP", "F1",  "R1",  "R0", 0),    \*  4  F1 = R1
  Raw("MULT",    "F1",  "F1",  "F1", 0),    \*  5  F1 = F1 F1
  Raw("MOVFP2I", "R1",  "F1",  "R0", 0),    \*  6  R1 = F1
  Raw("DIV",     "F1",  "F1",  "F1", 0),    \*  7  F1 = F1 / F1
  Raw("LW",      "R1",  "R1",  "R0", 24),   \*  8  R1 = memory[R1 + 24]
  Raw("SW",      "R1",  "R31", "R0", 24),   \*  9  memory[R31 + 24] = R1
  Raw("BEQZ",    "R0",  "R1",  "R0", 4),    \* 10  skip one if R1 = 0
  Raw("J",       "R0",  "R0",  "R0", 4),    \* 11  skip one
  Raw("JAL",     "R0",  "R0",  "R0", 4),    \* 12  skip one, R31 = pc + 4
  Raw("JALR",    "R0",  "R31", "R0", 0),    \* 13  go to R31, R31 = pc + 4
  Raw("TRAP",    "R0",  "R31", "R0", 1),    \* 14  print R31
  Raw("TRAP",    "R0",  "R1",  "R0", 3),    \* 15  print the string at R1
  Raw("SW",      "R31", "R1",  "R0", 22)    \* 16  memory[R1 + 22] = R31
>>

MCRawDecode(w) == IF w \in 1 .. Len(Code) THEN Code[w]
                  ELSE Raw("NOP", "R0", "R0", "R0", 0)

\* Floating point and bitwise arithmetic; division is the only one used.
MCAlu(n, a, b) == IF b = 0 THEN 0 ELSE a \div b

\* A program followed by TRAP 0, in a memory of size words; the word at 24,
\* which its loads and stores name, is 2, the rest is zero.  The words are
\* smaller than 64 and so begin with a zero byte.
Image(program, size) ==
  LET word == [j \in 0 .. (size - 1) |->
                 IF j + 1 <= Len(program) THEN program[j + 1]
                 ELSE CASE j = Len(program) -> 1 [] j = 6 -> 2 [] OTHER -> 0]
  IN  [a \in 0 .. (4 * size - 1) |->
         CASE a % 4 = 3 -> word[a \div 4] % 4
           [] a % 4 = 2 -> (word[a \div 4] \div 4) % 4
           [] a % 4 = 1 -> word[a \div 4] \div 16
           [] OTHER     -> 0]

\* All programs of n of the given words.
Programs(n, words, size) == {Image(p, size) : p \in [1 .. n -> words]}

\* Programs of four that compute slowly, move, load and store: the memory unit
\* waits for others and for the bus.
MemoryPrograms == Programs(4, {3, 5, 6, 9}, 8)

\* All programs of three instructions, and these.
AllPrograms == Programs(3, 2 .. 16, 8) \cup MemoryPrograms
=============================================================================

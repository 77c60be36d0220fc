---------------------------- MODULE TestPrograms ----------------------------
(***************************************************************************)
(* Programs of the repository's test suite (Inputs/*.hex, run by run.pl)   *)
(* on the processor with the stations, execution units and latencies of    *)
(* Tomasulo.cpp.  Bytes are 0 .. 15 and words have 16 bits: numbers are    *)
(* those of the tests, sign masks and negative numbers are scaled, and a   *)
(* text is one byte, named after what it says.                             *)
(*                                                                         *)
(* The word w of a program is the instruction Code[w]; the programs lie in *)
(* Code one after the other.                                               *)
(***************************************************************************)
EXTENDS Integers, Sequences, FiniteSets, Bitwise

CONSTANTS NoStation, Stations, MaxClock, UnitOrders, Tests

VARIABLES
  memory, registers, renameRegisters, instruction, state, startClock,
  executeCyclesRemaining, arg, argSource, result, source, listeners, pc,
  stallIssue, output, idleStations, issuedStations, executingStations,
  writingStations, halted, clockCounter, phase, unitOrder, calls,
  test           \* the test whose program runs

-----------------------------------------------------------------------------
\* The machine configuration of Tomasulo.cpp.
UnitTypes == {"Integer", "Trap", "Branch", "Memory", "FloatingPoint"}
unitOf == [s \in Stations |-> s[1]]
numStations == [u \in UnitTypes |->
  CASE u = "Trap" -> 4 [] u = "Branch" -> 1 [] OTHER -> 8]
allStations == [u \in UnitTypes |-> [j \in 1 .. numStations[u] |-> <<u, j>>]]
executeCycles == [u \in UnitTypes |->
  CASE u = "FloatingPoint" -> 4 [] u = "Memory" -> 2 [] OTHER -> 1]
numExecuteUnits == [u \in UnitTypes |->
  CASE u = "Integer" -> 3 [] u = "FloatingPoint" -> 2 [] OTHER -> 1]

Regs == {"R0", "R1", "R2", "R3", "R4", "R5", "R6", "R29", "R30", "R31",
         "F1", "F2", "F3", "F4", "F5"}

\* Instructions: register with immediate, memory, three registers, branches.
I(n, d, a, i) == [name |-> n, rd |-> d, rs1 |-> a, rs2 |-> "R0", imm |-> i]
ADDI(d, a, i) == I("ADDI", d, a, i)
LW(d, a, i)   == I("LW", d, a, i)
SW(a, i, d)   == I("SW", d, a, i)
R(n, d, a, b) == [name |-> n, rd |-> d, rs1 |-> a, rs2 |-> b, imm |-> 0]
MOV(n, d, a)  == I(n, d, a, 0)
B(n, a, i)    == I(n, "R0", a, i)
TRAP(a, i)    == B("TRAP", a, i)
Minus(n)      == 65536 - n

\* brUnit6.hex: the factorial of 7, by a procedure that calls itself.
Factorial == <<
  ADDI("R30", "R0", 1024), ADDI("R29", "R30", 0), ADDI("R1", "R0", 140),
  LW("R1", "R1", 0), ADDI("R2", "R0", 144), TRAP("R2", 3), TRAP("R1", 1),
  ADDI("R2", "R0", 164), TRAP("R2", 3), SW("R30", Minus(4), "R1"),
  ADDI("R30", "R30", Minus(12)), ADDI("R2", "R0", 68), B("JALR", "R2", 0),
  TRAP("R1", 1), ADDI("R2", "R0", 169), TRAP("R2", 3), TRAP("R0", 0),
  SW("R30", 4, "R31"), SW("R30", 0, "R29"), ADDI("R29", "R30", 0),
  LW("R1", "R29", 8), ADDI("R2", "R1", Minus(1)), B("BEQZ", "R2", 32),
  SW("R30", Minus(4), "R2"), ADDI("R30", "R30", Minus(12)), B("JAL", "R0", Minus(36)),
  LW("R2", "R29", 8), MOV("MOVI2FP", "F1", "R1"), MOV("MOVI2FP", "F2", "R2"),
  R("MULT", "F1", "F2", "F1"), MOV("MOVFP2I", "R1", "F1"), ADDI("R30", "R29", 0),
  LW("R29", "R30", 0), LW("R31", "R30", 4), B("JR", "R31", 0) >>

\* brUnit1.hex: the greater of 3 and 6.
Greater == <<
  ADDI("R1", "R0", 136), LW("R1", "R1", 0), ADDI("R2", "R0", 140),
  LW("R2", "R2", 0), R("SUB", "R3", "R1", "R2"), ADDI("R4", "R0", 132),
  LW("R4", "R4", 0), R("AND", "R4", "R4", "R3"), B("BEQZ", "R4", 8),
  R("ADD", "R5", "R0", "R2"), B("J", "R0", 8), MOV("NOP", "R0", "R0"),
  R("ADD", "R5", "R0", "R1"), ADDI("R6", "R0", 144), SW("R6", 0, "R5"),
  ADDI("R4", "R0", 148), TRAP("R4", 3), ADDI("R1", "R0", 136),
  LW("R1", "R1", 0), TRAP("R1", 1), ADDI("R4", "R0", 162), TRAP("R4", 3),
  ADDI("R1", "R0", 140), LW("R1", "R1", 0), TRAP("R1", 1),
  ADDI("R4", "R0", 168), TRAP("R4", 3), ADDI("R4", "R0", 144),
  LW("R4", "R4", 0), TRAP("R4", 1), ADDI("R4", "R0", 173), TRAP("R4", 3),
  TRAP("R0", 0) >>

\* fpUnit6.hex: -9 divided by 2.
Quotient == <<
  ADDI("R1", "R0", Minus(9)), MOV("MOVI2FP", "F1", "R1"), ADDI("R2", "R0", 2),
  MOV("MOVI2FP", "F2", "R2"), R("DIV", "F3", "F1", "F2"),
  MOV("MOVFP2I", "R3", "F3"), ADDI("R4", "R0", 72), TRAP("R4", 3),
  TRAP("R1", 1), ADDI("R4", "R0", 75), TRAP("R4", 3), TRAP("R2", 1),
  ADDI("R4", "R0", 88), TRAP("R4", 3), TRAP("R3", 1), ADDI("R4", "R0", 93),
  TRAP("R4", 3), TRAP("R0", 0) >>

\* intUnit8.hex: a float moved through four registers.
Moves == <<
  ADDI("R1", "R0", 96), I("LF", "F1", "R1", 0), MOV("MOVF", "F2", "F1"),
  MOV("MOVF", "F3", "F2"), MOV("MOVF", "F4", "F3"), MOV("MOVF", "F5", "F4"),
  ADDI("R1", "R0", 100), TRAP("R1", 3), TRAP("F1", 2),
  ADDI("R1", "R0", 143), TRAP("R1", 3), TRAP("F2", 2),
  ADDI("R1", "R0", 143), TRAP("R1", 3), TRAP("F3", 2),
  ADDI("R1", "R0", 143), TRAP("R1", 3), TRAP("F4", 2),
  ADDI("R1", "R0", 143), TRAP("R1", 3), TRAP("F5", 2),
  ADDI("R1", "R0", 143), TRAP("R1", 3), TRAP("R0", 0) >>

Code == Factorial \o Greater \o Quotient \o Moves

\* The data of a program, its texts, and what its .out file says it prints.
Text(k) == [kind |-> 3, value |-> <<k>>]
Num(w)  == [kind |-> 1, value |-> <<w>>]
Flt(w)  == [kind |-> 2, value |-> <<w>>]

first(t) == CASE t = "brUnit6" -> 0
              [] t = "brUnit1" -> Len(Factorial)
              [] t = "fpUnit6" -> Len(Factorial) + Len(Greater)
              [] t = "intUnit8" -> Len(Factorial) + Len(Greater) + Len(Quotient)
length(t) == CASE t = "brUnit6" -> Len(Factorial) [] t = "brUnit1" -> Len(Greater)
               [] t = "fpUnit6" -> Len(Quotient)  [] t = "intUnit8" -> Len(Moves)

\* A data word is given by its address and value, a text by its address and byte.
words(t) == CASE t = "brUnit6"  -> {<<140, 7>>}
              [] t = "brUnit1"  -> {<<132, 32768>>, <<136, 3>>, <<140, 6>>, <<144, 0>>}
              [] t = "fpUnit6"  -> {}
              [] t = "intUnit8" -> {<<96, 275>>}
texts(t) == CASE t = "brUnit6"  -> {<<144, 1>>, <<164, 2>>, <<169, 3>>}
              [] t = "brUnit1"  -> {<<148, 1>>, <<162, 2>>, <<168, 3>>, <<173, 4>>}
              [] t = "fpUnit6"  -> {<<72, 1>>, <<75, 2>>, <<88, 3>>, <<93, 4>>}
              [] t = "intUnit8" -> {<<100, 1>>, <<143, 2>>}

expected(t) ==
  CASE t = "brUnit6"  -> <<Text(1), Num(7), Text(2), Num(5040), Text(3)>>
    [] t = "brUnit1"  -> <<Text(1), Num(3), Text(2), Num(6), Text(3), Num(6), Text(4)>>
    [] t = "fpUnit6"  -> <<Text(1), Num(Minus(9)), Text(2), Num(2), Text(3),
                           Num(Minus(4)), Text(4)>>
    [] t = "intUnit8" -> <<Text(1), Flt(275), Text(2), Flt(275), Text(2), Flt(275),
                           Text(2), Flt(275), Text(2), Flt(275), Text(2)>>

\* The memory the test is loaded as.
MemBytes == 1032
Digit(w, a) == CASE a % 4 = 3 -> w % 16 [] a % 4 = 2 -> (w \div 16) % 16
                 [] a % 4 = 1 -> (w \div 256) % 16 [] OTHER -> w \div 4096
image(t) == [a \in 0 .. (MemBytes - 1) |->
  IF \E d \in words(t) : a \in d[1] .. (d[1] + 3)
  THEN LET d == CHOOSE d \in words(t) : a \in d[1] .. (d[1] + 3) IN Digit(d[2], a)
  ELSE IF \E x \in texts(t) : x[1] = a THEN (CHOOSE x \in texts(t) : x[1] = a)[2]
  ELSE IF a \div 4 < length(t) THEN Digit(first(t) + (a \div 4) + 1, a) ELSE 0]

RawDecode(w) == IF w \in 1 .. Len(Code) THEN Code[w]
                ELSE I("NOP", "R0", "R0", 0)

\* Division truncates towards zero.
Signed(w) == IF w >= 32768 THEN w - 65536 ELSE w
Size(n)   == IF n < 0 THEN -n ELSE n
Alu(n, a, b) ==
  CASE n = "AND" -> a & b
    [] n = "DIV" -> LET x == Signed(a)  y == Signed(b)
                        q == Size(x) \div Size(y)
                    IN  (IF (x < 0) = (y < 0) THEN q ELSE -q) % 65536
    [] OTHER     -> 0

M == INSTANCE ListTomasulo WITH
  ByteMod <- 16, RequestedSize <- MemBytes, CycleMod <- 8,
  R0 <- "R0", R31 <- "R31", NoReg <- "NONE", Images <- {image(t) : t \in Tests}

-----------------------------------------------------------------------------
TestInit == test \in Tests /\ memory = image(test) /\ M!LInit

TestSpec == TestInit /\ [][M!LNext /\ UNCHANGED test]_<<M!lvars, test>>

\* Every program ends, well within MaxClock cycles, has then printed what its
\* .out file holds, and nothing else on the way, although traps, loads and the
\* slow floating point unit are all in flight at once.
PrintsExpected ==
  /\ output = SubSeq(expected(test), 1, Len(output))
  /\ phase # "aborted" /\ clockCounter < MaxClock
  /\ phase = "done" => output = expected(test)

=============================================================================

------------------------------- MODULE Decoder -------------------------------
(***************************************************************************)
(* InstructionFactory.cpp and instruction_types.cpp: from an instruction   *)
(* word to an instruction.  A word is the record of its bit fields,        *)
(*                                                                         *)
(*    31 op 26 25 a 21 20 b 16 15 c 11 10 x 6 5 fun 0                      *)
(*                                                                         *)
(* The factory keeps its last result, and an Instruction is created with   *)
(* indeterminate fields: a register whose type or index is not set has the *)
(* value "unset" there.                                                    *)
(***************************************************************************)
EXTENDS Integers

CONSTANT
  RawWords       \* the words a program may consist of

VARIABLES
  instruction,   \* the word decoded last
  result         \* the instruction made of it

factoryVars == <<instruction, result>>

RawWord == [op : 0 .. 63, a : 0 .. 31, b : 0 .. 31, c : 0 .. 31, x : 0 .. 31,
            fun : 0 .. 63]

ASSUME RawWordsAssumption == RawWords \subseteq RawWord

NONE == [type |-> "NONE", index |-> -1]
Register == [type : {"GPR", "FPR"}, index : 0 .. 31]

-----------------------------------------------------------------------------
getEncodingType(op) ==
  CASE op \in {0, 1} -> "Rtype" [] op \in {2, 3} -> "Jtype" [] OTHER -> "Itype"

\* The cases of getName: those of the opcodes, and of the function codes of
\* opcodes 1 and 0.  A case that does not return falls through to the next one: a
\* function code unknown to opcode 0 is looked up for opcode 1, and one unknown
\* there gets the name of opcode 2.  Only an opcode without a case becomes NOP.
names(op) ==
  CASE op = 2  -> "J"    [] op = 3  -> "JAL"  [] op = 4  -> "BEQZ" [] op = 8 -> "ADDI"
    [] op = 17 -> "TRAP" [] op = 18 -> "JR"   [] op = 19 -> "JALR" [] op = 35 -> "LW"
    [] op = 38 -> "LF"   [] op = 43 -> "SW"   [] op = 46 -> "SF"   [] OTHER -> "NOP"
names1(fun) ==
  CASE fun = 0  -> "ADDF" [] fun = 1  -> "SUBF" [] fun = 2 -> "MULTF" [] fun = 3 -> "DIVF"
    [] fun = 9  -> "CVTF2I" [] fun = 12 -> "CVTI2F" [] fun = 14 -> "MULT" [] fun = 15 -> "DIV"
    [] OTHER    -> names(2)
names0(fun) ==
  CASE fun = 0  -> "NOP" [] fun = 32 -> "ADD" [] fun = 34 -> "SUB" [] fun = 36 -> "AND"
    [] fun = 37 -> "OR"  [] fun = 38 -> "XOR" [] fun = 50 -> "MOVF"
    [] fun = 52 -> "MOVFP2I" [] fun = 53 -> "MOVI2FP" [] OTHER -> names1(fun)

getName(op, fun) ==
  CASE op = 0 -> names0(fun) [] op = 1 -> names1(fun) [] OTHER -> names(op)

-----------------------------------------------------------------------------
low16(w) == (w.c * 32 + w.x) * 64 + w.fun

indexed(i) == [type |-> "unset", index |-> i]

decodeItype(w, name) ==
  [name |-> name, rd |-> indexed(w.b), rs1 |-> indexed(w.a), rs2 |-> NONE,
   immediate |-> low16(w)]

\* A mutant of decodeRtype: rd and rs2 taken from each other's bits.
swappedRtype(w, name) ==
  [name |-> name, rd |-> indexed(w.b), rs1 |-> indexed(w.a),
   rs2 |-> indexed(w.c), immediate |-> 0]

decodeRtype(w, name) ==
  [name |-> name, rd |-> indexed(w.c), rs1 |-> indexed(w.a),
   rs2 |-> indexed(w.b), immediate |-> 0]

\* The mask 0x07ffffff keeps the lowest bit of the opcode too.
decodeJtype(w, name) ==
  [name |-> name, rd |-> NONE, rs1 |-> NONE, rs2 |-> NONE,
   immediate |-> (((w.op % 2) * 32 + w.a) * 32 + w.b) * 65536 + low16(w)]

\* setRegisterTypes: the types of rd, rs1 and rs2, "NONE" for none.
typesByName(n) ==
  CASE n \in {"NOP", "J", "JAL"}          -> <<"NONE", "NONE", "NONE">>
    [] n \in {"BEQZ", "JR", "JALR"}       -> <<"NONE", "GPR", "NONE">>
    [] n \in {"ADDI", "LW", "SW"}         -> <<"GPR", "GPR", "NONE">>
    [] n \in {"LF", "SF", "MOVI2FP"}      -> <<"FPR", "GPR", "NONE">>
    [] n = "MOVFP2I"                      -> <<"GPR", "FPR", "NONE">>
    [] n \in {"MOVF", "CVTF2I", "CVTI2F"} -> <<"FPR", "FPR", "NONE">>
    [] n \in {"ADD", "SUB", "AND", "OR", "XOR"} -> <<"GPR", "GPR", "GPR">>
    [] OTHER                              -> <<"FPR", "FPR", "FPR">>

\* Mutants of registerTypes: TRAP keeps the bits of rd; DIV reads general registers.
trapKeepsRd(n, imm) ==
  IF n = "TRAP" THEN <<"unset", "GPR", "NONE">> ELSE typesByName(n)
divReadsGPR(n, imm) ==
  CASE n = "TRAP" -> <<"NONE", IF imm = 2 THEN "FPR" ELSE "GPR", "NONE">>
    [] n = "DIV"  -> <<"FPR", "GPR", "GPR">>
    [] OTHER      -> typesByName(n)

\* TRAP prints a general register, or as number 2 a floating point one.
registerTypes(n, imm) ==
  IF n = "TRAP" THEN <<"NONE", IF imm = 2 THEN "FPR" ELSE "GPR", "NONE">>
  ELSE typesByName(n)

setType(reg, type) ==
  IF type = "NONE" THEN NONE ELSE [type |-> type, index |-> reg.index]

setRegisterTypes(i) ==
  LET types == registerTypes(i.name, i.immediate) IN
  [name |-> i.name, rd |-> setType(i.rd, types[1]), rs1 |-> setType(i.rs1, types[2]),
   rs2 |-> setType(i.rs2, types[3]), immediate |-> i.immediate]

decoded(w) ==
  LET type == getEncodingType(w.op)
      name == IF type = "Rtype" THEN getName(w.op, w.fun) ELSE getName(w.op, 0)
  IN setRegisterTypes(CASE type = "Itype" -> decodeItype(w, name)
                        [] type = "Rtype" -> decodeRtype(w, name)
                        [] type = "Jtype" -> decodeJtype(w, name))

NoResult == [name |-> "none"]

FactoryInit == instruction = NoResult /\ result = NoResult

decode(w) == instruction' = w /\ result' = decoded(w)

FactoryNext == \E w \in RawWords : decode(w)

FactorySpec == FactoryInit /\ [][FactoryNext]_factoryVars

-----------------------------------------------------------------------------
\* The conversions of an immediate where an instruction uses it.
signExtend16(imm) ==
  LET h == imm % 65536 IN IF h < 32768 THEN h ELSE h - 65536
signExtend24(imm) ==
  LET h == imm % 67108864 IN IF h < 33554432 THEN h ELSE h - 67108864

operandValue(i) ==
  CASE i.name \in {"J", "JAL"} -> signExtend24(i.immediate)
    [] i.name \in {"ADDI", "BEQZ", "LW", "LF", "SW", "SF"} ->
         signExtend16(i.immediate)
    [] i.name = "TRAP"         -> i.immediate
    [] OTHER                   -> 0
-----------------------------------------------------------------------------
(***************************************************************************)
(* The classes of module Instructions, whose RawDecode stands for the      *)
(* fields decoded here.                                                    *)
(***************************************************************************)
NoFields(w)    == w
NoAlu(n, a, b) == 0

I == INSTANCE Instructions WITH
       Regs <- Register, R0 <- [type |-> "GPR", index |-> 0],
       R31 <- [type |-> "GPR", index |-> 31], NoReg <- NONE, ByteMod <- 16,
       RawDecode <- NoFields, Alu <- NoAlu

\* Whatever the word, also one that is no instruction: the registers decoded
\* exist, so that none is read with an indeterminate type or throws
\* InvalidRegisterException, and an instruction has the registers, a destination
\* and two sources, that the processor expects of its name.
RegistersExist ==
  result # NoResult =>
    /\ {result.rd, result.rs1, result.rs2} \subseteq Register \cup {NONE}
    /\ result.name \in I!Names
    /\ result.rd # NONE <=> I!HasRd(result.name)
    /\ result.rs1 # NONE <=> I!HasRs1(result.name)
    /\ result.rs2 # NONE <=> I!HasRs2(result.name)

\* Integer and floating point values do not meet but where an instruction is
\* there to move them: an instruction of the floating point unit has floating
\* point registers only, and no integer instruction but a move has one.
UnitsReadOwnRegisters ==
  result # NoResult =>
    LET types == {r.type : r \in {result.rd, result.rs1, result.rs2} \ {NONE}}
        unit  == I!getInstructionType(result.name)
    IN  /\ unit = "FloatingPoint" => types = {"FPR"}
        /\ unit = "Branch" => types \subseteq {"GPR"}
        /\ unit = "Memory" => result.rs1.type = "GPR"
        /\ unit = "Integer" /\ "FPR" \in types =>
             result.name \in {"MOVF", "MOVFP2I", "MOVI2FP"}

\* The words that getName has a case for: an opcode, or a function code among
\* those of opcode 0 or 1.
HasCase(w) ==
  CASE w.op = 0 -> w.fun \in {0, 32, 34, 36, 37, 38, 50, 52, 53}
    [] w.op = 1 -> w.fun \in {0, 1, 2, 3, 9, 12, 14, 15}
    [] OTHER    -> w.op \in {2, 3, 4, 8, 17, 18, 19, 35, 38, 43, 46}

\* "Unknown instruction opcode ... funcode ..., replacing with NOP"
\* (instruction_types.cpp:105): a word without a case decodes to NOP.
UnknownIsNop ==
  result # NoResult /\ ~HasCase(instruction) => result.name = "NOP"
=============================================================================

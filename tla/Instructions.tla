---------------------------- MODULE Instructions ----------------------------
(***************************************************************************)
(* The DLX instruction classes of src/src/instructions: what an            *)
(* instruction reads and writes, which functional unit runs it, what it    *)
(* computes and how its result leaves the reservation station.             *)
(*                                                                         *)
(* Data are the words of module Types; the bit fields of an instruction    *)
(* are the subject of module Decoder.                                      *)
(***************************************************************************)
EXTENDS Types

CONSTANTS
  Regs,          \* the registers R0.. and F0..
  R0, R31,       \* RegisterID::R0 and the link register of JAL and JALR
  NoReg,         \* RegisterID::NONE
  RawDecode(_),  \* the fields of an instruction word (module Decoder)
  Alu(_, _, _)   \* name, arg1, arg2: bitwise and floating point arithmetic

IntegerNames == {"ADDI", "NOP", "ADD", "SUB", "AND", "OR", "XOR", "MOVF",
                 "MOVFP2I", "MOVI2FP"}
BranchNames  == {"BEQZ", "J", "JR", "JAL", "JALR"}
LoadNames    == {"LW", "LF"}
StoreNames   == {"SW", "SF"}
FloatNames   == {"ADDF", "SUBF", "MULTF", "DIVF", "MULT", "DIV", "CVTF2I",
                 "CVTI2F"}
Names == IntegerNames \cup BranchNames \cup LoadNames \cup StoreNames
           \cup FloatNames \cup {"TRAP"}

\* The instructions whose results are not computed here but by Alu.
AluNames == {"AND", "OR", "XOR", "ADDF", "SUBF", "MULTF", "DIVF", "DIV",
             "CVTF2I", "CVTI2F"}

\* FunctionalUnitType.
Types == {"Integer", "Trap", "Branch", "Memory", "FloatingPoint"}

\* An instruction as InstructionFactory::decode returns it.  next is the
\* nextInstruction of a branch and is not used by the other classes.
Instr == [name : Names, rd : Regs \cup {NoReg}, rs1 : Regs \cup {NoReg},
          rs2 : Regs \cup {NoReg}, imm : Word, next : Word]

ASSUME RegsAssumption  == R0 \in Regs /\ R31 \in Regs \ {R0} /\ NoReg \notin Regs
ASSUME DecodeAssumption ==
  \A w \in Word : RawDecode(w) \in [name : Names, rd : Regs, rs1 : Regs,
                                    rs2 : Regs, imm : Word]
ASSUME AluAssumption ==
  \A n \in AluNames, a, b \in Word : Alu(n, a, b) \in Word

-----------------------------------------------------------------------------
\* Which functional unit an instruction is issued to.
getInstructionType(name) ==
  CASE name \in IntegerNames             -> "Integer"
    [] name \in BranchNames              -> "Branch"
    [] name \in LoadNames \cup StoreNames -> "Memory"
    [] name \in FloatNames               -> "FloatingPoint"
    [] OTHER                             -> "Trap"

\* The names whose encoding has a destination, a first and a second source.
\* The remaining fields of the word are RegisterID::NONE.
HasRd(name)  == name \notin BranchNames \cup {"TRAP", "NOP"}
HasRs1(name) == name \notin {"NOP", "J", "JAL"}
HasRs2(name) == name \in {"ADD", "SUB", "AND", "OR", "XOR"}
                           \cup (FloatNames \ {"CVTF2I", "CVTI2F"})

\* InstructionFactory::decode of word w fetched at pc: the raw fields, the
\* registers the instruction does not have set to NONE, and for a branch the
\* address of the next instruction.
decode(w, pc) ==
  LET raw == RawDecode(w) IN
  [name |-> raw.name,
   rd   |-> IF HasRd(raw.name)  THEN raw.rd  ELSE NoReg,
   rs1  |-> IF HasRs1(raw.name) THEN raw.rs1 ELSE NoReg,
   rs2  |-> IF HasRs2(raw.name) THEN raw.rs2 ELSE NoReg,
   imm  |-> raw.imm,
   next |-> IF raw.name \in BranchNames THEN (pc + WordBytes) % WordMod ELSE 0]

getType(i) == getInstructionType(i.name)

\* A branch has no destination but the link register, a store none.
getDest(i) ==
  CASE i.name \in {"JAL", "JALR"}                            -> R31
    [] i.name \in (BranchNames \ {"JAL", "JALR"}) \cup StoreNames -> NoReg
    [] OTHER                                                 -> i.rd

\* The register read as operand k: a store reads its rd as second operand.
Operands == {1, 2}
getArg(i, k) ==
  CASE k = 1                           -> i.rs1
    [] k = 2 /\ i.name \in StoreNames  -> i.rd
    [] OTHER                           -> i.rs2

\* How the result leaves the station.
WriteAction == {"None", "Register", "PC", "PC_R31", "Memory"}
getWriteAction(i) ==
  CASE i.name \in {"NOP", "TRAP"}  -> "None"
    [] i.name \in {"JAL", "JALR"}  -> "PC_R31"
    [] i.name \in BranchNames \ {"JAL", "JALR"} -> "PC"
    [] i.name \in StoreNames       -> "Memory"
    [] OTHER                       -> "Register"

-----------------------------------------------------------------------------
\* A mutant of Compute: results do not wrap.
computeWide(i, a, b) ==
  CASE i.name = "ADDI" -> a + i.imm
    [] i.name = "ADD"  -> a + b
    [] i.name = "SUB"  -> a - b
    [] i.name = "MULT" -> a * b
    [] i.name \in {"MOVF", "MOVFP2I", "MOVI2FP"} -> a
    [] i.name \in AluNames -> Alu(i.name, a, b)
    [] OTHER           -> 0

\* IntegerInstruction::execute and FloatingPointInstruction::execute.
Compute(i, a, b) ==
  CASE i.name = "ADDI" -> (a + i.imm) % WordMod
    [] i.name = "ADD"  -> (a + b) % WordMod
    [] i.name = "SUB"  -> (a - b) % WordMod
    [] i.name = "MULT" -> (a * b) % WordMod
    [] i.name \in {"MOVF", "MOVFP2I", "MOVI2FP"} -> a
    [] i.name \in AluNames -> Alu(i.name, a, b)
    [] OTHER           -> 0

\* The integer division that the processor traps: by zero, or the smallest
\* negative word by -1.
DivisionFaults(i, a, b) ==
  i.name = "DIV" /\ (b = 0 \/ (2 * a = WordMod /\ b = WordMod - 1))

\* BranchInstruction::target after execute, and the result of execute: the
\* address the program goes on at.
getTarget(i, a) ==
  IF i.name \in {"JR", "JALR"} THEN a ELSE (i.next + i.imm) % WordMod
BranchResult(i, a) ==
  IF i.name = "BEQZ" /\ a # 0 THEN i.next ELSE getTarget(i, a)

\* The effective address of a load or a store.
EffectiveAddress(i, a) == (a + i.imm) % WordMod
=============================================================================

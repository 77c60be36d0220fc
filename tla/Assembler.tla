------------------------------ MODULE Assembler ------------------------------
(***************************************************************************)
(* The encoding of the programs under Inputs, read off their .hex files    *)
(* (the assembler that wrote them is not in the repository): what a word   *)
(* means before any code has decoded it.  An assembly instruction is its   *)
(* name, the registers it is written with and its value: the immediate,    *)
(* the offset of a branch, or the number of a trap.                        *)
(***************************************************************************)
EXTENDS Decoder

CONSTANT
  Source         \* the assembly instructions considered

\* Name -> opcode, function code.
Rcode == [ADD |-> <<0, 32>>, SUB |-> <<0, 34>>, AND |-> <<0, 36>>, OR |-> <<0, 37>>,
          XOR |-> <<0, 38>>, MOVF |-> <<0, 50>>, MOVFP2I |-> <<0, 52>>,
          MOVI2FP |-> <<0, 53>>, ADDF |-> <<1, 0>>, SUBF |-> <<1, 1>>,
          MULTF |-> <<1, 2>>, DIVF |-> <<1, 3>>, CVTF2I |-> <<1, 9>>,
          CVTI2F |-> <<1, 12>>, MULT |-> <<1, 14>>, DIV |-> <<1, 15>>]
Icode == [BEQZ |-> 4, ADDI |-> 8, TRAP |-> 17, JR |-> 18, JALR |-> 19, LW |-> 35,
          LF |-> 38, SW |-> 43, SF |-> 46]
Jcode == [J |-> 2, JAL |-> 3]

R(i) == [type |-> "GPR", index |-> i]
F(i) == [type |-> "FPR", index |-> i]

\* The forms an instruction can have, with registers of the set G of
\* indices, 16 bit values of V and 26 bit values of O.
Forms(G, V, O) ==
  LET g == {R(i) : i \in G}  f == {F(i) : i \in G}
      All(ns, d, s1, s2, v) == [name : ns, rd : d, rs1 : s1, rs2 : s2, value : v]
      none == {NONE}
  IN
  << All({"ADD", "SUB", "AND", "OR", "XOR"}, g, g, g, {0}),
     All({"ADDF", "SUBF", "MULTF", "DIVF", "MULT", "DIV"}, f, f, f, {0}),
     All({"MOVF", "CVTF2I", "CVTI2F"}, f, f, none, {0}),
     All({"MOVFP2I"}, g, f, none, {0}),
     All({"MOVI2FP"}, f, g, none, {0}),
     All({"ADDI", "LW", "SW"}, g, g, none, V),
     All({"LF", "SF"}, f, g, none, V),
     All({"BEQZ"}, none, g, none, V),
     All({"JR", "JALR"}, none, g, none, {0}),
     All({"J", "JAL"}, none, none, none, O),
     All({"TRAP"}, none, g, none, {0, 1, 3}),
     All({"TRAP"}, none, f, none, {2}) >>

\* Registers, offsets and immediates that have an encoding.
Value16 == {v \in Int : -32768 <= v /\ v <= 32767}
Value26 == {v \in Int : -33554432 <= v /\ v <= 33554431}

ASSUME SourceAssumption ==
  \A i \in Source : \E k \in 1 .. 12 : i \in Forms(0 .. 31, Value16, Value26)[k]

\* The word of an instruction: R type words name their destination last, the
\* others in the middle, a value fills the low bits in two's complement.
field(reg) == IF reg = NONE THEN 0 ELSE reg.index

encode(i) ==
  LET v == i.value % 67108864  low == v % 65536 IN
  IF i.name \in DOMAIN Rcode
  THEN [op |-> Rcode[i.name][1], a |-> field(i.rs1), b |-> field(i.rs2),
        c |-> field(i.rd), x |-> 0, fun |-> Rcode[i.name][2]]
  ELSE [op |-> IF i.name \in DOMAIN Jcode THEN Jcode[i.name] ELSE Icode[i.name],
        a  |-> IF i.name \in DOMAIN Jcode THEN v \div 2097152 ELSE field(i.rs1),
        b  |-> IF i.name \in DOMAIN Jcode THEN (v \div 65536) % 32 ELSE field(i.rd),
        c  |-> low \div 2048, x |-> (low \div 64) % 32, fun |-> low % 64]

-----------------------------------------------------------------------------
\* Decoding is the inverse of assembling: it finds the same name, the same
\* registers in the same places, and the same value, its sign included.
DecodesAssembly ==
  \A i \in Source :
    instruction = encode(i) =>
      /\ result.name = i.name
      /\ result.rd = i.rd /\ result.rs1 = i.rs1 /\ result.rs2 = i.rs2
      /\ operandValue(result) = i.value
=============================================================================

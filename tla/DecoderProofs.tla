--------------------------- MODULE DecoderProofs ---------------------------
(***************************************************************************)
(* Theorems about modules Decoder and Assembler: for every word, and for   *)
(* every assembly instruction that has an encoding.                        *)
(***************************************************************************)
EXTENDS Assembler, TLAPS

\* The last result is that of the last word.
DecoderInv ==
  \/ instruction = NoResult /\ result = NoResult
  \/ instruction \in RawWord /\ result = decoded(instruction)

LEMMA DecoderInvariance == FactorySpec => []DecoderInv
<1>1. FactoryInit => DecoderInv
  BY DEF FactoryInit, DecoderInv
<1>2. DecoderInv /\ [FactoryNext]_factoryVars => DecoderInv'
  <2>1. ASSUME DecoderInv, NEW w \in RawWords, decode(w) PROVE DecoderInv'
    BY <2>1, RawWordsAssumption DEF decode, DecoderInv
  <2>2. DecoderInv /\ UNCHANGED factoryVars => DecoderInv'
    BY DEF DecoderInv, factoryVars
  <2> QED BY <2>1, <2>2 DEF FactoryNext
<1> QED BY <1>1, <1>2, PTL DEF FactorySpec

-----------------------------------------------------------------------------
(***************************************************************************)
(* What decoding a word gives.                                             *)
(***************************************************************************)
typed(t, index) == IF t = "NONE" THEN NONE ELSE [type |-> t, index |-> index]
fields(n, d, s1, s2, imm) ==
  LET t == registerTypes(n, imm) IN
  [name |-> n, rd |-> typed(t[1], d), rs1 |-> typed(t[2], s1),
   rs2 |-> typed(t[3], s2), immediate |-> imm]

Rnames == {"NOP", "ADD", "SUB", "AND", "OR", "XOR", "MOVF", "MOVFP2I", "MOVI2FP",
           "ADDF", "SUBF", "MULTF", "DIVF", "CVTF2I", "CVTI2F", "MULT", "DIV", "J"}
Inames == {"BEQZ", "ADDI", "TRAP", "JR", "JALR", "LW", "LF", "SW", "SF", "NOP"}

LEMMA NamesOfCodes ==
  /\ \A op, fun : op \in {0, 1} => getName(op, fun) \in Rnames
  /\ \A op : op \notin 0 .. 3 => getName(op, 0) \in Inames
  /\ getName(2, 0) = "J" /\ getName(3, 0) = "JAL"
BY DEF getName, names0, names1, names, Rnames, Inames

LEMMA Rdecoded ==
  ASSUME NEW w \in RawWord, w.op \in {0, 1}
  PROVE  decoded(w) = fields(getName(w.op, w.fun), w.c, w.a, w.b, 0)
<1> DEFINE n == getName(w.op, w.fun)
<1>1. decoded(w) = setRegisterTypes([name |-> n, rd |-> indexed(w.c), rs1 |-> indexed(w.a),
                                     rs2 |-> indexed(w.b), immediate |-> 0])
  BY DEF decoded, getEncodingType, decodeRtype
<1> HIDE DEF n
<1>2. fields(n, w.c, w.a, w.b, 0) = decoded(w)
  BY <1>1 DEF setRegisterTypes, setType, indexed, fields, typed
<1> QED BY <1>2 DEF n

LEMMA Idecoded ==
  ASSUME NEW w \in RawWord, w.op \notin 0 .. 3
  PROVE  decoded(w) = fields(getName(w.op, 0), w.b, w.a, 0, low16(w))
<1> DEFINE n == getName(w.op, 0)
<1>1. n \in Inames
  BY NamesOfCodes
<1>2. registerTypes(n, low16(w))[3] = "NONE"
  BY <1>1 DEF Inames, registerTypes, typesByName
<1>3. getEncodingType(w.op) = "Itype"
  BY DEF getEncodingType
<1>4. decoded(w) = setRegisterTypes([name |-> n, rd |-> indexed(w.b), rs1 |-> indexed(w.a),
                                     rs2 |-> NONE, immediate |-> low16(w)])
  BY <1>3 DEF decoded, decodeItype
<1> HIDE DEF n
<1>5. fields(n, w.b, w.a, 0, low16(w)) = decoded(w)
  BY <1>2, <1>4 DEF setRegisterTypes, setType, indexed, fields, typed
<1> QED BY <1>5 DEF n

LEMMA Jdecoded ==
  ASSUME NEW w \in RawWord, w.op \in {2, 3}
  PROVE  decoded(w) = fields(getName(w.op, 0), 0, 0, 0, decodeJtype(w, "J").immediate)
<1> DEFINE n   == getName(w.op, 0)
           imm == (((w.op % 2) * 32 + w.a) * 32 + w.b) * 65536 + low16(w)
<1>1. n \in {"J", "JAL"}
  BY NamesOfCodes
<1>2. registerTypes(n, imm) = <<"NONE", "NONE", "NONE">>
  BY <1>1 DEF registerTypes, typesByName
<1>3. getEncodingType(w.op) = "Jtype"
  BY DEF getEncodingType
<1>4. decoded(w) = setRegisterTypes([name |-> n, rd |-> NONE, rs1 |-> NONE, rs2 |-> NONE,
                                     immediate |-> imm])
  BY <1>3 DEF decoded, decodeJtype
<1>5. decodeJtype(w, "J").immediate = imm
  BY DEF decodeJtype
<1> HIDE DEF n, imm
<1>6. fields(n, 0, 0, 0, imm) = decoded(w)
  BY <1>2, <1>4 DEF setRegisterTypes, setType, fields, typed
<1> QED BY <1>5, <1>6 DEF n

-----------------------------------------------------------------------------
(***************************************************************************)
(* Registers.                                                              *)
(***************************************************************************)
\* The registers an instruction of each name has, and those of its unit.
Suits(i) ==
  /\ {i.rd, i.rs1, i.rs2} \subseteq Register \cup {NONE}
  /\ i.name \in I!Names
  /\ i.rd # NONE <=> I!HasRd(i.name)
  /\ i.rs1 # NONE <=> I!HasRs1(i.name)
  /\ i.rs2 # NONE <=> I!HasRs2(i.name)

LEMMA TypedRegister ==
  ASSUME NEW t \in {"GPR", "FPR"}, NEW j \in 0 .. 31
  PROVE  typed(t, j) \in Register /\ typed(t, j) # NONE /\ typed(t, j).type = t
BY DEF typed, Register, NONE

LEMMA NoneTyped ==
  ASSUME NEW j PROVE typed("NONE", j) = NONE
BY DEF typed

LEMMA FieldsSuit ==
  ASSUME NEW n \in Rnames \cup Inames \cup {"JAL"}, NEW imm,
         NEW d \in 0 .. 31, NEW s1 \in 0 .. 31, NEW s2 \in 0 .. 31
  PROVE  Suits(fields(n, d, s1, s2, imm))
<1> DEFINE t == registerTypes(n, imm)
           i == fields(n, d, s1, s2, imm)
<1>1. /\ t[1] \in {"GPR", "FPR", "NONE"} /\ t[2] \in {"GPR", "FPR", "NONE"}
      /\ t[3] \in {"GPR", "FPR", "NONE"}
      /\ t[1] # "NONE" <=> I!HasRd(n)
      /\ t[2] # "NONE" <=> I!HasRs1(n)
      /\ t[3] # "NONE" <=> I!HasRs2(n)
  BY DEF registerTypes, typesByName, Rnames, Inames, I!HasRd, I!HasRs1, I!HasRs2,
     I!BranchNames, I!FloatNames
<1>2. n \in I!Names
  BY DEF Rnames, Inames, I!Names, I!IntegerNames, I!BranchNames, I!LoadNames, I!StoreNames,
     I!FloatNames
<1>3. i.name = n /\ i.rd = typed(t[1], d) /\ i.rs1 = typed(t[2], s1) /\ i.rs2 = typed(t[3], s2)
  BY DEF fields
<1> HIDE DEF t, i
<1>4. /\ i.rd \in Register \cup {NONE} /\ i.rs1 \in Register \cup {NONE}
      /\ i.rs2 \in Register \cup {NONE}
  BY <1>1, <1>3, TypedRegister, NoneTyped
<1>5. /\ i.rd # NONE <=> t[1] # "NONE"
      /\ i.rs1 # NONE <=> t[2] # "NONE"
      /\ i.rs2 # NONE <=> t[3] # "NONE"
  BY <1>1, <1>3, TypedRegister, NoneTyped
<1>6. Suits(i)
  BY <1>1, <1>2, <1>3, <1>4, <1>5 DEF Suits
<1> QED BY <1>6 DEF i

LEMMA Bits ==
  ASSUME NEW w \in RawWord
  PROVE  /\ w.op \in 0 .. 63 /\ w.a \in 0 .. 31 /\ w.b \in 0 .. 31 /\ w.c \in 0 .. 31
         /\ w.x \in 0 .. 31 /\ w.fun \in 0 .. 63
BY DEF RawWord

LEMMA Low16 ==
  ASSUME NEW w \in RawWord PROVE low16(w) \in Nat /\ low16(w) <= 65535
<1>1. ASSUME NEW c \in Nat, NEW x \in Nat, NEW f \in Nat, c <= 31, x <= 31, f <= 63
      PROVE  (c * 32 + x) * 64 + f \in Nat /\ (c * 32 + x) * 64 + f <= 65535
  BY <1>1
<1>2. /\ w.c \in Nat /\ w.c <= 31 /\ w.x \in Nat /\ w.x <= 31
      /\ w.fun \in Nat /\ w.fun <= 63
  BY Bits
<1> QED BY <1>1, <1>2 DEF low16

LEMMA Jimmediate ==
  ASSUME NEW w \in RawWord PROVE decodeJtype(w, "J").immediate \in Nat
<1>1. ASSUME NEW p \in Nat, NEW a \in Nat, NEW b \in Nat, NEW low \in Nat
      PROVE  ((p * 32 + a) * 32 + b) * 65536 + low \in Nat
  BY <1>1
<1>2. w.op % 2 \in Nat /\ w.a \in Nat /\ w.b \in Nat /\ low16(w) \in Nat
  BY Bits, Low16
<1> QED BY <1>1, <1>2 DEF decodeJtype

\* The instructions that a word may decode to.
IsDecoded(i) ==
  \E n \in Rnames \cup Inames \cup {"JAL"} : \E d, s1, s2 \in 0 .. 31 : \E imm \in Nat :
    i = fields(n, d, s1, s2, imm)

LEMMA DecodedFields ==
  ASSUME NEW w \in RawWord PROVE IsDecoded(decoded(w))
<1>1. /\ w.op \in 0 .. 63 /\ w.a \in 0 .. 31 /\ w.b \in 0 .. 31 /\ w.c \in 0 .. 31
      /\ w.x \in 0 .. 31 /\ w.fun \in 0 .. 63 /\ 0 \in 0 .. 31 /\ 0 \in Nat
  BY Bits
<1>2. low16(w) \in Nat
  BY Low16
<1>3. decodeJtype(w, "J").immediate \in Nat
  BY Jimmediate
<1>4. CASE w.op \in {0, 1}
  <2>1. getName(w.op, w.fun) \in Rnames
    BY <1>4, NamesOfCodes
  <2> QED BY <1>1, <1>4, <2>1, Rdecoded DEF IsDecoded
<1>5. CASE w.op \in {2, 3}
  <2>1. getName(w.op, 0) \in Rnames \cup {"JAL"}
    BY <1>5, NamesOfCodes DEF Rnames
  <2> QED BY <1>1, <1>3, <1>5, <2>1, Jdecoded DEF IsDecoded
<1>6. CASE w.op \notin 0 .. 3
  <2>1. getName(w.op, 0) \in Inames
    BY <1>6, NamesOfCodes
  <2> QED BY <1>1, <1>2, <1>6, <2>1, Idecoded DEF IsDecoded
<1> QED BY <1>1, <1>4, <1>5, <1>6

LEMMA ResultDecoded == DecoderInv /\ result # NoResult => IsDecoded(result)
BY DecodedFields DEF DecoderInv

\* Whatever the word, the registers decoded exist and are those the processor
\* expects of the name.
THEOREM RegistersAlwaysExist == FactorySpec => []RegistersExist
<1>1. ASSUME NEW i, IsDecoded(i) PROVE Suits(i)
  BY <1>1, FieldsSuit DEF IsDecoded
<1>2. DecoderInv => RegistersExist
  <2> SUFFICES ASSUME DecoderInv, result # NoResult PROVE Suits(result)
    BY DEF RegistersExist, Suits
  <2> QED BY <1>1, ResultDecoded
<1> QED BY <1>2, DecoderInvariance, PTL

\* The types of the registers of an instruction.
types(i) == {r.type : r \in {i.rd, i.rs1, i.rs2} \ {NONE}}
present(t) == {t[1], t[2], t[3]} \ {"NONE"}

LEMMA FieldTypes ==
  ASSUME NEW n \in Rnames \cup Inames \cup {"JAL"}, NEW imm \in Nat,
         NEW d \in 0 .. 31, NEW s1 \in 0 .. 31, NEW s2 \in 0 .. 31
  PROVE  /\ types(fields(n, d, s1, s2, imm)) = present(registerTypes(n, imm))
         /\ registerTypes(n, imm)[2] # "NONE" =>
              fields(n, d, s1, s2, imm).rs1.type = registerTypes(n, imm)[2]
<1> DEFINE t == registerTypes(n, imm)
           i == fields(n, d, s1, s2, imm)
<1>1. /\ t[1] \in {"GPR", "FPR", "NONE"} /\ t[2] \in {"GPR", "FPR", "NONE"}
      /\ t[3] \in {"GPR", "FPR", "NONE"}
  BY DEF registerTypes, typesByName, Rnames, Inames
<1>2. i.rd = typed(t[1], d) /\ i.rs1 = typed(t[2], s1) /\ i.rs2 = typed(t[3], s2)
  BY DEF fields
<1> HIDE DEF t, i
<1>3. /\ i.rd # NONE <=> t[1] # "NONE"
      /\ i.rs1 # NONE <=> t[2] # "NONE"
      /\ i.rs2 # NONE <=> t[3] # "NONE"
      /\ t[1] # "NONE" => i.rd.type = t[1]
      /\ t[2] # "NONE" => i.rs1.type = t[2]
      /\ t[3] # "NONE" => i.rs2.type = t[3]
  BY <1>1, <1>2, TypedRegister, NoneTyped
<1>4. types(i) = present(t)
  BY <1>3 DEF types, present
<1> QED BY <1>3, <1>4 DEF t, i

ReadsOwn(i) ==
  LET unit == I!getInstructionType(i.name) IN
  /\ unit = "FloatingPoint" => types(i) = {"FPR"}
  /\ unit = "Branch" => types(i) \subseteq {"GPR"}
  /\ unit = "Memory" => i.rs1.type = "GPR"
  /\ unit = "Integer" /\ "FPR" \in types(i) => i.name \in {"MOVF", "MOVFP2I", "MOVI2FP"}

\* Of the floating point unit's registers none is an integer register, and the
\* other units have none of them but where an instruction moves a value.
THEOREM UnitsAlwaysReadOwn == FactorySpec => []UnitsReadOwnRegisters
<1>1. ASSUME NEW i, IsDecoded(i) PROVE ReadsOwn(i)
  <2>1. PICK n \in Rnames \cup Inames \cup {"JAL"} : \E d, s1, s2 \in 0 .. 31 : \E imm \in Nat :
          i = fields(n, d, s1, s2, imm)
    BY <1>1 DEF IsDecoded
  <2>2. PICK d \in 0 .. 31, s1 \in 0 .. 31, s2 \in 0 .. 31, imm \in Nat :
          i = fields(n, d, s1, s2, imm)
    BY <2>1
  <2>3. PICK t : t = registerTypes(n, imm)
    OBVIOUS
  <2>4. /\ types(i) = present(registerTypes(n, imm))
        /\ registerTypes(n, imm)[2] # "NONE" => i.rs1.type = registerTypes(n, imm)[2]
    BY <2>2, FieldTypes
  <2>5. types(i) = {t[1], t[2], t[3]} \ {"NONE"} /\ (t[2] # "NONE" => i.rs1.type = t[2])
    BY <2>3, <2>4 DEF present
  <2>6. i.name = n
    BY <2>2 DEF fields
  <2> DEFINE unit == I!getInstructionType(n)
  <2>7. unit = "FloatingPoint" => types(i) = {"FPR"}
    BY <2>3, <2>5 DEF I!getInstructionType, I!IntegerNames, I!BranchNames, I!LoadNames,
       I!StoreNames, I!FloatNames, registerTypes, typesByName, Rnames, Inames
  <2>8. unit = "Branch" => types(i) \subseteq {"GPR"}
    BY <2>3, <2>5 DEF I!getInstructionType, I!IntegerNames, I!BranchNames, I!LoadNames,
       I!StoreNames, I!FloatNames, registerTypes, typesByName, Rnames, Inames
  <2>9. unit = "Memory" => i.rs1.type = "GPR"
    BY <2>3, <2>5 DEF I!getInstructionType, I!IntegerNames, I!BranchNames, I!LoadNames,
       I!StoreNames, I!FloatNames, registerTypes, typesByName, Rnames, Inames
  <2>10. unit = "Integer" /\ "FPR" \in types(i) => n \in {"MOVF", "MOVFP2I", "MOVI2FP"}
    BY <2>3, <2>5 DEF I!getInstructionType, I!IntegerNames, I!BranchNames, I!LoadNames,
       I!StoreNames, I!FloatNames, registerTypes, typesByName, Rnames, Inames
  <2> QED BY <2>6, <2>7, <2>8, <2>9, <2>10 DEF ReadsOwn
<1>2. DecoderInv => UnitsReadOwnRegisters
  <2> SUFFICES ASSUME DecoderInv, result # NoResult PROVE ReadsOwn(result)
    BY DEF UnitsReadOwnRegisters, ReadsOwn, types
  <2> QED BY <1>1, ResultDecoded
<1> QED BY <1>2, DecoderInvariance, PTL

-----------------------------------------------------------------------------
(***************************************************************************)
(* Assembling and decoding again.                                          *)
(***************************************************************************)
\* A register, or none, that a field of the word and a type give back.
GivenBy(r, t) == field(r) \in 0 .. 31 /\ typed(t, field(r)) = r

LEMMA RegistersGivenBack ==
  /\ \A r \in {R(j) : j \in 0 .. 31} : GivenBy(r, "GPR")
  /\ \A r \in {F(j) : j \in 0 .. 31} : GivenBy(r, "FPR")
  /\ \A r \in {NONE} : GivenBy(r, "NONE")
<1>1. ASSUME NEW j \in 0 .. 31 PROVE GivenBy(R(j), "GPR") /\ GivenBy(F(j), "FPR")
  <2>1. /\ R(j) # NONE /\ R(j).index = j /\ R(j) = typed("GPR", j)
        /\ F(j) # NONE /\ F(j).index = j /\ F(j) = typed("FPR", j)
    BY DEF R, F, NONE, typed
  <2> QED BY <2>1 DEF GivenBy, field
<1>2. GivenBy(NONE, "NONE")
  BY DEF GivenBy, field, typed
<1> QED BY <1>1, <1>2

LongValues == {"J", "JAL"}
ShortValues == {"ADDI", "LW", "SW", "LF", "SF", "BEQZ"}
NoValues == (Rnames \ {"NOP", "J"}) \cup {"JR", "JALR"}

\* An assembly instruction that has an encoding.
IsAssembly(i) ==
  /\ i.name \in LongValues \cup ShortValues \cup NoValues \cup {"TRAP"}
  /\ LET t == registerTypes(i.name, i.value) IN
     GivenBy(i.rd, t[1]) /\ GivenBy(i.rs1, t[2]) /\ GivenBy(i.rs2, t[3])
  /\ i.value \in Int
  /\ i.name \in LongValues => -33554432 <= i.value /\ i.value <= 33554431
  /\ i.name \in ShortValues => -32768 <= i.value /\ i.value <= 32767
  /\ i.name \in NoValues => i.value = 0
  /\ i.name = "TRAP" => i.value \in 0 .. 3

LEMMA FormsAssemble ==
  ASSUME NEW k \in 1 .. 12, NEW i \in Forms(0 .. 31, Value16, Value26)[k]
  PROVE  IsAssembly(i)
<1> DEFINE V == Value16
           O == Value26
           g == {R(j) : j \in 0 .. 31}
           f == {F(j) : j \in 0 .. 31}
           none == {NONE}
           t == registerTypes(i.name, i.value)
<1>0. /\ \A v \in V : v \in Int /\ -32768 <= v /\ v <= 32767
      /\ \A v \in O : v \in Int /\ -33554432 <= v /\ v <= 33554431
  BY DEF Value16, Value26
<1> HIDE DEF V, O
<1>1. ASSUME NEW t1, NEW t2, NEW t3, t = <<t1, t2, t3>>,
             GivenBy(i.rd, t1), GivenBy(i.rs1, t2), GivenBy(i.rs2, t3)
      PROVE  GivenBy(i.rd, t[1]) /\ GivenBy(i.rs1, t[2]) /\ GivenBy(i.rs2, t[3])
  BY <1>1
<1>2. CASE k = 1
  <2>1. i \in [name : {"ADD", "SUB", "AND", "OR", "XOR"}, rd : g, rs1 : g, rs2 : g, value : {0}]
    BY <1>2 DEF Forms, V, O
  <2>2. t = <<"GPR", "GPR", "GPR">>
    BY <2>1 DEF registerTypes, typesByName
  <2> HIDE DEF t
  <2> QED
    BY <1>0, <1>1, <2>1, <2>2, RegistersGivenBack
    DEF IsAssembly, t, LongValues, ShortValues, NoValues, Rnames
<1>3. CASE k = 2
  <2>1. i \in [name : {"ADDF", "SUBF", "MULTF", "DIVF", "MULT", "DIV"},
               rd : f, rs1 : f, rs2 : f, value : {0}]
    BY <1>3 DEF Forms, V, O
  <2>2. t = <<"FPR", "FPR", "FPR">>
    BY <2>1 DEF registerTypes, typesByName
  <2> HIDE DEF t
  <2> QED
    BY <1>0, <1>1, <2>1, <2>2, RegistersGivenBack
    DEF IsAssembly, t, LongValues, ShortValues, NoValues, Rnames
<1>4. CASE k = 3
  <2>1. i \in [name : {"MOVF", "CVTF2I", "CVTI2F"}, rd : f, rs1 : f, rs2 : none, value : {0}]
    BY <1>4 DEF Forms, V, O
  <2>2. t = <<"FPR", "FPR", "NONE">>
    BY <2>1 DEF registerTypes, typesByName
  <2> HIDE DEF t
  <2> QED
    BY <1>0, <1>1, <2>1, <2>2, RegistersGivenBack
    DEF IsAssembly, t, LongValues, ShortValues, NoValues, Rnames
<1>5. CASE k = 4
  <2>1. i \in [name : {"MOVFP2I"}, rd : g, rs1 : f, rs2 : none, value : {0}]
    BY <1>5 DEF Forms, V, O
  <2>2. t = <<"GPR", "FPR", "NONE">>
    BY <2>1 DEF registerTypes, typesByName
  <2> HIDE DEF t
  <2> QED
    BY <1>0, <1>1, <2>1, <2>2, RegistersGivenBack
    DEF IsAssembly, t, LongValues, ShortValues, NoValues, Rnames
<1>6. CASE k = 5
  <2>1. i \in [name : {"MOVI2FP"}, rd : f, rs1 : g, rs2 : none, value : {0}]
    BY <1>6 DEF Forms, V, O
  <2>2. t = <<"FPR", "GPR", "NONE">>
    BY <2>1 DEF registerTypes, typesByName
  <2> HIDE DEF t
  <2> QED
    BY <1>0, <1>1, <2>1, <2>2, RegistersGivenBack
    DEF IsAssembly, t, LongValues, ShortValues, NoValues, Rnames
<1>7. CASE k = 6
  <2>1. i \in [name : {"ADDI", "LW", "SW"}, rd : g, rs1 : g, rs2 : none, value : V]
    BY <1>7 DEF Forms, V, O
  <2>2. t = <<"GPR", "GPR", "NONE">>
    BY <2>1 DEF registerTypes, typesByName
  <2> HIDE DEF t
  <2> QED
    BY <1>0, <1>1, <2>1, <2>2, RegistersGivenBack
    DEF IsAssembly, t, LongValues, ShortValues, NoValues, Rnames
<1>8. CASE k = 7
  <2>1. i \in [name : {"LF", "SF"}, rd : f, rs1 : g, rs2 : none, value : V]
    BY <1>8 DEF Forms, V, O
  <2>2. t = <<"FPR", "GPR", "NONE">>
    BY <2>1 DEF registerTypes, typesByName
  <2> HIDE DEF t
  <2> QED
    BY <1>0, <1>1, <2>1, <2>2, RegistersGivenBack
    DEF IsAssembly, t, LongValues, ShortValues, NoValues, Rnames
<1>9. CASE k = 8
  <2>1. i \in [name : {"BEQZ"}, rd : none, rs1 : g, rs2 : none, value : V]
    BY <1>9 DEF Forms, V, O
  <2>2. t = <<"NONE", "GPR", "NONE">>
    BY <2>1 DEF registerTypes, typesByName
  <2> HIDE DEF t
  <2> QED
    BY <1>0, <1>1, <2>1, <2>2, RegistersGivenBack
    DEF IsAssembly, t, LongValues, ShortValues, NoValues, Rnames
<1>10. CASE k = 9
  <2>1. i \in [name : {"JR", "JALR"}, rd : none, rs1 : g, rs2 : none, value : {0}]
    BY <1>10 DEF Forms, V, O
  <2>2. t = <<"NONE", "GPR", "NONE">>
    BY <2>1 DEF registerTypes, typesByName
  <2> HIDE DEF t
  <2> QED
    BY <1>0, <1>1, <2>1, <2>2, RegistersGivenBack
    DEF IsAssembly, t, LongValues, ShortValues, NoValues, Rnames
<1>11. CASE k = 10
  <2>1. i \in [name : {"J", "JAL"}, rd : none, rs1 : none, rs2 : none, value : O]
    BY <1>11 DEF Forms, V, O
  <2>2. t = <<"NONE", "NONE", "NONE">>
    BY <2>1 DEF registerTypes, typesByName
  <2> HIDE DEF t
  <2> QED
    BY <1>0, <1>1, <2>1, <2>2, RegistersGivenBack
    DEF IsAssembly, t, LongValues, ShortValues, NoValues, Rnames
<1>12. CASE k = 11
  <2>1. i \in [name : {"TRAP"}, rd : none, rs1 : g, rs2 : none, value : {0, 1, 3}]
    BY <1>12 DEF Forms, V, O
  <2>2. t = <<"NONE", "GPR", "NONE">>
    BY <2>1 DEF registerTypes, typesByName
  <2> HIDE DEF t
  <2> QED
    BY <1>0, <1>1, <2>1, <2>2, RegistersGivenBack
    DEF IsAssembly, t, LongValues, ShortValues, NoValues, Rnames
<1>13. CASE k = 12
  <2>1. i \in [name : {"TRAP"}, rd : none, rs1 : f, rs2 : none, value : {2}]
    BY <1>13 DEF Forms, V, O
  <2>2. t = <<"NONE", "FPR", "NONE">>
    BY <2>1 DEF registerTypes, typesByName
  <2> HIDE DEF t
  <2> QED
    BY <1>0, <1>1, <2>1, <2>2, RegistersGivenBack
    DEF IsAssembly, t, LongValues, ShortValues, NoValues, Rnames
<1> QED BY <1>2, <1>3, <1>4, <1>5, <1>6, <1>7, <1>8, <1>9, <1>10, <1>11, <1>12, <1>13

\* The bits of a number, put together again.
LEMMA ShortBits ==
  ASSUME NEW low \in Nat, low <= 65535
  PROVE  /\ low \div 2048 \in Nat /\ low \div 2048 <= 31
         /\ (low \div 64) % 32 \in 0 .. 31 /\ low % 64 \in 0 .. 63
         /\ ((low \div 2048) * 32 + ((low \div 64) % 32)) * 64 + (low % 64) = low
OBVIOUS

LEMMA LongBits ==
  ASSUME NEW v \in Nat, v < 67108864
  PROVE  /\ v \div 2097152 \in Nat /\ v \div 2097152 <= 31
         /\ (v \div 65536) % 32 \in 0 .. 31
         /\ ((v \div 2097152) * 32 + ((v \div 65536) % 32)) * 65536 + (v % 65536) = v
OBVIOUS

LEMMA ShortSigned ==
  ASSUME NEW x \in Int, -32768 <= x, x <= 32767
  PROVE  signExtend16((x % 67108864) % 65536) = x
<1> DEFINE h == x % 65536
<1>1. (x % 67108864) % 65536 = h /\ h % 65536 = h
  OBVIOUS
<1>2. x = IF h < 32768 THEN h ELSE h - 65536
  OBVIOUS
<1> HIDE DEF h
<1> QED BY <1>1, <1>2 DEF signExtend16

LEMMA LongSigned ==
  ASSUME NEW x \in Int, -33554432 <= x, x <= 33554431, NEW p \in {0, 1}
  PROVE  signExtend24(p * 67108864 + (x % 67108864)) = x
<1> DEFINE h == x % 67108864
<1>1. h \in Nat /\ h < 67108864
  OBVIOUS
<1>2. x = IF h < 33554432 THEN h ELSE h - 67108864
  OBVIOUS
<1> HIDE DEF h
<1>3. (p * 67108864 + h) % 67108864 = h
  BY <1>1
<1>4. signExtend24(p * 67108864 + h) = x
  BY <1>2, <1>3 DEF signExtend24
<1> QED BY <1>4 DEF h

\* What decoding must find again.
Recovers(d, i) ==
  d.name = i.name /\ d.rd = i.rd /\ d.rs1 = i.rs1 /\ d.rs2 = i.rs2 /\ operandValue(d) = i.value

\* x is the field of a register, if there is one.
Holds(x, r) == r # NONE => x = field(r)
SameTrap(imm, i) == i.name = "TRAP" => imm = i.value

LEMMA FieldsRecover ==
  ASSUME NEW i, IsAssembly(i), NEW imm, SameTrap(imm, i),
         NEW d, Holds(d, i.rd), NEW s1, Holds(s1, i.rs1), NEW s2, Holds(s2, i.rs2)
  PROVE  LET r == fields(i.name, d, s1, s2, imm) IN
         /\ r.name = i.name /\ r.rd = i.rd /\ r.rs1 = i.rs1 /\ r.rs2 = i.rs2
         /\ r.immediate = imm
<1> DEFINE t == registerTypes(i.name, i.value)
<1>1. registerTypes(i.name, imm) = t
  BY DEF registerTypes, SameTrap
<1>2. t[1] \in {"GPR", "FPR", "NONE"} /\ t[2] \in {"GPR", "FPR", "NONE"}
      /\ t[3] \in {"GPR", "FPR", "NONE"}
  BY DEF registerTypes, typesByName
<1>3. GivenBy(i.rd, t[1]) /\ GivenBy(i.rs1, t[2]) /\ GivenBy(i.rs2, t[3])
  BY DEF IsAssembly
<1>4. /\ t[1] # "NONE" => i.rd # NONE
      /\ t[2] # "NONE" => i.rs1 # NONE
      /\ t[3] # "NONE" => i.rs2 # NONE
  BY <1>2, <1>3, TypedRegister DEF GivenBy
<1> HIDE DEF t
<1>5. typed(t[1], d) = i.rd /\ typed(t[2], s1) = i.rs1 /\ typed(t[3], s2) = i.rs2
  BY <1>3, <1>4, NoneTyped DEF GivenBy, Holds
<1> QED BY <1>1, <1>5 DEF fields

LEMMA Rrecovered ==
  ASSUME NEW i, IsAssembly(i), i.name \in DOMAIN Rcode
  PROVE  Recovers(decoded(encode(i)), i)
<1> DEFINE w == encode(i)
<1>1. w = [op |-> Rcode[i.name][1], a |-> field(i.rs1), b |-> field(i.rs2),
           c |-> field(i.rd), x |-> 0, fun |-> Rcode[i.name][2]]
  BY DEF encode
<1>2. Rcode[i.name][1] \in {0, 1} /\ Rcode[i.name][2] \in 0 .. 63
      /\ getName(Rcode[i.name][1], Rcode[i.name][2]) = i.name
      /\ i.name \in NoValues
  BY DEF Rcode, getName, names0, names1, NoValues, Rnames
<1>3. field(i.rd) \in 0 .. 31 /\ field(i.rs1) \in 0 .. 31 /\ field(i.rs2) \in 0 .. 31
  BY DEF IsAssembly, GivenBy
<1>4. w \in RawWord
  BY <1>1, <1>2, <1>3 DEF RawWord
<1> HIDE DEF w
<1>5. decoded(w) = fields(i.name, field(i.rd), field(i.rs1), field(i.rs2), 0)
  BY <1>1, <1>2, <1>4, Rdecoded
<1>6. i.value = 0 /\ i.name # "TRAP"
  BY <1>2 DEF IsAssembly, NoValues, Rnames
<1>7. /\ decoded(w).name = i.name /\ decoded(w).rd = i.rd /\ decoded(w).rs1 = i.rs1
      /\ decoded(w).rs2 = i.rs2
  <2>1. /\ SameTrap(0, i) /\ Holds(field(i.rd), i.rd) /\ Holds(field(i.rs1), i.rs1)
        /\ Holds(field(i.rs2), i.rs2)
    BY <1>6 DEF SameTrap, Holds
  <2> QED BY <1>5, <2>1, FieldsRecover
<1>8. operandValue(decoded(w)) = 0
  BY <1>2, <1>7 DEF operandValue, NoValues, Rnames
<1>9. Recovers(decoded(w), i)
  BY <1>6, <1>7, <1>8 DEF Recovers
<1> QED BY <1>9 DEF w

\* The fields of a word that holds a value, and its low half.
LEMMA LowHalf ==
  ASSUME NEW w \in RawWord, NEW low \in Nat, low <= 65535,
         w.c = low \div 2048, w.x = (low \div 64) % 32, w.fun = low % 64
  PROVE  low16(w) = low
BY ShortBits DEF low16

LEMMA ValueBits ==
  ASSUME NEW x \in Int
  PROVE  /\ x % 67108864 \in Nat /\ x % 67108864 < 67108864
         /\ (x % 67108864) % 65536 \in Nat /\ (x % 67108864) % 65536 <= 65535
OBVIOUS

LEMMA Irecovered ==
  ASSUME NEW i, IsAssembly(i), i.name \in DOMAIN Icode
  PROVE  Recovers(decoded(encode(i)), i)
<1> DEFINE w   == encode(i)
           low == (i.value % 67108864) % 65536
           op  == Icode[i.name]
<1>1. i.name \notin DOMAIN Rcode /\ i.name \notin DOMAIN Jcode
  BY DEF Icode, Rcode, Jcode
<1>2. w = [op |-> op, a |-> field(i.rs1), b |-> field(i.rd), c |-> low \div 2048,
           x |-> (low \div 64) % 32, fun |-> low % 64]
  BY <1>1 DEF encode
<1>3. op \in 0 .. 63 /\ op \notin 0 .. 3 /\ getName(op, 0) = i.name
  BY DEF Icode, getName, names
<1>4. i.value \in Int
  BY DEF IsAssembly
<1>5. low \in Nat /\ low <= 65535
  BY <1>4, ValueBits
<1>6. field(i.rd) \in 0 .. 31 /\ field(i.rs1) \in 0 .. 31
  BY DEF IsAssembly, GivenBy
<1>7. i.rs2 = NONE
  <2>1. registerTypes(i.name, i.value)[3] = "NONE"
    BY DEF Icode, registerTypes, typesByName
  <2> QED BY <2>1, NoneTyped DEF IsAssembly, GivenBy
<1> HIDE DEF w, op
<1>8. w \in RawWord
  <2>1. low \div 2048 \in 0 .. 31 /\ (low \div 64) % 32 \in 0 .. 31 /\ low % 64 \in 0 .. 63
    BY <1>5, ShortBits
  <2> HIDE DEF low
  <2> QED BY <1>2, <1>3, <1>6, <2>1 DEF RawWord
<1> HIDE DEF low
<1>9. low16(w) = low
  BY <1>2, <1>5, <1>8, LowHalf
<1>10. decoded(w) = fields(i.name, field(i.rd), field(i.rs1), 0, low)
  BY <1>2, <1>3, <1>8, <1>9, Idecoded
<1>11. /\ i.name = "TRAP" => low = i.value
       /\ i.name \in ShortValues => signExtend16(low) = i.value
       /\ i.name \in {"JR", "JALR"} => i.value = 0
       /\ i.name \in {"TRAP", "JR", "JALR"} \cup ShortValues
  <2>1. i.name = "TRAP" => low = i.value
    BY DEF IsAssembly, low
  <2>2. i.name \in ShortValues => signExtend16(low) = i.value
    BY <1>4, ShortSigned DEF IsAssembly, low
  <2>3. i.name \in {"JR", "JALR"} => i.value = 0
    BY DEF IsAssembly, NoValues
  <2>4. i.name \in {"TRAP", "JR", "JALR"} \cup ShortValues
    BY DEF Icode, ShortValues
  <2> QED BY <2>1, <2>2, <2>3, <2>4
<1>12. /\ decoded(w).name = i.name /\ decoded(w).rd = i.rd /\ decoded(w).rs1 = i.rs1
       /\ decoded(w).rs2 = i.rs2 /\ decoded(w).immediate = low
  <2>1. /\ SameTrap(low, i) /\ Holds(field(i.rd), i.rd) /\ Holds(field(i.rs1), i.rs1)
        /\ Holds(0, i.rs2)
    BY <1>7, <1>11 DEF SameTrap, Holds
  <2> QED BY <1>10, <2>1, FieldsRecover
<1>13. operandValue(decoded(w)) = i.value
  BY <1>11, <1>12 DEF operandValue, ShortValues
<1>14. Recovers(decoded(w), i)
  BY <1>12, <1>13 DEF Recovers
<1> QED BY <1>14 DEF w

LEMMA Jrecovered ==
  ASSUME NEW i, IsAssembly(i), i.name \in DOMAIN Jcode
  PROVE  Recovers(decoded(encode(i)), i)
<1> DEFINE w   == encode(i)
           v   == i.value % 67108864
           low == v % 65536
           op  == Jcode[i.name]
<1>1. i.name \notin DOMAIN Rcode
  BY DEF Rcode, Jcode
<1>2. w = [op |-> op, a |-> v \div 2097152, b |-> (v \div 65536) % 32, c |-> low \div 2048,
           x |-> (low \div 64) % 32, fun |-> low % 64]
  BY <1>1 DEF encode
<1>3. op \in {2, 3} /\ getName(op, 0) = i.name /\ i.name \in LongValues
  BY DEF Jcode, getName, names, LongValues
<1>4. i.value \in Int
  BY DEF IsAssembly
<1>5. v \in Nat /\ v < 67108864 /\ low \in Nat /\ low <= 65535
  BY <1>4, ValueBits
<1>6. i.rd = NONE /\ i.rs1 = NONE /\ i.rs2 = NONE
  <2>1. registerTypes(i.name, i.value) = <<"NONE", "NONE", "NONE">>
    BY <1>3 DEF LongValues, registerTypes, typesByName
  <2> QED BY <2>1, NoneTyped DEF IsAssembly, GivenBy
<1> HIDE DEF w, op, v
<1>7. w \in RawWord
  <2>1. low \div 2048 \in 0 .. 31 /\ (low \div 64) % 32 \in 0 .. 31 /\ low % 64 \in 0 .. 63
    BY <1>5, ShortBits
  <2>2. v \div 2097152 \in 0 .. 31 /\ (v \div 65536) % 32 \in 0 .. 31
    BY <1>5, LongBits
  <2> HIDE DEF low
  <2> QED BY <1>2, <1>3, <2>1, <2>2 DEF RawWord
<1>8. low16(w) = low
  <2> HIDE DEF low
  <2> QED BY <1>2, <1>5, <1>7, LowHalf
<1>9. decodeJtype(w, "J").immediate = (op % 2) * 67108864 + v
  <2>1. (w.a * 32 + w.b) * 65536 + low = v
    BY <1>2, <1>5, LongBits
  <2>2. ASSUME NEW p \in Nat, NEW a \in Nat, NEW b \in Nat, NEW l \in Nat
        PROVE  ((p * 32 + a) * 32 + b) * 65536 + l = p * 67108864 + ((a * 32 + b) * 65536 + l)
    BY <2>2
  <2>3. w.op = op /\ op % 2 \in Nat /\ w.a \in Nat /\ w.b \in Nat
    BY <1>2, <1>3, <1>7, Bits
  <2>4. decodeJtype(w, "J").immediate = (((op % 2) * 32 + w.a) * 32 + w.b) * 65536 + low
    BY <1>8, <2>3 DEF decodeJtype
  <2> HIDE DEF low
  <2> QED BY <1>5, <2>1, <2>2, <2>3, <2>4
<1> DEFINE imm == (op % 2) * 67108864 + v
<1>10. decoded(w) = fields(i.name, 0, 0, 0, imm)
  <2>1. w.op = op
    BY <1>2
  <2> QED BY <1>3, <1>7, <1>9, <2>1, Jdecoded
<1>11. signExtend24(imm) = i.value
  <2>1. op % 2 \in {0, 1} /\ -33554432 <= i.value /\ i.value <= 33554431
    BY <1>3 DEF IsAssembly
  <2> QED BY <1>4, <2>1, LongSigned DEF v
<1> HIDE DEF imm
<1>12. /\ decoded(w).name = i.name /\ decoded(w).rd = i.rd /\ decoded(w).rs1 = i.rs1
       /\ decoded(w).rs2 = i.rs2 /\ decoded(w).immediate = imm
  <2>1. SameTrap(imm, i) /\ Holds(0, i.rd) /\ Holds(0, i.rs1) /\ Holds(0, i.rs2)
    BY <1>3, <1>6 DEF SameTrap, Holds, LongValues
  <2> QED BY <1>10, <2>1, FieldsRecover
<1>13. operandValue(decoded(w)) = i.value
  BY <1>3, <1>11, <1>12 DEF operandValue, LongValues
<1>14. Recovers(decoded(w), i)
  BY <1>12, <1>13 DEF Recovers
<1> QED BY <1>14 DEF w

LEMMA AssembledRecovered ==
  ASSUME NEW i, IsAssembly(i)
  PROVE  Recovers(decoded(encode(i)), i)
<1>1. i.name \in DOMAIN Rcode \cup DOMAIN Icode \cup DOMAIN Jcode
  BY DEF IsAssembly, LongValues, ShortValues, NoValues, Rnames, Rcode, Icode, Jcode
<1> QED BY <1>1, Rrecovered, Irecovered, Jrecovered

LEMMA SourceAssembles == \A i \in Source : IsAssembly(i)
BY FormsAssemble, SourceAssumption

\* Decoding is the inverse of assembling, for every instruction that has an
\* encoding: the name, the registers in their places, the value with its sign.
THEOREM DecodingInvertsAssembly == FactorySpec => []DecodesAssembly
<1>1. DecoderInv => DecodesAssembly
  <2> SUFFICES ASSUME DecoderInv, NEW i \in Source, instruction = encode(i)
               PROVE  Recovers(result, i)
    BY DEF DecodesAssembly, Recovers
  <2>1. instruction # NoResult
    <3>1. "op" \in DOMAIN encode(i)
      BY DEF encode
    <3>2. "op" \notin DOMAIN NoResult
      BY DEF NoResult
    <3> QED BY <3>1, <3>2
  <2>2. result = decoded(encode(i))
    BY <2>1 DEF DecoderInv
  <2> QED BY <2>2, SourceAssembles, AssembledRecovered
<1> QED BY <1>1, DecoderInvariance, PTL
=============================================================================

--------------------------- MODULE LockstepProofs ---------------------------
EXTENDS Lockstep, TomasuloProofs

(***************************************************************************)
(* The architecture beside the processor.                                  *)
(***************************************************************************)
\* Both machines have the same data and the same instruction classes.
LEMMA SameNames ==
  /\ D!Word = Word /\ D!Byte = Byte /\ D!WordMod = WordMod /\ D!WordBytes = WordBytes
  /\ D!LoadNames = LoadNames /\ D!StoreNames = StoreNames /\ D!BranchNames = BranchNames
  /\ D!IntegerNames = IntegerNames /\ D!FloatNames = FloatNames
  /\ D!AluNames = AluNames
BY DEF D!Word, Word, D!Byte, Byte, D!WordMod, WordMod, D!WordBytes, WordBytes,
   D!LoadNames, LoadNames, D!StoreNames, StoreNames, D!BranchNames, BranchNames,
   D!IntegerNames, IntegerNames, D!FloatNames, FloatNames, D!AluNames, AluNames

LEMMA SameData ==
  /\ \A m, a : D!wordAt(m, a) = wordAt(m, a)
  /\ \A w : D!toBytes(w) = toBytes(w)
  /\ \A m, a, b, n : D!stored(m, a, b, n) = stored(m, a, b, n)
  /\ \A w, a : D!decode(w, a) = decode(w, a)
<1>1. \A m, a : D!wordAt(m, a) = wordAt(m, a)
  BY DEF D!wordAt, wordAt, D!toWord, toWord
<1>2. \A w : D!toBytes(w) = toBytes(w)
  BY DEF D!toBytes, toBytes
<1>3. \A m, a, b, n : D!stored(m, a, b, n) = stored(m, a, b, n)
  BY DEF D!stored, stored
<1>4. \A n : /\ D!HasRd(n) = HasRd(n) /\ D!HasRs1(n) = HasRs1(n)
             /\ D!HasRs2(n) = HasRs2(n)
  BY SameNames DEF D!HasRd, HasRd, D!HasRs1, HasRs1, D!HasRs2, HasRs2
<1>5. \A w, a : D!decode(w, a) = decode(w, a)
  BY <1>4, SameNames DEF D!decode, decode
<1> QED BY <1>1, <1>2, <1>3, <1>5

LEMMA SameClasses ==
  /\ \A i : D!getType(i) = getType(i)
  /\ \A i : D!getDest(i) = getDest(i)
  /\ \A i, k : D!getArg(i, k) = getArg(i, k)
  /\ \A i, a : D!EffectiveAddress(i, a) = EffectiveAddress(i, a)
  /\ \A i, a : D!BranchResult(i, a) = BranchResult(i, a)
  /\ \A i, a, b : D!Compute(i, a, b) = Compute(i, a, b)
  /\ \A i, a, b : D!DivisionFaults(i, a, b) <=> DivisionFaults(i, a, b)
<1>1. \A i : D!getType(i) = getType(i)
  BY SameNames DEF D!getType, getType, D!getInstructionType, getInstructionType
<1>2. \A i : D!getDest(i) = getDest(i)
  BY SameNames DEF D!getDest, getDest
<1>3. \A i, k : D!getArg(i, k) = getArg(i, k)
  BY SameNames DEF D!getArg, getArg
<1>4. \A i, a : D!EffectiveAddress(i, a) = EffectiveAddress(i, a)
  BY SameNames DEF D!EffectiveAddress, EffectiveAddress
<1>5. \A i, a : D!BranchResult(i, a) = BranchResult(i, a)
  BY SameNames DEF D!BranchResult, BranchResult, D!getTarget, getTarget
<1>6. \A i, a, b : D!Compute(i, a, b) = Compute(i, a, b)
  BY SameNames DEF D!Compute, Compute
<1>7. \A i, a, b : D!DivisionFaults(i, a, b) <=> DivisionFaults(i, a, b)
  BY SameNames DEF D!DivisionFaults, DivisionFaults
<1> QED BY <1>1, <1>2, <1>3, <1>4, <1>5, <1>6, <1>7

\* The classes by their names.
LEMMA ClassFacts ==
  ASSUME NEW i
  PROVE  /\ i.name \in LoadNames \cup StoreNames => getType(i) = "Memory"
         /\ getType(i) = "Memory" => i.name \in LoadNames \cup StoreNames
         /\ i.name \in LoadNames => ~IsStore(i)
         /\ i.name = "TRAP" => getType(i) = "Trap"
         /\ i.name \in Names /\ getType(i) = "Trap" => i.name = "TRAP"
         /\ getType(i) = "Branch" => i.name \in BranchNames
         /\ getType(i) # "Branch" => i.name \notin BranchNames
<1>1. getType(i) \in {"Integer", "Branch", "Memory", "FloatingPoint", "Trap"}
  BY DEF getType, getInstructionType
<1> QED BY <1>1 DEF getType, getInstructionType, IsStore, Names, LoadNames, StoreNames,
           IntegerNames, BranchNames, FloatNames

\* The word an instruction i writes to its destination, from operands a and b.
SequentialValue(i, a, b) ==
  CASE i.name \in {"JAL", "JALR"} -> i.next
    [] i.name \in LoadNames       -> wordAt(dmem, EffectiveAddress(i, a))
    [] OTHER                      -> Compute(i, a, b)

\* What a step of the sequential machine does with instruction i of operands a
\* and b: it ends the program, or runs it.
SequentialEnd(i, a, b) ==
  \/ getType(i) = "Memory" /\ ~Accessible(EffectiveAddress(i, a))
  \/ DivisionFaults(i, a, b)

SequentialRun(i, a, b) ==
  /\ dstatus' = "running"
  /\ ~isHalt(i) /\ (PrintsText(i) => ~(a > MemSize))
  /\ dpc' = IF getType(i) = "Branch" THEN BranchResult(i, a)
            ELSE (dpc + WordBytes) % WordMod
  /\ dregs' = IF getDest(i) \notin {NoReg, R0}
              THEN [dregs EXCEPT ![getDest(i)] = SequentialValue(i, a, b)] ELSE dregs
  /\ dmem' = IF IsStore(i)
             THEN stored(dmem, EffectiveAddress(i, a), toBytes(b), WordBytes) ELSE dmem
  /\ dout' = IF i.name = "TRAP" /\ i.imm \in {1, 2, 3}
             THEN Append(dout, [kind |-> i.imm,
                                value |-> IF i.imm = 3 THEN stringAt(dmem, a) ELSE <<a>>])
             ELSE dout

LEMMA SequentialStep ==
  ASSUME D!DStep, NEW i, NEW a, NEW b,
         i = D!DInstruction, a = D!DOperand(1), b = D!DOperand(2)
  PROVE  /\ dstatus = "running"
         /\ dstatus' # "running" => UNCHANGED <<dpc, dregs, dmem, dout>>
         /\ dstatus' \in {"running", "halted", "fault", "undefined"}
         /\ dstatus' = "fault" <=> ~Accessible(dpc) \/ SequentialEnd(i, a, b)
         /\ dstatus' = "halted" => isHalt(i)
         /\ dstatus' = "running" => SequentialRun(i, a, b)
         /\ isHalt(i) /\ dstatus' # "fault" => dstatus' = "halted"
<1>1. D!DFault <=> ~Accessible(dpc) \/ SequentialEnd(i, a, b)
  BY SameClasses DEF D!DFault, SequentialEnd
<1>2. D!DResult(i) = SequentialValue(i, a, b)
  BY SameNames, SameData, SameClasses DEF D!DResult, SequentialValue
<1>3. D!DUndefined <=> PrintsText(i) /\ a > MemSize
  BY DEF D!DUndefined, PrintsText
<1>4. D!DNextPC(i) = IF getType(i) = "Branch" THEN BranchResult(i, a)
                     ELSE (dpc + WordBytes) % WordMod
  BY SameNames, SameClasses DEF D!DNextPC
<1>5. CASE D!DFault
  <2>1. dstatus = "running" /\ D!DStop("fault")
    BY <1>5 DEF D!DStep
  <2> QED BY <1>1, <1>5, <2>1 DEF D!DStop
<1>6. CASE ~D!DFault /\ isHalt(i)
  <2>1. dstatus = "running" /\ D!DStop("halted")
    BY <1>3, <1>6 DEF D!DStep, isHalt, PrintsText
  <2> QED BY <1>1, <1>6, <2>1 DEF D!DStop
<1>7. CASE ~D!DFault /\ ~isHalt(i) /\ D!DUndefined
  <2>1. dstatus = "running" /\ D!DStop("undefined")
    BY <1>7 DEF D!DStep, isHalt
  <2> QED BY <1>1, <1>7, <2>1 DEF D!DStop
<1>8. CASE ~D!DFault /\ ~isHalt(i) /\ ~D!DUndefined
  <2>1. dstatus = "running" /\ D!DExecute(i)
    BY <1>8 DEF D!DStep, isHalt
  <2>2. dstatus' = "running"
    BY <2>1 DEF D!DExecute
  <2>3. /\ dpc' = D!DNextPC(i)
        /\ dregs' = IF getDest(i) \notin {NoReg, R0}
                    THEN [dregs EXCEPT ![getDest(i)] = D!DResult(i)] ELSE dregs
    BY <2>1, SameClasses DEF D!DExecute
  <2>4. dmem' = IF IsStore(i)
                THEN stored(dmem, EffectiveAddress(i, a), toBytes(b), WordBytes) ELSE dmem
    BY <2>1, SameNames, SameData, SameClasses DEF D!DExecute, IsStore
  <2>5. dout' = IF i.name = "TRAP" /\ i.imm \in {1, 2, 3}
                THEN Append(dout, [kind |-> i.imm,
                                   value |-> IF i.imm = 3 THEN stringAt(dmem, a) ELSE <<a>>])
                ELSE dout
    BY <2>1 DEF D!DExecute
  <2>6. SequentialRun(i, a, b)
    BY <1>2, <1>3, <1>4, <1>8, <2>2, <2>3, <2>4, <2>5 DEF SequentialRun
  <2> QED BY <1>1, <1>8, <2>1, <2>2, <2>6
<1> QED BY <1>5, <1>6, <1>7, <1>8

\* A text is a sequence of words.
LEMMA TextWords ==
  ASSUME NEW m \in [Address -> Byte], NEW a \in Word
  PROVE  stringAt(m, a) \in Seq(Word)
<1>1. Byte \subseteq Word
  <2>1. ByteMod <= WordMod
    <3>1. ByteMod * ByteMod * ByteMod \in Nat \ {0} BY ByteAssumption
    <3>2. \A n \in Nat \ {0} : ByteMod <= n * ByteMod BY ByteAssumption
    <3> QED BY <3>1, <3>2 DEF WordMod
  <2> QED BY <2>1, ByteAssumption, WordModNat DEF Byte, Word
<1>2. a \in Nat BY WordModNat DEF Word
<1>3. stringAt(m, a) \in Seq(Byte) BY <1>2, Text
<1> QED BY <1>1, <1>3

\* The instruction sequential execution is at, and its operands, are well formed
\* where they can be read.
LEMMA SequentialInstr ==
  ASSUME DTypeOK, Accessible(dpc), NEW i, i = D!DInstruction
  PROVE  /\ Decoded(i) /\ i \in Instr
         /\ \A k \in Operands : D!DOperand(k) \in Word
<1>1. dpc \in Word /\ dmem \in [Address -> Byte] /\ dregs \in [Regs -> Word]
  BY SameNames DEF DTypeOK, D!DTypeOK, Address
<1>2. wordAt(dmem, dpc) \in Word
  BY <1>1, Readable
<1>3. i = decode(wordAt(dmem, dpc), dpc)
  BY SameData DEF D!DInstruction
<1>4. Decoded(i) /\ i \in Instr
  BY <1>1, <1>2, <1>3, DecodeInstr DEF Decoded
<1>5. 0 \in Word BY WordModNat DEF Word
<1>6. \A k \in Operands : getArg(i, k) \in Regs \cup {NoReg}
  BY <1>4, InstrFields
<1>7. \A k \in Operands : D!DOperand(k) \in Word
  BY <1>1, <1>5, <1>6, SameClasses DEF D!DOperand, D!DRead
<1> QED BY <1>4, <1>7

LEMMA SequentialTypes ==
  ASSUME DTypeOK, D!DStep \/ UNCHANGED dlxVars
  PROVE  DTypeOK'
<1>1. /\ dpc \in Word /\ dregs \in [Regs -> Word] /\ dmem \in [Address -> Byte]
      /\ dout \in Seq(Printed)
      /\ dstatus \in {"running", "halted", "fault", "undefined"}
  BY SameNames DEF DTypeOK, D!DTypeOK, Address
<1>2. SUFFICES /\ dpc' \in Word /\ dregs' \in [Regs -> Word]
               /\ dmem' \in [Address -> Byte] /\ dout' \in Seq(Printed)
               /\ dstatus' \in {"running", "halted", "fault", "undefined"}
  BY SameNames DEF DTypeOK, D!DTypeOK, Address
<1>3. CASE UNCHANGED dlxVars
  BY <1>1, <1>3 DEF dlxVars
<1>4. CASE D!DStep
  <2>1. PICK i, a, b : i = D!DInstruction /\ a = D!DOperand(1) /\ b = D!DOperand(2)
    OBVIOUS
  <2>2. CASE dstatus' # "running"
    BY <1>1, <1>4, <2>1, <2>2, SequentialStep
  <2>3. CASE dstatus' = "running"
    <3>1. Accessible(dpc) /\ ~SequentialEnd(i, a, b) /\ SequentialRun(i, a, b)
      BY <1>4, <2>1, <2>3, SequentialStep
    <3>2. i \in Instr /\ Decoded(i) /\ a \in Word /\ b \in Word
      BY <2>1, <3>1, SequentialInstr DEF Operands
    <3>3. /\ Compute(i, a, b) \in Word /\ BranchResult(i, a) \in Word
          /\ EffectiveAddress(i, a) \in Word
      BY <3>2, ComputeWord
    <3>4. dpc' \in Word
      <4>1. dpc \in Int BY <1>1, WordModNat DEF Word
      <4>2. (dpc + WordBytes) % WordMod \in Word BY <4>1, ModWord DEF WordBytes
      <4> QED BY <3>1, <3>3, <4>2 DEF SequentialRun
    <3>5. SequentialValue(i, a, b) \in Word
      <4>1. i.name \in LoadNames => Accessible(EffectiveAddress(i, a))
        BY <3>1, ClassFacts DEF SequentialEnd
      <4>2. i.name \in LoadNames => wordAt(dmem, EffectiveAddress(i, a)) \in Word
        BY <1>1, <3>3, <4>1, Readable
      <4>3. i.next \in Word BY <3>2 DEF Instr
      <4> QED BY <3>3, <4>2, <4>3 DEF SequentialValue
    <3>6. dregs' \in [Regs -> Word]
      BY <1>1, <3>1, <3>5 DEF SequentialRun
    <3>7. dmem' \in [Address -> Byte]
      BY <1>1, <3>1, <3>2, <3>3, Writable DEF SequentialRun
    <3>8. dout' \in Seq(Printed)
      <4>1. stringAt(dmem, a) \in Seq(Word) /\ <<a>> \in Seq(Word)
        BY <1>1, <3>2, TextWords
      <4>2. i.imm \in {1, 2, 3} =>
              [kind |-> i.imm, value |-> IF i.imm = 3 THEN stringAt(dmem, a) ELSE <<a>>]
                \in Printed
        BY <4>1 DEF Printed
      <4> QED BY <1>1, <3>1, <4>2 DEF SequentialRun
    <3> QED BY <2>3, <3>4, <3>6, <3>7, <3>8
  <2> QED BY <2>2, <2>3
<1> QED BY <1>3, <1>4

-----------------------------------------------------------------------------
(***************************************************************************)
(* What holds of every step.                                               *)
(***************************************************************************)
\* The processor is that of module Tomasulo.
LEMMA ProcessorStep == [LNext]_lockstepVars => [Next]_vars
BY DEF LNext, Consume, Other, LStopped, Stopped, lockstepVars, Next, Step

LEMMA DlxStep ==
  ASSUME [LNext]_lockstepVars
  PROVE  D!DStep \/ UNCHANGED dlxVars
BY DEF LNext, Consume, Other, LStopped, lockstepVars

\* What the history says is never taken back: a program that is clean was so.
LEMMA StaysClean ==
  ASSUME [LNext]_lockstepVars
  PROVE  /\ Clean' => Clean
         /\ Well' => Well
         /\ ~textRace' => ~textRace
<1>1. CASE Record
  <2>1. /\ ~overwritten' => ~overwritten
        /\ ~textRace' => ~textRace
        /\ ~codeRace' => ~codeRace
    BY <1>1 DEF Record, RecordWrites, RecordRaces
  <2>2. dstatus = "running" \/ dstatus' = dstatus
    BY DlxStep DEF D!DStep, dlxVars
  <2> QED
    BY <1>1, <2>2 DEF Record, RecordWrites, RecordRaces, Clean, Well
<1>2. CASE UNCHANGED lockstepVars
  BY <1>2 DEF lockstepVars, dlxVars, historyVars, Clean, Well
<1> QED BY <1>1, <1>2 DEF LNext, Consume, Other, LStopped

LEMMA WriterClocks ==
  ASSUME IInv, HistoryTypeOK, [LNext]_lockstepVars
  PROVE  lastWriter' \in [Regs -> Nat]
<1>1. lastWriter \in [Regs -> Nat] /\ \A s \in Stations : startClock[s] \in Nat
  BY DEF HistoryTypeOK, IInv, Coherent, TypeOK, StationTypeOK
<1>2. CASE UNCHANGED lockstepVars
  BY <1>1, <1>2 DEF lockstepVars, historyVars
<1>3. CASE Record
  <2>1. source # NoStation => source \in Stations
    BY DEF IInv, Coherent, TypeOK, StationTypeOK
  <2>2. \A r \in Regs : CommitsTo(r) => startClock[source] \in Nat
    BY <1>1, <2>1 DEF CommitsTo
  <2> QED BY <1>1, <1>3, <2>2 DEF Record, RecordWrites
<1> QED BY <1>2, <1>3 DEF LNext, Consume, Other, LStopped

\* run ends with nothing in flight.
LEMMA DoneHalted ==
  ASSUME EndsAlike, [LNext]_lockstepVars, phase' = "done"
  PROVE  halted' /\ functionalUnitsIdle'
<1>1. [Next]_vars BY ProcessorStep
<1>2. CASE UNCHANGED vars
  BY <1>2 DEF vars, loopVars, unitVars, functionalUnitsIdle, EndsAlike
<1>3. CASE Finish
  BY <1>3 DEF Finish, Working, functionalUnitsIdle, unitVars
<1>4. CASE Next /\ ~Finish /\ ~UNCHANGED vars
  <2>1. phase' # "done"
    BY <1>4 DEF Next, Step, Stopped, Advance, IssueStalled, IssueFault, IssueHalt,
       IssueFull, Issue, Execute, ExecuteAbort, ToWrite, Write, WriteAbort,
       EndCycle, ToExecute, Abort
  <2> QED BY <2>1
<1> QED BY <1>1, <1>2, <1>3, <1>4

\* Nothing else is claimed of a program that is not clean.
LEMMA Unclean ==
  ASSUME IInv, LInv, [LNext]_lockstepVars, ~Clean'
  PROVE  LInv'
<1>1. DTypeOK' BY DlxStep, SequentialTypes DEF LInv
<1>2. HistoryTypeOK' BY WriterClocks DEF LInv, HistoryTypeOK
<1>3. EndsAlike' BY DoneHalted DEF LInv, EndsAlike
<1>4. ~Well' BY DEF Well
<1> QED
  BY <1>1, <1>2, <1>3, <1>4 DEF LInv, OperandsComing, ResultsSequential,
     RegistersComing, FetchComing, MemoryComing, TextStays, OutputComing

-----------------------------------------------------------------------------
(***************************************************************************)
(* What holds in a state.                                                  *)
(***************************************************************************)
LEMMA Clocks ==
  ASSUME IInv
  PROVE  /\ \A s \in Stations : startClock[s] \in Nat
         /\ \A s \in Stations : Busy(s) => Decoded(instruction[s]) /\ instruction[s] \in Instr
         /\ \A s, t \in Stations : Busy(s) /\ Busy(t) => s = t \/ Older(s, t) \/ Older(t, s)
<1>1. \A s \in Stations : startClock[s] \in Nat
  BY DEF IInv, Coherent, TypeOK, StationTypeOK
<1>2. \A s \in Stations : Busy(s) => Decoded(instruction[s]) /\ instruction[s] \in Instr
  BY DEF IInv, Coherent, Bookkeeping, InstructionsDecoded, Decoded
<1>3. \A s, t \in Stations : Busy(s) /\ Busy(t) => s = t \/ Older(s, t) \/ Older(t, s)
  BY AgesDiffer DEF IInv
<1> QED BY <1>1, <1>2, <1>3

\* Without a fault all that is in flight is on course.
LEMMA WellOnCourse ==
  ASSUME LInv, Well, NEW s \in Stations, Busy(s)
  PROVE  OnCourse(s)
BY DEF LInv, EndsAlike, Well, OnCourse

\* So is whatever is older than what is.
LEMMA OlderOnCourse ==
  ASSUME IInv, NEW s \in Stations, OnCourse(s), NEW p \in Stations, Busy(p), Older(p, s)
  PROVE  OnCourse(p)
BY Clocks DEF OnCourse, Older

\* With a fault, something on course is about to meet it.
LEMMA OffCourse ==
  ASSUME IInv, LInv, Clean, phase # "aborted", NEW s \in Stations, Busy(s), ~OnCourse(s)
  PROVE  dstatus = "fault" /\ \E f \in Stations : OnCourse(f) /\ Faults(f) /\ Older(f, s)
<1>1. PICK t \in Stations : Busy(t) /\ Faults(t) /\ Older(t, s)
  BY DEF OnCourse
<1>2. dstatus = "fault"
  BY <1>1 DEF LInv, EndsAlike
<1>3. PICK f \in Stations : OnCourse(f) /\ Faults(f)
  BY <1>2 DEF LInv, EndsAlike
<1>4. ~Older(t, f) /\ Busy(f)
  BY <1>1, <1>3 DEF OnCourse
<1>5. Older(f, s)
  BY <1>1, <1>4, Clocks DEF Older
<1> QED BY <1>2, <1>3, <1>5

\* An instruction that no longer waits has the operands of sequential execution.
LEMMA OperandsReady ==
  ASSUME IInv, LInv, Clean, NEW s \in Stations, OnCourse(s), state[s] # "WaitingForArgs"
  PROVE  /\ arg[s][1] = operand[s][1] /\ arg[s][2] = operand[s][2]
         /\ operand[s][1] \in Word /\ operand[s][2] \in Word
<1>1. \A k \in Operands : argSource[s][k] = NoStation
  BY DEF IInv, Coherent, ListenersWait
<1>2. \A k \in Operands : arg[s][k] = operand[s][k] /\ operand[s][k] \in Word
  BY <1>1 DEF LInv, OperandsComing, HistoryTypeOK
<1> QED BY <1>2 DEF Operands

\* Nothing of a memory or trap unit is in front of what executes or writes.
LEMMA FirstOfUnit ==
  ASSUME IInv, NEW s \in Stations, Busy(s), list[s] \in {"executing", "writing"},
         getType(instruction[s]) \in {"Trap", "Memory"},
         NEW t \in Stations, Busy(t), getType(instruction[t]) = getType(instruction[s]),
         s # t
  PROVE  Older(s, t)
<1>1. unitOf[s] = getType(instruction[s]) /\ unitOf[t] = getType(instruction[t])
  BY DEF IInv, Coherent, Bookkeeping, InstructionsDecoded
<1>2. list[t] # "idle"
  BY DEF IInv, Coherent, ListsAgree, StatesOf
<1>3. ~Older(t, s)
  BY <1>1, <1>2 DEF IInv, UnitInv, UnitInOrder
<1> QED BY <1>3, Clocks

\* An access to memory that executes or writes finds the memory of sequential
\* execution.
LEMMA MemoryReady ==
  ASSUME IInv, LInv, Clean, NEW s \in Stations, OnCourse(s), Pending(s),
         getType(instruction[s]) = "Memory", list[s] \in {"executing", "writing"}
  PROVE  memory = image[s]
<1>1. \A t \in Stations : PendingStore(t) => ~Older(t, s)
  <2> SUFFICES ASSUME NEW t \in Stations, PendingStore(t), Older(t, s) PROVE FALSE
    OBVIOUS
  <2>1. Busy(t) /\ getType(instruction[t]) = "Memory"
    BY ClassFacts DEF PendingStore, Pending, IsStore
  <2>2. s # t
    BY Clocks DEF Older
  <2>3. Older(s, t)
    BY <2>1, <2>2, FirstOfUnit DEF OnCourse
  <2> QED BY <2>3, Clocks DEF Older
<1> QED BY <1>1 DEF LInv, MemoryComing

-----------------------------------------------------------------------------
(***************************************************************************)
(* What a step that issues nothing leaves as it was.                       *)
(***************************************************************************)
\* The station keeps its instruction and what is recorded of it.
Kept(s) ==
  /\ Busy(s) /\ Busy(s)'
  /\ instruction'[s] = instruction[s] /\ startClock'[s] = startClock[s]
  /\ operand'[s] = operand[s] /\ image'[s] = image[s] /\ printed'[s] = printed[s]

LEMMA KeptTerms ==
  ASSUME NEW s \in Stations, Kept(s)
  PROVE  /\ Faults(s)' <=> Faults(s)
         /\ Value(s)' = Value(s)
         /\ MemoryAfter(s)' = MemoryAfter(s)
         /\ OutputAfter(s)' = OutputAfter(s)
<1>1. Faults(s)' <=> Faults(s)
  BY DEF Kept, Faults
<1>2. Value(s)' = Value(s)
  BY DEF Kept, Value
<1>3. MemoryAfter(s)' = MemoryAfter(s)
  BY DEF Kept, MemoryAfter
<1>4. OutputAfter(s)' = OutputAfter(s)
  BY DEF Kept, OutputAfter
<1> QED BY <1>1, <1>2, <1>3, <1>4

\* Nothing is issued: what is in flight was so before, and on course if it is now.
NothingIssued ==
  /\ \A s \in Stations : Busy(s)' => Kept(s)
  /\ \A s \in Stations : OnCourse(s)' => OnCourse(s)

LEMMA StationsKept ==
  ASSUME IInv, Record, UNCHANGED <<list, instruction, startClock>>
  PROVE  /\ \A s \in Stations : Busy(s) => Kept(s)
         /\ \A s \in Stations : OnCourse(s)' <=> OnCourse(s)
         /\ NothingIssued
<1>1. \A s \in Stations : Busy(s)' <=> Busy(s)
  BY DEF Busy
<1>2. \A s \in Stations : Busy(s) => Kept(s)
  <2> SUFFICES ASSUME NEW s \in Stations, Busy(s) PROVE Kept(s)
    OBVIOUS
  <2>1. ~Issued(s) /\ list'[s] # "idle"
    BY DEF Issued, IInv, Coherent, ListsAgree, StatesOf
  <2>2. operand'[s] = operand[s] /\ image'[s] = image[s] /\ printed'[s] = printed[s]
    BY <2>1 DEF Record, RecordOperands
  <2> QED BY <1>1, <2>2 DEF Kept
<1>3. \A s, t \in Stations : Older(s, t)' <=> Older(s, t)
  BY DEF Older
<1>4. \A s \in Stations : OnCourse(s)' <=> OnCourse(s)
  <2>1. \A s \in Stations : Busy(s) => (Faults(s)' <=> Faults(s))
    BY <1>2, KeptTerms
  <2> QED BY <1>1, <1>3, <2>1 DEF OnCourse
<1> QED BY <1>1, <1>2, <1>4 DEF NothingIssued

\* A step that does not commit a result.
LEMMA WritersKept ==
  ASSUME HistoryTypeOK, Record, phase # "write" \/ phase' # "loop" \/ source = NoStation
  PROVE  lastWriter' = lastWriter
<1>1. \A r \in Regs : ~CommitsTo(r)
  BY DEF CommitsTo
<1> QED BY <1>1 DEF Record, RecordWrites, HistoryTypeOK

-----------------------------------------------------------------------------
LEMMA KeepsHistory ==
  ASSUME LInv, Clean, NothingIssued, lastWriter' \in [Regs -> Nat]
  PROVE  HistoryTypeOK'
<1>1. \A s \in Stations : OnCourse(s)' => OnCourse(s) /\ Kept(s)
  BY DEF NothingIssued, OnCourse
<1> QED BY <1>1 DEF Kept, LInv, HistoryTypeOK

LEMMA KeepsOperands ==
  ASSUME IInv', LInv, Clean, NothingIssued,
         \A s \in Stations : Busy(s)' => arg'[s] = arg[s] /\ argSource'[s] = argSource[s]
  PROVE  OperandsComing'
<1> SUFFICES ASSUME NEW s \in Stations, NEW k \in Operands, OnCourse(s)'
             PROVE  /\ argSource'[s][k] = NoStation => arg'[s][k] = operand'[s][k]
                    /\ \A p \in Stations :
                         argSource'[s][k] = p => operand'[s][k] = Value(p)'
  BY DEF OperandsComing
<1>1. Busy(s)' /\ OnCourse(s) /\ Kept(s)
  BY DEF NothingIssued, OnCourse
<1>2. /\ argSource'[s] = argSource[s] /\ arg'[s] = arg[s]
      /\ operand'[s] = operand[s]
  BY <1>1 DEF Kept
<1>3. ASSUME NEW p \in Stations, argSource[s][k] = p
      PROVE  operand[s][k] = Value(p)'
  <2>1. Busy(p)'
    BY <1>2, <1>3, StationsAssumption DEF IInv, Coherent, ProducerInFlight
  <2>2. Value(p)' = Value(p)
    BY <2>1, KeptTerms DEF NothingIssued
  <2> QED BY <1>1, <1>3, <2>2 DEF LInv, OperandsComing
<1> QED BY <1>1, <1>2, <1>3 DEF LInv, OperandsComing

LEMMA KeepsResults ==
  ASSUME LInv, Clean, NothingIssued, source' \in {source, NoStation},
         \A s \in Stations : Busy(s)' =>
           /\ result'[s] = result[s]
           /\ state'[s] \in {"ExecutionComplete", "Writing", "WriteComplete"} =>
                state[s] \in {"ExecutionComplete", "Writing", "WriteComplete"}
  PROVE  ResultsSequential'
<1>1. \A s \in Stations : OnCourse(s)' =>
        /\ Busy(s)' /\ OnCourse(s) /\ Kept(s) /\ Value(s)' = Value(s)
  BY KeptTerms DEF NothingIssued, OnCourse
<1> QED BY <1>1, StationsAssumption DEF Kept, LInv, ResultsSequential

LEMMA KeepsRegisters ==
  ASSUME IInv', LInv, Well' => Well, NothingIssued,
         UNCHANGED <<registers, renameRegisters, lastWriter>>, Well' => dregs' = dregs,
         \A s \in Stations : Busy(s)' /\ state'[s] = "WriteComplete" =>
           state[s] = "WriteComplete" \/ ~WritesRegister(instruction[s])
  PROVE  RegistersComing'
<1> SUFFICES ASSUME Well', Well, NEW r \in Regs
             PROVE  /\ renameRegisters[r] = NoStation =>
                         /\ registers[r] = dregs[r]
                         /\ \A q \in Stations :
                              r # R0 /\ Busy(q)' /\ getDest(instruction'[q]) = r
                                => startClock'[q] < lastWriter[r]
                    /\ \A p \in Stations :
                         renameRegisters[r] = p =>
                           /\ dregs[r] = Value(p)'
                           /\ state'[p] = "WriteComplete" =>
                                registers[r] = Value(p)' /\ lastWriter[r] = startClock'[p]
  BY DEF RegistersComing
<1>1. CASE renameRegisters[r] = NoStation
  BY <1>1, StationsAssumption DEF NothingIssued, Kept, LInv, RegistersComing
<1>2. ASSUME NEW p \in Stations, renameRegisters[r] = p
      PROVE  /\ dregs[r] = Value(p)'
             /\ state'[p] = "WriteComplete" =>
                  registers[r] = Value(p)' /\ lastWriter[r] = startClock'[p]
  <2>1. Busy(p)' /\ getDest(instruction'[p]) = r
    BY <1>2, StationsAssumption DEF IInv, Coherent, RenamedToYoungest
  <2>2. Kept(p) /\ Value(p)' = Value(p)
    BY <2>1, KeptTerms DEF NothingIssued
  <2>3. WritesRegister(instruction[p])
    <3>1. Decoded(instruction'[p])
      BY <2>1 DEF IInv, Coherent, Bookkeeping, InstructionsDecoded
    <3> QED BY <2>1, <2>2, <3>1, InstrFields, RegsAssumption DEF Kept
  <2>4. startClock'[p] = startClock[p]
    BY <2>2 DEF Kept
  <2> QED BY <1>2, <2>1, <2>2, <2>3, <2>4 DEF LInv, RegistersComing
<1> QED BY <1>1, <1>2, StationsAssumption DEF LInv, RegistersComing

LEMMA KeepsFetch ==
  ASSUME LInv, Well' => Well, NothingIssued, UNCHANGED <<pc, stallIssue>>,
         Well' => dpc' = dpc,
         \A s \in Stations : Busy(s)' /\ state[s] = "WriteComplete" => state'[s] = "WriteComplete"
  PROVE  FetchComing'
<1>1. \A s \in Stations : Unresolved(s)' =>
        /\ Unresolved(s) /\ Kept(s)
  BY DEF NothingIssued, Kept, Unresolved
<1> QED BY <1>1 DEF LInv, FetchComing, Kept

\* The stores to come are the same, and no access is new.
LEMMA KeepsMemory ==
  ASSUME LInv, Clean, Well' => Well, NothingIssued, UNCHANGED memory,
         Well' => dmem' = dmem,
         \A s \in Stations : Busy(s)' /\ state[s] = "WriteComplete" => state'[s] = "WriteComplete",
         \A s \in Stations : PendingStore(s) => PendingStore(s)'
  PROVE  MemoryComing'
<1>1. \A s \in Stations : Pending(s)' => Pending(s) /\ Kept(s)
  BY DEF NothingIssued, Kept, Pending
<1>2. \A s \in Stations : PendingStore(s)' <=> PendingStore(s)
  BY <1>1 DEF PendingStore, Kept
<1>3. \A s \in Stations : PendingStore(s) => Kept(s) /\ MemoryAfter(s)' = MemoryAfter(s)
  BY <1>1, <1>2, KeptTerms DEF PendingStore
<1>4. \A s, t \in Stations : Kept(s) /\ Kept(t) => (Older(s, t)' <=> Older(s, t))
  BY DEF Kept, Older
<1>5. {s \in Stations : PendingStore(s)}' = {s \in Stations : PendingStore(s)}
  BY <1>2
<1>6. ASSUME NEW t \in Stations, OnCourse(t)', Pending(t)',
             getType(instruction'[t]) = "Memory"
      PROVE  LET earlier == {s \in Stations : PendingStore(s)' /\ Older(s, t)'} IN
             /\ earlier = {} => memory' = image'[t]
             /\ \A s \in earlier :
                  (\A x \in earlier : ~Older(s, x)') => image'[t] = MemoryAfter(s)'
  <2>1. /\ OnCourse(t) /\ Pending(t) /\ Kept(t) /\ image'[t] = image[t]
        /\ getType(instruction[t]) = "Memory"
    BY <1>1, <1>6 DEF NothingIssued, Kept
  <2>2. PICK E : E = {s \in Stations : PendingStore(s) /\ Older(s, t)}
    OBVIOUS
  <2>3. E = {s \in Stations : PendingStore(s)' /\ Older(s, t)'}
    BY <1>2, <1>3, <1>4, <2>1, <2>2
  <2>4. \A s, x \in E : Older(s, x)' <=> Older(s, x)
    BY <1>3, <1>4, <2>2
  <2>5. /\ E = {} => memory = image[t]
        /\ \A s \in E : (\A x \in E : ~Older(s, x)) => image[t] = MemoryAfter(s)
    BY <2>1, <2>2 DEF LInv, MemoryComing
  <2>6. \A s \in E : MemoryAfter(s)' = MemoryAfter(s)
    BY <1>3, <2>2
  <2> QED BY <2>1, <2>3, <2>4, <2>5, <2>6
<1>7. ASSUME Well'
      PROVE  LET stores == {s \in Stations : PendingStore(s)'} IN
             /\ stores = {} => memory' = dmem'
             /\ \A s \in stores : (\A x \in stores : ~Older(s, x)') => dmem' = MemoryAfter(s)'
  <2>1. PICK S : S = {s \in Stations : PendingStore(s)}
    OBVIOUS
  <2>2. S = {s \in Stations : PendingStore(s)'}
    BY <1>2, <2>1
  <2>3. \A s, x \in S : Older(s, x)' <=> Older(s, x)
    BY <1>3, <1>4, <2>1
  <2>4. /\ S = {} => memory = dmem
        /\ \A s \in S : (\A x \in S : ~Older(s, x)) => dmem = MemoryAfter(s)
    BY <1>7, <2>1 DEF LInv, MemoryComing
  <2>5. \A s \in S : MemoryAfter(s)' = MemoryAfter(s)
    BY <1>3, <2>1
  <2> QED BY <1>7, <2>2, <2>3, <2>4, <2>5
<1> QED BY <1>6, <1>7 DEF MemoryComing

LEMMA KeepsText ==
  ASSUME LInv, Well' => Well, ~textRace' => ~textRace, NothingIssued,
         Well' => dmem' = dmem,
         \A s \in Stations : Busy(s)' /\ state[s] = "WriteComplete" => state'[s] = "WriteComplete"
  PROVE  TextStays'
<1>1. \A s \in Stations : Pending(s)' => Pending(s) /\ Kept(s)
  BY DEF NothingIssued, Kept, Pending
<1>2. \A s \in Stations : PendingStore(s)' => PendingStore(s)
  BY <1>1 DEF PendingStore, Kept
<1> QED BY <1>1, <1>2 DEF LInv, TextStays, Kept

LEMMA KeepsOutput ==
  ASSUME LInv, Well' => Well, ~textRace' => ~textRace, NothingIssued,
         UNCHANGED output, Well' => dout' = dout,
         \A s \in Stations : Unprinted(s)' <=> Unprinted(s)
  PROVE  OutputComing'
<1> SUFFICES ASSUME Well', Well, ~textRace', ~textRace, NEW T,
                    T = {s \in Stations : Unprinted(s)}
             PROVE  /\ IsPrefix(output, dout)
                    /\ \A s \in T : IsPrefix(OutputAfter(s)', dout)
                    /\ T = {} => output = dout
                    /\ \A s \in T : (\A x \in T : ~Older(s, x)') => dout = OutputAfter(s)'
                    /\ \A t \in T :
                         LET earlier == {s \in T : Older(s, t)'} IN
                         /\ earlier = {} => output = printed'[t]
                         /\ \A s \in earlier :
                              (\A x \in earlier : ~Older(s, x)') => printed'[t] = OutputAfter(s)'
  <2>1. {s \in Stations : Unprinted(s)}' = {s \in Stations : Unprinted(s)}
    OBVIOUS
  <2> QED BY <2>1 DEF OutputComing
<1>1. \A s \in T : Kept(s) /\ OutputAfter(s)' = OutputAfter(s) /\ printed'[s] = printed[s]
  <2>1. \A s \in T : s \in Stations /\ Busy(s)'
    BY DEF Unprinted
  <2> QED BY <2>1, KeptTerms DEF NothingIssued, Kept
<1>2. \A s, t \in T : Older(s, t)' <=> Older(s, t)
  BY <1>1 DEF Kept, Older
<1>3. /\ IsPrefix(output, dout)
      /\ \A s \in T : IsPrefix(OutputAfter(s), dout)
      /\ T = {} => output = dout
      /\ \A s \in T : (\A x \in T : ~Older(s, x)) => dout = OutputAfter(s)
      /\ \A t \in T :
           /\ {s \in T : Older(s, t)} = {} => output = printed[t]
           /\ \A s \in {s \in T : Older(s, t)} :
                (\A x \in {z \in T : Older(z, t)} : ~Older(s, x)) => printed[t] = OutputAfter(s)
  BY DEF LInv, OutputComing
<1>4. \A t \in T : {s \in T : Older(s, t)'} = {s \in T : Older(s, t)}
  BY <1>2
<1> QED BY <1>1, <1>2, <1>3, <1>4

\* What ends the program stays in flight until it does.
LEMMA KeepsEnd ==
  ASSUME LInv, [LNext]_lockstepVars, Clean, Clean', NothingIssued, phase # "aborted",
         UNCHANGED <<halted, dstatus>>,
         \A s \in Stations : OnCourse(s) /\ Faults(s) => OnCourse(s)',
         \A s \in Stations : OnCourse(s) /\ Faults(s) /\ OnCourse(s)' =>
           /\ state'[s] # "WriteComplete"
           /\ state'[s] \in {"ExecutionComplete", "Writing"} => IsStore(instruction[s]),
         phase' = "aborted" => dstatus = "fault"
  PROVE  EndsAlike'
<1>1. \A s \in Stations : Busy(s)' =>
        Busy(s) /\ Kept(s) /\ (Faults(s)' <=> Faults(s))
  BY KeptTerms DEF NothingIssued, Kept
<1>2. \A s \in Stations : OnCourse(s)' => OnCourse(s) /\ Busy(s)'
  BY DEF NothingIssued, OnCourse
<1>3. phase' = "done" => halted' /\ functionalUnitsIdle'
  BY DoneHalted DEF LInv
<1>4. dstatus = "fault" => \E f \in Stations : OnCourse(f)' /\ Faults(f)'
  <2> SUFFICES ASSUME dstatus = "fault"
               PROVE  \E f \in Stations : OnCourse(f)' /\ Faults(f)'
    OBVIOUS
  <2>1. PICK f \in Stations : OnCourse(f) /\ Faults(f)
    BY DEF LInv, EndsAlike
  <2>2. OnCourse(f)'
    BY <2>1
  <2>3. Faults(f)'
    BY <1>1, <1>2, <2>1, <2>2
  <2> QED BY <2>2, <2>3
<1>5. dstatus # "fault" => /\ \A s \in Stations : Busy(s)' => ~Faults(s)'
                           /\ halted <=> dstatus = "halted"
  BY <1>1 DEF LInv, EndsAlike
<1>6. \A s \in Stations : OnCourse(s)' /\ Faults(s)' =>
        /\ state'[s] # "WriteComplete"
        /\ state'[s] \in {"ExecutionComplete", "Writing"} => IsStore(instruction'[s])
  BY <1>1, <1>2 DEF Kept
<1>7. \A s \in Stations :
        OnCourse(s)' /\ PrintsText(instruction'[s]) => operand'[s][1] <= MemSize
  BY <1>1, <1>2 DEF Kept, LInv, EndsAlike
<1> QED BY <1>3, <1>4, <1>5, <1>6, <1>7 DEF EndsAlike

\* A step that leaves stations, bus, registers and memory alone.
Undisturbed ==
  UNCHANGED <<memory, registers, renameRegisters, instruction, state, startClock, arg,
              argSource, result, source, output, list, pc, stallIssue>>

LEMMA QuietStep ==
  ASSUME IInv, IInv', LInv, [LNext]_lockstepVars, Clean, Clean', Record, Undisturbed,
         UNCHANGED <<dpc, dregs, dmem, dout>>, EndsAlike',
         phase # "write" \/ phase' # "loop" \/ source = NoStation
  PROVE  LInv'
<1>1. NothingIssued
  BY StationsKept DEF Undisturbed
<1>2. (Well' => Well) /\ (~textRace' => ~textRace)
  BY StaysClean
<1>3. DTypeOK' BY DlxStep, SequentialTypes DEF LInv
<1>4. lastWriter' = lastWriter /\ lastWriter' \in [Regs -> Nat]
  BY WritersKept DEF LInv, HistoryTypeOK
<1>5. \A s \in Stations : PendingStore(s) => PendingStore(s)'
  BY DEF Undisturbed, PendingStore, Pending, Busy
<1>6. \A s \in Stations : Unprinted(s)' <=> Unprinted(s)
  BY DEF Undisturbed, Unprinted, Busy
<1>7. HistoryTypeOK' BY <1>1, <1>4, KeepsHistory
<1>8. OperandsComing' BY <1>1, KeepsOperands DEF Undisturbed
<1>9. ResultsSequential' BY <1>1, KeepsResults DEF Undisturbed
<1>10. RegistersComing' BY <1>1, <1>2, <1>4, KeepsRegisters DEF Undisturbed
<1>11. FetchComing' BY <1>1, <1>2, KeepsFetch DEF Undisturbed
<1>12. MemoryComing' BY <1>1, <1>2, <1>5, KeepsMemory DEF Undisturbed
<1>13. TextStays' BY <1>1, <1>2, KeepsText DEF Undisturbed
<1>14. OutputComing' BY <1>1, <1>2, <1>6, KeepsOutput DEF Undisturbed
<1> QED BY <1>3, <1>7, <1>8, <1>9, <1>10, <1>11, <1>12, <1>13, <1>14 DEF LInv

\* The sequential machine stands still, and the program is not aborted.
LEMMA QuietEnd ==
  ASSUME IInv, LInv, [LNext]_lockstepVars, Clean, Clean', Record, Undisturbed,
         phase # "aborted", UNCHANGED halted, dstatus' = dstatus,
         phase' = "aborted" => dstatus = "fault"
  PROVE  EndsAlike'
<1>1. NothingIssued /\ \A s \in Stations : OnCourse(s)' <=> OnCourse(s)
  BY StationsKept DEF Undisturbed
<1>2. \A s \in Stations : OnCourse(s) /\ Faults(s) =>
        /\ state'[s] # "WriteComplete"
        /\ state'[s] \in {"ExecutionComplete", "Writing"} => IsStore(instruction[s])
  BY DEF Undisturbed, LInv, EndsAlike
<1> QED BY <1>1, <1>2, KeepsEnd

-----------------------------------------------------------------------------
(***************************************************************************)
(* The steps of the processor.                                             *)
(***************************************************************************)
\* An instruction that throws, or is trapped, does so in sequential execution.
LEMMA ExecuteFaultsAlike ==
  ASSUME IInv, LInv, Clean, phase # "aborted", NEW s \in Stations, Busy(s),
         state[s] # "WaitingForArgs", executeFaults(s)
  PROVE  dstatus = "fault"
<1>1. CASE ~OnCourse(s)
  BY <1>1, OffCourse
<1>2. CASE OnCourse(s)
  <2>1. arg[s][1] = operand[s][1] /\ arg[s][2] = operand[s][2] /\ operand[s][1] \in Word
    BY <1>2, OperandsReady
  <2>2. ~(PrintsText(instruction[s]) /\ arg[s][1] > MemSize)
    <3>1. operand[s][1] \in Int /\ MemSize \in Int
      BY <2>1, WordModNat, SizeAssumption DEF Word, MemSize, WordBytes
    <3> QED BY <1>2, <2>1, <3>1 DEF LInv, EndsAlike
  <2>3. Faults(s)
    BY <2>1, <2>2, ClassFacts DEF executeFaults, Faults, PrintsText
  <2> QED BY <1>2, <2>3 DEF LInv, EndsAlike, OnCourse
<1> QED BY <1>1, <1>2

\* So does a store that throws.
LEMMA WriteFaultsAlike ==
  ASSUME IInv, LInv, Clean, phase # "aborted", NEW s \in Stations, Busy(s),
         state[s] = "Writing", writeFaults(s)
  PROVE  dstatus = "fault"
<1>1. CASE ~OnCourse(s)
  BY <1>1, OffCourse
<1>2. CASE OnCourse(s)
  <2>1. result[s] = EffectiveAddress(instruction[s], operand[s][1])
    BY <1>2 DEF writeFaults, LInv, ResultsSequential
  <2>2. instruction[s].name \in StoreNames
    BY DEF writeFaults, getWriteAction
  <2>3. Faults(s)
    BY <2>1, <2>2, ClassFacts DEF writeFaults, Faults
  <2> QED BY <1>2, <2>3 DEF LInv, EndsAlike, OnCourse
<1> QED BY <1>1, <1>2

\* Steps in which neither machine does anything but abort.
LEMMA OtherQuiet ==
  ASSUME IInv, IInv', LInv, [LNext]_lockstepVars, Clean, Clean', Record, UNCHANGED dlxVars,
         \/ Finish \/ IssueStalled \/ IssueFull \/ ToWrite
         \/ EndCycle /\ source = NoStation
         \/ \E s \in Stations :
              ExecuteAbort(s) \/ WriteAbort(s) \/ (Execute(s) /\ ExecuteCycle(s))
  PROVE  LInv'
<1> USE DEF memoryVars, stationVars, busVars, fetchVars, unitVars
<1>1. /\ Undisturbed /\ UNCHANGED halted
      /\ phase # "aborted"
      /\ phase # "write" \/ phase' # "loop" \/ source = NoStation
      /\ phase' = "aborted" => \E s \in Stations : ExecuteAbort(s) \/ WriteAbort(s)
  BY DEF Finish, IssueStalled, IssueFull, canIssue, ToExecute, ToWrite, EndCycle, Commit,
     ExecuteAbort, ExecuteFault, WriteAbort, Abort, Execute, ExecuteCycle, Undisturbed
<1>2. phase' = "aborted" => dstatus = "fault"
  <2> SUFFICES ASSUME NEW s \in Stations, ExecuteAbort(s) \/ WriteAbort(s)
               PROVE  dstatus = "fault"
    BY <1>1
  <2>1. CASE ExecuteAbort(s)
    <3>1. s \in todo /\ phase = "execute" /\ executeFaults(s)
      BY <2>1 DEF ExecuteAbort, ExecuteFault
    <3>2. Busy(s) /\ state[s] # "WaitingForArgs"
      BY <3>1 DEF IInv, Coherent, Bookkeeping, TodoInList, ListsAgree, StatesOf
    <3> QED BY <3>1, <3>2, ExecuteFaultsAlike
  <2>2. CASE WriteAbort(s)
    <3>1. s \in todo /\ phase = "write" /\ writeFaults(s)
      BY <2>2 DEF WriteAbort
    <3>2. Busy(s) /\ state[s] = "Writing"
      BY <3>1 DEF IInv, Coherent, Bookkeeping, TodoInList, ListsAgree
    <3> QED BY <3>1, <3>2, WriteFaultsAlike
  <2> QED BY <2>1, <2>2
<1>3. UNCHANGED <<dpc, dregs, dmem, dout, dstatus>>
  BY DEF dlxVars
<1>4. EndsAlike'
  BY <1>1, <1>2, <1>3, QuietEnd
<1> QED BY <1>1, <1>3, <1>4, QuietStep

-----------------------------------------------------------------------------
\* What an instruction on course computes is what sequential execution does.
LEMMA ResultComputed ==
  ASSUME IInv, LInv, Clean, NEW s \in Stations, OnCourse(s),
         state[s] = "Executing", list[s] = "executing",
         executeFaults(s) => instruction[s].name = "TRAP"
  PROVE  LET action == getWriteAction(instruction[s]) IN
         /\ action = "Register" => executeResult(s) = Value(s)
         /\ action = "PC"       => executeResult(s) = BranchResult(instruction[s], operand[s][1])
         /\ action = "Memory"   => executeResult(s) = EffectiveAddress(instruction[s],
                                                                      operand[s][1])
<1> DEFINE i == instruction[s]
<1>1. arg[s][1] = operand[s][1] /\ arg[s][2] = operand[s][2]
  BY OperandsReady
<1>2. i \in Instr /\ Busy(s) /\ i.name \in Names
  BY Clocks DEF OnCourse, Instr
<1>3. /\ getType(i) = "Branch" => executeResult(s) = BranchResult(i, operand[s][1])
      /\ i.name \in StoreNames => executeResult(s) = EffectiveAddress(i, operand[s][1])
      /\ i.name \in LoadNames =>
           executeResult(s) = wordAt(memory, EffectiveAddress(i, operand[s][1]))
      /\ getType(i) \in {"Integer", "FloatingPoint"} =>
           executeResult(s) = Compute(i, operand[s][1], operand[s][2])
  <2> HIDE DEF i
  <2>1. /\ i.name \in LoadNames => i.name \notin StoreNames
        /\ i.name \in LoadNames \cup StoreNames => getType(i) = "Memory"
        /\ getType(i) = "Memory" => i.name \in LoadNames \cup StoreNames
    BY ClassFacts DEF IsStore
  <2>2. executeResult(s) =
          CASE getType(i) = "Branch"    -> BranchResult(i, operand[s][1])
            [] i.name \in LoadNames     -> wordAt(memory, EffectiveAddress(i, operand[s][1]))
            [] i.name \in StoreNames    -> EffectiveAddress(i, operand[s][1])
            [] getType(i) = "Trap"      -> 0
            [] OTHER                    -> Compute(i, operand[s][1], operand[s][2])
    BY <1>1 DEF executeResult, readUWord, i
  <2> QED BY <2>1, <2>2
<1>4. CASE getWriteAction(i) = "PC"
  <2>1. getType(i) = "Branch" BY <1>2, <1>4, ActionOfType
  <2>2. executeResult(s) = BranchResult(i, operand[s][1]) BY <1>3, <2>1
  <2> QED BY <1>4, <2>2
<1>5. CASE getWriteAction(i) = "Memory"
  <2>1. i.name \in StoreNames /\ i.name \notin LoadNames
    BY <1>5 DEF getWriteAction, LoadNames, StoreNames
  <2>2. getType(i) # "Branch" BY <1>2, <1>5, ActionOfType
  <2>3. executeResult(s) = EffectiveAddress(i, operand[s][1]) BY <1>3, <2>1, <2>2
  <2> QED BY <1>5, <2>3
<1>6. CASE getWriteAction(i) = "Register"
  <2>1. /\ i.name \notin StoreNames \cup BranchNames \cup {"TRAP", "JAL", "JALR"}
    BY <1>6 DEF getWriteAction, StoreNames, BranchNames
  <2>2. getType(i) # "Branch" /\ getType(i) # "Trap"
    BY <1>2, <2>1, ClassFacts
  <2>3. CASE i.name \in LoadNames
    <3>1. getType(i) = "Memory" BY <2>3, ClassFacts
    <3>2. memory = image[s]
      BY <1>2, <3>1, MemoryReady DEF Pending
    <3>3. executeResult(s) = wordAt(image[s], EffectiveAddress(i, operand[s][1]))
      BY <1>3, <2>2, <2>3, <3>2
    <3> QED BY <1>6, <2>1, <2>3, <3>3 DEF Value
  <2>4. CASE i.name \notin LoadNames
    <3>1. getType(i) \in Types /\ getType(i) # "Memory"
      BY <1>2, <2>1, <2>4, Clocks, InstrFields, ClassFacts
    <3>2. executeResult(s) = Compute(i, operand[s][1], operand[s][2])
      BY <1>3, <2>2, <3>1 DEF Types
    <3> QED BY <1>6, <2>1, <2>4, <3>2 DEF Value
  <2> QED BY <2>3, <2>4
<1> QED BY <1>4, <1>5, <1>6

\* A TRAP prints what sequential execution prints, after what that has printed.
LEMMA TrapPrints ==
  ASSUME IInv, LInv, Well, ~textRace, NEW s \in Stations, Unprinted(s),
         state[s] = "Executing", list[s] = "executing", trapOutput(s)
  PROVE  /\ output' = OutputAfter(s)
         /\ \A x \in Stations : Unprinted(x) => x = s \/ Older(s, x)
<1> DEFINE i == instruction[s]
<1>1. Busy(s) /\ OnCourse(s) /\ getType(i) = "Trap" /\ Clean
  BY WellOnCourse DEF Unprinted, Well
<1>2. i.name = "TRAP"
  BY <1>1, Clocks, ClassFacts DEF Instr
<1>3. \A x \in Stations : Unprinted(x) => x = s \/ Older(s, x)
  BY <1>1, FirstOfUnit DEF Unprinted
<1>4. output = printed[s]
  <2>1. \A x \in Stations : Unprinted(x) => ~Older(x, s)
    BY <1>3, Clocks DEF Older
  <2> QED BY <2>1 DEF LInv, OutputComing
<1>5. arg[s][1] = operand[s][1] /\ operand[s][1] \in Word
  BY <1>1, OperandsReady
<1>6. i.imm = 3 => stringAt(memory, arg[s][1]) = stringAt(image[s], operand[s][1])
                   /\ operand[s][1] <= MemSize
  <2> SUFFICES ASSUME i.imm = 3
               PROVE  memory = image[s] /\ operand[s][1] <= MemSize
    BY <1>5
  <2>1. PrintsText(i) /\ Pending(s)
    BY <1>1, <1>2 DEF PrintsText, Pending
  <2>2. image[s] = dmem /\ \A x \in Stations : ~PendingStore(x)
    BY <2>1 DEF LInv, TextStays
  <2>3. memory = dmem
    BY <1>1, <2>2 DEF LInv, MemoryComing
  <2> QED BY <1>1, <2>1, <2>2, <2>3 DEF LInv, EndsAlike
<1>7. i.imm \in {1, 2, 3} =>
        trapValues(s) = {IF i.imm = 3 THEN stringAt(image[s], operand[s][1])
                         ELSE <<operand[s][1]>>}
  BY <1>5, <1>6 DEF trapValues, readString
<1>8. output' = OutputAfter(s)
  BY <1>2, <1>4, <1>7 DEF trapOutput, OutputAfter
<1> QED BY <1>3, <1>8

\* The first TRAP of those to print has printed.
LEMMA PrintedNext ==
  ASSUME IInv, LInv, Well' => Well, ~textRace' => ~textRace, NothingIssued,
         UNCHANGED dout, NEW s \in Stations, Unprinted(s),
         state[s] = "Executing", list[s] = "executing", trapOutput(s),
         \A x \in Stations : Unprinted(x)' <=> Unprinted(x) /\ x # s
  PROVE  OutputComing'
<1> SUFFICES ASSUME Well', Well, ~textRace', ~textRace, NEW T, NEW U,
                    T = {x \in Stations : Unprinted(x)}, U = T \ {s}
             PROVE  /\ IsPrefix(output', dout)
                    /\ \A x \in U : IsPrefix(OutputAfter(x)', dout)
                    /\ U = {} => output' = dout
                    /\ \A x \in U : (\A y \in U : ~Older(x, y)') => dout = OutputAfter(x)'
                    /\ \A t \in U :
                         /\ {x \in U : Older(x, t)'} = {} => output' = printed'[t]
                         /\ \A x \in {z \in U : Older(z, t)'} :
                              (\A y \in {z \in U : Older(z, t)'} : ~Older(x, y)')
                                => printed'[t] = OutputAfter(x)'
  <2>1. PICK T, U : T = {x \in Stations : Unprinted(x)} /\ U = T \ {s}
    OBVIOUS
  <2>2. U = {x \in Stations : Unprinted(x)'}
    BY <2>1
  <2> QED BY <2>1, <2>2 DEF OutputComing
<1>1. output' = OutputAfter(s) /\ \A x \in U : Older(s, x)
  BY TrapPrints
<1>2. \A x \in U : /\ Kept(x) /\ OutputAfter(x)' = OutputAfter(x)
                   /\ printed'[x] = printed[x]
  <2>1. \A x \in U : x \in Stations /\ Busy(x)'
    BY DEF Unprinted
  <2> QED BY <2>1, KeptTerms DEF NothingIssued, Kept
<1>3. \A x, y \in U : Older(x, y)' <=> Older(x, y)
  BY <1>2 DEF Kept, Older
<1>4. \A x \in U : ~Older(x, s)
  BY <1>1, Clocks DEF Older
<1>5. /\ \A x \in T : IsPrefix(OutputAfter(x), dout)
      /\ \A x \in T : (\A y \in T : ~Older(x, y)) => dout = OutputAfter(x)
      /\ \A t \in T :
           \A x \in {z \in T : Older(z, t)} :
             (\A y \in {z \in T : Older(z, t)} : ~Older(x, y)) => printed[t] = OutputAfter(x)
  BY DEF LInv, OutputComing
<1>6. s \in T /\ T = U \cup {s} /\ ~Older(s, s)
  BY Clocks DEF Older
<1>7. U = {} => dout = OutputAfter(s)
  BY <1>5, <1>6
<1>8. \A x \in U : (\A y \in U : ~Older(x, y)') => dout = OutputAfter(x)'
  BY <1>2, <1>3, <1>4, <1>5, <1>6
<1>9. ASSUME NEW t \in U
      PROVE  /\ {x \in U : Older(x, t)'} = {} => output' = printed'[t]
             /\ \A x \in {z \in U : Older(z, t)'} :
                  (\A y \in {z \in U : Older(z, t)'} : ~Older(x, y)')
                    => printed'[t] = OutputAfter(x)'
  <2>1. PICK E, G : E = {z \in T : Older(z, t)} /\ G = {z \in U : Older(z, t)'}
    OBVIOUS
  <2>2. E = G \cup {s} /\ G \subseteq U
    BY <1>1, <1>3, <1>6, <2>1
  <2>3. \A x \in E : (\A y \in E : ~Older(x, y)) => printed[t] = OutputAfter(x)
    BY <1>5, <2>1
  <2>4. G = {} => printed[t] = OutputAfter(s)
    BY <1>6, <2>2, <2>3
  <2>5. \A x \in G : (\A y \in G : ~Older(x, y)') => printed[t] = OutputAfter(x)'
    BY <1>2, <1>3, <1>4, <2>2, <2>3
  <2> QED BY <1>1, <1>2, <2>1, <2>4, <2>5
<1> QED BY <1>1, <1>2, <1>5, <1>6, <1>7, <1>8, <1>9

\* execute runs an instruction.
LEMMA CompleteStep ==
  ASSUME IInv, IInv', LInv, [LNext]_lockstepVars, Clean, Clean', Record, UNCHANGED dlxVars,
         NEW s \in Stations, Execute(s), ExecuteComplete(s)
  PROVE  LInv'
<1>1. /\ UNCHANGED <<memory, registers, renameRegisters, instruction, startClock, arg,
                     argSource, source, list, pc, stallIssue, halted>>
      /\ UNCHANGED <<dpc, dregs, dmem, dout, dstatus>>
      /\ phase = "execute" /\ phase' = "execute" /\ s \in todo
      /\ result' = [result EXCEPT ![s] = executeResult(s)]
      /\ state' = [state EXCEPT ![s] = "ExecutionComplete"]
      /\ executeFaults(s) => instruction[s].name = "TRAP"
      /\ trapOutput(s)
  BY DEF Execute, ExecuteComplete, memoryVars, busVars, fetchVars, unitVars, dlxVars
<1>2. /\ state[s] = "Executing" /\ list[s] = "executing" /\ Busy(s)
      /\ source = NoStation
  BY <1>1 DEF IInv, UnitInv, ExecutedOnce, Coherent, Bookkeeping, TodoInList, ListsAgree,
     StatesOf, BusGrantsOldest
<1>3. /\ \A t \in Stations \ {s} : state'[t] = state[t] /\ result'[t] = result[t]
      /\ state'[s] = "ExecutionComplete" /\ result'[s] = executeResult(s)
  BY <1>1 DEF IInv, Coherent, TypeOK, StationTypeOK
<1>4. /\ NothingIssued /\ \A t \in Stations : OnCourse(t)' <=> OnCourse(t)
      /\ Kept(s)
  BY <1>1, <1>2, StationsKept
<1>5. (Well' => Well) /\ (~textRace' => ~textRace)
  BY StaysClean
<1>6. lastWriter' = lastWriter /\ lastWriter' \in [Regs -> Nat]
  BY <1>1, WritersKept DEF LInv, HistoryTypeOK
<1>7. DTypeOK' BY DlxStep, SequentialTypes DEF LInv
<1>8. HistoryTypeOK' BY <1>4, <1>6, KeepsHistory
<1>9. OperandsComing' BY <1>1, <1>4, KeepsOperands
<1>10. RegistersComing'
  BY <1>1, <1>3, <1>4, <1>5, <1>6, KeepsRegisters
<1>11. FetchComing' BY <1>1, <1>2, <1>3, <1>4, <1>5, KeepsFetch
<1>12. \A t \in Stations : PendingStore(t) => PendingStore(t)'
  BY <1>1, <1>3 DEF PendingStore, Pending, Busy
<1>13. MemoryComing' BY <1>1, <1>2, <1>3, <1>4, <1>5, <1>12, KeepsMemory
<1>14. TextStays' BY <1>1, <1>2, <1>3, <1>4, <1>5, KeepsText
<1>15. ResultsSequential'
  <2> SUFFICES ASSUME NEW t \in Stations
               PROVE  /\ OnCourse(t)' /\ state'[t] \in {"ExecutionComplete", "Writing",
                                                        "WriteComplete"} =>
                           LET action == getWriteAction(instruction[t]) IN
                           /\ action = "Register" => result'[t] = Value(t)'
                           /\ action = "PC"       =>
                                result'[t] = BranchResult(instruction[t], operand'[t][1])
                           /\ action = "Memory"   =>
                                result'[t] = EffectiveAddress(instruction[t], operand'[t][1])
                      /\ OnCourse(t)' /\ source' = t => result'[t] = Value(t)'
    BY <1>1 DEF ResultsSequential
  <2>1. source' # t
    BY <1>1, <1>2, StationsAssumption
  <2>2. OnCourse(t)' => OnCourse(t) /\ operand'[t] = operand[t] /\ Value(t)' = Value(t)
    BY <1>4, KeptTerms DEF NothingIssued, OnCourse, Kept
  <2>3. CASE t # s
    BY <1>3, <2>1, <2>2, <2>3 DEF LInv, ResultsSequential
  <2>4. CASE t = s
    BY <1>1, <1>2, <1>3, <2>1, <2>2, <2>4, ResultComputed
  <2> QED BY <2>3, <2>4
<1>16. EndsAlike'
  <2>1. ASSUME OnCourse(s), Faults(s) PROVE IsStore(instruction[s])
    <3>1. arg[s][1] = operand[s][1] /\ arg[s][2] = operand[s][2]
      BY <1>2, <2>1, OperandsReady
    <3>2. CASE DivisionFaults(instruction[s], operand[s][1], operand[s][2])
      BY <1>1, <3>1, <3>2 DEF executeFaults, DivisionFaults
    <3>3. CASE getType(instruction[s]) = "Memory"
               /\ ~Accessible(EffectiveAddress(instruction[s], operand[s][1]))
      BY <1>1, <3>1, <3>3, ClassFacts DEF executeFaults, IsStore, LoadNames
    <3> QED BY <2>1, <3>2, <3>3 DEF Faults
  <2>2. \A t \in Stations : OnCourse(t) /\ Faults(t) =>
          /\ state'[t] # "WriteComplete"
          /\ state'[t] \in {"ExecutionComplete", "Writing"} => IsStore(instruction[t])
    BY <1>3, <2>1 DEF LInv, EndsAlike
  <2> QED BY <1>1, <1>4, <2>2, KeepsEnd
<1>17. OutputComing'
  <2>1. CASE Unprinted(s)
    <3>1. \A x \in Stations : Unprinted(x)' <=> Unprinted(x) /\ x # s
      BY <1>1, <1>3 DEF Unprinted, Busy
    <3> QED BY <1>1, <1>2, <1>4, <1>5, <2>1, <3>1, PrintedNext
  <2>2. CASE ~Unprinted(s)
    <3>1. \A x \in Stations : Unprinted(x)' <=> Unprinted(x)
      BY <1>1, <1>3, <2>2 DEF Unprinted, Busy
    <3>2. UNCHANGED output
      BY <1>1, <1>2, <2>2, ClassFacts DEF Unprinted, trapOutput
    <3> QED BY <1>1, <1>4, <1>5, <3>1, <3>2, KeepsOutput
  <2> QED BY <2>1, <2>2
<1> QED
  BY <1>7, <1>8, <1>9, <1>10, <1>11, <1>13, <1>14, <1>15, <1>16, <1>17 DEF LInv

-----------------------------------------------------------------------------
\* The first of the stores to come has written.
LEMMA StoreNext ==
  ASSUME IInv, LInv, Clean, Well' => Well, NothingIssued, Well' => dmem' = dmem,
         NEW s \in Stations, Busy(s), state[s] = "Writing", list[s] = "writing",
         WriteMemory(s), \A t \in Stations : Pending(t)' <=> Pending(t) /\ t # s
  PROVE  MemoryComing'
<1>1. PendingStore(s) /\ Pending(s) /\ getType(instruction[s]) = "Memory"
  BY ClassFacts DEF WriteMemory, getWriteAction, PendingStore, Pending, IsStore
<1>2. \A t \in Stations :
        Pending(t) /\ getType(instruction[t]) = "Memory" /\ t # s => Older(s, t)
  BY <1>1, FirstOfUnit DEF Pending
<1>3. \A t \in Stations : PendingStore(t) => Pending(t) /\ getType(instruction[t]) = "Memory"
  BY ClassFacts DEF PendingStore, IsStore
<1>4. OnCourse(s) => memory' = MemoryAfter(s)
  <2> SUFFICES ASSUME OnCourse(s) PROVE memory' = MemoryAfter(s)
    OBVIOUS
  <2>1. memory = image[s]
    BY <1>1, MemoryReady
  <2>2. arg[s][2] = operand[s][2]
    BY OperandsReady
  <2>3. result[s] = EffectiveAddress(instruction[s], operand[s][1])
    BY DEF WriteMemory, LInv, ResultsSequential
  <2> QED BY <2>1, <2>2, <2>3 DEF WriteMemory, writeUWord, MemoryAfter
<1>5. \A t \in Stations : Pending(t)' => Kept(t)
  BY DEF NothingIssued, Pending
<1>6. \A t \in Stations : PendingStore(t)' <=> PendingStore(t) /\ t # s
  BY <1>5 DEF PendingStore, Kept, NothingIssued, Pending
<1>7. \A t \in Stations : PendingStore(t)' => MemoryAfter(t)' = MemoryAfter(t)
  BY <1>5, KeptTerms DEF PendingStore
<1>8. \A x, y \in Stations : Pending(x)' /\ Pending(y)' => (Older(x, y)' <=> Older(x, y))
  BY <1>5 DEF Kept, Older
<1>9. ~Older(s, s) /\ \A x \in Stations : PendingStore(x) => ~Older(x, s)
  BY <1>1, <1>2, <1>3, Clocks DEF Older
<1>10. ASSUME NEW t \in Stations, OnCourse(t)', Pending(t)',
              getType(instruction'[t]) = "Memory"
       PROVE  LET earlier == {x \in Stations : PendingStore(x)' /\ Older(x, t)'} IN
              /\ earlier = {} => memory' = image'[t]
              /\ \A x \in earlier :
                   (\A y \in earlier : ~Older(x, y)') => image'[t] = MemoryAfter(x)'
  <2>1. /\ OnCourse(t) /\ Pending(t) /\ Kept(t) /\ image'[t] = image[t] /\ t # s
        /\ getType(instruction[t]) = "Memory"
    BY <1>5, <1>10 DEF NothingIssued, Kept
  <2>2. Older(s, t) /\ OnCourse(s)
    BY <1>2, <2>1, OlderOnCourse
  <2>3. PICK E, G : /\ E = {x \in Stations : PendingStore(x) /\ Older(x, t)}
                    /\ G = {x \in Stations : PendingStore(x)' /\ Older(x, t)'}
    OBVIOUS
  <2>4. E = G \cup {s} /\ s \notin G
    BY <1>1, <1>3, <1>6, <1>8, <1>10, <2>2, <2>3 DEF PendingStore
  <2>5. \A x \in E : (\A y \in E : ~Older(x, y)) => image[t] = MemoryAfter(x)
    BY <2>1, <2>3 DEF LInv, MemoryComing
  <2>6. G = {} => image[t] = MemoryAfter(s)
    BY <1>9, <2>4, <2>5
  <2>7. \A x \in G : MemoryAfter(x)' = MemoryAfter(x) /\ ~Older(x, s)
    BY <1>6, <1>7, <1>9, <2>3
  <2>8. \A x, y \in G : Older(x, y)' <=> Older(x, y)
    BY <1>8, <2>3 DEF PendingStore
  <2>9. \A x \in G : (\A y \in G : ~Older(x, y)') => image[t] = MemoryAfter(x)'
    BY <2>4, <2>5, <2>7, <2>8
  <2> QED BY <1>4, <2>1, <2>2, <2>3, <2>6, <2>9
<1>11. ASSUME Well'
       PROVE  LET stores == {x \in Stations : PendingStore(x)'} IN
              /\ stores = {} => memory' = dmem'
              /\ \A x \in stores : (\A y \in stores : ~Older(x, y)') => dmem' = MemoryAfter(x)'
  <2>1. PICK E, G : E = {x \in Stations : PendingStore(x)} /\ G = {x \in Stations : PendingStore(x)'}
    OBVIOUS
  <2>2. E = G \cup {s} /\ s \notin G
    BY <1>1, <1>6, <2>1
  <2>3. \A x \in E : (\A y \in E : ~Older(x, y)) => dmem = MemoryAfter(x)
    BY <1>11, <2>1 DEF LInv, MemoryComing
  <2>4. G = {} => dmem = MemoryAfter(s)
    BY <1>9, <2>2, <2>3
  <2>5. \A x \in G : MemoryAfter(x)' = MemoryAfter(x) /\ ~Older(x, s)
    BY <1>6, <1>7, <1>9, <2>1
  <2>6. \A x, y \in G : Older(x, y)' <=> Older(x, y)
    BY <1>8, <2>1 DEF PendingStore
  <2>7. \A x \in G : (\A y \in G : ~Older(x, y)') => dmem = MemoryAfter(x)'
    BY <2>2, <2>3, <2>5, <2>6
  <2>8. OnCourse(s)
    BY <1>1, <1>11, WellOnCourse DEF Pending
  <2> QED BY <1>4, <1>11, <2>1, <2>4, <2>7, <2>8
<1> QED BY <1>10, <1>11 DEF MemoryComing

\* write on a station.
LEMMA WriteStep ==
  ASSUME IInv, IInv', LInv, [LNext]_lockstepVars, Clean, Clean', Record, UNCHANGED dlxVars,
         NEW s \in Stations, Write(s)
  PROVE  LInv'
<1>1. /\ UNCHANGED <<registers, renameRegisters, instruction, startClock, arg, argSource,
                     output, list, halted>>
      /\ UNCHANGED <<dpc, dregs, dmem, dout, dstatus>>
      /\ phase = "write" /\ phase' = "write" /\ s \in todo
  BY DEF Write, WriteNothing, WriteRegister, WritePC, WriteMemory, unitVars, dlxVars
<1>2. state[s] = "Writing" /\ list[s] = "writing" /\ Busy(s)
  BY <1>1 DEF IInv, Coherent, Bookkeeping, TodoInList, ListsAgree
<1>3. \/ WriteRegister(s) /\ state' = state
      \/ /\ WriteNothing(s) \/ WritePC(s) \/ WriteMemory(s)
         /\ ~WritesRegister(instruction[s])
         /\ UNCHANGED <<result, source>>
         /\ state'[s] = "WriteComplete" /\ \A t \in Stations \ {s} : state'[t] = state[t]
  BY <1>1 DEF Write, WriteNothing, WriteRegister, WritePC, WriteMemory, WritesRegister,
     IInv, Coherent, TypeOK, StationTypeOK
<1>4. /\ NothingIssued /\ \A t \in Stations : OnCourse(t)' <=> OnCourse(t)
      /\ \A t \in Stations : Busy(t) => Kept(t)
  BY <1>1, StationsKept
<1>5. (Well' => Well) /\ (~textRace' => ~textRace)
  BY StaysClean
<1>6. lastWriter' = lastWriter /\ lastWriter' \in [Regs -> Nat]
  BY <1>1, WritersKept DEF LInv, HistoryTypeOK
<1>7. DTypeOK' BY DlxStep, SequentialTypes DEF LInv
<1>8. HistoryTypeOK' BY <1>4, <1>6, KeepsHistory
<1>9. OperandsComing' BY <1>1, <1>4, KeepsOperands
<1>10. RegistersComing'
  BY <1>1, <1>3, <1>4, <1>5, <1>6, KeepsRegisters
<1>11. \A t \in Stations : state[t] = "WriteComplete" => state'[t] = "WriteComplete"
  BY <1>2, <1>3
<1>12. TextStays' BY <1>1, <1>4, <1>5, <1>11, KeepsText
<1>13. OutputComing'
  <2>1. \A x \in Stations : Unprinted(x)' <=> Unprinted(x)
    BY <1>1, <1>2, <1>3 DEF Unprinted, Busy
  <2> QED BY <1>1, <1>4, <1>5, <2>1, KeepsOutput
<1>14. EndsAlike'
  <2>1. ASSUME OnCourse(s), Faults(s) PROVE state'[s] # "WriteComplete"
    <3>1. IsStore(instruction[s])
      BY <1>2, <2>1 DEF LInv, EndsAlike
    <3>2. getWriteAction(instruction[s]) = "Memory" /\ instruction[s].name # "DIV"
      BY <3>1 DEF IsStore, StoreNames, getWriteAction, BranchNames
    <3>3. result[s] = EffectiveAddress(instruction[s], operand[s][1])
      BY <1>2, <2>1, <3>2 DEF LInv, ResultsSequential
    <3>4. ~Accessible(result[s])
      BY <2>1, <3>2, <3>3 DEF Faults, DivisionFaults
    <3> QED BY <1>2, <1>3, <3>2, <3>4 DEF WriteNothing, WritePC, WriteMemory
  <2>2. \A t \in Stations : OnCourse(t) /\ Faults(t) =>
          /\ state'[t] # "WriteComplete"
          /\ state'[t] \in {"ExecutionComplete", "Writing"} => IsStore(instruction[t])
    BY <1>2, <1>3, <2>1 DEF LInv, EndsAlike
  <2> QED BY <1>1, <1>4, <2>2, KeepsEnd
<1>15. FetchComing'
  <2>1. CASE WritePC(s)
    <3> SUFFICES ASSUME Well', Well
                 PROVE  pc' = dpc' /\ \A t \in Stations : ~Unresolved(t)'
      BY <1>5 DEF FetchComing
    <3>1. getType(instruction[s]) = "Branch" /\ getWriteAction(instruction[s]) = "PC"
      BY <1>2, <2>1, Clocks, ActionOfType DEF WritePC, Instr
    <3>2. Unresolved(s)
      BY <1>2, <3>1 DEF Unresolved
    <3>3. result[s] = BranchResult(instruction[s], operand[s][1])
      BY <1>2, <3>1, WellOnCourse DEF LInv, ResultsSequential, Well
    <3>4. pc' = dpc
      BY <2>1, <3>2, <3>3 DEF WritePC, LInv, FetchComing
    <3>5. \A t \in Stations : Unresolved(t)' => Unresolved(t) /\ t # s
      BY <1>1, <1>3, <2>1 DEF Unresolved, Busy, WritePC, WriteRegister
    <3> QED BY <1>1, <3>2, <3>4, <3>5 DEF IInv, Coherent, StalledByBranch
  <2>2. CASE ~WritePC(s)
    <3>1. UNCHANGED <<pc, stallIssue>>
      BY <1>3, <2>2 DEF WriteNothing, WriteRegister, WriteMemory, fetchVars
    <3> QED BY <1>1, <1>4, <1>5, <1>11, <3>1, KeepsFetch
  <2> QED BY <2>1, <2>2
<1>16. MemoryComing'
  <2>1. CASE WriteMemory(s)
    <3>1. state'[s] = "WriteComplete" /\ \A t \in Stations \ {s} : state'[t] = state[t]
      BY <1>3, <2>1 DEF WriteMemory, WriteRegister
    <3>2. \A t \in Stations : Pending(t)' <=> Pending(t) /\ t # s
      BY <1>1, <3>1 DEF Pending, Busy
    <3> QED BY <1>1, <1>2, <1>4, <1>5, <2>1, <3>2, StoreNext
  <2>2. CASE ~WriteMemory(s)
    <3>1. UNCHANGED memory
      BY <1>3, <2>2 DEF WriteNothing, WriteRegister, WritePC
    <3>2. \A t \in Stations : PendingStore(t) => PendingStore(t)'
      <4>1. ~IsStore(instruction[s]) \/ state' = state
        BY <1>3, <2>2 DEF WriteNothing, WriteRegister, WritePC, getWriteAction, IsStore,
           StoreNames, BranchNames
      <4> QED BY <1>1, <1>3, <4>1 DEF PendingStore, Pending, Busy
    <3> QED BY <1>1, <1>4, <1>5, <1>11, <3>1, <3>2, KeepsMemory
  <2> QED BY <2>1, <2>2
<1>17. ResultsSequential'
  <2>1. CASE ~WriteRegister(s)
    <3>1. \A t \in Stations : state'[t] \in {"ExecutionComplete", "Writing", "WriteComplete"} =>
            state[t] \in {"ExecutionComplete", "Writing", "WriteComplete"}
      BY <1>2, <1>3
    <3> QED BY <1>3, <1>4, <2>1, <3>1, KeepsResults
  <2>2. CASE WriteRegister(s)
    <3>1. /\ state' = state /\ source' = arbitrate(s)
          /\ \A t \in Stations \ {s} : result'[t] = result[t]
          /\ getWriteAction(instruction[s]) = "Register" => result'[s] = result[s]
          /\ getWriteAction(instruction[s]) = "PC_R31" => result'[s] = instruction[s].next
          /\ getWriteAction(instruction[s]) \in {"Register", "PC_R31"}
      BY <2>2 DEF WriteRegister, IInv, Coherent, TypeOK, StationTypeOK
    <3>2. \A t \in Stations : OnCourse(t)' =>
            OnCourse(t) /\ operand'[t] = operand[t] /\ Value(t)' = Value(t)
      BY <1>4, KeptTerms DEF OnCourse, Kept
    <3>3. OnCourse(s) => result'[s] = Value(s)
      <4>1. CASE getWriteAction(instruction[s]) = "Register"
        BY <1>2, <3>1, <4>1 DEF LInv, ResultsSequential
      <4>2. CASE getWriteAction(instruction[s]) = "PC_R31"
        <5>1. instruction[s].name \in {"JAL", "JALR"}
          BY <4>2 DEF getWriteAction
        <5>2. Value(s) = instruction[s].next
          BY <5>1 DEF Value, LoadNames
        <5> QED BY <3>1, <4>2, <5>2
      <4> QED BY <3>1, <4>1, <4>2
    <3>4. source' = s \/ source' = source
      BY <3>1 DEF arbitrate
    <3> SUFFICES ASSUME NEW t \in Stations, OnCourse(t)'
                 PROVE  /\ state'[t] \in {"ExecutionComplete", "Writing", "WriteComplete"} =>
                             LET action == getWriteAction(instruction[t]) IN
                             /\ action = "Register" => result'[t] = Value(t)'
                             /\ action = "PC"       =>
                                  result'[t] = BranchResult(instruction[t], operand'[t][1])
                             /\ action = "Memory"   =>
                                  result'[t] = EffectiveAddress(instruction[t], operand'[t][1])
                        /\ source' = t => result'[t] = Value(t)'
      BY <1>1 DEF ResultsSequential
    <3>5. CASE t = s
      BY <3>1, <3>2, <3>3, <3>5
    <3>6. CASE t # s
      BY <3>1, <3>2, <3>4, <3>6 DEF LInv, ResultsSequential
    <3> QED BY <3>5, <3>6
  <2> QED BY <2>1, <2>2
<1> QED
  BY <1>7, <1>8, <1>9, <1>10, <1>12, <1>13, <1>14, <1>15, <1>16, <1>17 DEF LInv

-----------------------------------------------------------------------------
\* The registers after the bus commits the result of w: a register that w
\* writes too late is one an overtaking instruction wrote.
LEMMA CommitRegisters ==
  ASSUME IInv, IInv', LInv, Record, Clean, Clean', Well' => Well, NothingIssued,
         EndCycle, NEW w \in Stations, source = w, dregs' = dregs,
         \A s \in Stations : Busy(s) => Kept(s),
         \A s \in Stations \ {w} : state'[s] = "WriteComplete" => state[s] = "WriteComplete"
  PROVE  RegistersComing'
<1> DEFINE d == getDest(instruction[w])
<1>1. /\ registers' = IF d \in {NoReg, R0} THEN registers
                      ELSE [registers EXCEPT ![d] = result[w]]
      /\ UNCHANGED <<renameRegisters, instruction, startClock>>
      /\ phase = "write" /\ phase' = "loop"
  BY StationsAssumption DEF EndCycle, Commit, CommitWriter, write
<1>2. /\ registers \in [Regs -> Word] /\ w # NoStation
      /\ Busy(w) /\ startClock[w] \in Nat
      /\ lastWriter \in [Regs -> Nat]
  BY Clocks, StationsAssumption DEF IInv, Coherent, TypeOK, StationTypeOK, RegisterTypeOK,
     ListsAgree, BusGrantsOldest, LInv, HistoryTypeOK
<1>3. \A r \in Regs : lastWriter'[r] = IF r = d THEN startClock[w] ELSE lastWriter[r]
  BY <1>1, <1>2 DEF Record, RecordWrites, CommitsTo
<1>4. d \in Regs \ {R0} => startClock[w] >= lastWriter[d]
  <2> SUFFICES ASSUME d \in Regs \ {R0} PROVE ~(startClock[w] < lastWriter[d])
    BY <1>2
  <2>1. ~overwritten' BY DEF Clean
  <2>2. CommitsTo(d) BY <1>1, <1>2 DEF CommitsTo
  <2> QED BY <2>1, <2>2 DEF Record, RecordWrites
<1> SUFFICES ASSUME Well', Well, NEW r \in Regs
             PROVE  /\ renameRegisters[r] = NoStation =>
                         /\ registers'[r] = dregs[r]
                         /\ \A q \in Stations :
                              r # R0 /\ Busy(q)' /\ getDest(instruction[q]) = r
                                => startClock[q] < lastWriter'[r]
                    /\ \A p \in Stations :
                         renameRegisters[r] = p =>
                           /\ dregs[r] = Value(p)'
                           /\ state'[p] = "WriteComplete" =>
                                registers'[r] = Value(p)' /\ lastWriter'[r] = startClock[p]
  BY <1>1 DEF RegistersComing
<1>5. result[w] = Value(w)
  BY <1>2, WellOnCourse DEF LInv, ResultsSequential
<1>6. \A q \in Stations : Busy(q)' <=> Busy(q)
  BY <1>1 DEF Busy
<1>7. /\ renameRegisters[r] = NoStation =>
           /\ registers[r] = dregs[r]
           /\ \A q \in Stations :
                r # R0 /\ Busy(q) /\ getDest(instruction[q]) = r
                  => startClock[q] < lastWriter[r]
      /\ \A p \in Stations :
           renameRegisters[r] = p =>
             /\ dregs[r] = Value(p)
             /\ state[p] = "WriteComplete" =>
                  registers[r] = Value(p) /\ lastWriter[r] = startClock[p]
  BY DEF LInv, RegistersComing
<1>8. ASSUME NEW p \in Stations, renameRegisters[r] = p
      PROVE  /\ Busy(p) /\ r # R0 /\ getDest(instruction[p]) = r
             /\ getDest(instruction[w]) = r => w = p \/ startClock[w] < startClock[p]
             /\ Value(p)' = Value(p)
  <2>1. /\ Busy(p) /\ r # R0 /\ getDest(instruction[p]) = r
        /\ getDest(instruction[w]) = r => w = p \/ Older(w, p)
    BY <1>2, <1>8, StationsAssumption DEF IInv, Coherent, RenamedToYoungest
  <2> QED BY <2>1, KeptTerms DEF Older
<1>9. CASE r # d \/ r = R0
  <2>1. registers'[r] = registers[r] /\ (r # R0 => lastWriter'[r] = lastWriter[r])
    BY <1>1, <1>2, <1>3, <1>9
  <2>2. \A p \in Stations : renameRegisters[r] = p =>
          r # R0 /\ (state'[p] = "WriteComplete" => state[p] = "WriteComplete")
    BY <1>8, <1>9
  <2> QED BY <1>6, <1>7, <1>8, <2>1, <2>2
<1>10. CASE r = d /\ r # R0
  <2>1. registers'[r] = result[w] /\ lastWriter'[r] = startClock[w]
    BY <1>1, <1>2, <1>3, <1>10, RegsAssumption
  <2>2. renameRegisters[r] # NoStation
    BY <1>2, <1>4, <1>7, <1>10
  <2>3. ASSUME NEW p \in Stations, renameRegisters[r] = p, p # w
        PROVE  state'[p] # "WriteComplete"
    <3>1. startClock[w] < startClock[p] /\ startClock[p] \in Nat
      BY <1>8, <1>10, <2>3, Clocks
    <3>2. state[p] = "WriteComplete" => lastWriter[r] = startClock[p]
      BY <1>7, <2>3
    <3>3. state[p] # "WriteComplete"
      BY <1>2, <1>4, <1>10, <3>1, <3>2
    <3> QED BY <2>3, <3>3
  <2> QED BY <1>5, <1>7, <1>8, <2>1, <2>2, <2>3
<1> QED BY <1>9, <1>10

\* The commit of a result.
LEMMA CommitStep ==
  ASSUME IInv, IInv', LInv, [LNext]_lockstepVars, Clean, Clean', Record, UNCHANGED dlxVars,
         EndCycle, NEW w \in Stations, source = w
  PROVE  LInv'
<1>1. /\ UNCHANGED <<instruction, startClock, list, result, renameRegisters, memory, output,
                     halted>>
      /\ UNCHANGED <<dpc, dregs, dmem, dout, dstatus>>
      /\ phase = "write" /\ phase' = "loop" /\ CommitWriter(w)
  BY StationsAssumption DEF EndCycle, Commit, CommitWriter, unitVars, dlxVars
<1>2. /\ state[w] = "Writing" /\ WritesRegister(instruction[w]) /\ Busy(w)
      /\ listeners = {s \in Stations : state[s] = "WaitingForArgs"}
  BY StationsAssumption DEF IInv, Coherent, BusGrantsOldest, ListsAgree, ListenersWait
<1>3. /\ completed(w) \subseteq listeners /\ w \notin completed(w)
      /\ source' = NoStation
      /\ state'[w] = "WriteComplete"
      /\ \A s \in completed(w) : state'[s] = "ReadyToExecute" /\ state[s] = "WaitingForArgs"
      /\ \A s \in Stations \ (completed(w) \cup {w}) : state'[s] = state[s]
  BY <1>1, <1>2 DEF CommitWriter, completed
<1>4. /\ NothingIssued /\ \A t \in Stations : OnCourse(t)' <=> OnCourse(t)
      /\ \A t \in Stations : Busy(t) => Kept(t)
  BY <1>1, StationsKept
<1>5. (Well' => Well) /\ (~textRace' => ~textRace)
  BY StaysClean
<1>6. lastWriter' \in [Regs -> Nat]
  BY WriterClocks DEF LInv
<1>7. DTypeOK' BY DlxStep, SequentialTypes DEF LInv
<1>8. HistoryTypeOK' BY <1>4, <1>6, KeepsHistory
<1>9. \A s \in Stations : state[s] = "WriteComplete" => state'[s] = "WriteComplete"
  BY <1>2, <1>3
<1>10. \A s \in Stations \ {w} : state'[s] = "WriteComplete" => state[s] = "WriteComplete"
  BY <1>3
<1>11. RegistersComing'
  BY <1>1, <1>4, <1>5, <1>10, CommitRegisters
<1>12. TextStays' BY <1>1, <1>4, <1>5, <1>9, KeepsText
<1>13. OutputComing'
  <2>1. \A x \in Stations : Unprinted(x)' <=> Unprinted(x)
    BY <1>1, <1>2, <1>3 DEF Unprinted, Busy
  <2> QED BY <1>1, <1>4, <1>5, <2>1, KeepsOutput
<1>14. \A s \in Stations : PendingStore(s) => s # w
  BY <1>2 DEF PendingStore, IsStore, WritesRegister, getWriteAction, StoreNames, BranchNames
<1>15. MemoryComing'
  <2>1. \A s \in Stations : PendingStore(s) => PendingStore(s)'
    BY <1>1, <1>3, <1>14 DEF PendingStore, Pending, Busy
  <2> QED BY <1>1, <1>4, <1>5, <1>9, <2>1, KeepsMemory
<1>16. EndsAlike'
  <2>1. ~(OnCourse(w) /\ Faults(w))
    <3>1. OnCourse(w) /\ Faults(w) => PendingStore(w)
      BY <1>2 DEF LInv, EndsAlike, PendingStore, Pending
    <3> QED BY <1>14, <3>1
  <2>2. \A t \in Stations : OnCourse(t) /\ Faults(t) =>
          /\ state'[t] # "WriteComplete"
          /\ state'[t] \in {"ExecutionComplete", "Writing"} => IsStore(instruction[t])
    BY <1>3, <2>1 DEF LInv, EndsAlike
  <2> QED BY <1>1, <1>4, <2>2, KeepsEnd
<1>17. ResultsSequential'
  <2>1. \A t \in Stations : state'[t] \in {"ExecutionComplete", "Writing", "WriteComplete"} =>
          state[t] \in {"ExecutionComplete", "Writing", "WriteComplete"}
    BY <1>2, <1>3
  <2> QED BY <1>1, <1>3, <1>4, <2>1, KeepsResults
<1>18. OperandsComing'
  <2> SUFFICES ASSUME NEW s \in Stations, NEW k \in Operands, OnCourse(s)'
               PROVE  /\ argSource'[s][k] = NoStation => arg'[s][k] = operand'[s][k]
                      /\ \A p \in Stations :
                           argSource'[s][k] = p => operand'[s][k] = Value(p)'
    BY DEF OperandsComing
  <2>1. OnCourse(s) /\ operand'[s] = operand[s]
    BY <1>4 DEF OnCourse, Kept
  <2>2. /\ argSource'[s][k] = IF captures(s, k, w) THEN NoStation ELSE argSource[s][k]
        /\ arg'[s][k] = IF captures(s, k, w) THEN result[w] ELSE arg[s][k]
    BY <1>1 DEF CommitWriter, sourcesAfter
  <2>3. CASE captures(s, k, w)
    <3>1. argSource[s][k] = w
      BY <2>3 DEF captures
    <3>2. operand[s][k] = Value(w)
      BY <2>1, <3>1 DEF LInv, OperandsComing
    <3>3. OnCourse(w)
      <4>1. Older(w, s)
        BY <3>1, StationsAssumption DEF IInv, Coherent, ProducerInFlight
      <4> QED BY <1>2, <2>1, <4>1, OlderOnCourse
    <3>4. result[w] = Value(w)
      BY <3>3 DEF LInv, ResultsSequential
    <3> QED BY <2>1, <2>2, <2>3, <3>2, <3>4, StationsAssumption
  <2>4. CASE ~captures(s, k, w)
    <3>1. ASSUME NEW p \in Stations, argSource[s][k] = p PROVE Value(p)' = Value(p)
      <4>1. Busy(p)
        BY <3>1, StationsAssumption DEF IInv, Coherent, ProducerInFlight
      <4> QED BY <1>4, <4>1, KeptTerms
    <3> QED BY <2>1, <2>2, <2>4, <3>1 DEF LInv, OperandsComing
  <2> QED BY <2>3, <2>4
<1>19. FetchComing'
  <2>1. CASE getType(instruction[w]) = "Branch"
    <3> DEFINE i == instruction[w]
    <3> SUFFICES ASSUME Well', Well
                 PROVE  pc' = dpc' /\ \A t \in Stations : ~Unresolved(t)'
      BY <1>5 DEF FetchComing
    <3>1. Unresolved(w)
      BY <1>2, <2>1 DEF Unresolved
    <3>2. arg[w][1] = operand[w][1]
      BY <1>2, WellOnCourse, OperandsReady DEF Well
    <3>3. i.name # "BEQZ"
      BY <1>2 DEF WritesRegister, getWriteAction, BranchNames
    <3>4. pc' = BranchResult(i, operand[w][1])
      BY <1>1, <2>1, <3>2, <3>3 DEF CommitWriter, BranchResult
    <3>5. pc' = dpc
      BY <3>1, <3>4 DEF LInv, FetchComing
    <3>6. \A t \in Stations : Unresolved(t)' => Unresolved(t) /\ t # w
      BY <1>1, <1>3 DEF Unresolved, Busy
    <3> QED BY <1>1, <3>1, <3>5, <3>6 DEF IInv, Coherent, StalledByBranch
  <2>2. CASE getType(instruction[w]) # "Branch"
    <3>1. UNCHANGED <<pc, stallIssue>>
      BY <1>1, <2>2 DEF CommitWriter, fetchVars
    <3> QED BY <1>1, <1>4, <1>5, <1>9, <3>1, KeepsFetch
  <2> QED BY <2>1, <2>2
<1> QED
  BY <1>7, <1>8, <1>11, <1>12, <1>13, <1>15, <1>16, <1>17, <1>18, <1>19 DEF LInv

-----------------------------------------------------------------------------
\* The advance only takes away what has completed.
LEMMA AdvanceKeeps ==
  ASSUME IInv, LInv, Clean, Record, Advance
  PROVE  /\ \A s \in Stations : Busy(s)' <=> Pending(s)
         /\ \A s \in Stations : Busy(s)' =>
              /\ Kept(s) /\ state'[s] # "WriteComplete"
              /\ arg'[s] = arg[s] /\ argSource'[s] = argSource[s] /\ result'[s] = result[s]
              /\ Unprinted(s)' <=> Unprinted(s)
              /\ state'[s] \in {"ExecutionComplete", "Writing"} =>
                   state[s] \in {"ExecutionComplete", "Writing"}
         /\ NothingIssued
         /\ \A s \in Stations : OnCourse(s) /\ Pending(s) => OnCourse(s)'
<1>1. \A s \in Stations : s \in Retired <=> state[s] = "WriteComplete"
  BY DEF Retired, IInv, Coherent, ListsAgree, StatesOf, TypeOK, UnitTypeOK
<1>2. \A s \in Stations : Busy(s)' <=> Pending(s)
  BY <1>1, AdvanceEffect DEF IInv, Pending, Busy
<1>3. ASSUME NEW s \in Stations, Pending(s)
      PROVE  /\ Kept(s) /\ state'[s] # "WriteComplete"
             /\ arg'[s] = arg[s] /\ argSource'[s] = argSource[s] /\ result'[s] = result[s]
             /\ Unprinted(s)' <=> Unprinted(s)
             /\ state'[s] \in {"ExecutionComplete", "Writing"} =>
                  state[s] \in {"ExecutionComplete", "Writing"}
  <2>1. s \notin Retired /\ list[s] # "idle" /\ Busy(s) /\ Busy(s)' /\ state[s] # "WriteComplete"
    BY <1>1, <1>2, <1>3 DEF Pending, IInv, Coherent, ListsAgree, StatesOf
  <2>2. /\ instruction'[s] = instruction[s] /\ startClock'[s] = startClock[s]
        /\ arg'[s] = arg[s] /\ argSource'[s] = argSource[s] /\ result'[s] = result[s]
        /\ \/ state[s] = "ExecutionComplete" /\ state'[s] = "Writing" /\ list'[s] = "writing"
           \/ state[s] = "ReadyToExecute" /\ state'[s] = "Executing" /\ list'[s] = "executing"
           \/ state'[s] = state[s] /\ list'[s] = list[s]
    BY <2>1, AdvanceEffect DEF IInv
  <2>3. ~Issued(s) /\ list'[s] # "idle"
    BY <2>1, <2>2 DEF Issued
  <2>4. operand'[s] = operand[s] /\ image'[s] = image[s] /\ printed'[s] = printed[s]
    BY <2>3 DEF Record, RecordOperands
  <2> QED BY <2>1, <2>2, <2>4 DEF Kept, Unprinted
<1>4. \A s, t \in Stations : Busy(s)' /\ Busy(t)' => (Older(s, t)' <=> Older(s, t))
  BY <1>2, <1>3 DEF Kept, Older
<1>5. \A s \in Stations : Busy(s)' => (Faults(s)' <=> Faults(s))
  BY <1>2, <1>3, KeptTerms
<1>6. ASSUME NEW s \in Stations, OnCourse(s)' PROVE OnCourse(s)
  <2>1. Busy(s) /\ Busy(s)'
    BY <1>2, <1>6 DEF OnCourse, Pending
  <2> SUFFICES ASSUME ~OnCourse(s) PROVE FALSE
    OBVIOUS
  <2>2. PICK f \in Stations : OnCourse(f) /\ Faults(f) /\ Older(f, s)
    BY <2>1, OffCourse DEF Advance
  <2>3. Pending(f)
    BY <2>2 DEF LInv, EndsAlike, OnCourse, Pending
  <2> QED BY <1>2, <1>4, <1>5, <1>6, <2>1, <2>2, <2>3 DEF OnCourse
<1>7. \A s \in Stations : OnCourse(s) /\ Pending(s) => OnCourse(s)'
  BY <1>2, <1>4, <1>5 DEF OnCourse, Pending
<1> QED BY <1>2, <1>3, <1>6, <1>7 DEF NothingIssued

\* A register whose renaming ends has the value.
LEMMA AdvanceRegisters ==
  ASSUME IInv, IInv', LInv, Clean, Record, Advance, Well' => Well,
         dregs' = dregs, lastWriter' = lastWriter
  PROVE  RegistersComing'
<1> SUFFICES ASSUME Well', Well, NEW r \in Regs
             PROVE  /\ renameRegisters'[r] = NoStation =>
                         /\ registers[r] = dregs[r]
                         /\ \A q \in Stations :
                              r # R0 /\ Busy(q)' /\ getDest(instruction'[q]) = r
                                => startClock'[q] < lastWriter[r]
                    /\ \A p \in Stations :
                         renameRegisters'[r] = p =>
                           /\ dregs[r] = Value(p)'
                           /\ state'[p] = "WriteComplete" =>
                                registers[r] = Value(p)' /\ lastWriter[r] = startClock'[p]
  <2>1. registers' = registers BY DEF Advance, memoryVars
  <2> QED BY <2>1 DEF RegistersComing
<1>1. /\ \A s \in Stations : Busy(s)' => Kept(s) /\ state'[s] # "WriteComplete" /\ Pending(s)
      /\ clearRename(Retired)
  BY AdvanceKeeps, AdvanceEffect DEF IInv
<1>2. /\ renameRegisters[r] = NoStation =>
           /\ registers[r] = dregs[r]
           /\ \A q \in Stations :
                r # R0 /\ Busy(q) /\ getDest(instruction[q]) = r
                  => startClock[q] < lastWriter[r]
      /\ \A p \in Stations :
           renameRegisters[r] = p =>
             /\ dregs[r] = Value(p)
             /\ state[p] = "WriteComplete" =>
                  registers[r] = Value(p) /\ lastWriter[r] = startClock[p]
  BY DEF LInv, RegistersComing
<1>3. renameRegisters'[r] = IF \E s \in Retired : getReverseRename(s) = r
                            THEN NoStation ELSE renameRegisters[r]
  BY <1>1 DEF clearRename
<1>4. CASE renameRegisters'[r] # NoStation
  <2>1. renameRegisters'[r] = renameRegisters[r]
    BY <1>3, <1>4
  <2>2. ASSUME NEW p \in Stations, renameRegisters'[r] = p
        PROVE  Value(p)' = Value(p) /\ state'[p] # "WriteComplete"
    <3>1. Busy(p)'
      BY <2>2, StationsAssumption DEF IInv, Coherent, RenamedToYoungest
    <3> QED BY <1>1, <3>1, KeptTerms
  <2> QED BY <1>2, <1>4, <2>1, <2>2
<1>5. CASE renameRegisters'[r] = NoStation /\ renameRegisters[r] = NoStation
  BY <1>1, <1>2, <1>5, StationsAssumption DEF Kept
<1>6. CASE renameRegisters'[r] = NoStation /\ renameRegisters[r] # NoStation
  <2>1. PICK p \in Retired : getReverseRename(p) = r
    BY <1>3, <1>6
  <2>2. renameRegisters[r] = p
    BY <2>1, RegsAssumption DEF getReverseRename
  <2>3. p \in Stations /\ state[p] = "WriteComplete"
    BY <2>1 DEF Retired
  <2>4. registers[r] = dregs[r] /\ lastWriter[r] = startClock[p]
    BY <1>2, <2>2, <2>3
  <2>5. ASSUME NEW q \in Stations, Busy(q)', getDest(instruction'[q]) = r
        PROVE  startClock'[q] < lastWriter[r]
    <3>1. Kept(q) /\ Pending(q)
      BY <1>1, <2>5
    <3>2. q # p /\ Busy(q) /\ getDest(instruction[q]) = r /\ startClock'[q] = startClock[q]
      BY <2>3, <2>5, <3>1 DEF Kept, Pending
    <3>3. Older(q, p)
      BY <2>2, <2>3, <3>2, StationsAssumption DEF IInv, Coherent, RenamedToYoungest
    <3> QED BY <2>4, <3>2, <3>3 DEF Older
  <2> QED BY <1>6, <2>4, <2>5, StationsAssumption
<1> QED BY <1>4, <1>5, <1>6

\* The head of a cycle.
LEMMA AdvanceStep ==
  ASSUME IInv, IInv', LInv, [LNext]_lockstepVars, Clean, Clean', Record, UNCHANGED dlxVars,
         Advance
  PROVE  LInv'
<1>1. /\ UNCHANGED <<memory, registers, source, pc, stallIssue, output, halted>>
      /\ UNCHANGED <<dpc, dregs, dmem, dout, dstatus>>
      /\ phase = "loop" /\ phase' = "issue"
  BY AdvanceEffect DEF IInv, dlxVars
<1>2. /\ \A s \in Stations : Busy(s)' <=> Pending(s)
      /\ \A s \in Stations : Busy(s)' =>
           /\ Kept(s) /\ state'[s] # "WriteComplete"
           /\ arg'[s] = arg[s] /\ argSource'[s] = argSource[s] /\ result'[s] = result[s]
           /\ Unprinted(s)' <=> Unprinted(s)
           /\ state'[s] \in {"ExecutionComplete", "Writing"} =>
                state[s] \in {"ExecutionComplete", "Writing"}
      /\ NothingIssued
      /\ \A s \in Stations : OnCourse(s) /\ Pending(s) => OnCourse(s)'
  BY AdvanceKeeps
<1>3. (Well' => Well) /\ (~textRace' => ~textRace)
  BY StaysClean
<1>4. lastWriter' = lastWriter /\ lastWriter' \in [Regs -> Nat]
  BY <1>1, WritersKept DEF LInv, HistoryTypeOK
<1>5. \A s \in Stations : Busy(s)' /\ state[s] = "WriteComplete" => state'[s] = "WriteComplete"
  BY <1>2 DEF Pending
<1>6. DTypeOK' BY DlxStep, SequentialTypes DEF LInv
<1>7. HistoryTypeOK' BY <1>2, <1>4, KeepsHistory
<1>8. OperandsComing' BY <1>2, KeepsOperands
<1>9. ResultsSequential' BY <1>1, <1>2, KeepsResults
<1>10. RegistersComing' BY <1>1, <1>3, <1>4, AdvanceRegisters
<1>11. FetchComing' BY <1>1, <1>2, <1>3, <1>5, KeepsFetch
<1>12. MemoryComing'
  <2>1. \A s \in Stations : PendingStore(s) => PendingStore(s)'
    BY <1>2 DEF PendingStore, Pending, Kept
  <2> QED BY <1>1, <1>2, <1>3, <1>5, <2>1, KeepsMemory
<1>13. TextStays' BY <1>1, <1>2, <1>3, <1>5, KeepsText
<1>14. OutputComing'
  <2>1. \A s \in Stations : Unprinted(s) => Pending(s)
    BY DEF Unprinted, Pending
  <2>2. \A s \in Stations : Unprinted(s)' <=> Unprinted(s)
    BY <1>2, <2>1 DEF Unprinted
  <2> QED BY <1>1, <1>2, <1>3, <2>2, KeepsOutput
<1>15. EndsAlike'
  <2>1. \A f \in Stations : OnCourse(f) /\ Faults(f) => Pending(f) /\ OnCourse(f)'
    BY <1>2 DEF LInv, EndsAlike, OnCourse, Pending
  <2>2. \A f \in Stations : OnCourse(f) /\ Faults(f) =>
          /\ state'[f] # "WriteComplete"
          /\ state'[f] \in {"ExecutionComplete", "Writing"} => IsStore(instruction[f])
    BY <1>2, <2>1 DEF LInv, EndsAlike
  <2> QED BY <1>1, <1>2, <2>1, <2>2, KeepsEnd
<1> QED
  BY <1>6, <1>7, <1>8, <1>9, <1>10, <1>11, <1>12, <1>13, <1>14, <1>15 DEF LInv

-----------------------------------------------------------------------------
\* While the program does nothing wrong issue takes the instruction that
\* sequential execution is at.
LEMMA FetchedNext ==
  ASSUME LInv, Well, canIssue
  PROVE  pc = dpc /\ dstatus = "running"
<1>1. dstatus \in {"running", "halted", "fault", "undefined"}
  BY DEF LInv, DTypeOK, D!DTypeOK
<1> QED BY <1>1 DEF canIssue, LInv, FetchComing, EndsAlike, Well, Clean

LEMMA FetchedWord ==
  ASSUME LInv, Well, Clean', Record, canIssue, Accessible(pc)
  PROVE  fetched = D!DInstruction
<1>1. pc = dpc
  BY FetchedNext
<1>2. readUWord(pc) = wordAt(dmem, pc)
  BY DEF Clean, Record, RecordRaces
<1> QED BY <1>1, <1>2, SameData DEF fetched, D!DInstruction

\* The program runs out of the memory.
LEMMA IssueFaultStep ==
  ASSUME IInv, IInv', LInv, [LNext]_lockstepVars, Clean, Clean', Record, IssueFault,
         IF dstatus = "running" THEN D!DStep ELSE UNCHANGED dlxVars
  PROVE  LInv'
<1>1. /\ Undisturbed /\ UNCHANGED halted
      /\ phase = "issue" /\ phase' = "aborted" /\ canIssue /\ ~Accessible(pc)
  BY DEF IssueFault, Abort, canIssue, Undisturbed, memoryVars, stationVars, busVars,
     fetchVars, unitVars
<1>2. dstatus' = "fault" /\ UNCHANGED <<dpc, dregs, dmem, dout>>
  <2>1. CASE Well
    <3>1. D!DStep /\ ~Accessible(dpc)
      BY <1>1, <2>1, FetchedNext
    <3> QED BY <3>1, SequentialStep
  <2>2. CASE ~Well
    BY <2>2 DEF Well, dlxVars
  <2> QED BY <2>1, <2>2
<1>3. /\ \A s \in Stations : OnCourse(s)' <=> OnCourse(s)
      /\ \A s \in Stations : Busy(s) => Kept(s)
  BY <1>1, StationsKept DEF Undisturbed
<1>4. \A s \in Stations : OnCourse(s)' =>
        /\ OnCourse(s) /\ (Faults(s)' <=> Faults(s))
        /\ operand'[s] = operand[s]
  BY <1>3, KeptTerms DEF OnCourse, Kept
<1>5. EndsAlike'
  BY <1>1, <1>2, <1>4 DEF Undisturbed, LInv, EndsAlike
<1> QED BY <1>1, <1>2, <1>5, QuietStep

\* The end of the program is fetched.
LEMMA IssueHaltStep ==
  ASSUME IInv, IInv', LInv, [LNext]_lockstepVars, Clean, Clean', Record, IssueHalt,
         IF dstatus = "running" THEN D!DStep ELSE UNCHANGED dlxVars
  PROVE  LInv'
<1>1. /\ Undisturbed /\ halted' = TRUE /\ isHalt(fetched)
      /\ phase = "issue" /\ phase' = "execute" /\ canIssue /\ Accessible(pc)
  BY DEF IssueHalt, ToExecute, canIssue, Undisturbed, memoryVars, stationVars, busVars,
     fetchVars, unitVars
<1>2. /\ UNCHANGED <<dpc, dregs, dmem, dout>>
      /\ dstatus # "fault" => dstatus' = "halted"
      /\ dstatus = "fault" => dstatus' = "fault"
  <2>1. CASE Well
    <3>1. D!DStep /\ Accessible(dpc) /\ fetched = D!DInstruction
      BY <1>1, <2>1, FetchedNext, FetchedWord
    <3>2. PICK a, b : a = D!DOperand(1) /\ b = D!DOperand(2)
      OBVIOUS
    <3>3. ~SequentialEnd(fetched, a, b)
      BY <1>1, ClassFacts DEF SequentialEnd, isHalt, DivisionFaults
    <3> QED BY <1>1, <2>1, <3>1, <3>2, <3>3, SequentialStep DEF Well
  <2>2. CASE ~Well
    BY <2>2 DEF Well, dlxVars
  <2> QED BY <2>1, <2>2
<1>3. /\ \A s \in Stations : OnCourse(s)' <=> OnCourse(s)
      /\ \A s \in Stations : Busy(s) => Kept(s)
  BY <1>1, StationsKept DEF Undisturbed
<1>4. \A s \in Stations : Busy(s) =>
        /\ (Faults(s)' <=> Faults(s))
        /\ operand'[s] = operand[s] /\ instruction'[s] = instruction[s]
  BY <1>3, KeptTerms DEF Kept
<1>5. \A s \in Stations : /\ OnCourse(s)' => OnCourse(s) /\ Busy(s)
                          /\ Busy(s)' => Busy(s) /\ state'[s] = state[s]
  BY <1>1, <1>3 DEF OnCourse, Undisturbed, Busy
<1>6. dstatus' = "fault" => \E f \in Stations : OnCourse(f)' /\ Faults(f)'
  <2> SUFFICES ASSUME dstatus = "fault"
               PROVE  \E f \in Stations : OnCourse(f)' /\ Faults(f)'
    BY <1>2
  <2>1. PICK f \in Stations : OnCourse(f) /\ Faults(f)
    BY <1>1 DEF LInv, EndsAlike
  <2> QED BY <1>3, <1>4, <2>1 DEF OnCourse
<1>7. dstatus' # "fault" => /\ \A s \in Stations : Busy(s)' => ~Faults(s)'
                            /\ halted' <=> dstatus' = "halted"
  BY <1>1, <1>2, <1>4, <1>5 DEF LInv, EndsAlike
<1>8. \A s \in Stations :
        /\ OnCourse(s)' /\ Faults(s)' =>
             /\ state'[s] # "WriteComplete"
             /\ state'[s] \in {"ExecutionComplete", "Writing"} => IsStore(instruction'[s])
        /\ OnCourse(s)' /\ PrintsText(instruction'[s]) => operand'[s][1] <= MemSize
  BY <1>1, <1>4, <1>5 DEF LInv, EndsAlike, Undisturbed
<1>9. EndsAlike'
  BY <1>1, <1>6, <1>7, <1>8 DEF EndsAlike
<1> QED BY <1>1, <1>2, <1>9, QuietStep

-----------------------------------------------------------------------------
(***************************************************************************)
(* An instruction is issued.                                               *)
(***************************************************************************)
LEMMA IssueEffect ==
  ASSUME IInv, IInv', Record, NEW s \in Stations, Issue(s)
  PROVE  /\ canIssue /\ Accessible(pc) /\ ~isHalt(fetched) /\ ~halted /\ ~stallIssue
         /\ phase = "issue" /\ phase' = "execute" /\ source = NoStation /\ source' = NoStation
         /\ UNCHANGED <<memory, registers, output, halted>>
         /\ renameDest(fetched, s) /\ afterIssue(fetched)
         /\ ~Busy(s) /\ Busy(s)' /\ instruction'[s] = fetched
         /\ state'[s] \in {"WaitingForArgs", "ReadyToExecute"}
         /\ \A k \in Operands : /\ argSource'[s][k] = operandSource(fetched, k)
                                /\ arg'[s][k] = operandValue(fetched, k)
         /\ operand'[s] = [k \in Operands |-> D!DOperand(k)]
         /\ image'[s] = dmem /\ printed'[s] = dout
         /\ ~Older(s, s)'
         /\ \A t \in Stations \ {s} :
              /\ Busy(t)' <=> Busy(t)
              /\ Busy(t) => Kept(t) /\ Older(t, s)' /\ ~Older(s, t)'
              /\ state'[t] = state[t] /\ result'[t] = result[t]
              /\ arg'[t] = arg[t] /\ argSource'[t] = argSource[t]
         /\ \A t \in Stations : state[t] # "WriteComplete" /\ state'[t] # "WriteComplete"
         /\ \A t \in Stations : ~Unresolved(t)
<1> DEFINE i == fetched
<1> HIDE DEF i
<1>1. /\ canIssue /\ Accessible(pc) /\ ~isHalt(fetched) /\ ~halted /\ ~stallIssue
      /\ phase = "issue" /\ phase' = "execute"
      /\ UNCHANGED <<memory, registers, source, output, halted, clockCounter>>
      /\ afterIssue(fetched) /\ IssueTo(s, i, clockCounter)
  BY DEF Issue, canIssue, ToExecute, memoryVars, i
<1>2. /\ setInstruction(s, i, clockCounter) /\ list[s] = "idle"
      /\ list' = [list EXCEPT ![s] = "issued"]
  BY <1>1 DEF IssueTo, InList
<1>3. /\ instruction \in [Stations -> Instr \cup {NoInstr}] /\ state \in [Stations -> States]
      /\ startClock \in [Stations -> Nat] /\ arg \in [Stations -> [Operands -> Word]]
      /\ argSource \in [Stations -> [Operands -> Stations \cup {NoStation}]]
      /\ result \in [Stations -> Word]
      /\ list \in [Stations -> {"idle", "issued", "executing", "writing"}]
      /\ clockCounter \in Nat
  BY MaxClockAssumption DEF IInv, Coherent, TypeOK, StationTypeOK, UnitTypeOK
<1>4. /\ instruction' = [instruction EXCEPT ![s] = i]
      /\ startClock' = [startClock EXCEPT ![s] = clockCounter]
      /\ arg' = [arg EXCEPT ![s] = [k \in Operands |-> operandValue(i, k)]]
      /\ argSource' = [argSource EXCEPT ![s] = [k \in Operands |-> operandSource(i, k)]]
      /\ result' = [result EXCEPT ![s] = 0]
      /\ \E x \in {"WaitingForArgs", "ReadyToExecute"} : state' = [state EXCEPT ![s] = x]
      /\ renameDest(i, s)
  BY <1>2 DEF setInstruction
<1>5. /\ \A k \in Operands : /\ argSource'[s][k] = operandSource(i, k)
                             /\ arg'[s][k] = operandValue(i, k)
      /\ instruction'[s] = i /\ state'[s] \in {"WaitingForArgs", "ReadyToExecute"}
      /\ \A t \in Stations \ {s} :
           /\ state'[t] = state[t] /\ result'[t] = result[t]
           /\ arg'[t] = arg[t] /\ argSource'[t] = argSource[t]
           /\ instruction'[t] = instruction[t] /\ startClock'[t] = startClock[t]
           /\ list'[t] = list[t]
  BY <1>2, <1>3, <1>4
<1>6. ~Busy(s) /\ Busy(s)'
  <2>1. state[s] = "Idle" /\ state'[s] # "Idle"
    BY <1>2, <1>5 DEF IInv, Coherent, ListsAgree, StatesOf
  <2> QED BY <2>1 DEF IInv, Coherent, ListsAgree
<1>7. /\ operand'[s] = [k \in Operands |-> D!DOperand(k)]
      /\ image'[s] = dmem /\ printed'[s] = dout
  <2>1. Issued(s) /\ list'[s] # "idle" BY <1>2, <1>3 DEF Issued
  <2> QED BY <2>1 DEF Record, RecordOperands
<1>8. \A t \in Stations \ {s} : Busy(t)' <=> Busy(t)
  BY <1>5 DEF Busy
<1>9. ASSUME NEW t \in Stations \ {s}, Busy(t)
      PROVE  Kept(t) /\ Older(t, s)' /\ ~Older(s, t)'
  <2>1. list[t] # "idle"
    BY <1>9 DEF IInv, Coherent, ListsAgree, StatesOf
  <2>2. ~Issued(t) /\ list'[t] # "idle"
    BY <1>5, <2>1 DEF Issued
  <2>3. operand'[t] = operand[t] /\ image'[t] = image[t] /\ printed'[t] = printed[t]
    BY <2>2 DEF Record, RecordOperands
  <2>4. Kept(t)
    BY <1>5, <1>8, <1>9, <2>3 DEF Kept
  <2>5. startClock'[s] = clockCounter
    BY <1>3, <1>4
  <2>6. startClock[t] < clockCounter /\ startClock[t] \in Nat
    BY <1>1, <1>3, <1>9 DEF IInv, Coherent, Bookkeeping, IssueClocks
  <2>7. startClock'[t] < startClock'[s] /\ ~(startClock'[s] < startClock'[t])
    BY <1>3, <1>5, <2>5, <2>6
  <2> QED BY <2>4, <2>7 DEF Older
<1>10. ~Older(s, s)'
  <2>1. startClock'[s] = clockCounter BY <1>3, <1>4
  <2> QED BY <1>3, <2>1 DEF Older
<1>11. \A t \in Stations : state[t] # "WriteComplete" /\ state'[t] # "WriteComplete"
  BY <1>1 DEF IInv, Coherent, Bookkeeping, RetiredBeforeIssue
<1>12. source = NoStation
  BY <1>1 DEF IInv, Coherent, BusGrantsOldest
<1>13. \A t \in Stations : ~Unresolved(t)
  BY <1>1 DEF IInv, Coherent, StalledByBranch
<1> QED BY <1>1, <1>4, <1>5, <1>6, <1>7, <1>8, <1>9, <1>10, <1>11, <1>12, <1>13 DEF i

\* What was in flight is on course if it was before.
LEMMA IssueCourse ==
  ASSUME IInv, IInv', Record, NEW s \in Stations, Issue(s)
  PROVE  /\ \A t \in Stations \ {s} : OnCourse(t)' <=> OnCourse(t)
         /\ \A t \in Stations \ {s} : Busy(t) => /\ Kept(t) /\ (Faults(t)' <=> Faults(t))
                                                 /\ Value(t)' = Value(t)
                                                 /\ MemoryAfter(t)' = MemoryAfter(t)
                                                 /\ OutputAfter(t)' = OutputAfter(t)
         /\ \A t, u \in Stations \ {s} :
              Busy(t) /\ Busy(u) => (Older(t, u)' <=> Older(t, u))
<1>1. \A t \in Stations \ {s} : Busy(t) => /\ Kept(t) /\ (Faults(t)' <=> Faults(t))
                                           /\ Value(t)' = Value(t)
                                           /\ MemoryAfter(t)' = MemoryAfter(t)
                                           /\ OutputAfter(t)' = OutputAfter(t)
  BY IssueEffect, KeptTerms
<1>2. \A t, u \in Stations \ {s} :
        Busy(t) /\ Busy(u) => (Older(t, u)' <=> Older(t, u))
  BY <1>1 DEF Kept, Older
<1>3. ~Busy(s) /\ Busy(s)' /\ \A t \in Stations \ {s} :
        /\ Busy(t)' <=> Busy(t)
        /\ Busy(t) => ~Older(s, t)'
  BY IssueEffect
<1>4. \A t \in Stations \ {s} : OnCourse(t)' <=> OnCourse(t)
  BY <1>1, <1>2, <1>3 DEF OnCourse
<1> QED BY <1>1, <1>2, <1>4

\* Sequential execution does its step for the instruction issued.
LEMMA IssueSequential ==
  ASSUME IInv, IInv', LInv, Record, Well, Clean', NEW s \in Stations, Issue(s),
         IF dstatus = "running" THEN D!DStep ELSE UNCHANGED dlxVars
  PROVE  /\ pc = dpc /\ dstatus = "running"
         /\ Decoded(fetched) /\ fetched \in Instr
         /\ \A k \in Operands : operand'[s][k] \in Word
         /\ \A k \in Operands :
              operand'[s][k] = IF getArg(fetched, k) = NoReg THEN 0
                               ELSE dregs[getArg(fetched, k)]
         /\ dstatus' = "fault" \/ dstatus' = "running"
         /\ dstatus' = "fault" <=> Faults(s)'
         /\ dstatus' = "running" =>
              SequentialRun(fetched, operand'[s][1], operand'[s][2])
         /\ PrintsText(fetched) => operand'[s][1] <= MemSize
         /\ \A t \in Stations : Busy(t)' => OnCourse(t)'
<1>1. /\ canIssue /\ Accessible(pc) /\ ~isHalt(fetched)
      /\ operand'[s] = [k \in Operands |-> D!DOperand(k)]
      /\ instruction'[s] = fetched /\ ~Busy(s)
      /\ \A t \in Stations \ {s} : Busy(t)' <=> Busy(t)
  BY IssueEffect
<1>2. pc = dpc /\ dstatus = "running" /\ fetched = D!DInstruction /\ D!DStep
  BY <1>1, FetchedNext, FetchedWord
<1>3. /\ Decoded(fetched) /\ fetched \in Instr
      /\ \A k \in Operands : operand'[s][k] = D!DOperand(k) /\ operand'[s][k] \in Word
  BY <1>1, <1>2, SequentialInstr DEF LInv
<1>4. \A k \in Operands :
        operand'[s][k] = IF getArg(fetched, k) = NoReg THEN 0 ELSE dregs[getArg(fetched, k)]
  BY <1>2, <1>3, SameClasses DEF D!DOperand, D!DRead
<1>5. PICK a, b : a = operand'[s][1] /\ b = operand'[s][2]
  OBVIOUS
<1>6. a = D!DOperand(1) /\ b = D!DOperand(2) /\ a \in Word
  BY <1>3, <1>5 DEF Operands
<1>7. /\ dstatus' \in {"running", "halted", "fault", "undefined"}
      /\ dstatus' = "fault" <=> SequentialEnd(fetched, a, b)
      /\ dstatus' = "halted" => isHalt(fetched)
      /\ dstatus' = "running" => SequentialRun(fetched, a, b)
  BY <1>1, <1>2, <1>6, SequentialStep
<1>8. dstatus' = "fault" \/ dstatus' = "running"
  BY <1>1, <1>7 DEF Clean
<1>9. dstatus' = "fault" <=> Faults(s)'
  BY <1>1, <1>5, <1>7 DEF SequentialEnd, Faults
<1>10. PrintsText(fetched) => a <= MemSize
  <2>1. a \in Int /\ MemSize \in Int
    BY <1>6, WordModNat, SizeAssumption DEF Word, MemSize, WordBytes
  <2>2. PrintsText(fetched) => dstatus' # "fault"
    BY <1>7, ClassFacts DEF SequentialEnd, PrintsText, DivisionFaults
  <2> QED BY <1>7, <1>8, <2>1, <2>2 DEF SequentialRun
<1>11. \A t \in Stations : Busy(t)' => OnCourse(t)'
  <2>1. \A t \in Stations \ {s} : Busy(t) => ~Faults(t) /\ ~Faults(t)' /\ ~Older(s, t)'
    BY IssueCourse, IssueEffect DEF LInv, EndsAlike, Well
  <2>2. ~Older(s, s)'
    BY IssueEffect
  <2> QED BY <1>1, <2>1, <2>2 DEF OnCourse
<1> QED BY <1>2, <1>3, <1>4, <1>5, <1>7, <1>8, <1>9, <1>10, <1>11

\* After a fault nothing that is issued is on course.
LEMMA IssueOffCourse ==
  ASSUME IInv, IInv', LInv, Record, Clean, ~Well, NEW s \in Stations, Issue(s),
         IF dstatus = "running" THEN D!DStep ELSE UNCHANGED dlxVars
  PROVE  /\ UNCHANGED <<dpc, dregs, dmem, dout>> /\ dstatus' = "fault" /\ ~Well'
         /\ ~OnCourse(s)'
         /\ \E f \in Stations : OnCourse(f)' /\ Faults(f)'
<1>1. UNCHANGED <<dpc, dregs, dmem, dout>> /\ dstatus' = "fault" /\ dstatus = "fault" /\ ~Well'
  BY DEF Well, dlxVars
<1>2. PICK f \in Stations : OnCourse(f) /\ Faults(f)
  BY <1>1, IssueEffect DEF LInv, EndsAlike
<1>3. f # s /\ Busy(f) /\ Busy(f)'
  BY <1>2, IssueEffect DEF OnCourse
<1>4. OnCourse(f)' /\ Faults(f)' /\ Older(f, s)'
  BY <1>2, <1>3, IssueCourse, IssueEffect
<1>5. ~OnCourse(s)'
  BY <1>3, <1>4 DEF OnCourse
<1> QED BY <1>1, <1>4, <1>5

-----------------------------------------------------------------------------
\* The texts printed so far are a prefix of those printed later.
LEMMA PrefixAppend ==
  ASSUME NEW a \in Seq(Printed), NEW b \in Seq(Printed), NEW x \in Printed, IsPrefix(a, b)
  PROVE  IsPrefix(a, Append(b, x))
<1>1. Len(a) <= Len(b) /\ SubSeq(a, 1, Len(a)) = SubSeq(b, 1, Len(a))
  BY DEF IsPrefix
<1>2. Len(a) \in Nat /\ Len(b) \in Nat /\ Len(Append(b, x)) = Len(b) + 1
  OBVIOUS
<1>3. SubSeq(b, 1, Len(a)) = SubSeq(Append(b, x), 1, Len(a))
  BY <1>1, <1>2
<1> QED BY <1>1, <1>2, <1>3 DEF IsPrefix

LEMMA PrefixSelf == ASSUME NEW a \in Seq(Printed) PROVE IsPrefix(a, a)
BY DEF IsPrefix

LEMMA OutputType ==
  ASSUME LInv, Clean, NEW s \in Stations, OnCourse(s)
  PROVE  OutputAfter(s) \in Seq(Printed)
<1>1. /\ operand[s][1] \in Word /\ image[s] \in [Address -> Byte]
      /\ printed[s] \in Seq(Printed)
  BY DEF LInv, HistoryTypeOK, Operands
<1>2. stringAt(image[s], operand[s][1]) \in Seq(Word) /\ <<operand[s][1]>> \in Seq(Word)
  BY <1>1, TextWords
<1>3. PICK n : n = instruction[s].imm
  OBVIOUS
<1>4. n \in {1, 2, 3} =>
        [kind |-> n, value |-> IF n = 3 THEN stringAt(image[s], operand[s][1])
                               ELSE <<operand[s][1]>>] \in Printed
  BY <1>2 DEF Printed
<1> QED BY <1>1, <1>3, <1>4 DEF OutputAfter

\* What is issued finds its operands in the registers or waits for who has them.
LEMMA IssueOperands ==
  ASSUME IInv, IInv', LInv, Record, Clean, Clean', NEW s \in Stations, Issue(s),
         IF dstatus = "running" THEN D!DStep ELSE UNCHANGED dlxVars
  PROVE  OperandsComing'
<1> SUFFICES ASSUME NEW t \in Stations, NEW k \in Operands, OnCourse(t)'
             PROVE  /\ argSource'[t][k] = NoStation => arg'[t][k] = operand'[t][k]
                    /\ \A p \in Stations :
                         argSource'[t][k] = p => operand'[t][k] = Value(p)'
  BY DEF OperandsComing
<1>1. CASE t # s
  <2>1. /\ OnCourse(t) /\ Busy(t) /\ operand'[t] = operand[t]
        /\ arg'[t] = arg[t] /\ argSource'[t] = argSource[t]
    BY <1>1, IssueCourse, IssueEffect DEF OnCourse, Kept
  <2>2. ASSUME NEW p \in Stations, argSource[t][k] = p PROVE Value(p)' = Value(p)
    <3>1. Busy(p)
      BY <2>2, StationsAssumption DEF IInv, Coherent, ProducerInFlight
    <3>2. p # s
      BY <3>1, IssueEffect
    <3> QED BY <3>1, <3>2, IssueCourse
  <2> QED BY <2>1, <2>2 DEF LInv, OperandsComing
<1>2. CASE t = s
  <2>1. Well
    BY <1>2, IssueOffCourse
  <2> DEFINE r == getArg(fetched, k)
  <2>2. operand'[s][k] = IF r = NoReg THEN 0 ELSE dregs[r]
    BY <2>1, IssueSequential
  <2>3. /\ argSource'[s][k] = IF r = NoReg THEN NoStation ELSE renameRegisters[r]
        /\ argSource'[s][k] = NoStation => arg'[s][k] = IF r = NoReg THEN 0 ELSE registers[r]
    BY IssueEffect DEF operandSource, operandValue, getRenaming, read
  <2>4. r \in Regs \cup {NoReg}
    BY <2>1, IssueSequential, InstrFields
  <2>5. CASE r = NoReg
    BY <1>2, <2>2, <2>3, <2>5, StationsAssumption
  <2>6. CASE r \in Regs
    <3>1. r # NoReg
      BY <2>6, RegsAssumption
    <3>2. renameRegisters[r] = NoStation => registers[r] = dregs[r]
      BY <2>1, <2>6 DEF LInv, RegistersComing
    <3>3. ASSUME NEW p \in Stations, renameRegisters[r] = p PROVE dregs[r] = Value(p)'
      <4>1. Busy(p)
        BY <2>6, <3>3, StationsAssumption DEF IInv, Coherent, RenamedToYoungest
      <4>2. p # s
        BY <4>1, IssueEffect
      <4>3. dregs[r] = Value(p)
        BY <2>1, <2>6, <3>3 DEF LInv, RegistersComing
      <4> QED BY <4>1, <4>2, <4>3, IssueCourse
    <3> QED BY <1>2, <2>2, <2>3, <3>1, <3>2, <3>3
  <2> QED BY <2>4, <2>5, <2>6
<1> QED BY <1>1, <1>2

\* Its destination is renamed to it.
LEMMA IssueRegisters ==
  ASSUME IInv, IInv', LInv, Record, Clean, Clean', NEW s \in Stations, Issue(s),
         lastWriter' = lastWriter, Well' => Well,
         IF dstatus = "running" THEN D!DStep ELSE UNCHANGED dlxVars
  PROVE  RegistersComing'
<1> SUFFICES ASSUME Well', Well, NEW r \in Regs
             PROVE  /\ renameRegisters'[r] = NoStation =>
                         /\ registers[r] = dregs'[r]
                         /\ \A q \in Stations :
                              r # R0 /\ Busy(q)' /\ getDest(instruction'[q]) = r
                                => startClock'[q] < lastWriter[r]
                    /\ \A p \in Stations :
                         renameRegisters'[r] = p => dregs'[r] = Value(p)'
  BY IssueEffect DEF RegistersComing
<1> DEFINE d == getDest(fetched)
<1>1. SequentialRun(fetched, operand'[s][1], operand'[s][2])
  BY IssueSequential DEF Well
<1>2. /\ renameRegisters' = IF d \in {NoReg, R0} THEN renameRegisters
                            ELSE [renameRegisters EXCEPT ![d] = s]
      /\ instruction'[s] = fetched
      /\ renameRegisters \in [Regs -> Stations \cup {NoStation}]
      /\ dregs \in [Regs -> Word]
  BY IssueEffect, SameNames DEF renameDest, rename, IInv, Coherent, TypeOK, RenameTypeOK,
     LInv, DTypeOK, D!DTypeOK
<1>3. d \in Regs \cup {NoReg}
  BY IssueSequential, InstrFields
<1>4. /\ renameRegisters[r] = NoStation =>
           /\ registers[r] = dregs[r]
           /\ \A q \in Stations :
                r # R0 /\ Busy(q) /\ getDest(instruction[q]) = r
                  => startClock[q] < lastWriter[r]
      /\ \A p \in Stations : renameRegisters[r] = p => dregs[r] = Value(p)
  BY DEF LInv, RegistersComing
<1>5. \A q \in Stations \ {s} : Busy(q)' =>
        Busy(q) /\ instruction'[q] = instruction[q] /\ startClock'[q] = startClock[q]
  BY IssueEffect DEF Kept
<1>6. CASE r = d /\ r # R0
  <2>1. renameRegisters'[r] = s /\ s # NoStation
    BY <1>2, <1>3, <1>6, RegsAssumption, StationsAssumption
  <2>2. dregs'[r] = SequentialValue(fetched, operand'[s][1], operand'[s][2])
    BY <1>1, <1>2, <1>6, RegsAssumption DEF SequentialRun
  <2>3. Value(s)' = SequentialValue(fetched, operand'[s][1], operand'[s][2])
    BY <1>2, IssueEffect DEF Value, SequentialValue
  <2> QED BY <2>1, <2>2, <2>3
<1>7. CASE r # d \/ r = R0
  <2>1. renameRegisters'[r] = renameRegisters[r] /\ dregs'[r] = dregs[r]
    BY <1>1, <1>2, <1>3, <1>7 DEF SequentialRun
  <2>2. ASSUME NEW p \in Stations, renameRegisters[r] = p PROVE Value(p)' = Value(p)
    <3>1. Busy(p)
      BY <2>2, StationsAssumption DEF IInv, Coherent, RenamedToYoungest
    <3>2. p # s
      BY <3>1, IssueEffect
    <3> QED BY <3>1, <3>2, IssueCourse
  <2>3. \A q \in Stations : r # R0 /\ Busy(q)' /\ getDest(instruction'[q]) = r => q # s
    BY <1>2, <1>7
  <2> QED BY <1>4, <1>5, <2>1, <2>2, <2>3
<1> QED BY <1>6, <1>7

\* A new access comes after the stores to come, a new store is the last of them.
LEMMA IssueMemory ==
  ASSUME IInv, IInv', LInv, Record, Clean, Clean', NEW s \in Stations, Issue(s), Well' => Well,
         IF dstatus = "running" THEN D!DStep ELSE UNCHANGED dlxVars
  PROVE  MemoryComing'
<1>1. PICK S : S = {x \in Stations : PendingStore(x)}
  OBVIOUS
<1>2. /\ ~Busy(s) /\ s \notin S /\ memory' = memory
      /\ \A x \in Stations : Pending(x) <=> Busy(x)
      /\ \A x \in Stations : Pending(x)' <=> Busy(x)'
      /\ \A x \in Stations \ {s} : Busy(x)' <=> Busy(x)
      /\ \A x \in Stations \ {s} : Busy(x) => ~Older(s, x)' /\ Older(x, s)'
      /\ ~Older(s, s)'
  BY <1>1, IssueEffect DEF PendingStore, Pending
<1>3. \A x \in Stations \ {s} : PendingStore(x)' <=> PendingStore(x)
  BY <1>2, IssueCourse DEF PendingStore, Kept
<1>4. /\ \A x \in S : x # s /\ Busy(x) /\ MemoryAfter(x)' = MemoryAfter(x)
      /\ \A x, y \in S : Older(x, y)' <=> Older(x, y)
  BY <1>1, <1>2, IssueCourse DEF PendingStore, Pending
<1>5. Well => /\ S = {} => memory = dmem
              /\ \A x \in S : (\A y \in S : ~Older(x, y)) => dmem = MemoryAfter(x)
  BY <1>1 DEF LInv, MemoryComing, Well
<1>6. ASSUME NEW t \in Stations, OnCourse(t)', Pending(t)',
             getType(instruction'[t]) = "Memory"
      PROVE  LET earlier == {x \in Stations : PendingStore(x)' /\ Older(x, t)'} IN
             /\ earlier = {} => memory' = image'[t]
             /\ \A x \in earlier :
                  (\A y \in earlier : ~Older(x, y)') => image'[t] = MemoryAfter(x)'
  <2>1. PICK G : G = {x \in Stations : PendingStore(x)' /\ Older(x, t)'}
    OBVIOUS
  <2>2. CASE t # s
    <3>1. /\ OnCourse(t) /\ Busy(t) /\ Pending(t) /\ image'[t] = image[t]
          /\ getType(instruction[t]) = "Memory"
      BY <1>2, <1>6, <2>2, IssueCourse DEF OnCourse, Kept
    <3>2. PICK E : E = {x \in Stations : PendingStore(x) /\ Older(x, t)}
      OBVIOUS
    <3>3. /\ E = {} => memory = image[t]
          /\ \A x \in E : (\A y \in E : ~Older(x, y)) => image[t] = MemoryAfter(x)
      BY <3>1, <3>2 DEF LInv, MemoryComing
    <3>4. \A x \in Stations \ {s} : Busy(x) => (Older(x, t)' <=> Older(x, t))
      BY <2>2, <3>1, IssueCourse
    <3>5. E = G /\ E \subseteq S
      <4>1. \A x \in Stations : PendingStore(x) => Busy(x)
        BY DEF PendingStore, Pending
      <4>2. s \notin G /\ s \notin E
        BY <1>2, <2>1, <2>2, <3>1, <3>2, <4>1
      <4> QED BY <1>1, <1>3, <2>1, <3>2, <3>4, <4>1, <4>2
    <3> QED BY <1>2, <1>4, <2>1, <3>1, <3>3, <3>5
  <2>3. CASE t = s
    <3>1. Well
      BY <1>6, <2>3, IssueOffCourse
    <3>2. image'[s] = dmem
      BY IssueEffect
    <3>3. G = S
      <4>1. \A x \in S : PendingStore(x)' /\ Older(x, s)' /\ x \in Stations
        BY <1>1, <1>2, <1>3, <1>4
      <4>2. \A x \in G : x # s /\ x \in S
        BY <1>1, <1>2, <1>3, <2>1, <2>3
      <4> QED BY <2>1, <2>3, <4>1, <4>2, <1>1
    <3> QED BY <1>2, <1>4, <1>5, <2>1, <2>3, <3>1, <3>2, <3>3
  <2> QED BY <2>2, <2>3
<1>7. ASSUME Well'
      PROVE  LET stores == {x \in Stations : PendingStore(x)'} IN
             /\ stores = {} => memory' = dmem'
             /\ \A x \in stores : (\A y \in stores : ~Older(x, y)') => dmem' = MemoryAfter(x)'
  <2>1. Well /\ SequentialRun(fetched, operand'[s][1], operand'[s][2])
    BY <1>7, IssueSequential DEF Well
  <2>2. PICK G : G = {x \in Stations : PendingStore(x)'}
    OBVIOUS
  <2>3. CASE ~IsStore(fetched)
    <3>1. dmem' = dmem
      BY <2>1, <2>3 DEF SequentialRun
    <3>2. ~PendingStore(s)'
      BY <2>3, IssueEffect DEF PendingStore
    <3>3. G = S
      BY <1>1, <1>2, <1>3, <2>2, <3>2
    <3> QED BY <1>2, <1>4, <1>5, <2>1, <2>2, <3>1, <3>3
  <2>4. CASE IsStore(fetched)
    <3>1. PendingStore(s)'
      BY <1>2, <2>4, IssueEffect DEF PendingStore
    <3>2. G = S \cup {s}
      BY <1>1, <1>2, <1>3, <2>2, <3>1
    <3>3. dmem' = MemoryAfter(s)'
      BY <2>1, <2>4, IssueEffect DEF SequentialRun, MemoryAfter
    <3>4. \A x \in S : Older(x, s)'
      BY <1>1, <1>2, <1>4
    <3> QED BY <2>2, <3>2, <3>3, <3>4
  <2> QED BY <2>3, <2>4
<1> QED BY <1>6, <1>7 DEF MemoryComing

\* A store is not in flight with what prints a text.
LEMMA IssueText ==
  ASSUME IInv, IInv', LInv, Record, Clean, Clean', NEW s \in Stations, Issue(s), Well' => Well,
         ~textRace' => ~textRace,
         IF dstatus = "running" THEN D!DStep ELSE UNCHANGED dlxVars
  PROVE  TextStays'
<1> SUFFICES ASSUME Well', Well, ~textRace', ~textRace, NEW t \in Stations,
                    Pending(t)', PrintsText(instruction'[t])
             PROVE  image'[t] = dmem' /\ \A x \in Stations : ~PendingStore(x)'
  BY DEF TextStays
<1>1. /\ instruction'[s] = fetched /\ image'[s] = dmem /\ Issued(s)
      /\ SequentialRun(fetched, operand'[s][1], operand'[s][2])
  <2>1. list[s] = "idle" /\ list' = [list EXCEPT ![s] = "issued"]
    BY DEF Issue, IssueTo, InList
  <2>2. Issued(s)
    BY <2>1 DEF Issued, IInv, Coherent, TypeOK, UnitTypeOK
  <2> QED BY <2>2, IssueEffect, IssueSequential DEF Well
<1>2. /\ ~(PrintsText(fetched) /\ InFlight(IsStore))
      /\ ~(IsStore(fetched) /\ InFlight(PrintsText))
  BY <1>1 DEF Record, RecordRaces
<1>3. \A x \in Stations \ {s} :
        /\ Pending(x)' => Pending(x) /\ Kept(x)
        /\ PendingStore(x)' => PendingStore(x)
  BY IssueEffect DEF Pending, PendingStore, Kept
<1>4. \A x \in Stations : PendingStore(x) => InFlight(IsStore)
  BY DEF PendingStore, Pending, InFlight
<1>5. PrintsText(fetched) => ~IsStore(fetched)
  BY DEF PrintsText, IsStore, StoreNames
<1>6. CASE t = s
  <2>1. PrintsText(fetched)
    BY <1>1, <1>6
  <2>2. dmem' = dmem
    BY <1>1, <1>5, <2>1 DEF SequentialRun
  <2>3. ~PendingStore(s)'
    BY <1>1, <1>5, <2>1 DEF PendingStore
  <2> QED BY <1>1, <1>2, <1>3, <1>4, <1>6, <2>1, <2>2, <2>3
<1>7. CASE t # s
  <2>1. Pending(t) /\ PrintsText(instruction[t]) /\ image'[t] = image[t]
    BY <1>3, <1>7 DEF Kept
  <2>2. InFlight(PrintsText)
    BY <2>1 DEF InFlight, Pending
  <2>3. ~IsStore(fetched)
    BY <1>2, <2>2
  <2>4. dmem' = dmem /\ ~PendingStore(s)'
    BY <1>1, <2>3 DEF SequentialRun, PendingStore
  <2>5. image[t] = dmem /\ \A x \in Stations : ~PendingStore(x)
    BY <2>1 DEF LInv, TextStays
  <2> QED BY <1>3, <2>1, <2>4, <2>5
<1> QED BY <1>6, <1>7

\* A new TRAP prints after those that have not printed yet.
LEMMA IssueOutput ==
  ASSUME IInv, IInv', LInv, Record, Clean, Clean', NEW s \in Stations, Issue(s), Well' => Well,
         ~textRace' => ~textRace,
         IF dstatus = "running" THEN D!DStep ELSE UNCHANGED dlxVars
  PROVE  OutputComing'
<1> SUFFICES ASSUME Well', Well, ~textRace', ~textRace, NEW T, NEW U,
                    T = {x \in Stations : Unprinted(x)},
                    U = {x \in Stations : Unprinted(x)'}
             PROVE  /\ IsPrefix(output, dout')
                    /\ \A x \in U : IsPrefix(OutputAfter(x)', dout')
                    /\ U = {} => output = dout'
                    /\ \A x \in U : (\A y \in U : ~Older(x, y)') => dout' = OutputAfter(x)'
                    /\ \A t \in U :
                         LET earlier == {x \in U : Older(x, t)'} IN
                         /\ earlier = {} => output = printed'[t]
                         /\ \A x \in earlier :
                              (\A y \in earlier : ~Older(x, y)') => printed'[t] = OutputAfter(x)'
  <2>1. PICK T, U : /\ T = {x \in Stations : Unprinted(x)}
                    /\ U = {x \in Stations : Unprinted(x)'}
    OBVIOUS
  <2>2. output' = output
    BY IssueEffect
  <2> QED BY <2>1, <2>2 DEF OutputComing
<1>1. /\ instruction'[s] = fetched /\ image'[s] = dmem /\ printed'[s] = dout
      /\ state'[s] \in {"WaitingForArgs", "ReadyToExecute"} /\ Busy(s)' /\ ~Busy(s)
      /\ \A x \in Stations \ {s} : /\ Busy(x)' <=> Busy(x)
                                   /\ Busy(x) => Kept(x) /\ Older(x, s)' /\ ~Older(s, x)'
                                   /\ state'[x] = state[x]
      /\ ~Older(s, s)'
  BY IssueEffect
<1>2. SequentialRun(fetched, operand'[s][1], operand'[s][2]) /\ fetched \in Instr
  BY IssueSequential DEF Well
<1>3. getType(fetched) = "Trap" <=> fetched.name = "TRAP"
  BY <1>2, ClassFacts DEF Instr
<1>4. \A x \in Stations \ {s} : Unprinted(x)' <=> Unprinted(x)
  BY <1>1 DEF Unprinted, Kept
<1>5. /\ s \notin T /\ \A x \in T : x \in Stations /\ x # s /\ Busy(x)
      /\ T \subseteq U /\ U \subseteq T \cup {s}
      /\ s \in U <=> fetched.name = "TRAP"
  BY <1>1, <1>3, <1>4 DEF Unprinted
<1>6. \A x \in T : /\ OutputAfter(x)' = OutputAfter(x) /\ printed'[x] = printed[x]
                   /\ Older(x, s)' /\ ~Older(s, x)'
  BY <1>1, <1>5, IssueCourse DEF Kept
<1>7. \A x, y \in T : Older(x, y)' <=> Older(x, y)
  BY <1>5, IssueCourse
<1>8. /\ IsPrefix(output, dout)
      /\ \A x \in T : IsPrefix(OutputAfter(x), dout)
      /\ T = {} => output = dout
      /\ \A x \in T : (\A y \in T : ~Older(x, y)) => dout = OutputAfter(x)
      /\ \A t \in T :
           /\ {x \in T : Older(x, t)} = {} => output = printed[t]
           /\ \A x \in {z \in T : Older(z, t)} :
                (\A y \in {z \in T : Older(z, t)} : ~Older(x, y)) => printed[t] = OutputAfter(x)
  BY DEF LInv, OutputComing
<1>9. \A t \in T : {x \in U : Older(x, t)'} = {x \in T : Older(x, t)}
  BY <1>5, <1>6, <1>7
<1>10. ASSUME NEW t \in T
       PROVE  /\ {x \in U : Older(x, t)'} = {} => output = printed'[t]
              /\ \A x \in {z \in U : Older(z, t)'} :
                   (\A y \in {z \in U : Older(z, t)'} : ~Older(x, y)')
                     => printed'[t] = OutputAfter(x)'
  <2>1. PICK E : E = {x \in T : Older(x, t)} /\ E \subseteq T
    OBVIOUS
  <2>2. /\ E = {} => output = printed[t]
        /\ \A x \in E : (\A y \in E : ~Older(x, y)) => printed[t] = OutputAfter(x)
    BY <1>8, <2>1
  <2>3. {x \in U : Older(x, t)'} = E
    BY <1>9, <2>1
  <2> QED BY <1>6, <1>7, <2>1, <2>2, <2>3
<1>11. CASE fetched.name # "TRAP"
  <2>1. U = T /\ dout' = dout
    BY <1>2, <1>5, <1>11 DEF SequentialRun
  <2>2. \A x \in U : (\A y \in U : ~Older(x, y)') => dout' = OutputAfter(x)'
    BY <1>6, <1>7, <1>8, <2>1
  <2> QED BY <1>6, <1>8, <1>10, <2>1, <2>2
<1>12. CASE fetched.name = "TRAP"
  <2>1. U = T \cup {s}
    BY <1>5, <1>12
  <2>2. dout' = OutputAfter(s)'
    BY <1>1, <1>2, <1>12 DEF SequentialRun, OutputAfter
  <2>3. /\ output \in Seq(Printed) /\ dout \in Seq(Printed) /\ dout' \in Seq(Printed)
        /\ \A x \in T : OutputAfter(x) \in Seq(Printed)
    <3>1. dout \in Seq(Printed) /\ dout' \in Seq(Printed)
      BY SequentialTypes DEF LInv, DTypeOK, D!DTypeOK
    <3>2. output \in Seq(Printed)
      BY DEF IInv, Coherent, TypeOK, StationTypeOK
    <3>3. \A x \in T : OutputAfter(x) \in Seq(Printed)
      BY <1>5, WellOnCourse, OutputType
    <3> QED BY <3>1, <3>2, <3>3
  <2>4. dout' = dout \/ \E e \in Printed : dout' = Append(dout, e)
    <3>1. PICK n, a : n = fetched.imm /\ a = operand'[s][1]
      OBVIOUS
    <3>2. a \in Word /\ dmem \in [Address -> Byte]
      BY <3>1, IssueSequential, SameNames DEF Operands, LInv, DTypeOK, D!DTypeOK, Address
    <3>3. n \in {1, 2, 3} =>
            [kind |-> n, value |-> IF n = 3 THEN stringAt(dmem, a) ELSE <<a>>] \in Printed
      <4>1. stringAt(dmem, a) \in Seq(Word) /\ <<a>> \in Seq(Word)
        BY <3>2, TextWords
      <4> QED BY <4>1 DEF Printed
    <3> QED BY <1>2, <3>1, <3>3 DEF SequentialRun
  <2>5. /\ IsPrefix(output, dout') /\ IsPrefix(dout', dout')
        /\ \A x \in T : IsPrefix(OutputAfter(x), dout')
    <3>1. CASE dout' = dout
      BY <1>8, <2>3, <3>1, PrefixSelf
    <3>2. CASE \E e \in Printed : dout' = Append(dout, e)
      <4>1. PICK e \in Printed : dout' = Append(dout, e)
        BY <3>2
      <4>2. IsPrefix(dout', dout')
        BY <2>3, PrefixSelf
      <4>3. IsPrefix(output, dout')
        BY <1>8, <2>3, <4>1, PrefixAppend
      <4>4. \A x \in T : IsPrefix(OutputAfter(x), dout')
        BY <1>8, <2>3, <4>1, PrefixAppend
      <4> QED BY <4>2, <4>3, <4>4
    <3> QED BY <2>4, <3>1, <3>2
  <2>6. \A x \in U : (\A y \in U : ~Older(x, y)') => dout' = OutputAfter(x)'
    BY <1>6, <2>1, <2>2
  <2>7. /\ {x \in U : Older(x, s)'} = {} => output = printed'[s]
        /\ \A x \in {z \in U : Older(z, s)'} :
             (\A y \in {z \in U : Older(z, s)'} : ~Older(x, y)') => printed'[s] = OutputAfter(x)'
    <3>1. {x \in U : Older(x, s)'} = T
      BY <1>1, <1>6, <2>1
    <3> QED BY <1>1, <1>6, <1>7, <1>8, <3>1
  <2> QED BY <1>6, <1>10, <2>1, <2>2, <2>5, <2>6, <2>7
<1> QED BY <1>11, <1>12

\* An instruction is issued.
LEMMA IssueStep ==
  ASSUME IInv, IInv', LInv, [LNext]_lockstepVars, Clean, Clean', Record,
         NEW s \in Stations, Issue(s),
         IF dstatus = "running" THEN D!DStep ELSE UNCHANGED dlxVars
  PROVE  LInv'
<1>1. (Well' => Well) /\ (~textRace' => ~textRace)
  BY StaysClean
<1>2. lastWriter' = lastWriter /\ lastWriter' \in [Regs -> Nat]
  BY IssueEffect, WritersKept DEF LInv, HistoryTypeOK
<1>3. /\ phase' = "execute" /\ source' = NoStation /\ ~halted' /\ ~stallIssue
      /\ instruction'[s] = fetched /\ ~Busy(s)
      /\ state'[s] \in {"WaitingForArgs", "ReadyToExecute"}
      /\ image'[s] = dmem /\ printed'[s] = dout
      /\ \A t \in Stations \ {s} : /\ Busy(t)' <=> Busy(t)
                                   /\ state'[t] = state[t] /\ result'[t] = result[t]
      /\ \A t \in Stations : state'[t] # "WriteComplete" /\ ~Unresolved(t)
      /\ afterIssue(fetched) /\ phase = "issue"
  BY IssueEffect
<1>4. /\ \A t \in Stations \ {s} : OnCourse(t)' <=> OnCourse(t)
      /\ \A t \in Stations \ {s} : Busy(t) => /\ Kept(t) /\ (Faults(t)' <=> Faults(t))
                                              /\ Value(t)' = Value(t)
  BY IssueCourse
<1>5. DTypeOK' BY DlxStep, SequentialTypes DEF LInv
<1>6. OnCourse(s)' => Well
  BY IssueOffCourse
<1>7. \A t \in Stations \ {s} : OnCourse(t)' => OnCourse(t) /\ Busy(t) /\ Kept(t)
  BY <1>4 DEF OnCourse
<1>8. HistoryTypeOK'
  <2>1. ASSUME NEW t \in Stations, OnCourse(t)'
        PROVE  /\ \A k \in Operands : operand'[t][k] \in Word
               /\ image'[t] \in [Address -> Byte]
               /\ printed'[t] \in Seq(Printed)
    <3>1. CASE t = s
      BY <1>3, <1>6, <2>1, <3>1, IssueSequential, SameNames DEF LInv, DTypeOK, D!DTypeOK, Address
    <3>2. CASE t # s
      BY <1>7, <2>1, <3>2 DEF Kept, LInv, HistoryTypeOK
    <3> QED BY <3>1, <3>2
  <2> QED BY <1>2, <2>1 DEF HistoryTypeOK
<1>9. OperandsComing' BY IssueOperands
<1>10. ResultsSequential'
  <2> SUFFICES ASSUME NEW t \in Stations, OnCourse(t)',
                      state'[t] \in {"ExecutionComplete", "Writing", "WriteComplete"}
               PROVE  LET action == getWriteAction(instruction'[t]) IN
                      /\ action = "Register" => result'[t] = Value(t)'
                      /\ action = "PC"       =>
                           result'[t] = BranchResult(instruction'[t], operand'[t][1])
                      /\ action = "Memory"   =>
                           result'[t] = EffectiveAddress(instruction'[t], operand'[t][1])
    BY <1>3, StationsAssumption DEF ResultsSequential
  <2>1. t # s
    BY <1>3
  <2>2. /\ OnCourse(t) /\ Kept(t) /\ Value(t)' = Value(t)
        /\ state'[t] = state[t] /\ result'[t] = result[t]
    BY <1>3, <1>4, <1>7, <2>1
  <2> QED BY <2>2 DEF Kept, LInv, ResultsSequential
<1>11. RegistersComing' BY <1>1, <1>2, IssueRegisters
<1>12. FetchComing'
  <2> SUFFICES ASSUME Well', Well
               PROVE  /\ ~stallIssue' => pc' = dpc'
                      /\ \A t \in Stations :
                           Unresolved(t)' => dpc' = BranchResult(instruction'[t], operand'[t][1])
    BY <1>1 DEF FetchComing
  <2>1. pc = dpc /\ SequentialRun(fetched, operand'[s][1], operand'[s][2])
    BY IssueSequential DEF Well
  <2>2. \A t \in Stations : Unresolved(t)' => t = s /\ getType(fetched) = "Branch"
    <3>1. \A t \in Stations \ {s} : ~Unresolved(t)'
      BY <1>3, <1>4 DEF Unresolved, Kept
    <3> QED BY <1>3, <3>1 DEF Unresolved
  <2>3. /\ getType(fetched) = "Branch" =>
             stallIssue' = TRUE /\ dpc' = BranchResult(fetched, operand'[s][1])
        /\ getType(fetched) # "Branch" => pc' = dpc'
    BY <1>3, <2>1 DEF afterIssue, SequentialRun
  <2>4. ~stallIssue' => getType(fetched) # "Branch"
    BY <2>3
  <2>5. instruction'[s] = fetched
    BY <1>3
  <2> QED BY <2>2, <2>3, <2>4, <2>5
<1>13. MemoryComing' BY <1>1, IssueMemory
<1>14. TextStays' BY <1>1, IssueText
<1>15. OutputComing' BY <1>1, IssueOutput
<1>16. EndsAlike'
  <2>1. dstatus' = "fault" => \E f \in Stations : OnCourse(f)' /\ Faults(f)'
    <3>1. CASE Well
      <4>1. Busy(s)' BY IssueEffect
      <4> QED BY <3>1, <4>1, IssueSequential
    <3>2. CASE ~Well
      BY <3>2, IssueOffCourse
    <3> QED BY <3>1, <3>2
  <2>2. dstatus' # "fault" => /\ \A t \in Stations : Busy(t)' => ~Faults(t)'
                              /\ dstatus' = "running"
    <3> SUFFICES ASSUME dstatus' # "fault", Well
                 PROVE  (\A t \in Stations : Busy(t)' => ~Faults(t)') /\ dstatus' = "running"
      BY IssueOffCourse
    <3>1. ~Faults(s)' /\ dstatus' = "running"
      BY IssueSequential
    <3>2. \A t \in Stations \ {s} : Busy(t)' => ~Faults(t)'
      BY <1>3, <1>4 DEF LInv, EndsAlike, Well
    <3> QED BY <3>1, <3>2
  <2>3. ASSUME NEW t \in Stations, OnCourse(t)'
        PROVE  /\ Faults(t)' =>
                    /\ state'[t] # "WriteComplete"
                    /\ state'[t] \in {"ExecutionComplete", "Writing"} => IsStore(instruction'[t])
               /\ PrintsText(instruction'[t]) => operand'[t][1] <= MemSize
    <3>1. CASE t = s
      BY <1>3, <1>6, <2>3, <3>1, IssueSequential
    <3>2. CASE t # s
      <4>1. /\ OnCourse(t) /\ (Faults(t)' <=> Faults(t)) /\ state'[t] = state[t]
            /\ instruction'[t] = instruction[t] /\ operand'[t] = operand[t]
        BY <1>3, <1>4, <1>7, <2>3, <3>2 DEF Kept
      <4> QED BY <4>1 DEF LInv, EndsAlike
    <3> QED BY <3>1, <3>2
  <2>4. dstatus' # "fault" => /\ \A t \in Stations : Busy(t)' => ~Faults(t)'
                              /\ halted' <=> dstatus' = "halted"
    BY <1>3, <2>2
  <2>5. phase' # "done" /\ phase' # "aborted"
    BY <1>3
  <2> QED BY <2>1, <2>3, <2>4, <2>5 DEF EndsAlike
<1> QED
  BY <1>5, <1>8, <1>9, <1>10, <1>11, <1>12, <1>13, <1>14, <1>15, <1>16 DEF LInv

-----------------------------------------------------------------------------
(***************************************************************************)
(* The invariant.                                                          *)
(***************************************************************************)
LEMMA StutterStep ==
  ASSUME LInv, UNCHANGED lockstepVars
  PROVE  LInv'
<1>0. /\ UNCHANGED <<memory, registers, renameRegisters, instruction, state, startClock, arg,
                     argSource, result, source, pc, stallIssue, output, list, halted, phase>>
      /\ UNCHANGED <<dpc, dregs, dmem, dout, dstatus>>
      /\ UNCHANGED <<operand, image, printed, lastWriter, overwritten, textRace, codeRace>>
  BY DEF lockstepVars, vars, dlxVars, historyVars, memoryVars, stationVars, busVars,
     fetchVars, unitVars, loopVars
<1>1. \A s \in Stations :
        /\ Busy(s)' <=> Busy(s)
        /\ Faults(s)' <=> Faults(s)
        /\ Value(s)' = Value(s) /\ MemoryAfter(s)' = MemoryAfter(s)
        /\ OutputAfter(s)' = OutputAfter(s)
        /\ Unresolved(s)' <=> Unresolved(s)
        /\ Pending(s)' <=> Pending(s)
        /\ PendingStore(s)' <=> PendingStore(s)
        /\ Unprinted(s)' <=> Unprinted(s)
  BY <1>0 DEF Busy, Faults, Value, MemoryAfter, OutputAfter, Unresolved, Pending, PendingStore,
     Unprinted
<1>2. \A s, t \in Stations : Older(s, t)' <=> Older(s, t)
  BY <1>0 DEF Older
<1>3. \A s \in Stations : OnCourse(s)' <=> OnCourse(s)
  BY <1>1, <1>2 DEF OnCourse
<1>4. (Clean' <=> Clean) /\ (Well' <=> Well)
  BY <1>0 DEF Clean, Well
<1>5. DTypeOK' BY <1>0, SequentialTypes DEF LInv, dlxVars
<1>6. HistoryTypeOK' BY <1>0, <1>3, <1>4 DEF LInv, HistoryTypeOK
<1>7. EndsAlike'
  BY <1>0, <1>1, <1>3, <1>4 DEF LInv, EndsAlike, functionalUnitsIdle
<1>8. OperandsComing' BY <1>0, <1>1, <1>3, <1>4 DEF LInv, OperandsComing
<1>9. ResultsSequential' BY <1>0, <1>1, <1>3, <1>4 DEF LInv, ResultsSequential
<1>10. RegistersComing' BY <1>0, <1>1, <1>4 DEF LInv, RegistersComing
<1>11. FetchComing' BY <1>0, <1>1, <1>4 DEF LInv, FetchComing
<1>12. MemoryComing' BY <1>0, <1>1, <1>2, <1>3, <1>4 DEF LInv, MemoryComing
<1>13. TextStays' BY <1>0, <1>1, <1>4 DEF LInv, TextStays
<1>14. OutputComing' BY <1>0, <1>1, <1>2, <1>4 DEF LInv, OutputComing
<1> QED BY <1>5, <1>6, <1>7, <1>8, <1>9, <1>10, <1>11, <1>12, <1>13, <1>14 DEF LInv

LEMMA NextLInv == ASSUME IInv, IInv', LInv, [LNext]_lockstepVars PROVE LInv'
<1>1. CASE UNCHANGED lockstepVars
  BY <1>1, StutterStep
<1>2. CASE ~Clean'
  BY <1>2, Unclean
<1>3. CASE Consume /\ Clean'
  <2>1. Clean /\ Record /\ IF dstatus = "running" THEN D!DStep ELSE UNCHANGED dlxVars
    BY <1>3, StaysClean DEF Consume
  <2>2. CASE IssueFault
    BY <1>3, <2>1, <2>2, IssueFaultStep
  <2>3. CASE IssueHalt
    BY <1>3, <2>1, <2>3, IssueHaltStep
  <2>4. CASE \E s \in Stations : Issue(s)
    BY <1>3, <2>1, <2>4, IssueStep
  <2> QED BY <1>3, <2>2, <2>3, <2>4 DEF Consume
<1>4. CASE Other /\ Clean'
  <2>1. Clean /\ Record /\ UNCHANGED dlxVars
    BY <1>4, StaysClean DEF Other
  <2>2. CASE Advance
    BY <1>4, <2>1, <2>2, AdvanceStep
  <2>3. CASE Finish \/ IssueStalled \/ IssueFull \/ ToWrite \/ (EndCycle /\ source = NoStation)
    BY <1>4, <2>1, <2>3, OtherQuiet
  <2>4. CASE EndCycle /\ source # NoStation
    <3>1. source \in Stations
      BY <2>4 DEF IInv, Coherent, TypeOK, StationTypeOK
    <3> QED BY <1>4, <2>1, <2>4, <3>1, CommitStep
  <2>5. ASSUME NEW s \in Stations,
               ExecuteAbort(s) \/ WriteAbort(s) \/ (Execute(s) /\ ExecuteCycle(s))
        PROVE  LInv'
    BY <1>4, <2>1, <2>5, OtherQuiet
  <2>6. ASSUME NEW s \in Stations, Execute(s)
        PROVE  LInv'
    <3>1. ExecuteCycle(s) \/ ExecuteComplete(s)
      BY <2>6 DEF Execute
    <3>2. CASE ExecuteCycle(s)
      BY <2>5, <2>6, <3>2
    <3>3. CASE ExecuteComplete(s)
      BY <1>4, <2>1, <2>6, <3>3, CompleteStep
    <3> QED BY <3>1, <3>2, <3>3
  <2>7. ASSUME NEW s \in Stations, Write(s)
        PROVE  LInv'
    BY <1>4, <2>1, <2>7, WriteStep
  <2>8. \/ Advance
        \/ Finish \/ IssueStalled \/ IssueFull \/ ToWrite
        \/ EndCycle /\ source = NoStation
        \/ EndCycle /\ source # NoStation
        \/ \E s \in Stations : Execute(s)
        \/ \E s \in Stations : Write(s)
        \/ \E s \in Stations :
             ExecuteAbort(s) \/ WriteAbort(s) \/ (Execute(s) /\ ExecuteCycle(s))
    <3>1. \/ Advance \/ Finish \/ IssueStalled \/ IssueFull \/ ToWrite \/ EndCycle
          \/ \E s \in Stations : Execute(s) \/ ExecuteAbort(s)
          \/ \E s \in Stations : Write(s) \/ WriteAbort(s)
      BY <1>4, Zenon DEF Other
    <3>2. CASE \E s \in Stations : Execute(s) \/ ExecuteAbort(s)
      BY <3>2, Zenon
    <3>3. CASE \E s \in Stations : Write(s) \/ WriteAbort(s)
      BY <3>3, Zenon
    <3>4. CASE EndCycle
      BY <3>4, Zenon
    <3> QED BY <3>1, <3>2, <3>3, <3>4, Zenon
  <2> QED BY <2>2, <2>3, <2>4, <2>5, <2>6, <2>7, <2>8, Zenon
<1> QED BY <1>1, <1>2, <1>3, <1>4 DEF LNext, LStopped

LEMMA InitLInv == LInit => LInv
<1> SUFFICES ASSUME LInit PROVE LInv
  OBVIOUS
<1>1. /\ memory \in [Address -> Byte] /\ registers = [r \in Regs |-> 0] /\ 0 \in Word
      /\ renameRegisters = [r \in Regs |-> NoStation]
      /\ \A s \in Stations : instruction[s] = NoInstr
      /\ source = NoStation /\ pc = 0 /\ stallIssue = FALSE /\ output = <<>>
      /\ halted = FALSE /\ phase = "loop"
  BY ImagesAssumption, WordModNat DEF LInit, Init, RegisterInit, RenameInit, StationInit, Word
<1>2. /\ dpc = 0 /\ dregs = [r \in Regs |-> 0] /\ dmem = memory /\ dout = <<>>
      /\ dstatus = "running" /\ lastWriter = [r \in Regs |-> 0]
  BY DEF LInit, D!DInit
<1>3. \A s \in Stations : ~Busy(s)
  BY <1>1 DEF Busy
<1>4. DTypeOK
  BY <1>1, <1>2, SameNames DEF DTypeOK, D!DTypeOK, Address
<1>5. HistoryTypeOK
  BY <1>2, <1>3 DEF HistoryTypeOK, OnCourse
<1>6. EndsAlike
  BY <1>1, <1>2, <1>3 DEF EndsAlike, OnCourse
<1>7. OperandsComing
  BY <1>3 DEF OperandsComing, OnCourse
<1>8. ResultsSequential
  BY <1>3 DEF ResultsSequential, OnCourse
<1>9. RegistersComing
  BY <1>1, <1>2, <1>3, StationsAssumption DEF RegistersComing
<1>10. FetchComing
  BY <1>1, <1>2, <1>3 DEF FetchComing, Unresolved
<1>11. MemoryComing
  BY <1>2, <1>3 DEF MemoryComing, Pending, PendingStore
<1>12. TextStays
  BY <1>3 DEF TextStays, Pending
<1>13. OutputComing
  <2>1. IsPrefix(output, dout)
    <3>1. <<>> \in Seq(Printed)
      OBVIOUS
    <3> QED BY <1>1, <1>2, <3>1, PrefixSelf
  <2> QED BY <1>1, <1>2, <1>3, <2>1 DEF OutputComing, Unprinted
<1> QED BY <1>4, <1>5, <1>6, <1>7, <1>8, <1>9, <1>10, <1>11, <1>12, <1>13 DEF LInv

\* The processor of the lockstep is the processor: what is proved of it holds.
THEOREM ProcessorInvariance == LSpec => []IInv
<1>1. LInit => IInv
  BY InitInv, InitUnitInv DEF LInit, IInv
<1>2. IInv /\ [LNext]_lockstepVars => IInv'
  BY ProcessorStep, NextInv, NextUnitInv DEF IInv
<1> QED BY <1>1, <1>2, PTL DEF LSpec

\* Whatever is in flight computes what sequential execution computes, from the
\* operands and the memory of sequential execution.
THEOREM LockstepInvariance == LSpec => []LInv
<1>1. LInit => LInv
  BY InitLInv
<1>2. IInv /\ IInv' /\ LInv /\ [LNext]_lockstepVars => LInv'
  BY NextLInv
<1> QED BY <1>1, <1>2, ProcessorInvariance, PTL DEF LSpec

-----------------------------------------------------------------------------
(***************************************************************************)
(* The properties of module Lockstep.                                      *)
(***************************************************************************)
\* Instructions are fetched in the order of sequential execution, also behind a
\* branch whose condition or target had to be waited for.
THEOREM FetchInOrder == LSpec => []FetchesInSequence
<1>1. LInv => FetchesInSequence
  BY FetchedNext DEF FetchesInSequence
<1> QED BY <1>1, LockstepInvariance, PTL

\* Renaming and the bus deliver to each station the operands that sequential
\* execution gives its instruction.
THEOREM OperandsAsSequential == LSpec => []OperandsSequential
<1>1. LInv => OperandsSequential
  BY WellOnCourse DEF LInv, OperandsComing, OperandsSequential, Well
<1> QED BY <1>1, LockstepInvariance, PTL

\* A TRAP prints what it prints in sequential execution, in that order.
THEOREM PrintsAsSequential == LSpec => []PrintsInSequence
<1>1. LInv => PrintsInSequence
  BY DEF LInv, OutputComing, PrintsInSequence
<1> QED BY <1>1, LockstepInvariance, PTL

\* A program that has run out of the units has done what sequential execution
\* does to registers, memory and output.
THEOREM SameResult == LSpec => []SequentialResult
<1>1. ASSUME IInv, LInv, functionalUnitsIdle, Well
      PROVE  registers = dregs /\ memory = dmem /\ (textRace \/ output = dout)
  <2>1. \A s \in Stations : ~Busy(s)
    BY <1>1 DEF functionalUnitsIdle, IInv, Coherent, ListsAgree, StatesOf
  <2>2. \A r \in Regs : renameRegisters[r] = NoStation
    BY <1>1, <2>1 DEF IInv, Coherent, RenamedToYoungest, TypeOK, RenameTypeOK
  <2>3. \A r \in Regs : registers[r] = dregs[r]
    BY <1>1, <2>2 DEF LInv, RegistersComing
  <2>4. registers \in [Regs -> Word] /\ dregs \in [Regs -> Word]
    BY <1>1, SameNames DEF IInv, Coherent, TypeOK, RegisterTypeOK, LInv, DTypeOK, D!DTypeOK
  <2>5. registers = dregs
    BY <2>3, <2>4
  <2>6. memory = dmem
    BY <1>1, <2>1 DEF LInv, MemoryComing, Well, PendingStore, Pending
  <2>7. textRace \/ output = dout
    BY <1>1, <2>1 DEF LInv, OutputComing, Unprinted
  <2> QED BY <2>5, <2>6, <2>7
<1>2. IInv /\ LInv => SequentialResult
  BY <1>1 DEF SequentialResult
<1> QED BY <1>2, ProcessorInvariance, LockstepInvariance, PTL

\* The processor aborts a program only if sequential execution ends it
\* abnormally, and lets it return only if sequential execution halts.
THEOREM EndsAsSequential == LSpec => []AbortsOnFault
<1>1. ASSUME IInv, LInv, Clean
      PROVE  /\ phase = "aborted" => dstatus = "fault"
             /\ phase = "done" => dstatus = "halted"
  <2>1. phase = "aborted" => dstatus = "fault"
    BY <1>1 DEF LInv, EndsAlike
  <2>2. ASSUME phase = "done" PROVE dstatus = "halted"
    <3>1. halted /\ functionalUnitsIdle
      BY <1>1, <2>2 DEF LInv, EndsAlike
    <3>2. \A s \in Stations : ~Busy(s)
      BY <1>1, <3>1 DEF functionalUnitsIdle, IInv, Coherent, ListsAgree, StatesOf
    <3>3. dstatus # "fault"
      BY <1>1, <2>2, <3>2 DEF LInv, EndsAlike, OnCourse
    <3> QED BY <1>1, <3>1, <3>3 DEF LInv, EndsAlike
  <2> QED BY <2>1, <2>2
<1>2. IInv /\ LInv => AbortsOnFault
  BY <1>1 DEF AbortsOnFault
<1> QED BY <1>2, ProcessorInvariance, LockstepInvariance, PTL
=============================================================================

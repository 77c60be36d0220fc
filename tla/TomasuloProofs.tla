--------------------------- MODULE TomasuloProofs ---------------------------
EXTENDS Tomasulo, MemoryTheorems

\* The value of every instruction class is a word.
LEMMA ComputeWord ==
  ASSUME NEW i \in Instr, NEW a \in Word, NEW b \in Word
  PROVE  /\ Compute(i, a, b) \in Word
         /\ getTarget(i, a) \in Word
         /\ BranchResult(i, a) \in Word
         /\ EffectiveAddress(i, a) \in Word
<1>1. /\ i.imm \in Word /\ i.next \in Word /\ i.name \in Names
      /\ a \in Int /\ b \in Int /\ i.imm \in Int /\ i.next \in Int
  BY WordModNat DEF Instr, Word
<1>2. /\ (a + i.imm) % WordMod \in Word /\ (a + b) % WordMod \in Word
      /\ (a - b) % WordMod \in Word /\ (a * b) % WordMod \in Word
      /\ (i.next + i.imm) % WordMod \in Word
  <2>1. a * b \in Int BY <1>1
  <2> QED BY <1>1, <2>1, ModWord
<1>3. 0 \in Word BY WordModNat DEF Word
<1>4. i.name \in AluNames => Alu(i.name, a, b) \in Word BY AluAssumption
<1>5. Compute(i, a, b) \in Word BY <1>2, <1>3, <1>4 DEF Compute
<1>6. getTarget(i, a) \in Word BY <1>2 DEF getTarget
<1>7. BranchResult(i, a) \in Word BY <1>1, <1>6 DEF BranchResult
<1>8. EffectiveAddress(i, a) \in Word BY <1>2 DEF EffectiveAddress
<1> QED BY <1>5, <1>6, <1>7, <1>8

\* Decoding yields a well formed instruction with registers of the machine.
LEMMA DecodeInstr ==
  ASSUME NEW w \in Word, NEW a \in Word
  PROVE  /\ decode(w, a) \in Instr
         /\ ~HasRd(decode(w, a).name) => decode(w, a).rd = NoReg
<1>1. RawDecode(w) \in [name : Names, rd : Regs, rs1 : Regs, rs2 : Regs, imm : Word]
  BY DecodeAssumption
<1>2. (a + WordBytes) % WordMod \in Word /\ 0 \in Word
  BY ModWord, WordModNat DEF Word, WordBytes
<1> QED BY <1>1, <1>2 DEF decode, Instr

\* The registers an instruction names, its unit, and that an instruction with
\* a destination writes it through the bus.
LEMMA InstrFields ==
  ASSUME NEW i, Decoded(i)
  PROVE  /\ getDest(i) \in Regs \cup {NoReg}
         /\ \A k \in Operands : getArg(i, k) \in Regs \cup {NoReg}
         /\ getType(i) \in Types
         /\ getDest(i) # NoReg => WritesRegister(i)
         /\ i # NoInstr
<1>1. /\ i.name \in Names /\ i.rd \in Regs \cup {NoReg}
      /\ i.rs1 \in Regs \cup {NoReg} /\ i.rs2 \in Regs \cup {NoReg}
  BY DEF Decoded, Instr
<1>2. getDest(i) \in Regs \cup {NoReg}
  BY <1>1, RegsAssumption DEF getDest
<1>3. \A k \in Operands : getArg(i, k) \in Regs \cup {NoReg}
  BY <1>1 DEF getArg
<1>4. getType(i) \in Types
  BY DEF getType, getInstructionType, Types
<1>5. getDest(i) # NoReg => WritesRegister(i)
  BY <1>1 DEF Decoded, getDest, WritesRegister, getWriteAction, HasRd, Names,
     IntegerNames, BranchNames, LoadNames, StoreNames, FloatNames
<1>6. i # NoInstr
  BY <1>1 DEF NoInstr, Names, IntegerNames, BranchNames, LoadNames, StoreNames,
     FloatNames
<1> QED BY <1>2, <1>3, <1>4, <1>5, <1>6

\* The initial state satisfies the invariant.
LEMMA InitInv == Init => Coherent
<1> SUFFICES ASSUME Init PROVE Coherent OBVIOUS
<1> USE DEF Init, RegisterInit, RenameInit, StationInit, UnitInit
<1>1. TypeOK
  <2>1. MemoryTypeOK /\ RegisterTypeOK
    BY ImagesAssumption, WordModNat DEF MemoryTypeOK, RegisterTypeOK, Word
  <2>2. RenameTypeOK
    BY DEF RenameTypeOK
  <2>3. StationTypeOK
    <3>1. executeCyclesRemaining \in [Stations -> 0 .. (CycleMod - 1)]
      BY UnitAssumption
    <3>2. 0 \in Word BY WordModNat DEF Word
    <3>3. output \in Seq(Printed)
      OBVIOUS
    <3>4. /\ arg \in [Stations -> [Operands -> Word]]
          /\ argSource \in [Stations -> [Operands -> Stations \cup {NoStation}]]
      BY <3>2
    <3>5. /\ instruction \in [Stations -> Instr \cup {NoInstr}]
          /\ state \in [Stations -> States]
          /\ startClock \in [Stations -> Nat]
          /\ result \in [Stations -> Word]
      BY <3>2 DEF States
    <3> QED BY <3>1, <3>2, <3>3, <3>4, <3>5 DEF StationTypeOK
  <2>4. UnitTypeOK
    BY DEF UnitTypeOK
  <2>5. halted \in BOOLEAN /\ todo \subseteq Stations
    OBVIOUS
  <2>6. clockCounter \in 0 .. MaxClock
    BY MaxClockAssumption
  <2>7. phase \in Phases
    BY DEF Phases
  <2> QED BY <2>1, <2>2, <2>3, <2>4, <2>5, <2>6, <2>7 DEF TypeOK
<1>2. Bookkeeping
  BY DEF Bookkeeping, InstructionsDecoded, TodoInList, RetiredBeforeIssue,
     IssueClocks, Busy
<1>3. ListsAgree
  BY DEF ListsAgree, StatesOf, Busy
<1>4. ListenersWait
  BY DEF ListenersWait
<1>5. ProducerInFlight
  BY DEF ProducerInFlight
<1>6. RenamedToYoungest
  BY DEF RenamedToYoungest
<1>7. BusGrantsOldest
  BY DEF BusGrantsOldest
<1>8. StalledByBranch
  BY DEF StalledByBranch, Unresolved, Busy
<1> QED BY <1>1, <1>2, <1>3, <1>4, <1>5, <1>6, <1>7, <1>8 DEF Coherent

\* The steps that change nothing of the stations, the bus or the renaming:
\* whatever does not mention the phase is preserved.
LEMMA QuietInv ==
  ASSUME Coherent,
         UNCHANGED <<memoryVars, renameRegisters, stationVars, busVars,
                     fetchVars, output, unitVars>>,
         halted' \in BOOLEAN, UNCHANGED clockCounter, todo' \subseteq Stations,
         phase' \in Phases \ {"issue"},
         phase' = "write" => phase \in {"execute", "write"},
         phase' = "execute" => phase \in {"issue", "execute"},
         TodoInList', BusGrantsOldest'
  PROVE  Coherent'
<1> USE DEF Coherent, memoryVars, stationVars, busVars, fetchVars, unitVars
<1>1. TypeOK'
  BY DEF TypeOK, MemoryTypeOK, RegisterTypeOK, RenameTypeOK, StationTypeOK, UnitTypeOK
<1>2. Bookkeeping'
  BY DEF Bookkeeping, InstructionsDecoded, RetiredBeforeIssue, IssueClocks, Busy,
     Decoded, Phases
<1>3. ListsAgree' /\ ListenersWait' /\ ProducerInFlight' /\ RenamedToYoungest'
  BY DEF ListsAgree, ListenersWait, ProducerInFlight, RenamedToYoungest, Busy,
     Older
<1>4. StalledByBranch'
  BY DEF StalledByBranch, Unresolved, Busy
<1> QED BY <1>1, <1>2, <1>3, <1>4
-----------------------------------------------------------------------------
\* What execute returns is a word: a load that does not fault reads memory.
LEMMA ExecuteResultWord ==
  ASSUME Coherent, NEW s \in Stations, Busy(s),
         executeFaults(s) => instruction[s].name = "TRAP"
  PROVE  executeResult(s) \in Word
<1> DEFINE i == instruction[s]
           a == arg[s][1]
           b == arg[s][2]
<1>1. i \in Instr
  BY DEF Coherent, Bookkeeping, InstructionsDecoded, Decoded
<1>2. a \in Word /\ b \in Word /\ memory \in [Address -> Byte]
  BY DEF Coherent, TypeOK, StationTypeOK, MemoryTypeOK, Operands
<1>3. /\ Compute(i, a, b) \in Word /\ BranchResult(i, a) \in Word
      /\ EffectiveAddress(i, a) \in Word
  BY <1>1, <1>2, ComputeWord
<1>4. i.name \in LoadNames => readUWord(EffectiveAddress(i, a)) \in Word
  <2>1. i.name \in LoadNames => i.name # "TRAP" BY DEF LoadNames
  <2> QED BY <1>2, <1>3, <2>1, Readable DEF executeFaults, readUWord
<1>5. 0 \in Word BY WordModNat DEF Word
<1> HIDE DEF i, a, b
<1>6. executeResult(s) = CASE getType(i) = "Branch"    -> BranchResult(i, a)
                           [] i.name \in LoadNames     -> readUWord(EffectiveAddress(i, a))
                           [] i.name \in StoreNames    -> EffectiveAddress(i, a)
                           [] getType(i) = "Trap"      -> 0
                           [] OTHER                    -> Compute(i, a, b)
  BY DEF executeResult, i, a, b
<1> QED BY <1>3, <1>4, <1>5, <1>6

\* What TRAP prints is a word or a text.
LEMMA TrapOutputType ==
  ASSUME Coherent, NEW s \in Stations, trapOutput(s) PROVE
  output' \in Seq(Printed)
<1>1. output \in Seq(Printed) /\ arg[s][1] \in Word /\ memory \in [Address -> Byte]
  BY DEF Coherent, TypeOK, StationTypeOK, MemoryTypeOK, Operands
<1>2. trapValues(s) \subseteq Seq(Word)
  <2>1. Byte \subseteq Word
    <3>1. ByteMod <= WordMod
      <4>1. ByteMod * ByteMod * ByteMod \in Nat \ {0} BY ByteAssumption
      <4>2. \A n \in Nat \ {0} : ByteMod <= n * ByteMod BY ByteAssumption
      <4> QED BY <4>1, <4>2 DEF WordMod
    <3> QED BY <3>1, ByteAssumption, WordModNat DEF Byte, Word
  <2>2. arg[s][1] \in Nat BY <1>1, WordModNat DEF Word
  <2>3. readString(arg[s][1]) \in Seq(Byte) BY <1>1, <2>2, Text DEF readString
  <2>4. Seq(Byte) \subseteq Seq(Word) BY <2>1
  <2>5. <<arg[s][1]>> \in Seq(Word) /\ \A b \in Byte : <<b>> \in Seq(Word)
    BY <1>1, <2>1
  <2>6. <<>> \in Seq(Word) OBVIOUS
  <2> QED BY <2>3, <2>4, <2>5, <2>6 DEF trapValues
<1>3. CASE UNCHANGED output
  BY <1>1, <1>3
<1>4. CASE ~UNCHANGED output
  <2>1. PICK v \in trapValues(s) : /\ instruction[s].imm \in {1, 2, 3}
          /\ output' = Append(output, [kind |-> instruction[s].imm, value |-> v])
    BY <1>4 DEF trapOutput
  <2>2. [kind |-> instruction[s].imm, value |-> v] \in Printed
    BY <1>2, <2>1 DEF Printed
  <2> QED BY <1>1, <2>1, <2>2
<1> QED BY <1>3, <1>4

\* A call of execute, one that throws included, keeps the invariant.
LEMMA ExecuteInv ==
  ASSUME Coherent, NEW s \in Stations, Execute(s) \/ ExecuteAbort(s) PROVE Coherent'
<1>1. /\ phase = "execute" /\ s \in todo /\ phase' \in {"execute", "aborted"}
      /\ todo' \subseteq todo /\ UNCHANGED <<halted, clockCounter>>
      /\ UNCHANGED <<memory, registers, renameRegisters, source, listeners, pc,
                     stallIssue, list>>
      /\ ExecuteCycle(s) \/ ExecuteComplete(s) \/ ExecuteFault(s)
  BY DEF Execute, ExecuteAbort, Abort, memoryVars, busVars, fetchVars, unitVars
<1>2. UNCHANGED <<instruction, startClock, arg, argSource>>
  BY <1>1 DEF ExecuteCycle, ExecuteComplete, ExecuteFault
<1>3. /\ list[s] = "executing" /\ source = NoStation
      /\ state[s] \in {"Executing", "ExecutionComplete"}
      /\ Busy(s)
  BY <1>1 DEF Coherent, Bookkeeping, TodoInList, ListsAgree, StatesOf, BusGrantsOldest
<1>4. /\ state' \in [Stations -> States]
      /\ \A t \in Stations \ {s} : state'[t] = state[t]
      /\ state'[s] \in {"Executing", "ExecutionComplete"}
  <2>1. state \in [Stations -> States] BY DEF Coherent, TypeOK, StationTypeOK
  <2>2. \/ UNCHANGED state
        \/ state' = [state EXCEPT ![s] = "ExecutionComplete"]
    BY <1>1 DEF ExecuteCycle, ExecuteComplete, ExecuteFault
  <2> QED BY <1>3, <2>1, <2>2 DEF States
<1>5. TypeOK'
  <2>1. executeCyclesRemaining' \in [Stations -> 0 .. (CycleMod - 1)]
    <3>1. executeCyclesRemaining \in [Stations -> 0 .. (CycleMod - 1)]
      BY DEF Coherent, TypeOK, StationTypeOK
    <3>2. countDown(s) \in 0 .. (CycleMod - 1) /\ 0 \in 0 .. (CycleMod - 1)
      BY <3>1, UnitAssumption DEF countDown
    <3>3. \E c \in 0 .. (CycleMod - 1) :
            executeCyclesRemaining' = [executeCyclesRemaining EXCEPT ![s] = c]
      BY <1>1, <3>2 DEF ExecuteCycle, ExecuteComplete, ExecuteFault
    <3> QED BY <3>1, <3>3
  <2>2. result' \in [Stations -> Word]
    <3>1. result \in [Stations -> Word] BY DEF Coherent, TypeOK, StationTypeOK
    <3>2. CASE UNCHANGED result BY <3>1, <3>2
    <3>3. CASE ExecuteComplete(s)
      <4>1. executeResult(s) \in Word
        BY <1>3, <3>3, ExecuteResultWord DEF ExecuteComplete
      <4> QED BY <3>1, <3>3, <4>1 DEF ExecuteComplete
    <3> QED BY <1>1, <3>2, <3>3 DEF ExecuteCycle, ExecuteFault
  <2>3. output' \in Seq(Printed)
    <3>1. UNCHANGED output \/ trapOutput(s)
      BY <1>1 DEF ExecuteCycle, ExecuteComplete, ExecuteFault
    <3> QED BY <3>1, TrapOutputType DEF Coherent, TypeOK, StationTypeOK
  <2>4. StationTypeOK'
    BY <1>1, <1>2, <1>4, <2>1, <2>2, <2>3 DEF Coherent, TypeOK, StationTypeOK
  <2> QED
    BY <1>1, <2>4 DEF Coherent, TypeOK, MemoryTypeOK, RegisterTypeOK, RenameTypeOK, UnitTypeOK, Phases
<1>6. Bookkeeping'
  BY <1>1, <1>2, <1>3, <1>4 DEF Coherent, Bookkeeping, InstructionsDecoded,
     TodoInList, RetiredBeforeIssue, IssueClocks, Busy, Decoded
<1>7. ListsAgree' /\ ListenersWait'
  BY <1>1, <1>2, <1>3, <1>4 DEF Coherent, ListsAgree, ListenersWait, StatesOf, Busy
<1>8. ProducerInFlight'
  <2>1. \A t \in Stations, k \in Operands : argSource[t][k] \in Stations \cup {NoStation}
    BY DEF Coherent, TypeOK, StationTypeOK
  <2>2. \A t \in Stations : state[t] # "WriteComplete" => state'[t] # "WriteComplete"
    BY <1>4
  <2> QED BY <1>2, <2>1, <2>2 DEF Coherent, ProducerInFlight, Busy, Older
<1>9. RenamedToYoungest' /\ BusGrantsOldest'
  BY <1>1, <1>2, <1>3 DEF Coherent, RenamedToYoungest, BusGrantsOldest, Busy, Older
<1>10. StalledByBranch'
  BY <1>1, <1>2, <1>3, <1>4 DEF Coherent, StalledByBranch, Unresolved, Busy
<1> QED BY <1>5, <1>6, <1>7, <1>8, <1>9, <1>10 DEF Coherent
-----------------------------------------------------------------------------
\* The class of an instruction decides where its result goes.
LEMMA ActionOfType ==
  ASSUME NEW i, i.name \in Names
  PROVE  /\ getWriteAction(i) = "PC" => getType(i) = "Branch"
         /\ getWriteAction(i) \in {"None", "Memory"} => getType(i) # "Branch"
         /\ getType(i) = "Branch" => getWriteAction(i) \in {"PC", "PC_R31"}
BY DEF getWriteAction, getType, getInstructionType, Names, IntegerNames,
   BranchNames, LoadNames, StoreNames, FloatNames

\* A write that completes the station without the bus.
LEMMA WriteCompleteInv ==
  ASSUME Coherent, NEW s \in Stations, Write(s),
         WriteNothing(s) \/ WritePC(s) \/ WriteMemory(s)
  PROVE  Coherent'
<1>1. /\ phase = "write" /\ s \in todo /\ phase' = "write"
      /\ todo' = todo \ {s} /\ UNCHANGED <<halted, clockCounter>>
      /\ UNCHANGED <<registers, renameRegisters, listeners, output, list>>
  BY DEF Write, unitVars
<1>2. /\ state' = [state EXCEPT ![s] = "WriteComplete"]
      /\ UNCHANGED <<instruction, startClock, executeCyclesRemaining, arg,
                     argSource, result, source>>
      /\ ~WritesRegister(instruction[s])
  BY DEF WriteNothing, WritePC, WriteMemory, WritesRegister
<1>3. list[s] = "writing" /\ state[s] = "Writing" /\ Busy(s)
  BY <1>1 DEF Coherent, Bookkeeping, TodoInList, ListsAgree
<1>4. /\ state' \in [Stations -> States]
      /\ \A t \in Stations \ {s} : state'[t] = state[t]
      /\ state'[s] = "WriteComplete"
  BY <1>2 DEF Coherent, TypeOK, StationTypeOK, States
<1>5. TypeOK'
  <2>1. /\ pc \in Word /\ stallIssue \in BOOLEAN /\ memory \in [Address -> Byte]
        /\ result[s] \in Word /\ arg[s][2] \in Word
    BY DEF Coherent, TypeOK, StationTypeOK, MemoryTypeOK, Operands
  <2>2. pc' \in Word /\ stallIssue' \in BOOLEAN
    BY <2>1 DEF WriteNothing, WritePC, WriteMemory, fetchVars
  <2>3. memory' \in [Address -> Byte]
    BY <2>1, Writable DEF WriteNothing, WritePC, WriteMemory, writeUWord
  <2>4. StationTypeOK'
    BY <1>1, <1>2, <1>4, <2>2 DEF Coherent, TypeOK, StationTypeOK
  <2> QED
    BY <1>1, <2>3, <2>4
    DEF Coherent, TypeOK, MemoryTypeOK, RegisterTypeOK, RenameTypeOK, UnitTypeOK, Phases
<1>6. Bookkeeping'
  BY <1>1, <1>2, <1>3, <1>4 DEF Coherent, Bookkeeping, InstructionsDecoded,
     TodoInList, RetiredBeforeIssue, IssueClocks, Busy, Decoded
<1>7. ListsAgree' /\ ListenersWait'
  BY <1>1, <1>2, <1>3, <1>4 DEF Coherent, ListsAgree, ListenersWait, StatesOf, Busy
<1>8. ProducerInFlight'
  <2>1. \A t \in Stations, k \in Operands : argSource[t][k] \in Stations \cup {NoStation}
    BY DEF Coherent, TypeOK, StationTypeOK
  <2>2. \A t \in Stations : state[t] # "WriteComplete" /\ WritesRegister(instruction[t])
                              => state'[t] # "WriteComplete"
    BY <1>2, <1>4
  <2> QED BY <1>2, <2>1, <2>2 DEF Coherent, ProducerInFlight, Busy, Older
<1>9. RenamedToYoungest'
  BY <1>1, <1>2 DEF Coherent, RenamedToYoungest, Busy, Older
<1>10. BusGrantsOldest'
  <2>1. source # NoStation => source \in Stations /\ source # s
    BY <1>2 DEF Coherent, TypeOK, StationTypeOK, BusGrantsOldest
  <2>2. \A t \in Stations : Offers(t)' => Offers(t)
    BY <1>1, <1>2, <1>4 DEF Offers
  <2> QED BY <1>1, <1>2, <1>4, <2>1, <2>2 DEF Coherent, BusGrantsOldest, Older
<1>11. StalledByBranch'
  <2>1. instruction[s].name \in Names
    BY <1>3 DEF Coherent, Bookkeeping, InstructionsDecoded, Decoded, Instr
  <2>2. \A t \in Stations \ {s} : Unresolved(t)' <=> Unresolved(t)
    BY <1>2, <1>4 DEF Unresolved, Busy
  <2>3. ~Unresolved(s)'
    BY <1>4 DEF Unresolved
  <2>4. CASE WritePC(s)
    <3>1. Unresolved(s)
      BY <1>3, <2>1, <2>4, ActionOfType DEF Unresolved, WritePC
    <3>2. \A t \in Stations : ~Unresolved(t)'
      BY <2>2, <2>3, <3>1 DEF Coherent, StalledByBranch
    <3> QED BY <2>4, <3>2 DEF StalledByBranch, WritePC
  <2>5. CASE WriteNothing(s) \/ WriteMemory(s)
    <3>1. ~Unresolved(s)
      BY <2>1, <2>5, ActionOfType DEF Unresolved, WriteNothing, WriteMemory
    <3>2. \A t \in Stations : Unresolved(t)' <=> Unresolved(t)
      BY <2>2, <2>3, <3>1
    <3>3. UNCHANGED stallIssue
      BY <2>5 DEF WriteNothing, WriteMemory, fetchVars
    <3> QED BY <3>2, <3>3 DEF Coherent, StalledByBranch
  <2> QED BY <2>4, <2>5
<1> QED BY <1>5, <1>6, <1>7, <1>8, <1>9, <1>10, <1>11 DEF Coherent

\* A write that offers the result to the bus.
LEMMA WriteRegisterInv ==
  ASSUME Coherent, NEW s \in Stations, Write(s), WriteRegister(s)
  PROVE  Coherent'
<1>1. /\ phase = "write" /\ s \in todo /\ phase' = "write"
      /\ todo' = todo \ {s} /\ UNCHANGED <<halted, clockCounter>>
      /\ UNCHANGED <<registers, renameRegisters, listeners, output, list>>
  BY DEF Write, unitVars
<1>2. /\ UNCHANGED <<instruction, state, startClock, executeCyclesRemaining, arg,
                     argSource, memory, pc, stallIssue>>
      /\ WritesRegister(instruction[s])
      /\ source' = arbitrate(s)
  BY DEF WriteRegister, WritesRegister, fetchVars
<1>3. list[s] = "writing" /\ state[s] = "Writing" /\ Busy(s)
  BY <1>1 DEF Coherent, Bookkeeping, TodoInList, ListsAgree
<1>4. source \in Stations \cup {NoStation} /\ source' \in Stations /\ s # NoStation
  BY <1>2, StationsAssumption DEF Coherent, TypeOK, StationTypeOK, arbitrate
<1>5. TypeOK'
  <2>1. instruction[s].next \in Word
    BY <1>3 DEF Coherent, Bookkeeping, InstructionsDecoded, Decoded, Instr
  <2>2. result' \in [Stations -> Word]
    BY <2>1 DEF Coherent, TypeOK, StationTypeOK, WriteRegister
  <2>3. StationTypeOK'
    BY <1>1, <1>2, <1>4, <2>2 DEF Coherent, TypeOK, StationTypeOK
  <2> QED
    BY <1>1, <1>2, <2>3
    DEF Coherent, TypeOK, MemoryTypeOK, RegisterTypeOK, RenameTypeOK, UnitTypeOK, Phases
<1>6. Bookkeeping'
  BY <1>1, <1>2 DEF Coherent, Bookkeeping, InstructionsDecoded, TodoInList,
     RetiredBeforeIssue, IssueClocks, Busy, Decoded
<1>7. ListsAgree' /\ ListenersWait' /\ ProducerInFlight' /\ RenamedToYoungest'
  BY <1>1, <1>2 DEF Coherent, ListsAgree, ListenersWait, ProducerInFlight,
     RenamedToYoungest, StatesOf, Busy, Older
<1>8. BusGrantsOldest'
  <2>1. \A t \in Stations : startClock[t] \in Nat
    BY DEF Coherent, TypeOK, StationTypeOK
  <2>2. \A t \in Stations : Offers(t)' => t = s \/ Offers(t)
    BY <1>1, <1>2 DEF Offers
  <2>3. \A t \in Stations : Offers(t) => source # NoStation /\ ~Older(t, source)
    BY <1>1 DEF Coherent, BusGrantsOldest
  <2>4. \A t \in Stations : Offers(t)' => source' # NoStation /\ ~Older(t, source')
    BY <1>2, <1>4, <2>1, <2>2, <2>3, StationsAssumption DEF arbitrate, Older
  <2>5. state[source'] = "Writing" /\ WritesRegister(instruction[source'])
    BY <1>2, <1>3 DEF Coherent, BusGrantsOldest, arbitrate
  <2> QED BY <1>1, <1>2, <2>4, <2>5 DEF BusGrantsOldest, Older
<1>9. StalledByBranch'
  BY <1>2 DEF Coherent, StalledByBranch, Unresolved, Busy
<1> QED BY <1>5, <1>6, <1>7, <1>8, <1>9 DEF Coherent

\* So does a call of write.
LEMMA WriteInv ==
  ASSUME Coherent, NEW s \in Stations, Write(s) PROVE Coherent'
BY WriteCompleteInv, WriteRegisterInv DEF Write
-----------------------------------------------------------------------------
\* The commit of a result: its writer is done, and every station that waits
\* for it is told.
LEMMA CommitWriterInv ==
  ASSUME Coherent, EndCycle, NEW w \in Stations, source = w
  PROVE  Coherent'
<1>1. /\ phase' = "loop" /\ UNCHANGED <<list, halted, clockCounter, todo>>
      /\ CommitWriter(w)
  BY StationsAssumption DEF EndCycle, Commit, unitVars
<1>2. /\ state[w] = "Writing" /\ WritesRegister(instruction[w])
      /\ list[w] = "writing" /\ Busy(w) /\ w \notin listeners
  <2>1. state[w] = "Writing" /\ WritesRegister(instruction[w])
    BY StationsAssumption DEF Coherent, BusGrantsOldest
  <2>2. list[w] \in {"idle", "issued", "executing", "writing"}
    BY DEF Coherent, TypeOK, UnitTypeOK
  <2> QED BY <2>1, <2>2 DEF Coherent, ListsAgree, StatesOf, ListenersWait
<1>3. /\ UNCHANGED <<instruction, startClock, executeCyclesRemaining, result,
                     renameRegisters, memory, output>>
      /\ source' = NoStation /\ listeners' = listeners \ completed(w)
      /\ argSource' = sourcesAfter(w)
  BY <1>1 DEF CommitWriter
<1>4. completed(w) \subseteq listeners /\ listeners \subseteq Stations
  BY DEF completed, Coherent, TypeOK, StationTypeOK
<1>5. /\ \A t \in completed(w) : state'[t] = "ReadyToExecute"
      /\ state'[w] = "WriteComplete"
      /\ \A t \in Stations \ (completed(w) \cup {w}) : state'[t] = state[t]
  BY <1>1, <1>2, <1>4 DEF CommitWriter
<1>6. state' \in [Stations -> States]
  BY <1>1 DEF CommitWriter, States, Coherent, TypeOK, StationTypeOK
<1>7. /\ \A t \in Stations, k \in Operands :
           argSource'[t][k] = IF captures(t, k, w) THEN NoStation ELSE argSource[t][k]
      /\ argSource' \in [Stations -> [Operands -> Stations \cup {NoStation}]]
  BY <1>3 DEF sourcesAfter, Coherent, TypeOK, StationTypeOK
<1>8. TypeOK'
  <2>1. /\ result[w] \in Word /\ registers \in [Regs -> Word]
        /\ pc \in Word /\ stallIssue \in BOOLEAN
        /\ arg \in [Stations -> [Operands -> Word]]
    BY <1>2 DEF Coherent, TypeOK, StationTypeOK, RegisterTypeOK
  <2>2. registers' \in [Regs -> Word]
    BY <1>1, <2>1 DEF CommitWriter, write
  <2>3. arg' \in [Stations -> [Operands -> Word]]
    BY <1>1, <2>1 DEF CommitWriter
  <2>4. pc' \in Word /\ stallIssue' \in BOOLEAN
    <3>1. instruction[w] \in Instr /\ arg[w][1] \in Word
      BY <1>2, <2>1 DEF Coherent, Bookkeeping, InstructionsDecoded, Decoded, Operands
    <3>2. getTarget(instruction[w], arg[w][1]) \in Word
      BY <3>1, ComputeWord
    <3> QED BY <1>1, <2>1, <3>2 DEF CommitWriter, fetchVars
  <2>5. StationTypeOK'
    BY <1>3, <1>4, <1>6, <1>7, <2>3, <2>4 DEF Coherent, TypeOK, StationTypeOK
  <2> QED
    BY <1>1, <1>3, <2>2, <2>5
    DEF Coherent, TypeOK, MemoryTypeOK, RegisterTypeOK, RenameTypeOK, UnitTypeOK, Phases
<1>9. Bookkeeping'
  BY <1>1, <1>3 DEF Coherent, Bookkeeping, InstructionsDecoded, TodoInList,
     RetiredBeforeIssue, IssueClocks, Busy, Decoded
<1>10. ListsAgree'
  <2> SUFFICES ASSUME NEW t \in Stations
               PROVE  /\ state'[t] \in StatesOf(list[t])
                      /\ instruction[t] # NoInstr <=> state'[t] # "Idle"
    BY <1>1, <1>3 DEF ListsAgree, Busy
  <2>1. /\ state[t] \in StatesOf(list[t])
        /\ instruction[t] # NoInstr <=> state[t] # "Idle"
        /\ list[t] \in {"idle", "issued", "executing", "writing"}
    BY DEF Coherent, ListsAgree, Busy, TypeOK, UnitTypeOK
  <2>2. CASE t \in completed(w)
    BY <1>4, <1>5, <2>1, <2>2 DEF StatesOf, Coherent, ListenersWait
  <2>3. CASE t = w
    BY <1>2, <1>5, <2>1, <2>3 DEF StatesOf
  <2>4. CASE t \notin completed(w) \cup {w}
    BY <1>5, <2>1, <2>4
  <2> QED BY <2>2, <2>3, <2>4
<1>11. ListenersWait'
  <2>1. \A t \in Stations : t \in listeners' <=> state'[t] = "WaitingForArgs"
    BY <1>2, <1>3, <1>4, <1>5 DEF Coherent, ListenersWait
  <2>2. \A t \in Stations :
          t \in listeners' <=> \E k \in Operands : argSource'[t][k] # NoStation
    BY <1>3, <1>7 DEF Coherent, ListenersWait, completed, captures
  <2>3. listeners' \subseteq Stations BY <1>3, <1>4
  <2> QED BY <2>1, <2>2, <2>3 DEF ListenersWait
<1>12. ProducerInFlight'
  <2> SUFFICES ASSUME NEW t \in Stations, NEW k \in Operands,
                      argSource'[t][k] # NoStation
               PROVE  LET p == argSource'[t][k] IN
                      /\ instruction[p] # NoInstr /\ state'[p] # "WriteComplete"
                      /\ startClock[p] < startClock[t]
                      /\ getDest(instruction[p]) = getArg(instruction[t], k)
                      /\ WritesRegister(instruction[p])
    BY <1>3 DEF ProducerInFlight, Busy, Older
  <2> DEFINE p == argSource'[t][k]
  <2>1. p = argSource[t][k] /\ p \in Stations /\ ~captures(t, k, w)
    BY <1>7
  <2>2. p # w
    BY <2>1 DEF captures, Coherent, ListenersWait
  <2>3. state'[p] # "WriteComplete"
    BY <1>5, <2>1, <2>2 DEF Coherent, ProducerInFlight
  <2> QED BY <2>1, <2>3 DEF Coherent, ProducerInFlight, Busy, Older
<1>13. RenamedToYoungest' /\ BusGrantsOldest'
  BY <1>1, <1>3 DEF Coherent, RenamedToYoungest, BusGrantsOldest, Busy, Older
<1>14. StalledByBranch'
  <2>1. \A t \in Stations \ {w} : Unresolved(t)' <=> Unresolved(t)
    BY <1>3, <1>4, <1>5 DEF Unresolved, Busy, Coherent, ListenersWait
  <2>2. ~Unresolved(w)'
    BY <1>5 DEF Unresolved
  <2>3. CASE getType(instruction[w]) = "Branch"
    <3>1. Unresolved(w) BY <1>2, <2>3 DEF Unresolved
    <3>2. \A t \in Stations : ~Unresolved(t)'
      BY <1>2, <2>1, <2>2, <3>1 DEF Coherent, StalledByBranch
    <3> QED BY <1>1, <2>3, <3>2 DEF CommitWriter, StalledByBranch
  <2>4. CASE getType(instruction[w]) # "Branch"
    <3>1. ~Unresolved(w) BY <2>4 DEF Unresolved
    <3>2. \A t \in Stations : Unresolved(t)' <=> Unresolved(t)
      BY <2>1, <2>2, <3>1
    <3> QED BY <1>1, <2>4, <3>2 DEF CommitWriter, fetchVars, Coherent, StalledByBranch
  <2> QED BY <2>3, <2>4
<1> QED BY <1>8, <1>9, <1>10, <1>11, <1>12, <1>13, <1>14 DEF Coherent
-----------------------------------------------------------------------------
\* The issue of instruction i to the idle station s.  What i waits for is what
\* its operands are renamed to before its own destination is.
LEMMA IssueInv ==
  ASSUME Coherent, NEW s \in Stations, Issue(s)
  PROVE  Coherent'
<1>1. PICK i : i = fetched
  OBVIOUS
<1>2. /\ phase = "issue" /\ phase' = "execute" /\ ~stallIssue
      /\ UNCHANGED <<halted, clockCounter, memory, registers, source, output>>
      /\ todo' = {t \in Stations : list'[t] = "executing"}
  BY DEF Issue, canIssue, ToExecute, memoryVars
<1>3. /\ list[s] = "idle" /\ getType(i) = unitOf[s]
      /\ setInstruction(s, i, clockCounter)
      /\ list' = [list EXCEPT ![s] = "issued"]
  BY <1>1 DEF Issue, IssueTo, InList
<1>4. Decoded(i)
  <2>1. pc \in Word /\ memory \in [Address -> Byte] /\ Accessible(pc)
    BY DEF Issue, Coherent, TypeOK, StationTypeOK, MemoryTypeOK
  <2>2. readUWord(pc) \in Word BY <2>1, Readable DEF readUWord
  <2> QED BY <1>1, <2>1, <2>2, DecodeInstr DEF fetched, Decoded
<1>5. state[s] = "Idle" /\ ~Busy(s) /\ s \notin listeners
  BY <1>3 DEF Coherent, ListsAgree, StatesOf, ListenersWait
<1>6. PICK src : /\ src \in [Operands -> Stations \cup {NoStation}]
                 /\ \A k \in Operands : src[k] = operandSource(i, k)
  <2>1. \A k \in Operands : operandSource(i, k) \in Stations \cup {NoStation}
    BY <1>4, InstrFields DEF operandSource, getRenaming, Coherent, TypeOK, RenameTypeOK
  <2> WITNESS [k \in Operands |-> operandSource(i, k)]
  <2> QED BY <2>1
<1>7. \A k \in Operands : src[k] # NoStation =>
        /\ src[k] \in Stations \ {s} /\ Busy(src[k])
        /\ state[src[k]] # "WriteComplete"
        /\ startClock[src[k]] < clockCounter
        /\ getDest(instruction[src[k]]) = getArg(i, k)
        /\ WritesRegister(instruction[src[k]])
  <2> TAKE k \in Operands
  <2> HAVE src[k] # NoStation
  <2>1. /\ getArg(i, k) \in Regs /\ src[k] = renameRegisters[getArg(i, k)]
        /\ src[k] \in Stations
    BY <1>4, <1>6, InstrFields DEF operandSource, getRenaming
  <2>2. Busy(src[k]) /\ getDest(instruction[src[k]]) = getArg(i, k)
    BY <2>1 DEF Coherent, RenamedToYoungest
  <2>3. Decoded(instruction[src[k]])
    BY <2>1, <2>2 DEF Coherent, Bookkeeping, InstructionsDecoded
  <2>4. WritesRegister(instruction[src[k]])
    BY <2>1, <2>2, <2>3, InstrFields, RegsAssumption
  <2>5. state[src[k]] # "WriteComplete" /\ startClock[src[k]] < clockCounter
    BY <1>2, <2>1, <2>2 DEF Coherent, Bookkeeping, RetiredBeforeIssue, IssueClocks
  <2> QED BY <1>5, <2>1, <2>2, <2>4, <2>5
<1>8. /\ instruction' = [instruction EXCEPT ![s] = i]
      /\ startClock' = [startClock EXCEPT ![s] = clockCounter]
      /\ executeCyclesRemaining' =
           [executeCyclesRemaining EXCEPT ![s] = executeCycles[unitOf[s]]]
      /\ arg' = [arg EXCEPT ![s] = [k \in Operands |-> operandValue(i, k)]]
      /\ argSource' = [argSource EXCEPT ![s] = [k \in Operands |-> operandSource(i, k)]]
      /\ result' = [result EXCEPT ![s] = 0]
      /\ renameDest(i, s)
  BY <1>3 DEF setInstruction
<1>9. LET ready == \A k \in Operands : src[k] = NoStation IN
      /\ state' = [state EXCEPT ![s] = IF ready THEN "ReadyToExecute"
                                                ELSE "WaitingForArgs"]
      /\ listeners' = IF ready THEN listeners ELSE listeners \cup {s}
  BY <1>3, <1>6 DEF setInstruction
<1>10. /\ state' \in [Stations -> States]
       /\ instruction' \in [Stations -> Instr \cup {NoInstr}]
       /\ startClock' \in [Stations -> Nat]
       /\ argSource' \in [Stations -> [Operands -> Stations \cup {NoStation}]]
       /\ list' \in [Stations -> {"idle", "issued", "executing", "writing"}]
  <2>1. /\ state \in [Stations -> States] /\ startClock \in [Stations -> Nat]
        /\ instruction \in [Stations -> Instr \cup {NoInstr}]
        /\ argSource \in [Stations -> [Operands -> Stations \cup {NoStation}]]
        /\ list \in [Stations -> {"idle", "issued", "executing", "writing"}]
        /\ clockCounter \in Nat
    BY MaxClockAssumption DEF Coherent, TypeOK, StationTypeOK, UnitTypeOK
  <2>2. state' \in [Stations -> States]
    BY <1>9, <2>1 DEF States
  <2>3. argSource' \in [Stations -> [Operands -> Stations \cup {NoStation}]]
    BY <1>6, <1>8, <2>1
  <2>4. instruction' \in [Stations -> Instr \cup {NoInstr}]
    BY <1>4, <1>8, <2>1 DEF Decoded
  <2> QED BY <1>3, <1>8, <2>1, <2>2, <2>3, <2>4
<1>11. /\ \A t \in Stations \ {s} :
            /\ instruction'[t] = instruction[t] /\ state'[t] = state[t]
            /\ startClock'[t] = startClock[t] /\ argSource'[t] = argSource[t]
            /\ list'[t] = list[t]
       /\ instruction'[s] = i /\ startClock'[s] = clockCounter
       /\ \A k \in Operands : argSource'[s][k] = src[k]
       /\ list'[s] = "issued" /\ state'[s] \in {"ReadyToExecute", "WaitingForArgs"}
       /\ state'[s] = "WaitingForArgs" <=> \E k \in Operands : src[k] # NoStation
       /\ i # NoInstr
  <2>1. i # NoInstr BY <1>4, InstrFields
  <2>2. /\ state \in [Stations -> States] /\ startClock \in [Stations -> Nat]
        /\ instruction \in [Stations -> Instr \cup {NoInstr}]
        /\ argSource \in [Stations -> [Operands -> Stations \cup {NoStation}]]
        /\ list \in [Stations -> {"idle", "issued", "executing", "writing"}]
    BY DEF Coherent, TypeOK, StationTypeOK, UnitTypeOK
  <2>3. /\ state'[s] \in {"ReadyToExecute", "WaitingForArgs"}
        /\ state'[s] = "WaitingForArgs" <=> \E k \in Operands : src[k] # NoStation
        /\ \A t \in Stations \ {s} : state'[t] = state[t]
    BY <1>9, <2>2
  <2> QED BY <1>3, <1>6, <1>8, <2>1, <2>2, <2>3
<1>12. TypeOK'
  <2>1. executeCyclesRemaining' \in [Stations -> 0 .. (CycleMod - 1)]
    <3>1. executeCycles[unitOf[s]] \in 0 .. (CycleMod - 1)
      BY UnitAssumption
    <3> QED BY <1>8, <3>1 DEF Coherent, TypeOK, StationTypeOK
  <2>2. arg' \in [Stations -> [Operands -> Word]]
    <3>1. 0 \in Word BY WordModNat DEF Word
    <3>2. \A k \in Operands : operandValue(i, k) \in Word
      BY <1>4, <3>1, InstrFields DEF operandValue, read, Coherent, TypeOK, RegisterTypeOK
    <3> QED BY <1>8, <3>2 DEF Coherent, TypeOK, StationTypeOK
  <2>3. result' \in [Stations -> Word]
    BY <1>8, WordModNat DEF Word, Coherent, TypeOK, StationTypeOK
  <2>4. pc' \in Word /\ stallIssue' \in BOOLEAN
    <3>1. pc \in Word /\ pc \in Int /\ stallIssue \in BOOLEAN
      BY WordModNat DEF Coherent, TypeOK, StationTypeOK, Word
    <3>2. (pc + WordBytes) % WordMod \in Word BY <3>1, ModWord DEF WordBytes
    <3> QED BY <3>1, <3>2 DEF Issue, afterIssue
  <2>5. listeners' \subseteq Stations
    BY <1>9 DEF Coherent, TypeOK, StationTypeOK
  <2>6. RenameTypeOK'
    BY <1>8 DEF renameDest, rename, RenameTypeOK, Coherent, TypeOK
  <2>7. StationTypeOK'
    BY <1>2, <1>10, <2>1, <2>2, <2>3, <2>4, <2>5 DEF Coherent, TypeOK, StationTypeOK
  <2> QED
    BY <1>2, <1>10, <2>6, <2>7 DEF Coherent, TypeOK, MemoryTypeOK, RegisterTypeOK, UnitTypeOK,
       Phases
<1>13. Bookkeeping'
  <2>1. InstructionsDecoded'
    BY <1>3, <1>4, <1>11 DEF Coherent, Bookkeeping, InstructionsDecoded, Busy, Decoded
  <2>2. TodoInList' /\ RetiredBeforeIssue'
    BY <1>2, <1>11 DEF Coherent, Bookkeeping, TodoInList, RetiredBeforeIssue
  <2>3. IssueClocks'
    <3>1. clockCounter \in Nat /\ \A t \in Stations : startClock[t] \in Nat
      BY MaxClockAssumption DEF Coherent, TypeOK, StationTypeOK
    <3> QED
      BY <1>2, <1>11, <3>1 DEF Coherent, Bookkeeping, IssueClocks, Busy
  <2> QED BY <2>1, <2>2, <2>3 DEF Bookkeeping
<1>14. ListsAgree'
  BY <1>11 DEF Coherent, ListsAgree, StatesOf, Busy
<1>15. ListenersWait'
  <2>1. \A t \in Stations : t \in listeners' <=> state'[t] = "WaitingForArgs"
    BY <1>5, <1>9, <1>11 DEF Coherent, ListenersWait
  <2>2. \A t \in Stations : state'[t] = "WaitingForArgs"
                              <=> \E k \in Operands : argSource'[t][k] # NoStation
    BY <1>11 DEF Coherent, ListenersWait
  <2>3. listeners' \subseteq Stations BY <1>9 DEF Coherent, TypeOK, StationTypeOK
  <2> QED BY <2>1, <2>2, <2>3 DEF ListenersWait
<1>16. ProducerInFlight'
  <2> SUFFICES ASSUME NEW t \in Stations, NEW k \in Operands,
                      NEW p \in Stations, p = argSource'[t][k], p # NoStation
               PROVE  /\ instruction'[p] # NoInstr /\ state'[p] # "WriteComplete"
                      /\ startClock'[p] < startClock'[t]
                      /\ getDest(instruction'[p]) = getArg(instruction'[t], k)
                      /\ WritesRegister(instruction'[p])
    BY <1>10 DEF ProducerInFlight, Busy, Older
  <2>1. CASE t = s
    BY <1>7, <1>11, <2>1 DEF Busy
  <2>2. CASE t # s
    <3>1. p = argSource[t][k] BY <1>11, <2>2
    <3>2. /\ Busy(p) /\ state[p] # "WriteComplete" /\ startClock[p] < startClock[t]
          /\ getDest(instruction[p]) = getArg(instruction[t], k)
          /\ WritesRegister(instruction[p])
      BY <3>1 DEF Coherent, ProducerInFlight, Older
    <3>3. p # s BY <1>5, <3>2
    <3> QED BY <1>11, <2>2, <3>2, <3>3 DEF Busy
  <2> QED BY <2>1, <2>2
<1>17. RenamedToYoungest'
  <2> SUFFICES ASSUME NEW r \in Regs, NEW p \in Stations,
                      p = renameRegisters'[r], p # NoStation
               PROVE  /\ instruction'[p] # NoInstr
                      /\ r # R0 /\ getDest(instruction'[p]) = r
                      /\ \A t \in Stations :
                           instruction'[t] # NoInstr /\ getDest(instruction'[t]) = r
                             => t = p \/ startClock'[t] < startClock'[p]
    <3>1. renameRegisters' \in [Regs -> Stations \cup {NoStation}]
      BY <1>12 DEF TypeOK, RenameTypeOK
    <3> QED BY <3>1 DEF RenamedToYoungest, Busy, Older
  <2>1. CASE r = getDest(i) /\ r # R0
    <3>1. r # NoReg BY RegsAssumption
    <3>2. p = s
      BY <1>8, <2>1, <3>1 DEF renameDest, rename, Coherent, TypeOK, RenameTypeOK
    <3>3. \A t \in Stations \ {s} : Busy(t) => startClock[t] < clockCounter
      BY <1>2 DEF Coherent, Bookkeeping, IssueClocks
    <3> QED BY <1>11, <2>1, <3>2, <3>3 DEF Busy
  <2>2. CASE ~(r = getDest(i) /\ r # R0)
    <3>1. p = renameRegisters[r]
      BY <1>8, <2>2 DEF renameDest, rename, Coherent, TypeOK, RenameTypeOK
    <3>2. /\ Busy(p) /\ r # R0 /\ getDest(instruction[p]) = r
          /\ \A t \in Stations : Busy(t) /\ getDest(instruction[t]) = r
                                   => t = p \/ startClock[t] < startClock[p]
      BY <3>1 DEF Coherent, RenamedToYoungest, Older
    <3>3. p # s BY <1>5, <3>2
    <3> QED BY <1>11, <2>2, <3>2, <3>3 DEF Busy
  <2> QED BY <2>1, <2>2
<1>18. BusGrantsOldest'
  BY <1>2 DEF Coherent, BusGrantsOldest
<1>19. StalledByBranch'
  <2>1. \A t \in Stations : ~Unresolved(t)
    BY <1>2 DEF Coherent, StalledByBranch
  <2>2. \A t \in Stations \ {s} : ~Unresolved(t)'
    BY <1>11, <2>1 DEF Unresolved, Busy
  <2>3. Unresolved(s)' <=> getType(i) = "Branch"
    BY <1>11 DEF Unresolved, Busy
  <2>4. stallIssue' <=> getType(i) = "Branch"
    BY <1>1, <1>2 DEF Issue, afterIssue
  <2> QED BY <2>2, <2>3, <2>4 DEF StalledByBranch
<1> QED BY <1>12, <1>13, <1>14, <1>15, <1>16, <1>17, <1>18, <1>19 DEF Coherent
-----------------------------------------------------------------------------
\* advanceInstructions: who moves, and that the moves are disjoint.  The
\* renamings of the stations that retire are the ones that disappear.
LEMMA AdvanceInv ==
  ASSUME Coherent, Advance
  PROVE  Coherent'
<1> DEFINE writers   == UNION {Completed(u) : u \in Types}
           executers == UNION {Started(u) : u \in Types}
<1>1. PICK R, W, X : R = Retired /\ W = writers /\ X = executers
  OBVIOUS
<1> HIDE DEF writers, executers
<1>2. /\ phase = "loop" /\ phase' = "issue" /\ clockCounter' = clockCounter + 1
      /\ clockCounter < MaxClock
      /\ UNCHANGED <<memory, registers, source, listeners, pc, stallIssue, output,
                     halted, todo>>
      /\ clearInstruction(R)
      /\ list' = [t \in Stations |-> CASE t \in R -> "idle"
                                       [] t \in W -> "writing"
                                       [] t \in X -> "executing"
                                       [] OTHER   -> list[t]]
      /\ state' = [t \in Stations |-> CASE t \in R -> "Idle"
                                        [] t \in W -> "Writing"
                                        [] t \in X -> "Executing"
                                        [] OTHER   -> state[t]]
  BY <1>1 DEF Advance, AdvanceStations, memoryVars, busVars, fetchVars, writers,
     executers
<1>3. /\ \A t \in R : t \in Stations /\ list[t] = "writing" /\ state[t] = "WriteComplete"
      /\ \A t \in Stations : list[t] = "writing" /\ state[t] = "WriteComplete" => t \in R
      /\ \A t \in W : /\ t \in Stations /\ list[t] = "executing"
                      /\ state[t] = "ExecutionComplete"
      /\ \A t \in X : /\ t \in Stations /\ list[t] = "issued"
                      /\ state[t] = "ReadyToExecute"
  BY <1>1 DEF Retired, writers, executers, Completed, Started, Startable, InList
<1>4. \A t \in Stations :
        /\ t \in R => list'[t] = "idle" /\ state'[t] = "Idle"
        /\ t \in W => list'[t] = "writing" /\ state'[t] = "Writing"
        /\ t \in X => list'[t] = "executing" /\ state'[t] = "Executing"
        /\ t \notin R \cup W \cup X => list'[t] = list[t] /\ state'[t] = state[t]
  BY <1>2, <1>3
<1>5. \A t \in Stations :
        /\ t \in R => /\ instruction'[t] = NoInstr
                      /\ \A k \in Operands : argSource'[t][k] = NoStation
        /\ t \notin R => /\ instruction'[t] = instruction[t]
                         /\ startClock'[t] = startClock[t]
                         /\ argSource'[t] = argSource[t]
  BY <1>2 DEF clearInstruction
<1>6. \A t \in Stations : state[t] # "WriteComplete" => t \notin R
  BY <1>3
<1>7. /\ list' \in [Stations -> {"idle", "issued", "executing", "writing"}]
      /\ state' \in [Stations -> States]
      /\ renameRegisters' \in [Regs -> Stations \cup {NoStation}]
      /\ argSource' \in [Stations -> [Operands -> Stations \cup {NoStation}]]
  <2>1. list' \in [Stations -> {"idle", "issued", "executing", "writing"}]
    BY <1>2, <1>4 DEF Coherent, TypeOK, UnitTypeOK
  <2>2. state' \in [Stations -> States]
    BY <1>2, <1>4 DEF Coherent, TypeOK, StationTypeOK, States
  <2>3. renameRegisters' \in [Regs -> Stations \cup {NoStation}]
    BY <1>2 DEF clearInstruction, clearRename, Coherent, TypeOK, RenameTypeOK
  <2>4. argSource' \in [Stations -> [Operands -> Stations \cup {NoStation}]]
    BY <1>2 DEF clearInstruction, Coherent, TypeOK, StationTypeOK
  <2> QED BY <2>1, <2>2, <2>3, <2>4
<1>8. TypeOK'
  <2>1. /\ instruction' \in [Stations -> Instr \cup {NoInstr}]
        /\ startClock' \in [Stations -> Nat]
        /\ result' \in [Stations -> Word]
        /\ arg' \in [Stations -> [Operands -> Word]]
    <3>1. 0 \in Word /\ 0 \in Nat BY WordModNat DEF Word
    <3>2. [k \in Operands |-> 0] \in [Operands -> Word] BY <3>1
    <3> QED BY <1>2, <3>1, <3>2 DEF clearInstruction, Coherent, TypeOK, StationTypeOK
  <2>2. executeCyclesRemaining' \in [Stations -> 0 .. (CycleMod - 1)]
    <3>1. 0 \in 0 .. (CycleMod - 1) BY UnitAssumption
    <3> QED BY <1>2, <3>1 DEF clearInstruction, Coherent, TypeOK, StationTypeOK
  <2>3. StationTypeOK'
    BY <1>2, <1>7, <2>1, <2>2 DEF Coherent, TypeOK, StationTypeOK
  <2>4. clockCounter' \in 0 .. MaxClock
    BY <1>2, MaxClockAssumption DEF Coherent, TypeOK
  <2> QED
    BY <1>2, <1>7, <2>3, <2>4
    DEF Coherent, TypeOK, MemoryTypeOK, RegisterTypeOK, RenameTypeOK, UnitTypeOK, Phases
<1>9. Bookkeeping'
  <2>1. InstructionsDecoded'
    BY <1>5 DEF Coherent, Bookkeeping, InstructionsDecoded, Busy, Decoded
  <2>2. TodoInList'
    BY <1>2 DEF TodoInList
  <2>3. RetiredBeforeIssue'
    BY <1>3, <1>4 DEF RetiredBeforeIssue, Coherent, ListsAgree, StatesOf, TypeOK, UnitTypeOK
  <2>4. IssueClocks'
    <3>1. clockCounter \in Nat /\ \A t \in Stations : startClock[t] \in Nat
      BY MaxClockAssumption DEF Coherent, TypeOK, StationTypeOK
    <3> QED BY <1>2, <1>5, <3>1 DEF Coherent, Bookkeeping, IssueClocks, Busy
  <2> QED BY <2>1, <2>2, <2>3, <2>4 DEF Bookkeeping
<1>10. ListsAgree'
  <2> SUFFICES ASSUME NEW t \in Stations
               PROVE  /\ state'[t] \in StatesOf(list'[t])
                      /\ instruction'[t] # NoInstr <=> state'[t] # "Idle"
    BY DEF ListsAgree, Busy
  <2>1. /\ state[t] \in StatesOf(list[t])
        /\ instruction[t] # NoInstr <=> state[t] # "Idle"
    BY DEF Coherent, ListsAgree, Busy
  <2> QED BY <1>3, <1>4, <1>5, <2>1 DEF StatesOf
<1>11. ListenersWait'
  <2>1. \A t \in Stations : state'[t] = "WaitingForArgs" <=> state[t] = "WaitingForArgs"
    BY <1>3, <1>4
  <2>2. \A t \in Stations : (\E k \in Operands : argSource'[t][k] # NoStation)
                               <=> (\E k \in Operands : argSource[t][k] # NoStation)
    BY <1>3, <1>5 DEF Coherent, ListenersWait
  <2> QED BY <1>2, <2>1, <2>2 DEF Coherent, ListenersWait
<1>12. ProducerInFlight'
  <2> SUFFICES ASSUME NEW t \in Stations, NEW k \in Operands,
                      NEW p \in Stations, p = argSource'[t][k], p # NoStation
               PROVE  /\ instruction'[p] # NoInstr /\ state'[p] # "WriteComplete"
                      /\ startClock'[p] < startClock'[t]
                      /\ getDest(instruction'[p]) = getArg(instruction'[t], k)
                      /\ WritesRegister(instruction'[p])
    BY <1>7 DEF ProducerInFlight, Busy, Older
  <2>1. t \notin R /\ p = argSource[t][k] BY <1>5
  <2>2. /\ Busy(p) /\ state[p] # "WriteComplete" /\ startClock[p] < startClock[t]
        /\ getDest(instruction[p]) = getArg(instruction[t], k)
        /\ WritesRegister(instruction[p])
    BY <2>1 DEF Coherent, ProducerInFlight, Older
  <2>3. p \notin R BY <1>6, <2>2
  <2> QED BY <1>4, <1>5, <2>1, <2>2, <2>3 DEF Busy
<1>13. RenamedToYoungest'
  <2> SUFFICES ASSUME NEW r \in Regs, NEW p \in Stations,
                      p = renameRegisters'[r], p # NoStation
               PROVE  /\ instruction'[p] # NoInstr
                      /\ r # R0 /\ getDest(instruction'[p]) = r
                      /\ \A t \in Stations :
                           instruction'[t] # NoInstr /\ getDest(instruction'[t]) = r
                             => t = p \/ startClock'[t] < startClock'[p]
    BY <1>7 DEF RenamedToYoungest, Busy, Older
  <2>1. p = renameRegisters[r] /\ ~ \E s \in R : getReverseRename(s) = r
    BY <1>2 DEF clearInstruction, clearRename
  <2>2. /\ Busy(p) /\ r # R0 /\ getDest(instruction[p]) = r
        /\ \A t \in Stations : Busy(t) /\ getDest(instruction[t]) = r
                                 => t = p \/ startClock[t] < startClock[p]
    BY <2>1 DEF Coherent, RenamedToYoungest, Older
  <2>3. getReverseRename(p) = r
    <3>1. \A q \in Regs : renameRegisters[q] = p => q = r
      BY <2>2 DEF Coherent, RenamedToYoungest
    <3>2. renameRegisters[r] = p BY <2>1
    <3> QED BY <3>1, <3>2 DEF getReverseRename
  <2>4. p \notin R BY <2>1, <2>3
  <2> QED BY <1>5, <2>2, <2>4 DEF Busy
<1>14. BusGrantsOldest'
  BY <1>2 DEF Coherent, BusGrantsOldest
<1>15. StalledByBranch'
  <2>1. \A t \in Stations : Unresolved(t)' <=> Unresolved(t)
    BY <1>3, <1>4, <1>5 DEF Unresolved, Busy
  <2> QED BY <1>2, <2>1 DEF Coherent, StalledByBranch
<1> QED BY <1>8, <1>9, <1>10, <1>11, <1>12, <1>13, <1>14, <1>15 DEF Coherent

-----------------------------------------------------------------------------
\* Every step of the processor keeps the invariant.
LEMMA NextInv == Coherent /\ [Next]_vars => Coherent'
<1> SUFFICES ASSUME Coherent, [Next]_vars PROVE Coherent'
  OBVIOUS
<1> USE DEF memoryVars, stationVars, busVars, fetchVars, unitVars
<1>1. /\ phase \in Phases /\ todo \subseteq Stations /\ halted \in BOOLEAN
  BY DEF Coherent, TypeOK
<1>2. CASE Advance BY <1>2, AdvanceInv
<1>3. CASE \E s \in Stations : Issue(s) BY <1>3, IssueInv
<1>4. CASE \E s \in Stations : Execute(s) \/ ExecuteAbort(s) BY <1>4, ExecuteInv
<1>5. CASE \E s \in Stations : Write(s) BY <1>5, WriteInv
<1>6. CASE EndCycle
  <2>1. CASE source # NoStation
    BY <1>6, <2>1, CommitWriterInv DEF Coherent, TypeOK, StationTypeOK
  <2>2. CASE source = NoStation
    <3>1. /\ UNCHANGED <<memoryVars, renameRegisters, stationVars, busVars,
                         fetchVars, output, unitVars>>
          /\ UNCHANGED <<halted, clockCounter, todo>> /\ phase' = "loop"
      BY <1>6, <2>2 DEF EndCycle, Commit
    <3>2. TodoInList' /\ BusGrantsOldest'
      BY <2>2, <3>1 DEF TodoInList, BusGrantsOldest
    <3> QED BY <1>1, <3>1, <3>2, QuietInv DEF Phases
  <2> QED BY <2>1, <2>2
<1>7. CASE Finish
  <2>1. TodoInList' /\ BusGrantsOldest'
    BY <1>7 DEF Finish, TodoInList, BusGrantsOldest, Coherent
  <2> QED BY <1>1, <1>7, <2>1, QuietInv DEF Finish, Phases
<1>8. CASE IssueStalled \/ IssueHalt \/ IssueFull
  <2>1. /\ UNCHANGED <<memoryVars, renameRegisters, stationVars, busVars,
                       fetchVars, output, unitVars, clockCounter>>
        /\ halted' \in BOOLEAN /\ phase = "issue" /\ phase' = "execute"
        /\ todo' = {s \in Stations : list'[s] = "executing"}
    BY <1>1, <1>8 DEF IssueStalled, IssueHalt, IssueFull, canIssue, ToExecute
  <2>2. TodoInList' /\ BusGrantsOldest'
    BY <2>1 DEF TodoInList, BusGrantsOldest, Coherent
  <2>3. todo' \subseteq Stations BY <2>1
  <2> QED BY <2>1, <2>2, <2>3, QuietInv DEF Phases
<1>9. CASE IssueFault \/ \E s \in Stations : WriteAbort(s)
  <2>1. /\ UNCHANGED <<memoryVars, renameRegisters, stationVars, busVars,
                       fetchVars, output, unitVars, clockCounter, halted, todo>>
        /\ phase \in {"issue", "write"} /\ phase' = "aborted"
    BY <1>9 DEF IssueFault, WriteAbort, canIssue, Abort
  <2>2. TodoInList' /\ BusGrantsOldest'
    BY <2>1 DEF TodoInList, BusGrantsOldest, Coherent
  <2> QED BY <1>1, <2>1, <2>2, QuietInv DEF Phases
<1>10. CASE ToWrite
  <2>1. /\ UNCHANGED <<memoryVars, renameRegisters, stationVars, busVars,
                       fetchVars, output, unitVars, clockCounter, halted>>
        /\ phase = "execute" /\ phase' = "write"
        /\ todo' = {s \in Stations : list[s] = "writing"}
    BY <1>10 DEF ToWrite
  <2>2. \A s \in todo' : state[s] = "Writing"
    BY <2>1 DEF Coherent, Bookkeeping, RetiredBeforeIssue, ListsAgree, StatesOf
  <2>3. TodoInList' /\ BusGrantsOldest'
    BY <2>1, <2>2 DEF TodoInList, BusGrantsOldest, Offers, Coherent
  <2> QED BY <1>1, <2>1, <2>3, QuietInv DEF Phases
<1>11. CASE UNCHANGED vars
  BY <1>11 DEF vars, loopVars, Coherent, TypeOK, MemoryTypeOK, RegisterTypeOK, RenameTypeOK,
     StationTypeOK, UnitTypeOK, Bookkeeping, InstructionsDecoded, TodoInList,
     RetiredBeforeIssue, IssueClocks, ListsAgree, ListenersWait, ProducerInFlight,
     RenamedToYoungest, BusGrantsOldest, StalledByBranch, Unresolved, Offers,
     Busy, Older, Decoded
<1> QED
  BY <1>2, <1>3, <1>4, <1>5, <1>6, <1>7, <1>8, <1>9, <1>10, <1>11
  DEF Next, Step, Stopped

\* The processor keeps its inductive invariant, whatever the program, the
\* number and latency of its units and the size of its memory.
THEOREM Invariance == Spec => []Coherent
<1>1. Init => Coherent BY InitInv
<1>2. Coherent /\ [Next]_vars => Coherent' BY NextInv
<1> QED BY <1>1, <1>2, PTL DEF Spec
-----------------------------------------------------------------------------
(***************************************************************************)
(* The properties of module Tomasulo that follow from the invariant.       *)
(***************************************************************************)
\* Every variable keeps its type: no field of a station, a register or the
\* bus ever holds anything else.
THEOREM TypeCorrect == Spec => []TypeOK
<1>1. Coherent => TypeOK BY DEF Coherent
<1> QED BY <1>1, Invariance, PTL

\* The list a unit keeps a station in always fits the state the station is in,
\* although the two are changed by different parts of the program.
THEOREM ListsAlwaysAgree == Spec => []ListsAgree
<1>1. Coherent => ListsAgree BY DEF Coherent
<1> QED BY <1>1, Invariance, PTL

\* The bus keeps as listeners exactly the stations that miss an operand.
THEOREM ListenersAlwaysWait == Spec => []ListenersWait
<1>1. Coherent => ListenersWait BY DEF Coherent
<1> QED BY <1>1, Invariance, PTL

\* No station waits for a result that will not come: its producer is older, in
\* flight, and has the register of the operand still to write.
THEOREM NoLostWakeup == Spec => []ProducerInFlight
<1>1. Coherent => ProducerInFlight BY DEF Coherent
<1> QED BY <1>1, Invariance, PTL

\* A renamed register stands for the youngest instruction that writes it.
THEOREM RenamesYoungest == Spec => []RenamedToYoungest
<1>1. Coherent => RenamedToYoungest BY DEF Coherent
<1> QED BY <1>1, Invariance, PTL

\* The bus goes to the instruction issued first among those that want it.
THEOREM OldestGetsBus == Spec => []BusGrantsOldest
<1>1. Coherent => BusGrantsOldest BY DEF Coherent
<1> QED BY <1>1, Invariance, PTL

\* Issue is stalled exactly while the one unresolved branch is in flight.
THEOREM OneBranchInFlight == Spec => []StalledByBranch
<1>1. Coherent => StalledByBranch BY DEF Coherent
<1> QED BY <1>1, Invariance, PTL

\* The loop of run ends only with every unit idle.
LEMMA DoneIdleStep ==
  ASSUME phase = "done" => functionalUnitsIdle, [Next]_vars
  PROVE  (phase = "done" => functionalUnitsIdle)'
<1>1. CASE UNCHANGED vars
  BY <1>1 DEF vars, loopVars, unitVars, functionalUnitsIdle
<1>2. CASE Finish
  BY <1>2 DEF Finish, Working, functionalUnitsIdle, unitVars
<1>3. CASE Next /\ ~Finish /\ ~UNCHANGED vars
  <2>1. phase' # "done"
    BY <1>3 DEF Next, Step, Stopped, Advance, IssueStalled, IssueFault, IssueHalt,
       IssueFull, Issue, Execute, ExecuteAbort, ToWrite, Write, WriteAbort,
       EndCycle, ToExecute, Abort
  <2> QED BY <2>1
<1> QED BY <1>1, <1>2, <1>3

\* When run returns no instruction, renaming, listener, result on the bus or
\* stall is left behind.
THEOREM Drained == Spec => []DrainedWhenDone
<1> DEFINE DoneIdle == phase = "done" => functionalUnitsIdle
<1>1. Init => DoneIdle BY DEF Init
<1>2. DoneIdle /\ [Next]_vars => DoneIdle' BY DoneIdleStep
<1>3. Coherent /\ DoneIdle => DrainedWhenDone
  <2> SUFFICES ASSUME Coherent, phase = "done", functionalUnitsIdle
               PROVE  DrainedWhenDone
    BY DEF DrainedWhenDone
  <2>1. \A s \in Stations : ~Busy(s) /\ state[s] = "Idle"
    BY DEF functionalUnitsIdle, Coherent, ListsAgree, StatesOf
  <2>2. \A r \in Regs : renameRegisters[r] = NoStation
    BY <2>1 DEF Coherent, TypeOK, RenameTypeOK, RenamedToYoungest
  <2>3. listeners = {}
    BY <2>1 DEF Coherent, ListenersWait
  <2>4. source = NoStation /\ ~stallIssue
    BY <2>1 DEF Coherent, BusGrantsOldest, StalledByBranch, Unresolved
  <2> QED BY <2>1, <2>2, <2>3, <2>4 DEF DrainedWhenDone
<1> QED BY <1>1, <1>2, <1>3, Invariance, PTL DEF Spec
-----------------------------------------------------------------------------
\* Only the issue to an idle station, the retirement of a station and the bus
\* change operands; the bus only those that wait for its writer.
LEMMA OperandStep ==
  ASSUME Coherent, [Next]_vars, NEW s \in Stations, NEW k \in Operands,
         Busy(s), argSource[s][k] = NoStation, instruction'[s] # NoInstr
  PROVE  arg'[s][k] = arg[s][k] /\ argSource'[s][k] = NoStation
<1>1. CASE Advance
  BY <1>1 DEF Advance, AdvanceStations, clearInstruction
<1>2. CASE \E t \in Stations : Issue(t)
  <2>1. PICK t \in Stations : Issue(t) BY <1>2
  <2>2. list[t] = "idle" /\ setInstruction(t, fetched, clockCounter)
    BY <2>1 DEF Issue, IssueTo, InList
  <2>3. t # s
    BY <2>2 DEF Coherent, ListsAgree, StatesOf
  <2>4. arg \in [Stations -> [Operands -> Word]]
        /\ argSource \in [Stations -> [Operands -> Stations \cup {NoStation}]]
    BY DEF Coherent, TypeOK, StationTypeOK
  <2> QED BY <2>2, <2>3, <2>4 DEF setInstruction
<1>3. CASE EndCycle
  <2>1. CASE source = NoStation
    BY <1>3, <2>1 DEF EndCycle, Commit, stationVars
  <2>2. CASE source # NoStation
    <3>1. CommitWriter(source) BY <1>3, <2>2 DEF EndCycle, Commit
    <3>2. ~captures(s, k, source) BY <2>2 DEF captures
    <3> QED BY <3>1, <3>2 DEF CommitWriter, sourcesAfter
  <2> QED BY <2>1, <2>2
<1>4. CASE ~Advance /\ ~(\E t \in Stations : Issue(t)) /\ ~EndCycle
  <2>1. UNCHANGED <<arg, argSource>>
    BY <1>4 DEF Next, Step, Stopped, vars, stationVars, Finish, IssueStalled,
       IssueFault, IssueHalt, IssueFull, Execute, ExecuteAbort, ExecuteCycle,
       ExecuteComplete, ExecuteFault, ToWrite, Write, WriteNothing, WriteRegister,
       WritePC, WriteMemory, WriteAbort
  <2> QED BY <2>1
<1> QED BY <1>1, <1>2, <1>3, <1>4

\* An operand delivered to a station is never replaced, whatever the bus
\* carries until the instruction retires.
THEOREM OperandsDeliveredOnce == Spec => OperandsStable
<1>1. Coherent /\ [Next]_vars =>
        [\A s \in Stations, k \in Operands :
           Busy(s) /\ argSource[s][k] = NoStation /\ instruction'[s] # NoInstr
             => arg'[s][k] = arg[s][k] /\ argSource'[s][k] = NoStation]_vars
  BY OperandStep
<1> QED BY <1>1, Invariance, PTL DEF Spec, OperandsStable

\* While a branch is unresolved the pc stays where it is.
LEMMA StalledStep ==
  ASSUME [Next]_vars, stallIssue, stallIssue'
  PROVE  pc' = pc
<1> USE DEF fetchVars
<1>1. CASE EndCycle
  BY <1>1 DEF EndCycle, Commit, CommitWriter
<1>2. CASE \E s \in Stations : Write(s)
  BY <1>2 DEF Write, WriteNothing, WriteRegister, WritePC, WriteMemory
<1>3. CASE ~EndCycle /\ ~(\E s \in Stations : Write(s))
  BY <1>3 DEF Next, Step, Stopped, vars, Advance, Finish, IssueStalled, IssueFault,
     IssueHalt, IssueFull, Issue, canIssue, Execute, ExecuteAbort, ToWrite,
     WriteAbort
<1> QED BY <1>1, <1>2, <1>3

\* Between the issue of a branch and the moment it sets the pc nothing else
\* moves the pc.
THEOREM PCWaitsForBranch == Spec => PCStable
<1>1. [Next]_vars => [stallIssue /\ stallIssue' => pc' = pc]_vars
  BY StalledStep
<1> QED BY <1>1, PTL DEF Spec, PCStable
-----------------------------------------------------------------------------
(***************************************************************************)
(* The units: how many stations they work on, and in which order.          *)
(***************************************************************************)
\* A set with one element at most.
LEMMA AtMostOne ==
  ASSUME NEW S, IsFiniteSet(S), Cardinality(S) <= 1, NEW x \in S, NEW y \in S
  PROVE  x = y
<1> SUFFICES ASSUME x # y PROVE FALSE
  OBVIOUS
<1>1. IsFiniteSet({x}) /\ Cardinality({x}) = 1
  BY FS_Singleton
<1>2. Cardinality({x} \cup {y}) = 2
  BY <1>1, FS_AddElement
<1>3. {x} \cup {y} \in SUBSET S
  OBVIOUS
<1>4. Cardinality({x} \cup {y}) <= Cardinality(S) /\ Cardinality(S) \in Nat
  BY <1>3, FS_Subset, FS_CardinalityType
<1> QED BY <1>2, <1>4

\* Two finite sets have at most as many elements together as apart.
LEMMA UnionBound ==
  ASSUME NEW S, NEW T, IsFiniteSet(S), IsFiniteSet(T)
  PROVE  IsFiniteSet(S \cup T) /\ Cardinality(S \cup T) <= Cardinality(S) + Cardinality(T)
<1>1. /\ IsFiniteSet(S \cup T)
      /\ Cardinality(S \cup T) = Cardinality(S) + Cardinality(T) - Cardinality(S \cap T)
  BY FS_Union
<1>2. Cardinality(S) \in Nat /\ Cardinality(T) \in Nat /\ Cardinality(S \cap T) \in Nat
  BY FS_Intersection, FS_CardinalityType
<1> QED BY <1>1, <1>2

\* Whatever is gathered from the stations of a unit is finite.
LEMMA FiniteStations ==
  ASSUME NEW S, S \subseteq Stations
  PROVE  IsFiniteSet(S) /\ Cardinality(S) \in Nat
BY FiniteAssumption, FS_Subset, FS_CardinalityType

-----------------------------------------------------------------------------
\* What the advance does to a station: it retires it, moves it on to the next
\* list, or leaves it alone.
LEMMA AdvanceEffect ==
  ASSUME Coherent, Advance
  PROVE  /\ phase = "loop" /\ phase' = "issue" /\ clockCounter' = clockCounter + 1
         /\ clockCounter < MaxClock
         /\ UNCHANGED <<memory, registers, source, listeners, pc, stallIssue,
                        output, halted, todo>>
         /\ clearRename(Retired)
         /\ \A s \in Retired :
              /\ s \in Stations /\ list[s] = "writing" /\ state[s] = "WriteComplete"
              /\ list'[s] = "idle" /\ state'[s] = "Idle" /\ instruction'[s] = NoInstr
         /\ \A s \in Stations \ Retired :
              /\ ~(list[s] = "writing" /\ state[s] = "WriteComplete")
              /\ instruction'[s] = instruction[s]
              /\ startClock'[s] = startClock[s]
              /\ executeCyclesRemaining'[s] = executeCyclesRemaining[s]
              /\ arg'[s] = arg[s] /\ argSource'[s] = argSource[s]
              /\ result'[s] = result[s]
              /\ s \in Completed(unitOf[s]) =>
                   /\ list[s] = "executing" /\ state[s] = "ExecutionComplete"
                   /\ list'[s] = "writing" /\ state'[s] = "Writing"
              /\ s \in Started(unitOf[s]) =>
                   /\ list[s] = "issued" /\ state[s] = "ReadyToExecute"
                   /\ list'[s] = "executing" /\ state'[s] = "Executing"
              /\ s \notin Completed(unitOf[s]) \cup Started(unitOf[s]) =>
                   list'[s] = list[s] /\ state'[s] = state[s]
<1> DEFINE writers   == UNION {Completed(u) : u \in Types}
           executers == UNION {Started(u) : u \in Types}
<1>1. /\ phase = "loop" /\ phase' = "issue" /\ clockCounter' = clockCounter + 1
      /\ clockCounter < MaxClock
      /\ UNCHANGED <<memory, registers, source, listeners, pc, stallIssue, output,
                     halted, todo>>
      /\ clearInstruction(Retired)
      /\ list' = [t \in Stations |-> CASE t \in Retired -> "idle"
                                       [] t \in writers -> "writing"
                                       [] t \in executers -> "executing"
                                       [] OTHER   -> list[t]]
      /\ state' = [t \in Stations |-> CASE t \in Retired -> "Idle"
                                        [] t \in writers -> "Writing"
                                        [] t \in executers -> "Executing"
                                        [] OTHER   -> state[t]]
  BY DEF Advance, AdvanceStations, memoryVars, busVars, fetchVars
<1>2. /\ \A s \in Stations : s \in writers <=> s \in Completed(unitOf[s])
      /\ \A s \in Stations : s \in executers <=> s \in Started(unitOf[s])
  <2>1. \A s \in Stations, u \in Types : s \in Completed(u) \cup Started(u) => u = unitOf[s]
    BY DEF Completed, Started, Startable, InList
  <2>2. \A s \in Stations : unitOf[s] \in Types
    BY UnitAssumption
  <2> QED BY <2>1, <2>2
<1> HIDE DEF writers, executers
<1>3. \A s \in Stations :
        /\ s \in Retired <=> list[s] = "writing" /\ state[s] = "WriteComplete"
        /\ s \in Completed(unitOf[s]) =>
             list[s] = "executing" /\ state[s] = "ExecutionComplete"
        /\ s \in Started(unitOf[s]) =>
             list[s] = "issued" /\ state[s] = "ReadyToExecute"
  BY DEF Retired, Completed, Started, Startable, InList
<1>4. Retired \subseteq Stations
  BY DEF Retired
<1>5. \A s \in Stations :
        /\ s \in Retired => instruction'[s] = NoInstr
        /\ s \notin Retired =>
              /\ instruction'[s] = instruction[s]
              /\ startClock'[s] = startClock[s]
              /\ executeCyclesRemaining'[s] = executeCyclesRemaining[s]
              /\ arg'[s] = arg[s] /\ argSource'[s] = argSource[s]
              /\ result'[s] = result[s]
  BY <1>1 DEF clearInstruction
<1>6. \A s \in Stations :
        /\ s \in Retired => list'[s] = "idle" /\ state'[s] = "Idle"
        /\ s \in Completed(unitOf[s]) => list'[s] = "writing" /\ state'[s] = "Writing"
        /\ s \in Started(unitOf[s]) => list'[s] = "executing" /\ state'[s] = "Executing"
        /\ s \notin Retired \cup Completed(unitOf[s]) \cup Started(unitOf[s]) =>
             list'[s] = list[s] /\ state'[s] = state[s]
  BY <1>1, <1>2, <1>3
<1>7. clearRename(Retired)
  BY <1>1 DEF clearInstruction
<1> QED BY <1>1, <1>3, <1>4, <1>5, <1>6, <1>7

\* The stations that hold an execution unit, and those that keep it through
\* the advance.
Holding(u) == InList(u, "executing") \cup InList(u, "writing")

\* No two instructions in flight are of the same age.
LEMMA AgesDiffer ==
  ASSUME Coherent, NEW s \in Stations, NEW t \in Stations, Busy(s), Busy(t), s # t
  PROVE  /\ startClock[s] \in Nat /\ startClock[t] \in Nat
         /\ Older(s, t) \/ Older(t, s)
<1>1. startClock[s] \in Nat /\ startClock[t] \in Nat
  BY DEF Coherent, TypeOK, StationTypeOK
<1>2. startClock[s] # startClock[t]
  BY DEF Coherent, Bookkeeping, IssueClocks
<1> QED BY <1>1, <1>2 DEF Older

\* Not more stations start than there are execution units free: a station that
\* starts has fewer in front of it than that, and no two have equally many.
LEMMA StartedBound ==
  ASSUME Coherent, NEW u \in Types, freeUnits(u) \in Nat
  PROVE  IsFiniteSet(Started(u)) /\ Cardinality(Started(u)) <= freeUnits(u)
<1> DEFINE Front(s) == {t \in Startable(u) : Older(t, s)}
           F    == freeUnits(u)
           rank == [s \in Started(u) |-> Cardinality(Front(s))]
<1>1. Startable(u) \subseteq Stations /\ Started(u) \subseteq Startable(u)
  BY DEF Startable, Started, InList
<1>2. \A s \in Started(u) : Busy(s) /\ startClock[s] \in Nat
  BY DEF Started, Startable, InList, Coherent, ListsAgree, TypeOK, StationTypeOK
<1>3. \A s : IsFiniteSet(Front(s)) /\ Cardinality(Front(s)) \in Nat
  BY <1>1, FiniteStations
<1>4. rank \in [Started(u) -> 0 .. (F - 1)]
  <2>1. \A s \in Started(u) : Cardinality(Front(s)) < F
    BY DEF Started
  <2>2. \A s \in Started(u) : Cardinality(Front(s)) \in 0 .. (F - 1)
    BY <1>3, <2>1
  <2> QED BY <2>2
<1>5. ASSUME NEW s \in Started(u), NEW t \in Started(u), Older(s, t)
      PROVE  rank[s] # rank[t]
  <2>1. \A x \in Startable(u) : startClock[x] \in Nat
    BY <1>1 DEF Coherent, TypeOK, StationTypeOK
  <2>2. Front(s) \in SUBSET Front(t) /\ s \in Front(t) /\ s \notin Front(s)
    BY <1>1, <1>2, <1>5, <2>1 DEF Older
  <2>3. Cardinality(Front(s)) # Cardinality(Front(t))
    BY <1>3, <2>2, FS_Subset
  <2> QED BY <2>3
<1>6. rank \in Injection(Started(u), 0 .. (F - 1))
  <2>1. \A s, t \in Started(u) : rank[s] = rank[t] => s = t
    BY <1>1, <1>2, <1>5, AgesDiffer
  <2> QED BY <1>4, <2>1 DEF Injection, IsInjective
<1>7. IsFiniteSet(0 .. (F - 1)) /\ Cardinality(0 .. (F - 1)) = F
  BY FS_Interval
<1>8. IsFiniteSet(Started(u)) /\ Cardinality(Started(u)) <= Cardinality(0 .. (F - 1))
  BY <1>6, <1>7, FS_Injection
<1> QED BY <1>7, <1>8

\* An in-order unit at work is at work on one instruction.
LEMMA OneAtWork ==
  ASSUME Coherent, UnitsNotOverbooked, NEW u \in Types, executeInOrder(u),
         NEW s \in Holding(u), NEW t \in Holding(u)
  PROVE  s = t
<1>1. Holding(u) \subseteq Stations
  BY DEF Holding, InList
<1>2. IsFiniteSet(Holding(u)) /\ Cardinality(Holding(u)) <= 1
  BY <1>1, FiniteStations, InOrderAssumption DEF UnitsNotOverbooked, Holding
<1> QED BY <1>2, AtMostOne

\* It has a free execution unit at most, and none while one is held.
LEMMA InOrderFree ==
  ASSUME NEW u \in Types, executeInOrder(u)
  PROVE  /\ freeUnits(u) \in Int /\ freeUnits(u) <= 1
         /\ \A s \in Holding(u) \ Retired : freeUnits(u) <= 0
<1>1. PICK Kept : Kept = Holding(u) \ Retired
  OBVIOUS
<1>2. freeUnits(u) = 1 - Cardinality(Kept)
  BY <1>1, InOrderAssumption DEF freeUnits, Holding
<1>3. Kept \subseteq Stations
  BY <1>1 DEF Holding, InList
<1>4. Cardinality(Kept) \in Nat /\ (Kept # {} => Cardinality(Kept) # 0)
  BY <1>3, FiniteStations, FS_EmptySet
<1> QED BY <1>1, <1>2, <1>4

\* The advance never gives out more execution units than there are.
LEMMA AdvanceBooks ==
  ASSUME Coherent, UnitsNotOverbooked, Advance
  PROVE  UnitsNotOverbooked'
<1> SUFFICES ASSUME NEW u \in Types
             PROVE  Cardinality(Holding(u)') <= numExecuteUnits[u]
  BY DEF UnitsNotOverbooked, Holding
<1> DEFINE Kept == Holding(u) \ Retired
<1>1. Holding(u) \subseteq Stations /\ Kept \subseteq Stations
  BY DEF Holding, InList
<1>2. IsFiniteSet(Kept) /\ Cardinality(Kept) \in Nat /\ Cardinality(Kept) <= numExecuteUnits[u]
  <2>1. IsFiniteSet(Holding(u)) /\ Cardinality(Holding(u)) \in Nat
    BY <1>1, FiniteStations
  <2>2. Cardinality(Holding(u)) <= numExecuteUnits[u]
    BY DEF UnitsNotOverbooked, Holding
  <2>3. IsFiniteSet(Kept) /\ Cardinality(Kept) \in Nat /\ Cardinality(Kept) <= Cardinality(Holding(u))
    BY <1>1, <2>1, FS_Subset, FiniteStations
  <2> QED BY <2>1, <2>2, <2>3, ExecuteUnitsAssumption
<1>3. freeUnits(u) = numExecuteUnits[u] - Cardinality(Kept) /\ freeUnits(u) \in Nat
  BY <1>2, ExecuteUnitsAssumption DEF freeUnits, Holding
<1>4. IsFiniteSet(Started(u)) /\ Cardinality(Started(u)) \in Nat
      /\ Cardinality(Started(u)) <= freeUnits(u)
  BY <1>3, StartedBound, FS_CardinalityType
<1>5. Holding(u)' \subseteq Kept \cup Started(u)
  <2> SUFFICES ASSUME NEW s \in Stations, unitOf[s] = u,
                      list'[s] = "executing" \/ list'[s] = "writing"
               PROVE  s \in Kept \cup Started(u)
    BY DEF Holding, InList
  <2>1. s \notin Retired
    BY AdvanceEffect
  <2>2. s \in Started(u) \/ list[s] = "executing" \/ list[s] = "writing"
    BY <2>1, AdvanceEffect
  <2> QED BY <2>1, <2>2 DEF Holding, InList
<1>6. /\ IsFiniteSet(Kept \cup Started(u))
      /\ Cardinality(Kept \cup Started(u)) <= Cardinality(Kept) + Cardinality(Started(u))
  BY <1>2, <1>4, UnionBound
<1>7. /\ Cardinality(Holding(u)') <= Cardinality(Kept \cup Started(u))
      /\ Cardinality(Holding(u)') \in Nat /\ Cardinality(Kept \cup Started(u)) \in Nat
  <2>1. PICK H, K : H = Holding(u)' /\ K = Kept \cup Started(u)
    OBVIOUS
  <2>2. H \in SUBSET K /\ IsFiniteSet(K)
    BY <1>5, <1>6, <2>1
  <2>3. Cardinality(H) <= Cardinality(K) /\ IsFiniteSet(H)
    BY <2>2, FS_Subset
  <2> QED BY <2>1, <2>2, <2>3, FS_CardinalityType
<1> QED BY <1>2, <1>3, <1>4, <1>6, <1>7, ExecuteUnitsAssumption

\* Nor does it let an instruction of an in-order unit pass another: what starts
\* is the oldest of those issued, and finds the unit empty.
LEMMA AdvanceOrder ==
  ASSUME Coherent, UnitInv, Advance
  PROVE  UnitInOrder'
<1> SUFFICES ASSUME NEW s \in Stations, NEW t \in Stations,
                    unitOf[s] = unitOf[t], unitOf[s] \in {"Trap", "Memory"},
                    list'[s] # "idle", list'[t] \in {"executing", "writing"},
                    startClock'[s] < startClock'[t]
             PROVE  FALSE
  BY DEF UnitInOrder, Older
<1> DEFINE u == unitOf[t]
<1>1. u \in Types /\ executeInOrder(u)
  BY DEF Types, executeInOrder
<1>2. s \notin Retired /\ t \notin Retired
  BY AdvanceEffect
<1>3. startClock'[s] = startClock[s] /\ startClock'[t] = startClock[t] /\ Older(s, t)
  BY <1>2, AdvanceEffect DEF Older
<1>4. list[s] # "idle"
  <2>1. s \notin Completed(unitOf[s]) \cup Started(unitOf[s]) => list[s] = list'[s]
    BY <1>2, AdvanceEffect
  <2> QED BY <1>2, <2>1, AdvanceEffect
<1>5. CASE list[t] \in {"executing", "writing"}
  BY <1>3, <1>4, <1>5 DEF UnitInv, UnitInOrder
<1>6. CASE list[t] \notin {"executing", "writing"}
  <2>1. t \in Started(u)
    BY <1>2, <1>6, AdvanceEffect
  <2>2. CASE list[s] = "issued"
    <3>1. state[s] = "ReadyToExecute"
      BY <1>1, <1>3, <2>1, <2>2 DEF Started, Startable, InList
    <3>2. s \in Startable(u)
      <4> SUFFICES ASSUME NEW x \in InList(u, "issued"), Older(x, s)
                   PROVE  state[x] = "ReadyToExecute"
        BY <2>2, <3>1 DEF Startable, InList
      <4>1. Older(x, t)
        BY <1>3 DEF InList, Older, Coherent, TypeOK, StationTypeOK
      <4> QED BY <1>1, <2>1, <4>1 DEF Started, Startable
    <3>3. PICK Front : Front = {x \in Startable(u) : Older(x, t)}
      OBVIOUS
    <3>4. s \in Front /\ Front \subseteq Stations
      BY <1>3, <3>2, <3>3 DEF Startable, InList
    <3>5. Cardinality(Front) \in Nat /\ Cardinality(Front) # 0
      BY <3>4, FiniteStations, FS_EmptySet
    <3>6. Cardinality(Front) < freeUnits(u)
      BY <2>1, <3>3 DEF Started
    <3> QED BY <1>1, <3>5, <3>6, InOrderFree
  <2>3. CASE list[s] # "issued"
    <3>1. list[s] \in {"executing", "writing"}
      BY <1>4, <2>3 DEF Coherent, TypeOK, UnitTypeOK
    <3>2. s \in Holding(u) \ Retired
      BY <1>2, <3>1 DEF Holding, InList
    <3>3. freeUnits(u) <= 0 /\ freeUnits(u) \in Int
      BY <1>1, <3>2, InOrderFree
    <3>4. PICK Front : Front = {x \in Startable(u) : Older(x, t)}
      OBVIOUS
    <3>5. Front \subseteq Stations
      BY <3>4 DEF Startable, InList
    <3>6. Cardinality(Front) \in Nat
      BY <3>5, FiniteStations
    <3>7. Cardinality(Front) < freeUnits(u)
      BY <2>1, <3>4 DEF Started
    <3> QED BY <3>3, <3>6, <3>7
  <2> QED BY <2>2, <2>3
<1> QED BY <1>5, <1>6

\* All that has completed moves on: in an in-order unit nothing is in front of it.
LEMMA AdvanceStarts ==
  ASSUME Coherent, UnitInv, Advance
  PROVE  ExecutingStarts' /\ Countdown' /\ ExecutedOnce'
<1>1. ExecutingStarts'
  <2> SUFFICES ASSUME NEW s \in Stations, list'[s] = "executing"
               PROVE  state'[s] = "Executing"
    BY DEF ExecutingStarts
  <2>1. s \notin Retired
    BY AdvanceEffect
  <2>2. CASE s \in Started(unitOf[s])
    BY <2>1, <2>2, AdvanceEffect
  <2>3. CASE s \notin Started(unitOf[s])
    <3>1. s \notin Completed(unitOf[s])
      BY <2>1, AdvanceEffect
    <3>2. list[s] = "executing" /\ state'[s] = state[s]
      BY <2>1, <2>3, <3>1, AdvanceEffect
    <3>3. state[s] \in {"Executing", "ExecutionComplete"}
      BY <3>2 DEF Coherent, ListsAgree, StatesOf
    <3>4. state[s] # "ExecutionComplete"
      <4> SUFFICES ASSUME state[s] = "ExecutionComplete" PROVE FALSE
        OBVIOUS
      <4>1. PICK t \in InList(unitOf[s], "executing") :
              executeInOrder(unitOf[s]) /\ Older(t, s) /\ t # s
        BY <3>1, <3>2 DEF Completed, InList, Older, Coherent, TypeOK, StationTypeOK
      <4>2. s \in Holding(unitOf[s]) /\ t \in Holding(unitOf[s])
        BY <3>2 DEF Holding, InList
      <4> QED BY <4>1, <4>2, UnitAssumption, OneAtWork DEF UnitInv
    <3> QED BY <3>2, <3>3, <3>4
  <2> QED BY <2>2, <2>3
<1>2. Countdown'
  <2> SUFFICES ASSUME NEW s \in Stations,
                      state'[s] \in {"WaitingForArgs", "ReadyToExecute", "Executing"}
               PROVE  executeCyclesRemaining'[s] > 0
    BY DEF Countdown
  <2>1. s \notin Retired /\ phase = "loop"
    BY AdvanceEffect
  <2>2. /\ executeCyclesRemaining'[s] = executeCyclesRemaining[s]
        /\ state[s] \in {"WaitingForArgs", "ReadyToExecute", "Executing"}
    BY <2>1, AdvanceEffect
  <2> QED BY <2>1, <2>2 DEF UnitInv, Countdown
<1>3. ExecutedOnce'
  BY AdvanceEffect DEF ExecutedOnce
<1> QED BY <1>1, <1>2, <1>3

\* The advance keeps all of it.
LEMMA AdvanceUnitInv == ASSUME Coherent, UnitInv, Advance PROVE UnitInv'
BY AdvanceBooks, AdvanceOrder, AdvanceStarts DEF UnitInv
-----------------------------------------------------------------------------
\* While stations stay in their lists, so do those that hold execution units.
LEMMA ListsKept ==
  ASSUME UnitInv, UNCHANGED <<list, startClock>>
  PROVE  UnitsNotOverbooked' /\ UnitInOrder'
BY DEF UnitInv, UnitsNotOverbooked, UnitInOrder, InList, Older

\* A new instruction is the youngest of its unit and has yet to execute.
LEMMA IssueUnitInv ==
  ASSUME Coherent, UnitInv, NEW s \in Stations, Issue(s)
  PROVE  UnitInv'
<1>1. /\ phase = "issue" /\ phase' = "execute"
      /\ todo' = {t \in Stations : list'[t] = "executing"}
      /\ list[s] = "idle" /\ list' = [list EXCEPT ![s] = "issued"]
      /\ setInstruction(s, fetched, clockCounter)
  BY DEF Issue, canIssue, ToExecute, IssueTo, InList
<1>2. /\ list \in [Stations -> {"idle", "issued", "executing", "writing"}]
      /\ state \in [Stations -> States] /\ startClock \in [Stations -> Nat]
      /\ executeCyclesRemaining \in [Stations -> 0 .. (CycleMod - 1)]
      /\ clockCounter \in Nat
  BY MaxClockAssumption DEF Coherent, TypeOK, StationTypeOK, UnitTypeOK
<1>3. /\ \A t \in Stations \ {s} :
           /\ list'[t] = list[t] /\ state'[t] = state[t]
           /\ startClock'[t] = startClock[t]
           /\ executeCyclesRemaining'[t] = executeCyclesRemaining[t]
      /\ list'[s] = "issued" /\ startClock'[s] = clockCounter
      /\ executeCyclesRemaining'[s] > 0
  <2>1. executeCycles[unitOf[s]] > 0 BY UnitAssumption
  <2> QED BY <1>1, <1>2, <2>1 DEF setInstruction
<1>4. \A u \in Types : InList(u, "executing")' = InList(u, "executing")
                       /\ InList(u, "writing")' = InList(u, "writing")
  BY <1>1, <1>3 DEF InList
<1>5. UnitsNotOverbooked'
  BY <1>4 DEF UnitInv, UnitsNotOverbooked
<1>6. UnitInOrder'
  <2> SUFFICES ASSUME NEW x \in Stations, NEW t \in Stations,
                      unitOf[x] = unitOf[t], unitOf[x] \in {"Trap", "Memory"},
                      list'[x] # "idle", list'[t] \in {"executing", "writing"}
               PROVE  ~(startClock'[x] < startClock'[t])
    BY DEF UnitInOrder, Older
  <2>1. t # s /\ list[t] \in {"executing", "writing"} /\ startClock'[t] = startClock[t]
    BY <1>3
  <2>2. CASE x = s
    <3>1. startClock[t] <= clockCounter
      BY <2>1 DEF Coherent, ListsAgree, StatesOf, Bookkeeping, IssueClocks
    <3> QED BY <1>2, <1>3, <2>1, <2>2, <3>1
  <2>3. CASE x # s
    BY <1>3, <2>1, <2>3 DEF UnitInv, UnitInOrder, Older
  <2> QED BY <2>2, <2>3
<1>7. Countdown'
  BY <1>1, <1>3 DEF UnitInv, Countdown
<1>8. ExecutedOnce' /\ ExecutingStarts'
  BY <1>1, <1>3 DEF UnitInv, Countdown, ExecutingStarts, ExecutedOnce
<1> QED BY <1>5, <1>6, <1>7, <1>8 DEF UnitInv

\* A call of execute touches its station alone, and that one once.
LEMMA ExecuteUnitInv ==
  ASSUME Coherent, UnitInv, NEW s \in Stations, Execute(s) \/ ExecuteAbort(s)
  PROVE  UnitInv'
<1>1. /\ UNCHANGED <<list, startClock>> /\ phase = "execute"
      /\ phase' \in {"execute", "aborted"}
  BY DEF Execute, ExecuteAbort, Abort, ExecuteCycle, ExecuteComplete, ExecuteFault, unitVars
<1>2. UnitsNotOverbooked' /\ UnitInOrder'
  BY <1>1, ListsKept
<1>3. CASE phase' = "aborted"
  BY <1>2, <1>3 DEF UnitInv, Countdown, ExecutingStarts, ExecutedOnce
<1>4. CASE Execute(s)
  <2>1. /\ todo' = todo \ {s} /\ phase' = "execute"
        /\ ExecuteCycle(s) \/ ExecuteComplete(s)
    BY <1>1, <1>4 DEF Execute
  <2>2. /\ state \in [Stations -> States]
        /\ executeCyclesRemaining \in [Stations -> 0 .. (CycleMod - 1)]
    BY DEF Coherent, TypeOK, StationTypeOK
  <2>3. \A t \in Stations \ {s} :
          state'[t] = state[t] /\ executeCyclesRemaining'[t] = executeCyclesRemaining[t]
    BY <2>1, <2>2 DEF ExecuteCycle, ExecuteComplete
  <2>4. state'[s] = "ExecutionComplete" \/ executeCyclesRemaining'[s] > 0
    <3>1. countDown(s) \in Nat
      BY <2>2, UnitAssumption DEF countDown
    <3> QED BY <2>1, <2>2, <3>1 DEF ExecuteCycle, ExecuteComplete
  <2>5. ExecutedOnce'
    BY <1>1, <2>1, <2>3 DEF UnitInv, ExecutedOnce, Coherent, TypeOK
  <2>6. Countdown'
    BY <1>1, <2>1, <2>3, <2>4 DEF UnitInv, Countdown
  <2> QED BY <1>2, <2>1, <2>5, <2>6 DEF UnitInv, ExecutingStarts
<1> QED BY <1>1, <1>3, <1>4 DEF Execute, ExecuteAbort, Abort

\* The commit makes waiting stations ready, which they have all cycles left for.
LEMMA CommitUnitInv ==
  ASSUME Coherent, UnitInv, EndCycle
  PROVE  UnitInv'
<1>1. /\ UNCHANGED <<list, startClock, executeCyclesRemaining>>
      /\ phase = "write" /\ phase' = "loop"
  BY DEF EndCycle, Commit, CommitWriter, unitVars, stationVars
<1>2. \A t \in Stations :
        state'[t] # state[t] => state'[t] = "WriteComplete" \/ state[t] = "WaitingForArgs"
  <2>1. completed(source) \subseteq listeners
    BY DEF completed
  <2> QED BY <2>1 DEF EndCycle, Commit, CommitWriter, stationVars, Coherent, ListenersWait
<1>3. Countdown'
  BY <1>1, <1>2 DEF UnitInv, Countdown
<1> QED BY <1>1, <1>3, ListsKept DEF UnitInv, ExecutedOnce, ExecutingStarts

\* Every step of the processor keeps what holds of its units.
LEMMA NextUnitInv == Coherent /\ UnitInv /\ [Next]_vars => UnitInv'
<1> SUFFICES ASSUME Coherent, UnitInv, [Next]_vars PROVE UnitInv'
  OBVIOUS
<1> USE DEF stationVars, unitVars
<1>1. CASE Advance BY <1>1, AdvanceUnitInv
<1>2. CASE \E s \in Stations : Issue(s) BY <1>2, IssueUnitInv
<1>3. CASE \E s \in Stations : Execute(s) \/ ExecuteAbort(s) BY <1>3, ExecuteUnitInv
<1>4. CASE EndCycle BY <1>4, CommitUnitInv
<1>5. CASE IssueStalled \/ IssueHalt \/ IssueFull
  <2>1. /\ UNCHANGED <<list, state, startClock, executeCyclesRemaining>>
        /\ phase = "issue" /\ phase' = "execute"
        /\ todo' = {s \in Stations : list'[s] = "executing"}
    BY <1>5 DEF IssueStalled, IssueHalt, IssueFull, canIssue, ToExecute
  <2>2. ExecutedOnce' /\ Countdown' /\ ExecutingStarts'
    BY <2>1 DEF UnitInv, Countdown, ExecutingStarts, ExecutedOnce
  <2> QED BY <2>1, <2>2, ListsKept DEF UnitInv
<1>6. CASE \E s \in Stations : Write(s)
  <2>1. PICK s \in Stations : Write(s) BY <1>6
  <2>2. /\ UNCHANGED <<list, startClock, executeCyclesRemaining>>
        /\ phase = "write" /\ phase' = "write"
        /\ UNCHANGED state \/ state' = [state EXCEPT ![s] = "WriteComplete"]
    BY <2>1 DEF Write, WriteNothing, WriteRegister, WritePC, WriteMemory
  <2>3. state \in [Stations -> States]
    BY DEF Coherent, TypeOK, StationTypeOK
  <2>4. Countdown'
    BY <2>2, <2>3 DEF UnitInv, Countdown
  <2> QED BY <2>2, <2>4, ListsKept DEF UnitInv, ExecutedOnce, ExecutingStarts
<1>7. CASE Finish \/ IssueFault \/ ToWrite \/ \E s \in Stations : WriteAbort(s)
  <2>1. /\ UNCHANGED <<list, state, startClock, executeCyclesRemaining>>
        /\ phase # "aborted" /\ phase' \notin {"execute", "issue"}
    BY <1>7 DEF Finish, IssueFault, canIssue, ToWrite, WriteAbort, Abort
  <2>2. Countdown'
    BY <2>1 DEF UnitInv, Countdown
  <2> QED BY <2>1, <2>2, ListsKept DEF UnitInv, ExecutedOnce, ExecutingStarts
<1>8. CASE UNCHANGED vars
  <2>1. UNCHANGED <<list, state, startClock, executeCyclesRemaining, phase, todo>>
    BY <1>8 DEF vars, loopVars
  <2> QED BY <2>1, ListsKept DEF UnitInv, Countdown, ExecutedOnce, ExecutingStarts
<1> QED BY <1>1, <1>2, <1>3, <1>4, <1>5, <1>6, <1>7, <1>8 DEF Next, Step, Stopped

\* At the start the units are empty.
LEMMA InitUnitInv == Init => UnitInv
<1> SUFFICES ASSUME Init PROVE UnitInv OBVIOUS
<1>1. /\ \A s \in Stations : list[s] = "idle" /\ state[s] = "Idle"
      /\ phase = "loop"
  BY DEF Init, UnitInit, StationInit
<1>2. UnitsNotOverbooked
  <2> SUFFICES ASSUME NEW u \in Types
               PROVE  Cardinality(InList(u, "executing") \cup InList(u, "writing"))
                        <= numExecuteUnits[u]
    BY DEF UnitsNotOverbooked
  <2>1. InList(u, "executing") \cup InList(u, "writing") = {}
    BY <1>1 DEF InList
  <2> QED BY <2>1, FS_EmptySet, ExecuteUnitsAssumption
<1>3. UnitInOrder /\ ExecutedOnce /\ Countdown /\ ExecutingStarts
  BY <1>1 DEF UnitInOrder, ExecutedOnce, Countdown, ExecutingStarts
<1> QED BY <1>2, <1>3 DEF UnitInv

-----------------------------------------------------------------------------
\* The processor keeps the whole of its inductive invariant.
THEOREM UnitInvariance == Spec => []IInv
<1>1. Init => UnitInv BY InitUnitInv
<1>2. Coherent /\ UnitInv /\ [Next]_vars => UnitInv' BY NextUnitInv
<1>3. IInv <=> Coherent /\ UnitInv BY DEF IInv
<1> QED BY <1>1, <1>2, <1>3, Invariance, PTL DEF Spec

\* However many stations and execution units it has, a unit never works on more
\* instructions than it has execution units.
THEOREM NeverOverbooked == Spec => []UnitsNotOverbooked
<1>1. IInv => UnitsNotOverbooked BY DEF IInv, UnitInv
<1> QED BY <1>1, UnitInvariance, PTL

\* Memory is accessed, and text printed, in program order.
THEOREM InProgramOrder == Spec => []UnitInOrder
<1>1. IInv => UnitInOrder BY DEF IInv, UnitInv
<1> QED BY <1>1, UnitInvariance, PTL

\* No instruction is executed again once it has completed, and the count of its
\* cycles never goes below zero.
THEOREM NeverExecutedTwice == Spec => []ExecutedOnce
<1>1. IInv => ExecutedOnce BY DEF IInv, UnitInv
<1> QED BY <1>1, UnitInvariance, PTL
=============================================================================

------------------------- MODULE ReservationStation -------------------------
(***************************************************************************)
(* ReservationStation.cpp and CommonDataBus.cpp: the stations that hold    *)
(* the instructions in flight and the bus that carries a result to them.   *)
(* The two call each other (a station writes to the bus and listens to it, *)
(* the bus notifies the writer and the listeners), hence one module.       *)
(***************************************************************************)
EXTENDS RenameRegisterFile, Memory, Sequences

CONSTANTS
  unitOf,         \* station -> the type of its functional unit
  executeCycles,  \* type -> the latency of its instructions
  CycleMod        \* size_t wraps here, 2^64 in the program

VARIABLES
  instruction,    \* station -> the instruction it holds, NoInstr when idle
  state,          \* station -> ReservationStationState
  startClock,     \* station -> the clock its instruction was issued at
  executeCyclesRemaining,
  arg,            \* station -> operand -> value
  argSource,      \* station -> operand -> station it waits for; NoStation
                  \* exactly when argReady, the two are set together
  result,         \* station -> result
  source,         \* CommonDataBus::source; used is source # NoStation
  listeners,      \* CommonDataBus::listeners, as a set
  pc,             \* Tomasulo::pc, a reference in ReservationStationDependencies
  stallIssue,     \* Tomasulo::stallIssue, pcStall there
  output          \* what TRAP instructions wrote to std::cout

stationVars == <<instruction, state, startClock, executeCyclesRemaining, arg,
                 argSource, result>>
busVars     == <<source, listeners>>
fetchVars   == <<pc, stallIssue>>
memoryVars  == <<memory, registers>>

NoInstr == [name |-> "none"]

\* What a TRAP prints: an integer or a floating point number, one word, or text.
Printed == [kind : {1, 2, 3}, value : Seq(Word)]

ASSUME UnitAssumption ==
  /\ unitOf \in [Stations -> Types]
  /\ CycleMod \in Nat \ {0}
  /\ executeCycles \in [Types -> 1 .. (CycleMod - 1)]

States == {"Idle", "WaitingForArgs", "ReadyToExecute", "Executing",
           "ExecutionComplete", "Writing", "WriteComplete"}

StationTypeOK ==
  /\ instruction \in [Stations -> Instr \cup {NoInstr}]
  /\ state \in [Stations -> States]
  /\ startClock \in [Stations -> Nat]
  /\ executeCyclesRemaining \in [Stations -> 0 .. (CycleMod - 1)]
  /\ arg \in [Stations -> [Operands -> Word]]
  /\ argSource \in [Stations -> [Operands -> Stations \cup {NoStation}]]
  /\ result \in [Stations -> Word]
  /\ source \in Stations \cup {NoStation}
  /\ listeners \subseteq Stations
  /\ pc \in Word
  /\ stallIssue \in BOOLEAN
  /\ output \in Seq(Printed)

StationInit ==
  /\ instruction = [s \in Stations |-> NoInstr]
  /\ state = [s \in Stations |-> "Idle"]
  /\ startClock = [s \in Stations |-> 0]
  /\ executeCyclesRemaining = [s \in Stations |-> 0]
  /\ arg = [s \in Stations |-> [k \in Operands |-> 0]]
  /\ argSource = [s \in Stations |-> [k \in Operands |-> NoStation]]
  /\ result = [s \in Stations |-> 0]
  /\ source = NoStation
  /\ listeners = {}
  /\ pc = 0
  /\ stallIssue = FALSE
  /\ output = <<>>

Busy(s) == instruction[s] # NoInstr
Older(s, t) == startClock[s] < startClock[t]

-----------------------------------------------------------------------------
\* A mutant of operandSource: operands are read from the register file.
unrenamed(i, k) == NoStation

\* setArgSources: an operand is renamed to the station that will produce it,
\* or read from the register file, or absent and so ready.
operandSource(i, k) ==
  IF getArg(i, k) = NoReg THEN NoStation ELSE getRenaming(getArg(i, k))

operandValue(i, k) ==
  IF operandSource(i, k) = NoStation THEN read(getArg(i, k)) ELSE 0

\* The destination is renamed after the operands were looked up.
renameDest(i, s) ==
  IF getDest(i) \in {NoReg, R0} THEN UNCHANGED renameRegisters
  ELSE rename(getDest(i), s)

setInstruction(s, i, clock) ==
  LET ready == \A k \in Operands : operandSource(i, k) = NoStation IN
  /\ instruction' = [instruction EXCEPT ![s] = i]
  /\ startClock' = [startClock EXCEPT ![s] = clock]
  /\ executeCyclesRemaining' =
       [executeCyclesRemaining EXCEPT ![s] = executeCycles[unitOf[s]]]
  /\ arg' = [arg EXCEPT ![s] = [k \in Operands |-> operandValue(i, k)]]
  /\ argSource' =
       [argSource EXCEPT ![s] = [k \in Operands |-> operandSource(i, k)]]
  /\ result' = [result EXCEPT ![s] = 0]
  /\ state' = [state EXCEPT ![s] = IF ready THEN "ReadyToExecute"
                                            ELSE "WaitingForArgs"]
  /\ listeners' = IF ready THEN listeners ELSE listeners \cup {s}
  /\ renameDest(i, s)

\* clearInstruction, for the stations S; their state is set by the caller.
\* The fields setInstruction overwrites before they are read again (clock,
\* operands, result) are reset here rather than there.
clearInstruction(S) ==
  LET Cleared(f, v) == [s \in Stations |-> IF s \in S THEN v ELSE f[s]] IN
  /\ clearRename(S)
  /\ instruction' = Cleared(instruction, NoInstr)
  /\ startClock' = Cleared(startClock, 0)
  /\ executeCyclesRemaining' = Cleared(executeCyclesRemaining, 0)
  /\ arg' = Cleared(arg, [k \in Operands |-> 0])
  /\ argSource' = Cleared(argSource, [k \in Operands |-> NoStation])
  /\ result' = Cleared(result, 0)

-----------------------------------------------------------------------------
\* execute: one call takes one cycle off, the last one runs the instruction.
countDown(s) == (executeCyclesRemaining[s] - 1) % CycleMod

ExecuteCycle(s) ==
  /\ countDown(s) # 0
  /\ executeCyclesRemaining' = [executeCyclesRemaining EXCEPT ![s] = countDown(s)]
  /\ UNCHANGED <<instruction, state, startClock, arg, argSource, result, output>>

\* A mutant of executeFaults: no division is trapped.
loadFaults(s) ==
  LET i == instruction[s]  a == arg[s][1] IN
  \/ i.name \in LoadNames /\ ~Accessible(EffectiveAddress(i, a))
  \/ i.name = "TRAP" /\ i.imm = 3 /\ a > MemSize

\* The instruction throws (a load outside the memory) or is trapped by the
\* processor (an integer division); TRAP 3 of an address outside the memory is
\* undefined, the program may be stopped there.
executeFaults(s) ==
  LET i == instruction[s]  a == arg[s][1] IN
  \/ i.name \in LoadNames /\ ~Accessible(EffectiveAddress(i, a))
  \/ DivisionFaults(i, a, arg[s][2])
  \/ i.name = "TRAP" /\ i.imm = 3 /\ a > MemSize

ExecuteFault(s) ==
  /\ countDown(s) = 0
  /\ executeFaults(s)
  /\ executeCyclesRemaining' = [executeCyclesRemaining EXCEPT ![s] = 0]
  /\ UNCHANGED <<instruction, state, startClock, arg, argSource, result, output>>

\* The value Instruction::execute returns.
executeResult(s) ==
  LET i == instruction[s]  a == arg[s][1]  b == arg[s][2] IN
  CASE getType(i) = "Branch"    -> BranchResult(i, a)
    [] i.name \in LoadNames     -> readUWord(EffectiveAddress(i, a))
    [] i.name \in StoreNames    -> EffectiveAddress(i, a)
    [] getType(i) = "Trap"      -> 0
    [] OTHER                    -> Compute(i, a, b)

\* What TRAP prints: an integer, a float, the string that starts at arg1, or
\* nothing; any string, cut to its first byte, for an address outside the
\* memory.
trapValues(s) ==
  IF instruction[s].imm # 3 THEN {<<arg[s][1]>>}
  ELSE IF arg[s][1] <= MemSize THEN {readString(arg[s][1])}
  ELSE {<<>>} \cup {<<b>> : b \in Byte}

trapOutput(s) ==
  IF instruction[s].name = "TRAP" /\ instruction[s].imm \in {1, 2, 3}
  THEN \E v \in trapValues(s) :
         output' = Append(output, [kind |-> instruction[s].imm, value |-> v])
  ELSE UNCHANGED output

ExecuteComplete(s) ==
  /\ countDown(s) = 0
  /\ executeFaults(s) => instruction[s].name = "TRAP"
  /\ executeCyclesRemaining' = [executeCyclesRemaining EXCEPT ![s] = 0]
  /\ result' = [result EXCEPT ![s] = executeResult(s)]
  /\ state' = [state EXCEPT ![s] = "ExecutionComplete"]
  /\ trapOutput(s)
  /\ UNCHANGED <<instruction, startClock, arg, argSource>>
-----------------------------------------------------------------------------
\* A mutant of arbitrate: the last to write gets the bus.
grantLast(s) == s

\* CommonDataBus::write: of the stations that write in a cycle, the bus keeps
\* the one issued first; the others write again in the next cycle.
arbitrate(s) ==
  IF source = NoStation \/ Older(s, source) THEN s ELSE source

\* write of a station without a result.
WriteNothing(s) ==
  /\ getWriteAction(instruction[s]) = "None"
  /\ state' = [state EXCEPT ![s] = "WriteComplete"]
  /\ UNCHANGED <<instruction, startClock, executeCyclesRemaining, arg,
                 argSource, result, source, memory, fetchVars>>

\* write of a result that goes to a register.  A JAL or JALR turns its result,
\* the jump target, into the return address; the jump follows the bus grant.
WriteRegister(s) ==
  /\ getWriteAction(instruction[s]) \in {"Register", "PC_R31"}
  /\ result' = IF getWriteAction(instruction[s]) = "PC_R31"
               THEN [result EXCEPT ![s] = instruction[s].next] ELSE result
  /\ source' = arbitrate(s)
  /\ UNCHANGED <<instruction, state, startClock, executeCyclesRemaining, arg,
                 argSource, memory, fetchVars>>

\* A mutant of WritePC: issue stays stalled.
writePCOnly(s) ==
  /\ getWriteAction(instruction[s]) = "PC"
  /\ pc' = result[s]
  /\ state' = [state EXCEPT ![s] = "WriteComplete"]
  /\ UNCHANGED <<instruction, startClock, executeCyclesRemaining, arg,
                 argSource, result, source, memory, stallIssue>>

\* write of a branch that links nothing: the program goes on at its result.
WritePC(s) ==
  /\ getWriteAction(instruction[s]) = "PC"
  /\ pc' = result[s]
  /\ stallIssue' = FALSE
  /\ state' = [state EXCEPT ![s] = "WriteComplete"]
  /\ UNCHANGED <<instruction, startClock, executeCyclesRemaining, arg,
                 argSource, result, source, memory>>

\* write of a store to an address inside the memory.
WriteMemory(s) ==
  /\ getWriteAction(instruction[s]) = "Memory"
  /\ Accessible(result[s])
  /\ writeUWord(result[s], arg[s][2])
  /\ state' = [state EXCEPT ![s] = "WriteComplete"]
  /\ UNCHANGED <<instruction, startClock, executeCyclesRemaining, arg,
                 argSource, result, source, fetchVars>>

\* write of a store to any other address throws and changes nothing.
writeFaults(s) ==
  getWriteAction(instruction[s]) = "Memory" /\ ~Accessible(result[s])

-----------------------------------------------------------------------------
\* Mutants of captures: any operand is replaced; only the first one is looked at.
captureAll(s, k, id)   == s \in listeners
captureFirst(s, k, id) == s \in listeners /\ k = 1 /\ argSource[s][k] = id

\* notifyDataBus: a listener captures the value for each operand that waits
\* for the writer.
captures(s, k, id) == s \in listeners /\ argSource[s][k] = id

sourcesAfter(id) ==
  [s \in Stations |-> [k \in Operands |->
     IF captures(s, k, id) THEN NoStation ELSE argSource[s][k]]]

\* A mutant of completed: one operand is enough.
halfCompleted(id) ==
  {s \in listeners : \E k \in Operands : sourcesAfter(id)[s][k] = NoStation}

\* The listeners that notifyDataBus reports as complete; the bus drops them.
completed(id) ==
  {s \in listeners : \A k \in Operands : sourcesAfter(id)[s][k] = NoStation}

\* CommonDataBus::commit with a writer w: notifyWriteAccepted first (a JAL or
\* JALR jumps now and lets issue go on), then every listener, then the
\* register file, which is written whether or not the register is still
\* renamed to w.
CommitWriter(w) ==
  /\ state' = [s \in Stations |->
                 CASE s \in completed(w)           -> "ReadyToExecute"
                   [] s = w /\ s \notin completed(w) -> "WriteComplete"
                   [] OTHER                        -> state[s]]
  /\ arg' = [s \in Stations |-> [k \in Operands |->
               IF captures(s, k, w) THEN result[w] ELSE arg[s][k]]]
  /\ argSource' = sourcesAfter(w)
  /\ listeners' = listeners \ completed(w)
  /\ write(getDest(instruction[w]), result[w])
  /\ IF getType(instruction[w]) = "Branch"
     THEN /\ pc' = getTarget(instruction[w], arg[w][1])
          /\ stallIssue' = FALSE
     ELSE UNCHANGED fetchVars
  /\ source' = NoStation
  /\ UNCHANGED <<instruction, startClock, executeCyclesRemaining, result,
                 renameRegisters, memory, output>>

Commit ==
  IF source # NoStation THEN CommitWriter(source)
  ELSE UNCHANGED <<stationVars, busVars, fetchVars, memoryVars,
                   renameRegisters, output>>
=============================================================================

------------------------------ MODULE Lockstep ------------------------------
(***************************************************************************)
(* The processor beside the architecture: whenever the processor takes an  *)
(* instruction from memory (or fails to), the sequential machine DLX runs  *)
(* its next one.  DLX only watches; the processor is that of module        *)
(* Tomasulo, unchanged.                                                    *)
(*                                                                         *)
(* The remaining variables are history.  Three of them record when the     *)
(* processor leaves what it can guarantee: a register written out of       *)
(* program order, text read while a store is in flight, code fetched       *)
(* before an earlier store to it.                                          *)
(***************************************************************************)
EXTENDS Tomasulo, SequencesExt

VARIABLES
  dpc, dregs, dmem, dout, dstatus,  \* the sequential machine
  operand,      \* station -> operand -> its value in sequential execution
  image,        \* station -> the memory before its instruction, sequentially
  printed,      \* station -> the text printed before it, sequentially
  lastWriter,   \* register -> issue clock of the instruction last written to it
  overwritten,  \* an older instruction wrote a register after a younger one
  textRace,     \* a TRAP 3 and a store were in flight together
  codeRace      \* a word was fetched that an earlier store had yet to write

D == INSTANCE DLX

dlxVars == <<dpc, dregs, dmem, dout, dstatus>>
historyVars == <<operand, image, printed, lastWriter, overwritten, textRace, codeRace>>
lockstepVars == <<vars, dlxVars, historyVars>>

LInit ==
  /\ Init
  /\ D!DInit(memory)
  /\ operand = [s \in Stations |-> [k \in Operands |-> 0]]
  /\ image = [s \in Stations |-> <<>>]
  /\ printed = [s \in Stations |-> <<>>]
  /\ lastWriter = [r \in Regs |-> 0]
  /\ overwritten = FALSE
  /\ textRace = FALSE
  /\ codeRace = FALSE

-----------------------------------------------------------------------------
Issued(s) == list[s] = "idle" /\ list'[s] = "issued"

PrintsText(i) == i.name = "TRAP" /\ i.imm = 3
IsStore(i)    == i.name \in StoreNames
InFlight(P(_)) ==
  \E s \in Stations : Busy(s) /\ state[s] # "WriteComplete" /\ P(instruction[s])

\* The station whose result the step commits to register r.
CommitsTo(r) == /\ phase = "write" /\ phase' = "loop"
                /\ source # NoStation /\ getDest(instruction[source]) = r

\* What sequential execution has before the instruction that is issued; nothing
\* is kept of an idle station.
RecordOperands ==
  LET Recorded(f, now, none) ==
        [s \in Stations |-> CASE Issued(s)         -> now
                              [] list'[s] = "idle" -> none
                              [] OTHER             -> f[s]]
  IN
  /\ operand' = Recorded(operand, [k \in Operands |-> D!DOperand(k)],
                          [k \in Operands |-> 0])
  /\ image' = Recorded(image, dmem, <<>>)
  /\ printed' = Recorded(printed, dout, <<>>)

RecordWrites ==
  /\ lastWriter' = [r \in Regs |-> IF CommitsTo(r) THEN startClock[source]
                                   ELSE lastWriter[r]]
  /\ overwritten' = \/ overwritten
                    \/ \E r \in Regs \ {R0} :
                         CommitsTo(r) /\ startClock[source] < lastWriter[r]

RecordRaces ==
  /\ textRace' =
       \/ textRace
       \/ \E s \in Stations :
            /\ Issued(s)
            /\ \/ PrintsText(instruction'[s]) /\ InFlight(IsStore)
               \/ IsStore(instruction'[s]) /\ InFlight(PrintsText)
  /\ codeRace' = \/ codeRace
                 \/ canIssue /\ Accessible(pc) /\ readUWord(pc) # wordAt(dmem, pc)

Record == RecordOperands /\ RecordWrites /\ RecordRaces

-----------------------------------------------------------------------------
\* The processor takes the instruction at pc, DLX runs its next one.
Consume ==
  /\ IssueFault \/ IssueHalt \/ \E s \in Stations : Issue(s)
  /\ IF dstatus = "running" THEN D!DStep ELSE UNCHANGED dlxVars
  /\ Record

\* Every other step of the processor.
Other ==
  /\ \/ Advance \/ Finish
     \/ IssueStalled \/ IssueFull
     \/ \E s \in Stations : Execute(s) \/ ExecuteAbort(s)
     \/ ToWrite
     \/ \E s \in Stations : Write(s) \/ WriteAbort(s)
     \/ EndCycle
  /\ UNCHANGED dlxVars
  /\ Record

LStopped == Stopped /\ UNCHANGED lockstepVars

LNext == Consume \/ Other \/ LStopped

LSpec == LInit /\ [][LNext]_lockstepVars

-----------------------------------------------------------------------------
\* The program has met none of the races, and means something so far.
Clean == ~overwritten /\ ~codeRace /\ dstatus # "undefined"

Well == Clean /\ dstatus # "fault"

\* The sequential machine's own state.
DTypeOK == D!DTypeOK

\* Control is never speculative: the address the processor fetches from is the
\* one sequential execution has reached, also after a branch that waited for
\* its operand, and a branch that links.
FetchesInSequence ==
  canIssue /\ Well => pc = dpc /\ dstatus = "running"

\* Data flow: an operand that a station has received, from the register file
\* at issue or from the bus later, is the one of sequential execution.
OperandsSequential ==
  Well =>  \A s \in Stations, k \in Operands :
             /\ Busy(s)
             /\ argSource[s][k] = NoStation
             => arg[s][k] = operand[s][k]

\* Text is printed in program order, and what is printed is what sequential
\* execution prints.
PrintsInSequence == Well /\ ~textRace => IsPrefix(output, dout)

\* Whenever nothing is in flight, in particular when run returns, registers,
\* memory and output are those of the sequential program.
SequentialResult ==
  phase \in {"loop", "done"} /\ functionalUnitsIdle /\ Well =>
    /\ registers = dregs
    /\ memory = dmem
    /\ textRace \/ output = dout

\* A program that does nothing wrong is not aborted; one that does is.
AbortsOnFault ==
  Clean => /\ phase = "aborted" => dstatus = "fault"
           /\ phase = "done" => dstatus = "halted"

-----------------------------------------------------------------------------
(***************************************************************************)
(* The inductive invariant behind these properties.  Once the sequential   *)
(* machine has met a fault it stops, and the processor goes on until it    *)
(* meets it too; what is claimed then is claimed of the instructions that  *)
(* sequential execution has reached.                                       *)
(***************************************************************************)
\* The instruction ends the program abnormally.
Faults(s) ==
  LET i == instruction[s] IN
  \/ getType(i) = "Memory" /\ ~Accessible(EffectiveAddress(i, operand[s][1]))
  \/ DivisionFaults(i, operand[s][1], operand[s][2])

\* Sequential execution has reached it: nothing older ends the program.
OnCourse(s) ==
  Busy(s) /\ \A t \in Stations : Busy(t) /\ Faults(t) => ~Older(t, s)

\* What it computes, in sequential execution.
Value(s) ==
  LET i == instruction[s]  a == operand[s][1] IN
  CASE i.name \in {"JAL", "JALR"} -> i.next
    [] i.name \in LoadNames       -> wordAt(image[s], EffectiveAddress(i, a))
    [] OTHER                      -> Compute(i, a, operand[s][2])

MemoryAfter(s) ==
  stored(image[s], EffectiveAddress(instruction[s], operand[s][1]),
         toBytes(operand[s][2]), WordBytes)

OutputAfter(s) ==
  LET i == instruction[s]  a == operand[s][1] IN
  IF i.imm \in {1, 2, 3}
  THEN Append(printed[s],
              [kind |-> i.imm,
               value |-> IF i.imm = 3 THEN stringAt(image[s], a) ELSE <<a>>])
  ELSE printed[s]

\* What is recorded of an instruction.
HistoryTypeOK ==
  /\ lastWriter \in [Regs -> Nat]
  /\ Clean => \A s \in Stations :
                OnCourse(s) => /\ \A k \in Operands : operand[s][k] \in Word
                               /\ image[s] \in [Address -> Byte]
                               /\ printed[s] \in Seq(Printed)

\* The processor ends when sequential execution does, and the way it does: an
\* instruction that ends the program abnormally does not retire.
EndsAlike ==
  /\ phase = "done" => halted /\ functionalUnitsIdle
  /\ Clean =>
       /\ phase = "aborted" => dstatus = "fault"
       /\ dstatus = "fault" =>
            phase = "aborted" \/ \E f \in Stations : OnCourse(f) /\ Faults(f)
       /\ dstatus # "fault" => /\ \A s \in Stations : Busy(s) => ~Faults(s)
                               /\ halted <=> dstatus = "halted"
       /\ \A s \in Stations : OnCourse(s) /\ Faults(s) =>
            /\ state[s] # "WriteComplete"
            /\ state[s] \in {"ExecutionComplete", "Writing"} => IsStore(instruction[s])
       /\ \A s \in Stations :
            OnCourse(s) /\ PrintsText(instruction[s]) => operand[s][1] <= MemSize

\* An operand is there, or will come from the station that computes it.
OperandsComing ==
  Clean =>
    \A s \in Stations, k \in Operands :
      OnCourse(s) =>
        /\ argSource[s][k] = NoStation => arg[s][k] = operand[s][k]
        /\ \A p \in Stations : argSource[s][k] = p => operand[s][k] = Value(p)

\* A station holds the result of its instruction, and the bus takes it.
ResultsSequential ==
  Clean =>
    \A s \in Stations :
      /\ OnCourse(s) /\ state[s] \in {"ExecutionComplete", "Writing", "WriteComplete"} =>
           LET action == getWriteAction(instruction[s]) IN
           /\ action = "Register" => result[s] = Value(s)
           /\ action = "PC"       => result[s] = BranchResult(instruction[s], operand[s][1])
           /\ action = "Memory"   => result[s] = EffectiveAddress(instruction[s], operand[s][1])
      /\ OnCourse(s) /\ source = s => result[s] = Value(s)

\* A register has its value, or the station it is renamed to computes it; who
\* would still write it but is not the one it is renamed to is too late.
RegistersComing ==
  Well =>
    \A r \in Regs :
      /\ renameRegisters[r] = NoStation =>
           /\ registers[r] = dregs[r]
           /\ \A q \in Stations :
                r # R0 /\ Busy(q) /\ getDest(instruction[q]) = r
                  => startClock[q] < lastWriter[r]
      /\ \A p \in Stations :
           renameRegisters[r] = p =>
             /\ dregs[r] = Value(p)
             /\ state[p] = "WriteComplete" =>
                  registers[r] = Value(p) /\ lastWriter[r] = startClock[p]

\* The pc is that of sequential execution, or the branch will make it so.
FetchComing ==
  Well =>
    /\ ~stallIssue => pc = dpc
    /\ \A s \in Stations :
         Unresolved(s) => dpc = BranchResult(instruction[s], operand[s][1])

Pending(s)      == Busy(s) /\ state[s] # "WriteComplete"
PendingStore(s) == Pending(s) /\ IsStore(instruction[s])

\* The memory is the one an access needs once no older store is pending; a
\* store leaves the one the next access needs, the last store the final one.
MemoryComing ==
  Clean =>
    /\ \A t \in Stations :
         OnCourse(t) /\ Pending(t) /\ getType(instruction[t]) = "Memory" =>
           LET earlier == {s \in Stations : PendingStore(s) /\ Older(s, t)} IN
           /\ earlier = {} => memory = image[t]
           /\ \A s \in earlier :
                (\A x \in earlier : ~Older(s, x)) => image[t] = MemoryAfter(s)
    /\ Well =>
         LET stores == {s \in Stations : PendingStore(s)} IN
         /\ stores = {} => memory = dmem
         /\ \A s \in stores : (\A x \in stores : ~Older(s, x)) => dmem = MemoryAfter(s)

\* While a text is to be printed no store is pending.
TextStays ==
  Well /\ ~textRace =>
    \A t \in Stations :
      Pending(t) /\ PrintsText(instruction[t]) =>
        image[t] = dmem /\ \A s \in Stations : ~PendingStore(s)

\* A TRAP that has not printed yet.
Unprinted(s) == /\ Busy(s) /\ getType(instruction[s]) = "Trap"
                /\ state[s] \in {"WaitingForArgs", "ReadyToExecute", "Executing"}

\* The output likewise.
OutputComing ==
  Well /\ ~textRace =>
    LET traps == {s \in Stations : Unprinted(s)} IN
    /\ IsPrefix(output, dout)
    /\ \A s \in traps : IsPrefix(OutputAfter(s), dout)
    /\ traps = {} => output = dout
    /\ \A s \in traps : (\A x \in traps : ~Older(s, x)) => dout = OutputAfter(s)
    /\ \A t \in traps :
         LET earlier == {s \in traps : Older(s, t)} IN
         /\ earlier = {} => output = printed[t]
         /\ \A s \in earlier :
              (\A x \in earlier : ~Older(s, x)) => printed[t] = OutputAfter(s)

LInv == /\ DTypeOK
        /\ HistoryTypeOK
        /\ EndsAlike
        /\ OperandsComing
        /\ ResultsSequential
        /\ RegistersComing
        /\ FetchComing
        /\ MemoryComing
        /\ TextStays
        /\ OutputComing

-----------------------------------------------------------------------------
(***************************************************************************)
(* What the repository says of the processor and the code does not do.     *)
(***************************************************************************)
\* "final value in r3 should be 3" (Inputs/memUnit1.dlx:5, of a program that
\* writes r3 twice): a finished program leaves each register with the value of
\* the last instruction that writes it.
LastWriteStays ==
  phase = "done" /\ dstatus = "halted" /\ ~codeRace => registers = dregs
=============================================================================

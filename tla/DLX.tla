--------------------------------- MODULE DLX ---------------------------------
(***************************************************************************)
(* What a DLX program means: one instruction after the other, each         *)
(* complete before the next.  This is the architecture the processor of    *)
(* module Tomasulo implements; nothing here is in flight.                  *)
(***************************************************************************)
EXTENDS Instructions, Sequences

CONSTANTS
  MemSize,
  Printed,        \* the texts a program may print
  stringAt(_, _), \* the string at an address of a memory
  Accessible(_)   \* the addresses a word can be read from and written to

VARIABLES
  dpc,        \* address of the next instruction
  dregs,      \* registers
  dmem,       \* memory
  dout,       \* text printed
  dstatus     \* "running", "halted" by TRAP 0, "fault", or "undefined"

dvars == <<dpc, dregs, dmem, dout, dstatus>>

\* The state of a program loaded as image.
DInit(image) ==
  /\ dpc = 0
  /\ dregs = [r \in Regs |-> 0]
  /\ dmem = image
  /\ dout = <<>>
  /\ dstatus = "running"

DTypeOK ==
  /\ dpc \in Word
  /\ dregs \in [Regs -> Word]
  /\ dmem \in [0 .. (MemSize - 1) -> Byte]
  /\ dout \in Seq(Printed)
  /\ dstatus \in {"running", "halted", "fault", "undefined"}

DInstruction == decode(wordAt(dmem, dpc), dpc)
DRead(r)     == IF r = NoReg THEN 0 ELSE dregs[r]
DOperand(k)  == DRead(getArg(DInstruction, k))

\* The word the instruction writes to its destination register.
DResult(i) ==
  CASE i.name \in {"JAL", "JALR"} -> i.next
    [] i.name \in LoadNames       -> wordAt(dmem, EffectiveAddress(i, DOperand(1)))
    [] OTHER                      -> Compute(i, DOperand(1), DOperand(2))

DNextPC(i) ==
  IF getType(i) = "Branch" THEN BranchResult(i, DOperand(1))
  ELSE (dpc + WordBytes) % WordMod

\* The instruction or the data it names cannot be accessed, or it divides by
\* zero: the program ends abnormally, having done what precedes it.
DFault ==
  \/ ~Accessible(dpc)
  \/ LET i == DInstruction IN
     \/ getType(i) = "Memory" /\ ~Accessible(EffectiveAddress(i, DOperand(1)))
     \/ DivisionFaults(i, DOperand(1), DOperand(2))

\* Text at an address outside the memory has no meaning.
DUndefined ==
  LET i == DInstruction IN
  i.name = "TRAP" /\ i.imm = 3 /\ DOperand(1) > MemSize

DStop(status) == dstatus' = status /\ UNCHANGED <<dpc, dregs, dmem, dout>>

DExecute(i) ==
  /\ dpc' = DNextPC(i)
  /\ dregs' = IF getDest(i) \notin {NoReg, R0}
              THEN [dregs EXCEPT ![getDest(i)] = DResult(i)] ELSE dregs
  /\ dmem' = IF i.name \in StoreNames
             THEN stored(dmem, EffectiveAddress(i, DOperand(1)),
                         toBytes(DOperand(2)), WordBytes)
             ELSE dmem
  /\ dout' = IF i.name = "TRAP" /\ i.imm \in {1, 2, 3}
             THEN Append(dout, [kind |-> i.imm,
                                value |-> IF i.imm = 3 THEN stringAt(dmem, DOperand(1))
                                          ELSE <<DOperand(1)>>])
             ELSE dout
  /\ UNCHANGED dstatus

\* One instruction.
DStep ==
  /\ dstatus = "running"
  /\ CASE DFault     -> DStop("fault")
       [] ~DFault /\ DInstruction.name = "TRAP" /\ DInstruction.imm = 0
                     -> DStop("halted")
       [] ~DFault /\ DUndefined -> DStop("undefined")
       [] OTHER      -> DExecute(DInstruction)
=============================================================================

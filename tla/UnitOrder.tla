------------------------------ MODULE UnitOrder ------------------------------
(***************************************************************************)
(* Two processors run the same program.  They differ in nothing but the    *)
(* order in which their unordered_map iterates over the functional units,  *)
(* which the C++ library is free to choose.  They move in turns of a whole *)
(* cycle, and are compared at the end of each.                             *)
(***************************************************************************)
EXTENDS ListTomasulo

\* The state of the second processor.
VARIABLES
  memory2, registers2, renameRegisters2, instruction2, state2, startClock2,
  executeCyclesRemaining2, arg2, argSource2, result2, source2, listeners2,
  pc2, stallIssue2, output2, idleStations2, issuedStations2,
  executingStations2, writingStations2, halted2, clockCounter2, phase2,
  unitOrder2, calls2

VARIABLE
  first         \* whether the first processor is to move

Second == INSTANCE ListTomasulo WITH
  memory <- memory2, registers <- registers2, renameRegisters <- renameRegisters2,
  instruction <- instruction2, state <- state2, startClock <- startClock2,
  executeCyclesRemaining <- executeCyclesRemaining2,
  arg <- arg2, argSource <- argSource2, result <- result2, source <- source2,
  listeners <- listeners2,
  pc <- pc2, stallIssue <- stallIssue2, output <- output2,
  idleStations <- idleStations2, issuedStations <- issuedStations2,
  executingStations <- executingStations2, writingStations <- writingStations2,
  halted <- halted2, clockCounter <- clockCounter2, phase <- phase2,
  unitOrder <- unitOrder2, calls <- calls2

secondVars ==
  <<memory2, registers2, renameRegisters2, instruction2, state2,
  startClock2, executeCyclesRemaining2, arg2, argSource2, result2, source2,
  listeners2, pc2, stallIssue2, output2, idleStations2, issuedStations2,
  executingStations2, writingStations2, halted2, clockCounter2, phase2,
  unitOrder2, calls2>>

ovars == <<lvars, secondVars, first>>

OInit ==
  /\ LInit
  /\ memory2 = memory /\ Second!LInit
  /\ unitOrder2 # unitOrder
  /\ first = TRUE

\* A turn ends with the cycle, or with the program.
Ends(p) == p \in {"loop", "done", "aborted"}

FirstStep ==
  /\ first
  /\ LStep
  /\ first' = ~Ends(phase')
  /\ UNCHANGED secondVars

SecondStep ==
  /\ ~first
  /\ Second!LStep
  /\ first' = Ends(phase2')
  /\ UNCHANGED lvars

OStopped == first /\ LStopped /\ UNCHANGED ovars

ONext == FirstStep \/ SecondStep \/ OStopped

OrderSpec == OInit /\ [][ONext]_ovars

-----------------------------------------------------------------------------
\* No order of the units can be told from another: at the end of each cycle the
\* two processors are in the same state, to the order of every list, whatever
\* their stations did to the bus, the memory, the pc and the output within the
\* cycle.  They also abort in the same cycle, with the same registers and
\* memory; only the output of a TRAP in that cycle may be missing in one.
OrderUnobservable ==
  first /\ Ends(phase) =>
    /\ phase2 = phase
    /\ phase # "aborted" =>
         <<machineVars, listVars, halted>> = <<Second!machineVars, Second!listVars, halted2>>
    /\ <<clockCounter, memory, registers>> = <<clockCounter2, memory2, registers2>>
    /\ LET n == IF Len(output) < Len(output2) THEN Len(output) ELSE Len(output2) IN
       /\ SubSeq(output, 1, n) = SubSeq(output2, 1, n)
       /\ Len(output) + Len(output2) <= 2 * n + 1
=============================================================================

------------------------------ MODULE Tomasulo ------------------------------
(***************************************************************************)
(* Tomasulo.cpp: the clock loop of the processor.  A cycle advances the    *)
(* stations of every unit, issues at most one instruction, then calls      *)
(* execute on every executing station and write on every writing one, and  *)
(* commits the common data bus.                                            *)
(*                                                                         *)
(* The units are the values of a std::unordered_map, whose order of        *)
(* iteration is unspecified: the stations of a phase are called one by one *)
(* in any order.  (Within a unit the order is that of its list; no two     *)
(* stations of one unit can observe it, for only the single execution      *)
(* units of the trap and the memory unit touch more than their station.)   *)
(*                                                                         *)
(* An exception, which main catches around the whole run, and the signal   *)
(* of an integer division by zero both leave the loop at once.             *)
(***************************************************************************)
EXTENDS FunctionalUnit

CONSTANTS
  Images,        \* the memory contents a program may have been loaded as
  MaxClock       \* bound on the clock of the behaviours considered

VARIABLES
  halted,        \* a TRAP 0 was fetched
  clockCounter,
  phase,         \* where in the loop of run the processor is
  todo           \* stations still to be called in the current phase

loopVars == <<halted, clockCounter, phase, todo>>

vars == <<memoryVars, renameRegisters, stationVars, busVars, fetchVars, output,
          unitVars, loopVars>>

ASSUME ImagesAssumption   == Images \subseteq [Address -> Byte]
ASSUME MaxClockAssumption == MaxClock \in Nat

Phases == {"loop", "issue", "execute", "write", "done", "aborted"}

TypeOK ==
  /\ MemoryTypeOK
  /\ RegisterTypeOK
  /\ RenameTypeOK
  /\ StationTypeOK
  /\ UnitTypeOK
  /\ halted \in BOOLEAN
  /\ clockCounter \in 0 .. MaxClock
  /\ phase \in Phases
  /\ todo \subseteq Stations

Init ==
  /\ memory \in Images
  /\ RegisterInit
  /\ RenameInit
  /\ StationInit
  /\ UnitInit
  /\ halted = FALSE
  /\ clockCounter = 0
  /\ phase = "loop"
  /\ todo = {}

-----------------------------------------------------------------------------
Working == ~halted \/ ~functionalUnitsIdle

\* The head of the loop of run, ++clockCounter and advanceInstructions.
Advance ==
  /\ phase = "loop"
  /\ Working
  /\ clockCounter < MaxClock
  /\ clockCounter' = clockCounter + 1
  /\ AdvanceStations
  /\ phase' = "issue"
  /\ UNCHANGED <<memoryVars, busVars, fetchVars, output, halted, todo>>

\* The end of run.
Finish ==
  /\ phase = "loop"
  /\ ~Working
  /\ phase' = "done"
  /\ UNCHANGED <<memoryVars, renameRegisters, stationVars, busVars, fetchVars,
                 output, unitVars, halted, clockCounter, todo>>

\* An exception leaves run; the signal of a division does too.
Abort ==
  /\ phase' = "aborted"
  /\ UNCHANGED <<halted, clockCounter, todo>>

\* The end of issue: execute is called on the stations that execute now.
ToExecute ==
  /\ phase' = "execute"
  /\ todo' = {s \in Stations : list'[s] = "executing"}
  /\ UNCHANGED clockCounter

\* Issue takes an instruction unless the program has halted or a branch is open.
canIssue == phase = "issue" /\ ~halted /\ ~stallIssue

\* The instruction at pc.
fetched == decode(readUWord(pc), pc)

isHalt(i) == i.name = "TRAP" /\ i.imm = 0

IssueStalled ==
  /\ phase = "issue"
  /\ halted \/ stallIssue
  /\ UNCHANGED <<memoryVars, renameRegisters, stationVars, busVars, fetchVars,
                 output, unitVars, halted>>
  /\ ToExecute

IssueFault ==
  /\ canIssue
  /\ ~Accessible(pc)
  /\ Abort
  /\ UNCHANGED <<memoryVars, renameRegisters, stationVars, busVars, fetchVars,
                 output, unitVars>>

IssueHalt ==
  /\ canIssue
  /\ Accessible(pc)
  /\ isHalt(fetched)
  /\ halted' = TRUE
  /\ UNCHANGED <<memoryVars, renameRegisters, stationVars, busVars, fetchVars,
                 output, unitVars>>
  /\ ToExecute

IssueFull ==
  /\ canIssue
  /\ Accessible(pc)
  /\ ~isHalt(fetched)
  /\ stationsFull(getType(fetched))
  /\ UNCHANGED <<memoryVars, renameRegisters, stationVars, busVars, fetchVars,
                 output, unitVars, halted>>
  /\ ToExecute

\* A mutant of afterIssue: issue goes on after a branch.
noStall(i) == pc' = (pc + WordBytes) % WordMod /\ UNCHANGED stallIssue

\* After a branch nothing is issued until its target is known.
afterIssue(i) ==
  IF getType(i) = "Branch"
  THEN stallIssue' = TRUE /\ UNCHANGED pc
  ELSE pc' = (pc + WordBytes) % WordMod /\ UNCHANGED stallIssue

Issue(s) ==
  /\ canIssue
  /\ Accessible(pc)
  /\ ~isHalt(fetched)
  /\ IssueTo(s, fetched, clockCounter)
  /\ afterIssue(fetched)
  /\ UNCHANGED <<memoryVars, source, output, halted>>
  /\ ToExecute

-----------------------------------------------------------------------------
\* execute on the next station, whichever it is.
Execute(s) ==
  /\ phase = "execute"
  /\ s \in todo
  /\ todo' = todo \ {s}
  /\ ExecuteCycle(s) \/ ExecuteComplete(s)
  /\ UNCHANGED <<memoryVars, renameRegisters, busVars, fetchVars, unitVars,
                 halted, clockCounter, phase>>

ExecuteAbort(s) ==
  /\ phase = "execute"
  /\ s \in todo
  /\ ExecuteFault(s)
  /\ Abort
  /\ UNCHANGED <<memoryVars, renameRegisters, busVars, fetchVars, unitVars>>

ToWrite ==
  /\ phase = "execute"
  /\ todo = {}
  /\ phase' = "write"
  /\ todo' = {s \in Stations : list[s] = "writing"}
  /\ UNCHANGED <<memoryVars, renameRegisters, stationVars, busVars, fetchVars,
                 output, unitVars, halted, clockCounter>>

\* write on the next station.
Write(s) ==
  /\ phase = "write"
  /\ s \in todo
  /\ todo' = todo \ {s}
  /\ WriteNothing(s) \/ WriteRegister(s) \/ WritePC(s) \/ WriteMemory(s)
  /\ UNCHANGED <<registers, renameRegisters, listeners, output, unitVars,
                 halted, clockCounter, phase>>

WriteAbort(s) ==
  /\ phase = "write"
  /\ s \in todo
  /\ writeFaults(s)
  /\ Abort
  /\ UNCHANGED <<memoryVars, renameRegisters, stationVars, busVars, fetchVars,
                 output, unitVars>>

\* The commit that ends a cycle.
EndCycle ==
  /\ phase = "write"
  /\ todo = {}
  /\ Commit
  /\ phase' = "loop"
  /\ UNCHANGED <<unitVars, halted, clockCounter, todo>>

\* Nothing happens any more; a behaviour is also cut off at MaxClock.
Stopped ==
  /\ \/ phase \in {"done", "aborted"}
     \/ phase = "loop" /\ Working /\ clockCounter = MaxClock
  /\ UNCHANGED vars

Step ==
  \/ Advance \/ Finish
  \/ IssueStalled \/ IssueFault \/ IssueHalt \/ IssueFull
  \/ \E s \in Stations : Issue(s)
  \/ \E s \in Stations : Execute(s) \/ ExecuteAbort(s)
  \/ ToWrite
  \/ \E s \in Stations : Write(s) \/ WriteAbort(s)
  \/ EndCycle

Next == Step \/ Stopped

Spec == Init /\ [][Next]_vars
FairSpec == Spec /\ WF_vars(Step)
-----------------------------------------------------------------------------
(***************************************************************************)
(* Safety.                                                                 *)
(***************************************************************************)
StatesOf(l) ==
  CASE l = "idle"      -> {"Idle"}
    [] l = "issued"    -> {"WaitingForArgs", "ReadyToExecute"}
    [] l = "executing" -> {"Executing", "ExecutionComplete"}
    [] l = "writing"   -> {"Writing", "WriteComplete"}

WritesRegister(i) == getWriteAction(i) \in {"Register", "PC_R31"}

\* A station is in the list its state belongs to, and holds an instruction
\* unless it is idle.  The lists belong to the unit and the state to the
\* station; a notification that reached a station no longer waiting would
\* send it back to an earlier state while its unit keeps it in a later list.
ListsAgree ==
  \A s \in Stations : /\ state[s] \in StatesOf(list[s])
                      /\ Busy(s) <=> state[s] # "Idle"

\* The bus notifies exactly the stations that wait, and a station waits as
\* long as an operand is missing: none is dropped from the listeners with one
\* operand to come, and none stays there with both.
ListenersWait ==
  /\ listeners = {s \in Stations : state[s] = "WaitingForArgs"}
  /\ \A s \in Stations :
       s \in listeners <=> \E k \in Operands : argSource[s][k] # NoStation

\* No wakeup is lost: whatever a station waits for is an older instruction
\* that still has to write the register the operand names, and will do so
\* through the bus.
ProducerInFlight ==
  \A s \in Stations, k \in Operands :
    LET p == argSource[s][k] IN
    p # NoStation =>
      /\ Busy(p) /\ state[p] # "WriteComplete"
      /\ Older(p, s)
      /\ getDest(instruction[p]) = getArg(instruction[s], k)
      /\ WritesRegister(instruction[p])

\* A renamed register names the youngest instruction in flight that writes
\* it; R0 is never renamed.
RenamedToYoungest ==
  \A r \in Regs :
    LET p == renameRegisters[r] IN
    p # NoStation =>
      /\ Busy(p)
      /\ r # R0 /\ getDest(instruction[p]) = r
      /\ \A s \in Stations :
           Busy(s) /\ getDest(instruction[s]) = r => s = p \/ Older(s, p)

\* The bus carries, of the results offered so far in this cycle, that of the
\* instruction issued first: write compares the clocks that setInstruction got.
\* (The header says the one that began executing first; see module BusOrder.)
\* The station that offers it is still writing it, which notifyWriteAccepted
\* asserts.
Offers(s) == /\ phase = "write" /\ list[s] = "writing" /\ s \notin todo
             /\ WritesRegister(instruction[s]) /\ state[s] = "Writing"

BusGrantsOldest ==
  /\ phase = "write" =>
       \A s \in Stations : Offers(s) => source # NoStation /\ ~Older(s, source)
  /\ source # NoStation => /\ phase \in {"write", "aborted"}
                           /\ state[source] = "Writing"
                           /\ WritesRegister(instruction[source])

\* Issue is stalled exactly while a branch is in flight that has not set the
\* pc, and there is never a second one.
Unresolved(s) == /\ Busy(s) /\ getType(instruction[s]) = "Branch"
                 /\ state[s] # "WriteComplete"

StalledByBranch ==
  /\ stallIssue <=> \E s \in Stations : Unresolved(s)
  /\ \A s, t \in Stations : Unresolved(s) /\ Unresolved(t) => s = t

\* Memory is accessed and text printed in program order: a memory or trap
\* instruction has left the station before a younger one of its unit executes.
UnitInOrder ==
  \A s, t \in Stations :
    /\ unitOf[s] = unitOf[t] /\ unitOf[s] \in {"Trap", "Memory"}
    /\ list[s] # "idle" /\ list[t] \in {"executing", "writing"}
    => ~Older(s, t)

\* An instruction holds its execution unit until it retires, and a unit never
\* has more of them at work than it has execution units.
UnitsNotOverbooked ==
  \A u \in Types :
    Cardinality(InList(u, "executing") \cup InList(u, "writing"))
      <= numExecuteUnits[u]

\* execute is never called on a station that has finished: it would start
\* counting down from 2^64, or run the instruction a second time.
ExecutedOnce ==
  phase = "execute" =>
    \A s \in todo : state[s] = "Executing" /\ executeCyclesRemaining[s] > 0

\* When run returns nothing is left behind: no instruction, no renaming, no
\* listener, no result on the bus.
DrainedWhenDone ==
  phase = "done" =>
    /\ \A s \in Stations : ~Busy(s)
    /\ \A r \in Regs : renameRegisters[r] = NoStation
    /\ listeners = {} /\ source = NoStation /\ ~stallIssue

-----------------------------------------------------------------------------
(***************************************************************************)
(* Action properties.                                                      *)
(***************************************************************************)
\* An operand is delivered once: from then on it keeps its value until the
\* station is cleared, whatever the bus carries.
OperandsStable ==
  [][\A s \in Stations, k \in Operands :
       Busy(s) /\ argSource[s][k] = NoStation /\ instruction'[s] # NoInstr
         => arg'[s][k] = arg[s][k] /\ argSource'[s][k] = NoStation]_vars

\* Between the issue of a branch and the moment it sets the pc the pc stays.
PCStable == [][stallIssue /\ stallIssue' => pc' = pc]_vars

-----------------------------------------------------------------------------
(***************************************************************************)
(* Liveness, under FairSpec: the loop of run is the program's only thread  *)
(* and nothing in it blocks, so it goes on while it can.                   *)
(***************************************************************************)
\* Every instruction issued leaves its station: its operands arrive, an
\* execution unit and the bus become free for it (or the program aborts).
EveryIssueRetires ==
  \A s \in Stations : Busy(s) ~> (~Busy(s) \/ phase = "aborted")

\* A branch always lets issue go on in the end.
StallEnds == stallIssue ~> (~stallIssue \/ phase = "aborted")

\* A program whose control reaches its end ends.
Terminates == <>(phase \in {"done", "aborted"})

-----------------------------------------------------------------------------
(***************************************************************************)
(* The inductive invariant behind the safety properties that are proved:   *)
(* TypeOK, those properties, and the bookkeeping they rest on.             *)
(***************************************************************************)
\* What decode returns: an instruction whose word has no destination names none.
Decoded(i) == i \in Instr /\ (~HasRd(i.name) => i.rd = NoReg)

InstructionsDecoded ==
  \A s \in Stations : Busy(s) => /\ Decoded(instruction[s])
                                 /\ getType(instruction[s]) = unitOf[s]

\* Stations still to be called in a phase are in the list of that phase.
TodoInList ==
  /\ phase = "execute" => \A s \in todo : list[s] = "executing"
  /\ phase = "write"   => \A s \in todo : /\ list[s] = "writing"
                                          /\ state[s] = "Writing"

\* Between the advance and the writes of a cycle no station is complete.
RetiredBeforeIssue ==
  phase \in {"issue", "execute"} =>
    \A s \in Stations : state[s] # "WriteComplete"

\* One instruction is issued per clock.
IssueClocks ==
  /\ \A s \in Stations :
       Busy(s) => /\ startClock[s] <= clockCounter
                  /\ phase = "issue" => startClock[s] < clockCounter
  /\ \A s, t \in Stations :
       Busy(s) /\ Busy(t) /\ startClock[s] = startClock[t] => s = t

Bookkeeping == /\ InstructionsDecoded
               /\ TodoInList
               /\ RetiredBeforeIssue
               /\ IssueClocks

Coherent == /\ TypeOK
            /\ Bookkeeping
            /\ ListsAgree
            /\ ListenersWait
            /\ ProducerInFlight
            /\ RenamedToYoungest
            /\ BusGrantsOldest
            /\ StalledByBranch

\* Until an instruction completes, or throws, there is a cycle left for it.
Countdown ==
  phase # "aborted" =>
    \A s \in Stations :
      state[s] \in {"WaitingForArgs", "ReadyToExecute", "Executing"}
        => executeCyclesRemaining[s] > 0

\* What the advance leaves on the executing list is yet to complete.
ExecutingStarts ==
  phase = "issue" => \A s \in Stations : list[s] = "executing" => state[s] = "Executing"

\* What holds of the units because there are finitely many stations and an
\* in-order unit has one execution unit.
UnitInv == /\ UnitsNotOverbooked
           /\ UnitInOrder
           /\ ExecutedOnce
           /\ Countdown
           /\ ExecutingStarts

IInv == Coherent /\ UnitInv
=============================================================================

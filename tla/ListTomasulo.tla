---------------------------- MODULE ListTomasulo ----------------------------
(***************************************************************************)
(* The processor as Tomasulo.cpp runs it: the units keep lists, and execute *)
(* and write go through the units in the order in which the unordered_map  *)
(* functionalUnits iterates, and through the stations of a unit in the     *)
(* order of its list.  Which order the map has is left to the library; it  *)
(* does not change, for no unit is ever added.                             *)
(*                                                                         *)
(* Module Tomasulo forgets both orders; the last part of this module says  *)
(* that it is implemented here.                                            *)
(***************************************************************************)
EXTENDS UnitLists

CONSTANTS
  Images, MaxClock,  \* as in module Tomasulo
  UnitOrders         \* the orders functionalUnits may iterate in

VARIABLES
  halted, clockCounter, phase,
  unitOrder,         \* the sequence of units that functionalUnits iterates over
  calls              \* the stations still to be called in the current phase

loopVars == <<halted, clockCounter, phase, calls>>

machineVars == <<memoryVars, renameRegisters, stationVars, busVars, fetchVars, output>>

lvars == <<machineVars, listVars, loopVars, unitOrder>>

ASSUME UnitOrdersAssumption ==
  \A o \in UnitOrders : o \in Seq(Types) /\ Elements(o) = Types /\ Len(o) = Cardinality(Types)

\* The list of its unit that a station is in.
listOf == [s \in Stations |->
  LET u == unitOf[s] IN
  CASE s \in Elements(issuedStations[u])    -> "issued"
    [] s \in Elements(executingStations[u]) -> "executing"
    [] s \in Elements(writingStations[u])   -> "writing"
    [] OTHER                                -> "idle"]

\* The processor of module Tomasulo.
P == INSTANCE Tomasulo WITH list <- listOf, todo <- Elements(calls)

LInit ==
  /\ memory \in Images
  /\ RegisterInit
  /\ RenameInit
  /\ StationInit
  /\ ListsInit
  /\ halted = FALSE
  /\ clockCounter = 0
  /\ phase = "loop"
  /\ unitOrder \in UnitOrders
  /\ calls = <<>>

-----------------------------------------------------------------------------
working == ~halted \/ ~unitsIdle

Same(v) == UNCHANGED <<v, unitOrder>>

LAdvance ==
  /\ phase = "loop"
  /\ working
  /\ clockCounter < MaxClock
  /\ clockCounter' = clockCounter + 1
  /\ advanceLists
  /\ phase' = "issue"
  /\ Same(<<memoryVars, busVars, fetchVars, output, halted, calls>>)

LFinish ==
  /\ phase = "loop"
  /\ ~working
  /\ phase' = "done"
  /\ Same(<<machineVars, listVars, halted, clockCounter, calls>>)

\* An exception or a signal leaves run.
abort == phase' = "aborted" /\ UNCHANGED <<listVars, halted, clockCounter, calls>>

\* The stations that a loop over functionalUnits calls: of each unit in turn
\* those on its list.
CallOrder(lists) ==
  lists[unitOrder[1]] \o lists[unitOrder[2]] \o lists[unitOrder[3]]
    \o lists[unitOrder[4]] \o lists[unitOrder[5]]

\* The end of issue, with the units' lists as they are now.
toExecute ==
  /\ phase' = "execute"
  /\ calls' = CallOrder(executingStations)
  /\ UNCHANGED clockCounter

\* Nothing to issue, no room for it, or a halt.
LIssueNone ==
  /\ phase = "issue"
  /\ IF halted \/ stallIssue THEN UNCHANGED halted
     ELSE /\ Accessible(pc)
          /\ P!isHalt(P!fetched) \/ idleStations[getType(P!fetched)] = <<>>
          /\ halted' = P!isHalt(P!fetched)
  /\ toExecute
  /\ Same(<<machineVars, listVars>>)

LIssueFault ==
  /\ P!canIssue
  /\ ~Accessible(pc)
  /\ abort
  /\ Same(machineVars)

LIssue ==
  /\ P!canIssue
  /\ Accessible(pc)
  /\ ~P!isHalt(P!fetched)
  /\ idleStations[getType(P!fetched)] # <<>>
  /\ issueFront(P!fetched, clockCounter)
  /\ P!afterIssue(P!fetched)
  /\ toExecute
  /\ Same(<<memoryVars, source, output, halted>>)

-----------------------------------------------------------------------------
\* execute or write returns, and the next station is called.
return == calls' = Tail(calls) /\ UNCHANGED <<listVars, halted, clockCounter, phase>>

LExecute ==
  /\ phase = "execute"
  /\ calls # <<>>
  /\ ExecuteCycle(Head(calls)) \/ ExecuteComplete(Head(calls))
  /\ return
  /\ Same(<<memoryVars, renameRegisters, busVars, fetchVars>>)

LExecuteAbort ==
  /\ phase = "execute"
  /\ calls # <<>>
  /\ ExecuteFault(Head(calls))
  /\ abort
  /\ Same(<<memoryVars, renameRegisters, busVars, fetchVars>>)

LToWrite ==
  /\ phase = "execute"
  /\ calls = <<>>
  /\ phase' = "write"
  /\ calls' = CallOrder(writingStations)
  /\ Same(<<machineVars, listVars, halted, clockCounter>>)

LWrite ==
  /\ phase = "write"
  /\ calls # <<>>
  /\ LET s == Head(calls) IN
     WriteNothing(s) \/ WriteRegister(s) \/ WritePC(s) \/ WriteMemory(s)
  /\ return
  /\ Same(<<registers, renameRegisters, listeners, output>>)

LWriteAbort ==
  /\ phase = "write"
  /\ calls # <<>>
  /\ writeFaults(Head(calls))
  /\ abort
  /\ Same(machineVars)

LEndCycle ==
  /\ phase = "write"
  /\ calls = <<>>
  /\ Commit
  /\ phase' = "loop"
  /\ Same(<<listVars, halted, clockCounter, calls>>)

LStopped ==
  /\ \/ phase \in {"done", "aborted"}
     \/ phase = "loop" /\ working /\ clockCounter = MaxClock
  /\ UNCHANGED lvars

LStep == \/ LAdvance \/ LFinish
         \/ LIssueNone \/ LIssueFault \/ LIssue
         \/ LExecute \/ LExecuteAbort
         \/ LToWrite
         \/ LWrite \/ LWriteAbort
         \/ LEndCycle

LNext == LStep \/ LStopped

ListSpec == LInit /\ [][LNext]_lvars

-----------------------------------------------------------------------------
\* The lists of unit u one after the other.
lists(u) == idleStations[u] \o issuedStations[u] \o executingStations[u] \o writingStations[u]

\* No station of a unit is ever lost or in two lists, however often it has gone
\* round: a lost one would make its unit smaller and in the end stop issue, one
\* in two lists would be given two instructions.
EveryStationKept ==
  \A u \in Types : /\ Elements(lists(u)) = Elements(allStations[u])
                   /\ Len(lists(u)) = Len(allStations[u])

\* The order a list has is the order of issue, wherever advanceInstructions
\* relies on it: in issuedStations, and from one list to the next in an
\* in-order unit.  That order is nowhere compared or sorted, it comes about by
\* taking stations off the front and pushing them to the back.
SortedByIssue ==
  \A u \in Types :
    LET inFlight == writingStations[u] \o executingStations[u] \o issuedStations[u]
        seq      == IF executeInOrder(u) THEN inFlight ELSE issuedStations[u]
    IN  Sorted(seq, startClock)

\* The lists and the order of the calls implement the sets of module Tomasulo:
\* what holds there for every order of the calls holds for the program's.
ProcessorSpec == P!Spec

-----------------------------------------------------------------------------
(***************************************************************************)
(* The inductive invariant behind the three.                               *)
(***************************************************************************)
\* The lists of a unit part its stations among them.
ListsPartStations ==
  \A u \in Types :
    /\ Distinct(idleStations[u])      /\ Elements(idleStations[u])      = P!InList(u, "idle")
    /\ Distinct(issuedStations[u])    /\ Elements(issuedStations[u])    = P!InList(u, "issued")
    /\ Distinct(executingStations[u]) /\ Elements(executingStations[u]) = P!InList(u, "executing")
    /\ Distinct(writingStations[u])   /\ Elements(writingStations[u])   = P!InList(u, "writing")

\* Issue was in the order of the lists, and what is issued next comes last.
ListsInOrder ==
  \A u \in Types :
    /\ Sorted(issuedStations[u], startClock)
    /\ executeInOrder(u) =>
         /\ Sorted(executingStations[u], startClock)
         /\ Sorted(writingStations[u], startClock)
         /\ \A s \in Elements(writingStations[u]), t \in Elements(executingStations[u]) : Older(s, t)
         /\ \A s \in Elements(writingStations[u]), t \in Elements(issuedStations[u]) : Older(s, t)
         /\ \A s \in Elements(executingStations[u]), t \in Elements(issuedStations[u]) : Older(s, t)

IssuedBefore ==
  \A s \in Stations : listOf[s] # "idle" =>
    startClock[s] <= clockCounter /\ (phase = "issue" => startClock[s] < clockCounter)

ListTypeOK ==
  /\ idleStations \in [Types -> Seq(Stations)]
  /\ issuedStations \in [Types -> Seq(Stations)]
  /\ executingStations \in [Types -> Seq(Stations)]
  /\ writingStations \in [Types -> Seq(Stations)]
  /\ startClock \in [Stations -> Nat]
  /\ clockCounter \in Nat
  /\ halted \in BOOLEAN
  /\ unitOrder \in UnitOrders
  /\ calls \in Seq(Stations) /\ Distinct(calls)

ListInv == ListTypeOK /\ ListsPartStations /\ ListsInOrder /\ IssuedBefore
=============================================================================

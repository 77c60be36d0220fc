--------------------------- MODULE FunctionalUnit ---------------------------
(***************************************************************************)
(* FunctionalUnit.cpp: the lists a unit keeps its stations in and how      *)
(* stations move along them once per cycle.                                *)
(*                                                                         *)
(* A list is represented by the set of its stations.  Its order is that of *)
(* their startClock, since one instruction is issued per clock: always for *)
(* issuedStations, and for executingStations of an in-order unit.  The     *)
(* order of the other lists decides nothing but which of several idle,     *)
(* identical stations is used next, which is left open here.  Module       *)
(* UnitLists has the lists themselves.                                     *)
(***************************************************************************)
EXTENDS Units

VARIABLE
  list              \* station -> the list of its unit that it is in

unitVars == <<list>>

UnitTypeOK == list \in [Stations -> {"idle", "issued", "executing", "writing"}]

UnitInit == list = [s \in Stations |-> "idle"]

InList(u, l) == {s \in Stations : unitOf[s] = u /\ list[s] = l}

\* FunctionalUnit::idle of every unit.
functionalUnitsIdle == \A s \in Stations : list[s] = "idle"

-----------------------------------------------------------------------------
\* Stations that advanceInstructions retires to the idle list.
Retired == {s \in Stations : list[s] = "writing" /\ state[s] = "WriteComplete"}

\* A mutant of Completed: one station moves per cycle.
oneCompleted(u) ==
  {s \in InList(u, "executing") :
     /\ state[s] = "ExecutionComplete"
     /\ \A t \in InList(u, "executing") :
          Older(t, s) => state[t] # "ExecutionComplete"}

\* Stations of unit u that move from execute to write: in order, only those
\* with no unfinished station in front of them.
Completed(u) ==
  LET done(s) == state[s] = "ExecutionComplete" IN
  {s \in InList(u, "executing") :
     /\ done(s)
     /\ executeInOrder(u) =>
          \A t \in InList(u, "executing") : Older(t, s) => done(t)}

\* A mutant of freeUnits: a station that writes gives its execution unit back.
unitsNotExecuting(u) == numExecuteUnits[u] - Cardinality(InList(u, "executing"))

\* executeUnitsAvailable: a station holds its execution unit until it retires.
freeUnits(u) ==
  numExecuteUnits[u]
    - Cardinality((InList(u, "executing") \cup InList(u, "writing")) \ Retired)

\* A mutant of Startable: operands are not waited for.
startWaiting(u) == InList(u, "issued")

\* Stations of unit u that may move from issued to execute: in order, only
\* those with no waiting station in front of them.
Startable(u) ==
  LET ready(s) == state[s] = "ReadyToExecute" IN
  {s \in InList(u, "issued") :
     /\ ready(s)
     /\ executeInOrder(u) =>
          \A t \in InList(u, "issued") : Older(t, s) => ready(t)}

\* They start oldest first while execution units are free.
Started(u) ==
  {s \in Startable(u) :
     Cardinality({t \in Startable(u) : Older(t, s)}) < freeUnits(u)}

\* advanceInstructions of every unit.
AdvanceStations ==
  LET writers   == UNION {Completed(u) : u \in Types}
      executers == UNION {Started(u) : u \in Types}
  IN
  /\ clearInstruction(Retired)
  /\ list' = [s \in Stations |->
                CASE s \in Retired   -> "idle"
                  [] s \in writers   -> "writing"
                  [] s \in executers -> "executing"
                  [] OTHER           -> list[s]]
  /\ state' = [s \in Stations |->
                 CASE s \in Retired   -> "Idle"
                   [] s \in writers   -> "Writing"
                   [] s \in executers -> "Executing"
                   [] OTHER           -> state[s]]

\* issue: a unit with no idle station rejects the instruction.
stationsFull(u) == InList(u, "idle") = {}

IssueTo(s, i, clock) ==
  /\ s \in InList(getType(i), "idle")
  /\ setInstruction(s, i, clock)
  /\ list' = [list EXCEPT ![s] = "issued"]
=============================================================================

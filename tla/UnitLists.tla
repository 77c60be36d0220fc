------------------------------ MODULE UnitLists ------------------------------
(***************************************************************************)
(* FunctionalUnit.cpp with its four std::lists of stations, each in its    *)
(* order: a station is taken from the front of idleStations, pushed to the *)
(* back of issuedStations, and moved along once per cycle.                 *)
(***************************************************************************)
EXTENDS Units, Lists

CONSTANT
  allStations         \* type -> the stations of its unit, in order of creation

VARIABLES
  idleStations,       \* type -> sequence of stations, each of the four
  issuedStations,
  executingStations,
  writingStations

listVars == <<idleStations, issuedStations, executingStations, writingStations>>

ASSUME AllStationsAssumption ==
  /\ allStations \in [Types -> Seq(Stations)]
  /\ \A u \in Types :
       /\ Elements(allStations[u]) = {s \in Stations : unitOf[s] = u}
       /\ Len(allStations[u]) = Cardinality(Elements(allStations[u]))

ListsInit ==
  /\ idleStations = allStations
  /\ issuedStations = [u \in Types |-> <<>>]
  /\ executingStations = [u \in Types |-> <<>>]
  /\ writingStations = [u \in Types |-> <<>>]

\* FunctionalUnit::idle of every unit.
unitsIdle ==
  \A u \in Types : /\ issuedStations[u] = <<>>
                   /\ executingStations[u] = <<>>
                   /\ writingStations[u] = <<>>

-----------------------------------------------------------------------------
\* The stations of a list in state st, and the list without the stations S.
InState(seq, st) == Kept(seq, {s \in Stations : state[s] = st})
Without(seq, S)  == Kept(seq, Stations \ S)

\* A mutant of Leading: nothing holds up what stands behind it.
anyInState(seq, st) == InState(seq, st)

\* The stations in front of the first one that is not in state st.
Leading(seq, st) ==
  SubSeq(seq, 1, Cardinality({n \in DOMAIN seq : \A j \in 1 .. n : state[seq[j]] = st}))

\* What inOrderAdvance takes off the front of a list while it is in state st,
\* and outOfOrderAdvance out of the whole list.
Movable(u, seq, st) ==
  IF executeInOrder(u) THEN Leading(seq, st) ELSE InState(seq, st)

\* The stations of unit u that advanceInstructions retires, then those it moves
\* from execute to write.
retired(u)  == InState(writingStations[u], "WriteComplete")
executed(u) == Movable(u, executingStations[u], "ExecutionComplete")

\* A mutant of used: a station that writes gives its execution unit back.
usedExecuting(u) == Len(executingStations[u]) - Len(executed(u))

\* The execution units in use after that, by what executes and what writes.
used(u) == (Len(executingStations[u]) - Len(executed(u)))
             + ((Len(writingStations[u]) - Len(retired(u))) + Len(executed(u)))

\* Last those that start, the first ones first, as executeUnitsAvailable.
started(u) ==
  LET ready == Movable(u, issuedStations[u], "ReadyToExecute")
      free  == numExecuteUnits[u] - used(u)
  IN  SubSeq(ready, 1, IF free < Len(ready) THEN free ELSE Len(ready))

\* A mutant of retireLists: a retired station is lost.
retireNone == UNCHANGED idleStations

retireLists ==
  idleStations' = [u \in Types |-> idleStations[u] \o retired(u)]

\* advanceInstructions of every unit, which touches no other unit.
advanceLists ==
  LET all(f(_)) == UNION {Elements(f(u)) : u \in Types} IN
  /\ clearInstruction(all(retired))
  /\ retireLists
  /\ writingStations' =
       [u \in Types |-> Without(writingStations[u], all(retired)) \o executed(u)]
  /\ executingStations' =
       [u \in Types |-> Without(executingStations[u], all(executed)) \o started(u)]
  /\ issuedStations' = [u \in Types |-> Without(issuedStations[u], all(started))]
  /\ state' = [s \in Stations |->
                 CASE s \in all(retired)  -> "Idle"
                   [] s \in all(executed) -> "Writing"
                   [] s \in all(started)  -> "Executing"
                   [] OTHER               -> state[s]]

\* issue, to a unit that has an idle station.
issueFront(i, clock) ==
  LET u == getType(i)  s == Head(idleStations[u]) IN
  /\ idleStations' = [idleStations EXCEPT ![u] = Tail(@)]
  /\ issuedStations' = [issuedStations EXCEPT ![u] = Append(@, s)]
  /\ setInstruction(s, i, clock)
  /\ UNCHANGED <<executingStations, writingStations>>
=============================================================================

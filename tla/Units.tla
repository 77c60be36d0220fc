-------------------------------- MODULE Units --------------------------------
(***************************************************************************)
(* How the functional units are set up: what FunctionalUnit keeps of the   *)
(* arguments of its constructor.                                           *)
(***************************************************************************)
EXTENDS ReservationStation

CONSTANT
  numExecuteUnits   \* type -> number of execution units

ASSUME ExecuteUnitsAssumption == numExecuteUnits \in [Types -> Nat \ {0}]

\* A unit is created with a number of stations.
ASSUME FiniteAssumption == IsFiniteSet(Stations)

\* Mutants of executeInOrder: the memory unit, or the trap unit, is not.
memoryOutOfOrder(u) == u \in {"Trap", "Branch"}
trapOutOfOrder(u)   == u \in {"Branch", "Memory"}

\* The units Tomasulo creates with executeInOrder set.
executeInOrder(u) == u \in {"Trap", "Branch", "Memory"}

\* Each of these has a single execution unit.
ASSUME InOrderAssumption ==
  \A u \in Types : executeInOrder(u) => numExecuteUnits[u] = 1
=============================================================================

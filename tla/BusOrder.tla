------------------------------ MODULE BusOrder ------------------------------
(***************************************************************************)
(* The processor, and a record of when each instruction began executing,   *)
(* to compare with what CommonDataBus.h says of the arbitration.           *)
(***************************************************************************)
EXTENDS Tomasulo

VARIABLE began   \* station -> the clock of its last setIsExecuting

BusOrderInit == Init /\ began = [s \in Stations |-> 0]

\* A station begins to execute when it moves to the executing list.
Began ==
  began' = [s \in Stations |->
              IF list[s] = "issued" /\ list'[s] = "executing" THEN clockCounter'
              ELSE began[s]]

BusOrderSpec == BusOrderInit /\ [][Next /\ Began]_<<vars, began>>

\* "If multiple writes occur in the same cycle the oldest write (based on the
\* cycle when the instruction began executing) will be written"
\* (CommonDataBus.h:34): of the results offered in a cycle the bus carries one
\* whose instruction began no later than the others.
GrantsFirstToExecute ==
  phase = "write" /\ source # NoStation =>
    \A s \in Stations : Offers(s) => began[source] <= began[s]
=============================================================================

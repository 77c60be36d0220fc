------------------------- MODULE RenameRegisterFile -------------------------
(***************************************************************************)
(* RenameRegisterFile.cpp: for each register, the reservation station      *)
(* whose result it waits for.                                              *)
(***************************************************************************)
EXTENDS RegisterFile

CONSTANTS
  Stations,        \* all reservation stations of all functional units
  NoStation        \* ReservationStationID::NONE

VARIABLE
  renameRegisters  \* register -> station; NoStation where the map has no entry

ASSUME StationsAssumption == NoStation \notin Stations

RenameTypeOK == renameRegisters \in [Regs -> Stations \cup {NoStation}]

RenameInit == renameRegisters = [r \in Regs |-> NoStation]

\* A mutant of rename: the first renaming stays.
renameOnce(r, s) ==
  renameRegisters' = IF renameRegisters[r] # NoStation THEN renameRegisters
                     ELSE [renameRegisters EXCEPT ![r] = s]

\* A later rename of the same register replaces the earlier one.
rename(r, s) == renameRegisters' = [renameRegisters EXCEPT ![r] = s]

getRenaming(r) == renameRegisters[r]

\* The register renamed to station s, NONE when a later instruction took the
\* renaming over (or s has no destination).
getReverseRename(s) ==
  IF \E r \in Regs : renameRegisters[r] = s
  THEN CHOOSE r \in Regs : renameRegisters[r] = s
  ELSE NoReg

\* A mutant of clearRename: the renaming outlives the station.
keepRename(S) == renameRegisters' = renameRegisters

\* clearRename, called for every station of S.
clearRename(S) ==
  renameRegisters' =
    [r \in Regs |-> IF \E s \in S : getReverseRename(s) = r
                    THEN NoStation ELSE renameRegisters[r]]
=============================================================================

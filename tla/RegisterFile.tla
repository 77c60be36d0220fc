---------------------------- MODULE RegisterFile ----------------------------
(***************************************************************************)
(* RegisterFile.cpp: the general purpose and floating point registers.     *)
(***************************************************************************)
EXTENDS Instructions

VARIABLE
  registers    \* RegisterFile::registers

RegisterTypeOK == registers \in [Regs -> Word]

RegisterInit == registers = [r \in Regs |-> 0]

\* No register reads as zero.
read(r) == IF r = NoReg THEN 0 ELSE registers[r]

\* A write to NONE or to R0 is dropped.
write(r, value) ==
  registers' = IF r \in {NoReg, R0} THEN registers
               ELSE [registers EXCEPT ![r] = value]
=============================================================================

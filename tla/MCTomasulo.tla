----------------------------- MODULE MCTomasulo -----------------------------
\* The processor alone.
EXTENDS Tomasulo, MCMachine

MCImages == AllPrograms

\* Programs without a backward jump, which all end.
MCForwardImages == Programs(3, {5, 6, 8, 10, 12}, 8)
=============================================================================

----------------------------- MODULE MCBusOrder -----------------------------
\* The processor and the clocks at which its instructions began executing.
EXTENDS BusOrder, MCMachine

\* MULT F1; SW; MOVFP2I R1,F1; LF F1.  The move waits for the product and the
\* load for the store, and both write their results in one cycle.
MCImages == {Image(<<5, 9, 6, 3>>, 8)}
=============================================================================

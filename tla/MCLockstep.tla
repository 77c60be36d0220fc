----------------------------- MODULE MCLockstep -----------------------------
\* The processor and the sequential machine side by side.
EXTENDS Lockstep, MCMachine

\* Programs of four that compute and print.
MCDataImages == Programs(4, {2, 4, 5, 6, 14, 15}, 8)

\* These, those that keep the memory unit waiting, all of three instructions but
\* the jump that does not link and LF, which is among the others, and one that is
\* fetched past a store to its last word which is still in flight.
MCImages == Programs(3, (2 .. 16) \ {3, 11}, 8) \cup MemoryPrograms \cup MCDataImages
              \cup {Image(<<2, 4, 5, 6, 9, 14>>, 8)}

\* Programs of three that set R1 and write F1, by MULT and by a move of R1.
MCWriteImages == Programs(3, {2, 4, 5}, 8)
=============================================================================

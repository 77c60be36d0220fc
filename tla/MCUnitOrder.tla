---------------------------- MODULE MCUnitOrder ----------------------------
\* The processor with its lists, and a second one with another order of units.
EXTENDS UnitOrder, MCMachine

\* Fewer execution units than stations, as in Tomasulo.cpp for every unit but
\* the branch unit.
MClistUnits == [u \in {"Integer", "Trap", "Branch", "Memory", "FloatingPoint"} |-> 1]

\* None prints text from outside the memory, which is undefined.
MCImages == Programs(3, {5, 6, 8, 9, 12, 14}, 8)
              \cup {Image(<<3, 5, 5, 5, 6, 2>>, 8), Image(<<2, 2, 8, 9, 8, 14>>, 8),
                    Image(<<5, 3, 6, 14, 14, 8>>, 8), Image(<<2, 10, 4, 16, 14, 8>>, 8),
                    Image(<<7, 2, 2, 14>>, 8), Image(<<5, 6, 9, 3>>, 8),
                    Image(<<3, 5, 6, 15, 14>>, 8)}
=============================================================================

------------------------------- MODULE MCTests -------------------------------
\* The four tests, with the units in two orders.
EXTENDS TestPrograms

MCStations == UNION {{<<u, j>> : j \in 1 .. numStations[u]} : u \in UnitTypes}

MCUnitOrders == {<<"Integer", "Trap", "Branch", "Memory", "FloatingPoint">>,
                 <<"FloatingPoint", "Memory", "Branch", "Trap", "Integer">>}
=============================================================================

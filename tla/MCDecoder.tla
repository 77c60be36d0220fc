------------------------------ MODULE MCDecoder ------------------------------
\* The assembled form of every instruction, with extreme registers and values,
\* and words that are no instruction.
EXTENDS Assembler

MCSource ==
  UNION {Forms({0, 1, 31}, {-32768, -1, 0, 1, 32767},
               {-33554432, -1, 0, 1, 65536, 33554431})[k] : k \in 1 .. 12}

MCRawWords ==
  {encode(i) : i \in MCSource}
    \cup [op : 0 .. 63, a : {0, 31}, b : {0}, c : {31}, x : {0},
          fun : {0, 2, 9, 33, 63}]
=============================================================================

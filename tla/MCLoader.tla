------------------------------ MODULE MCLoader ------------------------------
\* Binary digits, bytes 0 .. 3, words 0 .. 255 and eight bytes of memory.
EXTENDS HexFiles, SequencesExt

\* Records that lie apart, overlap, end in the last byte or reach behind it.
MCEntries ==
  [loads : {TRUE}, addr : {0, 2, 5, 255}, bytes : {<<1>>, <<2, 3>>, <<3, 0, 1>>},
   gap : {<<>>}, rest : {<<>>, <<Space, Hash, 1, Colon, 1>>}]
  \cup [loads : {TRUE}, addr : {2}, bytes : {<<2, 3>>, <<3, 0, 1>>},
        gap : {<<Space>>}, rest : {<<>>, <<Hash, 1>>}]
  \cup [loads : {TRUE}, addr : {0}, bytes : {<<>>}, gap : {<<>>},
        rest : {<<>>, <<Hash, 1>>}]
  \cup {NoRecord(r) : r \in {<<>>, <<Hash, 1, Colon, 1, 1>>, <<Other, 1, 0>>}}

\* Lines of up to four characters, alone in a file.
MCTexts == {File("hex", TRUE, <<t>>) : t \in SeqOf(Char, 4)}

\* Names that main refuses, and a file that cannot be read.
MCRefused == {File(n, TRUE, <<<<>>>>) : n \in {"short", "other", "missing"}}
             \cup {File("hex", FALSE, <<<<>>>>)}

MCFiles ==
  {Document(d) : d \in SeqOf(MCEntries, 2) \ {<<>>}} \cup MCTexts \cup MCRefused
=============================================================================

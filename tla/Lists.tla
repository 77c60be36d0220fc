-------------------------------- MODULE Lists --------------------------------
(***************************************************************************)
(* std::list as the functional units use it: a sequence.                   *)
(***************************************************************************)
EXTENDS Integers, Sequences, FiniteSets

Elements(seq) == {seq[j] : j \in DOMAIN seq}

\* What remove_if leaves of a list: its elements that are in S, in their order.
Kept(seq, S) ==
  LET kept[n \in 0 .. Len(seq)] ==
        IF n = 0 THEN <<>>
        ELSE IF seq[n] \in S THEN Append(kept[n - 1], seq[n]) ELSE kept[n - 1]
  IN  kept[Len(seq)]

\* No element occurs twice; the elements occur in the order of their clocks.
Distinct(seq) == \A j, k \in DOMAIN seq : seq[j] = seq[k] => j = k

Sorted(seq, clock) == \A j, k \in DOMAIN seq : j < k => clock[seq[j]] < clock[seq[k]]
=============================================================================

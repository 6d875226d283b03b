----------------------------- MODULE Sequencing ------------------------------
(***************************************************************************)
(* The elements of a sequence, the sum of a sequence of numbers and the    *)
(* part of a sequence that is in a set, the last two as recursive          *)
(* functions: SequencingProofs has what they compute.                      *)
(***************************************************************************)
EXTENDS Integers, Sequences

Elems(s) == {s[n] : n \in DOMAIN s}

\* The sums of the first n numbers of s.
Sums(s) == LET sum[n \in 0..Len(s)] == IF n = 0 THEN 0 ELSE sum[n - 1] + s[n] IN sum

Total(s) == Sums(s)[Len(s)]

\* What of the first n elements of s is in S, in its order.
OnlyUpTo(s, S) ==
  LET kept[n \in 0..Len(s)] ==
        IF n = 0 THEN <<>> ELSE IF s[n] \in S THEN Append(kept[n - 1], s[n]) ELSE kept[n - 1]
  IN kept

Only(s, S) == OnlyUpTo(s, S)[Len(s)]

=============================================================================

------------------------------ MODULE MCPusher ------------------------------
(* Instances of Pusher for TLC. *)
EXTENDS Pusher, TLC

CONSTANTS i1, i2, i3

\* All three go to one destination.
MCOneKey(i) == "a"

\* i1 and i3 go to one destination, i2 to another.
MCKeyOf(i) == IF i = i2 THEN "b" ELSE "a"

MCSizeOf(i) == IF i = i3 THEN 2 ELSE 1

Symmetry == Permutations(Callers) \union Permutations(Workers)

=============================================================================

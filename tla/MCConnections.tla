--------------------------- MODULE MCConnections ----------------------------
(* Instances of Connections for TLC. *)
EXTENDS Connections, TLC

\* The SDK's threads are alike, and so are the two inputs.
Symmetry == Permutations(Openers) \union Permutations(Inputs) \union Permutations(Links)

=============================================================================

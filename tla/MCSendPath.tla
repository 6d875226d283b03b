----------------------------- MODULE MCSendPath -----------------------------
(* Instances of SendPath for TLC: one destination, messages of one byte, the third package one byte longer than the others. *)
EXTENDS SendPath

MCKeyOf(p) == "d"

MCSizeOf(p) == IF p = 3 THEN 2 ELSE 1

MCBytesOf(m) == 1

=============================================================================

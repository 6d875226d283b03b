--------------------------- MODULE MCReceivePath ----------------------------
(* Instances of ReceivePath for TLC. *)
EXTENDS ReceivePath

\* p packs two messages, q is a third one, sent alone.
MCContents(p) == IF p = "p" THEN <<"m1", "m2">> ELSE <<"m3">>

=============================================================================

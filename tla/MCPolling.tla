----------------------------- MODULE MCPolling ------------------------------
(* Instances of Polling for TLC. *)
EXTENDS Polling

CONSTANTS r1, r2

\* Of the kinds with a shared cache two readers run; of the others a reader is alone.
MCRuns(k) == IF k \in {"permstore", "avideoSelenium"} THEN {r1, r2} ELSE {r1}

\* The clock of a sender is right or an interval behind.
MCSkews == {-1, 0}

\* Pixelfed's cache holds the image and the page of one post before it is trimmed.
MCHigh(k) == IF k = "pixelfedSelenium" THEN 2 ELSE 0

=============================================================================

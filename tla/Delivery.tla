------------------------------ MODULE Delivery ------------------------------
(***************************************************************************)
(* What a receiver promises about the messages packed into packages: none  *)
(* is received before its whole package has arrived, and one that was      *)
(* received is not received again until Window others have been.           *)
(***************************************************************************)
EXTENDS Integers, Sequences

CONSTANTS
  Packages,      \* what is sent
  Contents(_),   \* the messages packed into a package
  Window         \* how many messages back a repetition is recognised

VARIABLES
  stage,         \* how far each package has come
  received       \* the messages received, oldest first

Init ==
  /\ stage = [p \in Packages |-> "unsent"]
  /\ received = <<>>

Send(p) ==
  /\ stage[p] = "unsent"
  /\ stage' = [stage EXCEPT ![p] = "sent"]
  /\ UNCHANGED received

Arrive(p) ==
  /\ stage[p] = "sent"
  /\ stage' = [stage EXCEPT ![p] = "arrived"]
  /\ UNCHANGED received

Fresh(m) == \A n \in DOMAIN received : n > Len(received) - Window => received[n] # m

Receive(p, n) ==
  /\ stage[p] = "arrived"
  /\ n \in DOMAIN Contents(p)
  /\ Fresh(Contents(p)[n])
  /\ received' = Append(received, Contents(p)[n])
  /\ UNCHANGED stage

Next ==
  \E p \in Packages :
    \/ Send(p) \/ Arrive(p)
    \/ \E n \in DOMAIN Contents(p) : Receive(p, n)

Spec == Init /\ [][Next]_<<stage, received>>

=============================================================================

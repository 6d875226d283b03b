------------------------------ MODULE Mailbox -------------------------------
(***************************************************************************)
(* What a Pusher promises to the callers of pushMsg, destination by        *)
(* destination: messages are posted in the order in which they were        *)
(* accepted, none is passed over, and each is settled once.  A post may be *)
(* stored several times (a failed attempt can have been stored), and a     *)
(* message can fail, but nothing leaves the mailbox unsettled.             *)
(***************************************************************************)
EXTENDS Integers, Sequences

CONSTANTS
  Items,     \* the messages
  KeyOf(_)   \* where a message goes

VARIABLES
  box,       \* per destination, the accepted messages not yet settled
  store,     \* per destination, the posts stored
  fate       \* what became of each message

Keys == {KeyOf(i) : i \in Items}

Outcomes == {"sent", "failed", "lost"}

Init ==
  /\ box = [k \in Keys |-> <<>>]
  /\ store = [k \in Keys |-> <<>>]
  /\ fate = [i \in Items |-> "new"]

Front(k, n) == SubSeq(box[k], 1, n)

Accept(i) ==
  /\ fate[i] = "new"
  /\ box' = [box EXCEPT ![KeyOf(i)] = Append(@, i)]
  /\ fate' = [fate EXCEPT ![i] = "accepted"]
  /\ UNCHANGED store

Post(k, n) == store' = [store EXCEPT ![k] = Append(@, Front(k, n))]

\* An attempt that is not the last one, stored by the whiteboard.
Attempt(k, n) ==
  /\ Post(k, n)
  /\ UNCHANGED <<box, fate>>

Settle(k, n, outcome) ==
  /\ IF outcome = "sent" THEN Post(k, n) ELSE UNCHANGED store
  /\ box' = [box EXCEPT ![k] = SubSeq(@, n + 1, Len(@))]
  /\ fate' = [i \in Items |-> IF \E m \in 1..n : box[k][m] = i THEN outcome ELSE fate[i]]

Next ==
  \/ \E i \in Items : Accept(i)
  \/ \E k \in Keys : \E n \in 1..Len(box[k]) :
       \/ Attempt(k, n)
       \/ \E outcome \in Outcomes : Settle(k, n, outcome)

Spec == Init /\ [][Next]_<<box, store, fate>>

=============================================================================

---------------------------- MODULE MessageStore ----------------------------
(***************************************************************************)
(* The store of received messages of the RACE comms server (AbsMsgStore,   *)
(* MsgMemStore): the Pullers' threads save, the HTTP requests read.  A     *)
(* client that follows the store asks each time for the messages after the *)
(* last one it has.                                                        *)
(***************************************************************************)
EXTENDS Integers, Sequences

CONSTANTS
  Savers,    \* the threads that deliver messages
  Clients,   \* the clients that follow the store
  MaxSaved,  \* bound: the messages saved
  Counts,    \* how many messages a client asks for
  NoThread

ASSUME MessageStoreAssumption ==
  /\ MaxSaved \in Nat
  /\ Counts \subseteq Nat \ {0}
  /\ NoThread \notin Savers \union Clients

VARIABLES
  lock,      \* the thread that holds the store's lock
  greatest,  \* _greatest
  least,     \* _least
  msgs,      \* _msgs: the numbers of the saved messages
  save,      \* a saver: "idle", "next" (in save_message), "least" (in next), "append"
  request,   \* a client: "idle", "info" (about to read info_dict), "get" (about to enter get_messages),
             \* "copy" (waits for the lock in it)
  first,     \* the first message a client asked for
  count,     \* how many, bounded by the number of messages once "copy" is reached
  got        \* history: the messages a client was given, in order

mvars == <<lock, greatest, least, msgs, save, request, first, count, got>>
clientVars == <<request, first, count, got>>

MInit ==
  /\ lock = NoThread
  /\ greatest = 0
  /\ least = 0
  /\ msgs = <<>>
  /\ save = [s \in Savers |-> "idle"]
  /\ request = [c \in Clients |-> "idle"]
  /\ first = [c \in Clients |-> 0]
  /\ count = [c \in Clients |-> 0]
  /\ got = [c \in Clients |-> <<>>]

-----------------------------------------------------------------------------
(* save_message *)

\* Mutant: save_message takes no lock.
LeaveStore(s) == UNCHANGED lock

LockStore(s) == lock = NoThread /\ lock' = s

SaveMessage(s) ==
  /\ save[s] = "idle"
  /\ Len(msgs) < MaxSaved
  /\ LockStore(s)
  /\ save' = [save EXCEPT ![s] = "next"]
  /\ UNCHANGED <<greatest, least, msgs, clientVars>>

\* next, whose two numbers are read by get_messages without the lock.
NextGreatest(s) ==
  /\ save[s] = "next"
  /\ greatest' = greatest + 1
  /\ save' = [save EXCEPT ![s] = "least"]
  /\ UNCHANGED <<lock, least, msgs, clientVars>>

NextLeast(s) ==
  /\ save[s] = "least"
  /\ least' = IF least = 0 THEN 1 ELSE least
  /\ save' = [save EXCEPT ![s] = "append"]
  /\ UNCHANGED <<lock, greatest, msgs, clientVars>>

\* A message that was saved before is appended as well.
AppendMessage(s) ==
  /\ save[s] = "append"
  /\ msgs' = Append(msgs, greatest)
  /\ lock' = NoThread
  /\ save' = [save EXCEPT ![s] = "idle"]
  /\ UNCHANGED <<greatest, least, clientVars>>

-----------------------------------------------------------------------------
(* _process_get_message *)

\* first = 0 asks for the messages from the least.
Follow(c) ==
  /\ request[c] = "idle"
  /\ request' = [request EXCEPT ![c] = "info"]
  /\ first' = [first EXCEPT ![c] = IF got[c] = <<>> THEN 0 ELSE got[c][Len(got[c])] + 1]
  /\ \E n \in Counts : count' = [count EXCEPT ![c] = n]
  /\ UNCHANGED <<lock, greatest, least, msgs, save, got>>

\* info_dict; its numbers are for the client.
InfoDict(c) ==
  /\ request[c] = "info"
  /\ lock = NoThread
  /\ request' = [request EXCEPT ![c] = "get"]
  /\ UNCHANGED <<lock, greatest, least, msgs, save, first, count, got>>

From(c) == IF first[c] <= 0 THEN least ELSE first[c]

GetMessages(c) ==
  /\ request[c] = "get"
  /\ first' = [first EXCEPT ![c] = From(c)]
  /\ IF least # 0 /\ least <= From(c) /\ From(c) <= greatest
     THEN /\ count' = [count EXCEPT ![c] = IF @ < greatest - least + 1 THEN @ ELSE greatest - least + 1]
          /\ request' = [request EXCEPT ![c] = "copy"]
     ELSE request' = [request EXCEPT ![c] = "idle"] /\ UNCHANGED count
  /\ UNCHANGED <<lock, greatest, least, msgs, save, got>>

\* Where a message with the number n is in the list.
IndexOf(n) == IF n > least THEN n - least ELSE 0

\* The slice may be shorter than asked for.
CopyMessages(c) ==
  /\ request[c] = "copy"
  /\ lock = NoThread
  /\ request' = [request EXCEPT ![c] = "idle"]
  /\ LET end == IndexOf(first[c]) + count[c]
     IN  got' = [got EXCEPT ![c] =
                   @ \o SubSeq(msgs, IndexOf(first[c]) + 1, IF end < Len(msgs) THEN end ELSE Len(msgs))]
  /\ UNCHANGED <<lock, greatest, least, msgs, save, first, count>>

-----------------------------------------------------------------------------

Save(s) == SaveMessage(s) \/ NextGreatest(s) \/ NextLeast(s) \/ AppendMessage(s)
Read(c) == Follow(c) \/ InfoDict(c) \/ GetMessages(c) \/ CopyMessages(c)

MNext == (\E s \in Savers : Save(s)) \/ (\E c \in Clients : Read(c))

MessageStoreSpec == MInit /\ [][MNext]_mvars

-----------------------------------------------------------------------------
(* Properties *)

\* A client that follows the store has the messages saved first, each once and in order, though the
\* numbers its request is checked against are read without the lock (AbsMsgStore.py 35-42, 72-90,
\* MsgMemStore.py 21-35).
ClientsHaveAPrefix ==
  \A c \in Clients : Len(got[c]) <= Len(msgs) /\ \A n \in DOMAIN got[c] : got[c][n] = n /\ msgs[n] = n

=============================================================================

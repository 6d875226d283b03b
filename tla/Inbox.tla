------------------------------- MODULE Inbox --------------------------------
(***************************************************************************)
(* From a fetched video to the messages recvMsg returns, where a video     *)
(* packs several messages: AvideoRedis (and AvideoSelenium, which has the  *)
(* same code), whose unpacked messages are in one list of the class, and   *)
(* DashSvr, whose announced videos are in one list of the module.          *)
(*                                                                         *)
(* Every instance has its Puller, which calls recvMsg for ever.            *)
(***************************************************************************)
EXTENDS Integers, Sequences, SequencesExt

CONSTANTS
  Pullers,   \* the whiteboard instances of the process, each with its Puller
  Videos,    \* the videos that arrive
  Packed     \* messages a video packs

ASSUME InboxAssumption == Packed \in Nat \ {0}

Messages    == Videos \X (1..Packed)
Contents(v) == [n \in 1..Packed |-> <<v, n>>]

VARIABLES
  server,     \* "avideo" or "dash"
  arrived,    \* the videos that arrived
  recvQueue,  \* of a reader: videos (Avideo), messages (Dash)
  shared,     \* recv_msg_list (Avideo: messages), _urlQueue (Dash: videos)
  rpc,        \* Avideo: the Puller of a reader is in recvMsg at "call", "loop" or "pop"
  decoding,   \* Dash: the videos a reader's thread is decoding, none or one
  lost,       \* history: videos that could not be decoded
  returned    \* history: the messages a reader's recvMsg returned, in order

ivars == <<server, arrived, recvQueue, shared, rpc, decoding, lost, returned>>

IInit ==
  /\ server \in {"avideo", "dash"}
  /\ arrived = {}
  /\ recvQueue = [r \in Pullers |-> <<>>]
  /\ shared = <<>>
  /\ rpc = [r \in Pullers |-> "call"]
  /\ decoding = [r \in Pullers |-> <<>>]
  /\ lost = {}
  /\ returned = [r \in Pullers |-> <<>>]

Return(r, m) == returned' = [returned EXCEPT ![r] = Append(@, m)]
Goto(r, l)   == rpc' = [rpc EXCEPT ![r] = l]

\* A polling thread queues the video for its reader, a rendezvous message for any.
Arrives(v) ==
  /\ v \notin arrived
  /\ arrived' = arrived \union {v}
  /\ \/ /\ server = "avideo"
        /\ \E r \in Pullers : recvQueue' = [recvQueue EXCEPT ![r] = Append(@, v)]
        /\ UNCHANGED shared
     \/ server = "dash" /\ shared' = Append(shared, v) /\ UNCHANGED recvQueue
  /\ UNCHANGED <<server, rpc, decoding, lost, returned>>

-----------------------------------------------------------------------------
(* AvideoRedis.recvMsg *)

\* What another reader unpacked is taken too.
RecvMsg(r) ==
  /\ server = "avideo"
  /\ rpc[r] = "call"
  /\ \/ shared = <<>> /\ Goto(r, "loop") /\ UNCHANGED <<shared, returned>>
     \/ shared # <<>> /\ Return(r, Head(shared)) /\ shared' = Tail(shared) /\ UNCHANGED rpc
  /\ UNCHANGED <<server, arrived, recvQueue, decoding, lost>>

\* recvMsg waits here for a video of its own.
UnwedgeVideo(r) ==
  /\ server = "avideo"
  /\ rpc[r] = "loop"
  /\ recvQueue[r] # <<>>
  /\ recvQueue' = [recvQueue EXCEPT ![r] = Tail(@)]
  /\ \/ lost' = lost \union {Head(recvQueue[r])} /\ UNCHANGED <<shared, rpc>>
     \/ shared' = shared \o Contents(Head(recvQueue[r])) /\ Goto(r, "pop") /\ UNCHANGED lost
  /\ UNCHANGED <<server, arrived, decoding, returned>>

\* Mutant: recvMsg goes on waiting when another reader took what it unpacked.
PopOrWait(r) ==
  /\ server = "avideo"
  /\ rpc[r] = "pop"
  /\ \/ shared = <<>> /\ Goto(r, "loop") /\ UNCHANGED <<shared, returned>>
     \/ shared # <<>> /\ Return(r, Head(shared)) /\ shared' = Tail(shared) /\ Goto(r, "loop")
  /\ UNCHANGED <<server, arrived, recvQueue, decoding, lost>>

\* Mutant: the message is returned and stays in the list.
PeekUnpacked(r) ==
  /\ server = "avideo"
  /\ rpc[r] = "pop"
  /\ Goto(r, "call")
  /\ shared # <<>> /\ Return(r, Head(shared)) /\ UNCHANGED shared
  /\ UNCHANGED <<server, arrived, recvQueue, decoding, lost>>

\* The lock was released since: pop(0) may raise, and the Puller calls again.
PopUnpacked(r) ==
  /\ server = "avideo"
  /\ rpc[r] = "pop"
  /\ Goto(r, "call")
  /\ \/ shared = <<>> /\ UNCHANGED <<shared, returned>>
     \/ shared # <<>> /\ Return(r, Head(shared)) /\ shared' = Tail(shared)
  /\ UNCHANGED <<server, arrived, recvQueue, decoding, lost>>

-----------------------------------------------------------------------------
(* DashSvr._decodeDashStream and recvMsg *)

TakeURL(r) ==
  /\ server = "dash"
  /\ decoding[r] = <<>>
  /\ shared # <<>>
  /\ decoding' = [decoding EXCEPT ![r] = <<Head(shared)>>]
  /\ shared' = Tail(shared)
  /\ UNCHANGED <<server, arrived, recvQueue, rpc, lost, returned>>

DecodeStream(r) ==
  /\ server = "dash"
  /\ decoding[r] # <<>>
  /\ decoding' = [decoding EXCEPT ![r] = <<>>]
  /\ \/ lost' = lost \union ToSet(decoding[r]) /\ UNCHANGED recvQueue
     \/ /\ recvQueue' = [recvQueue EXCEPT ![r] = @ \o Contents(Head(decoding[r]))]
        /\ UNCHANGED lost
  /\ UNCHANGED <<server, arrived, shared, rpc, returned>>

DashRecvMsg(r) ==
  /\ server = "dash"
  /\ recvQueue[r] # <<>>
  /\ Return(r, Head(recvQueue[r]))
  /\ recvQueue' = [recvQueue EXCEPT ![r] = Tail(@)]
  /\ UNCHANGED <<server, arrived, shared, rpc, decoding, lost>>

-----------------------------------------------------------------------------

Pull(r) == RecvMsg(r) \/ UnwedgeVideo(r) \/ PopUnpacked(r) \/ DashRecvMsg(r)
Decode(r) == TakeURL(r) \/ DecodeStream(r)

INext ==
  \/ \E v \in Videos : Arrives(v)
  \/ \E r \in Pullers : Pull(r) \/ Decode(r)

\* Pullers and decoding threads run.
InboxFairness == \A r \in Pullers : WF_ivars(Pull(r)) /\ WF_ivars(Decode(r))

InboxSpec == IInit /\ [][INext]_ivars /\ InboxFairness

-----------------------------------------------------------------------------
(* Properties *)

Returned == UNION {ToSet(returned[r]) : r \in Pullers}

\* No message is returned twice, be it to two Pullers that share recv_msg_list, and the messages of
\* a video reach a Puller in the order they were packed (AvideoRedis.py 207-232, 272-280,
\* DashSvr.py 86-101, 234-245, 262-317).
MessagesComeOnceInOrder ==
  /\ \A r, q \in Pullers : \A i \in DOMAIN returned[r] : \A j \in DOMAIN returned[q] :
       returned[r][i] = returned[q][j] => r = q /\ i = j
  /\ \A r \in Pullers : \A i, j \in DOMAIN returned[r] :
       i < j /\ returned[r][i][1] = returned[r][j][1] => returned[r][i][2] < returned[r][j][2]

\* Every message of a video that arrived is returned in the end, unless the video cannot be
\* decoded: the Puller whose message was taken, and the one that took it, both call again
\* (AvideoRedis.py 222-286, WBPushPullers.py 57-72, DashSvr.py 234-245, 263-322).
VideosAreUnpacked ==
  \A v \in Videos : v \in arrived ~> (v \in lost \/ ToSet(Contents(v)) \subseteq Returned)

=============================================================================

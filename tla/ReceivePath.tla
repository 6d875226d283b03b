---------------------------- MODULE ReceivePath -----------------------------
(***************************************************************************)
(* From IOManager.Send on one host to receiveEncPkg on another.            *)
(*                                                                         *)
(* A package is one message, or several each wrapped into a segment of its *)
(* own (MessageSender.py).  Send splits it into segments and posts each    *)
(* (IOManager.cpp).  On the receiving host every Puller has a thread that  *)
(* polls its whiteboard and a publication thread that takes the posts in   *)
(* order (WBPushPullers.py): it decodes a post, tracks its segment, and    *)
(* when the package is whole calls AbsDestini._recv_message for each       *)
(* message in it.  _recv_message drops what it has seen lately and gives   *)
(* the rest to the SDK.                                                    *)
(*                                                                         *)
(* The C++ code runs under the interpreter's lock, so publication threads  *)
(* interleave where it calls back into Python.  Distinct packages have     *)
(* distinct idents.                                                        *)
(***************************************************************************)
EXTENDS Integers, Sequences, FiniteSets, Sequencing

CONSTANTS
  Packages,          \* what MessageSender hands to IOManager.Send
  Contents(_),       \* the messages in a package, identified by their hash
  Pullers,           \* the Pullers of the receiving host
  MaxSegs,           \* bound: segments in a package
  MaxReads,          \* bound: how many posts are read, repetitions included
  MaxRecvMsgHashes,  \* length of the list of hashes _recv_message keeps
  None               \* no post

ASSUME ReceiveAssumption ==
  /\ \A p \in Packages : Contents(p) \in Seq(Elems(Contents(p))) /\ Contents(p) # <<>>
  /\ IsFiniteSet(Pullers)
  /\ MaxSegs \in Nat \ {0}
  /\ MaxReads \in Nat
  /\ MaxRecvMsgHashes \in Nat \ {0}

Segs == Packages \X (1..MaxSegs)

ASSUME NoneAssumption == None \notin Segs

VARIABLES
  numSegs,        \* num_segs in the headers of a package's segments, 0 before it is sent
  nextSeg,        \* the segment Send encodes next
  posts,          \* the segments stored on the whiteboard of each Puller
  reads,          \* how many were read
  poller,         \* the post a polling thread has read and not yet queued
  recvQueue,      \* _recvQueue of each Puller
  pub,            \* where its publication thread is
  cur,            \* the post it took
  at,             \* which message of the package it is at
  seen,           \* the segments in each package's tracker, {} for no tracker
  recvMsgHashes,  \* RecvMsgHashes
  sdk,            \* history: what receiveEncPkg was given
  passed,         \* history: what passed the filter of _recv_message
  decoded         \* history: the segments decoded

sendVars    == <<numSegs, nextSeg, posts>>
pollVars    == <<reads, poller>>
historyVars == <<sdk, passed, decoded>>
vars == <<sendVars, pollVars, recvQueue, pub, cur, at, seen, recvMsgHashes, historyVars>>

PubPCs == {"ready", "sleep", "held", "examine", "track", "filter", "hand"}

Init ==
  /\ numSegs = [p \in Packages |-> 0]
  /\ nextSeg = [p \in Packages |-> 1]
  /\ posts = [r \in Pullers |-> {}]
  /\ reads = 0
  /\ poller = [r \in Pullers |-> None]
  /\ recvQueue = [r \in Pullers |-> <<>>]
  /\ pub = [r \in Pullers |-> "ready"]
  /\ cur = [r \in Pullers |-> None]
  /\ at = [r \in Pullers |-> 1]
  /\ seen = [p \in Packages |-> {}]
  /\ recvMsgHashes = <<>>
  /\ sdk = <<>>
  /\ passed = <<>>
  /\ decoded = {}

-----------------------------------------------------------------------------
(* IOManager.Send, on the sending host *)

\* The capacities of the media chosen at random decide the number of segments.
Send(p) ==
  /\ numSegs[p] = 0
  /\ \E n \in 1..MaxSegs : numSegs' = [numSegs EXCEPT ![p] = n]
  /\ UNCHANGED <<nextSeg, posts, pollVars, recvQueue, pub, cur, at, seen, recvMsgHashes,
                 historyVars>>

\* A segment that cannot be encoded or posted is passed over; the rest are sent all the same, each
\* to a whiteboard senderFor picks at random.
SendSegment(p) ==
  /\ nextSeg[p] <= numSegs[p]
  /\ \/ UNCHANGED posts
     \/ \E r \in Pullers : posts' = [posts EXCEPT ![r] = @ \union {<<p, nextSeg[p]>>}]
  /\ nextSeg' = [nextSeg EXCEPT ![p] = @ + 1]
  /\ UNCHANGED <<numSegs, pollVars, recvQueue, pub, cur, at, seen, recvMsgHashes, historyVars>>

-----------------------------------------------------------------------------
(* The polling thread *)

\* A segment may be read at any time, more than once (it may have been posted more than once), or
\* never.
RecvMsg(r) ==
  /\ poller[r] = None
  /\ reads < MaxReads
  /\ reads' = reads + 1
  /\ \E s \in posts[r] : poller' = [poller EXCEPT ![r] = s]
  /\ UNCHANGED <<sendVars, recvQueue, pub, cur, at, seen, recvMsgHashes, historyVars>>

\* The publication thread holds _recvLock from waking up to its next wait.
HoldsRecvLock(r) == pub[r] \notin {"ready", "sleep"}

\* Mutant: nobody is told.
LetSleep(r) == UNCHANGED pub

Notify(r) == pub' = [pub EXCEPT ![r] = "ready"]

RecvAppend(r) ==
  /\ poller[r] # None
  /\ ~HoldsRecvLock(r)
  /\ recvQueue' = [recvQueue EXCEPT ![r] = Append(@, poller[r])]
  /\ poller' = [poller EXCEPT ![r] = None]
  /\ Notify(r)
  /\ UNCHANGED <<sendVars, reads, cur, at, seen, recvMsgHashes, historyVars>>

-----------------------------------------------------------------------------
(* The publication thread *)

PubTo(r, pc) == pub' = [pub EXCEPT ![r] = pc]

Pop(r) ==
  /\ pub[r] \in {"ready", "held"}
  /\ recvQueue[r] # <<>>
  /\ cur' = [cur EXCEPT ![r] = Head(recvQueue[r])]
  /\ recvQueue' = [recvQueue EXCEPT ![r] = Tail(@)]
  /\ PubTo(r, "examine")
  /\ UNCHANGED <<sendVars, pollVars, at, seen, recvMsgHashes, historyVars>>

Sleep(r) ==
  /\ pub[r] \in {"ready", "held"}
  /\ recvQueue[r] = <<>>
  /\ PubTo(r, "sleep")
  /\ UNCHANGED <<sendVars, pollVars, recvQueue, cur, at, seen, recvMsgHashes, historyVars>>

\* The post is done with.
Done(r) == PubTo(r, "held") /\ cur' = [cur EXCEPT ![r] = None]

\* The codec finds nothing in the post, or _Prefilter refuses what it found.
ExamineFails(r) ==
  /\ pub[r] = "examine"
  /\ Done(r)
  /\ UNCHANGED <<sendVars, pollVars, recvQueue, at, seen, recvMsgHashes, historyVars>>

Packed(p) == Len(Contents(p)) > 1

\* A message of several is a segment of its own and needs a tracker.
ToMessage(r) == PubTo(r, IF Packed(cur[r][1]) THEN "track" ELSE "filter")

BeginPackage(r) == ToMessage(r) /\ UNCHANGED cur

\* One segment whose payload passes _Prefilter: its messages are taken without tracking it.
ExaminePackage(r) ==
  LET p == cur[r][1]
  IN /\ pub[r] = "examine"
     /\ numSegs[p] = 1
     /\ Packed(p)
     /\ decoded' = decoded \union {cur[r]}
     /\ BeginPackage(r)
     /\ UNCHANGED <<sendVars, pollVars, recvQueue, at, seen, recvMsgHashes, sdk, passed>>

\* Mutant: whole as soon as the last segment is there.
LastSeen(p, tracked) == numSegs[p] \in tracked

Whole(p, tracked) == Cardinality(tracked) = numSegs[p]

\* ProcessSegments finds or makes the tracker; track ignores a segment it has, and the last one
\* missing makes the package whole.
ExamineSegment(r) ==
  LET p == cur[r][1]
      tracked == seen[p] \union {cur[r][2]}
  IN /\ pub[r] = "examine"
     /\ ~(numSegs[p] = 1 /\ Packed(p))
     /\ decoded' = decoded \union {cur[r]}
     /\ seen' = [seen EXCEPT ![p] = tracked]
     /\ IF cur[r][2] \notin seen[p] /\ Whole(p, tracked)
        THEN BeginPackage(r)
        ELSE Done(r)
     /\ UNCHANGED <<sendVars, pollVars, recvQueue, at, recvMsgHashes, sdk, passed>>

\* The message the publication thread of r is at.
Message(r) == Contents(cur[r][1])[at[r]]

\* Mutant: the tracker of a whole package is kept.
KeepTracker(p) == UNCHANGED seen

DeleteTracker(p) == seen' = [seen EXCEPT ![p] = {}]

\* On to the next message, or the package is done with and its tracker deleted.
Advance(r) ==
  IF at[r] < Len(Contents(cur[r][1]))
  THEN ToMessage(r) /\ at' = [at EXCEPT ![r] = @ + 1] /\ UNCHANGED <<cur, seen>>
  ELSE Done(r) /\ at' = [at EXCEPT ![r] = 1] /\ DeleteTracker(cur[r][1])

\* Another thread has the tracker of this message.
Tracked(r) ==
  \E q \in Pullers \ {r} :
    pub[q] \in {"filter", "hand"} /\ cur[q][1] = cur[r][1] /\ at[q] = at[r]

\* track refuses a message that is being handed over just now; any other is whole at once.
TrackMessage(r) ==
  /\ pub[r] = "track"
  /\ IF Tracked(r)
     THEN Advance(r)
     ELSE PubTo(r, "filter") /\ UNCHANGED <<cur, at, seen>>
  /\ UNCHANGED <<sendVars, pollVars, recvQueue, recvMsgHashes, historyVars>>

\* A full list loses its oldest hash before it is searched.
Kept == IF Len(recvMsgHashes) >= MaxRecvMsgHashes THEN Tail(recvMsgHashes) ELSE recvMsgHashes

HandOver(r) == PubTo(r, "hand") /\ UNCHANGED <<cur, at, seen>>

\* Mutant: a duplicate is noticed and handed over.
Warn(r) == HandOver(r)

Ignore(r) == Advance(r)

RecvMessage(r) ==
  /\ pub[r] = "filter"
  /\ \/ /\ Message(r) \in Elems(Kept)
        /\ recvMsgHashes' = Kept
        /\ Ignore(r)
        /\ UNCHANGED passed
     \/ /\ Message(r) \notin Elems(Kept)
        /\ recvMsgHashes' = Append(Kept, Message(r))
        /\ passed' = Append(passed, Message(r))
        /\ HandOver(r)
  /\ UNCHANGED <<sendVars, pollVars, recvQueue, sdk, decoded>>

ReceiveEncPkg(r) ==
  /\ pub[r] = "hand"
  /\ sdk' = Append(sdk, Message(r))
  /\ Advance(r)
  /\ UNCHANGED <<sendVars, pollVars, recvQueue, recvMsgHashes, passed, decoded>>

PublicationRun(r) ==
  \/ Pop(r) \/ Sleep(r)
  \/ ExamineFails(r) \/ ExaminePackage(r) \/ ExamineSegment(r)
  \/ TrackMessage(r) \/ RecvMessage(r) \/ ReceiveEncPkg(r)

Next ==
  \/ \E p \in Packages : Send(p) \/ SendSegment(p)
  \/ \E r \in Pullers : RecvMsg(r) \/ RecvAppend(r) \/ PublicationRun(r)

Spec == Init /\ [][Next]_vars

\* Threads run, and neither a codec nor the SDK blocks for ever.
Fairness == \A r \in Pullers : WF_vars(RecvAppend(r)) /\ WF_vars(PublicationRun(r))

FairSpec == Spec /\ Fairness

-----------------------------------------------------------------------------
(* Properties *)

\* Type invariant of the sending and the receiving host (IOManager.cpp 996-1120, 655-792,
\* WBPushPullers.py 10-71).
TypeOK ==
  /\ numSegs \in [Packages -> 0..MaxSegs]
  /\ nextSeg \in [Packages -> 1..(MaxSegs + 1)]
  /\ posts \in [Pullers -> SUBSET Segs]
  /\ reads \in 0..MaxReads
  /\ poller \in [Pullers -> Segs \union {None}]
  /\ recvQueue \in [Pullers -> Seq(Segs)]
  /\ pub \in [Pullers -> PubPCs]
  /\ cur \in [Pullers -> Segs \union {None}]
  /\ at \in [Pullers -> Nat \ {0}]
  /\ seen \in [Packages -> SUBSET (1..MaxSegs)]
  /\ Len(recvMsgHashes) <= MaxRecvMsgHashes
  /\ decoded \subseteq Segs

AllDecoded(p) == numSegs[p] > 0 /\ \A i \in 1..numSegs[p] : <<p, i>> \in decoded

\* A tracker is for a package that is not whole, or whose messages one publication thread is
\* handing over right now; two threads never hand over the messages of a package of several
\* segments together (IOManager.cpp 747-766, 1202-1262).
TrackersArePartial ==
  \A p \in Packages :
    LET busy == {r \in Pullers : pub[r] \in {"track", "filter", "hand"} /\ cur[r][1] = p}
    IN /\ seen[p] # {} /\ Cardinality(seen[p]) = numSegs[p] => Cardinality(busy) = 1
       /\ numSegs[p] > 1 => Cardinality(busy) <= 1

Copies(s, m) == Cardinality({n \in DOMAIN s : s[n] = m})

\* What passed the duplicate filter is given to the SDK once: now or in a moment, by the thread
\* that took it through the filter (AbsDestini.py 243-256, filter and hand-over are two steps).
HandedOnce ==
  \A m \in UNION {Elems(Contents(p)) : p \in Packages} :
    Copies(passed, m) =
      Copies(sdk, m) + Cardinality({r \in Pullers : pub[r] = "hand" /\ Message(r) = m})

\* Reordering, repetition and loss of segments, packages with failed segments and concurrent
\* Pullers never make a message of an incomplete package come out, nor one that is among the
\* last MaxRecvMsgHashes - 1 come out again (IOManager.cpp 655-792, AbsDestini.py 243-250).
Mail == INSTANCE Delivery WITH
  Window <- MaxRecvMsgHashes - 1,
  stage <- [p \in Packages |-> IF numSegs[p] = 0 THEN "unsent"
                               ELSE IF AllDecoded(p) THEN "arrived" ELSE "sent"],
  received <- passed

\* The receiving host implements Delivery (see Mail).
ImplementsDelivery == Mail!Spec

\* A queued post is examined in the end: the publication thread never sleeps through it.  And a
\* package whose every segment was decoded, in any order and however often, reaches the SDK
\* (WBPushPullers.py 34-71, IOManager.cpp 1184-1266).
WholeIsDelivered ==
  /\ \A r \in Pullers : recvQueue[r] # <<>> ~> pub[r] = "examine"
  /\ \A p \in Packages : AllDecoded(p) ~> Elems(Contents(p)) \subseteq Elems(sdk)

=============================================================================

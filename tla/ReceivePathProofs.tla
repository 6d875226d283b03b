------------------------- MODULE ReceivePathProofs --------------------------
(***************************************************************************)
(* Proofs about ReceivePath: its types, the trackers of packages, the      *)
(* hand-over to the SDK, and that the receiving host implements Delivery,  *)
(* for any packages, Pullers, losses and repetitions.                      *)
(***************************************************************************)
EXTENDS ReceivePath, FiniteSetTheorems, TLAPS

Messages == UNION {Elems(Contents(p)) : p \in Packages}

Busy(r) == pub[r] \in {"track", "filter", "hand"}

\* A segment that was sent.
Valid(s) == s \in Segs /\ s[2] \in 1..numSegs[s[1]]

\* Only segments that were sent are stored, read, queued and worked on.
SegInv ==
  /\ \A r \in Pullers : \A s \in posts[r] : Valid(s)
  /\ \A r \in Pullers : poller[r] # None => Valid(poller[r])
  /\ \A r \in Pullers : \A n \in DOMAIN recvQueue[r] : Valid(recvQueue[r][n])
  /\ \A r \in Pullers : pub[r] \in {"examine", "track", "filter", "hand"} => Valid(cur[r])

\* A thread is at the first message unless it is busy, and then at one of the package's.
AtInv ==
  /\ \A r \in Pullers : ~Busy(r) => at[r] = 1
  /\ \A r \in Pullers : Busy(r) => at[r] \in DOMAIN Contents(cur[r][1])

HistoryInv ==
  /\ recvMsgHashes \in Seq(Messages)
  /\ passed \in Seq(Messages)
  /\ sdk \in Seq(Messages)

\* A package that comes in one segment and is taken without a tracker.
Direct(p) == numSegs[p] = 1 /\ Packed(p)

At(p) == {r \in Pullers : Busy(r) /\ cur[r][1] = p}

\* A package's tracker is whole exactly as long as some thread is at the package, which is one thread.
TrackOf(p) ==
  /\ seen[p] \subseteq 1..numSegs[p]
  /\ Direct(p) => seen[p] = {}
  /\ ~Direct(p) =>
       /\ At(p) # {} => seen[p] = 1..numSegs[p]
       /\ \A q, r \in At(p) : q = r
       /\ numSegs[p] # 0 /\ seen[p] = 1..numSegs[p] => At(p) # {}

TrackInv == \A p \in Packages : TrackOf(p)

LocalInv == TypeOK /\ SegInv /\ AtInv /\ HistoryInv

RInv == LocalInv /\ TrackInv /\ HandedOnce

-----------------------------------------------------------------------------

\* What Contents gives.
LEMMA ContentsFacts ==
  ASSUME NEW p \in Packages
  PROVE  /\ Len(Contents(p)) \in Nat \ {0}
         /\ DOMAIN Contents(p) = 1..Len(Contents(p))
         /\ \A n \in DOMAIN Contents(p) : Contents(p)[n] \in Messages
<1>1. Contents(p) \in Seq(Elems(Contents(p))) /\ Contents(p) # <<>>
  BY ReceiveAssumption
<1>2. DOMAIN Contents(p) = 1..Len(Contents(p)) /\ Len(Contents(p)) \in Nat \ {0}
  BY <1>1
<1>3. \A n \in DOMAIN Contents(p) : Contents(p)[n] \in Messages
  BY DEF Messages, Elems
<1>4. QED
  BY <1>2, <1>3

\* A busy thread's message is one of the package's.
LEMMA MessageType ==
  ASSUME LocalInv, NEW r \in Pullers, Busy(r)
  PROVE  cur[r][1] \in Packages /\ Message(r) \in Messages
<1>1. cur[r] \in Segs /\ at[r] \in DOMAIN Contents(cur[r][1])
  BY DEF LocalInv, SegInv, AtInv, Busy, Valid
<1>2. QED
  BY <1>1, ContentsFacts DEF Segs, Message

\* A full tracker counts all segments, and no other does.
LEMMA WholeIsAll ==
  ASSUME NEW n \in Nat, NEW S \in SUBSET (1..n)
  PROVE  IsFiniteSet(S) /\ (Cardinality(S) = n <=> S = 1..n)
<1>1. IsFiniteSet(1..n) /\ Cardinality(1..n) = n
  BY FS_Interval
<1>2. QED
  BY <1>1, FS_Subset

\* One more element is one more copy of it.
LEMMA CopiesAppend ==
  ASSUME NEW S, NEW s \in Seq(S), NEW e \in S, NEW m
  PROVE  /\ Copies(s, m) \in Nat
         /\ Copies(Append(s, e), m) = Copies(s, m) + (IF e = m THEN 1 ELSE 0)
<1> DEFINE t == Append(s, e)
           places(x) == {n \in DOMAIN x : x[n] = m}
<1>1. Len(s) \in Nat /\ DOMAIN s = 1..Len(s)
  OBVIOUS
<1>2. /\ DOMAIN t = 1..(Len(s) + 1)
      /\ t[Len(s) + 1] = e
      /\ \A n \in 1..Len(s) : t[n] = s[n]
  OBVIOUS
<1> HIDE DEF t
<1>3. IsFiniteSet(places(s)) /\ Cardinality(places(s)) \in Nat
  <2>1. places(s) \in SUBSET (1..Len(s)) /\ IsFiniteSet(1..Len(s))
    BY <1>1, FS_Interval
  <2>2. IsFiniteSet(places(s))
    BY <2>1, FS_Subset
  <2>3. QED
    BY <2>2, FS_CardinalityType
<1>4. Copies(s, m) = Cardinality(places(s)) /\ Copies(t, m) = Cardinality(places(t))
  BY DEF Copies
<1>5. e = m => places(t) = places(s) \union {Len(s) + 1} /\ Len(s) + 1 \notin places(s)
  BY <1>1, <1>2
<1>6. e # m => places(t) = places(s)
  BY <1>1, <1>2
<1> HIDE DEF places
<1>7. Cardinality(places(t)) = Cardinality(places(s)) + (IF e = m THEN 1 ELSE 0)
  <2>1. CASE e = m
    BY <1>3, <1>5, <2>1, FS_AddElement
  <2>2. CASE e # m
    BY <1>3, <1>6, <2>2
  <2>3. QED
    BY <2>1, <2>2
<1>8. QED
  BY <1>3, <1>4, <1>7 DEF t

-----------------------------------------------------------------------------

\* What the publication thread does at the end of a message.
LEMMA AdvanceFacts ==
  ASSUME LocalInv, NEW r \in Pullers, Busy(r), Advance(r)
  PROVE  /\ pub'[r] \in PubPCs /\ pub'[r] # "examine" /\ pub'[r] # "hand"
         /\ \A q \in Pullers \ {r} : pub'[q] = pub[q] /\ cur'[q] = cur[q] /\ at'[q] = at[q]
         /\ pub' \in [Pullers -> PubPCs]
         /\ \/ /\ Busy(r)' /\ cur' = cur /\ seen' = seen
               /\ at' = [at EXCEPT ![r] = @ + 1] /\ at[r] + 1 \in DOMAIN Contents(cur[r][1])
            \/ /\ pub'[r] = "held" /\ cur' = [cur EXCEPT ![r] = None]
               /\ at' = [at EXCEPT ![r] = 1] /\ seen' = [seen EXCEPT ![cur[r][1]] = {}]
<1> DEFINE p == cur[r][1]
<1>1. p \in Packages /\ at[r] \in 1..Len(Contents(p)) /\ Len(Contents(p)) \in Nat \ {0}
      /\ DOMAIN Contents(p) = 1..Len(Contents(p))
  BY MessageType, ContentsFacts DEF LocalInv, AtInv
<1>2. pub \in [Pullers -> PubPCs] /\ cur \in [Pullers -> Segs \union {None}] /\ at \in [Pullers -> Nat \ {0}]
  BY DEF LocalInv, TypeOK
<1> HIDE DEF p
<1>3. CASE at[r] < Len(Contents(p))
  BY <1>1, <1>2, <1>3 DEF Advance, ToMessage, PubTo, Busy, PubPCs, p
<1>4. CASE ~(at[r] < Len(Contents(p)))
  BY <1>1, <1>2, <1>4 DEF Advance, Done, PubTo, DeleteTracker, PubPCs, p
<1>5. QED
  BY <1>3, <1>4

-----------------------------------------------------------------------------

\* The end of a message keeps a thread's place among the messages.
LEMMA AdvanceLocal ==
  ASSUME LocalInv, NEW r \in Pullers, Busy(r), Advance(r),
         UNCHANGED <<sendVars, pollVars, recvQueue, decoded>>,
         Len(recvMsgHashes') <= MaxRecvMsgHashes, HistoryInv'
  PROVE  LocalInv'
<1> DEFINE p == cur[r][1]
<1>1. p \in Packages /\ Len(Contents(p)) \in Nat \ {0} /\ DOMAIN Contents(p) = 1..Len(Contents(p))
  BY MessageType, ContentsFacts
<1>2. TypeOK'
  <2>1. cur' \in [Pullers -> Segs \union {None}]
    BY AdvanceFacts DEF LocalInv, TypeOK
  <2>2. at' \in [Pullers -> Nat \ {0}]
    <3>1. at \in [Pullers -> Nat \ {0}] /\ at[r] + 1 \in Nat \ {0}
      BY DEF LocalInv, TypeOK
    <3>2. at' = [at EXCEPT ![r] = at[r] + 1] \/ at' = [at EXCEPT ![r] = 1]
      BY AdvanceFacts
    <3>3. QED
      BY <3>1, <3>2
  <2>3. seen' \in [Packages -> SUBSET (1..MaxSegs)]
    BY AdvanceFacts, <1>1 DEF LocalInv, TypeOK
  <2>4. QED
    BY <2>1, <2>2, <2>3, AdvanceFacts DEF LocalInv, TypeOK, sendVars, pollVars
<1>3. SegInv'
  <2>1. \A s : Valid(s) => Valid(s)'
    BY DEF Valid, sendVars
  <2>2. \A q \in Pullers : pub'[q] \in {"examine", "track", "filter", "hand"} => cur'[q] = cur[q]
                              /\ pub[q] \in {"examine", "track", "filter", "hand"}
    BY AdvanceFacts DEF Busy
  <2>3. QED
    BY <2>1, <2>2 DEF LocalInv, SegInv, sendVars, pollVars
<1>4. AtInv'
  <2>1. at'[r] = IF Busy(r)' THEN at[r] + 1 ELSE 1
    BY AdvanceFacts DEF Busy, LocalInv, TypeOK
  <2>2. Busy(r)' => at[r] + 1 \in DOMAIN Contents(cur'[r][1])
    BY AdvanceFacts DEF Busy
  <2>3. \A q \in Pullers \ {r} : (Busy(q)' <=> Busy(q)) /\ at'[q] = at[q] /\ cur'[q] = cur[q]
    BY AdvanceFacts DEF Busy
  <2>4. QED
    BY <2>1, <2>2, <2>3 DEF LocalInv, AtInv
<1>5. QED
  BY <1>2, <1>3, <1>4 DEF LocalInv

\* Types, and what each thread works on.
LEMMA LocalStep == LocalInv /\ [Next]_vars => LocalInv'
<1> SUFFICES ASSUME LocalInv, [Next]_vars PROVE LocalInv'
  OBVIOUS
<1> USE ReceiveAssumption, NoneAssumption DEF LocalInv, sendVars, pollVars, historyVars
<1>1. ASSUME NEW p \in Packages, Send(p) PROVE LocalInv'
  <2>1. PICK n \in 1..MaxSegs : numSegs' = [numSegs EXCEPT ![p] = n]
    BY <1>1 DEF Send
  <2>2. numSegs' \in [Packages -> 0..MaxSegs]
    BY <2>1 DEF TypeOK
  <2>3. \A s : Valid(s) => Valid(s)'
    BY <1>1, <2>1 DEF Send, Valid, Segs, TypeOK
  <2>4. TypeOK' /\ AtInv' /\ HistoryInv'
    BY <1>1, <2>2 DEF Send, TypeOK, AtInv, HistoryInv, Busy
  <2>5. SegInv'
    BY <1>1, <2>3 DEF Send, SegInv
  <2>6. QED
    BY <2>4, <2>5
<1>2. ASSUME NEW p \in Packages, SendSegment(p) PROVE LocalInv'
  <2>1. nextSeg[p] \in 1..numSegs[p] /\ nextSeg[p] \in 1..MaxSegs
    BY <1>2 DEF SendSegment, TypeOK
  <2>2. Valid(<<p, nextSeg[p]>>)
    BY <2>1 DEF Valid, Segs
  <2>3. \A r \in Pullers : posts'[r] \subseteq posts[r] \union {<<p, nextSeg[p]>>}
    BY <1>2 DEF SendSegment, TypeOK
  <2>4. posts' \in [Pullers -> SUBSET Segs]
    <3>1. <<p, nextSeg[p]>> \in Segs
      BY <2>2 DEF Valid
    <3>2. CASE posts' = posts
      BY <3>2 DEF TypeOK
    <3>3. ASSUME NEW r \in Pullers, posts' = [posts EXCEPT ![r] = @ \union {<<p, nextSeg[p]>>}]
          PROVE  posts' \in [Pullers -> SUBSET Segs]
      BY <3>1, <3>3 DEF TypeOK
    <3>4. QED
      BY <1>2, <3>2, <3>3 DEF SendSegment
  <2>5. nextSeg' \in [Packages -> 1..(MaxSegs + 1)]
    BY <1>2, <2>1 DEF SendSegment, TypeOK
  <2>6. \A s : Valid(s) => Valid(s)'
    BY <1>2 DEF SendSegment, Valid
  <2>7. TypeOK' /\ AtInv' /\ HistoryInv'
    BY <1>2, <2>4, <2>5 DEF SendSegment, TypeOK, AtInv, HistoryInv, Busy
  <2>8. SegInv'
    BY <1>2, <2>2, <2>3, <2>6 DEF SendSegment, SegInv
  <2>9. QED
    BY <2>7, <2>8
<1>3. ASSUME NEW r \in Pullers, RecvMsg(r) PROVE LocalInv'
  <2>1. PICK s \in posts[r] : poller' = [poller EXCEPT ![r] = s]
    BY <1>3 DEF RecvMsg
  <2>2. Valid(s) /\ \A t : Valid(t) => Valid(t)'
    BY <1>3 DEF RecvMsg, SegInv, Valid
  <2>3. TypeOK' /\ AtInv' /\ HistoryInv'
    BY <1>3, <2>1, <2>2 DEF RecvMsg, TypeOK, AtInv, HistoryInv, Busy, Valid
  <2>4. SegInv'
    BY <1>3, <2>1, <2>2 DEF RecvMsg, SegInv, TypeOK
  <2>5. QED
    BY <2>3, <2>4
<1>4. ASSUME NEW r \in Pullers, RecvAppend(r) PROVE LocalInv'
  <2>1. Valid(poller[r]) /\ poller[r] \in Segs /\ \A t : Valid(t) => Valid(t)'
    BY <1>4 DEF RecvAppend, SegInv, Valid
  <2>2. /\ recvQueue' = [recvQueue EXCEPT ![r] = Append(recvQueue[r], poller[r])]
        /\ poller' = [poller EXCEPT ![r] = None]
        /\ pub' = [pub EXCEPT ![r] = "ready"]
        /\ UNCHANGED <<cur, at>>
        /\ pub[r] \in {"ready", "sleep"}
    BY <1>4 DEF RecvAppend, Notify, HoldsRecvLock
  <2>3. recvQueue' \in [Pullers -> Seq(Segs)]
    BY <2>1, <2>2 DEF TypeOK
  <2>4. TypeOK' /\ AtInv' /\ HistoryInv'
    BY <1>4, <2>2, <2>3 DEF RecvAppend, TypeOK, AtInv, HistoryInv, Busy, PubPCs
  <2>5. \A q \in Pullers : \A n \in DOMAIN recvQueue'[q] : Valid(recvQueue'[q][n])
    <3>1. ASSUME NEW n \in DOMAIN Append(recvQueue[r], poller[r])
          PROVE  Valid(Append(recvQueue[r], poller[r])[n])
      BY <2>1 DEF SegInv, TypeOK
    <3>2. QED
      BY <2>2, <3>1 DEF SegInv, TypeOK
  <2>6. SegInv'
    BY <1>4, <2>1, <2>2, <2>5 DEF RecvAppend, SegInv, TypeOK
  <2>7. QED
    BY <2>4, <2>6
<1>5. ASSUME NEW r \in Pullers, Pop(r) PROVE LocalInv'
  <2>1. recvQueue[r] \in Seq(Segs) /\ recvQueue[r] # <<>>
    BY <1>5 DEF Pop, TypeOK
  <2>2. Head(recvQueue[r]) = recvQueue[r][1] /\ 1 \in DOMAIN recvQueue[r]
    BY <2>1
  <2>3. Valid(Head(recvQueue[r])) /\ \A t : Valid(t) => Valid(t)'
    BY <1>5, <2>2 DEF Pop, SegInv, Valid
  <2>4. Tail(recvQueue[r]) \in Seq(Segs)
    BY <2>1
  <2>5. \A n \in DOMAIN Tail(recvQueue[r]) : Valid(Tail(recvQueue[r])[n])
    <3>1. ASSUME NEW n \in DOMAIN Tail(recvQueue[r])
          PROVE  n + 1 \in DOMAIN recvQueue[r] /\ Tail(recvQueue[r])[n] = recvQueue[r][n + 1]
      BY <2>1
    <3>2. QED
      BY <3>1 DEF SegInv
  <2>6. TypeOK' /\ AtInv' /\ HistoryInv'
    BY <1>5, <2>3, <2>4 DEF Pop, PubTo, TypeOK, AtInv, HistoryInv, Busy, PubPCs, Valid
  <2>7. SegInv'
    BY <1>5, <2>3, <2>5 DEF Pop, PubTo, SegInv, TypeOK
  <2>8. QED
    BY <2>6, <2>7
<1>6. ASSUME NEW r \in Pullers, Sleep(r) \/ ExamineFails(r) PROVE LocalInv'
  <2>1. pub[r] \in {"ready", "held", "examine"} /\ \A t : Valid(t) => Valid(t)'
    BY <1>6 DEF Sleep, ExamineFails, Valid
  <2>2. \/ pub' = [pub EXCEPT ![r] = "sleep"] /\ cur' = cur
        \/ pub' = [pub EXCEPT ![r] = "held"] /\ cur' = [cur EXCEPT ![r] = None]
    BY <1>6 DEF Sleep, ExamineFails, Done, PubTo
  <2>3. TypeOK' /\ AtInv' /\ HistoryInv'
    BY <1>6, <2>1, <2>2 DEF Sleep, ExamineFails, TypeOK, AtInv, HistoryInv, Busy, PubPCs
  <2>4. SegInv'
    BY <1>6, <2>1, <2>2 DEF Sleep, ExamineFails, SegInv, TypeOK
  <2>5. QED
    BY <2>3, <2>4
<1>7. ASSUME NEW r \in Pullers, ExaminePackage(r) \/ ExamineSegment(r) PROVE LocalInv'
  <2> DEFINE p == cur[r][1]
  <2>1. /\ pub[r] = "examine" /\ Valid(cur[r]) /\ cur[r] \in Segs
        /\ p \in Packages /\ cur[r][2] \in 1..MaxSegs /\ at[r] = 1
        /\ \A t : Valid(t) => Valid(t)'
    BY <1>7 DEF ExaminePackage, ExamineSegment, SegInv, AtInv, Busy, Valid, Segs
  <2>2. \/ pub' = [pub EXCEPT ![r] = "track"] /\ cur' = cur
        \/ pub' = [pub EXCEPT ![r] = "filter"] /\ cur' = cur
        \/ pub' = [pub EXCEPT ![r] = "held"] /\ cur' = [cur EXCEPT ![r] = None]
    BY <1>7 DEF ExaminePackage, ExamineSegment, BeginPackage, ToMessage, Done, PubTo
  <2>3. seen' \in [Packages -> SUBSET (1..MaxSegs)]
    <3>1. seen \in [Packages -> SUBSET (1..MaxSegs)]
      BY DEF TypeOK
    <3>2. seen[p] \union {cur[r][2]} \in SUBSET (1..MaxSegs)
      BY <2>1, <3>1
    <3>3. seen' = seen \/ seen' = [seen EXCEPT ![p] = seen[p] \union {cur[r][2]}]
      BY <1>7 DEF ExaminePackage, ExamineSegment
    <3>4. QED
      BY <2>1, <3>1, <3>2, <3>3
  <2>4. 1 \in DOMAIN Contents(p)
    BY <2>1, ContentsFacts
  <2>5. TypeOK'
    BY <1>7, <2>1, <2>2, <2>3 DEF ExaminePackage, ExamineSegment, TypeOK, PubPCs
  <2>6. AtInv' /\ HistoryInv'
    BY <1>7, <2>1, <2>2, <2>4 DEF ExaminePackage, ExamineSegment, AtInv, HistoryInv, Busy, TypeOK
  <2>7. SegInv'
    BY <1>7, <2>1, <2>2 DEF ExaminePackage, ExamineSegment, SegInv, TypeOK
  <2>8. QED
    BY <2>5, <2>6, <2>7
<1>8. ASSUME NEW r \in Pullers, Busy(r), pub' = [pub EXCEPT ![r] = "filter"] \/ pub' = [pub EXCEPT ![r] = "hand"],
             UNCHANGED <<cur, at, seen, sendVars, pollVars, recvQueue, decoded>>,
             Len(recvMsgHashes') <= MaxRecvMsgHashes, HistoryInv'
      PROVE  LocalInv'
  <2>1. TypeOK' /\ AtInv'
    BY <1>8 DEF TypeOK, AtInv, Busy, PubPCs
  <2>2. SegInv'
    BY <1>8 DEF SegInv, TypeOK, Valid, Busy
  <2>3. QED
    BY <1>8, <2>1, <2>2
<1>9. ASSUME NEW r \in Pullers, TrackMessage(r) PROVE LocalInv'
  <2>1. Busy(r) /\ HistoryInv' /\ Len(recvMsgHashes') <= MaxRecvMsgHashes
    BY <1>9 DEF TrackMessage, Busy, HistoryInv, TypeOK
  <2>2. CASE Tracked(r)
    BY <1>9, <2>1, <2>2, AdvanceLocal DEF TrackMessage
  <2>3. CASE ~Tracked(r)
    BY <1>8, <1>9, <2>1, <2>3 DEF TrackMessage, PubTo
  <2>4. QED
    BY <2>2, <2>3
<1>10. ASSUME NEW r \in Pullers, RecvMessage(r) PROVE LocalInv'
  <2>1. Busy(r) /\ Message(r) \in Messages
    BY <1>10, MessageType DEF RecvMessage, Busy
  <2>2. Kept \in Seq(Messages) /\ Len(Kept) < MaxRecvMsgHashes
    BY DEF Kept, HistoryInv, TypeOK
  <2>3. CASE recvMsgHashes' = Kept /\ Ignore(r) /\ UNCHANGED passed
    <3>1. HistoryInv' /\ Len(recvMsgHashes') <= MaxRecvMsgHashes
      BY <1>10, <2>2, <2>3 DEF RecvMessage, HistoryInv
    <3>2. QED
      BY <1>10, <2>1, <2>3, <3>1, AdvanceLocal DEF RecvMessage, Ignore
  <2>4. CASE recvMsgHashes' = Append(Kept, Message(r)) /\ passed' = Append(passed, Message(r)) /\ HandOver(r)
    <3>1. HistoryInv' /\ Len(recvMsgHashes') <= MaxRecvMsgHashes
      BY <1>10, <2>1, <2>2, <2>4 DEF RecvMessage, HistoryInv
    <3>2. QED
      BY <1>8, <1>10, <2>1, <2>4, <3>1 DEF RecvMessage, HandOver, PubTo
  <2>5. QED
    BY <1>10, <2>3, <2>4 DEF RecvMessage
<1>11. ASSUME NEW r \in Pullers, ReceiveEncPkg(r) PROVE LocalInv'
  <2>1. Busy(r) /\ Message(r) \in Messages
    BY <1>11, MessageType DEF ReceiveEncPkg, Busy
  <2>2. HistoryInv' /\ Len(recvMsgHashes') <= MaxRecvMsgHashes
    BY <1>11, <2>1 DEF ReceiveEncPkg, HistoryInv, TypeOK
  <2>3. QED
    BY <1>11, <2>1, <2>2, AdvanceLocal DEF ReceiveEncPkg
<1>12. CASE UNCHANGED vars
  BY <1>12 DEF vars, TypeOK, SegInv, AtInv, HistoryInv, Valid, Busy
<1>13. QED
  BY <1>1, <1>2, <1>3, <1>4, <1>5, <1>6, <1>7, <1>9, <1>10, <1>11, <1>12 DEF Next, PublicationRun

-----------------------------------------------------------------------------

\* A step that changes no tracker and brings no thread to a package or away from one.
LEMMA SameTrackers ==
  ASSUME TrackInv, UNCHANGED <<numSegs, seen>>, \A p \in Packages : At(p)' = At(p)
  PROVE  TrackInv'
BY DEF TrackInv, TrackOf, Direct, Packed

\* After the last message the thread leaves the package, whose tracker goes.
LEMMA AdvanceTrackers ==
  ASSUME LocalInv, TrackInv, NEW r \in Pullers, Busy(r), Advance(r), UNCHANGED numSegs
  PROVE  TrackInv'
<1>0. PICK p \in Packages : p = cur[r][1]
  BY MessageType
<1>1. p \in Packages /\ r \in At(p) /\ Valid(cur[r])
  BY <1>0 DEF At, Busy, LocalInv, SegInv
<1>2. CASE Busy(r)' /\ cur' = cur /\ seen' = seen
  <2>1. \A q \in Pullers : (Busy(q)' <=> Busy(q)) /\ cur'[q] = cur[q]
    BY <1>2, AdvanceFacts DEF Busy
  <2>2. \A x \in Packages : At(x)' = At(x)
    BY <2>1 DEF At
  <2>3. QED
    BY <1>2, <2>2, SameTrackers
<1>3. CASE /\ pub'[r] = "held" /\ cur' = [cur EXCEPT ![r] = None]
           /\ seen' = [seen EXCEPT ![p] = {}]
  <2>1. ~Busy(r)' /\ \A q \in Pullers \ {r} : (Busy(q)' <=> Busy(q)) /\ cur'[q] = cur[q]
    BY <1>3, AdvanceFacts DEF Busy
  <2>2. At(p)' = At(p) \ {r} /\ \A x \in Packages \ {p} : At(x)' = At(x)
    BY <1>0, <2>1 DEF At
  <2>3. seen'[p] = {} /\ \A x \in Packages \ {p} : seen'[x] = seen[x]
    BY <1>1, <1>3 DEF LocalInv, TypeOK
  <2>4. numSegs[p] # 0 => {} # 1..numSegs[p]
    <3>1. numSegs[p] \in Nat
      BY <1>1 DEF LocalInv, TypeOK
    <3>2. numSegs[p] # 0 => 1 \in 1..numSegs[p]
      BY <3>1
    <3>3. QED
      BY <3>2
  <2>5. ~Direct(p) => At(p)' = {}
    BY <1>1, <2>2 DEF TrackInv, TrackOf
  <2>6. \A x \in Packages : Direct(x)' <=> Direct(x)
    BY DEF Direct, Packed
  <2>7. TrackOf(p)'
    BY <2>3, <2>4, <2>5, <2>6 DEF TrackOf
  <2>8. ASSUME NEW x \in Packages \ {p} PROVE TrackOf(x)'
    BY <2>2, <2>3, <2>6 DEF TrackInv, TrackOf
  <2>9. QED
    BY <2>7, <2>8 DEF TrackInv
<1>4. QED
  BY <1>0, <1>2, <1>3, AdvanceFacts

\* The trackers.
LEMMA TrackStep == LocalInv /\ TrackInv /\ [Next]_vars => TrackInv'
<1> SUFFICES ASSUME LocalInv, TrackInv, [Next]_vars PROVE TrackInv'
  OBVIOUS
<1> USE DEF sendVars, pollVars, historyVars
<1>1. UNCHANGED <<pub, cur, numSegs, seen>> => TrackInv'
  BY SameTrackers DEF At, Busy
<1>2. ASSUME NEW r \in Pullers, ~Busy(r), ~Busy(r)', UNCHANGED <<numSegs, seen>>,
             \A q \in Pullers \ {r} : pub'[q] = pub[q] /\ cur'[q] = cur[q]
      PROVE  TrackInv'
  <2>1. \A q \in Pullers : (Busy(q)' <=> Busy(q)) /\ (Busy(q) => cur'[q] = cur[q])
    BY <1>2 DEF Busy
  <2>2. QED
    BY <1>2, <2>1, SameTrackers DEF At
<1>3. ASSUME NEW r \in Pullers, Busy(r), Busy(r)', UNCHANGED <<cur, numSegs, seen>>,
             \A q \in Pullers \ {r} : pub'[q] = pub[q]
      PROVE  TrackInv'
  <2>1. \A q \in Pullers : Busy(q)' <=> Busy(q)
    BY <1>3 DEF Busy
  <2>2. QED
    BY <1>3, <2>1, SameTrackers DEF At
<1>4. ASSUME NEW p \in Packages, Send(p) PROVE TrackInv'
  <2>1. PICK n \in 1..MaxSegs : numSegs' = [numSegs EXCEPT ![p] = n]
    BY <1>4 DEF Send
  <2>2. numSegs[p] = 0 /\ numSegs'[p] = n /\ n \in Nat \ {0}
        /\ \A x \in Packages \ {p} : numSegs'[x] = numSegs[x]
    BY <1>4, <2>1, ReceiveAssumption DEF Send, LocalInv, TypeOK
  <2>3. seen' = seen /\ seen[p] = {}
    BY <1>4, <2>2 DEF Send, TrackInv, TrackOf
  <2>4. \A x \in Packages : At(x)' = At(x)
    BY <1>4 DEF Send, At, Busy
  <2>5. At(p) = {}
    BY <2>2 DEF At, Busy, LocalInv, SegInv, Valid
  <2>6. {} # 1..n
    BY <2>2
  <2>7. \A x \in Packages \ {p} : Direct(x)' <=> Direct(x)
    BY <2>2 DEF Direct, Packed
  <2>8. QED
    BY <2>2, <2>3, <2>4, <2>5, <2>6, <2>7 DEF TrackInv, TrackOf
<1>5. ASSUME NEW p \in Packages, SendSegment(p) PROVE TrackInv'
  BY <1>1, <1>5 DEF SendSegment
<1>6. ASSUME NEW r \in Pullers, RecvMsg(r) PROVE TrackInv'
  BY <1>1, <1>6 DEF RecvMsg
<1>7. ASSUME NEW r \in Pullers, RecvAppend(r) \/ Pop(r) \/ Sleep(r) \/ ExamineFails(r)
      PROVE  TrackInv'
  BY <1>2, <1>7 DEF RecvAppend, HoldsRecvLock, Notify, Pop, Sleep, ExamineFails, Done, PubTo, Busy,
                    LocalInv, TypeOK, PubPCs
<1>8. ASSUME NEW r \in Pullers, ExaminePackage(r) PROVE TrackInv'
  <2> DEFINE p == cur[r][1]
  <2>1. Direct(p) /\ p \in Packages
    BY <1>8 DEF ExaminePackage, Direct, LocalInv, SegInv, Valid, Segs
  <2>2. \A q \in Pullers \ {r} : pub'[q] = pub[q]
    BY <1>8 DEF ExaminePackage, BeginPackage, ToMessage, PubTo, LocalInv, TypeOK
  <2>3. \A x \in Packages \ {p} : At(x)' = At(x)
    BY <1>8, <2>2 DEF ExaminePackage, BeginPackage, At, Busy
  <2>4. UNCHANGED <<numSegs, seen>> /\ \A x \in Packages : Direct(x)' <=> Direct(x)
    BY <1>8 DEF ExaminePackage, Direct, Packed
  <2>5. QED
    BY <2>1, <2>3, <2>4 DEF TrackInv, TrackOf
<1>9. ASSUME NEW r \in Pullers, ExamineSegment(r) PROVE TrackInv'
  <2>0. PICK p \in Packages, i \in Nat, n \in Nat, tracked \in SUBSET Nat :
          p = cur[r][1] /\ i = cur[r][2] /\ n = numSegs[p] /\ tracked = seen[p] \union {i}
    <3>1. cur[r] \in Segs
      BY <1>9 DEF ExamineSegment, LocalInv, SegInv, Valid
    <3>2. cur[r][1] \in Packages /\ cur[r][2] \in Nat
      BY <3>1 DEF Segs
    <3>3. seen[cur[r][1]] \subseteq Nat /\ numSegs[cur[r][1]] \in Nat
      BY <3>2 DEF LocalInv, TypeOK
    <3>4. QED
      BY <3>2, <3>3
  <2>1. i \in 1..n /\ pub[r] = "examine"
    BY <1>9, <2>0 DEF ExamineSegment, LocalInv, SegInv, Valid
  <2>2. ~Direct(p) /\ numSegs' = numSegs /\ \A x \in Packages : Direct(x)' <=> Direct(x)
    BY <1>9, <2>0 DEF ExamineSegment, Direct, Packed
  <2>3. seen'[p] = tracked /\ \A x \in Packages \ {p} : seen'[x] = seen[x]
    BY <1>9, <2>0, <2>1 DEF ExamineSegment, LocalInv, TypeOK
  <2>4. tracked \in SUBSET (1..n)
    BY <2>0, <2>1 DEF TrackInv, TrackOf
  <2>5. Whole(p, tracked) <=> tracked = 1..n
    BY <2>0, <2>4, WholeIsAll DEF Whole
  <2>6. \A q \in Pullers \ {r} : pub'[q] = pub[q] /\ cur'[q] = cur[q]
    BY <1>9 DEF ExamineSegment, BeginPackage, ToMessage, Done, PubTo, LocalInv, TypeOK
  <2>7. r \notin At(p) /\ \A x \in Packages \ {p} : r \notin At(x)
    BY <2>1 DEF At, Busy
  <2>8. CASE i \notin seen[p] /\ Whole(p, tracked)
    <3>1. Busy(r)' /\ cur' = cur
      BY <1>9, <2>0, <2>8 DEF ExamineSegment, BeginPackage, ToMessage, PubTo, Busy, LocalInv, TypeOK
    <3>2. At(p)' = At(p) \union {r} /\ \A x \in Packages \ {p} : At(x)' = At(x)
      BY <2>0, <2>6, <2>7, <3>1 DEF At, Busy
    <3>3. At(p) = {}
      BY <2>0, <2>1, <2>2, <2>8 DEF TrackInv, TrackOf
    <3>4. TrackOf(p)'
      BY <2>0, <2>2, <2>3, <2>4, <2>5, <2>8, <3>2, <3>3 DEF TrackOf
    <3>5. ASSUME NEW x \in Packages \ {p} PROVE TrackOf(x)'
      BY <2>2, <2>3, <3>2, <3>5 DEF TrackInv, TrackOf
    <3>6. QED
      BY <3>4, <3>5 DEF TrackInv
  <2>9. CASE ~(i \notin seen[p] /\ Whole(p, tracked))
    <3>1. ~Busy(r)'
      BY <1>9, <2>0, <2>9 DEF ExamineSegment, Done, PubTo, Busy, LocalInv, TypeOK
    <3>2. \A x \in Packages : At(x)' = At(x)
      BY <2>0, <2>6, <2>7, <3>1 DEF At, Busy
    <3>3. tracked = seen[p] \/ tracked # 1..n
      BY <2>0, <2>5, <2>9
    <3>4. At(p) # {} => tracked = seen[p]
      BY <2>0, <2>1, <2>2 DEF TrackInv, TrackOf
    <3>5. TrackOf(p)'
      <4>1. TrackOf(p) /\ At(p)' = At(p) /\ seen'[p] = tracked /\ numSegs'[p] = n
        BY <2>0, <2>2, <2>3, <3>2 DEF TrackInv
      <4>2. tracked = seen[p] => TrackOf(p)'
        BY <2>0, <2>2, <4>1 DEF TrackOf
      <4>3. At(p) = {} /\ tracked # 1..n => TrackOf(p)'
        BY <2>0, <2>2, <2>4, <4>1 DEF TrackOf
      <4>4. QED
        BY <3>3, <3>4, <4>2, <4>3
    <3>6. ASSUME NEW x \in Packages \ {p} PROVE TrackOf(x)'
      BY <2>2, <2>3, <3>2, <3>6 DEF TrackInv, TrackOf
    <3>7. QED
      BY <3>5, <3>6 DEF TrackInv
  <2>10. QED
    BY <2>8, <2>9
<1>10. ASSUME NEW r \in Pullers, TrackMessage(r) PROVE TrackInv'
  <2>1. Busy(r) /\ numSegs' = numSegs
    BY <1>10 DEF TrackMessage, Busy
  <2>2. CASE Tracked(r)
    BY <1>10, <2>1, <2>2, AdvanceTrackers DEF TrackMessage
  <2>3. CASE ~Tracked(r)
    BY <1>3, <1>10, <2>1, <2>3 DEF TrackMessage, PubTo, Busy, LocalInv, TypeOK
  <2>4. QED
    BY <2>2, <2>3
<1>11. ASSUME NEW r \in Pullers, RecvMessage(r) PROVE TrackInv'
  <2>1. Busy(r) /\ numSegs' = numSegs
    BY <1>11 DEF RecvMessage, Busy
  <2>2. CASE Ignore(r)
    BY <2>1, <2>2, AdvanceTrackers DEF Ignore
  <2>3. CASE HandOver(r)
    BY <1>3, <2>1, <2>3 DEF HandOver, PubTo, Busy, LocalInv, TypeOK
  <2>4. QED
    BY <1>11, <2>2, <2>3 DEF RecvMessage
<1>12. ASSUME NEW r \in Pullers, ReceiveEncPkg(r) PROVE TrackInv'
  BY <1>12, AdvanceTrackers DEF ReceiveEncPkg, Busy
<1>13. CASE UNCHANGED vars
  BY <1>1, <1>13 DEF vars
<1>14. QED
  BY <1>4, <1>5, <1>6, <1>7, <1>8, <1>9, <1>10, <1>11, <1>12, <1>13 DEF Next, PublicationRun

-----------------------------------------------------------------------------

\* The threads about to give a message to the SDK.
Handing(m) == {r \in Pullers : pub[r] = "hand" /\ Message(r) = m}

LEMMA HandingFacts ==
  ASSUME NEW m
  PROVE  IsFiniteSet(Handing(m)) /\ Cardinality(Handing(m)) \in Nat
<1>1. Handing(m) \in SUBSET Pullers
  BY DEF Handing
<1>2. IsFiniteSet(Handing(m))
  BY <1>1, FS_Subset, ReceiveAssumption
<1>3. QED
  BY <1>2, FS_CardinalityType

LEMMA Handed ==
  HandedOnce <=>
    \A m \in Messages : Copies(passed, m) = Copies(sdk, m) + Cardinality(Handing(m))
BY DEF HandedOnce, Messages, Handing

LEMMA SameHanding ==
  ASSUME HandedOnce, UNCHANGED <<passed, sdk>>, \A m \in Messages : Handing(m)' = Handing(m)
  PROVE  HandedOnce'
<1>1. \A m \in Messages : Copies(passed, m)' = Copies(passed, m) /\ Copies(sdk, m)' = Copies(sdk, m)
  BY DEF Copies
<1>2. \A m \in Messages :
        Copies(passed, m)' = Copies(sdk, m)' + Cardinality(Handing(m)')
  BY <1>1, Handed
<1>3. QED
  BY <1>2 DEF HandedOnce, Messages, Handing

\* What passed the filter is handed over by the thread that took it through.
LEMMA HandStep == LocalInv /\ HandedOnce /\ [Next]_vars => HandedOnce'
<1> SUFFICES ASSUME LocalInv, HandedOnce, [Next]_vars PROVE HandedOnce'
  OBVIOUS
<1> USE DEF sendVars, pollVars, historyVars
<1>1. UNCHANGED <<pub, cur, at, passed, sdk>> => HandedOnce'
  BY SameHanding DEF Handing, Message
<1>2. ASSUME NEW r \in Pullers, pub[r] # "hand", pub'[r] # "hand", UNCHANGED <<passed, sdk>>,
             \A q \in Pullers \ {r} : pub'[q] = pub[q] /\ cur'[q] = cur[q] /\ at'[q] = at[q]
      PROVE  HandedOnce'
  <2>1. \A q \in Pullers : pub'[q] = "hand" => pub[q] = "hand" /\ cur'[q] = cur[q] /\ at'[q] = at[q]
    BY <1>2
  <2>2. \A q \in Pullers : pub[q] = "hand" => pub'[q] = "hand" /\ cur'[q] = cur[q] /\ at'[q] = at[q]
    BY <1>2
  <2>3. \A m \in Messages : Handing(m)' = Handing(m)
    BY <2>1, <2>2 DEF Handing, Message
  <2>4. QED
    BY <1>2, <2>3, SameHanding
<1>3. ASSUME NEW p \in Packages, Send(p) \/ SendSegment(p) PROVE HandedOnce'
  BY <1>1, <1>3 DEF Send, SendSegment
<1>4. ASSUME NEW r \in Pullers, RecvMsg(r) PROVE HandedOnce'
  BY <1>1, <1>4 DEF RecvMsg
<1>5. ASSUME NEW r \in Pullers, RecvAppend(r) \/ Pop(r) \/ Sleep(r) \/ ExamineFails(r)
      PROVE  HandedOnce'
  BY <1>2, <1>5 DEF RecvAppend, HoldsRecvLock, Notify, Pop, Sleep, ExamineFails, Done, PubTo,
                    LocalInv, TypeOK, PubPCs
<1>6. ASSUME NEW r \in Pullers, ExaminePackage(r) PROVE HandedOnce'
  BY <1>2, <1>6 DEF ExaminePackage, BeginPackage, ToMessage, PubTo, LocalInv, TypeOK
<1>7. ASSUME NEW r \in Pullers, ExamineSegment(r) PROVE HandedOnce'
  <2>1. pub[r] = "examine" /\ UNCHANGED <<at, passed, sdk>>
    BY <1>7 DEF ExamineSegment
  <2>2. BeginPackage(r) \/ Done(r)
    BY <1>7 DEF ExamineSegment
  <2>3. QED
    BY <1>2, <2>1, <2>2 DEF BeginPackage, ToMessage, Done, PubTo, LocalInv, TypeOK
<1>8. ASSUME NEW r \in Pullers, Busy(r), pub[r] # "hand", Advance(r), UNCHANGED <<passed, sdk>>
      PROVE  HandedOnce'
  BY <1>2, <1>8, AdvanceFacts
<1>9. ASSUME NEW r \in Pullers, TrackMessage(r) PROVE HandedOnce'
  <2>1. CASE Tracked(r)
    BY <1>8, <1>9, <2>1 DEF TrackMessage, Busy
  <2>2. CASE ~Tracked(r)
    BY <1>2, <1>9, <2>2 DEF TrackMessage, PubTo, LocalInv, TypeOK
  <2>3. QED
    BY <2>1, <2>2
<1>10. ASSUME NEW r \in Pullers, RecvMessage(r) PROVE HandedOnce'
  <2>1. CASE Ignore(r) /\ UNCHANGED passed
    BY <1>8, <1>10, <2>1 DEF RecvMessage, Ignore, Busy
  <2>2. CASE passed' = Append(passed, Message(r)) /\ HandOver(r)
    <3>1. PICK e \in Messages : e = Message(r)
      BY <1>10, MessageType DEF RecvMessage, Busy
    <3>2. /\ pub[r] # "hand" /\ pub'[r] = "hand" /\ UNCHANGED <<cur, at, sdk>>
          /\ \A q \in Pullers \ {r} : pub'[q] = pub[q]
      BY <1>10, <2>2 DEF RecvMessage, HandOver, PubTo, LocalInv, TypeOK
    <3>3. /\ Handing(e)' = Handing(e) \union {r} /\ r \notin Handing(e)
          /\ \A m \in Messages \ {e} : Handing(m)' = Handing(m)
      BY <3>1, <3>2 DEF Handing, Message
    <3>4. ASSUME NEW m \in Messages
          PROVE  Copies(passed, m)' = Copies(sdk, m)' + Cardinality(Handing(m)')
      <4>1. /\ Copies(passed, m)' = Copies(passed, m) + (IF e = m THEN 1 ELSE 0)
            /\ Copies(passed, m) \in Nat /\ Copies(sdk, m) \in Nat
        BY <2>2, <3>1, CopiesAppend DEF LocalInv, HistoryInv
      <4>2. Copies(sdk, m)' = Copies(sdk, m)
        BY <3>2
      <4>3. Cardinality(Handing(m)') = Cardinality(Handing(m)) + (IF e = m THEN 1 ELSE 0)
        BY <3>3, HandingFacts, FS_AddElement
      <4>4. QED
        BY <4>1, <4>2, <4>3, Handed, HandingFacts
    <3>5. QED
      BY <3>4 DEF HandedOnce, Messages, Handing
  <2>3. QED
    BY <1>10, <2>1, <2>2 DEF RecvMessage
<1>11. ASSUME NEW r \in Pullers, ReceiveEncPkg(r) PROVE HandedOnce'
  <2>1. PICK e \in Messages : e = Message(r)
    BY <1>11, MessageType DEF ReceiveEncPkg, Busy
  <2>2. /\ pub[r] = "hand" /\ pub'[r] # "hand" /\ passed' = passed /\ sdk' = Append(sdk, e)
        /\ \A q \in Pullers \ {r} : pub'[q] = pub[q] /\ cur'[q] = cur[q] /\ at'[q] = at[q]
    BY <1>11, <2>1, AdvanceFacts DEF ReceiveEncPkg, Busy
  <2>3. /\ Handing(e)' = Handing(e) \ {r} /\ r \in Handing(e)
        /\ \A m \in Messages \ {e} : Handing(m)' = Handing(m)
    BY <2>1, <2>2 DEF Handing, Message
  <2>4. ASSUME NEW m \in Messages
        PROVE  Copies(passed, m)' = Copies(sdk, m)' + Cardinality(Handing(m)')
    <3>1. /\ Copies(sdk, m)' = Copies(sdk, m) + (IF e = m THEN 1 ELSE 0)
          /\ Copies(passed, m) \in Nat /\ Copies(sdk, m) \in Nat
      BY <2>2, CopiesAppend DEF LocalInv, HistoryInv
    <3>2. Copies(passed, m)' = Copies(passed, m)
      BY <2>2
    <3>3. Cardinality(Handing(m)') = Cardinality(Handing(m)) - (IF e = m THEN 1 ELSE 0)
      BY <2>3, HandingFacts, FS_RemoveElement
    <3>4. QED
      BY <3>1, <3>2, <3>3, Handed, HandingFacts
  <2>5. QED
    BY <2>4 DEF HandedOnce, Messages, Handing
<1>12. CASE UNCHANGED vars
  BY <1>1, <1>12 DEF vars
<1>13. QED
  BY <1>3, <1>4, <1>5, <1>6, <1>7, <1>9, <1>10, <1>11, <1>12 DEF Next, PublicationRun

-----------------------------------------------------------------------------

LEMMA InitRInv == Init => RInv
<1> SUFFICES ASSUME Init PROVE RInv
  OBVIOUS
<1> USE ReceiveAssumption DEF Init
<1>1. TypeOK
  BY DEF TypeOK, PubPCs
<1>2. SegInv /\ AtInv /\ HistoryInv
  BY DEF SegInv, AtInv, HistoryInv, Busy
<1>3. TrackInv
  BY DEF TrackInv, TrackOf, At, Busy, Direct
<1>4. HandedOnce
  <2>1. \A m : Handing(m) = {}
    BY DEF Handing
  <2>2. \A m : Copies(<<>>, m) = 0
    BY FS_EmptySet DEF Copies
  <2>3. \A m \in Messages : Copies(passed, m) = 0 /\ Copies(sdk, m) = 0
    BY <2>2
  <2>4. \A m \in Messages : Cardinality(Handing(m)) = 0
    BY <2>1, FS_EmptySet
  <2>5. QED
    BY <2>3, <2>4, Handed
<1>5. QED
  BY <1>1, <1>2, <1>3, <1>4 DEF RInv, LocalInv

LEMMA ReceiveInvariance == Spec => []RInv
<1>1. RInv /\ [Next]_vars => RInv'
  BY LocalStep, TrackStep, HandStep DEF RInv
<1>2. QED
  BY <1>1, InitRInv, PTL DEF Spec

\* Type correctness of the two hosts, for any packages and Pullers.
THEOREM ReceiveTypes == Spec => []TypeOK
<1>1. RInv => TypeOK
  BY DEF RInv, LocalInv
<1>2. QED
  BY <1>1, ReceiveInvariance, PTL

\* Whatever segments are lost, repeated or reordered, and however many Pullers decode at once, a
\* whole tracker belongs to one thread that is handing the package over, and no two threads hand
\* over a package of several segments (IOManager.cpp 747-766, 1202-1262).
THEOREM OneThreadPerWholePackage == Spec => []TrackersArePartial
<1>1. ASSUME RInv PROVE TrackersArePartial
  <2>1. SUFFICES ASSUME NEW p \in Packages
                 PROVE  /\ seen[p] # {} /\ Cardinality(seen[p]) = numSegs[p] => Cardinality(At(p)) = 1
                        /\ numSegs[p] > 1 => Cardinality(At(p)) <= 1
    BY DEF TrackersArePartial, At, Busy
  <2>2. numSegs[p] \in Nat /\ seen[p] \in SUBSET (1..numSegs[p]) /\ TrackOf(p)
    BY <1>1 DEF RInv, LocalInv, TypeOK, TrackInv, TrackOf
  <2>3. Cardinality(seen[p]) = numSegs[p] <=> seen[p] = 1..numSegs[p]
    BY <2>2, WholeIsAll
  <2>4. ASSUME ~Direct(p) PROVE At(p) = {} \/ \E r : At(p) = {r}
    BY <2>2, <2>4 DEF TrackOf
  <2>5. Cardinality({}) = 0 /\ \A r : Cardinality({r}) = 1
    BY FS_EmptySet, FS_Singleton
  <2>6. CASE Direct(p)
    BY <2>2, <2>6 DEF TrackOf, Direct
  <2>7. CASE ~Direct(p)
    <3>1. seen[p] # {} => numSegs[p] # 0
      BY <2>2
    <3>2. seen[p] # {} /\ Cardinality(seen[p]) = numSegs[p] => At(p) # {}
      BY <2>2, <2>3, <2>7, <3>1 DEF TrackOf
    <3>3. Cardinality(At(p)) = IF At(p) = {} THEN 0 ELSE 1
      BY <2>4, <2>5, <2>7
    <3>4. QED
      BY <3>2, <3>3
  <2>8. QED
    BY <2>6, <2>7
<1>2. QED
  BY <1>1, ReceiveInvariance, PTL

\* What the duplicate filter lets through reaches the SDK once, for any number of publication
\* threads between the filter and the hand-over (AbsDestini.py 243-256).
THEOREM PassedIsHanded == Spec => []HandedOnce
<1>1. RInv => HandedOnce
  BY DEF RInv
<1>2. QED
  BY <1>1, ReceiveInvariance, PTL

-----------------------------------------------------------------------------
(* The receiving host implements Delivery *)

\* What is in a tracker was decoded, what was decoded was sent, and a package whose messages are
\* taken is whole.
ArrivedInv ==
  /\ \A s \in decoded : Valid(s)
  /\ \A p \in Packages : \A n \in seen[p] : <<p, n>> \in decoded
  /\ \A r \in Pullers : Busy(r) => AllDecoded(cur[r][1])

\* The list of hashes is the end of what passed the filter, all of it or one hash short of full.
WindowInv ==
  /\ Len(recvMsgHashes) <= Len(passed)
  /\ \A n \in DOMAIN recvMsgHashes :
       recvMsgHashes[n] = passed[Len(passed) - Len(recvMsgHashes) + n]
  /\ Len(recvMsgHashes) < Len(passed) => Len(recvMsgHashes) >= MaxRecvMsgHashes - 1

\* No package but those of the segments that are decoded moves on.
LEMMA ArrivedQuiet ==
  ASSUME LocalInv, ArrivedInv, UNCHANGED <<numSegs, decoded>>,
         \A p \in Packages : seen'[p] \subseteq seen[p],
         \A r \in Pullers : Busy(r)' => Busy(r) /\ cur'[r] = cur[r]
  PROVE  ArrivedInv'
<1>1. \A p \in Packages : AllDecoded(p)' <=> AllDecoded(p)
  BY DEF AllDecoded
<1>2. \A s : Valid(s)' <=> Valid(s)
  BY DEF Valid
<1>3. \A r \in Pullers : Busy(r)' => AllDecoded(cur[r][1]) /\ cur'[r][1] = cur[r][1] /\ cur[r][1] \in Packages
  BY MessageType DEF ArrivedInv
<1>4. \A r \in Pullers : Busy(r)' => AllDecoded(cur[r][1])'
  BY <1>1, <1>3 DEF AllDecoded
<1>5. (\A s \in decoded : Valid(s))'
  BY <1>2 DEF ArrivedInv
<1>6. (\A p \in Packages : \A n \in seen[p] : <<p, n>> \in decoded)'
  BY DEF ArrivedInv
<1>7. QED
  BY <1>4, <1>5, <1>6 DEF ArrivedInv

\* Segments arrive in any order; the tracker says when they are all there.
LEMMA ArrivedStep == LocalInv /\ TrackInv /\ ArrivedInv /\ [Next]_vars => ArrivedInv'
<1> SUFFICES ASSUME LocalInv, TrackInv, ArrivedInv, [Next]_vars PROVE ArrivedInv'
  OBVIOUS
<1> USE DEF sendVars, pollVars, historyVars
<1>1. UNCHANGED <<numSegs, decoded, seen, pub, cur>> => ArrivedInv'
  BY ArrivedQuiet DEF Busy
<1>2. ASSUME NEW p \in Packages, Send(p) PROVE ArrivedInv'
  <2>1. PICK k \in 1..MaxSegs : numSegs' = [numSegs EXCEPT ![p] = k]
    BY <1>2 DEF Send
  <2>2. /\ UNCHANGED <<seen, pub, cur, decoded>> /\ numSegs[p] = 0
        /\ numSegs'[p] \in Nat /\ \A x \in Packages \ {p} : numSegs'[x] = numSegs[x]
    BY <1>2, <2>1 DEF Send, LocalInv, TypeOK
  <2>3. \A s : Valid(s) => Valid(s)'
    BY <2>2 DEF Valid, Segs
  <2>4. \A x \in Packages : AllDecoded(x) => x # p /\ AllDecoded(x)'
    BY <2>2 DEF AllDecoded
  <2>5. \A r \in Pullers : Busy(r) => cur[r][1] \in Packages
    BY MessageType
  <2>6. QED
    BY <2>2, <2>3, <2>4, <2>5 DEF ArrivedInv, Busy
<1>3. ASSUME NEW p \in Packages, SendSegment(p) PROVE ArrivedInv'
  BY <1>1, <1>3 DEF SendSegment
<1>4. ASSUME NEW r \in Pullers, RecvMsg(r) PROVE ArrivedInv'
  BY <1>1, <1>4 DEF RecvMsg
<1>5. ASSUME NEW r \in Pullers, RecvAppend(r) \/ Pop(r) \/ Sleep(r) \/ ExamineFails(r)
      PROVE  ArrivedInv'
  <2>1. UNCHANGED <<numSegs, decoded, seen>> /\ pub'[r] \notin {"track", "filter", "hand"}
        /\ \A q \in Pullers \ {r} : pub'[q] = pub[q] /\ cur'[q] = cur[q]
    BY <1>5 DEF RecvAppend, HoldsRecvLock, Notify, Pop, Sleep, ExamineFails, Done, PubTo, LocalInv, TypeOK
  <2>2. QED
    BY <2>1, ArrivedQuiet DEF Busy
<1>6. ASSUME NEW r \in Pullers, ExaminePackage(r) \/ ExamineSegment(r) PROVE ArrivedInv'
  <2>0. PICK p \in Packages, i \in Nat, n \in Nat : cur[r] = <<p, i>> /\ i \in 1..n /\ n = numSegs[p]
    <3>1. Valid(cur[r]) /\ cur[r] \in Segs
      BY <1>6 DEF ExaminePackage, ExamineSegment, LocalInv, SegInv, Valid
    <3>2. PICK p \in Packages, i \in 1..MaxSegs : cur[r] = <<p, i>>
      BY <3>1 DEF Segs
    <3>3. numSegs[p] \in Nat /\ i \in 1..numSegs[p]
      BY <3>1, <3>2 DEF Valid, LocalInv, TypeOK
    <3>4. QED
      BY <3>2, <3>3
  <2>1. /\ decoded' = decoded \union {<<p, i>>} /\ numSegs' = numSegs
        /\ \A q \in Pullers \ {r} : pub'[q] = pub[q] /\ cur'[q] = cur[q]
        /\ cur'[r] = cur[r] \/ pub'[r] = "held"
    BY <1>6, <2>0 DEF ExaminePackage, ExamineSegment, BeginPackage, ToMessage, Done, PubTo, LocalInv, TypeOK
  <2>2. /\ \A x \in Packages \ {p} : seen'[x] = seen[x]
        /\ seen'[p] \subseteq seen[p] \union {i}
    BY <1>6, <2>0 DEF ExaminePackage, ExamineSegment, LocalInv, TypeOK
  <2>3. \A s : Valid(s)' <=> Valid(s)
    BY <2>1 DEF Valid
  <2>4. (\A s \in decoded : Valid(s))'
    <3>1. Valid(<<p, i>>)
      BY <1>6, <2>0 DEF ExaminePackage, ExamineSegment, LocalInv, SegInv
    <3>2. QED
      BY <2>1, <2>3, <3>1 DEF ArrivedInv
  <2>5. (\A x \in Packages : \A k \in seen[x] : <<x, k>> \in decoded)'
    BY <2>1, <2>2 DEF ArrivedInv
  <2>6. \A x \in Packages : AllDecoded(x) => AllDecoded(x)'
    BY <2>1 DEF AllDecoded
  <2>7. pub'[r] \in {"track", "filter", "hand"} => AllDecoded(p)'
    <3>1. CASE ExaminePackage(r)
      <4>1. n = 1 /\ i = 1
        BY <2>0, <3>1 DEF ExaminePackage
      <4>2. QED
        BY <2>0, <2>1, <4>1 DEF AllDecoded
    <3>2. CASE ExamineSegment(r)
      <4>1. SUFFICES ASSUME pub'[r] \in {"track", "filter", "hand"} PROVE AllDecoded(p)'
        OBVIOUS
      <4>2. Whole(p, seen[p] \union {i}) /\ seen'[p] = seen[p] \union {i}
        BY <2>0, <3>2, <4>1 DEF ExamineSegment, Done, PubTo, LocalInv, TypeOK
      <4>3. seen[p] \union {i} \in SUBSET (1..n)
        BY <2>0 DEF TrackInv, TrackOf
      <4>4. seen'[p] = 1..n
        BY <2>0, <4>2, <4>3, WholeIsAll DEF Whole
      <4>5. QED
        BY <2>0, <2>1, <2>5, <4>4 DEF AllDecoded
    <3>3. QED
      BY <1>6, <3>1, <3>2
  <2>8. (\A q \in Pullers : Busy(q) => AllDecoded(cur[q][1]))'
    <3>1. ASSUME NEW q \in Pullers \ {r}, Busy(q)' PROVE AllDecoded(cur[q][1])'
      <4>1. Busy(q) /\ cur'[q] = cur[q]
        BY <2>1, <3>1 DEF Busy
      <4>2. PICK x \in Packages : x = cur[q][1]
        BY <4>1, MessageType
      <4>3. AllDecoded(x)'
        BY <2>6, <4>1, <4>2 DEF ArrivedInv
      <4>4. QED
        BY <4>1, <4>2, <4>3 DEF AllDecoded
    <3>2. ASSUME Busy(r)' PROVE AllDecoded(cur[r][1])'
      <4>1. cur'[r] = <<p, i>>
        BY <2>0, <2>1, <3>2 DEF Busy
      <4>2. QED
        BY <2>7, <3>2, <4>1 DEF Busy, AllDecoded
    <3>3. QED
      BY <3>1, <3>2
  <2>9. QED
    BY <2>4, <2>5, <2>8 DEF ArrivedInv
<1>7. ASSUME NEW r \in Pullers, Busy(r), Advance(r), UNCHANGED <<numSegs, decoded>> PROVE ArrivedInv'
  <2>1. \A q \in Pullers : Busy(q)' => Busy(q) /\ cur'[q] = cur[q]
    BY <1>7, AdvanceFacts DEF Busy
  <2>2. \A p \in Packages : seen'[p] \subseteq seen[p]
    BY <1>7, AdvanceFacts DEF LocalInv, TypeOK
  <2>3. QED
    BY <1>7, <2>1, <2>2, ArrivedQuiet
<1>8. ASSUME NEW r \in Pullers, TrackMessage(r) \/ RecvMessage(r) \/ ReceiveEncPkg(r) PROVE ArrivedInv'
  <2>1. Busy(r) /\ UNCHANGED <<numSegs, decoded>>
    BY <1>8 DEF TrackMessage, RecvMessage, ReceiveEncPkg, Busy
  <2>2. CASE Advance(r)
    BY <1>7, <2>1, <2>2
  <2>3. CASE ~Advance(r)
    <3>1. UNCHANGED <<cur, seen>> /\ \A q \in Pullers \ {r} : pub'[q] = pub[q]
      BY <1>8, <2>3 DEF TrackMessage, RecvMessage, ReceiveEncPkg, Ignore, HandOver, PubTo, LocalInv, TypeOK
    <3>2. QED
      BY <2>1, <3>1, ArrivedQuiet DEF Busy
  <2>4. QED
    BY <2>2, <2>3
<1>9. CASE UNCHANGED vars
  BY <1>1, <1>9 DEF vars
<1>10. QED
  BY <1>2, <1>3, <1>4, <1>5, <1>6, <1>8, <1>9 DEF Next, PublicationRun

\* What is left of a full list reaches as far back as the window.
LEMMA KeptIsTheEnd ==
  ASSUME LocalInv, WindowInv
  PROVE  /\ Kept \in Seq(Messages) /\ Len(Kept) <= Len(passed) /\ Len(Kept) < MaxRecvMsgHashes
         /\ \A n \in DOMAIN Kept : Kept[n] = passed[Len(passed) - Len(Kept) + n]
         /\ Len(Kept) < Len(passed) => Len(Kept) >= MaxRecvMsgHashes - 1
<1>1. /\ recvMsgHashes \in Seq(Messages) /\ passed \in Seq(Messages)
      /\ Len(recvMsgHashes) <= MaxRecvMsgHashes /\ MaxRecvMsgHashes \in Nat \ {0}
  BY ReceiveAssumption DEF LocalInv, HistoryInv, TypeOK
<1>2. CASE Len(recvMsgHashes) >= MaxRecvMsgHashes
  <2>1. recvMsgHashes # <<>> /\ Kept = Tail(recvMsgHashes)
    BY <1>1, <1>2 DEF Kept
  <2>2. /\ Kept \in Seq(Messages) /\ Len(Kept) = Len(recvMsgHashes) - 1
        /\ \A n \in DOMAIN Kept : n + 1 \in DOMAIN recvMsgHashes /\ Kept[n] = recvMsgHashes[n + 1]
    BY <1>1, <2>1
  <2>3. \A n \in DOMAIN Kept : n \in Nat
    BY <2>2
  <2>4. QED
    BY <1>1, <1>2, <2>2, <2>3 DEF WindowInv
<1>3. CASE ~(Len(recvMsgHashes) >= MaxRecvMsgHashes)
  <2>1. Kept = recvMsgHashes
    BY <1>3 DEF Kept
  <2>2. QED
    BY <1>1, <1>3, <2>1 DEF WindowInv
<1>4. QED
  BY <1>2, <1>3

LEMMA WindowStep == LocalInv /\ WindowInv /\ [Next]_vars => WindowInv'
<1> SUFFICES ASSUME LocalInv, WindowInv, [Next]_vars PROVE WindowInv'
  OBVIOUS
<1> USE DEF sendVars, pollVars, historyVars
<1>1. UNCHANGED <<recvMsgHashes, passed>> => WindowInv'
  BY DEF WindowInv
<1>2. ASSUME NEW r \in Pullers, RecvMessage(r) PROVE WindowInv'
  <2>0. PICK k \in Seq(Messages), s \in Seq(Messages) : k = Kept /\ s = passed
    BY KeptIsTheEnd DEF LocalInv, HistoryInv
  <2>1. /\ Len(k) <= Len(s)
        /\ \A n \in DOMAIN k : k[n] = s[Len(s) - Len(k) + n]
        /\ Len(k) < Len(s) => Len(k) >= MaxRecvMsgHashes - 1
    BY <2>0, KeptIsTheEnd
  <2>2. CASE recvMsgHashes' = k /\ passed' = s
    BY <2>1, <2>2 DEF WindowInv
  <2>3. ASSUME NEW m \in Messages, recvMsgHashes' = Append(k, m), passed' = Append(s, m)
        PROVE  WindowInv'
    <3>0. Append(k, m) \in Seq(Messages) /\ Append(s, m) \in Seq(Messages)
      OBVIOUS
    <3>1. PICK l \in Seq(Messages), t \in Seq(Messages) : l = Append(k, m) /\ t = Append(s, m)
      BY <3>0, Zenon
    <3>2. /\ Len(l) = Len(k) + 1 /\ l[Len(k) + 1] = m /\ \A n \in 1..Len(k) : l[n] = k[n]
          /\ Len(t) = Len(s) + 1 /\ t[Len(s) + 1] = m /\ \A n \in 1..Len(s) : t[n] = s[n]
          /\ DOMAIN l = 1..(Len(k) + 1) /\ DOMAIN k = 1..Len(k) /\ Len(k) \in Nat /\ Len(s) \in Nat
      <4>1. Len(l) = Len(k) + 1 /\ l[Len(k) + 1] = m /\ \A n \in 1..Len(k) : l[n] = k[n]
        BY <3>1
      <4>2. Len(t) = Len(s) + 1 /\ t[Len(s) + 1] = m /\ \A n \in 1..Len(s) : t[n] = s[n]
        BY <3>1
      <4>3. DOMAIN l = 1..Len(l) /\ DOMAIN k = 1..Len(k) /\ Len(k) \in Nat /\ Len(s) \in Nat
        OBVIOUS
      <4>4. QED
        BY <4>1, <4>2, <4>3
    <3>3. ASSUME NEW n \in DOMAIN l PROVE l[n] = t[Len(t) - Len(l) + n]
      <4>1. CASE n = Len(k) + 1
        <5>1. Len(t) - Len(l) + n = Len(s) + 1
          BY <3>2, <4>1
        <5>2. QED
          BY <3>2, <4>1, <5>1
      <4>2. CASE n # Len(k) + 1
        <5>1. n \in 1..Len(k) /\ Len(t) - Len(l) + n = Len(s) - Len(k) + n
              /\ Len(s) - Len(k) + n \in 1..Len(s)
          BY <2>1, <3>2, <3>3, <4>2
        <5>2. l[n] = k[n] /\ k[n] = s[Len(s) - Len(k) + n]
          BY <2>1, <3>2, <5>1
        <5>3. QED
          BY <3>2, <5>1, <5>2
      <4>3. QED
        BY <4>1, <4>2
    <3>4. Len(l) <= Len(t) /\ (Len(l) < Len(t) => Len(l) >= MaxRecvMsgHashes - 1)
      <4>1. MaxRecvMsgHashes \in Nat
        BY ReceiveAssumption
      <4>2. QED
        BY <2>1, <3>2, <4>1
    <3>5. QED
      BY <2>3, <3>1, <3>3, <3>4 DEF WindowInv
  <2>4. Message(r) \in Messages
    BY <1>2, MessageType DEF RecvMessage, Busy
  <2>5. QED
    BY <1>2, <2>0, <2>2, <2>3, <2>4 DEF RecvMessage
<1>3. ASSUME NEW r \in Pullers, PublicationRun(r), ~RecvMessage(r) PROVE WindowInv'
  BY <1>1, <1>3 DEF PublicationRun, Pop, Sleep, ExamineFails, ExaminePackage, ExamineSegment,
                    TrackMessage, ReceiveEncPkg
<1>4. QED
  BY <1>1, <1>2, <1>3 DEF Next, vars, Send, SendSegment, RecvMsg, RecvAppend

-----------------------------------------------------------------------------

DeliveryInv == RInv /\ ArrivedInv /\ WindowInv

\* How far a package has come.
Stage(p) == IF numSegs[p] = 0 THEN "unsent" ELSE IF AllDecoded(p) THEN "arrived" ELSE "sent"

stages == [p \in Packages |-> Stage(p)]

\* A host that sends nothing, decodes nothing and lets nothing through its filter stutters.
LEMMA DeliveryRests ==
  ASSUME UNCHANGED <<numSegs, decoded, passed>>
  PROVE  stages' = stages /\ UNCHANGED passed
BY DEF stages, Stage, AllDecoded

LEMMA SendDelivers ==
  ASSUME DeliveryInv, NEW p \in Packages, Send(p)
  PROVE  Mail!Send(p)
<1>1. PICK k \in 1..MaxSegs : numSegs' = [numSegs EXCEPT ![p] = k]
  BY DEF Send
<1>2. /\ UNCHANGED <<decoded, passed>> /\ numSegs[p] = 0
      /\ numSegs'[p] = k /\ k >= 1 /\ k # 0 /\ \A x \in Packages \ {p} : numSegs'[x] = numSegs[x]
  BY <1>1 DEF Send, historyVars, DeliveryInv, RInv, LocalInv, TypeOK
<1>3. ~AllDecoded(p)'
  <2>1. <<p, 1>> \notin decoded
    BY <1>2 DEF DeliveryInv, ArrivedInv, Valid
  <2>2. 1 \in 1..k
    BY <1>2
  <2>3. QED
    BY <1>2, <2>1, <2>2 DEF AllDecoded
<1>4. Stage(p) = "unsent" /\ Stage(p)' = "sent"
  BY <1>2, <1>3 DEF Stage
<1>5. \A x \in Packages \ {p} : Stage(x)' = Stage(x)
  BY <1>2 DEF Stage, AllDecoded
<1>6. stages' = [stages EXCEPT ![p] = "sent"] /\ stages[p] = "unsent"
  BY <1>4, <1>5 DEF stages
<1>7. QED
  BY <1>2, <1>6 DEF Mail!Send, stages, Stage

\* The segment that was still missing makes its package arrive.
LEMMA ExamineDelivers ==
  ASSUME DeliveryInv, NEW r \in Pullers, ExaminePackage(r) \/ ExamineSegment(r)
  PROVE  (\E p \in Packages : Mail!Arrive(p)) \/ (stages' = stages /\ UNCHANGED passed)
<1>1. PICK p \in Packages, i \in 1..MaxSegs : cur[r] = <<p, i>> /\ i \in 1..numSegs[p]
  BY DEF ExaminePackage, ExamineSegment, DeliveryInv, RInv, LocalInv, SegInv, Valid, Segs
<1>2. decoded' = decoded \union {<<p, i>>} /\ UNCHANGED <<numSegs, passed>>
  BY <1>1 DEF ExaminePackage, ExamineSegment, sendVars
<1>3. \A x \in Packages \ {p} : Stage(x)' = Stage(x)
  BY <1>2 DEF Stage, AllDecoded
<1>4. Stage(p) \in {"sent", "arrived"} /\ Stage(p)' \in {"sent", "arrived"}
  <2>1. numSegs[p] # 0
    BY <1>1 DEF DeliveryInv, RInv, LocalInv, TypeOK
  <2>2. QED
    BY <1>2, <2>1 DEF Stage
<1>5. Stage(p) = "arrived" => Stage(p)' = "arrived"
  BY <1>2 DEF Stage, AllDecoded
<1>6. CASE Stage(p)' = Stage(p)
  BY <1>2, <1>3, <1>6 DEF stages
<1>7. CASE Stage(p)' # Stage(p)
  <2>1. Stage(p) = "sent" /\ Stage(p)' = "arrived"
    BY <1>4, <1>5, <1>7
  <2>2. stages' = [stages EXCEPT ![p] = "arrived"] /\ stages[p] = "sent"
    BY <1>3, <2>1 DEF stages
  <2>3. Mail!Arrive(p)
    BY <1>2, <2>2 DEF Mail!Arrive, stages, Stage
  <2>4. QED
    BY <2>3
<1>8. QED
  BY <1>6, <1>7

LEMMA FilterDelivers ==
  ASSUME DeliveryInv, NEW r \in Pullers, RecvMessage(r)
  PROVE  \/ \E p \in Packages : \E n \in DOMAIN Contents(p) : Mail!Receive(p, n)
         \/ stages' = stages /\ UNCHANGED passed
<1>1. PICK p \in Packages : p = cur[r][1]
  BY MessageType DEF DeliveryInv, RInv, RecvMessage, Busy
<1>2. PICK n \in DOMAIN Contents(p) : n = at[r]
  BY <1>1 DEF DeliveryInv, RInv, LocalInv, AtInv, RecvMessage, Busy
<1>3. UNCHANGED <<numSegs, decoded>> /\ stages' = stages
  BY DEF RecvMessage, sendVars, stages, Stage, AllDecoded
<1>4. Stage(p) = "arrived" /\ stages[p] = "arrived"
  BY <1>1 DEF DeliveryInv, ArrivedInv, RecvMessage, Busy, Stage, AllDecoded, stages
<1>5. CASE UNCHANGED passed
  BY <1>3, <1>5
<1>6. CASE Message(r) \notin Elems(Kept) /\ passed' = Append(passed, Message(r))
  <2>1. Message(r) = Contents(p)[n]
    BY <1>1, <1>2 DEF Message
  <2>2. Mail!Fresh(Message(r))
    <3>1. SUFFICES ASSUME NEW k \in DOMAIN passed, k > Len(passed) - (MaxRecvMsgHashes - 1)
                   PROVE  passed[k] # Message(r)
      BY DEF Mail!Fresh
    <3>2. /\ Kept \in Seq(Messages) /\ Len(Kept) <= Len(passed)
          /\ \A j \in DOMAIN Kept : Kept[j] = passed[Len(passed) - Len(Kept) + j]
          /\ Len(Kept) < Len(passed) => Len(Kept) >= MaxRecvMsgHashes - 1
      BY KeptIsTheEnd DEF DeliveryInv, RInv
    <3>3. passed \in Seq(Messages) /\ MaxRecvMsgHashes \in Nat
      BY ReceiveAssumption DEF DeliveryInv, RInv, LocalInv, HistoryInv
    <3>4. PICK j \in Nat : j = k - (Len(passed) - Len(Kept)) /\ j \in DOMAIN Kept
      BY <3>1, <3>2, <3>3
    <3>5. Len(passed) - Len(Kept) + j = k
      BY <3>1, <3>2, <3>3, <3>4
    <3>6. Kept[j] = passed[k]
      BY <3>2, <3>4, <3>5
    <3>7. Kept[j] \in Elems(Kept)
      BY <3>4 DEF Elems
    <3>8. QED
      BY <1>6, <3>6, <3>7
  <2>3. Mail!Receive(p, n)
    BY <1>3, <1>4, <1>6, <2>1, <2>2 DEF Mail!Receive, stages, Stage
  <2>4. QED
    BY <2>3
<1>7. QED
  BY <1>5, <1>6 DEF RecvMessage

LEMMA DeliveryStep ==
  ASSUME DeliveryInv, [Next]_vars
  PROVE  Mail!Next \/ (stages' = stages /\ UNCHANGED passed)
<1>1. UNCHANGED <<numSegs, decoded, passed>> => stages' = stages /\ UNCHANGED passed
  BY DeliveryRests
<1>2. ASSUME NEW p \in Packages, Send(p) PROVE Mail!Next
  BY <1>2, SendDelivers DEF Mail!Next
<1>3. ASSUME NEW r \in Pullers, ExaminePackage(r) \/ ExamineSegment(r)
      PROVE  Mail!Next \/ (stages' = stages /\ UNCHANGED passed)
  BY <1>3, ExamineDelivers DEF Mail!Next
<1>4. ASSUME NEW r \in Pullers, RecvMessage(r)
      PROVE  Mail!Next \/ (stages' = stages /\ UNCHANGED passed)
  BY <1>4, FilterDelivers DEF Mail!Next
<1>5. ASSUME NEW p \in Packages, SendSegment(p) PROVE UNCHANGED <<numSegs, decoded, passed>>
  BY <1>5 DEF SendSegment, historyVars
<1>6. ASSUME NEW r \in Pullers,
             RecvMsg(r) \/ RecvAppend(r) \/ Pop(r) \/ Sleep(r) \/ ExamineFails(r) \/ TrackMessage(r) \/ ReceiveEncPkg(r)
      PROVE  UNCHANGED <<numSegs, decoded, passed>>
  BY <1>6 DEF RecvMsg, RecvAppend, Pop, Sleep, ExamineFails, TrackMessage, ReceiveEncPkg, sendVars, historyVars
<1>7. CASE UNCHANGED vars
  BY <1>1, <1>7 DEF vars, sendVars, historyVars
<1>8. QED
  BY <1>1, <1>2, <1>3, <1>4, <1>5, <1>6, <1>7 DEF Next, PublicationRun

LEMMA InitDelivery == Init => DeliveryInv /\ Mail!Init
<1> SUFFICES ASSUME Init PROVE DeliveryInv /\ Mail!Init
  OBVIOUS
<1>1. RInv
  BY InitRInv
<1>2. ArrivedInv /\ WindowInv
  BY DEF Init, ArrivedInv, WindowInv, Busy
<1>3. Mail!Init
  BY DEF Init, Mail!Init
<1>4. QED
  BY <1>1, <1>2, <1>3 DEF DeliveryInv

\* The receiving host delivers what Delivery promises, for any packages, segments, losses,
\* repetitions and orders, any number of Pullers and any length of the list of hashes
\* (IOManager.cpp 655-792, AbsDestini.py 243-250).
THEOREM ReceiverDelivers == Spec => ImplementsDelivery
<1>1. DeliveryInv /\ [Next]_vars => DeliveryInv'
  BY LocalStep, TrackStep, HandStep, ArrivedStep, WindowStep DEF DeliveryInv, RInv
<1>2. DeliveryInv /\ [Next]_vars => [Mail!Next]_<<stages, passed>>
  BY DeliveryStep
<1>3. DeliveryInv /\ [Next]_vars => [Mail!Next]_<<[p \in Packages |-> IF numSegs[p] = 0 THEN "unsent"
                               ELSE IF AllDecoded(p) THEN "arrived" ELSE "sent"], passed>>
  BY <1>2 DEF stages, Stage
<1>4. Spec => Mail!Init /\ [][Mail!Next]_<<[p \in Packages |-> IF numSegs[p] = 0 THEN "unsent"
                               ELSE IF AllDecoded(p) THEN "arrived" ELSE "sent"], passed>>
  BY <1>1, <1>3, InitDelivery, PTL DEF Spec
<1>5. QED
  BY <1>4, PTL DEF ImplementsDelivery, Mail!Spec

=============================================================================

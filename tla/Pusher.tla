------------------------------- MODULE Pusher -------------------------------
(***************************************************************************)
(* The sending half of a whiteboard: class Pusher of WBPushPullers.py over *)
(* the thread and channel handling of AbsWhiteboard.py, entered through    *)
(* WhiteboardTransport.sendMsg and stopped by WhiteboardTransport.shutdown.*)
(*                                                                         *)
(* Callers append to one queue under the Condition _sendLock; the Pusher's *)
(* own thread takes the oldest message, adds queued messages for the same  *)
(* (dest, userContext), and posts the batch with retries.  The thread is   *)
(* started by whichever caller finds it dead, and that test is made under  *)
(* no lock, so more than one incarnation (a member of Workers) may run.    *)
(*                                                                         *)
(* A step is what happens between two points where another thread can see  *)
(* or change what it reads.  queueCount() takes no _sendLock, so the queue *)
(* and its count move in separate steps.                                   *)
(***************************************************************************)
EXTENDS Integers, Sequences, FiniteSets, Sequencing

CONSTANTS
  Items,      \* the messages handed to pushMsg, each with its destination
  Callers,    \* the threads that call WhiteboardTransport.sendMsg
  Workers,    \* the incarnations of the Pusher's thread
  KeyOf(_),   \* the (dest, userContext) of a message
  SizeOf(_),  \* its length in bytes
  MaxCnt,     \* getMaxSendMsgCount(): messages in one post
  MaxBlob,    \* getMaxBlobSize(): bytes in one post
  MaxTry,     \* _max_try: attempts to open the channel, and to post
  None        \* no thread

ASSUME LimitsAssumption ==
  /\ MaxCnt \in Nat \ {0}
  /\ MaxBlob \in Nat
  /\ MaxTry \in Nat \ {0}

ASSUME SizeAssumption == \A i \in Items : SizeOf(i) \in Nat

ASSUME ThreadAssumption ==
  /\ Callers \intersect Workers = {}
  /\ None \notin Callers \union Workers

VARIABLES
  sendQueue,   \* _sendQueue
  qCount,      \* _status['send queue count'], what queueCount() returns
  holder,      \* the thread inside `with self._sendLock`
  waiters,     \* the threads inside _sendLock.wait()
  channel,     \* whether _channel is not None
  inShutdown,  \* WhiteboardTransport.inShutdown
  spc,         \* how far WhiteboardTransport.shutdown has come
  wbThread,    \* _wbThread, the incarnation started last
  wpc,         \* where each incarnation is
  batch,       \* its msgList, until its messages have met their fate
  last,        \* its msgList from then on
  room,        \* bytes left in its post
  tries,       \* _i of the loop it is in
  cpc,         \* where each caller is
  citem,       \* the message it is pushing
  arrival,     \* history: when the message was appended, 0 if it never was
  clock,       \* history: how many were appended
  fate,        \* history: what became of each message
  posted,      \* history: the batches the whiteboard stored, oldest first
  crossed,     \* history: an incarnation closed the channel that another had opened
  resent       \* history: the messages posted again after they had met their fate

queueVars   == <<sendQueue, qCount>>
workerVars  == <<wbThread, wpc, batch, last, room, tries>>
callerVars  == <<cpc, citem>>
stopVars    == <<inShutdown, spc>>
historyVars == <<arrival, clock, fate, posted, crossed, resent>>
vars == <<queueVars, holder, waiters, channel, stopVars, workerVars, callerVars, historyVars>>

Threads == Callers \union Workers

Fates == {"new", "accepted", "sent", "failed", "lost"}

CallerPCs == {"idle", "ensure", "start", "push", "append", "incr"}

WorkerPCs == {"dead", "starting", "closing", "opening", "loop", "inner", "acquire", "wait",
              "popped", "fetch", "check", "try", "after"}

\* Mutant: the element after the one taken goes.
RemoveNextIndex(s, n) == SubSeq(s, 1, n) \o SubSeq(s, n + 2, Len(s))

RemoveIndex(s, n) == SubSeq(s, 1, n - 1) \o SubSeq(s, n + 1, Len(s))

Init ==
  /\ sendQueue = <<>>
  /\ qCount = 0
  /\ holder = None
  /\ waiters = {}
  /\ channel = FALSE
  /\ inShutdown = FALSE
  /\ spc = "running"
  /\ wbThread = None
  /\ wpc = [w \in Workers |-> "dead"]
  /\ batch = [w \in Workers |-> <<>>]
  /\ last = [w \in Workers |-> <<>>]
  /\ room = [w \in Workers |-> 0]
  /\ tries = [w \in Workers |-> 0]
  /\ cpc = [c \in Callers |-> "idle"]
  /\ citem = [c \in Callers |-> None]
  /\ arrival = [i \in Items |-> 0]
  /\ clock = 0
  /\ fate = [i \in Items |-> "new"]
  /\ posted = <<>>
  /\ crossed = FALSE
  /\ resent = {}

\* is_alive(): the incarnation started last still runs.
Alive == wbThread # None /\ wpc[wbThread] # "dead"

\* Mutant: nobody is told.
NotifyNobody == UNCHANGED waiters

NotifyAll == waiters' = {}

-----------------------------------------------------------------------------
(* WhiteboardTransport.sendMsg and Pusher.pushMsg, by a caller *)

CallerTo(c, pc) == cpc' = [cpc EXCEPT ![c] = pc]

Return(c) == CallerTo(c, "idle") /\ citem' = [citem EXCEPT ![c] = None]

\* senderFor: refuse in shutdown (a refusal changes nothing and is no step).
SendMsg(c, i) ==
  /\ cpc[c] = "idle"
  /\ ~inShutdown
  /\ fate[i] = "new"
  /\ \A d \in Callers : cpc[d] # "idle" => citem[d] # i
  /\ CallerTo(c, "ensure")
  /\ citem' = [citem EXCEPT ![c] = i]
  /\ UNCHANGED <<queueVars, holder, waiters, channel, stopVars, workerVars, historyVars>>

\* senderFor and start: look whether the thread runs ...
TestAlive(c) ==
  /\ cpc[c] = "ensure"
  /\ CallerTo(c, IF Alive THEN "push" ELSE "start")
  /\ UNCHANGED <<queueVars, holder, waiters, channel, stopVars, workerVars, citem, historyVars>>

\* ... and start one if it did not, whatever has happened since.
StartThread(c) ==
  /\ cpc[c] = "start"
  /\ \E w \in Workers :
       /\ wpc[w] = "dead"
       /\ wpc' = [wpc EXCEPT ![w] = "starting"]
       /\ wbThread' = w
  /\ CallerTo(c, "push")
  /\ UNCHANGED <<queueVars, holder, waiters, channel, stopVars, batch, last, room, tries, citem,
                 historyVars>>

\* pushMsg returns False when the thread is dead.
PushMsg(c) ==
  /\ cpc[c] = "push"
  /\ IF Alive THEN CallerTo(c, "append") /\ UNCHANGED citem ELSE Return(c)
  /\ UNCHANGED <<queueVars, holder, waiters, channel, stopVars, workerVars, historyVars>>

PushAppend(c) ==
  /\ cpc[c] = "append"
  /\ holder = None
  /\ holder' = c
  /\ sendQueue' = Append(sendQueue, citem[c])
  /\ clock' = clock + 1
  /\ arrival' = [arrival EXCEPT ![citem[c]] = clock + 1]
  /\ fate' = [fate EXCEPT ![citem[c]] = "accepted"]
  /\ CallerTo(c, "incr")
  /\ UNCHANGED <<qCount, waiters, channel, stopVars, workerVars, citem, posted, crossed, resent>>

PushCount(c) ==
  /\ cpc[c] = "incr"
  /\ qCount' = qCount + 1
  /\ NotifyAll
  /\ holder' = None
  /\ Return(c)
  /\ UNCHANGED <<sendQueue, channel, stopVars, workerVars, historyVars>>

PushNext(c) ==
  TestAlive(c) \/ StartThread(c) \/ PushMsg(c) \/ PushAppend(c) \/ PushCount(c)

-----------------------------------------------------------------------------
(* The Pusher's thread *)

WorkerTo(w, pc) == wpc' = [wpc EXCEPT ![w] = pc]

\* A thread that ends forgets its msgList.
Dies(w) == WorkerTo(w, "dead") /\ last' = [last EXCEPT ![w] = <<>>]

\* _threadRunnable: close and open the channel unless it is open.
BeginThread(w) ==
  /\ wpc[w] = "starting"
  /\ WorkerTo(w, IF channel THEN "loop" ELSE "closing")
  /\ UNCHANGED <<queueVars, holder, waiters, channel, stopVars, wbThread, batch, last, room, tries,
                 callerVars, historyVars>>

\* _closeChannel: there may be one again, another incarnation's.
CloseFirst(w) ==
  /\ wpc[w] = "closing"
  /\ channel' = FALSE
  /\ crossed' = (crossed \/ channel)
  /\ WorkerTo(w, "opening")
  /\ UNCHANGED <<queueVars, holder, waiters, stopVars, wbThread, batch, last, room, tries,
                 callerVars, arrival, clock, fate, posted, resent>>

OpenSucceeds(w) ==
  /\ wpc[w] = "opening"
  /\ channel' = TRUE
  /\ WorkerTo(w, "loop")
  /\ tries' = [tries EXCEPT ![w] = 0]
  /\ UNCHANGED <<queueVars, holder, waiters, stopVars, wbThread, batch, last, room,
                 callerVars, historyVars>>

\* After the last failure the thread goes on only if another incarnation opened the channel.
OpenFails(w) ==
  /\ wpc[w] = "opening"
  /\ IF tries[w] + 1 < MaxTry
     THEN tries' = [tries EXCEPT ![w] = @ + 1] /\ UNCHANGED wpc
     ELSE tries' = [tries EXCEPT ![w] = 0] /\ WorkerTo(w, IF channel THEN "loop" ELSE "dead")
  /\ UNCHANGED <<queueVars, holder, waiters, channel, stopVars, wbThread, batch, last, room,
                 callerVars, historyVars>>

\* threadLoop: the outer `while self._channel` ...
TestChannel(w) ==
  /\ wpc[w] = "loop"
  /\ \/ channel /\ WorkerTo(w, "inner") /\ UNCHANGED last
     \/ ~channel /\ Dies(w)
  /\ UNCHANGED <<queueVars, holder, waiters, channel, stopVars, wbThread, batch, room, tries,
                 callerVars, historyVars>>

\* ... and the inner one.
TestInner(w) ==
  /\ wpc[w] = "inner"
  /\ WorkerTo(w, IF channel THEN "acquire" ELSE "after")
  /\ UNCHANGED <<queueVars, holder, waiters, channel, stopVars, wbThread, batch, last, room, tries,
                 callerVars, historyVars>>

\* The inner loop ended without a batch.  If another incarnation has opened the channel since, the
\* thread posts its last one again, or dies of a msgList that has no value.
LeaveLoop(w) ==
  /\ wpc[w] = "after"
  /\ \/ /\ channel /\ last[w] # <<>>
        /\ WorkerTo(w, "try")
        /\ resent' = resent \union Elems(last[w])
        /\ UNCHANGED last
     \/ /\ ~channel \/ last[w] = <<>>
        /\ Dies(w)
        /\ UNCHANGED resent
  /\ UNCHANGED <<queueVars, holder, waiters, channel, stopVars, wbThread, batch, room, tries,
                 callerVars, arrival, clock, fate, posted, crossed>>

WaitForWork(w) ==
  /\ wpc[w] = "acquire"
  /\ holder = None
  /\ sendQueue = <<>>
  /\ waiters' = waiters \union {w}
  /\ WorkerTo(w, "wait")
  /\ UNCHANGED <<queueVars, holder, channel, stopVars, wbThread, batch, last, room, tries,
                 callerVars, historyVars>>

WakeUp(w) ==
  /\ wpc[w] = "wait"
  /\ w \notin waiters
  /\ holder = None
  /\ WorkerTo(w, "inner")
  /\ UNCHANGED <<queueVars, holder, waiters, channel, stopVars, wbThread, batch, last, room, tries,
                 callerVars, historyVars>>

TakeHead(w) ==
  /\ wpc[w] = "acquire"
  /\ holder = None
  /\ sendQueue # <<>>
  /\ holder' = w
  /\ batch' = [batch EXCEPT ![w] = <<Head(sendQueue)>>]
  /\ room' = [room EXCEPT ![w] = MaxBlob - SizeOf(Head(sendQueue)) - 4]
  /\ sendQueue' = Tail(sendQueue)
  /\ WorkerTo(w, "popped")
  /\ UNCHANGED <<qCount, waiters, channel, stopVars, wbThread, last, tries, callerVars, historyVars>>

\* The providers waiting on outputLock() are notified when this made the count zero.
CountHead(w) ==
  /\ wpc[w] = "popped"
  /\ qCount' = qCount - 1
  /\ IF qCount' = 0 /\ Alive THEN NotifyAll ELSE UNCHANGED waiters
  /\ WorkerTo(w, "fetch")
  /\ UNCHANGED <<sendQueue, holder, channel, stopVars, wbThread, batch, last, room, tries, callerVars,
                 historyVars>>

\* Mutant: whatever is oldest, wherever it goes.
IsNextOfAll(w, n) == n \in DOMAIN sendQueue /\ n = 1

\* The oldest queued message with the key of the batch.
IsNextMate(w, n) ==
  /\ n \in DOMAIN sendQueue
  /\ KeyOf(sendQueue[n]) = KeyOf(batch[w][1])
  /\ \A m \in 1..(n - 1) : KeyOf(sendQueue[m]) # KeyOf(batch[w][1])

\* Mutant: the four bytes of the message's own header are forgotten.
FitsWithoutHeader(w, i) == Len(batch[w]) < MaxCnt /\ SizeOf(i) <= room[w]

Fits(w, i) == Len(batch[w]) < MaxCnt /\ SizeOf(i) + 4 <= room[w]

\* Mutant: only the message popped is counted.
CountNothing == UNCHANGED qCount

CountMate == qCount' = qCount - 1

\* fetchAdditionalMessages, one message of it.
FetchMate(w) ==
  /\ wpc[w] = "fetch"
  /\ \E n \in DOMAIN sendQueue :
       /\ IsNextMate(w, n)
       /\ Fits(w, sendQueue[n])
       /\ batch' = [batch EXCEPT ![w] = Append(@, sendQueue[n])]
       /\ room' = [room EXCEPT ![w] = @ - (SizeOf(sendQueue[n]) + 4)]
       /\ sendQueue' = RemoveIndex(sendQueue, n)
  /\ CountMate
  /\ UNCHANGED <<holder, waiters, channel, stopVars, wbThread, wpc, last, tries, callerVars,
                 historyVars>>

FetchEnds(w) ==
  /\ wpc[w] = "fetch"
  /\ \A n \in DOMAIN sendQueue : IsNextMate(w, n) => ~Fits(w, sendQueue[n])
  /\ holder' = None
  /\ WorkerTo(w, "check")
  /\ UNCHANGED <<queueVars, waiters, channel, stopVars, wbThread, batch, last, room, tries, callerVars,
                 historyVars>>

\* The batch, if there is one, is done with: its messages have met their fate.
Settle(w, outcome) ==
  /\ fate' = [i \in Items |-> IF i \in Elems(batch[w]) THEN outcome ELSE fate[i]]
  /\ batch' = [batch EXCEPT ![w] = <<>>]
  /\ room' = [room EXCEPT ![w] = 0]
  /\ tries' = [tries EXCEPT ![w] = 0]

\* A channel closed meanwhile ends the thread, and the batch with it.
TestChannelAgain(w) ==
  /\ wpc[w] = "check"
  /\ \/ /\ channel
        /\ WorkerTo(w, "try")
        /\ UNCHANGED <<batch, last, room, tries, fate>>
     \/ /\ ~channel
        /\ Dies(w)
        /\ Settle(w, "lost")
  /\ UNCHANGED <<queueVars, holder, waiters, channel, stopVars, wbThread, callerVars,
                 arrival, clock, posted, crossed, resent>>

\* What the thread posts: the batch, or its last one again.
MsgList(w) == IF batch[w] = <<>> THEN last[w] ELSE batch[w]

\* Mutant: one attempt too many.
MayTryOnceMore(w) == tries[w] <= MaxTry /\ channel

\* `for _i in range (self._max_try): if self._channel is None: break`.
MayTry(w) == tries[w] < MaxTry /\ channel

SendSucceeds(w) ==
  /\ wpc[w] = "try"
  /\ MayTry(w)
  /\ posted' = Append(posted, MsgList(w))
  /\ last' = [last EXCEPT ![w] = MsgList(w)]
  /\ WorkerTo(w, "loop")
  /\ Settle(w, "sent")
  /\ UNCHANGED <<queueVars, holder, waiters, channel, stopVars, wbThread, callerVars,
                 arrival, clock, crossed, resent>>

\* sendMsg returned False or raised; the whiteboard may have stored the post all the same.
SendFails(w) ==
  /\ wpc[w] = "try"
  /\ MayTry(w)
  /\ posted' \in {posted, Append(posted, MsgList(w))}
  /\ tries' = [tries EXCEPT ![w] = @ + 1]
  /\ UNCHANGED <<queueVars, holder, waiters, channel, stopVars, wbThread, wpc, batch, last, room,
                 callerVars, arrival, clock, fate, crossed, resent>>

\* No attempt is left, or the channel was closed: the failure is counted, the batch dropped.
GiveUp(w) ==
  /\ wpc[w] = "try"
  /\ ~MayTry(w)
  /\ last' = [last EXCEPT ![w] = MsgList(w)]
  /\ WorkerTo(w, "loop")
  /\ Settle(w, "failed")
  /\ UNCHANGED <<queueVars, holder, waiters, channel, stopVars, wbThread, callerVars,
                 arrival, clock, posted, crossed, resent>>

WorkerNext(w) ==
  \/ BeginThread(w) \/ CloseFirst(w) \/ OpenSucceeds(w) \/ OpenFails(w)
  \/ TestChannel(w) \/ TestInner(w) \/ LeaveLoop(w) \/ WaitForWork(w) \/ WakeUp(w)
  \/ TakeHead(w) \/ CountHead(w) \/ FetchMate(w) \/ FetchEnds(w)
  \/ TestChannelAgain(w) \/ SendSucceeds(w) \/ SendFails(w) \/ GiveUp(w)

-----------------------------------------------------------------------------
(* WhiteboardTransport.shutdown *)

ShutdownFlush ==
  /\ spc = "running"
  /\ IF channel /\ Alive
     THEN holder = None /\ NotifyAll
     ELSE UNCHANGED waiters
  /\ spc' = "flushed"
  /\ UNCHANGED <<queueVars, holder, channel, inShutdown, workerVars, callerVars, historyVars>>

ShutdownFlag ==
  /\ spc = "flushed"
  /\ inShutdown' = TRUE
  /\ spc' = "flagged"
  /\ UNCHANGED <<queueVars, holder, waiters, channel, workerVars, callerVars, historyVars>>

ShutdownClose ==
  /\ spc = "flagged"
  /\ channel' = FALSE
  /\ spc' = "closed"
  /\ UNCHANGED <<queueVars, holder, waiters, inShutdown, workerVars, callerVars, historyVars>>

ShutdownNext == ShutdownFlush \/ ShutdownFlag \/ ShutdownClose

Next ==
  \/ \E c \in Callers, i \in Items : SendMsg(c, i)
  \/ \E c \in Callers : PushNext(c)
  \/ \E w \in Workers : WorkerNext(w)
  \/ ShutdownNext

Spec == Init /\ [][Next]_vars

\* Threads run, locks are handed on, and no library call blocks for ever.
Fairness ==
  /\ \A c \in Callers : WF_vars(PushNext(c))
  /\ \A w \in Workers : WF_vars(WorkerNext(w))
  /\ WF_vars(ShutdownFlag) /\ WF_vars(ShutdownClose)

FairSpec == Spec /\ Fairness

-----------------------------------------------------------------------------
(* Properties *)

\* Type invariant of the Pusher's state (WBPushPullers.py 80-87, AbsWhiteboard.py 60-80).
TypeOK ==
  /\ sendQueue \in Seq(Items)
  /\ qCount \in Int
  /\ holder \in Threads \union {None}
  /\ waiters \subseteq Threads
  /\ channel \in BOOLEAN
  /\ inShutdown \in BOOLEAN
  /\ spc \in {"running", "flushed", "flagged", "closed"}
  /\ wbThread \in Workers \union {None}
  /\ wpc \in [Workers -> WorkerPCs]
  /\ batch \in [Workers -> Seq(Items)]
  /\ last \in [Workers -> Seq(Items)]
  /\ room \in [Workers -> Int]
  /\ tries \in [Workers -> 0..MaxTry]
  /\ cpc \in [Callers -> CallerPCs]
  /\ citem \in [Callers -> Items \union {None}]
  /\ arrival \in [Items -> Nat]
  /\ clock \in Nat
  /\ fate \in [Items -> Fates]
  /\ posted \in Seq(Seq(Items))
  /\ crossed \in BOOLEAN
  /\ resent \subseteq Items

\* The count MessageSender reads without _sendLock is never negative, differs from the length
\* of _sendQueue by one at most, and only while some thread is between changing the one and
\* changing the other (WBPushPullers.py 98-111, 165-170, 141-143).
CountTracksQueue ==
  /\ qCount >= 0
  /\ holder = None => qCount = Len(sendQueue)
  /\ holder \in Callers => qCount = Len(sendQueue) - 1
  /\ \A w \in Workers : holder = w =>
       qCount = Len(sendQueue) + (IF wpc[w] = "popped" THEN 1 ELSE 0)

\* No wakeup of the Pusher's thread is lost: an incarnation sleeps on _sendLock only while the
\* queue is empty, or while the caller that filled it has yet to notify (lines 104-108, 160-186).
NoSleepOnWork ==
  \A w \in Workers : w \in waiters => sendQueue = <<>> \/ holder \in Callers

\* Every message pushMsg accepted is in exactly one place until it is settled: once in the queue,
\* or once in the batch of one incarnation; a settled or unknown message is in none
\* (lines 101-111, 116-146, 165, 190-192, 222-234).
NothingVanishes ==
  /\ \A i \in Items : fate[i] = "accepted" <=>
       i \in Elems(sendQueue) \/ \E w \in Workers : i \in Elems(batch[w])
  /\ \A m, n \in DOMAIN sendQueue : sendQueue[m] = sendQueue[n] => m = n
  /\ \A w \in Workers : \A m, n \in DOMAIN batch[w] : batch[w][m] = batch[w][n] => m = n
  /\ \A w \in Workers : Elems(batch[w]) \intersect Elems(sendQueue) = {}
  /\ \A v, w \in Workers : v # w => Elems(batch[v]) \intersect Elems(batch[w]) = {}

\* Bytes of a post: the sum of the messages' sizes and their four-byte headers.
PostSize(s) == Total([n \in DOMAIN s |-> SizeOf(s[n]) + 4])

\* What one sendMsg is given goes to one destination, is no longer than getMaxSendMsgCount(), no
\* larger than getMaxBlobSize() unless it is one message, and keeps the order of arrival
\* (lines 116-146, 173-181).
BatchWithinLimits ==
  \A w \in Workers :
    /\ Len(batch[w]) <= MaxCnt
    /\ Len(batch[w]) > 1 => PostSize(batch[w]) <= MaxBlob
    /\ \A m, n \in DOMAIN batch[w] :
         /\ KeyOf(batch[w][m]) = KeyOf(batch[w][n])
         /\ m < n => arrival[batch[w][m]] < arrival[batch[w][n]]

\* Retries repeat a post at most MaxTry times, unless the channel was closed and opened again under
\* the thread; a message counted as sent was stored at least once; one that was never tried was never
\* stored; only a shutdown, or another incarnation that closes the channel, loses a message untried
\* (WBPushPullers.py 156-234, AbsWhiteboard.py 330-388).
PostedAgreesWithFate ==
  \A i \in Items :
    LET copies == {n \in DOMAIN posted : i \in Elems(posted[n])}
    IN /\ Cardinality(copies) <= MaxTry \/ i \in resent
       /\ fate[i] = "sent" => copies # {}
       /\ fate[i] \in {"new", "lost"} => copies = {}
       /\ fate[i] = "lost" => spc = "closed" \/ crossed
       /\ i \in Elems(sendQueue) => copies = {}

\* A message pushMsg accepted is settled in the end, unless the thread has died: of a channel
\* that would not open, or of shutdown (lines 156-234, AbsWhiteboard.py 338-354).
AcceptedSettles == \A i \in Items : fate[i] = "accepted" ~> (fate[i] # "accepted" \/ ~Alive)

\* The incarnation with a batch, if one has one.
Drainer(batches) == CHOOSE v \in Workers : \A u \in Workers : batches[u] # <<>> => u = v

OfKey(k) == {i \in Items : KeyOf(i) = k}

\* What is pending for a key: the batch, then the queue.
Pending(k) == Only(batch[Drainer(batch)], OfKey(k)) \o Only(sendQueue, OfKey(k))

Stored(k) == Only(posted, {b \in Seq(Items) : KeyOf(b[1]) = k})

Mail == INSTANCE Mailbox WITH
  box <- [k \in {KeyOf(i) : i \in Items} |-> Pending(k)],
  store <- [k \in {KeyOf(i) : i \in Items} |-> Stored(k)]

\* With one incarnation of its thread the Pusher is a mailbox: batching, retries, refused calls
\* and shutdown never let a message overtake an earlier one to the same (dest, userContext)
\* (lines 101-234).
ImplementsMailbox == Mail!Spec

\* shutdown () ends every transport thread (AbsWhiteboard.py 48-50).
ShutdownTerminates == spc = "closed" ~> \A w \in Workers : wpc[w] = "dead"

=============================================================================

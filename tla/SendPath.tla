------------------------------ MODULE SendPath ------------------------------
(***************************************************************************)
(* A MessageSender (MessageSender.py) on top of its Pusher: application    *)
(* threads queue messages, and whoever finds the Pusher idle, or the queue *)
(* too long, wraps everything queued into one package and pushes it.  What *)
(* nobody flushed is left to a notification thread that waits on the       *)
(* Pusher's own Condition, outputLock().                                   *)
(*                                                                         *)
(* _queueLock is held from taking the queue to the return of               *)
(* IOManager.Send, which calls WhiteboardTransport.sendMsg on the same     *)
(* thread (Pusher's caller steps).  A package goes out as one segment      *)
(* here; splitting is IOManager's.                                         *)
(***************************************************************************)
EXTENDS Pusher

CONSTANTS
  MaxMsgs,      \* bound: how many messages are given to sendMessage
  Apps,         \* the threads that call it
  Notifiers,    \* the notification threads (the test that starts one holds no lock)
  BytesOf(_),   \* MessageWrapper.WrappedSize of a message
  MaxQBytes,    \* _maxQBytes, 0 for no limit
  HasTimeout    \* whether _timeout is not None

\* A message is its number in the order of queueing.
Msgs == 1..MaxMsgs

\* An item of the Pusher is a package, a caller one of the threads that flush.
ASSUME SendPathAssumption ==
  /\ Callers = Apps \union Notifiers
  /\ Apps \intersect Notifiers = {}
  /\ Notifiers # {}
  /\ MaxMsgs \in Nat
  /\ MaxQBytes \in Nat
  /\ HasTimeout \in BOOLEAN

ASSUME BytesAssumption == \A m \in Msgs : BytesOf(m) \in Nat

VARIABLES
  msgQueue,     \* _queue
  queuedBytes,  \* _queuedBytes
  queueLock,    \* the thread inside `with self._queueLock`
  sendThread,   \* whether _sendThread is not None
  mpc,          \* where each thread is in MessageSender
  content,      \* the messages wrapped into each package
  queued        \* history: how many messages were queued

senderVars == <<msgQueue, queuedBytes, queueLock, sendThread, mpc, content, queued>>
pusherVars == vars
allVars    == <<senderVars, pusherVars>>

SendInit ==
  /\ Init
  /\ msgQueue = <<>>
  /\ queuedBytes = 0
  /\ queueLock = None
  /\ sendThread = FALSE
  /\ mpc = [t \in Callers |-> IF t \in Apps THEN "idle" ELSE "unborn"]
  /\ content = [p \in Items |-> <<>>]
  /\ queued = 0

MoveTo(t, pc) == mpc' = [mpc EXCEPT ![t] = pc]

\* Where a thread goes when _IOManagerSend returns.
Rest(t) == IF t \in Apps THEN "idle" ELSE "await"

-----------------------------------------------------------------------------
(* sendMessage *)

SendMessage(a) ==
  /\ mpc[a] = "idle"
  /\ queued < MaxMsgs
  /\ queueLock = None
  /\ queued' = queued + 1
  /\ msgQueue' = Append(msgQueue, queued')
  /\ queuedBytes' = queuedBytes + BytesOf(queued')
  /\ MoveTo(a, "count")
  /\ UNCHANGED <<queueLock, sendThread, content, pusherVars>>

\* `self._sender.queueCount () == 0`, under no lock.
TestCount(a) ==
  /\ mpc[a] = "count"
  /\ MoveTo(a, IF qCount = 0 THEN "flush" ELSE "bytes")
  /\ UNCHANGED <<msgQueue, queuedBytes, queueLock, sendThread, content, queued, pusherVars>>

\* Mutant: the limit itself still fits.
OverLimit == MaxQBytes # 0 /\ queuedBytes > MaxQBytes

AtLimit == MaxQBytes # 0 /\ queuedBytes >= MaxQBytes

TestBytes(a) ==
  /\ mpc[a] = "bytes"
  /\ MoveTo(a, IF AtLimit THEN "flush" ELSE "ensure")
  /\ UNCHANGED <<msgQueue, queuedBytes, queueLock, sendThread, content, queued, pusherVars>>

TestSendThread(a) ==
  /\ mpc[a] = "ensure"
  /\ MoveTo(a, IF sendThread THEN "idle" ELSE "start")
  /\ UNCHANGED <<msgQueue, queuedBytes, queueLock, sendThread, content, queued, pusherVars>>

\* Threads started beyond the number of Notifiers are not modelled.
StartSendThread(a) ==
  /\ mpc[a] = "start"
  /\ sendThread' = TRUE
  /\ IF \E n \in Notifiers : mpc[n] = "unborn"
     THEN \E n \in Notifiers : /\ mpc[n] = "unborn"
                               /\ mpc' = [mpc EXCEPT ![n] = "await", ![a] = "idle"]
     ELSE MoveTo(a, "idle")
  /\ UNCHANGED <<msgQueue, queuedBytes, queueLock, content, queued, pusherVars>>

-----------------------------------------------------------------------------
(* _IOManagerSend, by an application thread or a notification thread *)

FlushNothing(t) ==
  /\ mpc[t] = "flush"
  /\ queueLock = None
  /\ msgQueue = <<>>
  /\ MoveTo(t, Rest(t))
  /\ UNCHANGED <<msgQueue, queuedBytes, queueLock, sendThread, content, queued, pusherVars>>

\* Mutant: the lock is given back before IOManager.Send.
LockNobody(t) == UNCHANGED queueLock

LockQueue(t) == queueLock' = t

TakeAll == msgQueue' = <<>> /\ queuedBytes' = 0

\* Bound: packages are taken from Items.
Unused == {i \in Items : content[i] = <<>>}

\* Everything queued becomes one package, and the transport is asked to send it.
Flush(t) ==
  /\ mpc[t] = "flush"
  /\ queueLock = None
  /\ msgQueue # <<>>
  /\ Unused # {}
  /\ LET p == CHOOSE i \in Unused : TRUE
     IN /\ content' = [content EXCEPT ![p] = msgQueue]
        /\ IF inShutdown THEN UNCHANGED pusherVars ELSE SendMsg(t, p)
  /\ TakeAll
  /\ LockQueue(t)
  /\ MoveTo(t, "send")
  /\ UNCHANGED <<sendThread, queued>>

\* IOManager.Send has returned: accepted or refused, the package is no longer the sender's.
SendReturns(t) ==
  /\ mpc[t] = "send"
  /\ cpc[t] = "idle"
  /\ queueLock' = None
  /\ MoveTo(t, Rest(t))
  /\ UNCHANGED <<msgQueue, queuedBytes, sendThread, content, queued, pusherVars>>

-----------------------------------------------------------------------------
(* _threadRunnable of the notification thread *)

AwaitOutput(n) ==
  /\ mpc[n] = "await"
  /\ holder = None
  /\ waiters' = waiters \union {n}
  /\ MoveTo(n, "asleep")
  /\ UNCHANGED <<msgQueue, queuedBytes, queueLock, sendThread, content, queued,
                 queueVars, holder, channel, stopVars, workerVars, callerVars, historyVars>>

AwaitTimesOut(n) ==
  /\ mpc[n] = "asleep"
  /\ HasTimeout
  /\ n \in waiters
  /\ waiters' = waiters \ {n}
  /\ UNCHANGED <<senderVars,
                 queueVars, holder, channel, stopVars, workerVars, callerVars, historyVars>>

\* Mutant: the flush happens inside `with self._sOutputLock`.
KeepOutputLock(n) == holder' = n

LeaveOutputLock(n) == UNCHANGED holder

AwaitEnds(n) ==
  /\ mpc[n] = "asleep"
  /\ n \notin waiters
  /\ holder = None
  /\ LeaveOutputLock(n)
  /\ MoveTo(n, "flush")
  /\ UNCHANGED <<msgQueue, queuedBytes, queueLock, sendThread, content, queued,
                 queueVars, waiters, channel, stopVars, workerVars, callerVars, historyVars>>

-----------------------------------------------------------------------------

AppNext(a) ==
  \/ TestCount(a) \/ TestBytes(a) \/ TestSendThread(a) \/ StartSendThread(a)
  \/ FlushNothing(a) \/ Flush(a) \/ SendReturns(a)

NotifierNext(n) ==
  \/ AwaitOutput(n) \/ AwaitTimesOut(n) \/ AwaitEnds(n)
  \/ FlushNothing(n) \/ Flush(n) \/ SendReturns(n)

PusherStep(A) == A /\ UNCHANGED senderVars

SendNext ==
  \/ \E a \in Apps : SendMessage(a)
  \/ \E a \in Apps : AppNext(a)
  \/ \E n \in Notifiers : NotifierNext(n)
  \/ PusherStep(\E c \in Callers : PushNext(c))
  \/ PusherStep(\E w \in Workers : WorkerNext(w))
  \/ PusherStep(ShutdownNext)

SendSpec == SendInit /\ [][SendNext]_allVars

\* Threads run, locks are handed on, a wait with a timeout ends, no library call blocks for ever.
SendFairness ==
  /\ \A a \in Apps : WF_allVars(AppNext(a) \/ PusherStep(PushNext(a)))
  /\ \A n \in Notifiers : WF_allVars(NotifierNext(n) \/ PusherStep(PushNext(n)))
  /\ \A w \in Workers : WF_allVars(PusherStep(WorkerNext(w)))

FairSendSpec == SendSpec /\ SendFairness

-----------------------------------------------------------------------------
(* Properties *)

\* Each message queued is in the queue or in one package, once: two threads never send the same
\* one, and none falls between them.
EachMessageOnce ==
  \A m \in 1..queued :
    LET inQueue == {n \in DOMAIN msgQueue : msgQueue[n] = m}
        inPackages == {at \in Items \X Msgs :
                         at[2] \in DOMAIN content[at[1]] /\ content[at[1]][at[2]] = m}
    IN Cardinality(inQueue) + Cardinality(inPackages) = 1

\* Packages were appended to _sendQueue in the order of their messages, and what is still queued is
\* later than every package.
PackagesInOrder ==
  /\ \A p, q \in Items : arrival[p] < arrival[q] /\ arrival[p] # 0 =>
       \A m \in Elems(content[p]), k \in Elems(content[q]) : m < k
  /\ \A p \in Items : \A m \in Elems(content[p]), k \in Elems(msgQueue) : m < k

\* Every message reaches the Pusher once, in the order in which sendMessage queued them, whichever
\* threads flush (MessageSender.py 37-80 under _queueLock).
OrderSurvivesFlush == EachMessageOnce /\ PackagesInOrder

\* What is queued is somebody's business: a thread is on its way to flush it, or a notification
\* thread exists.  A queue at its byte limit is being flushed (lines 82-93).
QueueIsWatched ==
  /\ msgQueue # <<>> =>
       \/ \E a \in Apps : mpc[a] \in {"count", "bytes", "ensure", "start", "flush"}
       \/ \E n \in Notifiers : mpc[n] # "unborn"
  /\ MaxQBytes # 0 /\ queuedBytes >= MaxQBytes =>
       \E t \in Callers : mpc[t] \in {"count", "bytes", "flush"}

\* Every message leaves the queue in the end: _queueLock, held across IOManager.Send and so across
\* _sendLock, is always given back, for the notification thread never wants it while it holds
\* _sendLock (MessageSender.py 37-100).
MessagesLeave == msgQueue # <<>> ~> msgQueue = <<>>

\* "Notify upstream message providers that the queue is empty" (WBPushPullers.py 168): messages
\* left queued while the Pusher was busy leave once its queue is empty.
ProvidersLearnOfEmptyQueue == msgQueue # <<>> /\ qCount = 0 ~> msgQueue = <<>>

=============================================================================

---------------------------- MODULE PusherProofs ----------------------------
(***************************************************************************)
(* Theorems about Pusher, for any messages, callers, incarnations of the   *)
(* thread, and limits, and, in its last part, about SendPath, for any      *)
(* senders, notification threads and messages.  No theorem about Pusher    *)
(* uses an assumption or a definition of SendPath.                         *)
(***************************************************************************)
EXTENDS SendPath, SequencingProofs, FiniteSetTheorems, TLAPS

\* The lock is held exactly inside the `with self._sendLock` blocks.
LockInv ==
  /\ \A c \in Callers : cpc[c] = "incr" <=> holder = c
  /\ \A w \in Workers : wpc[w] \in {"popped", "fetch"} <=> holder = w

\* A caller inside sendMsg carries a message.
CarryInv == \A c \in Callers : cpc[c] # "idle" => citem[c] \in Items

IInv == TypeOK /\ LockInv /\ CarryInv /\ CountTracksQueue /\ NoSleepOnWork

-----------------------------------------------------------------------------

\* Taking one element out of a sequence leaves the others in their order.
LEMMA RemoveIndexProperties ==
  ASSUME NEW S, NEW s \in Seq(S), NEW n \in DOMAIN s
  PROVE  /\ RemoveIndex(s, n) \in Seq(S)
         /\ Len(RemoveIndex(s, n)) = Len(s) - 1
         /\ \A m \in 1..(Len(s) - 1) :
              RemoveIndex(s, n)[m] = IF m < n THEN s[m] ELSE s[m + 1]
<1> DEFINE a == SubSeq(s, 1, n - 1)
           b == SubSeq(s, n + 1, Len(s))
<1>1. n \in 1..Len(s) /\ Len(s) \in Nat
  BY LenProperties
<1>2. a \in Seq(S) /\ Len(a) = n - 1 /\ \A m \in 1..(n - 1) : a[m] = s[m]
  BY <1>1, SubSeqProperties
<1>3. b \in Seq(S) /\ Len(b) = Len(s) - n /\ \A m \in 1..(Len(s) - n) : b[m] = s[m + n]
  BY <1>1, SubSeqProperties
<1> HIDE DEF a, b
<1>4. /\ a \o b \in Seq(S)
      /\ Len(a \o b) = Len(s) - 1
      /\ \A m \in 1..(Len(s) - 1) : (a \o b)[m] = IF m <= Len(a) THEN a[m] ELSE b[m - Len(a)]
  BY <1>1, <1>2, <1>3, ConcatProperties
<1>5. ASSUME NEW m \in 1..(Len(s) - 1)
      PROVE  (a \o b)[m] = IF m < n THEN s[m] ELSE s[m + 1]
  <2>1. CASE m < n
    BY <2>1, <1>1, <1>2, <1>4
  <2>2. CASE m >= n
    <3>1. m - Len(a) \in 1..(Len(s) - n) /\ (m - Len(a)) + n = m + 1
      BY <2>2, <1>1, <1>2
    <3>2. (a \o b)[m] = b[m - Len(a)]
      BY <2>2, <1>1, <1>2, <1>4
    <3>3. QED
      BY <2>2, <3>1, <3>2, <1>1, <1>3
  <2>3. m \in Nat /\ n \in Nat
    BY <1>1
  <2>4. m < n \/ m >= n
    BY <2>3
  <2>5. QED
    BY <2>1, <2>2, <2>4
<1>6. RemoveIndex(s, n) = a \o b
  BY DEF RemoveIndex, a, b
<1>7. QED
  BY <1>4, <1>5, <1>6

-----------------------------------------------------------------------------

\* The initial states satisfy the inductive invariant.
LEMMA InitIInv == Init => IInv
<1> SUFFICES ASSUME Init PROVE IInv
  OBVIOUS
<1> USE LimitsAssumption, ThreadAssumption DEF Init
<1>1. TypeOK
  <2>1. /\ sendQueue \in Seq(Items) /\ posted \in Seq(Seq(Items))
        /\ batch \in [Workers -> Seq(Items)] /\ last \in [Workers -> Seq(Items)]
    OBVIOUS
  <2>2. fate \in [Items -> Fates] /\ arrival \in [Items -> Nat]
    BY DEF Fates
  <2>3. tries \in [Workers -> 0..MaxTry] /\ room \in [Workers -> Int]
    OBVIOUS
  <2>4. wpc \in [Workers -> WorkerPCs] /\ cpc \in [Callers -> CallerPCs]
    BY DEF WorkerPCs, CallerPCs
  <2>5. /\ citem \in [Callers -> Items \union {None}] /\ waiters \subseteq Threads
        /\ holder \in Threads \union {None} /\ wbThread \in Workers \union {None}
    OBVIOUS
  <2>6. qCount \in Int /\ clock \in Nat
    OBVIOUS
  <2>7. /\ channel \in BOOLEAN /\ inShutdown \in BOOLEAN /\ spc = "running"
        /\ crossed \in BOOLEAN /\ resent \subseteq Items
    OBVIOUS
  <2>8. QED
    BY ONLY <2>1, <2>2, <2>3, <2>4, <2>5, <2>6, <2>7 DEF TypeOK
<1>2. LockInv /\ CarryInv
  BY DEF LockInv, CarryInv
<1>3. CountTracksQueue /\ NoSleepOnWork
  BY DEF CountTracksQueue, NoSleepOnWork
<1>4. QED
  BY <1>1, <1>2, <1>3 DEF IInv

\* Settling a batch keeps the types.
LEMMA SettleTypes ==
  ASSUME TypeOK, NEW w \in Workers, NEW outcome \in Fates, Settle(w, outcome)
  PROVE  /\ fate' \in [Items -> Fates]
         /\ batch' \in [Workers -> Seq(Items)]
         /\ room' \in [Workers -> Int]
         /\ tries' \in [Workers -> 0..MaxTry]
<1>1. <<>> \in Seq(Items) /\ 0 \in Int /\ 0 \in 0..MaxTry
  BY LimitsAssumption
<1>2. fate' \in [Items -> Fates]
  BY DEF Settle, TypeOK
<1>3. batch' \in [Workers -> Seq(Items)] /\ room' \in [Workers -> Int]
  BY <1>1 DEF Settle, TypeOK
<1>4. tries' \in [Workers -> 0..MaxTry]
  BY <1>1 DEF Settle, TypeOK
<1>5. QED
  BY <1>2, <1>3, <1>4

LEMMA MsgListType ==
  ASSUME TypeOK, NEW w \in Workers
  PROVE  MsgList(w) \in Seq(Items)
BY DEF TypeOK, MsgList

LEMMA DeadTypes ==
  ASSUME TypeOK, NEW w \in Workers, Dies(w)
  PROVE  wpc' \in [Workers -> WorkerPCs] /\ last' \in [Workers -> Seq(Items)]
BY DEF TypeOK, Dies, WorkerTo, WorkerPCs

\* Every step keeps the types.
LEMMA TypeStep ==
  TypeOK /\ CarryInv /\ [Next]_vars => TypeOK'
<1> SUFFICES ASSUME TypeOK, CarryInv, [Next]_vars PROVE TypeOK'
  OBVIOUS
<1> USE LimitsAssumption, SizeAssumption, ThreadAssumption
    DEF queueVars, workerVars, callerVars, stopVars, historyVars
<1> USE DEF Threads, Fates, CallerPCs, WorkerPCs
<1>1. ASSUME NEW c \in Callers, NEW i \in Items, SendMsg(c, i) PROVE TypeOK'
  BY <1>1 DEF SendMsg, CallerTo, TypeOK
<1>2. ASSUME NEW c \in Callers, TestAlive(c) PROVE TypeOK'
  BY <1>2 DEF TestAlive, CallerTo, TypeOK
<1>3. ASSUME NEW c \in Callers, StartThread(c) PROVE TypeOK'
  BY <1>3 DEF StartThread, CallerTo, TypeOK
<1>4. ASSUME NEW c \in Callers, PushMsg(c) PROVE TypeOK'
  <2>1. CASE Alive
    BY <1>4, <2>1 DEF PushMsg, CallerTo, Return, TypeOK
  <2>2. CASE ~(Alive)
    BY <1>4, <2>2 DEF PushMsg, CallerTo, Return, TypeOK
  <2>3. QED
    BY <2>1, <2>2
<1>5. ASSUME NEW c \in Callers, PushAppend(c) PROVE TypeOK'
  BY <1>5 DEF PushAppend, CallerTo, CarryInv, TypeOK
<1>6. ASSUME NEW c \in Callers, PushCount(c) PROVE TypeOK'
  BY <1>6 DEF PushCount, CallerTo, Return, NotifyAll, TypeOK
<1>7. ASSUME NEW w \in Workers, BeginThread(w) PROVE TypeOK'
  BY <1>7 DEF BeginThread, WorkerTo, TypeOK
<1>8. ASSUME NEW w \in Workers, CloseFirst(w) PROVE TypeOK'
  BY <1>8 DEF CloseFirst, WorkerTo, TypeOK
<1>9. ASSUME NEW w \in Workers, OpenSucceeds(w) PROVE TypeOK'
  BY <1>9 DEF OpenSucceeds, WorkerTo, TypeOK
<1>10. ASSUME NEW w \in Workers, OpenFails(w) PROVE TypeOK'
  <2>1. tries' \in [Workers -> 0..MaxTry]
    <3>1. tries[w] \in 0..MaxTry /\ MaxTry \in Nat
      BY DEF TypeOK
    <3>2. PICK t \in 0..MaxTry : tries' = [tries EXCEPT ![w] = t]
      <4>1. CASE tries[w] + 1 < MaxTry
        <5>1. tries[w] + 1 \in 0..MaxTry
          BY <3>1, <4>1
        <5>2. QED
          BY <1>10, <4>1, <5>1 DEF OpenFails
      <4>2. CASE ~(tries[w] + 1 < MaxTry)
        BY <1>10, <4>2 DEF OpenFails
      <4>3. QED
        BY <4>1, <4>2
    <3>3. QED
      BY <3>2 DEF TypeOK
  <2>2. wpc' \in [Workers -> WorkerPCs]
    <3>1. wpc' = wpc \/ \E pc \in WorkerPCs : wpc' = [wpc EXCEPT ![w] = pc]
      BY <1>10 DEF OpenFails, WorkerTo
    <3>2. QED
      BY <3>1 DEF TypeOK
  <2>3. QED
    BY <1>10, <2>1, <2>2 DEF OpenFails, TypeOK
<1>11. ASSUME NEW w \in Workers, TestChannel(w) PROVE TypeOK'
  <2>1. CASE channel
    BY <1>11, <2>1 DEF TestChannel, WorkerTo, TypeOK
  <2>2. CASE ~channel
    BY <1>11, <2>2, DeadTypes DEF TestChannel, TypeOK
  <2>3. QED
    BY <2>1, <2>2
<1>12. ASSUME NEW w \in Workers, TestInner(w) PROVE TypeOK'
  BY <1>12 DEF TestInner, WorkerTo, TypeOK
<1>13. ASSUME NEW w \in Workers, LeaveLoop(w) PROVE TypeOK'
  <2>1. wpc' \in [Workers -> WorkerPCs] /\ last' \in [Workers -> Seq(Items)]
    <3>1. CASE channel /\ last[w] # <<>>
      BY <1>13, <3>1 DEF LeaveLoop, WorkerTo, TypeOK
    <3>2. CASE ~channel \/ last[w] = <<>>
      BY <1>13, <3>2, DeadTypes DEF LeaveLoop
    <3>3. QED
      BY <3>1, <3>2
  <2>2. resent' \subseteq Items
    BY <1>13 DEF LeaveLoop, Elems, TypeOK
  <2>3. QED
    BY <1>13, <2>1, <2>2 DEF LeaveLoop, TypeOK
<1>14. ASSUME NEW w \in Workers, WaitForWork(w) PROVE TypeOK'
  BY <1>14 DEF WaitForWork, WorkerTo, TypeOK
<1>15. ASSUME NEW w \in Workers, WakeUp(w) PROVE TypeOK'
  BY <1>15 DEF WakeUp, WorkerTo, TypeOK
<1>16. ASSUME NEW w \in Workers, TakeHead(w) PROVE TypeOK'
  <2>1. sendQueue \in Seq(Items) /\ sendQueue # <<>>
    BY <1>16 DEF TakeHead, TypeOK
  <2>2. /\ Head(sendQueue) \in Items
        /\ Tail(sendQueue) \in Seq(Items)
        /\ Len(Tail(sendQueue)) = Len(sendQueue) - 1
        /\ Len(sendQueue) \in Nat
    BY <2>1, HeadTailProperties
  <2>3. batch' \in [Workers -> Seq(Items)]
    BY <1>16, <2>2 DEF TakeHead, TypeOK
  <2>4. room' \in [Workers -> Int]
    <3>1. MaxBlob - SizeOf(Head(sendQueue)) - 4 \in Int
      BY <2>2
    <3>2. QED
      BY <1>16, <3>1, Zenon DEF TakeHead, TypeOK
  <2>5. wpc' \in [Workers -> WorkerPCs]
    BY <1>16 DEF TakeHead, WorkerTo, TypeOK
  <2>6. QED
    BY <1>16, <2>2, <2>3, <2>4, <2>5 DEF TakeHead, TypeOK
<1>17. ASSUME NEW w \in Workers, CountHead(w) PROVE TypeOK'
  BY <1>17 DEF CountHead, WorkerTo, NotifyAll, TypeOK
<1>18. ASSUME NEW w \in Workers, FetchMate(w) PROVE TypeOK'
  <2>1. PICK n \in DOMAIN sendQueue :
          /\ batch' = [batch EXCEPT ![w] = Append(@, sendQueue[n])]
          /\ room' = [room EXCEPT ![w] = @ - (SizeOf(sendQueue[n]) + 4)]
          /\ sendQueue' = RemoveIndex(sendQueue, n)
    BY <1>18 DEF FetchMate
  <2>2. sendQueue \in Seq(Items)
    BY DEF TypeOK
  <2>3. /\ sendQueue[n] \in Items
        /\ sendQueue' \in Seq(Items)
        /\ Len(sendQueue') = Len(sendQueue) - 1
        /\ Len(sendQueue) # 0 /\ Len(sendQueue') \in Nat
    BY <2>1, <2>2, RemoveIndexProperties
  <2>4. batch' \in [Workers -> Seq(Items)]
    BY <2>1, <2>3 DEF TypeOK
  <2>5. room' \in [Workers -> Int]
    <3>1. room[w] - (SizeOf(sendQueue[n]) + 4) \in Int
      BY <2>3 DEF TypeOK
    <3>2. QED
      BY <2>1, <3>1 DEF TypeOK
  <2>6. qCount' \in Int
    BY <1>18 DEF FetchMate, CountMate, TypeOK
  <2>7. QED
    BY <1>18, <2>3, <2>4, <2>5, <2>6 DEF FetchMate, TypeOK
<1>19. ASSUME NEW w \in Workers, FetchEnds(w) PROVE TypeOK'
  BY <1>19 DEF FetchEnds, WorkerTo, TypeOK
<1>20. ASSUME NEW w \in Workers, TestChannelAgain(w) PROVE TypeOK'
  <2>1. CASE channel
    <3>1. wpc' \in [Workers -> WorkerPCs]
      BY <1>20, <2>1 DEF TestChannelAgain, WorkerTo, TypeOK
    <3>2. QED
      BY <1>20, <2>1, <3>1 DEF TestChannelAgain, TypeOK
  <2>2. CASE ~channel
    <3>1. wpc' \in [Workers -> WorkerPCs] /\ last' \in [Workers -> Seq(Items)]
      BY <1>20, <2>2, DeadTypes DEF TestChannelAgain
    <3>2. Settle(w, "lost") /\ "lost" \in Fates
      BY <1>20, <2>2 DEF TestChannelAgain
    <3>3. /\ fate' \in [Items -> Fates] /\ batch' \in [Workers -> Seq(Items)]
          /\ room' \in [Workers -> Int] /\ tries' \in [Workers -> 0..MaxTry]
      BY <3>2, SettleTypes
    <3>4. QED
      BY <1>20, <2>2, <3>1, <3>3 DEF TestChannelAgain, TypeOK
  <2>3. QED
    BY <2>1, <2>2
<1>21. ASSUME NEW w \in Workers, SendSucceeds(w) PROVE TypeOK'
  <2>1. wpc' \in [Workers -> WorkerPCs] /\ last' \in [Workers -> Seq(Items)]
    BY <1>21, MsgListType DEF SendSucceeds, WorkerTo, TypeOK
  <2>2. Settle(w, "sent") /\ "sent" \in Fates
    BY <1>21 DEF SendSucceeds
  <2>3. /\ fate' \in [Items -> Fates] /\ batch' \in [Workers -> Seq(Items)]
        /\ room' \in [Workers -> Int] /\ tries' \in [Workers -> 0..MaxTry]
    BY <2>2, SettleTypes
  <2>4. posted' \in Seq(Seq(Items))
    BY <1>21, MsgListType DEF SendSucceeds, TypeOK
  <2>5. QED
    BY <1>21, <2>1, <2>3, <2>4 DEF SendSucceeds, TypeOK
<1>22. ASSUME NEW w \in Workers, SendFails(w) PROVE TypeOK'
  <2>1. Append(posted, MsgList(w)) \in Seq(Seq(Items))
    BY MsgListType DEF TypeOK
  <2>2. posted' \in Seq(Seq(Items))
    BY <1>22, <2>1 DEF SendFails, TypeOK
  <2>3. tries' \in [Workers -> 0..MaxTry]
    BY <1>22 DEF SendFails, MayTry, TypeOK
  <2>4. QED
    BY <1>22, <2>2, <2>3 DEF SendFails, TypeOK
<1>23. ASSUME NEW w \in Workers, GiveUp(w) PROVE TypeOK'
  <2>1. wpc' \in [Workers -> WorkerPCs] /\ last' \in [Workers -> Seq(Items)]
    BY <1>23, MsgListType DEF GiveUp, WorkerTo, TypeOK
  <2>2. Settle(w, "failed") /\ "failed" \in Fates
    BY <1>23 DEF GiveUp
  <2>3. /\ fate' \in [Items -> Fates] /\ batch' \in [Workers -> Seq(Items)]
        /\ room' \in [Workers -> Int] /\ tries' \in [Workers -> 0..MaxTry]
    BY <2>2, SettleTypes
  <2>4. posted' \in Seq(Seq(Items))
    BY <1>23 DEF GiveUp, TypeOK
  <2>5. QED
    BY <1>23, <2>1, <2>3, <2>4 DEF GiveUp, TypeOK
<1>24. ASSUME ShutdownFlush PROVE TypeOK'
  BY <1>24 DEF ShutdownFlush, NotifyAll, TypeOK
<1>25. ASSUME ShutdownFlag PROVE TypeOK'
  BY <1>25 DEF ShutdownFlag, TypeOK
<1>26. ASSUME ShutdownClose PROVE TypeOK'
  BY <1>26 DEF ShutdownClose, TypeOK
<1>27. CASE UNCHANGED vars
  BY <1>27 DEF vars, TypeOK
<1>28. QED
  BY <1>1, <1>2, <1>3, <1>4, <1>5, <1>6, <1>7, <1>8, <1>9, <1>10, <1>11, <1>12, <1>13, <1>14, <1>15,
     <1>16, <1>17, <1>18, <1>19, <1>20, <1>21, <1>22, <1>23, <1>24, <1>25, <1>26, <1>27
     DEF Next, PushNext, WorkerNext, ShutdownNext

\* Every step keeps the discipline of the lock, and the callers' messages.
LEMMA LockStep ==
  TypeOK /\ LockInv /\ CarryInv /\ [Next]_vars => (LockInv /\ CarryInv)'
<1> SUFFICES ASSUME TypeOK, LockInv, CarryInv, [Next]_vars PROVE (LockInv /\ CarryInv)'
  OBVIOUS
<1> USE LimitsAssumption, SizeAssumption, ThreadAssumption
    DEF queueVars, workerVars, callerVars, stopVars, historyVars
<1>1. ASSUME NEW c \in Callers, NEW i \in Items, SendMsg(c, i) PROVE (LockInv /\ CarryInv)'
  BY <1>1 DEF SendMsg, CallerTo, TypeOK, LockInv, CarryInv, Threads
<1>2. ASSUME NEW c \in Callers, TestAlive(c) PROVE (LockInv /\ CarryInv)'
  BY <1>2 DEF TestAlive, CallerTo, TypeOK, LockInv, CarryInv, Threads
<1>3. ASSUME NEW c \in Callers, StartThread(c) PROVE (LockInv /\ CarryInv)'
  BY <1>3 DEF StartThread, CallerTo, TypeOK, LockInv, CarryInv, Threads
<1>4. ASSUME NEW c \in Callers, PushMsg(c) PROVE (LockInv /\ CarryInv)'
  <2>1. CASE Alive
    BY <1>4, <2>1 DEF PushMsg, CallerTo, TypeOK, LockInv, CarryInv, Threads
  <2>2. CASE ~Alive
    <3>1. /\ cpc[c] = "push" /\ UNCHANGED <<holder, wpc>>
          /\ cpc' = [cpc EXCEPT ![c] = "idle"] /\ citem' = [citem EXCEPT ![c] = None]
      BY <1>4, <2>2 DEF PushMsg, CallerTo, Return
    <3>2. cpc \in [Callers -> CallerPCs] /\ citem \in [Callers -> Items \union {None}]
      BY DEF TypeOK
    <3>3. QED
      BY <3>1, <3>2 DEF LockInv, CarryInv
  <2>3. QED
    BY <2>1, <2>2
<1>5. ASSUME NEW c \in Callers, PushAppend(c) PROVE (LockInv /\ CarryInv)'
  BY <1>5 DEF PushAppend, CallerTo, TypeOK, LockInv, CarryInv, Threads
<1>6. ASSUME NEW c \in Callers, PushCount(c) PROVE (LockInv /\ CarryInv)'
  BY <1>6 DEF PushCount, CallerTo, Return, NotifyAll, TypeOK, LockInv, CarryInv, Threads
<1>7. ASSUME NEW w \in Workers, BeginThread(w) PROVE (LockInv /\ CarryInv)'
  BY <1>7 DEF BeginThread, WorkerTo, TypeOK, LockInv, CarryInv, Threads
<1>8. ASSUME NEW w \in Workers, CloseFirst(w) PROVE (LockInv /\ CarryInv)'
  BY <1>8 DEF CloseFirst, WorkerTo, TypeOK, LockInv, CarryInv, Threads
<1>9. ASSUME NEW w \in Workers, OpenSucceeds(w) PROVE (LockInv /\ CarryInv)'
  BY <1>9 DEF OpenSucceeds, WorkerTo, TypeOK, LockInv, CarryInv, Threads
<1>10. ASSUME NEW w \in Workers, OpenFails(w) PROVE (LockInv /\ CarryInv)'
  BY <1>10 DEF OpenFails, WorkerTo, TypeOK, LockInv, CarryInv, Threads
<1>11. ASSUME NEW w \in Workers, TestChannel(w) PROVE (LockInv /\ CarryInv)'
  BY <1>11 DEF TestChannel, Dies, WorkerTo, TypeOK, LockInv, CarryInv, Threads
<1>12. ASSUME NEW w \in Workers, TestInner(w) PROVE (LockInv /\ CarryInv)'
  BY <1>12 DEF TestInner, WorkerTo, TypeOK, LockInv, CarryInv, Threads
<1>13. ASSUME NEW w \in Workers, LeaveLoop(w) PROVE (LockInv /\ CarryInv)'
  BY <1>13 DEF LeaveLoop, Dies, WorkerTo, TypeOK, LockInv, CarryInv, Threads
<1>14. ASSUME NEW w \in Workers, WaitForWork(w) PROVE (LockInv /\ CarryInv)'
  BY <1>14 DEF WaitForWork, WorkerTo, TypeOK, LockInv, CarryInv, Threads
<1>15. ASSUME NEW w \in Workers, WakeUp(w) PROVE (LockInv /\ CarryInv)'
  BY <1>15 DEF WakeUp, WorkerTo, TypeOK, LockInv, CarryInv, Threads
<1>16. ASSUME NEW w \in Workers, TakeHead(w) PROVE (LockInv /\ CarryInv)'
  BY <1>16 DEF TakeHead, WorkerTo, TypeOK, LockInv, CarryInv, Threads
<1>17. ASSUME NEW w \in Workers, CountHead(w) PROVE (LockInv /\ CarryInv)'
  BY <1>17 DEF CountHead, WorkerTo, NotifyAll, TypeOK, LockInv, CarryInv, Threads
<1>18. ASSUME NEW w \in Workers, FetchMate(w) PROVE (LockInv /\ CarryInv)'
  BY <1>18 DEF FetchMate, WorkerTo, CountMate, TypeOK, LockInv, CarryInv, Threads
<1>19. ASSUME NEW w \in Workers, FetchEnds(w) PROVE (LockInv /\ CarryInv)'
  BY <1>19 DEF FetchEnds, WorkerTo, TypeOK, LockInv, CarryInv, Threads
<1>20. ASSUME NEW w \in Workers, TestChannelAgain(w) PROVE (LockInv /\ CarryInv)'
  BY <1>20 DEF TestChannelAgain, Dies, WorkerTo, Settle, TypeOK, LockInv, CarryInv, Threads
<1>21. ASSUME NEW w \in Workers, SendSucceeds(w) PROVE (LockInv /\ CarryInv)'
  BY <1>21 DEF SendSucceeds, WorkerTo, Settle, TypeOK, LockInv, CarryInv, Threads
<1>22. ASSUME NEW w \in Workers, SendFails(w) PROVE (LockInv /\ CarryInv)'
  BY <1>22 DEF SendFails, WorkerTo, TypeOK, LockInv, CarryInv, Threads
<1>23. ASSUME NEW w \in Workers, GiveUp(w) PROVE (LockInv /\ CarryInv)'
  BY <1>23 DEF GiveUp, WorkerTo, Settle, TypeOK, LockInv, CarryInv, Threads
<1>24. ASSUME ShutdownFlush PROVE (LockInv /\ CarryInv)'
  BY <1>24 DEF ShutdownFlush, NotifyAll, TypeOK, LockInv, CarryInv, Threads
<1>25. ASSUME ShutdownFlag PROVE (LockInv /\ CarryInv)'
  BY <1>25 DEF ShutdownFlag, TypeOK, LockInv, CarryInv, Threads
<1>26. ASSUME ShutdownClose PROVE (LockInv /\ CarryInv)'
  BY <1>26 DEF ShutdownClose, TypeOK, LockInv, CarryInv, Threads
<1>27. CASE UNCHANGED vars
  BY <1>27 DEF vars, TypeOK, LockInv, CarryInv, Threads
<1>28. QED
  BY <1>1, <1>2, <1>3, <1>4, <1>5, <1>6, <1>7, <1>8, <1>9, <1>10, <1>11, <1>12, <1>13, <1>14, <1>15,
     <1>16, <1>17, <1>18, <1>19, <1>20, <1>21, <1>22, <1>23, <1>24, <1>25, <1>26, <1>27
     DEF Next, PushNext, WorkerNext, ShutdownNext

\* Every step keeps the count in step with the queue, and no sleeper beside work.
LEMMA CountStep ==
  TypeOK /\ LockInv /\ CountTracksQueue /\ NoSleepOnWork /\ [Next]_vars
    => (CountTracksQueue /\ NoSleepOnWork)'
<1> SUFFICES ASSUME TypeOK, LockInv, CountTracksQueue, NoSleepOnWork, [Next]_vars
             PROVE  (CountTracksQueue /\ NoSleepOnWork)'
  OBVIOUS
<1> USE LimitsAssumption, SizeAssumption, ThreadAssumption
    DEF queueVars, workerVars, callerVars, stopVars, historyVars
<1>1. ASSUME NEW c \in Callers, NEW i \in Items, SendMsg(c, i) PROVE (CountTracksQueue /\ NoSleepOnWork)'
  BY <1>1 DEF SendMsg, CallerTo, TypeOK, LockInv, CountTracksQueue, NoSleepOnWork, Threads
<1>2. ASSUME NEW c \in Callers, TestAlive(c) PROVE (CountTracksQueue /\ NoSleepOnWork)'
  BY <1>2 DEF TestAlive, CallerTo, TypeOK, LockInv, CountTracksQueue, NoSleepOnWork, Threads
<1>3. ASSUME NEW c \in Callers, StartThread(c) PROVE (CountTracksQueue /\ NoSleepOnWork)'
  BY <1>3 DEF StartThread, CallerTo, TypeOK, LockInv, CountTracksQueue, NoSleepOnWork,
     Threads
<1>4. ASSUME NEW c \in Callers, PushMsg(c) PROVE (CountTracksQueue /\ NoSleepOnWork)'
  BY <1>4 DEF PushMsg, CallerTo, Return, TypeOK, LockInv, CountTracksQueue, NoSleepOnWork,
     Threads
<1>5. ASSUME NEW c \in Callers, PushAppend(c) PROVE (CountTracksQueue /\ NoSleepOnWork)'
  BY <1>5 DEF PushAppend, CallerTo, TypeOK, LockInv, CountTracksQueue, NoSleepOnWork,
     Threads
<1>6. ASSUME NEW c \in Callers, PushCount(c) PROVE (CountTracksQueue /\ NoSleepOnWork)'
  BY <1>6 DEF PushCount, CallerTo, Return, NotifyAll, TypeOK, LockInv, CountTracksQueue,
     NoSleepOnWork, Threads
<1>7. ASSUME NEW w \in Workers, BeginThread(w) PROVE (CountTracksQueue /\ NoSleepOnWork)'
  BY <1>7 DEF BeginThread, WorkerTo, TypeOK, LockInv, CountTracksQueue, NoSleepOnWork,
     Threads
<1>8. ASSUME NEW w \in Workers, CloseFirst(w) PROVE (CountTracksQueue /\ NoSleepOnWork)'
  BY <1>8 DEF CloseFirst, WorkerTo, TypeOK, LockInv, CountTracksQueue,
     NoSleepOnWork, Threads
<1>9. ASSUME NEW w \in Workers, OpenSucceeds(w) PROVE (CountTracksQueue /\ NoSleepOnWork)'
  BY <1>9 DEF OpenSucceeds, WorkerTo, TypeOK, LockInv, CountTracksQueue, NoSleepOnWork,
     Threads
<1>10. ASSUME NEW w \in Workers, OpenFails(w) PROVE (CountTracksQueue /\ NoSleepOnWork)'
  BY <1>10 DEF OpenFails, WorkerTo, TypeOK, LockInv, CountTracksQueue, NoSleepOnWork, Threads
<1>11. ASSUME NEW w \in Workers, TestChannel(w) PROVE (CountTracksQueue /\ NoSleepOnWork)'
  BY <1>11 DEF TestChannel, Dies, WorkerTo, TypeOK, LockInv, CountTracksQueue, NoSleepOnWork,
     Threads
<1>12. ASSUME NEW w \in Workers, TestInner(w) PROVE (CountTracksQueue /\ NoSleepOnWork)'
  BY <1>12 DEF TestInner, WorkerTo, TypeOK, LockInv, CountTracksQueue,
     NoSleepOnWork, Threads
<1>13. ASSUME NEW w \in Workers, LeaveLoop(w) PROVE (CountTracksQueue /\ NoSleepOnWork)'
  BY <1>13 DEF LeaveLoop, Dies, WorkerTo, TypeOK, LockInv, CountTracksQueue,
     NoSleepOnWork, Threads
<1>14. ASSUME NEW w \in Workers, WaitForWork(w) PROVE (CountTracksQueue /\ NoSleepOnWork)'
  BY <1>14 DEF WaitForWork, WorkerTo, TypeOK, LockInv, CountTracksQueue, NoSleepOnWork,
     Threads
<1>15. ASSUME NEW w \in Workers, WakeUp(w) PROVE (CountTracksQueue /\ NoSleepOnWork)'
  BY <1>15 DEF WakeUp, WorkerTo, TypeOK, LockInv, CountTracksQueue, NoSleepOnWork, Threads
<1>16. ASSUME NEW w \in Workers, TakeHead(w) PROVE (CountTracksQueue /\ NoSleepOnWork)'
  <2>1. sendQueue \in Seq(Items) /\ sendQueue # <<>>
    BY <1>16 DEF TakeHead, TypeOK
  <2>2. /\ Head(sendQueue) \in Items
        /\ Tail(sendQueue) \in Seq(Items)
        /\ Len(Tail(sendQueue)) = Len(sendQueue) - 1
        /\ Len(sendQueue) \in Nat
    BY <2>1, HeadTailProperties
  <2>3. qCount = Len(sendQueue) /\ waiters \intersect Workers = {}
    BY <1>16, <2>1 DEF TakeHead, TypeOK, CountTracksQueue, NoSleepOnWork
  <2>4. /\ holder' = w /\ wpc'[w] = "popped" /\ qCount' = Len(sendQueue') + 1
        /\ Len(sendQueue') \in Nat /\ waiters' = waiters
    BY <1>16, <2>2, <2>3 DEF TakeHead, WorkerTo, TypeOK
  <2>5. QED
    BY <2>3, <2>4 DEF CountTracksQueue, NoSleepOnWork
<1>17. ASSUME NEW w \in Workers, CountHead(w) PROVE (CountTracksQueue /\ NoSleepOnWork)'
  BY <1>17 DEF CountHead, WorkerTo, NotifyAll, TypeOK, LockInv, CountTracksQueue,
     NoSleepOnWork, Threads
<1>18. ASSUME NEW w \in Workers, FetchMate(w) PROVE (CountTracksQueue /\ NoSleepOnWork)'
  <2>1. PICK n \in DOMAIN sendQueue :
          /\ batch' = [batch EXCEPT ![w] = Append(@, sendQueue[n])]
          /\ room' = [room EXCEPT ![w] = @ - (SizeOf(sendQueue[n]) + 4)]
          /\ sendQueue' = RemoveIndex(sendQueue, n)
    BY <1>18 DEF FetchMate
  <2>2. sendQueue \in Seq(Items)
    BY DEF TypeOK
  <2>3. /\ sendQueue[n] \in Items
        /\ sendQueue' \in Seq(Items)
        /\ Len(sendQueue') = Len(sendQueue) - 1
        /\ Len(sendQueue) # 0 /\ Len(sendQueue') \in Nat
    BY <2>1, <2>2, RemoveIndexProperties
  <2>4. holder = w /\ qCount = Len(sendQueue) /\ waiters \intersect Workers = {}
    <3>1. wpc[w] = "fetch" /\ holder = w /\ w \notin Callers
      BY <1>18 DEF FetchMate, LockInv
    <3>2. qCount = Len(sendQueue)
      BY <2>3, <3>1 DEF CountTracksQueue, TypeOK
    <3>3. sendQueue # <<>>
      BY <2>3
    <3>4. QED
      BY <3>1, <3>2, <3>3 DEF NoSleepOnWork
  <2>5. /\ holder' = w /\ wpc'[w] = "fetch" /\ qCount' = Len(sendQueue')
        /\ Len(sendQueue') \in Nat /\ waiters' = waiters
    BY <1>18, <2>3, <2>4 DEF FetchMate, CountMate
  <2>6. QED
    BY <2>4, <2>5 DEF CountTracksQueue, NoSleepOnWork
<1>19. ASSUME NEW w \in Workers, FetchEnds(w) PROVE (CountTracksQueue /\ NoSleepOnWork)'
  BY <1>19 DEF FetchEnds, WorkerTo, TypeOK, LockInv, CountTracksQueue, NoSleepOnWork,
     Threads
<1>20. ASSUME NEW w \in Workers, TestChannelAgain(w) PROVE (CountTracksQueue /\ NoSleepOnWork)'
  BY <1>20 DEF TestChannelAgain, Dies, WorkerTo, Settle, TypeOK, LockInv, CountTracksQueue,
     NoSleepOnWork, Threads
<1>21. ASSUME NEW w \in Workers, SendSucceeds(w) PROVE (CountTracksQueue /\ NoSleepOnWork)'
  BY <1>21 DEF SendSucceeds, WorkerTo, Settle, TypeOK, LockInv, CountTracksQueue,
     NoSleepOnWork, Threads
<1>22. ASSUME NEW w \in Workers, SendFails(w) PROVE (CountTracksQueue /\ NoSleepOnWork)'
  BY <1>22 DEF SendFails, WorkerTo, TypeOK, LockInv, CountTracksQueue, NoSleepOnWork,
     Threads
<1>23. ASSUME NEW w \in Workers, GiveUp(w) PROVE (CountTracksQueue /\ NoSleepOnWork)'
  BY <1>23 DEF GiveUp, WorkerTo, Settle, TypeOK, LockInv, CountTracksQueue, NoSleepOnWork,
     Threads
<1>24. ASSUME ShutdownFlush PROVE (CountTracksQueue /\ NoSleepOnWork)'
  BY <1>24 DEF ShutdownFlush, NotifyAll, TypeOK, LockInv, CountTracksQueue, NoSleepOnWork,
     Threads
<1>25. ASSUME ShutdownFlag PROVE (CountTracksQueue /\ NoSleepOnWork)'
  BY <1>25 DEF ShutdownFlag, TypeOK, LockInv, CountTracksQueue, NoSleepOnWork, Threads
<1>26. ASSUME ShutdownClose PROVE (CountTracksQueue /\ NoSleepOnWork)'
  BY <1>26 DEF ShutdownClose, TypeOK, LockInv, CountTracksQueue, NoSleepOnWork, Threads
<1>27. CASE UNCHANGED vars
  BY <1>27 DEF vars, TypeOK, LockInv, CountTracksQueue, NoSleepOnWork, Threads
<1>28. QED
  BY <1>1, <1>2, <1>3, <1>4, <1>5, <1>6, <1>7, <1>8, <1>9, <1>10, <1>11, <1>12, <1>13, <1>14, <1>15,
     <1>16, <1>17, <1>18, <1>19, <1>20, <1>21, <1>22, <1>23, <1>24, <1>25, <1>26, <1>27
     DEF Next, PushNext, WorkerNext, ShutdownNext

\* The inductive invariant holds in every reachable state.
THEOREM Invariance == Spec => []IInv
<1>1. IInv /\ [Next]_vars => IInv'
  BY TypeStep, LockStep, CountStep DEF IInv
<1>2. QED
  BY <1>1, InitIInv, PTL DEF Spec

\* Type correctness, for any messages, threads and limits.
THEOREM TypeCorrect == Spec => []TypeOK
<1>1. IInv => TypeOK
  BY DEF IInv
<1>2. QED
  BY <1>1, Invariance, PTL

\* What queueCount() returns, read outside the lock by MessageSender, follows the length of the
\* queue, however many callers push and incarnations of the thread drain it.
THEOREM CountCorrect == Spec => []CountTracksQueue
<1>1. IInv => CountTracksQueue
  BY DEF IInv
<1>2. QED
  BY <1>1, Invariance, PTL

\* No caller's notify is missed by a sleeping incarnation of the thread.
THEOREM NoLostWakeup == Spec => []NoSleepOnWork
<1>1. IInv => NoSleepOnWork
  BY DEF IInv
<1>2. QED
  BY <1>1, Invariance, PTL

-----------------------------------------------------------------------------
(* A message the Pusher accepted is in one place until it is settled *)

\* An incarnation has messages only from the pop to the end of its attempts.
BatchInv ==
  \A w \in Workers : wpc[w] \notin {"popped", "fetch", "check", "try"} => batch[w] = <<>>

Pushing(c) == cpc[c] \in {"ensure", "start", "push", "append"}

\* What a caller has yet to append is new, and no other caller's.
PushInv ==
  /\ \A c \in Callers : Pushing(c) => fate[citem[c]] = "new"
  /\ \A c, d \in Callers : Pushing(c) /\ Pushing(d) /\ citem[c] = citem[d] => c = d

FInv == BatchInv /\ PushInv /\ NothingVanishes

-----------------------------------------------------------------------------
(* The elements of a sequence *)

LEMMA RemoveElems ==
  ASSUME NEW S, NEW s \in Seq(S), NEW n \in DOMAIN s, Distinct(s)
  PROVE  /\ Elems(RemoveIndex(s, n)) = Elems(s) \ {s[n]}
         /\ Distinct(RemoveIndex(s, n))
<1> DEFINE t == RemoveIndex(s, n)
<1>1. Len(s) \in Nat \ {0} /\ DOMAIN s = 1..Len(s)
  OBVIOUS
<1>2. /\ DOMAIN t = 1..(Len(s) - 1)
      /\ \A m \in 1..(Len(s) - 1) : t[m] = IF m < n THEN s[m] ELSE s[m + 1]
  <2>1. /\ t \in Seq(S) /\ Len(t) = Len(s) - 1
        /\ \A m \in 1..(Len(s) - 1) : t[m] = IF m < n THEN s[m] ELSE s[m + 1]
    BY RemoveIndexProperties
  <2> HIDE DEF t
  <2>2. DOMAIN t = 1..Len(t)
    BY <2>1
  <2>3. QED
    BY <2>1, <2>2
<1> HIDE DEF t
<1>3. Elems(t) \subseteq Elems(s) \ {s[n]}
  BY <1>1, <1>2 DEF Elems, Distinct
<1>4. ASSUME NEW x \in Elems(s) \ {s[n]} PROVE x \in Elems(t)
  <2>1. PICK m \in 1..Len(s) : x = s[m]
    BY <1>1 DEF Elems
  <2>2. m # n
    BY <1>4, <2>1
  <2>3. CASE m < n
    BY <1>1, <1>2, <2>1, <2>3 DEF Elems
  <2>4. CASE m > n
    <3>1. m - 1 \in 1..(Len(s) - 1) /\ t[m - 1] = x
      BY <1>1, <1>2, <2>1, <2>4
    <3>2. QED
      BY <1>2, <3>1 DEF Elems
  <2>5. QED
    BY <1>1, <2>2, <2>3, <2>4
<1>5. ASSUME NEW k \in DOMAIN t, NEW m \in DOMAIN t, t[k] = t[m] PROVE k = m
  <2> DEFINE at(j) == IF j < n THEN j ELSE j + 1
  <2>1. at(k) \in DOMAIN s /\ t[k] = s[at(k)] /\ at(m) \in DOMAIN s /\ t[m] = s[at(m)]
    BY <1>1, <1>2
  <2>2. at(k) = at(m)
    BY <1>5, <2>1 DEF Distinct
  <2>3. QED
    BY <1>1, <1>2, <2>2
<1>6. Distinct(t)
  BY <1>5 DEF Distinct
<1>7. QED
  BY <1>3, <1>4, <1>6 DEF t

-----------------------------------------------------------------------------
(* One lemma per way in which a message changes its place *)

LEMMA Vanishing ==
  NothingVanishes <=>
    /\ \A i \in Items : fate[i] = "accepted" <=>
         i \in Elems(sendQueue) \/ \E w \in Workers : i \in Elems(batch[w])
    /\ Distinct(sendQueue)
    /\ \A w \in Workers : Distinct(batch[w])
    /\ \A w \in Workers : Elems(batch[w]) \intersect Elems(sendQueue) = {}
    /\ \A v, w \in Workers : v # w => Elems(batch[v]) \intersect Elems(batch[w]) = {}
BY DEF NothingVanishes, Distinct

\* A caller's message enters the queue.
LEMMA Entering ==
  ASSUME TypeOK, CarryInv, FInv, NEW c \in Callers, PushAppend(c)
  PROVE  NothingVanishes'
<1> DEFINE e == citem[c]
<1>1. e \in Items /\ fate[e] = "new"
  BY DEF PushAppend, CarryInv, FInv, PushInv, Pushing
<1>2. sendQueue' = Append(sendQueue, e) /\ batch' = batch /\ fate' = [fate EXCEPT ![e] = "accepted"]
  BY DEF PushAppend, workerVars
<1>3. sendQueue \in Seq(Items) /\ fate \in [Items -> Fates]
  BY DEF TypeOK
<1> HIDE DEF e
<1>4. e \notin Elems(sendQueue) /\ \A w \in Workers : e \notin Elems(batch[w])
  BY <1>1, Vanishing DEF FInv
<1>5. Elems(sendQueue') = Elems(sendQueue) \union {e} /\ Distinct(sendQueue')
  BY <1>1, <1>2, <1>3, <1>4, AppendElems, Vanishing DEF FInv
<1>6. \A i \in Items : fate'[i] = IF i = e THEN "accepted" ELSE fate[i]
  BY <1>2, <1>3
<1>7. QED
  <2>1. \A i \in Items : fate'[i] = "accepted" <=>
          i \in Elems(sendQueue') \/ \E w \in Workers : i \in Elems(batch'[w])
    BY <1>1, <1>2, <1>5, <1>6, Vanishing DEF FInv
  <2>2. \A w \in Workers : Distinct(batch'[w]) /\ Elems(batch'[w]) \intersect Elems(sendQueue') = {}
    BY <1>2, <1>4, <1>5, Vanishing DEF FInv
  <2>3. \A v, w \in Workers : v # w => Elems(batch'[v]) \intersect Elems(batch'[w]) = {}
    BY <1>2, Vanishing DEF FInv
  <2>4. QED
    BY <1>5, <2>1, <2>2, <2>3 DEF NothingVanishes, Distinct

\* A message goes from the queue to the batch of an incarnation.
LEMMA Moving ==
  ASSUME FInv, batch \in [Workers -> Seq(Items)], NEW w \in Workers, NEW i \in Items, NEW s,
         i \in Elems(sendQueue),
         sendQueue' = s, Elems(s) = Elems(sendQueue) \ {i}, Distinct(s),
         batch' = [batch EXCEPT ![w] = Append(batch[w], i)], fate' = fate
  PROVE  NothingVanishes'
<1>1. \A v \in Workers : i \notin Elems(batch[v])
  BY Vanishing DEF FInv
<1>2. Elems(batch'[w]) = Elems(batch[w]) \union {i} /\ Distinct(batch'[w])
  BY <1>1, AppendElems, Vanishing DEF FInv
<1>3. \A v \in Workers \ {w} : batch'[v] = batch[v]
  OBVIOUS
<1>4. \A j \in Items : fate'[j] = "accepted" <=>
        j \in Elems(sendQueue') \/ \E v \in Workers : j \in Elems(batch'[v])
  BY <1>2, <1>3, Vanishing DEF FInv
<1>5. \A v \in Workers : Distinct(batch'[v]) /\ Elems(batch'[v]) \intersect Elems(sendQueue') = {}
  BY <1>2, <1>3, Vanishing DEF FInv
<1>6. \A u, v \in Workers : u # v => Elems(batch'[u]) \intersect Elems(batch'[v]) = {}
  BY <1>1, <1>2, <1>3, Vanishing DEF FInv
<1>7. QED
  BY <1>4, <1>5, <1>6 DEF NothingVanishes, Distinct

\* A batch is done with.
LEMMA Settling ==
  ASSUME TypeOK, FInv, NEW w \in Workers, NEW outcome \in {"sent", "failed", "lost"},
         Settle(w, outcome), sendQueue' = sendQueue
  PROVE  NothingVanishes'
<1>1. batch \in [Workers -> Seq(Items)]
  BY DEF TypeOK
<1>2. batch' = [batch EXCEPT ![w] = <<>>]
  BY DEF Settle
<1>3. \A i \in Items : fate'[i] = IF i \in Elems(batch[w]) THEN outcome ELSE fate[i]
  BY DEF Settle
<1>4. Elems(batch'[w]) = {} /\ Distinct(batch'[w])
  BY <1>1, <1>2 DEF Elems, Distinct
<1>5. \A v \in Workers \ {w} : batch'[v] = batch[v]
  BY <1>1, <1>2
<1>6. \A i \in Items : fate'[i] = "accepted" <=>
        i \in Elems(sendQueue') \/ \E v \in Workers : i \in Elems(batch'[v])
  BY <1>3, <1>4, <1>5, Vanishing DEF FInv
<1>7. \A v \in Workers : Distinct(batch'[v]) /\ Elems(batch'[v]) \intersect Elems(sendQueue') = {}
  BY <1>4, <1>5, Vanishing DEF FInv
<1>8. \A u, v \in Workers : u # v => Elems(batch'[u]) \intersect Elems(batch'[v]) = {}
  BY <1>4, <1>5, Vanishing DEF FInv
<1>9. QED
  BY <1>6, <1>7, <1>8, Vanishing DEF FInv, NothingVanishes, Distinct

-----------------------------------------------------------------------------

\* The places of the callers and of the incarnations.
LEMMA PlacesStep ==
  TypeOK /\ LockInv /\ CarryInv /\ FInv /\ [Next]_vars => (BatchInv /\ PushInv)'
<1> SUFFICES ASSUME TypeOK, LockInv, CarryInv, FInv, [Next]_vars PROVE (BatchInv /\ PushInv)'
  OBVIOUS
<1> USE LimitsAssumption, SizeAssumption, ThreadAssumption
    DEF queueVars, workerVars, callerVars, stopVars, historyVars, FInv, BatchInv, PushInv, Pushing
<1>1. ASSUME NEW c \in Callers, NEW i \in Items, SendMsg(c, i) PROVE (BatchInv /\ PushInv)'
  BY <1>1 DEF SendMsg, CallerTo, TypeOK
<1>2. ASSUME NEW c \in Callers, TestAlive(c) PROVE (BatchInv /\ PushInv)'
  BY <1>2 DEF TestAlive, CallerTo, TypeOK
<1>3. ASSUME NEW c \in Callers, StartThread(c) PROVE (BatchInv /\ PushInv)'
  BY <1>3 DEF StartThread, CallerTo, TypeOK
<1>4. ASSUME NEW c \in Callers, PushMsg(c) PROVE (BatchInv /\ PushInv)'
  <2>1. UNCHANGED <<wpc, batch, fate>> /\ cpc[c] = "push"
    BY <1>4 DEF PushMsg
  <2>2. \/ cpc' = [cpc EXCEPT ![c] = "append"] /\ citem' = citem
        \/ cpc' = [cpc EXCEPT ![c] = "idle"] /\ citem' = [citem EXCEPT ![c] = None]
    BY <1>4, Zenon DEF PushMsg, CallerTo, Return
  <2>3. CASE cpc' = [cpc EXCEPT ![c] = "append"] /\ citem' = citem
    BY <2>1, <2>3 DEF TypeOK
  <2>4. CASE cpc' = [cpc EXCEPT ![c] = "idle"] /\ citem' = [citem EXCEPT ![c] = None]
    BY <2>1, <2>4 DEF TypeOK
  <2>5. QED
    BY <2>2, <2>3, <2>4
<1>5. ASSUME NEW c \in Callers, PushAppend(c) PROVE (BatchInv /\ PushInv)'
  BY <1>5 DEF PushAppend, CallerTo, CarryInv, TypeOK
<1>6. ASSUME NEW c \in Callers, PushCount(c) PROVE (BatchInv /\ PushInv)'
  BY <1>6 DEF PushCount, CallerTo, Return, TypeOK
<1>7. ASSUME NEW w \in Workers,
             \/ BeginThread(w) \/ CloseFirst(w) \/ OpenSucceeds(w) \/ OpenFails(w)
             \/ TestChannel(w) \/ TestInner(w) \/ WaitForWork(w) \/ WakeUp(w)
             \/ CountHead(w) \/ FetchEnds(w)
      PROVE  (BatchInv /\ PushInv)'
  <2>1. UNCHANGED <<batch, fate, cpc, citem>>
    BY <1>7 DEF BeginThread, CloseFirst, OpenSucceeds, OpenFails, TestChannel, TestInner, WaitForWork,
                WakeUp, CountHead, FetchEnds
  <2>2. \/ wpc' = wpc
        \/ \E pc \in WorkerPCs :
             /\ wpc' = [wpc EXCEPT ![w] = pc]
             /\ wpc[w] \notin {"check", "try"}
             /\ wpc[w] \in {"popped", "fetch"} => pc \in {"fetch", "check"}
             /\ wpc[w] \notin {"popped", "fetch"} => pc \notin {"popped", "fetch", "check", "try"}
    BY <1>7 DEF BeginThread, CloseFirst, OpenSucceeds, OpenFails, TestChannel, TestInner, WaitForWork,
                WakeUp, CountHead, FetchEnds, Dies, WorkerTo, WorkerPCs
  <2>3. QED
    BY <2>1, <2>2 DEF TypeOK
<1>8. ASSUME NEW w \in Workers, LeaveLoop(w) PROVE (BatchInv /\ PushInv)'
  <2>1. UNCHANGED <<batch, fate, cpc, citem>> /\ batch[w] = <<>>
    BY <1>8 DEF LeaveLoop
  <2>2. \E pc \in {"try", "dead"} : wpc' = [wpc EXCEPT ![w] = pc]
    BY <1>8 DEF LeaveLoop, Dies, WorkerTo
  <2>3. QED
    BY <2>1, <2>2 DEF TypeOK
<1>9. ASSUME NEW w \in Workers, TakeHead(w) \/ FetchMate(w) \/ SendFails(w)
      PROVE  (BatchInv /\ PushInv)'
  <2>1. UNCHANGED <<fate, cpc, citem>> /\ \A v \in Workers \ {w} : batch'[v] = batch[v]
    BY <1>9 DEF TakeHead, FetchMate, SendFails, TypeOK
  <2>2. wpc'[w] \in {"popped", "fetch", "try"} /\ \A v \in Workers \ {w} : wpc'[v] = wpc[v]
    BY <1>9 DEF TakeHead, FetchMate, SendFails, WorkerTo, TypeOK
  <2>3. QED
    BY <2>1, <2>2
<1>10. ASSUME NEW w \in Workers, NEW outcome, Settle(w, outcome),
             wpc' = [wpc EXCEPT ![w] = "loop"] \/ wpc' = [wpc EXCEPT ![w] = "dead"],
             UNCHANGED callerVars
      PROVE  (BatchInv /\ PushInv)'
  <2>1. BatchInv'
    BY <1>10 DEF Settle, TypeOK
  <2>2. \A i \in Items : fate[i] = "new" => fate'[i] = "new"
    BY <1>10, Vanishing DEF Settle
  <2>3. QED
    BY <1>10, <2>1, <2>2 DEF CarryInv
<1>11. ASSUME NEW w \in Workers, TestChannelAgain(w) PROVE (BatchInv /\ PushInv)'
  <2>1. CASE channel
    <3>1. wpc[w] = "check" /\ wpc' = [wpc EXCEPT ![w] = "try"]
      BY <1>11, <2>1 DEF TestChannelAgain, WorkerTo
    <3>2. UNCHANGED <<batch, fate, cpc, citem>>
      BY <1>11, <2>1 DEF TestChannelAgain
    <3>3. QED
      BY <3>1, <3>2 DEF TypeOK
  <2>2. CASE ~channel
    BY <1>10, <1>11, <2>2 DEF TestChannelAgain, Dies, WorkerTo
  <2>3. QED
    BY <2>1, <2>2
<1>12. ASSUME NEW w \in Workers, SendSucceeds(w) \/ GiveUp(w) PROVE (BatchInv /\ PushInv)'
  BY <1>10, <1>12 DEF SendSucceeds, GiveUp, WorkerTo
<1>13. CASE ShutdownNext \/ UNCHANGED vars
  BY <1>13 DEF ShutdownNext, ShutdownFlush, ShutdownFlag, ShutdownClose, vars
<1>14. QED
  BY <1>1, <1>2, <1>3, <1>4, <1>5, <1>6, <1>7, <1>8, <1>9, <1>11, <1>12, <1>13
  DEF Next, PushNext, WorkerNext

\* A message leaves its place for the next one only.
LEMMA FateStep ==
  TypeOK /\ CarryInv /\ FInv /\ [Next]_vars => NothingVanishes'
<1> SUFFICES ASSUME TypeOK, CarryInv, FInv, [Next]_vars PROVE NothingVanishes'
  OBVIOUS
<1> USE DEF queueVars, workerVars, callerVars, stopVars, historyVars
<1>1. UNCHANGED <<sendQueue, batch, fate>> => NothingVanishes'
  BY DEF FInv, NothingVanishes
<1>2. ASSUME NEW c \in Callers, NEW i \in Items, SendMsg(c, i) PROVE NothingVanishes'
  BY <1>1, <1>2 DEF SendMsg
<1>3. ASSUME NEW c \in Callers, PushNext(c) PROVE NothingVanishes'
  BY <1>1, <1>3, Entering DEF PushNext, TestAlive, StartThread, PushMsg, PushCount
<1>4. ASSUME NEW w \in Workers,
             \/ BeginThread(w) \/ CloseFirst(w) \/ OpenSucceeds(w) \/ OpenFails(w)
             \/ TestChannel(w) \/ TestInner(w) \/ LeaveLoop(w) \/ WaitForWork(w)
             \/ WakeUp(w) \/ CountHead(w) \/ FetchEnds(w) \/ SendFails(w)
      PROVE  NothingVanishes'
  BY <1>1, <1>4 DEF BeginThread, CloseFirst, OpenSucceeds, OpenFails, TestChannel, TestInner,
                    LeaveLoop, WaitForWork, WakeUp, CountHead, FetchEnds, SendFails
<1>5. ASSUME NEW w \in Workers, TakeHead(w) PROVE NothingVanishes'
  <2>1. /\ sendQueue # <<>> /\ sendQueue' = Tail(sendQueue) /\ fate' = fate
        /\ batch' = [batch EXCEPT ![w] = <<Head(sendQueue)>>]
        /\ batch[w] = <<>>
    BY <1>5 DEF TakeHead, FInv, BatchInv
  <2>2. sendQueue \in Seq(Items) /\ batch \in [Workers -> Seq(Items)] /\ Distinct(sendQueue)
    BY Vanishing DEF TypeOK, FInv
  <2>3. Head(sendQueue) \in Items /\ <<Head(sendQueue)>> = Append(batch[w], Head(sendQueue))
    BY <2>1, <2>2
  <2>4. QED
    BY <2>1, <2>2, <2>3, TailElems, Moving
<1>6. ASSUME NEW w \in Workers, FetchMate(w) PROVE NothingVanishes'
  <2>1. PICK n \in DOMAIN sendQueue :
          /\ batch' = [batch EXCEPT ![w] = Append(@, sendQueue[n])]
          /\ sendQueue' = RemoveIndex(sendQueue, n)
    BY <1>6 DEF FetchMate
  <2>2. fate' = fate
    BY <1>6 DEF FetchMate
  <2>3. sendQueue \in Seq(Items) /\ batch \in [Workers -> Seq(Items)] /\ Distinct(sendQueue)
    BY Vanishing DEF TypeOK, FInv
  <2>4. sendQueue[n] \in Items /\ sendQueue[n] \in Elems(sendQueue)
    BY <2>3 DEF Elems
  <2>5. QED
    BY <2>1, <2>2, <2>3, <2>4, RemoveElems, Moving
<1>7. ASSUME NEW w \in Workers, TestChannelAgain(w) PROVE NothingVanishes'
  BY <1>1, <1>7, Settling DEF TestChannelAgain
<1>8. ASSUME NEW w \in Workers, SendSucceeds(w) \/ GiveUp(w) PROVE NothingVanishes'
  BY <1>8, Settling DEF SendSucceeds, GiveUp
<1>9. CASE ShutdownNext \/ UNCHANGED vars
  BY <1>1, <1>9 DEF ShutdownNext, ShutdownFlush, ShutdownFlag, ShutdownClose, vars
<1>10. QED
  BY <1>2, <1>3, <1>4, <1>5, <1>6, <1>7, <1>8, <1>9 DEF Next, WorkerNext

LEMMA InitFInv == Init => FInv
BY DEF Init, FInv, BatchInv, PushInv, Pushing, NothingVanishes, Elems

\* Every message is in one place in every reachable state.
LEMMA FateInvariance == Spec => []FInv
<1>1. IInv /\ FInv /\ [Next]_vars => FInv'
  BY PlacesStep, FateStep DEF IInv, FInv
<1>2. QED
  BY <1>1, InitFInv, Invariance, PTL DEF Spec

\* A message pushMsg accepted is in the queue or in the batch of one incarnation until it was
\* posted, given up or lost with its thread, however many callers push and incarnations drain
\* (WBPushPullers.py 101-146, 165-234).
THEOREM NothingLost == Spec => []NothingVanishes
<1>1. FInv => NothingVanishes
  BY DEF FInv
<1>2. QED
  BY <1>1, FateInvariance, PTL

-----------------------------------------------------------------------------
(* A batch is within the limits, and in the order of arrival *)

\* The bytes left, the number and the key of the messages of a batch.
RoomFor(w) ==
  /\ wpc[w] \in {"popped", "fetch", "check"} => batch[w] # <<>>
  /\ batch[w] # <<>> => room[w] = MaxBlob - PostSize(batch[w])
  /\ Len(batch[w]) <= MaxCnt
  /\ Len(batch[w]) > 1 => room[w] >= 0
  /\ \A m, n \in DOMAIN batch[w] : KeyOf(batch[w][m]) = KeyOf(batch[w][n])

RoomInv == \A w \in Workers : RoomFor(w)

InOrder(s) == \A m, n \in DOMAIN s : m < n => arrival[s[m]] < arrival[s[n]]

\* The queue is in the order of arrival, and what is still fetched comes after the batch.
OrderInv ==
  /\ \A i \in Items : arrival[i] <= clock
  /\ InOrder(sendQueue)
  /\ \A w \in Workers : InOrder(batch[w])
  /\ \A w \in Workers : wpc[w] \in {"popped", "fetch"} =>
       \A m \in DOMAIN batch[w], n \in DOMAIN sendQueue :
         KeyOf(sendQueue[n]) = KeyOf(batch[w][m]) => arrival[batch[w][m]] < arrival[sendQueue[n]]

BInv == RoomInv /\ OrderInv

LEMMA PostSizes ==
  ASSUME NEW s \in Seq(Items), NEW e \in Items
  PROVE  /\ PostSize(s) \in Int
         /\ PostSize(<<e>>) = SizeOf(e) + 4
         /\ PostSize(Append(s, e)) = PostSize(s) + SizeOf(e) + 4
<1> DEFINE sizes(t) == [n \in DOMAIN t |-> SizeOf(t[n]) + 4]
<1>1. ASSUME NEW t \in Seq(Items) PROVE sizes(t) \in Seq(Int)
  <2>1. DOMAIN t = 1..Len(t) /\ Len(t) \in Nat /\ \A n \in 1..Len(t) : SizeOf(t[n]) + 4 \in Int
    BY SizeAssumption
  <2>2. QED
    BY <2>1
<1>2. ASSUME NEW t \in Seq(Items) PROVE sizes(Append(t, e)) = Append(sizes(t), SizeOf(e) + 4)
  <2>1. /\ Append(t, e) \in Seq(Items) /\ Len(t) \in Nat
        /\ Len(Append(t, e)) = Len(t) + 1 /\ Append(t, e)[Len(t) + 1] = e
        /\ \A n \in 1..Len(t) : Append(t, e)[n] = t[n]
    OBVIOUS
  <2>2. DOMAIN Append(t, e) = 1..Len(t) + 1 /\ DOMAIN t = 1..Len(t)
    BY <2>1
  <2>3. Append(sizes(t), SizeOf(e) + 4)
          = [n \in 1..Len(t) + 1 |-> IF n = Len(t) + 1 THEN SizeOf(e) + 4 ELSE sizes(t)[n]]
    <3> DEFINE z == sizes(t)
    <3>1. z \in Seq(Int) /\ DOMAIN z = 1..Len(t)
      BY <1>1, <2>2
    <3>2. SizeOf(e) + 4 \in Int
      BY SizeAssumption
    <3> HIDE DEF z
    <3>3. Append(z, SizeOf(e) + 4)
            = [n \in 1..Len(t) + 1 |-> IF n = Len(t) + 1 THEN SizeOf(e) + 4 ELSE z[n]]
      BY <3>1, <3>2, <2>1
    <3>4. QED
      BY <3>3 DEF z
  <2>4. ASSUME NEW n \in 1..Len(t) + 1
        PROVE  sizes(Append(t, e))[n] = IF n = Len(t) + 1 THEN SizeOf(e) + 4 ELSE sizes(t)[n]
    BY <2>1, <2>2
  <2>5. QED
    BY <2>2, <2>3, <2>4
<1>3. sizes(<<>>) = <<>> /\ <<>> \in Seq(Items) /\ Append(<<>>, e) = <<e>>
  OBVIOUS
<1>4. SizeOf(e) + 4 \in Int /\ SizeOf(e) \in Int
  BY SizeAssumption
<1> HIDE DEF sizes
<1>5. \A t \in Seq(Items) : PostSize(t) = Total(sizes(t))
  BY DEF PostSize, sizes
<1>6. \A t \in Seq(Items) : PostSize(t) \in Int
  BY <1>1, <1>4, <1>5, TotalOfAppend
<1>7. \A t \in Seq(Items) : PostSize(Append(t, e)) = PostSize(t) + (SizeOf(e) + 4)
  <2>1. ASSUME NEW t \in Seq(Items) PROVE PostSize(Append(t, e)) = PostSize(t) + (SizeOf(e) + 4)
    <3>1. Append(t, e) \in Seq(Items) /\ sizes(Append(t, e)) = Append(sizes(t), SizeOf(e) + 4)
      BY <1>2
    <3>2. Total(Append(sizes(t), SizeOf(e) + 4)) = Total(sizes(t)) + (SizeOf(e) + 4)
      BY <1>1, <1>4, TotalOfAppend
    <3>3. QED
      BY <1>5, <3>1, <3>2
  <2>2. QED
    BY <2>1
<1>8. PostSize(<<>>) = 0
  <2>1. <<>> \in Seq(Int)
    OBVIOUS
  <2>2. PostSize(<<>>) = Total(<<>>)
    BY <1>3, <1>5
  <2>3. QED
    BY <2>1, <2>2, <1>4, TotalOfAppend
<1>9. PostSize(<<e>>) = SizeOf(e) + 4
  <2>1. PostSize(Append(<<>>, e)) = PostSize(<<>>) + (SizeOf(e) + 4)
    BY <1>3, <1>7
  <2>2. PostSize(Append(<<>>, e)) = SizeOf(e) + 4
    BY <2>1, <1>4, <1>8
  <2>3. QED
    BY <2>2, <1>3
<1>10. PostSize(Append(s, e)) = PostSize(s) + SizeOf(e) + 4
  <2>1. PostSize(Append(s, e)) = PostSize(s) + (SizeOf(e) + 4) /\ PostSize(s) \in Int
    BY <1>6, <1>7
  <2>2. QED
    BY <2>1, <1>4
<1>11. QED
  BY <1>6, <1>9, <1>10

\* Joining the batch, or starting it.
LEMMA RoomStep ==
  IInv /\ FInv /\ RoomInv /\ [Next]_vars => RoomInv'
<1> SUFFICES ASSUME IInv, FInv, RoomInv, [Next]_vars PROVE RoomInv'
  OBVIOUS
<1> USE DEF queueVars, workerVars, callerVars, stopVars, historyVars
<1>0. /\ TypeOK /\ BatchInv
      /\ batch \in [Workers -> Seq(Items)] /\ room \in [Workers -> Int] /\ wpc \in [Workers -> WorkerPCs]
      /\ sendQueue \in Seq(Items) /\ MaxCnt \in Nat \ {0} /\ MaxBlob \in Nat
  BY LimitsAssumption DEF IInv, FInv, TypeOK
<1>1. ASSUME UNCHANGED <<batch, room, wpc>> PROVE RoomInv'
  BY <1>1 DEF RoomInv, RoomFor
<1>2. ASSUME NEW w \in Workers, UNCHANGED <<batch, room>>, NEW pc,
             wpc' = [wpc EXCEPT ![w] = pc],
             pc \in {"popped", "fetch", "check"} => wpc[w] \in {"popped", "fetch", "check"}
      PROVE  RoomInv'
  BY <1>0, <1>2 DEF RoomInv, RoomFor
<1>3. ASSUME NEW w \in Workers, NEW outcome, Settle(w, outcome),
             NEW pc \in {"loop", "dead"}, wpc' = [wpc EXCEPT ![w] = pc]
      PROVE  RoomInv'
  <2>1. batch'[w] = <<>> /\ wpc'[w] \in {"loop", "dead"}
    BY <1>0, <1>3 DEF Settle
  <2>2. \A v \in Workers \ {w} : batch'[v] = batch[v] /\ room'[v] = room[v] /\ wpc'[v] = wpc[v]
    BY <1>0, <1>3 DEF Settle
  <2>3. Len(<<>>) = 0 /\ DOMAIN <<>> = {} /\ 0 <= MaxCnt
    BY <1>0
  <2>4. QED
    BY <2>1, <2>2, <2>3 DEF RoomInv, RoomFor
<1>4. ASSUME NEW c \in Callers, NEW i \in Items, SendMsg(c, i) PROVE RoomInv'
  BY <1>1, <1>4 DEF SendMsg
<1>5. ASSUME NEW c \in Callers, PushNext(c) PROVE RoomInv'
  <2>1. CASE StartThread(c)
    BY <1>2, <2>1 DEF StartThread
  <2>2. CASE TestAlive(c) \/ PushMsg(c) \/ PushAppend(c) \/ PushCount(c)
    <3>1. UNCHANGED <<batch, room, wpc>>
      BY <2>2, Zenon DEF TestAlive, PushMsg, PushAppend, PushCount
    <3>2. QED
      BY <1>1, <3>1
  <2>3. QED
    BY <1>5, <2>1, <2>2 DEF PushNext
<1>6. ASSUME NEW w \in Workers,
             \/ BeginThread(w) \/ CloseFirst(w) \/ OpenSucceeds(w) \/ TestChannel(w)
             \/ TestInner(w) \/ LeaveLoop(w) \/ WaitForWork(w) \/ WakeUp(w)
             \/ CountHead(w) \/ FetchEnds(w)
      PROVE  RoomInv'
  <2>1. UNCHANGED <<batch, room>>
    BY <1>6 DEF BeginThread, CloseFirst, OpenSucceeds, TestChannel, TestInner, LeaveLoop,
                WaitForWork, WakeUp, CountHead, FetchEnds
  <2>2. \E pc \in WorkerPCs :
          /\ wpc' = [wpc EXCEPT ![w] = pc]
          /\ pc \in {"popped", "fetch", "check"} => wpc[w] \in {"popped", "fetch", "check"}
    BY <1>6 DEF BeginThread, CloseFirst, OpenSucceeds, TestChannel, TestInner, LeaveLoop,
                WaitForWork, WakeUp, CountHead, FetchEnds, Dies, WorkerTo, WorkerPCs
  <2>3. QED
    BY <1>2, <2>1, <2>2
<1>7. ASSUME NEW w \in Workers, OpenFails(w) PROVE RoomInv'
  <2>1. UNCHANGED <<batch, room>>
    BY <1>7 DEF OpenFails
  <2>2. \/ wpc' = wpc
        \/ \E pc \in {"loop", "dead"} : wpc' = [wpc EXCEPT ![w] = pc]
    BY <1>7 DEF OpenFails, WorkerTo
  <2>3. QED
    BY <1>1, <1>2, <2>1, <2>2
<1>8. ASSUME NEW w \in Workers, TakeHead(w) PROVE RoomInv'
  <2> DEFINE h == Head(sendQueue)
  <2>1. h \in Items
    BY <1>0, <1>8 DEF TakeHead
  <2>2. SizeOf(h) \in Nat /\ PostSize(<<h>>) = SizeOf(h) + 4
    BY <1>0, <2>1, PostSizes, SizeAssumption
  <2>3. batch'[w] = <<h>> /\ room'[w] = MaxBlob - SizeOf(h) - 4
    BY <1>0, <1>8 DEF TakeHead
  <2>4. \A v \in Workers \ {w} : batch'[v] = batch[v] /\ room'[v] = room[v] /\ wpc'[v] = wpc[v]
    BY <1>0, <1>8 DEF TakeHead, WorkerTo
  <2> HIDE DEF h
  <2>5. room'[w] = MaxBlob - PostSize(batch'[w])
    BY <1>0, <2>2, <2>3
  <2>6. Len(<<h>>) = 1 /\ DOMAIN <<h>> = {1} /\ <<h>> # <<>> /\ 1 <= MaxCnt
    BY <1>0
  <2>7. QED
    <3>1. RoomFor(w)'
      BY <2>3, <2>5, <2>6 DEF RoomFor
    <3>2. \A v \in Workers \ {w} : RoomFor(v)'
      BY <2>4 DEF RoomInv, RoomFor
    <3>3. QED
      BY <3>1, <3>2 DEF RoomInv
<1>9. ASSUME NEW w \in Workers, FetchMate(w) PROVE RoomInv'
  <2>1. PICK n \in DOMAIN sendQueue :
          /\ IsNextMate(w, n)
          /\ Fits(w, sendQueue[n])
          /\ batch' = [batch EXCEPT ![w] = Append(@, sendQueue[n])]
          /\ room' = [room EXCEPT ![w] = @ - (SizeOf(sendQueue[n]) + 4)]
    BY <1>9 DEF FetchMate
  <2> DEFINE i == sendQueue[n]
             b == batch[w]
  <2>2. i \in Items /\ b \in Seq(Items) /\ Len(b) \in Nat /\ DOMAIN b = 1..Len(b)
    BY <1>0
  <2>3. wpc' = wpc /\ wpc[w] = "fetch"
    BY <1>9 DEF FetchMate
  <2>4. b # <<>> /\ room[w] = MaxBlob - PostSize(b)
        /\ \A m, k \in DOMAIN b : KeyOf(b[m]) = KeyOf(b[k])
    BY <2>3 DEF RoomInv, RoomFor
  <2>5. /\ PostSize(b) \in Int /\ SizeOf(i) \in Nat
        /\ PostSize(Append(b, i)) = PostSize(b) + SizeOf(i) + 4
    BY <2>2, PostSizes, SizeAssumption
  <2>6. batch'[w] = Append(b, i) /\ room'[w] = room[w] - (SizeOf(i) + 4)
    BY <1>0, <2>1
  <2>7. \A v \in Workers \ {w} : batch'[v] = batch[v] /\ room'[v] = room[v] /\ wpc'[v] = wpc[v]
    BY <1>0, <2>1, <2>3
  <2>8. Len(b) < MaxCnt /\ SizeOf(i) + 4 <= room[w] /\ KeyOf(i) = KeyOf(b[1])
    BY <2>1 DEF Fits, IsNextMate
  <2> HIDE DEF i, b
  <2>9. /\ Append(b, i) # <<>> /\ Len(Append(b, i)) = Len(b) + 1
        /\ DOMAIN Append(b, i) = 1..Len(b) + 1 /\ Append(b, i)[Len(b) + 1] = i
        /\ \A m \in 1..Len(b) : Append(b, i)[m] = b[m]
    BY <2>2, AppendProperties
  <2>10. \A m \in DOMAIN Append(b, i) : KeyOf(Append(b, i)[m]) = KeyOf(b[1])
    BY <2>2, <2>4, <2>8, <2>9
  <2>11. room'[w] = MaxBlob - PostSize(batch'[w]) /\ room'[w] >= 0
    BY <1>0, <2>4, <2>5, <2>6, <2>8
  <2>12. Len(batch'[w]) <= MaxCnt
    BY <1>0, <2>2, <2>6, <2>8, <2>9
  <2>13. QED
    <3>1. RoomFor(w)'
      BY <2>6, <2>9, <2>10, <2>11, <2>12 DEF RoomFor
    <3>2. \A v \in Workers \ {w} : RoomFor(v)'
      BY <2>7 DEF RoomInv, RoomFor
    <3>3. QED
      BY <3>1, <3>2 DEF RoomInv
<1>10. ASSUME NEW w \in Workers, TestChannelAgain(w) PROVE RoomInv'
  <2>1. CASE channel
    BY <1>2, <1>10, <2>1 DEF TestChannelAgain, WorkerTo
  <2>2. CASE ~channel
    BY <1>3, <1>10, <2>2 DEF TestChannelAgain, Dies, WorkerTo
  <2>3. QED
    BY <2>1, <2>2
<1>11. ASSUME NEW w \in Workers, SendSucceeds(w) \/ GiveUp(w) PROVE RoomInv'
  BY <1>3, <1>11 DEF SendSucceeds, GiveUp, WorkerTo
<1>12. ASSUME NEW w \in Workers, SendFails(w) PROVE RoomInv'
  BY <1>1, <1>12 DEF SendFails
<1>13. CASE ShutdownNext \/ UNCHANGED vars
  BY <1>1, <1>13 DEF ShutdownNext, ShutdownFlush, ShutdownFlag, ShutdownClose, vars
<1>14. QED
  BY <1>4, <1>5, <1>6, <1>7, <1>8, <1>9, <1>10, <1>11, <1>12, <1>13 DEF Next, WorkerNext
\* The order is kept by what leaves the queue alone but for its own messages' times.
LEMMA OrderStep ==
  IInv /\ FInv /\ RoomInv /\ OrderInv /\ [Next]_vars => OrderInv'
<1> SUFFICES ASSUME IInv, FInv, RoomInv, OrderInv, [Next]_vars PROVE OrderInv'
  OBVIOUS
<1> USE DEF queueVars, workerVars, callerVars, stopVars, historyVars
<1>0. /\ batch \in [Workers -> Seq(Items)] /\ wpc \in [Workers -> WorkerPCs]
      /\ sendQueue \in Seq(Items) /\ arrival \in [Items -> Nat] /\ clock \in Nat
      /\ DOMAIN sendQueue = 1..Len(sendQueue) /\ Len(sendQueue) \in Nat
      /\ \A n \in DOMAIN sendQueue : sendQueue[n] \in Items
      /\ \A w \in Workers : \A n \in DOMAIN batch[w] : batch[w][n] \in Items
  BY DEF IInv, TypeOK
<1>1. ASSUME UNCHANGED <<sendQueue, arrival, clock>>,
             NEW w \in Workers,
             batch'[w] = batch[w] \/ batch'[w] = <<>>,
             wpc'[w] \in {"popped", "fetch"} => wpc[w] \in {"popped", "fetch"},
             \A v \in Workers \ {w} : batch'[v] = batch[v] /\ wpc'[v] = wpc[v]
      PROVE  OrderInv'
  <2>1. DOMAIN <<>> = {}
    OBVIOUS
  <2>2. \A v \in Workers : DOMAIN batch'[v] \subseteq DOMAIN batch[v]
                           /\ \A n \in DOMAIN batch'[v] : batch'[v][n] = batch[v][n]
    BY <1>1, <2>1
  <2>3. \A v \in Workers : wpc'[v] \in {"popped", "fetch"} => wpc[v] \in {"popped", "fetch"}
    BY <1>1
  <2>4. QED
    BY <1>1, <2>2, <2>3 DEF OrderInv, InOrder
<1>2. ASSUME UNCHANGED <<sendQueue, arrival, clock, batch>>,
             \A w \in Workers : wpc'[w] \in {"popped", "fetch"} => wpc[w] \in {"popped", "fetch"}
      PROVE  OrderInv'
  BY <1>2 DEF OrderInv, InOrder
<1>3. ASSUME NEW c \in Callers, NEW i \in Items, SendMsg(c, i) PROVE OrderInv'
  BY <1>2, <1>3 DEF SendMsg
<1>4. ASSUME NEW c \in Callers, PushAppend(c) PROVE OrderInv'
  <2> DEFINE e == citem[c]
  <2>1. e \in Items /\ fate[e] = "new"
    BY <1>4 DEF PushAppend, IInv, CarryInv, FInv, PushInv, Pushing
  <2>2. e \notin Elems(sendQueue) /\ \A w \in Workers : e \notin Elems(batch[w])
    BY <2>1, Vanishing DEF FInv
  <2>3. /\ sendQueue' = Append(sendQueue, e) /\ UNCHANGED <<batch, wpc>>
        /\ clock' = clock + 1 /\ arrival' = [arrival EXCEPT ![e] = clock + 1]
    BY <1>4 DEF PushAppend
  <2>4. \A w \in Workers : wpc[w] \notin {"popped", "fetch"}
    BY <1>4, ThreadAssumption DEF PushAppend, IInv, LockInv
  <2> HIDE DEF e
  <2>5. arrival'[e] = clock + 1 /\ \A i \in Items \ {e} : arrival'[i] = arrival[i]
    BY <1>0, <2>1, <2>3
  <2>6. /\ \A n \in DOMAIN sendQueue : sendQueue[n] # e
        /\ \A w \in Workers : \A n \in DOMAIN batch[w] : batch[w][n] # e
    BY <2>2 DEF Elems
  <2>7. \A i \in Items : arrival'[i] <= clock'
    BY <1>0, <2>1, <2>3, <2>5 DEF OrderInv
  <2>8. InOrder(sendQueue)'
    <3>1. /\ DOMAIN sendQueue' = 1..Len(sendQueue) + 1 /\ sendQueue'[Len(sendQueue) + 1] = e
          /\ \A n \in 1..Len(sendQueue) : sendQueue'[n] = sendQueue[n]
      BY <1>0, <2>1, <2>3
    <3>2. ASSUME NEW m \in 1..Len(sendQueue) + 1, NEW n \in 1..Len(sendQueue) + 1, m < n
          PROVE  arrival'[sendQueue'[m]] < arrival'[sendQueue'[n]]
      <4>1. m \in 1..Len(sendQueue)
        BY <1>0, <3>2
      <4>2. /\ sendQueue'[m] = sendQueue[m] /\ sendQueue[m] \in Items \ {e}
            /\ arrival'[sendQueue[m]] = arrival[sendQueue[m]]
        BY <1>0, <2>5, <2>6, <3>1, <4>1
      <4>3. CASE n = Len(sendQueue) + 1
        <5>1. arrival[sendQueue[m]] <= clock /\ arrival[sendQueue[m]] \in Nat
          BY <1>0, <4>2 DEF OrderInv
        <5>2. QED
          BY <1>0, <2>5, <3>1, <4>2, <4>3, <5>1
      <4>4. CASE n # Len(sendQueue) + 1
        <5>1. n \in 1..Len(sendQueue)
          BY <1>0, <4>4
        <5>2. sendQueue'[n] = sendQueue[n] /\ arrival'[sendQueue[n]] = arrival[sendQueue[n]]
          BY <1>0, <2>5, <2>6, <3>1, <5>1
        <5>3. arrival[sendQueue[m]] < arrival[sendQueue[n]]
          BY <1>0, <3>2, <4>1, <5>1 DEF OrderInv, InOrder
        <5>4. QED
          BY <4>2, <5>2, <5>3
      <4>5. QED
        BY <4>3, <4>4
    <3>3. QED
      BY <3>1, <3>2 DEF InOrder
  <2>9. \A w \in Workers : InOrder(batch[w])'
    <3>1. \A w \in Workers : \A n \in DOMAIN batch[w] : arrival'[batch[w][n]] = arrival[batch[w][n]]
      BY <1>0, <2>5, <2>6
    <3>2. QED
      BY <2>3, <3>1 DEF OrderInv, InOrder
  <2>10. QED
    BY <2>3, <2>4, <2>7, <2>8, <2>9 DEF OrderInv
<1>5. ASSUME NEW c \in Callers, TestAlive(c) \/ StartThread(c) \/ PushMsg(c) \/ PushCount(c)
      PROVE  OrderInv'
  <2>1. UNCHANGED <<sendQueue, arrival, clock, batch>>
    BY <1>5, Zenon DEF TestAlive, StartThread, PushMsg, PushCount
  <2>2. wpc' = wpc \/ \E w \in Workers : wpc' = [wpc EXCEPT ![w] = "starting"]
    BY <1>5, Zenon DEF TestAlive, StartThread, PushMsg, PushCount
  <2>3. QED
    BY <1>0, <1>2, <2>1, <2>2
<1>6. ASSUME NEW w \in Workers,
             \/ BeginThread(w) \/ CloseFirst(w) \/ OpenSucceeds(w) \/ TestChannel(w)
             \/ TestInner(w) \/ LeaveLoop(w) \/ WaitForWork(w) \/ WakeUp(w)
             \/ CountHead(w) \/ FetchEnds(w) \/ SendFails(w)
      PROVE  OrderInv'
  <2>1. UNCHANGED <<sendQueue, arrival, clock, batch>>
    BY <1>6 DEF BeginThread, CloseFirst, OpenSucceeds, TestChannel, TestInner, LeaveLoop,
                WaitForWork, WakeUp, CountHead, FetchEnds, SendFails
  <2>2. \/ wpc' = wpc
        \/ \E pc \in WorkerPCs :
             /\ wpc' = [wpc EXCEPT ![w] = pc]
             /\ pc \in {"popped", "fetch"} => wpc[w] \in {"popped", "fetch"}
    BY <1>6 DEF BeginThread, CloseFirst, OpenSucceeds, TestChannel, TestInner, LeaveLoop,
                WaitForWork, WakeUp, CountHead, FetchEnds, SendFails, Dies, WorkerTo, WorkerPCs
  <2>3. QED
    BY <1>0, <1>2, <2>1, <2>2
<1>7. ASSUME NEW w \in Workers, OpenFails(w) PROVE OrderInv'
  <2>1. UNCHANGED <<sendQueue, arrival, clock, batch>>
    BY <1>7 DEF OpenFails
  <2>2. \/ wpc' = wpc
        \/ \E pc \in {"loop", "dead"} : wpc' = [wpc EXCEPT ![w] = pc]
    BY <1>7 DEF OpenFails, WorkerTo
  <2>3. QED
    BY <1>0, <1>2, <2>1, <2>2
<1>8. ASSUME NEW w \in Workers, TakeHead(w) PROVE OrderInv'
  <2> DEFINE h == Head(sendQueue)
             t == Tail(sendQueue)
  <2>1. /\ sendQueue # <<>> /\ h = sendQueue[1] /\ h \in Items /\ 1 \in DOMAIN sendQueue
        /\ DOMAIN t = 1..Len(sendQueue) - 1
        /\ \A n \in 1..Len(sendQueue) - 1 : t[n] = sendQueue[n + 1]
    BY <1>0, <1>8 DEF TakeHead
  <2>2. /\ sendQueue' = t /\ UNCHANGED <<arrival, clock>>
        /\ batch'[w] = <<h>> /\ \A v \in Workers \ {w} : batch'[v] = batch[v] /\ wpc'[v] = wpc[v]
    BY <1>0, <1>8 DEF TakeHead, WorkerTo
  <2>3. \A v \in Workers \ {w} : wpc'[v] \notin {"popped", "fetch"}
    BY <1>8, <2>2, ThreadAssumption DEF TakeHead, IInv, LockInv
  <2> HIDE DEF h, t
  <2>4. \A n \in DOMAIN t : n + 1 \in DOMAIN sendQueue /\ 1 < n + 1
    BY <1>0, <2>1
  <2>5. InOrder(sendQueue)'
    <3>1. ASSUME NEW m \in DOMAIN t, NEW n \in DOMAIN t, m < n PROVE arrival[t[m]] < arrival[t[n]]
      <4>1. m + 1 \in DOMAIN sendQueue /\ n + 1 \in DOMAIN sendQueue /\ m + 1 < n + 1
        BY <1>0, <2>1, <2>4, <3>1
      <4>2. arrival[sendQueue[m + 1]] < arrival[sendQueue[n + 1]]
        BY <4>1 DEF OrderInv, InOrder
      <4>3. QED
        BY <2>1, <4>2
    <3>2. QED
      BY <2>2, <3>1 DEF InOrder
  <2>6. \A n \in DOMAIN t : arrival[h] < arrival[t[n]]
    BY <2>1, <2>4 DEF OrderInv, InOrder
  <2>7. DOMAIN <<h>> = {1} /\ <<h>>[1] = h
    OBVIOUS
  <2>8. \A v \in Workers : InOrder(batch[v])'
    <3>1. \A m, n \in {1} : ~(m < n)
      OBVIOUS
    <3>2. QED
      BY <2>2, <2>7, <3>1 DEF OrderInv, InOrder
  <2>9. QED
    BY <2>2, <2>3, <2>5, <2>6, <2>7, <2>8 DEF OrderInv
<1>9. ASSUME NEW w \in Workers, FetchMate(w) PROVE OrderInv'
  <2>1. PICK n \in DOMAIN sendQueue :
          /\ IsNextMate(w, n)
          /\ batch' = [batch EXCEPT ![w] = Append(@, sendQueue[n])]
          /\ sendQueue' = RemoveIndex(sendQueue, n)
    BY <1>9 DEF FetchMate
  <2>2. wpc[w] = "fetch" /\ UNCHANGED <<wpc, arrival, clock>>
    BY <1>9 DEF FetchMate
  <2> DEFINE i == sendQueue[n]
             b == batch[w]
             q == RemoveIndex(sendQueue, n)
             at(m) == IF m < n THEN m ELSE m + 1
  <2>3. /\ DOMAIN q = 1..Len(sendQueue) - 1
        /\ \A m \in DOMAIN q : q[m] = sendQueue[at(m)] /\ at(m) \in DOMAIN sendQueue /\ at(m) # n
        /\ \A k, m \in DOMAIN q : k < m => at(k) < at(m)
    <3>1. /\ Len(q) = Len(sendQueue) - 1 /\ q \in Seq(Items)
          /\ \A m \in 1..Len(sendQueue) - 1 : q[m] = IF m < n THEN sendQueue[m] ELSE sendQueue[m + 1]
      BY <1>0, RemoveIndexProperties
    <3> HIDE DEF q
    <3>2. DOMAIN q = 1..Len(sendQueue) - 1
      BY <3>1
    <3>3. n \in Nat /\ \A m \in DOMAIN q : m \in Nat /\ m + 1 \in DOMAIN sendQueue
                                          /\ m \in DOMAIN sendQueue
      BY <1>0, <3>2
    <3>4. \A m \in DOMAIN q : q[m] = sendQueue[at(m)] /\ at(m) \in DOMAIN sendQueue /\ at(m) # n
      BY <3>1, <3>2, <3>3
    <3>5. \A k, m \in DOMAIN q : k < m => at(k) < at(m)
      BY <3>3
    <3>6. QED
      BY <3>2, <3>4, <3>5
  <2>4. b \in Seq(Items) /\ i \in Items /\ Len(b) \in Nat /\ DOMAIN b = 1..Len(b)
    BY <1>0
  <2>5. b # <<>> /\ 1 \in DOMAIN b /\ \A m \in DOMAIN b : KeyOf(b[m]) = KeyOf(b[1])
    <3>1. b # <<>> /\ \A m, k \in DOMAIN b : KeyOf(b[m]) = KeyOf(b[k])
      BY <2>2 DEF RoomInv, RoomFor
    <3>2. 1 \in DOMAIN b
      BY <2>4, <3>1
    <3>3. QED
      BY <3>1, <3>2
  <2>6. KeyOf(i) = KeyOf(b[1]) /\ \A m \in 1..n - 1 : KeyOf(sendQueue[m]) # KeyOf(b[1])
    BY <2>1 DEF IsNextMate
  <2>7. /\ DOMAIN Append(b, i) = 1..Len(b) + 1 /\ Append(b, i)[Len(b) + 1] = i
        /\ \A m \in 1..Len(b) : Append(b, i)[m] = b[m]
    <3> HIDE DEF b, i
    <3>1. QED
      BY <2>4, AppendProperties
  <2>8. \A m \in DOMAIN b : arrival[b[m]] < arrival[i]
    BY <2>2, <2>5, <2>6 DEF OrderInv
  <2>9. \A m \in DOMAIN q : KeyOf(q[m]) = KeyOf(b[1]) => arrival[i] < arrival[q[m]]
    <3>1. ASSUME NEW m \in DOMAIN q, KeyOf(q[m]) = KeyOf(b[1]) PROVE arrival[i] < arrival[q[m]]
      <4>1. q[m] = sendQueue[at(m)] /\ at(m) \in DOMAIN sendQueue /\ at(m) # n
        BY <2>3
      <4>2. at(m) \notin 1..n - 1
        BY <2>6, <3>1, <4>1
      <4>3. n < at(m)
        BY <1>0, <4>1, <4>2
      <4>4. QED
        BY <4>1, <4>3 DEF OrderInv, InOrder
    <3>2. QED
      BY <3>1
  <2>10. batch'[w] = Append(b, i) /\ sendQueue' = q
         /\ \A v \in Workers \ {w} : batch'[v] = batch[v]
    BY <1>0, <2>1
  <2>11. \A v \in Workers \ {w} : wpc[v] \notin {"popped", "fetch"}
    BY <2>2 DEF IInv, LockInv
  <2>12. InOrder(sendQueue)'
    BY <2>2, <2>3, <2>10 DEF OrderInv, InOrder
  <2> HIDE DEF i, b, q, at
  <2>13. \A v \in Workers : InOrder(batch[v])'
    <3>1. InOrder(b) /\ \A v \in Workers \ {w} : InOrder(batch[v])
      BY DEF OrderInv, b
    <3>2. ASSUME NEW m \in 1..Len(b) + 1, NEW k \in 1..Len(b) + 1, m < k
          PROVE  arrival[Append(b, i)[m]] < arrival[Append(b, i)[k]]
      <4>1. m \in 1..Len(b)
        BY <2>4, <3>2
      <4>2. CASE k = Len(b) + 1
        BY <2>4, <2>7, <2>8, <4>1, <4>2
      <4>3. CASE k # Len(b) + 1
        <5>1. k \in 1..Len(b)
          BY <2>4, <4>3
        <5>2. QED
          BY <2>4, <2>7, <3>1, <3>2, <4>1, <5>1 DEF InOrder
      <4>4. QED
        BY <4>2, <4>3
    <3>3. QED
      BY <2>2, <2>7, <2>10, <3>1, <3>2 DEF InOrder
  <2>14. \A m \in DOMAIN Append(b, i), k \in DOMAIN q :
           KeyOf(q[k]) = KeyOf(Append(b, i)[m]) => arrival[Append(b, i)[m]] < arrival[q[k]]
    <3>1. ASSUME NEW m \in DOMAIN Append(b, i), NEW k \in DOMAIN q,
                 KeyOf(q[k]) = KeyOf(Append(b, i)[m])
          PROVE  arrival[Append(b, i)[m]] < arrival[q[k]]
      <4>1. CASE m = Len(b) + 1
        BY <2>6, <2>7, <2>9, <3>1, <4>1
      <4>2. CASE m # Len(b) + 1
        <5>1. m \in DOMAIN b /\ Append(b, i)[m] = b[m]
          BY <2>4, <2>7, <4>2
        <5>2. KeyOf(b[m]) = KeyOf(q[k]) /\ q[k] = sendQueue[at(k)] /\ at(k) \in DOMAIN sendQueue
          BY <2>3, <3>1, <5>1
        <5>3. arrival[b[m]] < arrival[q[k]]
          BY <2>2, <5>1, <5>2 DEF OrderInv, b
        <5>4. QED
          BY <5>1, <5>3
      <4>3. QED
        BY <4>1, <4>2
    <3>2. QED
      BY <3>1
  <2>15. QED
    BY <2>2, <2>10, <2>11, <2>12, <2>13, <2>14 DEF OrderInv
<1>10. ASSUME NEW w \in Workers, TestChannelAgain(w) \/ SendSucceeds(w) \/ GiveUp(w) PROVE OrderInv'
  <2>1. UNCHANGED <<sendQueue, arrival, clock>>
    BY <1>10, Zenon DEF TestChannelAgain, SendSucceeds, GiveUp
  <2>2. \E pc \in {"try", "dead", "loop"} : wpc' = [wpc EXCEPT ![w] = pc]
    BY <1>10 DEF TestChannelAgain, SendSucceeds, GiveUp, Dies, WorkerTo
  <2>3. batch' = batch \/ batch' = [batch EXCEPT ![w] = <<>>]
    BY <1>10, Zenon DEF TestChannelAgain, SendSucceeds, GiveUp, Settle
  <2>4. QED
    BY <1>0, <1>1, <2>1, <2>2, <2>3
<1>11. CASE ShutdownNext \/ UNCHANGED vars
  BY <1>2, <1>11 DEF ShutdownNext, ShutdownFlush, ShutdownFlag, ShutdownClose, vars
<1>12. QED
  BY <1>3, <1>4, <1>5, <1>6, <1>7, <1>8, <1>9, <1>10, <1>11 DEF Next, WorkerNext, PushNext

LEMMA InitBInv == Init => BInv
<1> SUFFICES ASSUME Init PROVE BInv
  OBVIOUS
<1>1. DOMAIN <<>> = {} /\ Len(<<>>) = 0 /\ MaxCnt \in Nat
  BY LimitsAssumption
<1>2. RoomInv
  BY <1>1 DEF Init, RoomInv, RoomFor
<1>3. OrderInv
  BY <1>1 DEF Init, OrderInv, InOrder
<1>4. QED
  BY <1>2, <1>3 DEF BInv

LEMMA BatchInvariance == Spec => []BInv
<1>1. IInv /\ FInv /\ BInv /\ [Next]_vars => BInv'
  BY RoomStep, OrderStep DEF BInv
<1>2. QED
  BY <1>1, InitBInv, Invariance, FateInvariance, PTL DEF Spec

\* What one sendMsg is given goes to one destination, is within the limits of the whiteboard, and
\* keeps the order of arrival, for any messages, sizes and limits (WBPushPullers.py 116-146,
\* 173-181).
THEOREM BatchesFit == Spec => []BatchWithinLimits
<1>1. IInv /\ BInv => BatchWithinLimits
  <2> SUFFICES ASSUME IInv, BInv, NEW w \in Workers
               PROVE  Len(batch[w]) > 1 => PostSize(batch[w]) <= MaxBlob
    BY DEF BInv, RoomInv, RoomFor, OrderInv, InOrder, BatchWithinLimits
  <2>1. CASE Len(batch[w]) > 1
    <3>1. batch[w] \in Seq(Items) /\ batch[w] # <<>>
      BY <2>1 DEF IInv, TypeOK
    <3>2. PICK i : i \in Items
      BY <3>1
    <3>3. PostSize(batch[w]) \in Int
      BY <3>1, <3>2, PostSizes
    <3>4. QED
      BY <2>1, <3>1, <3>3, LimitsAssumption DEF BInv, RoomInv, RoomFor, IInv, TypeOK
  <2>2. QED
    BY <2>1
<1>2. QED
  BY <1>1, BatchInvariance, Invariance, PTL

-----------------------------------------------------------------------------
(* What was posted agrees with what became of the messages *)

Copies(i) == {n \in DOMAIN posted : i \in Elems(posted[n])}

Unopened == {"dead", "starting", "closing", "opening"}

\* Behind the test of its channel a thread goes on until shutdown, or another incarnation, closes it.
OpenInv ==
  \A w \in Workers : wpc[w] \notin Unopened => channel \/ spc = "closed" \/ crossed

\* A thread's last messages have met their fate; it posts nothing else without a batch.
LastInv ==
  \A w \in Workers :
    /\ \A i \in Elems(last[w]) : fate[i] \in {"sent", "failed"}
    /\ wpc[w] = "try" /\ batch[w] = <<>> => last[w] # <<>> /\ Elems(last[w]) \subseteq resent

\* A message has copies from the first attempt on, one for each attempt at most until it has met
\* its fate.
CopiesInv ==
  /\ \A i \in Items :
       /\ Cardinality(Copies(i)) <= MaxTry \/ i \in resent
       /\ fate[i] = "sent" => Copies(i) # {}
       /\ fate[i] \in {"new", "lost"} => Copies(i) = {}
       /\ fate[i] = "lost" => spc = "closed" \/ crossed
       /\ i \in Elems(sendQueue) => Copies(i) = {}
  /\ \A w \in Workers : \A i \in Elems(batch[w]) :
       IF wpc[w] = "try" THEN Cardinality(Copies(i)) <= tries[w] ELSE Copies(i) = {}

CInv == OpenInv /\ LastInv /\ CopiesInv

LEMMA OpenStep ==
  TypeOK /\ OpenInv /\ [Next]_vars => OpenInv'
<1> SUFFICES ASSUME TypeOK, OpenInv, [Next]_vars PROVE OpenInv'
  OBVIOUS
<1> USE DEF queueVars, workerVars, callerVars, stopVars, historyVars, Unopened
<1>1. wpc \in [Workers -> WorkerPCs]
  BY DEF TypeOK
<1>2. ASSUME UNCHANGED <<channel, spc, crossed, wpc>> PROVE OpenInv'
  BY <1>2 DEF OpenInv
<1>3. ASSUME UNCHANGED <<channel, spc, crossed>>, NEW w \in Workers, NEW pc,
             wpc' = [wpc EXCEPT ![w] = pc],
             \/ pc \in Unopened
             \/ wpc[w] \notin Unopened
             \/ channel
      PROVE  OpenInv'
  BY <1>1, <1>3 DEF OpenInv
<1>4. ASSUME NEW c \in Callers, NEW i \in Items, SendMsg(c, i) PROVE OpenInv'
  BY <1>2, <1>4 DEF SendMsg
<1>5. ASSUME NEW c \in Callers, PushNext(c) PROVE OpenInv'
  <2>1. UNCHANGED <<channel, spc, crossed>>
    BY <1>5, Zenon DEF PushNext, TestAlive, StartThread, PushMsg, PushAppend, PushCount
  <2>2. wpc' = wpc \/ \E w \in Workers : wpc' = [wpc EXCEPT ![w] = "starting"]
    BY <1>5, Zenon DEF PushNext, TestAlive, StartThread, PushMsg, PushAppend, PushCount
  <2>3. QED
    BY <1>2, <1>3, <2>1, <2>2
<1>6. ASSUME NEW w \in Workers,
             \/ BeginThread(w) \/ TestChannel(w) \/ TestInner(w) \/ LeaveLoop(w) \/ WaitForWork(w)
             \/ WakeUp(w) \/ TakeHead(w) \/ CountHead(w) \/ FetchEnds(w) \/ SendSucceeds(w) \/ GiveUp(w)
      PROVE  OpenInv'
  <2>1. UNCHANGED <<channel, spc, crossed>>
    BY <1>6, Zenon DEF BeginThread, TestChannel, TestInner, LeaveLoop, WaitForWork, WakeUp,
                       TakeHead, CountHead, FetchEnds, SendSucceeds, GiveUp
  <2>2. \E pc \in WorkerPCs :
          /\ wpc' = [wpc EXCEPT ![w] = pc]
          /\ pc \in Unopened \/ wpc[w] \notin Unopened \/ channel
    BY <1>6 DEF BeginThread, TestChannel, TestInner, LeaveLoop, WaitForWork, WakeUp, TakeHead,
                CountHead, FetchEnds, SendSucceeds, GiveUp, Dies, WorkerTo, WorkerPCs
  <2>3. QED
    BY <1>3, <2>1, <2>2
<1>7. ASSUME NEW w \in Workers, CloseFirst(w) PROVE OpenInv'
  <2>1. spc' = spc /\ channel' = FALSE /\ crossed' = (crossed \/ channel)
    BY <1>7 DEF CloseFirst
  <2>2. wpc' = [wpc EXCEPT ![w] = "opening"]
    BY <1>7 DEF CloseFirst, WorkerTo
  <2>3. \A v \in Workers : wpc'[v] \notin Unopened => wpc[v] \notin Unopened
    BY <1>1, <2>2
  <2>4. QED
    BY <2>1, <2>3 DEF OpenInv
<1>8. ASSUME NEW w \in Workers, FetchMate(w) \/ SendFails(w) PROVE OpenInv'
  BY <1>2, <1>8 DEF FetchMate, SendFails
<1>9. ASSUME NEW w \in Workers, OpenSucceeds(w) PROVE OpenInv'
  BY <1>9 DEF OpenSucceeds, OpenInv
<1>10. ASSUME NEW w \in Workers, OpenFails(w) PROVE OpenInv'
  <2>1. UNCHANGED <<channel, spc, crossed>>
    BY <1>10 DEF OpenFails
  <2>2. wpc' = wpc \/ wpc' = [wpc EXCEPT ![w] = IF channel THEN "loop" ELSE "dead"]
    BY <1>10, Zenon DEF OpenFails, WorkerTo
  <2>3. QED
    BY <1>2, <1>3, <2>1, <2>2
<1>11. ASSUME NEW w \in Workers, TestChannelAgain(w) PROVE OpenInv'
  <2>1. UNCHANGED <<channel, spc, crossed>> /\ wpc[w] = "check"
    BY <1>11, Zenon DEF TestChannelAgain
  <2>2. \E pc \in {"try", "dead"} : wpc' = [wpc EXCEPT ![w] = pc]
    BY <1>11 DEF TestChannelAgain, Dies, WorkerTo
  <2>3. QED
    BY <1>3, <2>1, <2>2
<1>12. CASE ShutdownFlush \/ ShutdownFlag
  BY <1>12 DEF ShutdownFlush, ShutdownFlag, OpenInv
<1>13. CASE ShutdownClose
  BY <1>13 DEF ShutdownClose, OpenInv
<1>14. CASE UNCHANGED vars
  BY <1>2, <1>14 DEF vars
<1>15. QED
  BY <1>4, <1>5, <1>6, <1>7, <1>8, <1>9, <1>10, <1>11, <1>12, <1>13, <1>14
  DEF Next, WorkerNext, ShutdownNext

\* A post is one copy more of its messages.
LEMMA PostAdds ==
  ASSUME TypeOK, NEW b \in Seq(Items), posted' = Append(posted, b), NEW i \in Items
  PROVE  /\ i \notin Elems(b) => Copies(i)' = Copies(i)
         /\ i \in Elems(b) => Copies(i)' # {} /\ Cardinality(Copies(i)') = Cardinality(Copies(i)) + 1
<1> DEFINE n == Len(posted) + 1
<1>1. posted \in Seq(Seq(Items)) /\ Len(posted) \in Nat /\ DOMAIN posted = 1..Len(posted)
  BY DEF TypeOK
<1>2. /\ DOMAIN posted' = 1..n /\ posted'[n] = b
      /\ \A m \in DOMAIN posted : posted'[m] = posted[m]
  BY <1>1
<1>3. n \notin Copies(i) /\ \A m \in 1..n : m = n \/ m \in DOMAIN posted
  BY <1>1 DEF Copies
<1>4. IsFiniteSet(Copies(i))
  <2>1. IsFiniteSet(1..Len(posted)) /\ Copies(i) \subseteq 1..Len(posted)
    BY <1>1, FS_Interval DEF Copies
  <2>2. QED
    BY <2>1, FS_Subset
<1>5. ASSUME i \notin Elems(b) PROVE Copies(i)' = Copies(i)
  BY <1>1, <1>2, <1>3, <1>5 DEF Copies
<1>6. ASSUME i \in Elems(b)
      PROVE  Copies(i)' # {} /\ Cardinality(Copies(i)') = Cardinality(Copies(i)) + 1
  <2>1. Copies(i)' = Copies(i) \union {n}
    BY <1>1, <1>2, <1>3, <1>6 DEF Copies
  <2>2. QED
    BY <1>3, <1>4, <2>1, FS_AddElement
<1>7. QED
  BY <1>5, <1>6

LEMMA CopiesCount ==
  ASSUME TypeOK, NEW i \in Items
  PROVE  Cardinality(Copies(i)) \in Nat /\ (Copies(i) = {} => Cardinality(Copies(i)) = 0)
<1>1. Len(posted) \in Nat /\ DOMAIN posted = 1..Len(posted)
  BY DEF TypeOK
<1>2. IsFiniteSet(1..Len(posted)) /\ Copies(i) \subseteq 1..Len(posted)
  BY <1>1, FS_Interval DEF Copies
<1>3. IsFiniteSet(Copies(i))
  BY <1>2, FS_Subset
<1>4. QED
  BY <1>3, FS_CardinalityType, FS_EmptySet

\* A message that has met its fate keeps it.
LEMMA SettledStays ==
  ASSUME IInv, FInv, [Next]_vars, NEW i \in Items, fate[i] \in {"sent", "failed"}
  PROVE  fate'[i] = fate[i]
<1> USE DEF queueVars, workerVars, callerVars, stopVars, historyVars
<1>1. fate \in [Items -> Fates] /\ \A w \in Workers : i \notin Elems(batch[w])
  BY Vanishing DEF IInv, TypeOK, FInv
<1>2. ASSUME NEW w \in Workers, NEW outcome, Settle(w, outcome) PROVE fate'[i] = fate[i]
  BY <1>1, <1>2 DEF Settle
<1>3. ASSUME NEW c \in Callers, PushAppend(c) PROVE fate'[i] = fate[i]
  <2>1. fate[citem[c]] = "new" /\ fate' = [fate EXCEPT ![citem[c]] = "accepted"]
    BY <1>3 DEF PushAppend, FInv, PushInv, Pushing
  <2>2. QED
    BY <1>1, <2>1
<1>4. ASSUME NEW c \in Callers, PushNext(c) PROVE fate'[i] = fate[i]
  BY <1>3, <1>4, Zenon DEF PushNext, TestAlive, StartThread, PushMsg, PushCount
<1>5. ASSUME NEW w \in Workers, WorkerNext(w) PROVE fate'[i] = fate[i]
  <2>1. fate' = fate \/ \E outcome : Settle(w, outcome)
    BY <1>5, Zenon DEF WorkerNext, BeginThread, CloseFirst, OpenSucceeds, OpenFails, TestChannel,
       TestInner, LeaveLoop, WaitForWork, WakeUp, TakeHead, CountHead, FetchMate, FetchEnds,
       TestChannelAgain, SendSucceeds, SendFails, GiveUp
  <2>2. QED
    BY <1>2, <2>1
<1>6. ASSUME ShutdownNext \/ UNCHANGED vars PROVE fate'[i] = fate[i]
  BY <1>6, Zenon DEF ShutdownNext, ShutdownFlush, ShutdownFlag, ShutdownClose, vars
<1>7. ASSUME NEW c \in Callers, NEW j \in Items, SendMsg(c, j) PROVE fate'[i] = fate[i]
  BY <1>7 DEF SendMsg
<1>8. QED
  BY <1>4, <1>5, <1>6, <1>7 DEF Next

\* What a thread posts without a batch has met its fate, and is marked.
LEMMA LastStep ==
  IInv /\ FInv /\ RoomInv /\ LastInv /\ [Next]_vars => LastInv'
<1> SUFFICES ASSUME IInv, FInv, RoomInv, LastInv, [Next]_vars PROVE LastInv'
  OBVIOUS
<1> USE DEF queueVars, workerVars, callerVars, stopVars, historyVars
<1>1. /\ TypeOK /\ wpc \in [Workers -> WorkerPCs] /\ batch \in [Workers -> Seq(Items)]
      /\ last \in [Workers -> Seq(Items)] /\ \A w \in Workers : Elems(last[w]) \subseteq Items
  BY DEF IInv, TypeOK, Elems
<1>2. \A w \in Workers : \A i \in Elems(last[w]) : fate'[i] \in {"sent", "failed"}
  BY <1>1, SettledStays DEF LastInv
<1>3. Elems(<<>>) = {}
  BY DEF Elems
<1>4. ASSUME last' = last, resent \subseteq resent',
             \A w \in Workers : wpc'[w] = "try" /\ batch'[w] = <<>> => wpc[w] = "try" /\ batch[w] = <<>>
      PROVE  LastInv'
  BY <1>2, <1>4 DEF LastInv
<1>5. ASSUME NEW w \in Workers, resent' = resent, wpc'[w] # "try",
             last'[w] = <<>> \/ \A i \in Elems(last'[w]) : fate'[i] \in {"sent", "failed"},
             \A v \in Workers \ {w} : last'[v] = last[v] /\ wpc'[v] = wpc[v] /\ batch'[v] = batch[v]
      PROVE  LastInv'
  BY <1>2, <1>3, <1>5 DEF LastInv
<1>6. ASSUME NEW c \in Callers, NEW i \in Items, SendMsg(c, i) PROVE LastInv'
  BY <1>4, <1>6 DEF SendMsg
<1>7. ASSUME NEW c \in Callers, PushNext(c) PROVE LastInv'
  <2>1. UNCHANGED <<last, resent, batch>>
    BY <1>7, Zenon DEF PushNext, TestAlive, StartThread, PushMsg, PushAppend, PushCount
  <2>2. wpc' = wpc \/ \E w \in Workers : wpc' = [wpc EXCEPT ![w] = "starting"]
    BY <1>7, Zenon DEF PushNext, TestAlive, StartThread, PushMsg, PushAppend, PushCount
  <2>3. QED
    BY <1>1, <1>4, <2>1, <2>2
<1>8. ASSUME NEW w \in Workers,
             \/ BeginThread(w) \/ CloseFirst(w) \/ OpenSucceeds(w) \/ OpenFails(w) \/ TestInner(w)
             \/ WaitForWork(w) \/ WakeUp(w)
             \/ CountHead(w) \/ FetchEnds(w)
      PROVE  LastInv'
  <2>1. UNCHANGED <<last, resent, batch>>
    BY <1>8, Zenon DEF BeginThread, CloseFirst, OpenSucceeds, OpenFails, TestInner, WaitForWork,
                       WakeUp, CountHead, FetchEnds
  <2>2. wpc' = wpc \/ \E pc : pc # "try" /\ wpc' = [wpc EXCEPT ![w] = pc]
    BY <1>8 DEF BeginThread, CloseFirst, OpenSucceeds, OpenFails, TestInner, WaitForWork,
                WakeUp, CountHead, FetchEnds, WorkerTo
  <2>3. QED
    BY <1>1, <1>4, <2>1, <2>2
<1>9. ASSUME NEW w \in Workers, TakeHead(w) \/ FetchMate(w) PROVE LastInv'
  <2>1. UNCHANGED <<last, resent>> /\ wpc'[w] # "try"
    BY <1>1, <1>9 DEF TakeHead, FetchMate, WorkerTo
  <2>2. \A v \in Workers \ {w} : batch'[v] = batch[v] /\ wpc'[v] = wpc[v]
    BY <1>1, <1>9 DEF TakeHead, FetchMate, WorkerTo
  <2>3. QED
    BY <1>4, <2>1, <2>2
<1>10. ASSUME NEW w \in Workers, TestChannel(w) PROVE LastInv'
  <2>1. resent' = resent /\ batch' = batch /\ wpc'[w] # "try"
    BY <1>1, <1>10 DEF TestChannel, Dies, WorkerTo
  <2>2. last' = last \/ last' = [last EXCEPT ![w] = <<>>]
    BY <1>10, Zenon DEF TestChannel, Dies
  <2>3. \A v \in Workers \ {w} : wpc'[v] = wpc[v]
    BY <1>1, <1>10 DEF TestChannel, Dies, WorkerTo
  <2>4. \A i \in Elems(last'[w]) : fate'[i] \in {"sent", "failed"}
    BY <1>1, <1>2, <1>3, <2>2
  <2>5. QED
    BY <1>1, <1>5, <2>1, <2>2, <2>3, <2>4
<1>11. ASSUME NEW w \in Workers, LeaveLoop(w) PROVE LastInv'
  <2>1. batch' = batch /\ \A v \in Workers \ {w} : wpc'[v] = wpc[v]
    BY <1>1, <1>11 DEF LeaveLoop, Dies, WorkerTo
  <2>2. CASE channel /\ last[w] # <<>>
    <3>1. last' = last /\ resent' = resent \union Elems(last[w])
      BY <1>11, <2>2 DEF LeaveLoop
    <3>2. QED
      BY <1>2, <2>1, <2>2, <3>1 DEF LastInv
  <2>3. CASE ~channel \/ last[w] = <<>>
    <3>1. resent' = resent /\ wpc'[w] # "try" /\ last' = [last EXCEPT ![w] = <<>>]
      BY <1>1, <1>11, <2>3 DEF LeaveLoop, Dies, WorkerTo
    <3>2. QED
      BY <1>1, <1>5, <2>1, <3>1
  <2>4. QED
    BY <2>2, <2>3
<1>12. ASSUME NEW w \in Workers, TestChannelAgain(w) PROVE LastInv'
  <2>1. wpc[w] = "check" /\ batch[w] # <<>> /\ resent' = resent
    BY <1>12 DEF TestChannelAgain, RoomInv, RoomFor
  <2>2. CASE channel
    <3>1. UNCHANGED <<batch, last>> /\ \A v \in Workers \ {w} : wpc'[v] = wpc[v]
      BY <1>1, <1>12, <2>2 DEF TestChannelAgain, WorkerTo
    <3>2. QED
      BY <1>4, <2>1, <3>1
  <2>3. CASE ~channel
    <3>1. /\ last' = [last EXCEPT ![w] = <<>>] /\ wpc' = [wpc EXCEPT ![w] = "dead"]
          /\ batch' = [batch EXCEPT ![w] = <<>>]
      BY <1>12, <2>3 DEF TestChannelAgain, Dies, WorkerTo, Settle
    <3>2. QED
      BY <1>1, <1>5, <2>1, <3>1
  <2>4. QED
    BY <2>2, <2>3
<1>13. ASSUME NEW w \in Workers, NEW outcome \in {"sent", "failed"}, Settle(w, outcome),
              resent' = resent, wpc' = [wpc EXCEPT ![w] = "loop"],
              last' = [last EXCEPT ![w] = MsgList(w)]
       PROVE  LastInv'
  <2>1. batch' = [batch EXCEPT ![w] = <<>>]
    BY <1>13 DEF Settle
  <2>2. last'[w] = MsgList(w)
    BY <1>1, <1>13
  <2>3. ASSUME NEW i \in Elems(MsgList(w)) PROVE fate'[i] \in {"sent", "failed"}
    <3>1. CASE batch[w] = <<>>
      BY <1>2, <2>3, <3>1 DEF MsgList
    <3>2. CASE batch[w] # <<>>
      <4>1. i \in Elems(batch[w]) /\ i \in Items
        BY <1>1, <2>3, <3>2 DEF MsgList, Elems
      <4>2. QED
        BY <1>13, <4>1 DEF Settle
    <3>3. QED
      BY <3>1, <3>2
  <2>4. QED
    BY <1>1, <1>5, <1>13, <2>1, <2>2, <2>3
<1>14. ASSUME NEW w \in Workers, SendSucceeds(w) \/ GiveUp(w) PROVE LastInv'
  BY <1>13, <1>14 DEF SendSucceeds, GiveUp, WorkerTo
<1>15. ASSUME NEW w \in Workers, SendFails(w) PROVE LastInv'
  BY <1>4, <1>15 DEF SendFails
<1>16. CASE ShutdownNext \/ UNCHANGED vars
  BY <1>4, <1>16 DEF ShutdownNext, ShutdownFlush, ShutdownFlag, ShutdownClose, vars
<1>17. QED
  BY <1>6, <1>7, <1>8, <1>9, <1>10, <1>11, <1>12, <1>14, <1>15, <1>16 DEF Next, WorkerNext

LEMMA CopiesStep ==
  IInv /\ FInv /\ CInv /\ [Next]_vars => CopiesInv'
<1> SUFFICES ASSUME IInv, FInv, CInv, [Next]_vars PROVE CopiesInv'
  OBVIOUS
<1> USE DEF queueVars, workerVars, callerVars, stopVars, historyVars
<1>1. /\ TypeOK /\ CopiesInv /\ LastInv
      /\ batch \in [Workers -> Seq(Items)] /\ wpc \in [Workers -> WorkerPCs]
      /\ tries \in [Workers -> 0..MaxTry] /\ sendQueue \in Seq(Items) /\ fate \in [Items -> Fates]
      /\ \A w \in Workers : Elems(batch[w]) \subseteq Items
      /\ MaxTry \in Nat
  BY LimitsAssumption DEF IInv, CInv, TypeOK, Elems
<1>2. ASSUME UNCHANGED <<batch, fate, posted>>,
             Elems(sendQueue') = Elems(sendQueue),
             spc = "closed" => spc' = "closed",
             crossed => crossed',
             resent \subseteq resent',
             \A w \in Workers :
               \/ wpc'[w] = "try" /\ wpc[w] = "try" /\ tries'[w] = tries[w]
               \/ wpc'[w] # "try" /\ wpc[w] # "try"
               \/ batch[w] = <<>>
      PROVE  CopiesInv'
  <2>1. \A i \in Items : Copies(i)' = Copies(i)
    BY <1>2 DEF Copies
  <2>2. Elems(<<>>) = {}
    BY DEF Elems
  <2>3. ASSUME NEW w \in Workers, NEW i \in Elems(batch[w])
        PROVE  IF wpc'[w] = "try" THEN Cardinality(Copies(i)') <= tries'[w] ELSE Copies(i)' = {}
    BY <1>1, <1>2, <2>1, <2>2, <2>3 DEF CopiesInv
  <2>4. QED
    BY <1>1, <1>2, <2>1, <2>3 DEF CopiesInv
<1>3. ASSUME NEW c \in Callers, NEW i \in Items, SendMsg(c, i) PROVE CopiesInv'
  BY <1>2, <1>3 DEF SendMsg
<1>4. ASSUME NEW c \in Callers, PushAppend(c) PROVE CopiesInv'
  <2> DEFINE e == citem[c]
  <2>1. e \in Items /\ fate[e] = "new"
    BY <1>4 DEF PushAppend, IInv, CarryInv, FInv, PushInv, Pushing
  <2>2. /\ sendQueue' = Append(sendQueue, e)
        /\ UNCHANGED <<batch, wpc, tries, posted, spc, crossed, resent>>
        /\ fate' = [fate EXCEPT ![e] = "accepted"]
    BY <1>4 DEF PushAppend
  <2> HIDE DEF e
  <2>3. Elems(sendQueue') = Elems(sendQueue) \union {e}
    BY <1>1, <2>1, <2>2, AppendElems
  <2>4. fate'[e] = "accepted" /\ \A i \in Items \ {e} : fate'[i] = fate[i]
    BY <1>1, <2>1, <2>2
  <2>5. \A i \in Items : Copies(i)' = Copies(i)
    BY <2>2 DEF Copies
  <2>6. Copies(e) = {}
    BY <1>1, <2>1 DEF CopiesInv
  <2>7. QED
    BY <1>1, <2>1, <2>2, <2>3, <2>4, <2>5, <2>6 DEF CopiesInv
<1>5. ASSUME NEW c \in Callers, TestAlive(c) \/ StartThread(c) \/ PushMsg(c) \/ PushCount(c)
      PROVE  CopiesInv'
  <2>1. UNCHANGED <<batch, fate, posted, sendQueue, spc, tries, crossed, resent>>
    BY <1>5, Zenon DEF TestAlive, StartThread, PushMsg, PushCount
  <2>2. wpc' = wpc \/ \E w \in Workers : wpc[w] = "dead" /\ wpc' = [wpc EXCEPT ![w] = "starting"]
    BY <1>5, Zenon DEF TestAlive, StartThread, PushMsg, PushCount
  <2>3. QED
    BY <1>1, <1>2, <2>1, <2>2
<1>6. ASSUME NEW w \in Workers,
             \/ BeginThread(w) \/ CloseFirst(w) \/ OpenSucceeds(w) \/ OpenFails(w)
             \/ TestChannel(w) \/ TestInner(w) \/ WaitForWork(w) \/ WakeUp(w) \/ CountHead(w)
             \/ FetchEnds(w)
      PROVE  CopiesInv'
  <2>1. UNCHANGED <<batch, fate, posted, sendQueue, spc, resent>>
    BY <1>6, Zenon DEF BeginThread, CloseFirst, OpenSucceeds, OpenFails, TestChannel, TestInner,
                       WaitForWork, WakeUp, CountHead, FetchEnds
  <2>2. crossed => crossed'
    BY <1>6 DEF BeginThread, CloseFirst, OpenSucceeds, OpenFails, TestChannel, TestInner,
                WaitForWork, WakeUp, CountHead, FetchEnds
  <2>3. wpc[w] # "try" /\ (wpc' = wpc \/ \E pc : pc # "try" /\ wpc' = [wpc EXCEPT ![w] = pc])
    BY <1>6 DEF BeginThread, CloseFirst, OpenSucceeds, OpenFails, TestChannel, TestInner,
                WaitForWork, WakeUp, CountHead, FetchEnds, Dies, WorkerTo
  <2>4. \A v \in Workers \ {w} : tries'[v] = tries[v]
    BY <1>1, <1>6 DEF BeginThread, CloseFirst, OpenSucceeds, OpenFails, TestChannel, TestInner,
                      WaitForWork, WakeUp, CountHead, FetchEnds
  <2>5. QED
    BY <1>1, <1>2, <2>1, <2>2, <2>3, <2>4
<1>7. ASSUME NEW w \in Workers, LeaveLoop(w) PROVE CopiesInv'
  <2>1. /\ UNCHANGED <<batch, fate, posted, sendQueue, spc, crossed, tries>> /\ batch[w] = <<>>
        /\ resent \subseteq resent'
    BY <1>7 DEF LeaveLoop, FInv, BatchInv
  <2>2. \A v \in Workers \ {w} : wpc'[v] = wpc[v]
    BY <1>1, <1>7 DEF LeaveLoop, Dies, WorkerTo
  <2>3. QED
    BY <1>2, <2>1, <2>2
<1>8. ASSUME NEW w \in Workers, NEW i \in Elems(sendQueue), i \in Items,
             Elems(sendQueue') \subseteq Elems(sendQueue),
             Elems(batch'[w]) \subseteq Elems(batch[w]) \union {i},
             \A v \in Workers \ {w} : batch'[v] = batch[v],
             wpc[w] # "try", wpc'[w] # "try", \A v \in Workers \ {w} : wpc'[v] = wpc[v],
             UNCHANGED <<tries, fate, posted, spc, crossed, resent>>
      PROVE  CopiesInv'
  <2>1. \A j \in Items : Copies(j)' = Copies(j)
    BY <1>8 DEF Copies
  <2>2. Copies(i) = {} /\ \A j \in Elems(batch[w]) : Copies(j) = {} /\ j \in Items
    BY <1>1, <1>8 DEF CopiesInv
  <2>3. ASSUME NEW v \in Workers, NEW j \in Elems(batch'[v])
        PROVE  IF wpc'[v] = "try" THEN Cardinality(Copies(j)') <= tries'[v] ELSE Copies(j)' = {}
    BY <1>1, <1>8, <2>1, <2>2, <2>3 DEF CopiesInv
  <2>4. QED
    BY <1>1, <1>8, <2>1, <2>3 DEF CopiesInv
<1>9. ASSUME NEW w \in Workers, TakeHead(w) PROVE CopiesInv'
  <2>1. sendQueue # <<>> /\ sendQueue' = Tail(sendQueue) /\ batch'[w] = <<Head(sendQueue)>>
    BY <1>1, <1>9 DEF TakeHead
  <2>2. Distinct(sendQueue)
    BY Vanishing DEF FInv
  <2>3. /\ Head(sendQueue) \in Elems(sendQueue) /\ Head(sendQueue) \in Items
        /\ Elems(sendQueue') \subseteq Elems(sendQueue)
    BY <1>1, <2>1, <2>2, TailElems
  <2>4. Elems(<<Head(sendQueue)>>) = {Head(sendQueue)}
    BY DEF Elems
  <2>5. QED
    BY <1>1, <1>8, <1>9, <2>1, <2>3, <2>4 DEF TakeHead, WorkerTo
<1>10. ASSUME NEW w \in Workers, FetchMate(w) PROVE CopiesInv'
  <2>1. PICK n \in DOMAIN sendQueue :
          /\ batch' = [batch EXCEPT ![w] = Append(@, sendQueue[n])]
          /\ sendQueue' = RemoveIndex(sendQueue, n)
    BY <1>10 DEF FetchMate
  <2>2. Distinct(sendQueue)
    BY Vanishing DEF FInv
  <2>3. sendQueue[n] \in Items /\ sendQueue[n] \in Elems(sendQueue)
    BY <1>1 DEF Elems
  <2>4. Elems(sendQueue') \subseteq Elems(sendQueue)
    BY <1>1, <2>1, <2>2, RemoveElems
  <2>5. batch'[w] = Append(batch[w], sendQueue[n])
    BY <1>1, <2>1
  <2>6. Elems(batch'[w]) = Elems(batch[w]) \union {sendQueue[n]}
    BY <1>1, <2>3, <2>5, AppendElems
  <2>7. QED
    BY <1>1, <1>8, <1>10, <2>1, <2>3, <2>4, <2>6 DEF FetchMate
<1>11. ASSUME NEW w \in Workers, NEW outcome, Settle(w, outcome), sendQueue' = sendQueue,
             UNCHANGED <<spc, crossed, resent>>,
             wpc'[w] # "try", \A v \in Workers \ {w} : wpc'[v] = wpc[v],
             \A i \in Items : /\ Cardinality(Copies(i)') <= MaxTry \/ i \in resent
                              /\ i \notin Elems(batch[w]) =>
                                   \/ Copies(i)' = Copies(i)
                                   \/ i \in Elems(last[w]) /\ Copies(i)' # {}
                              /\ i \in Elems(batch[w]) =>
                                   \/ outcome = "sent" /\ Copies(i)' # {}
                                   \/ outcome = "failed"
                                   \/ outcome = "lost" /\ Copies(i)' = {} /\ (spc = "closed" \/ crossed)
      PROVE  CopiesInv'
  <2>1. \A i \in Items : fate'[i] = IF i \in Elems(batch[w]) THEN outcome ELSE fate[i]
    BY <1>11 DEF Settle
  <2>2. /\ batch'[w] = <<>> /\ \A v \in Workers \ {w} : batch'[v] = batch[v] /\ tries'[v] = tries[v]
    BY <1>1, <1>11 DEF Settle
  <2>3. \A v \in Workers \ {w} : Elems(batch[v]) \intersect Elems(batch[w]) = {}
    BY Vanishing DEF FInv
  <2>4. Elems(batch[w]) \intersect Elems(sendQueue) = {}
    BY Vanishing DEF FInv
  <2>5. \A i \in Items : i \in Elems(last[w]) =>
          /\ fate[i] \in {"sent", "failed"} /\ i \notin Elems(sendQueue)
          /\ \A v \in Workers : i \notin Elems(batch[v])
    BY <1>1, Vanishing DEF LastInv, FInv
  <2>6. ASSUME NEW v \in Workers, NEW j \in Elems(batch'[v])
        PROVE  IF wpc'[v] = "try" THEN Cardinality(Copies(j)') <= tries'[v] ELSE Copies(j)' = {}
    <3>1. v # w
      BY <2>2, <2>6 DEF Elems
    <3>2. j \in Elems(batch[v]) /\ j \in Items /\ j \notin Elems(batch[w])
      BY <1>1, <2>2, <2>3, <2>6, <3>1
    <3>3. Copies(j)' = Copies(j)
      BY <1>11, <2>5, <3>2
    <3>4. QED
      BY <1>1, <1>11, <2>2, <3>1, <3>2, <3>3 DEF CopiesInv
  <2>7. ASSUME NEW i \in Items
        PROVE  /\ fate'[i] = "sent" => Copies(i)' # {}
               /\ fate'[i] \in {"new", "lost"} => Copies(i)' = {}
               /\ fate'[i] = "lost" => spc' = "closed" \/ crossed'
               /\ i \in Elems(sendQueue') => Copies(i)' = {}
    <3>1. CASE i \in Elems(batch[w])
      BY <1>11, <2>1, <2>4, <3>1
    <3>2. CASE i \notin Elems(batch[w]) /\ Copies(i)' = Copies(i)
      BY <1>1, <1>11, <2>1, <3>2 DEF CopiesInv
    <3>3. CASE i \notin Elems(batch[w]) /\ i \in Elems(last[w]) /\ Copies(i)' # {}
      BY <1>11, <2>1, <2>5, <3>3
    <3>4. QED
      BY <1>11, <3>1, <3>2, <3>3
  <2>8. QED
    BY <1>11, <2>6, <2>7 DEF CopiesInv
<1>12. ASSUME NEW w \in Workers, TestChannelAgain(w) PROVE CopiesInv'
  <2>1. wpc[w] = "check" /\ UNCHANGED <<sendQueue, spc, posted, crossed, resent>>
    BY <1>12, Zenon DEF TestChannelAgain
  <2>2. \A i \in Items : Copies(i)' = Copies(i)
    BY <2>1 DEF Copies
  <2>3. \A i \in Elems(batch[w]) : Copies(i) = {} /\ i \in Items
    BY <1>1, <2>1 DEF CopiesInv
  <2>4. CASE channel
    <3>1. UNCHANGED <<batch, tries, fate>> /\ wpc' = [wpc EXCEPT ![w] = "try"]
      BY <1>12, <2>4 DEF TestChannelAgain, WorkerTo
    <3>2. tries[w] \in 0..MaxTry /\ \A v \in Workers \ {w} : wpc'[v] = wpc[v]
      BY <1>1, <3>1
    <3>3. \A i \in Elems(batch[w]) : Cardinality(Copies(i)) <= tries[w]
      <4>1. ASSUME NEW i \in Elems(batch[w]) PROVE Cardinality(Copies(i)) <= tries[w]
        <5>1. i \in Items /\ Copies(i) = {}
          BY <2>3
        <5>2. Cardinality(Copies(i)) = 0
          BY <1>1, <5>1, CopiesCount
        <5>3. QED
          BY <1>1, <3>2, <5>2
      <4>2. QED
        BY <4>1
    <3>4. ASSUME NEW v \in Workers, NEW j \in Elems(batch'[v])
          PROVE  IF wpc'[v] = "try" THEN Cardinality(Copies(j)') <= tries'[v] ELSE Copies(j)' = {}
      <4>1. CASE v = w
        BY <1>1, <2>2, <2>3, <3>1, <3>3, <3>4, <4>1
      <4>2. CASE v # w
        BY <1>1, <2>2, <3>1, <3>2, <3>4, <4>2 DEF CopiesInv
      <4>3. QED
        BY <4>1, <4>2
    <3>5. QED
      BY <1>1, <2>1, <2>2, <3>1, <3>4 DEF CopiesInv
  <2>5. CASE ~channel
    <3>1. Settle(w, "lost") /\ wpc' = [wpc EXCEPT ![w] = "dead"]
      BY <1>12, <2>5 DEF TestChannelAgain, Dies, WorkerTo
    <3>2. spc = "closed" \/ crossed
      BY <2>1, <2>5 DEF CInv, OpenInv, Unopened
    <3>3. \A i \in Items : Cardinality(Copies(i)) <= MaxTry \/ i \in resent
      BY <1>1 DEF CopiesInv
    <3>4. QED
      BY <1>1, <1>11, <2>1, <2>2, <2>3, <3>1, <3>2, <3>3
  <2>6. QED
    BY <2>4, <2>5
<1>13. ASSUME NEW w \in Workers, wpc[w] = "try", NEW i \in Items
      PROVE  /\ batch[w] # <<>> => MsgList(w) = batch[w]
             /\ batch[w] = <<>> => Elems(MsgList(w)) = Elems(last[w]) /\ Elems(batch[w]) = {}
             /\ i \in Elems(MsgList(w)) => \/ i \in Elems(batch[w])
                                           \/ i \in Elems(last[w]) /\ i \in resent
             /\ i \in Elems(batch[w]) => i \in Elems(MsgList(w))
             /\ MsgList(w) \in Seq(Items)
  BY <1>1, <1>13, MsgListType DEF LastInv, MsgList, Elems
<1>14. ASSUME NEW w \in Workers, SendSucceeds(w) PROVE CopiesInv'
  <2>1. /\ wpc[w] = "try" /\ tries[w] < MaxTry /\ posted' = Append(posted, MsgList(w))
        /\ wpc' = [wpc EXCEPT ![w] = "loop"] /\ Settle(w, "sent")
        /\ UNCHANGED <<sendQueue, spc, crossed, resent>>
    BY <1>14 DEF SendSucceeds, MayTry, WorkerTo
  <2>2. ASSUME NEW i \in Items
        PROVE  /\ Cardinality(Copies(i)') <= MaxTry \/ i \in resent
               /\ i \notin Elems(batch[w]) =>
                    Copies(i)' = Copies(i) \/ (i \in Elems(last[w]) /\ Copies(i)' # {})
               /\ i \in Elems(batch[w]) => Copies(i)' # {}
    <3>1. CASE i \in Elems(batch[w])
      <4>1. Cardinality(Copies(i)) <= tries[w] /\ Cardinality(Copies(i)) \in Nat
        BY <1>1, <2>1, <3>1, CopiesCount DEF CopiesInv
      <4>2. Copies(i)' # {} /\ Cardinality(Copies(i)') = Cardinality(Copies(i)) + 1
        BY <1>1, <1>13, <2>1, <3>1, PostAdds
      <4>3. tries[w] \in Nat
        BY <1>1
      <4>4. QED
        BY <1>1, <2>1, <3>1, <4>1, <4>2, <4>3
    <3>2. CASE i \notin Elems(MsgList(w))
      <4>1. Copies(i)' = Copies(i) /\ i \notin Elems(batch[w])
        BY <1>1, <1>13, <2>1, <3>2, PostAdds
      <4>2. QED
        BY <1>1, <4>1 DEF CopiesInv
    <3>3. CASE i \notin Elems(batch[w]) /\ i \in Elems(MsgList(w))
      <4>1. Copies(i)' # {} /\ i \in Elems(last[w]) /\ i \in resent
        BY <1>1, <1>13, <2>1, <3>3, PostAdds
      <4>2. QED
        BY <3>3, <4>1
    <3>4. QED
      BY <3>1, <3>2, <3>3
  <2>3. QED
    BY <1>1, <1>11, <2>1, <2>2
<1>15. ASSUME NEW w \in Workers, SendFails(w) PROVE CopiesInv'
  <2>1. /\ wpc[w] = "try" /\ tries[w] < MaxTry /\ posted' \in {posted, Append(posted, MsgList(w))}
        /\ tries' = [tries EXCEPT ![w] = tries[w] + 1]
        /\ UNCHANGED <<sendQueue, spc, wpc, batch, fate, crossed, resent>>
    BY <1>15 DEF SendFails, MayTry
  <2>2. tries[w] \in Nat /\ tries'[w] = tries[w] + 1 /\ \A v \in Workers \ {w} : tries'[v] = tries[v]
    BY <1>1, <2>1
  <2>3. ASSUME NEW i \in Items
        PROVE  /\ i \notin Elems(batch[w]) =>
                    \/ Copies(i)' = Copies(i)
                    \/ i \in Elems(last[w]) /\ i \in resent /\ Copies(i)' # {}
               /\ i \in Elems(batch[w]) => Cardinality(Copies(i)') <= tries[w] + 1
    <3>1. CASE posted' = posted
      <4>1. Copies(i)' = Copies(i) /\ Cardinality(Copies(i)) \in Nat
        BY <1>1, <3>1, CopiesCount DEF Copies
      <4>2. i \in Elems(batch[w]) => Cardinality(Copies(i)) <= tries[w]
        BY <1>1, <2>1 DEF CopiesInv
      <4>3. QED
        BY <2>2, <4>1, <4>2
    <3>2. CASE posted' = Append(posted, MsgList(w))
      <4>1. /\ i \notin Elems(MsgList(w)) => Copies(i)' = Copies(i)
            /\ i \in Elems(MsgList(w)) =>
                 Copies(i)' # {} /\ Cardinality(Copies(i)') = Cardinality(Copies(i)) + 1
        BY <1>1, <1>13, <2>1, <3>2, PostAdds
      <4>2. i \in Elems(batch[w]) => Cardinality(Copies(i)) <= tries[w] /\ i \in Elems(MsgList(w))
        BY <1>1, <1>13, <2>1 DEF CopiesInv
      <4>3. Cardinality(Copies(i)) \in Nat
        BY <1>1, CopiesCount
      <4>4. i \in Elems(batch[w]) => Cardinality(Copies(i)') <= tries[w] + 1
        BY <2>2, <4>1, <4>2, <4>3
      <4>5. i \notin Elems(batch[w]) =>
              \/ Copies(i)' = Copies(i)
              \/ i \in Elems(last[w]) /\ i \in resent /\ Copies(i)' # {}
        BY <1>13, <2>1, <4>1
      <4>6. QED
        BY <4>4, <4>5
    <3>3. QED
      BY <2>1, <3>1, <3>2
  <2>4. \A i \in Elems(batch[w]) : i \in Items /\ fate[i] = "accepted" /\ i \notin Elems(sendQueue)
    BY <1>1, Vanishing DEF FInv
  <2>5. \A v \in Workers \ {w} : Elems(batch[v]) \intersect Elems(batch[w]) = {}
    BY Vanishing DEF FInv
  <2>6. \A i \in Items : i \in Elems(last[w]) =>
          /\ fate[i] \in {"sent", "failed"} /\ i \notin Elems(sendQueue)
          /\ \A v \in Workers : i \notin Elems(batch[v])
    BY <1>1, Vanishing DEF LastInv, FInv
  <2>7. ASSUME NEW i \in Items
        PROVE  /\ Cardinality(Copies(i)') <= MaxTry \/ i \in resent'
               /\ fate'[i] = "sent" => Copies(i)' # {}
               /\ fate'[i] \in {"new", "lost"} => Copies(i)' = {}
               /\ fate'[i] = "lost" => spc' = "closed" \/ crossed'
               /\ i \in Elems(sendQueue') => Copies(i)' = {}
    <3>1. CASE i \in Elems(batch[w])
      <4>1. Cardinality(Copies(i)') <= tries[w] + 1
        BY <2>3, <3>1
      <4>2. Cardinality(Copies(i)') \in Nat
        <5>1. TypeOK'
          BY TypeStep DEF IInv
        <5>2. Len(posted') \in Nat /\ DOMAIN posted' = 1..Len(posted')
          BY <5>1 DEF TypeOK
        <5>3. IsFiniteSet(1..Len(posted')) /\ Copies(i)' \subseteq 1..Len(posted')
          BY <5>2, FS_Interval DEF Copies
        <5>4. QED
          BY <5>3, FS_Subset, FS_CardinalityType
      <4>3. Cardinality(Copies(i)') <= MaxTry
        BY <1>1, <2>1, <2>2, <4>1, <4>2
      <4>4. QED
        BY <2>1, <2>4, <3>1, <4>3
    <3>2. CASE i \notin Elems(batch[w]) /\ Copies(i)' = Copies(i)
      BY <1>1, <2>1, <3>2 DEF CopiesInv
    <3>3. CASE i \notin Elems(batch[w]) /\ i \in Elems(last[w]) /\ i \in resent /\ Copies(i)' # {}
      BY <2>1, <2>6, <3>3
    <3>4. QED
      BY <2>3, <3>1, <3>2, <3>3
  <2>8. ASSUME NEW v \in Workers, NEW j \in Elems(batch'[v])
        PROVE  IF wpc'[v] = "try" THEN Cardinality(Copies(j)') <= tries'[v] ELSE Copies(j)' = {}
    <3>1. j \in Elems(batch[v]) /\ j \in Items
      BY <1>1, <2>1, <2>8
    <3>2. CASE v = w
      BY <2>1, <2>2, <2>3, <3>1, <3>2
    <3>3. CASE v # w
      <4>1. Copies(j)' = Copies(j)
        BY <2>3, <2>5, <2>6, <3>1, <3>3
      <4>2. QED
        BY <1>1, <2>1, <2>2, <3>1, <3>3, <4>1 DEF CopiesInv
    <3>4. QED
      BY <3>2, <3>3
  <2>9. QED
    BY <2>7, <2>8 DEF CopiesInv
<1>16. ASSUME NEW w \in Workers, GiveUp(w) PROVE CopiesInv'
  <2>1. /\ wpc' = [wpc EXCEPT ![w] = "loop"] /\ Settle(w, "failed")
        /\ UNCHANGED <<sendQueue, spc, posted, crossed, resent>>
    BY <1>16 DEF GiveUp, WorkerTo
  <2>2. \A i \in Items : Copies(i)' = Copies(i) /\ (Cardinality(Copies(i)) <= MaxTry \/ i \in resent)
    BY <1>1, <2>1 DEF Copies, CopiesInv
  <2>3. QED
    BY <1>1, <1>11, <2>1, <2>2
<1>17. CASE ShutdownNext \/ UNCHANGED vars
  BY <1>2, <1>17 DEF ShutdownNext, ShutdownFlush, ShutdownFlag, ShutdownClose, vars
<1>18. QED
  BY <1>3, <1>4, <1>5, <1>6, <1>7, <1>9, <1>10, <1>12, <1>14, <1>15, <1>16, <1>17
  DEF Next, WorkerNext, PushNext

LEMMA InitCInv == Init => CInv
<1> SUFFICES ASSUME Init PROVE CInv
  OBVIOUS
<1>1. \A i \in Items : Copies(i) = {}
  BY DEF Init, Copies
<1>2. Elems(<<>>) = {} /\ Cardinality({}) = 0 /\ MaxTry \in Nat
  BY FS_EmptySet, LimitsAssumption DEF Elems
<1>3. QED
  <2>1. OpenInv /\ LastInv
    BY <1>2 DEF Init, OpenInv, Unopened, LastInv
  <2>2. /\ \A i \in Items : fate[i] = "new" /\ i \notin Elems(sendQueue)
        /\ \A w \in Workers : Elems(batch[w]) = {}
    BY <1>2 DEF Init
  <2>3. \A i \in Items : Cardinality(Copies(i)) <= MaxTry
    <3>1. \A i \in Items : Cardinality(Copies(i)) = 0
      BY <1>1, <1>2, Zenon
    <3>2. QED
      BY <1>2, <3>1
  <2>4. QED
    BY <1>1, <2>1, <2>2, <2>3 DEF CInv, CopiesInv

LEMMA CopiesInvariance == Spec => []CInv
<1>1. IInv /\ FInv /\ BInv /\ CInv /\ [Next]_vars => CInv'
  BY OpenStep, LastStep, CopiesStep DEF CInv, IInv, BInv
<1>2. QED
  BY <1>1, InitCInv, BatchInvariance, FateInvariance, Invariance, PTL DEF Spec

\* Retries repeat a post at most MaxTry times unless the channel was opened again under a thread
\* that had lost it; what was sent was stored, what was never tried was not; and only a shutdown,
\* or an incarnation that closes another's channel, loses a message untried, for any callers and
\* incarnations (WBPushPullers.py 156-234, AbsWhiteboard.py 330-388).
THEOREM PostsAgree == Spec => []PostedAgreesWithFate
<1>1. CInv => PostedAgreesWithFate
  BY DEF CInv, CopiesInv, Copies, PostedAgreesWithFate
<1>2. QED
  BY <1>1, CopiesInvariance, PTL

-----------------------------------------------------------------------------
(* The Pusher implements Mailbox *)

\* No two incarnations hold a batch.
OneBatch == \A u, v \in Workers : batch[u] # <<>> /\ batch[v] # <<>> => u = v

boxes == [k \in {KeyOf(i) : i \in Items} |-> Pending(k)]

stores == [k \in {KeyOf(i) : i \in Items} |-> Stored(k)]

PostsTo(k) == {b \in Seq(Items) : KeyOf(b[1]) = k}

LEMMA DrainerIs ==
  ASSUME NEW b, NEW w \in Workers, \A u \in Workers \ {w} : b[u] = <<>>
  PROVE  b[Drainer(b)] = b[w]
<1>1. \A u \in Workers : b[u] # <<>> => u = w
  OBVIOUS
<1>2. Drainer(b) \in Workers /\ \A u \in Workers : b[u] # <<>> => u = Drainer(b)
  BY <1>1, Zenon DEF Drainer
<1>3. QED
  BY <1>1, <1>2

\* What is pending, in a state and in its successor, when at most w has a batch.
LEMMA PendingIs ==
  ASSUME NEW w \in Workers, NEW k
  PROVE  /\ (\A u \in Workers \ {w} : batch[u] = <<>>) =>
              Pending(k) = Only(batch[w], OfKey(k)) \o Only(sendQueue, OfKey(k))
         /\ (\A u \in Workers \ {w} : batch'[u] = <<>>) =>
              Pending(k)' = Only(batch'[w], OfKey(k)) \o Only(sendQueue', OfKey(k))
<1>1. ASSUME \A u \in Workers \ {w} : batch[u] = <<>> PROVE batch[Drainer(batch)] = batch[w]
  BY <1>1, DrainerIs
<1>2. ASSUME \A u \in Workers \ {w} : batch'[u] = <<>> PROVE batch'[Drainer(batch')] = batch'[w]
  BY <1>2, DrainerIs
<1>3. QED
  BY <1>1, <1>2, Zenon DEF Pending, Drainer, OfKey

\* What an empty batch, one message, and a queue without its head contribute.
LEMMA HeadAndTail ==
  ASSUME NEW A, NEW s \in Seq(A), s # <<>>
  PROVE  <<Head(s)>> \in Seq(A) /\ Tail(s) \in Seq(A) /\ s = <<Head(s)>> \o Tail(s)
<1>1. /\ Len(s) \in Nat \ {0} /\ Head(s) = s[1] /\ Head(s) \in A /\ Tail(s) \in Seq(A)
      /\ DOMAIN Tail(s) = 1..Len(s) - 1 /\ \A n \in 1..Len(s) - 1 : Tail(s)[n] = s[n + 1]
  BY TailFacts
<1>2. <<Head(s)>> \in Seq(A)
  BY <1>1
<1>3. PICK h \in Seq(A), t \in Seq(A) : h = <<Head(s)>> /\ t = Tail(s)
  BY <1>1, <1>2, Zenon
<1>4. Len(h) = 1 /\ h[1] = s[1] /\ Len(t) = Len(s) - 1 /\ \A n \in 1..Len(s) - 1 : t[n] = s[n + 1]
  <2>1. Len(h) = 1 /\ h[1] = s[1]
    BY <1>1, <1>3
  <2>2. DOMAIN t = 1..Len(s) - 1 /\ \A n \in 1..Len(s) - 1 : t[n] = s[n + 1]
    BY <1>1, <1>3, Zenon
  <2>3. Len(t) = Len(s) - 1
    BY <1>1, <2>2, LenProperties
  <2>4. QED
    BY <2>1, <2>2, <2>3
<1>5. PICK u \in Seq(A) : u = h \o t
  BY ConcatProperties
<1>6. /\ Len(u) = Len(h) + Len(t)
       /\ \A n \in 1..Len(h) + Len(t) : u[n] = IF n <= Len(h) THEN h[n] ELSE t[n - Len(h)]
  BY <1>5, ConcatProperties
<1>7. Len(u) = Len(s)
  BY <1>1, <1>4, <1>6
<1>8. ASSUME NEW n \in 1..Len(s) PROVE u[n] = s[n]
  <2>1. n \in 1..Len(h) + Len(t)
    BY <1>1, <1>4
  <2>2. CASE n = 1
    BY <1>4, <1>6, <2>1, <2>2
  <2>3. CASE n # 1
    <3>1. PICK m \in 1..Len(s) - 1 : n = m + 1
      BY <1>1, <2>3
    <3>2. ~(n <= Len(h)) /\ n - Len(h) = m
      BY <1>1, <1>4, <3>1
    <3>3. QED
      BY <1>4, <1>6, <2>1, <3>1, <3>2
  <2>4. QED
    BY <2>2, <2>3
<1>9. u = s
  BY <1>7, <1>8, SeqEqual
<1>10. QED
  BY <1>1, <1>2, <1>3, <1>5, <1>9, Zenon

\* Taking the head out of the queue leaves what is kept as it was.
LEMMA OnlyOfHead ==
  ASSUME NEW A, NEW s \in Seq(A), s # <<>>, NEW S
  PROVE  Only(<<Head(s)>>, S) \o Only(Tail(s), S) = Only(<<>>, S) \o Only(s, S)
<1>1. \A t, u \in Seq(A) : Only(t \o u, S) = Only(t, S) \o Only(u, S)
  BY ONLY OnlyOfConcat
<1>2. PICK h \in Seq(A), t \in Seq(A) : h = <<Head(s)>> /\ t = Tail(s) /\ s = h \o t
  BY HeadAndTail, Zenon
<1>3. PICK none \in Seq(A) : none = <<>>
  BY EmptySeq
<1>4. Only(s, S) = Only(h, S) \o Only(t, S)
  BY <1>1, <1>2, Zenon
<1>5. s = none \o s
  BY <1>3, ConcatEmptySeq
<1>6. Only(s, S) = Only(none, S) \o Only(s, S)
  BY <1>1, <1>5, Zenon
<1>7. QED
  BY <1>2, <1>3, <1>4, <1>6, Zenon

\* Neither does moving the oldest message that is kept, or one that is not kept, to the batch.
LEMMA OnlyOfMove ==
  ASSUME NEW A, NEW b \in Seq(A), NEW s \in Seq(A), NEW n \in DOMAIN s, NEW S,
         s[n] \in S => \A m \in 1..n - 1 : s[m] \notin S
  PROVE  Only(Append(b, s[n]), S) \o Only(RemoveIndex(s, n), S) = Only(b, S) \o Only(s, S)
<1>1. \A t \in Seq(A) : \A f \in A :
        Only(Append(t, f), S) = IF f \in S THEN Append(Only(t, S), f) ELSE Only(t, S)
  BY ONLY OnlyOfAppend
<1>2. /\ RemoveIndex(s, n) \in Seq(A)
      /\ s[n] \notin S => Only(s, S) = Only(RemoveIndex(s, n), S)
      /\ s[n] \in S => Only(s, S) = <<s[n]>> \o Only(RemoveIndex(s, n), S)
  <2>1. /\ Lacking(s, n) \in Seq(A)
        /\ s[n] \notin S => Only(s, S) = Only(Lacking(s, n), S)
        /\ s[n] \in S /\ (\A m \in 1..n - 1 : s[m] \notin S)
             => Only(s, S) = <<s[n]>> \o Only(Lacking(s, n), S)
    BY OnlyWithout
  <2>2. Lacking(s, n) = RemoveIndex(s, n)
    BY Zenon DEF Lacking, RemoveIndex
  <2>3. QED
    BY <2>1, <2>2, Zenon
<1>3. PICK e \in A : e = s[n]
  BY ElementOfSeq
<1>4. PICK r \in Seq(A) : r = RemoveIndex(s, n)
  BY <1>2, Zenon
<1>5. Only(Append(b, e), S) = IF e \in S THEN Append(Only(b, S), e) ELSE Only(b, S)
  BY <1>1, Zenon
<1>6. PICK x \in Seq(A), y \in Seq(A) : x = Only(b, S) /\ y = Only(r, S)
  <2>1. Only(b, S) \in Seq(A) /\ Only(r, S) \in Seq(A)
    BY OnlyElems
  <2>2. QED
    BY <2>1, Zenon
<1>7. CASE e \in S
  <2>1. Only(s, S) = <<e>> \o y
    BY <1>2, <1>3, <1>4, <1>6, <1>7, Zenon
  <2>2. Only(Append(b, e), S) = Append(x, e)
    BY <1>5, <1>6, <1>7, Zenon
  <2>3. Append(x, e) \o y = x \o (<<e>> \o y)
    BY AppendToConcat
  <2>4. QED
    BY <1>3, <1>4, <1>6, <2>1, <2>2, <2>3, Zenon
<1>8. CASE e \notin S
  <2>1. Only(s, S) = y
    BY <1>2, <1>3, <1>4, <1>6, <1>8, Zenon
  <2>2. Only(Append(b, e), S) = x
    BY <1>5, <1>6, <1>8, Zenon
  <2>3. QED
    BY <1>3, <1>4, <1>6, <2>1, <2>2, Zenon
<1>9. QED
  BY <1>7, <1>8

\* No incarnation posts its last messages again.
PostsBatches == \A w \in Workers : wpc[w] = "try" => batch[w] # <<>>

\* The invariants a step of the mailbox follows from.
MailInv == IInv /\ FInv /\ RoomInv /\ OneBatch /\ PostsBatches

\* One incarnation has every batch there is.
LEMMA OneHolder ==
  ASSUME OneBatch, Workers # {}
  PROVE  /\ \E w \in Workers : \A u \in Workers \ {w} : batch[u] = <<>>
         /\ \A w \in Workers : batch[w] # <<>> => \A u \in Workers \ {w} : batch[u] = <<>>
BY Zenon DEF OneBatch

\* A caller's message goes to the end of its destination's.
LEMMA AcceptMails ==
  ASSUME MailInv, Workers # {}, NEW c \in Callers, PushAppend(c)
  PROVE  \E i \in Items : Mail!Accept(i)
<1>1. PICK i \in Items : i = citem[c] /\ fate[i] = "new"
  BY DEF PushAppend, MailInv, IInv, CarryInv, FInv, PushInv, Pushing
<1>2. /\ sendQueue' = Append(sendQueue, i) /\ batch' = batch /\ posted' = posted
      /\ fate' = [fate EXCEPT ![i] = "accepted"]
  BY <1>1 DEF PushAppend, workerVars
<1>3. PICK w \in Workers : \A u \in Workers \ {w} : batch[u] = <<>>
  BY OneHolder DEF MailInv
<1>4. PICK b \in Seq(Items), q \in Seq(Items) : b = batch[w] /\ q = sendQueue
  BY DEF MailInv, IInv, TypeOK
<1>5. ASSUME NEW k
      PROVE  Pending(k)' = IF i \in OfKey(k) THEN Append(Pending(k), i) ELSE Pending(k)
  <2> DEFINE S == OfKey(k)
  <2>1. Only(Append(q, i), S) = IF i \in S THEN Append(Only(q, S), i) ELSE Only(q, S)
    BY ONLY OnlyOfAppend, q \in Seq(Items), i \in Items
  <2>2. PICK x \in Seq(Items), y \in Seq(Items) : x = Only(b, S) /\ y = Only(q, S)
    <3>1. Only(b, S) \in Seq(Items) /\ Only(q, S) \in Seq(Items)
      BY ONLY OnlyElems, b \in Seq(Items), q \in Seq(Items)
    <3>2. QED
      BY <3>1, Zenon
  <2>3. x \o Append(y, i) = Append(x \o y, i)
    BY ONLY AppendToConcat, x \in Seq(Items), y \in Seq(Items), i \in Items
  <2>4. Pending(k) = x \o y /\ Pending(k)' = x \o Only(Append(q, i), S)
    BY <1>2, <1>3, <1>4, <2>2, PendingIs, Zenon
  <2>5. QED
    BY <2>1, <2>2, <2>3, <2>4, Zenon
<1>6. boxes' = [boxes EXCEPT ![KeyOf(i)] = Append(@, i)] /\ UNCHANGED stores
  <2>1. \A k : i \in OfKey(k) <=> k = KeyOf(i)
    BY DEF OfKey
  <2>2. boxes' = [boxes EXCEPT ![KeyOf(i)] = Append(@, i)]
    BY <1>5, <2>1 DEF boxes
  <2>3. UNCHANGED stores
    BY <1>2 DEF stores, Stored
  <2>4. QED
    BY <2>2, <2>3
<1>7. QED
  BY <1>1, <1>2, <1>6 DEF Mail!Accept, boxes, stores

\* Taking a message out of the queue leaves what is pending as it was.
LEMMA TakeRests ==
  ASSUME MailInv, OneBatch', NEW w \in Workers, TakeHead(w) \/ FetchMate(w)
  PROVE  boxes' = boxes /\ stores' = stores /\ fate' = fate
<1>1. UNCHANGED <<posted, fate>>
  BY DEF TakeHead, FetchMate, historyVars
<1>2. PICK b \in Seq(Items), q \in Seq(Items) : b = batch[w] /\ q = sendQueue
  BY DEF MailInv, IInv, TypeOK
<1>3. batch \in [Workers -> Seq(Items)]
  BY DEF MailInv, IInv, TypeOK
<1>4. CASE TakeHead(w)
  <2>1. /\ batch' = [batch EXCEPT ![w] = <<Head(q)>>] /\ sendQueue' = Tail(q) /\ q # <<>> /\ b = <<>>
    BY <1>2, <1>4 DEF TakeHead, MailInv, FInv, BatchInv
  <2>2. batch'[w] = <<Head(q)>> /\ \A u \in Workers \ {w} : batch'[u] = batch[u]
    BY <1>3, <2>1
  <2>3. \A u \in Workers \ {w} : batch'[u] = <<>>
    <3>1. <<Head(q)>> # <<>>
      OBVIOUS
    <3>2. QED
      BY <2>2, <3>1, Zenon DEF OneBatch
  <2>4. ASSUME NEW k PROVE Pending(k)' = Pending(k)
    <3>1. Only(<<Head(q)>>, OfKey(k)) \o Only(Tail(q), OfKey(k)) = Only(<<>>, OfKey(k)) \o Only(q, OfKey(k))
      BY <2>1, OnlyOfHead, Zenon
    <3>2. QED
      BY <1>2, <2>1, <2>2, <2>3, <3>1, PendingIs, Zenon
  <2>5. QED
    BY <1>1, <2>4 DEF boxes, stores, Stored
<1>5. CASE FetchMate(w)
  <2>1. PICK n \in DOMAIN q : /\ IsNextMate(w, n)
                              /\ batch' = [batch EXCEPT ![w] = Append(b, q[n])]
                              /\ sendQueue' = RemoveIndex(q, n)
    BY <1>2, <1>5 DEF FetchMate
  <2>2. b # <<>>
    BY <1>2, <1>5 DEF FetchMate, MailInv, RoomInv, RoomFor
  <2>3. \A u \in Workers \ {w} : batch[u] = <<>>
    BY <1>2, <2>2, OneHolder DEF MailInv
  <2>4. batch'[w] = Append(b, q[n]) /\ \A u \in Workers \ {w} : batch'[u] = <<>>
    BY <1>3, <2>1, <2>3
  <2>5. ASSUME NEW k PROVE Pending(k)' = Pending(k)
    <3>1. q[n] \in OfKey(k) => \A m \in 1..n - 1 : q[m] \notin OfKey(k)
      BY <1>2, <2>1 DEF IsNextMate, OfKey
    <3>2. Only(Append(b, q[n]), OfKey(k)) \o Only(RemoveIndex(q, n), OfKey(k)) = Only(b, OfKey(k)) \o Only(q, OfKey(k))
      BY ONLY <3>1, OnlyOfMove, b \in Seq(Items), q \in Seq(Items), n \in DOMAIN q
    <3>3. QED
      BY <1>2, <2>1, <2>3, <2>4, <3>2, PendingIs, Zenon
  <2>6. QED
    BY <1>1, <2>5 DEF boxes, stores, Stored
<1>6. QED
  BY <1>4, <1>5

Behind(k) == Only(sendQueue, OfKey(k))

\* A batch is the first that is pending for its destination.
LEMMA BatchFirst ==
  ASSUME MailInv, NEW w \in Workers, batch[w] # <<>>
  PROVE  /\ \A k : Behind(k) \in Seq(Items)
         /\ Pending(KeyOf(batch[w][1])) = batch[w] \o Behind(KeyOf(batch[w][1]))
         /\ \A k : k # KeyOf(batch[w][1]) => Pending(k) = Behind(k)
<1>1. PICK b \in Seq(Items), q \in Seq(Items) : b = batch[w] /\ q = sendQueue
  BY DEF MailInv, IInv, TypeOK
<1>2. \A k : Behind(k) \in Seq(Items)
  <2>1. \A k : Only(q, OfKey(k)) \in Seq(Items)
    BY ONLY OnlyElems, q \in Seq(Items)
  <2>2. QED
    BY <1>1, <2>1, Zenon DEF Behind
<1>3. \A u \in Workers \ {w} : batch[u] = <<>>
  BY OneHolder DEF MailInv
<1>4. \A k : Pending(k) = Only(b, OfKey(k)) \o Behind(k)
  BY <1>1, <1>3, PendingIs, Zenon DEF Behind
<1>5. /\ DOMAIN b = 1..Len(b) /\ 1 \in DOMAIN b
      /\ \A n \in DOMAIN b : b[n] \in Items /\ KeyOf(b[n]) = KeyOf(b[1])
  <2>1. DOMAIN b = 1..Len(b) /\ Len(b) \in Nat /\ \A n \in 1..Len(b) : b[n] \in Items
    BY LenProperties, ElementOfSeq
  <2>2. 1 \in DOMAIN b
    BY <1>1, <2>1, EmptySeq
  <2>3. \A n \in DOMAIN b : KeyOf(b[n]) = KeyOf(b[1])
    BY <1>1, <2>2, Zenon DEF MailInv, RoomInv, RoomFor
  <2>4. QED
    BY <2>1, <2>2, <2>3
<1>6. Only(b, OfKey(KeyOf(b[1]))) = b
  <2>1. \A n \in DOMAIN b : b[n] \in OfKey(KeyOf(b[1]))
    BY <1>5 DEF OfKey
  <2>2. QED
    BY ONLY <2>1, OnlyOfAll, b \in Seq(Items)
<1>7. ASSUME NEW k, k # KeyOf(b[1]) PROVE Pending(k) = Behind(k)
  <2>1. \A n \in DOMAIN b : b[n] \notin OfKey(k)
    BY <1>5, <1>7 DEF OfKey
  <2>2. Only(b, OfKey(k)) = <<>>
    BY ONLY <2>1, OnlyOfNone, b \in Seq(Items)
  <2>3. PICK r \in Seq(Items) : r = Behind(k)
    BY <1>2
  <2>4. <<>> \o r = r
    BY ONLY ConcatEmptySeq, r \in Seq(Items)
  <2>5. QED
    BY <1>4, <2>2, <2>3, <2>4, Zenon
<1>8. QED
  BY <1>1, <1>2, <1>4, <1>6, <1>7, Zenon

\* With the batch gone the rest is what is pending.
LEMMA RestPends ==
  ASSUME MailInv, NEW w \in Workers, batch[w] # <<>>, batch' = [batch EXCEPT ![w] = <<>>], sendQueue' = sendQueue
  PROVE  \A k : Pending(k)' = Behind(k)
<1>1. batch \in [Workers -> Seq(Items)] /\ sendQueue \in Seq(Items)
  BY DEF MailInv, IInv, TypeOK
<1>2. \A u \in Workers \ {w} : batch[u] = <<>>
  BY OneHolder DEF MailInv
<1>3. batch'[w] = <<>> /\ \A u \in Workers \ {w} : batch'[u] = <<>>
  BY <1>1, <1>2
<1>4. ASSUME NEW k PROVE Pending(k)' = Behind(k)
  <2>1. PICK none \in Seq(Items), r \in Seq(Items) : none = <<>> /\ r = Behind(k)
    BY BatchFirst, EmptySeq
  <2>2. \A n \in DOMAIN none : none[n] \notin OfKey(k)
    BY <2>1
  <2>3. Only(none, OfKey(k)) = none
    BY ONLY <2>1, <2>2, OnlyOfNone
  <2>4. none \o r = r
    BY ONLY <2>1, ConcatEmptySeq
  <2>5. Pending(k)' = Only(none, OfKey(k)) \o r
    BY <1>3, <2>1, PendingIs, Zenon DEF Behind
  <2>6. QED
    BY <2>1, <2>3, <2>4, <2>5, Zenon
<1>5. QED
  BY <1>4

\* A post is stored for its destination.
LEMMA PostStores ==
  ASSUME MailInv, NEW b \in Seq(Items), posted' = Append(posted, b)
  PROVE  \A k : Stored(k)' = IF k = KeyOf(b[1]) THEN Append(Stored(k), b) ELSE Stored(k)
<1>1. PICK p \in Seq(Seq(Items)) : p = posted
  BY DEF MailInv, IInv, TypeOK
<1>2. ASSUME NEW k PROVE Stored(k)' = IF k = KeyOf(b[1]) THEN Append(Stored(k), b) ELSE Stored(k)
  <2>1. Only(Append(p, b), PostsTo(k)) = IF b \in PostsTo(k) THEN Append(Only(p, PostsTo(k)), b) ELSE Only(p, PostsTo(k))
    BY ONLY OnlyOfAppend, p \in Seq(Seq(Items)), b \in Seq(Items)
  <2>2. b \in PostsTo(k) <=> k = KeyOf(b[1])
    BY Zenon DEF PostsTo
  <2>3. Stored(k) = Only(p, PostsTo(k)) /\ Stored(k)' = Only(Append(p, b), PostsTo(k))
    BY <1>1, Zenon DEF Stored, PostsTo
  <2>4. QED
    BY <2>1, <2>2, <2>3, Zenon
<1>3. QED
  BY <1>2

\* The batch is what the mailbox of its destination begins with.
LEMMA FrontIsBatch ==
  ASSUME MailInv, NEW w \in Workers, batch[w] # <<>>, NEW k, k = KeyOf(batch[w][1])
  PROVE  /\ k \in {KeyOf(i) : i \in Items} /\ boxes[k] = Pending(k)
         /\ Len(batch[w]) \in 1..Len(boxes[k])
         /\ SubSeq(boxes[k], 1, Len(batch[w])) = batch[w]
         /\ SubSeq(boxes[k], Len(batch[w]) + 1, Len(boxes[k])) = Behind(k)
         /\ \A m \in 1..Len(batch[w]) : boxes[k][m] = batch[w][m]
<1>1. PICK b \in Seq(Items), r \in Seq(Items) : b = batch[w] /\ r = Behind(k)
  BY BatchFirst DEF MailInv, IInv, TypeOK
<1>2. b # <<>> /\ Len(b) \in Nat \ {0} /\ Len(r) \in Nat /\ b[1] \in Items
  <2>1. b # <<>> /\ Len(b) \in Nat /\ Len(r) \in Nat
    BY <1>1, LenProperties
  <2>2. Len(b) # 0
    BY <2>1, EmptySeq
  <2>3. b[1] \in Items
    BY <2>1, <2>2, ElementOfSeq
  <2>4. QED
    BY <2>1, <2>2, <2>3
<1>3. k \in {KeyOf(i) : i \in Items}
  BY <1>1, <1>2
<1>4. boxes[k] = Pending(k)
  BY <1>3 DEF boxes
<1>5. Pending(k) = b \o r
  BY <1>1, BatchFirst, Zenon
<1>6. PICK u \in Seq(Items) : u = b \o r
  BY ConcatProperties
<1>7. Len(u) = Len(b) + Len(r) /\ \A m \in 1..Len(b) : u[m] = b[m]
  <2>1. /\ Len(u) = Len(b) + Len(r)
        /\ \A m \in 1..Len(b) + Len(r) : u[m] = IF m <= Len(b) THEN b[m] ELSE r[m - Len(b)]
    BY <1>6, ConcatProperties
  <2>2. ASSUME NEW m \in 1..Len(b) PROVE u[m] = b[m]
    <3>1. m \in 1..Len(b) + Len(r) /\ m <= Len(b)
      BY <1>2
    <3>2. QED
      BY <2>1, <3>1, Zenon
  <2>3. QED
    BY <2>1, <2>2
<1>8. Len(b) \in 1..Len(u)
  BY <1>2, <1>7
<1>9. SubSeq(b \o r, 1, Len(b)) = b /\ SubSeq(b \o r, Len(b) + 1, Len(b \o r)) = r
  BY ConcatParts, Zenon
<1>10. QED
  BY <1>1, <1>3, <1>4, <1>5, <1>6, <1>7, <1>8, <1>9, Zenon

LEMMA AttemptMails ==
  ASSUME MailInv, NEW w \in Workers, SendFails(w)
  PROVE  Mail!Next \/ (boxes' = boxes /\ stores' = stores /\ fate' = fate)
<1>1. UNCHANGED <<batch, sendQueue, fate>>
  BY DEF SendFails, queueVars
<1>2. boxes' = boxes
  BY <1>1 DEF boxes, Pending, Drainer
<1>3. CASE posted' = posted
  BY <1>1, <1>2, <1>3 DEF stores, Stored
<1>4. CASE posted' = Append(posted, MsgList(w))
  <2>1. batch[w] # <<>> /\ batch[w] \in Seq(Items) /\ MsgList(w) = batch[w]
    BY DEF SendFails, MailInv, PostsBatches, MsgList, IInv, TypeOK
  <2>2. PICK k \in {KeyOf(i) : i \in Items} : k = KeyOf(batch[w][1])
    BY <2>1, FrontIsBatch
  <2>3. stores' = [stores EXCEPT ![k] = Append(@, batch[w])]
    <3>1. \A x : Stored(x)' = IF x = k THEN Append(Stored(x), batch[w]) ELSE Stored(x)
      BY <1>4, <2>1, <2>2, PostStores, Zenon
    <3>2. QED
      BY <3>1 DEF stores
  <2>4. PICK n \in 1..Len(boxes[k]) : batch[w] = SubSeq(boxes[k], 1, n)
    <3>1. Len(batch[w]) \in 1..Len(boxes[k]) /\ batch[w] = SubSeq(boxes[k], 1, Len(batch[w]))
      BY <2>1, <2>2, FrontIsBatch, Zenon
    <3>2. QED
      BY <3>1, Zenon
  <2>5. Mail!Attempt(k, n)
    BY <1>1, <1>2, <2>3, <2>4 DEF Mail!Attempt, Mail!Post, Mail!Front, boxes, stores
  <2>6. QED
    BY <2>2, <2>4, <2>5 DEF Mail!Next, Mail!Keys, boxes
<1>5. QED
  BY <1>3, <1>4 DEF SendFails

LEMMA SettleMails ==
  ASSUME MailInv, NEW w \in Workers, wpc[w] \in {"check", "try"}, NEW outcome \in Mail!Outcomes,
         Settle(w, outcome), sendQueue' = sendQueue,
         posted' = IF outcome = "sent" THEN Append(posted, MsgList(w)) ELSE posted
  PROVE  Mail!Next
<1>1. batch[w] # <<>> /\ batch[w] \in Seq(Items) /\ MsgList(w) = batch[w]
  BY DEF MailInv, PostsBatches, MsgList, RoomInv, RoomFor, IInv, TypeOK
<1>2. PICK k \in {KeyOf(i) : i \in Items} : k = KeyOf(batch[w][1])
  BY <1>1, FrontIsBatch
<1>3. PICK n \in 1..Len(boxes[k]) : /\ n = Len(batch[w])
                                    /\ batch[w] = SubSeq(boxes[k], 1, n)
                                    /\ SubSeq(boxes[k], n + 1, Len(boxes[k])) = Behind(k)
                                    /\ \A m \in 1..n : boxes[k][m] = batch[w][m]
  <2>1. /\ Len(batch[w]) \in 1..Len(boxes[k])
        /\ SubSeq(boxes[k], 1, Len(batch[w])) = batch[w]
        /\ SubSeq(boxes[k], Len(batch[w]) + 1, Len(boxes[k])) = Behind(k)
        /\ \A m \in 1..Len(batch[w]) : boxes[k][m] = batch[w][m]
    BY <1>1, <1>2, FrontIsBatch, Zenon
  <2>2. PICK n \in 1..Len(boxes[k]) : n = Len(batch[w])
    BY <2>1, Zenon
  <2>3. QED
    BY <2>1, <2>2, Zenon
<1>4. boxes' = [boxes EXCEPT ![k] = SubSeq(@, n + 1, Len(@))]
  <2>1. \A x : Pending(x)' = Behind(x)
    BY <1>1, RestPends DEF Settle
  <2>2. \A x : x # k => Pending(x) = Behind(x)
    BY <1>1, <1>2, BatchFirst, Zenon
  <2>3. boxes' = [boxes EXCEPT ![k] = Behind(k)]
    BY <2>1, <2>2 DEF boxes
  <2>4. QED
    BY <1>3, <2>3
<1>5. outcome = "sent" => stores' = [stores EXCEPT ![k] = Append(@, SubSeq(boxes[k], 1, n))]
  <2>1. ASSUME outcome = "sent" PROVE stores' = [stores EXCEPT ![k] = Append(@, batch[w])]
    <3>1. \A x : Stored(x)' = IF x = k THEN Append(Stored(x), batch[w]) ELSE Stored(x)
      BY <1>1, <1>2, <2>1, PostStores, Zenon
    <3>2. QED
      BY <3>1 DEF stores
  <2>2. QED
    BY <1>3, <2>1
<1>6. outcome # "sent" => stores' = stores
  BY DEF stores, Stored
<1>7. fate' = [i \in Items |-> IF \E m \in 1..n : boxes[k][m] = i THEN outcome ELSE fate[i]]
  <2>1. DOMAIN batch[w] = 1..n
    BY <1>1, <1>3, LenProperties
  <2>2. \A i \in Items : i \in Elems(batch[w]) <=> \E m \in 1..n : boxes[k][m] = i
    BY <1>3, <2>1, Zenon DEF Elems
  <2>3. QED
    BY <2>2 DEF Settle
<1>8. Mail!Settle(k, n, outcome)
  BY <1>4, <1>5, <1>6, <1>7 DEF Mail!Settle, Mail!Post, Mail!Front, boxes, stores
<1>9. QED
  BY <1>8 DEF Mail!Next, Mail!Keys, boxes

LEMMA MailStep ==
  ASSUME MailInv, OneBatch', Workers # {}, [Next]_vars
  PROVE  Mail!Next \/ (boxes' = boxes /\ stores' = stores /\ fate' = fate)
<1>1. UNCHANGED <<sendQueue, batch, posted, fate>> => boxes' = boxes /\ stores' = stores /\ fate' = fate
  BY DEF boxes, Pending, Drainer, stores, Stored
<1>2. ASSUME NEW c \in Callers, PushAppend(c) PROVE Mail!Next
  BY <1>2, AcceptMails DEF Mail!Next
<1>3. ASSUME NEW w \in Workers, TakeHead(w) \/ FetchMate(w)
      PROVE  boxes' = boxes /\ stores' = stores /\ fate' = fate
  BY <1>3, TakeRests
<1>4. ASSUME NEW w \in Workers, SendFails(w)
      PROVE  Mail!Next \/ (boxes' = boxes /\ stores' = stores /\ fate' = fate)
  BY <1>4, AttemptMails
<1>5. ASSUME NEW w \in Workers, SendSucceeds(w) PROVE Mail!Next
  BY <1>5, SettleMails DEF SendSucceeds, queueVars, Mail!Outcomes
<1>6. ASSUME NEW w \in Workers, GiveUp(w) PROVE Mail!Next
  BY <1>6, SettleMails DEF GiveUp, queueVars, Mail!Outcomes
<1>7. ASSUME NEW w \in Workers, TestChannelAgain(w)
      PROVE  Mail!Next \/ UNCHANGED <<sendQueue, batch, posted, fate>>
  BY <1>7, SettleMails DEF TestChannelAgain, queueVars, Mail!Outcomes
<1>8. ASSUME NEW c \in Callers, NEW i \in Items, SendMsg(c, i)
      PROVE  UNCHANGED <<sendQueue, batch, posted, fate>>
  BY <1>8 DEF SendMsg, queueVars, workerVars, historyVars
<1>9. ASSUME NEW c \in Callers, TestAlive(c) \/ StartThread(c) \/ PushMsg(c) \/ PushCount(c)
      PROVE  UNCHANGED <<sendQueue, batch, posted, fate>>
  BY <1>9 DEF TestAlive, StartThread, PushMsg, PushCount, queueVars, workerVars, historyVars
<1>10. ASSUME NEW w \in Workers,
              \/ BeginThread(w) \/ CloseFirst(w) \/ OpenSucceeds(w) \/ OpenFails(w)
              \/ TestChannel(w) \/ TestInner(w) \/ LeaveLoop(w) \/ WaitForWork(w)
              \/ WakeUp(w) \/ CountHead(w) \/ FetchEnds(w)
       PROVE  UNCHANGED <<sendQueue, batch, posted, fate>>
  BY <1>10 DEF BeginThread, CloseFirst, OpenSucceeds, OpenFails, TestChannel, TestInner, LeaveLoop,
               WaitForWork, WakeUp, CountHead, FetchEnds, queueVars, workerVars, historyVars
<1>11. ShutdownNext => UNCHANGED <<sendQueue, batch, posted, fate>>
  BY DEF ShutdownNext, ShutdownFlush, ShutdownFlag, ShutdownClose, queueVars, workerVars, historyVars
<1>12. CASE UNCHANGED vars
  BY <1>1, <1>12 DEF vars, queueVars, workerVars, historyVars
<1>13. QED
  BY <1>1, <1>2, <1>3, <1>4, <1>5, <1>6, <1>7, <1>8, <1>9, <1>10, <1>11, <1>12 DEF Next, WorkerNext, PushNext

LEMMA InitMails ==
  ASSUME Init, Workers # {}
  PROVE  Mail!Init
<1>1. PICK none \in Seq(Items) : none = <<>>
  BY EmptySeq
<1>2. \A S : Only(none, S) = none
  <2>1. \A n \in DOMAIN none : FALSE
    BY <1>1
  <2>2. QED
    BY ONLY <1>1, <2>1, OnlyOfNone
<1>3. PICK w \in Workers : \A u \in Workers \ {w} : batch[u] = <<>>
  BY DEF Init
<1>4. batch[w] = none /\ sendQueue = none /\ posted = none
  BY <1>1 DEF Init
<1>5. none \o none = none
  BY ONLY <1>1, ConcatEmptySeq
<1>6. \A k : Pending(k) = none
  BY <1>2, <1>3, <1>4, <1>5, PendingIs, Zenon
<1>7. \A k : Stored(k) = none
  BY <1>2, <1>4, Zenon DEF Stored
<1>8. QED
  BY <1>1, <1>6, <1>7 DEF Init, Mail!Init, Mail!Keys

\* No incarnation holds a batch beside another's, or posts one again.
Undisturbed == OneBatch /\ resent = {}

LEMMA BatchesOnly ==
  ASSUME TypeOK, LastInv, resent = {}
  PROVE  PostsBatches
<1>1. ASSUME NEW w \in Workers, wpc[w] = "try", batch[w] = <<>> PROVE FALSE
  <2>1. last[w] \in Seq(Items) /\ last[w] # <<>> /\ Elems(last[w]) = {}
    BY <1>1 DEF TypeOK, LastInv
  <2>2. 1 \in DOMAIN last[w]
    BY <2>1
  <2>3. QED
    BY <2>1, <2>2 DEF Elems
<1>2. QED
  BY <1>1 DEF PostsBatches

\* The Pusher is a mailbox as long as no two incarnations of its thread hold a batch and none posts
\* its last one again, for any messages, callers, limits and attempts (WBPushPullers.py 101-234).
THEOREM PusherIsMailbox ==
  ASSUME Workers # {}
  PROVE  Spec /\ []Undisturbed => ImplementsMailbox
<1>1. MailInv /\ Undisturbed' /\ [Next]_vars
      => [Mail!Next]_<<[k \in {KeyOf(i) : i \in Items} |-> Pending(k)],
                       [k \in {KeyOf(i) : i \in Items} |-> Stored(k)], fate>>
  BY MailStep DEF boxes, stores, Undisturbed
<1>2. IInv /\ FInv /\ BInv /\ CInv /\ Undisturbed => MailInv
  BY BatchesOnly DEF IInv, BInv, CInv, MailInv, Undisturbed
<1>3. Spec /\ []Undisturbed
      => Mail!Init /\ [][Mail!Next]_<<[k \in {KeyOf(i) : i \in Items} |-> Pending(k)],
                                     [k \in {KeyOf(i) : i \in Items} |-> Stored(k)], fate>>
  BY <1>1, <1>2, InitMails, Invariance, FateInvariance, BatchInvariance, CopiesInvariance, PTL
     DEF Spec
<1>4. QED
  BY <1>3, PTL DEF ImplementsMailbox, Mail!Spec

\* A thread that is alone finds the channel closed when it has left its inner loop.
AloneInv ==
  /\ resent = {}
  /\ \A w \in Workers : wpc[w] = "after" => ~channel

LEMMA AloneStep ==
  ASSUME NEW w, Workers = {w}, TypeOK, AloneInv, [Next]_vars
  PROVE  AloneInv'
<1> USE DEF queueVars, workerVars, callerVars, stopVars, historyVars
<1>1. wpc \in [Workers -> WorkerPCs] /\ channel \in BOOLEAN
  BY DEF TypeOK
<1>2. ASSUME resent' = resent, channel' = channel \/ ~channel', wpc'[w] = "after" => wpc[w] = "after"
      PROVE  AloneInv'
  BY <1>2 DEF AloneInv
<1>3. ASSUME NEW c \in Callers, PushNext(c) PROVE AloneInv'
  <2>1. UNCHANGED <<channel, resent>>
    BY <1>3, Zenon DEF PushNext, TestAlive, StartThread, PushMsg, PushAppend, PushCount
  <2>2. wpc' = wpc \/ wpc' = [wpc EXCEPT ![w] = "starting"]
    BY <1>3, Zenon DEF PushNext, TestAlive, StartThread, PushMsg, PushAppend, PushCount
  <2>3. QED
    BY <1>1, <1>2, <2>1, <2>2
<1>4. ASSUME BeginThread(w) \/ CloseFirst(w) \/ OpenFails(w) \/ TestChannel(w) \/ WaitForWork(w)
             \/ WakeUp(w) \/ TakeHead(w) \/ CountHead(w) \/ FetchMate(w) \/ FetchEnds(w)
             \/ TestChannelAgain(w) \/ SendSucceeds(w) \/ SendFails(w) \/ GiveUp(w)
      PROVE  AloneInv'
  <2>1. resent' = resent /\ (channel' = channel \/ ~channel')
    BY <1>4, Zenon DEF BeginThread, CloseFirst, OpenFails, TestChannel, WaitForWork, WakeUp,
       TakeHead, CountHead, FetchMate, FetchEnds, TestChannelAgain, SendSucceeds, SendFails, GiveUp
  <2>2. wpc' = wpc \/ \E pc \in WorkerPCs \ {"after"} : wpc' = [wpc EXCEPT ![w] = pc]
    BY <1>4 DEF BeginThread, CloseFirst, OpenFails, TestChannel, WaitForWork, WakeUp,
       TakeHead, CountHead, FetchMate, FetchEnds, TestChannelAgain, SendSucceeds, SendFails, GiveUp,
       Dies, WorkerTo, WorkerPCs
  <2>3. QED
    BY <1>1, <1>2, <2>1, <2>2
<1>5. ASSUME OpenSucceeds(w) PROVE AloneInv'
  BY <1>1, <1>5 DEF OpenSucceeds, WorkerTo, AloneInv
<1>6. ASSUME TestInner(w) PROVE AloneInv'
  BY <1>1, <1>6 DEF TestInner, WorkerTo, AloneInv
<1>7. ASSUME LeaveLoop(w) PROVE AloneInv'
  BY <1>1, <1>7 DEF LeaveLoop, Dies, WorkerTo, AloneInv
<1>8. ASSUME NEW c \in Callers, NEW i \in Items, SendMsg(c, i) PROVE AloneInv'
  BY <1>2, <1>8 DEF SendMsg
<1>9. CASE ShutdownNext \/ UNCHANGED vars
  BY <1>2, <1>9 DEF ShutdownNext, ShutdownFlush, ShutdownFlag, ShutdownClose, vars
<1>10. QED
  BY <1>3, <1>4, <1>5, <1>6, <1>7, <1>8, <1>9 DEF Next, WorkerNext

\* With one incarnation of its thread it always is.
THEOREM OneThreadIsMailbox ==
  ASSUME NEW w, Workers = {w}
  PROVE  Spec => ImplementsMailbox
<1>1. Init => AloneInv
  BY DEF Init, AloneInv
<1>2. TypeOK /\ AloneInv /\ [Next]_vars => AloneInv'
  BY AloneStep
<1>3. AloneInv => Undisturbed
  BY DEF AloneInv, Undisturbed, OneBatch
<1>4. Workers # {}
  OBVIOUS
<1>5. Spec /\ []Undisturbed => ImplementsMailbox
  BY <1>4, PusherIsMailbox
<1>6. QED
  BY <1>1, <1>2, <1>3, <1>5, TypeCorrect, PTL DEF Spec

-----------------------------------------------------------------------------
(* The send path *)

AppPCs      == {"idle", "count", "bytes", "ensure", "start", "flush", "send"}
NotifierPCs == {"unborn", "await", "asleep", "flush", "send"}

\* How many messages have left the queue: those are the first ones.
Flushed == queued - Len(msgQueue)

PathTypes ==
  /\ mpc \in [Callers -> AppPCs \union NotifierPCs]
  /\ \A a \in Apps : mpc[a] \in AppPCs
  /\ \A n \in Notifiers : mpc[n] \in NotifierPCs
  /\ queued \in 0..MaxMsgs
  /\ msgQueue \in Seq(Msgs)
  /\ queuedBytes \in Nat
  /\ content \in [Items -> Seq(Msgs)]
  /\ cpc \in [Callers -> CallerPCs]
  /\ citem \in [Callers -> Items \union {None}]
  /\ arrival \in [Items -> Nat]
  /\ clock \in Nat

\* The queue holds the last messages in order, the packages the others, each in one place.
SplitInv ==
  /\ Len(msgQueue) <= queued
  /\ \A n \in 1..Len(msgQueue) : msgQueue[n] = Flushed + n
  /\ \A p \in Items : Len(content[p]) <= MaxMsgs /\ Distinct(content[p])
  /\ \A p \in Items : Elems(content[p]) \subseteq 1..Flushed
  /\ \A p, q \in Items : p # q => Elems(content[p]) \intersect Elems(content[q]) = {}
  /\ \A m \in 1..Flushed : \E p \in Items : m \in Elems(content[p])

\* The package that is being pushed is the last one made, and its thread has _queueLock.
PushingInv ==
  /\ \A t \in Callers : mpc[t] = "send" => queueLock = t
  /\ \A t \in Callers : cpc[t] # "idle" =>
       /\ queueLock = t /\ citem[t] \in Items /\ content[citem[t]] # <<>>
       /\ \A q \in Items \ {citem[t]} :
            \A m \in Elems(content[citem[t]]), k \in Elems(content[q]) : k < m

ArrivalInv ==
  /\ \A p \in Items : arrival[p] <= clock /\ (content[p] = <<>> => arrival[p] = 0)
  /\ \A p, q \in Items : arrival[p] < arrival[q] /\ arrival[p] # 0 =>
       \A m \in Elems(content[p]), k \in Elems(content[q]) : m < k

PathInv == PathTypes /\ SplitInv /\ PushingInv /\ ArrivalInv

\* A notification thread exists once sendThread says so, and an empty queue has no bytes.
WatchInv ==
  /\ sendThread => \E n \in Notifiers : mpc[n] # "unborn"
  /\ msgQueue = <<>> => queuedBytes = 0
  /\ QueueIsWatched

LEMMA InitPath == SendInit => PathInv /\ WatchInv
<1> SUFFICES ASSUME SendInit PROVE PathInv /\ WatchInv
  OBVIOUS
<1>1. <<>> \in Seq(Msgs) /\ DOMAIN <<>> = {} /\ Len(<<>>) = 0 /\ Elems(<<>>) = {} /\ Distinct(<<>>)
      /\ 1..0 = {} /\ MaxMsgs \in Nat
  BY SendPathAssumption DEF Elems, Distinct
<1>2. /\ mpc = [t \in Callers |-> IF t \in Apps THEN "idle" ELSE "unborn"]
      /\ queued = 0 /\ msgQueue = <<>> /\ queuedBytes = 0 /\ content = [p \in Items |-> <<>>]
      /\ cpc = [c \in Callers |-> "idle"] /\ citem = [c \in Callers |-> None]
      /\ arrival = [i \in Items |-> 0] /\ clock = 0 /\ sendThread = FALSE
  BY DEF SendInit, Init
<1>3. PathTypes
  <2>1. /\ mpc \in [Callers -> AppPCs \union NotifierPCs]
        /\ \A a \in Apps : mpc[a] \in AppPCs
        /\ \A n \in Notifiers : mpc[n] \in NotifierPCs
    BY <1>2, SendPathAssumption DEF AppPCs, NotifierPCs
  <2>2. QED
    BY <1>1, <1>2, <2>1 DEF PathTypes, CallerPCs
<1>4. SplitInv
  BY <1>1, <1>2 DEF SplitInv, Flushed
<1>5. PushingInv /\ ArrivalInv
  BY <1>1, <1>2, SendPathAssumption DEF PushingInv, ArrivalInv
<1>6. WatchInv
  <2>1. ~(MaxQBytes # 0 /\ queuedBytes >= MaxQBytes)
    BY <1>2, SendPathAssumption
  <2>2. QED
    BY <1>2, <2>1 DEF WatchInv, QueueIsWatched
<1>7. QED
  BY <1>3, <1>4, <1>5, <1>6 DEF PathInv

-----------------------------------------------------------------------------
(* What a step of the Pusher does to its callers and arrivals *)

LEMMA PusherView ==
  ASSUME PathTypes, PushingInv,
         \/ \E c \in Callers : PushNext(c)
         \/ \E w \in Workers : WorkerNext(w)
         \/ ShutdownNext
  PROVE  /\ cpc' \in [Callers -> CallerPCs] /\ citem' \in [Callers -> Items \union {None}]
         /\ \A d \in Callers : cpc'[d] # "idle" => cpc[d] # "idle" /\ citem'[d] = citem[d]
         /\ \/ UNCHANGED <<arrival, clock>>
            \/ \E c \in Callers : /\ cpc[c] = "append" /\ clock' = clock + 1
                                  /\ arrival' = [arrival EXCEPT ![citem[c]] = clock + 1]
<1>1. cpc \in [Callers -> CallerPCs] /\ citem \in [Callers -> Items \union {None}]
  BY DEF PathTypes
<1>2. CASE UNCHANGED <<callerVars, arrival, clock>>
  BY <1>1, <1>2 DEF callerVars
<1>3. ASSUME NEW c \in Callers, cpc[c] # "idle", UNCHANGED citem,
             \E pc \in CallerPCs : cpc' = [cpc EXCEPT ![c] = pc]
      PROVE  /\ cpc' \in [Callers -> CallerPCs] /\ citem' \in [Callers -> Items \union {None}]
             /\ \A d \in Callers : cpc'[d] # "idle" => cpc[d] # "idle" /\ citem'[d] = citem[d]
  BY <1>1, <1>3
<1>4. ASSUME NEW c \in Callers, Return(c)
      PROVE  /\ cpc' \in [Callers -> CallerPCs] /\ citem' \in [Callers -> Items \union {None}]
             /\ \A d \in Callers : cpc'[d] # "idle" => cpc[d] # "idle" /\ citem'[d] = citem[d]
  BY <1>1, <1>4 DEF Return, CallerTo, CallerPCs
<1>5. ASSUME NEW c \in Callers, TestAlive(c) \/ StartThread(c)
      PROVE  /\ cpc[c] # "idle" /\ UNCHANGED citem /\ UNCHANGED <<arrival, clock>>
             /\ \E pc \in CallerPCs : cpc' = [cpc EXCEPT ![c] = pc]
  BY <1>5 DEF TestAlive, StartThread, CallerTo, CallerPCs, historyVars
<1>6. ASSUME NEW c \in Callers, PushMsg(c)
      PROVE  /\ cpc[c] # "idle" /\ UNCHANGED <<arrival, clock>>
             /\ Return(c) \/ (UNCHANGED citem /\ \E pc \in CallerPCs : cpc' = [cpc EXCEPT ![c] = pc])
  BY <1>6 DEF PushMsg, CallerTo, CallerPCs, historyVars
<1>7. ASSUME NEW c \in Callers, PushAppend(c)
      PROVE  /\ cpc[c] = "append" /\ UNCHANGED citem /\ clock' = clock + 1
             /\ arrival' = [arrival EXCEPT ![citem[c]] = clock + 1]
             /\ \E pc \in CallerPCs : cpc' = [cpc EXCEPT ![c] = pc]
  BY <1>7 DEF PushAppend, CallerTo, CallerPCs
<1>8. ASSUME NEW c \in Callers, PushCount(c) PROVE Return(c) /\ UNCHANGED <<arrival, clock>>
  BY <1>8 DEF PushCount, historyVars
<1>9. ASSUME NEW w \in Workers, WorkerNext(w) PROVE UNCHANGED <<callerVars, arrival, clock>>
  BY <1>9 DEF WorkerNext, BeginThread, CloseFirst, OpenSucceeds, OpenFails, TestChannel, TestInner,
              LeaveLoop, WaitForWork, WakeUp, TakeHead, CountHead, FetchMate, FetchEnds,
              TestChannelAgain, SendSucceeds, SendFails, GiveUp, historyVars
<1>10. ASSUME ShutdownNext PROVE UNCHANGED <<callerVars, arrival, clock>>
  BY <1>10 DEF ShutdownNext, ShutdownFlush, ShutdownFlag, ShutdownClose, historyVars
<1>11. QED
  <2>1. CASE \E c \in Callers : TestAlive(c) \/ StartThread(c)
    BY <1>3, <1>5, <2>1
  <2>2. CASE \E c \in Callers : PushMsg(c)
    BY <1>3, <1>4, <1>6, <2>2
  <2>3. CASE \E c \in Callers : PushAppend(c)
    <3>1. PICK c \in Callers : PushAppend(c)
      BY <2>3
    <3>2. /\ cpc' \in [Callers -> CallerPCs] /\ citem' \in [Callers -> Items \union {None}]
          /\ \A d \in Callers : cpc'[d] # "idle" => cpc[d] # "idle" /\ citem'[d] = citem[d]
      BY <1>3, <1>7, <3>1
    <3>3. QED
      BY <1>7, <3>1, <3>2
  <2>4. CASE \E c \in Callers : PushCount(c)
    BY <1>4, <1>8, <2>4
  <2>5. QED
    BY <1>2, <1>9, <1>10, <2>1, <2>2, <2>3, <2>4 DEF PushNext

LEMMA PathPusherStep ==
  ASSUME PathInv, UNCHANGED senderVars,
         \/ \E c \in Callers : PushNext(c)
         \/ \E w \in Workers : WorkerNext(w)
         \/ ShutdownNext
  PROVE  PathInv'
<1>1. PathTypes /\ SplitInv /\ PushingInv /\ ArrivalInv
  BY DEF PathInv
<1>2. UNCHANGED <<msgQueue, queuedBytes, queueLock, sendThread, mpc, content, queued>>
  BY DEF senderVars
<1>3. /\ cpc' \in [Callers -> CallerPCs] /\ citem' \in [Callers -> Items \union {None}]
      /\ \A d \in Callers : cpc'[d] # "idle" => cpc[d] # "idle" /\ citem'[d] = citem[d]
      /\ \/ UNCHANGED <<arrival, clock>>
         \/ \E c \in Callers : /\ cpc[c] = "append" /\ clock' = clock + 1
                               /\ arrival' = [arrival EXCEPT ![citem[c]] = clock + 1]
  BY <1>1, PusherView
<1>4. SplitInv'
  BY <1>1, <1>2 DEF SplitInv, Flushed
<1>5. PushingInv'
  BY <1>1, <1>2, <1>3 DEF PushingInv
<1>6. PathTypes' /\ ArrivalInv'
  <2>1. CASE UNCHANGED <<arrival, clock>>
    BY <1>1, <1>2, <1>3, <2>1 DEF PathTypes, ArrivalInv
  <2>2. ASSUME NEW c \in Callers, cpc[c] = "append", clock' = clock + 1,
               arrival' = [arrival EXCEPT ![citem[c]] = clock + 1]
        PROVE  PathTypes' /\ ArrivalInv'
    <3> DEFINE e == citem[c]
    <3>1. /\ e \in Items /\ content[e] # <<>>
          /\ \A q \in Items \ {e} : \A m \in Elems(content[e]), k \in Elems(content[q]) : k < m
      BY <1>1, <2>2 DEF PushingInv
    <3>2. arrival \in [Items -> Nat] /\ clock \in Nat
      BY <1>1 DEF PathTypes
    <3>3. /\ arrival' \in [Items -> Nat] /\ clock' \in Nat /\ arrival'[e] = clock + 1
          /\ \A q \in Items \ {e} : arrival'[q] = arrival[q] /\ arrival[q] <= clock
      BY <1>1, <2>2, <3>1, <3>2 DEF ArrivalInv
    <3> HIDE DEF e
    <3>4. PathTypes'
      BY <1>1, <1>2, <1>3, <3>3 DEF PathTypes
    <3>5. ASSUME NEW p \in Items PROVE arrival'[p] <= clock' /\ (content[p] = <<>> => arrival'[p] = 0)
      BY <1>1, <2>2, <3>1, <3>2, <3>3 DEF ArrivalInv
    <3>6. ASSUME NEW p \in Items, NEW q \in Items, arrival'[p] < arrival'[q], arrival'[p] # 0,
                 NEW m \in Elems(content[p]), NEW k \in Elems(content[q])
          PROVE  m < k
      <4>1. p # e
        <5>1. CASE q = e
          BY <3>2, <3>3, <3>6, <5>1
        <5>2. CASE q # e
          BY <3>2, <3>3, <3>6, <5>2
        <5>3. QED
          BY <5>1, <5>2
      <4>2. CASE q = e
        BY <3>1, <3>6, <4>1, <4>2
      <4>3. CASE q # e
        <5>1. arrival'[p] = arrival[p] /\ arrival'[q] = arrival[q]
          BY <3>3, <4>1, <4>3
        <5>2. QED
          BY <1>1, <3>6, <5>1 DEF ArrivalInv
      <4>4. QED
        BY <4>2, <4>3
    <3>7. ArrivalInv'
      BY <1>2, <3>5, <3>6 DEF ArrivalInv
    <3>8. QED
      BY <3>4, <3>7
  <2>3. QED
    BY <1>3, <2>1, <2>2
<1>7. QED
  BY <1>4, <1>5, <1>6 DEF PathInv

-----------------------------------------------------------------------------
(* The steps of the sender *)

\* A step that only moves a thread, to another place than "send".
LEMMA PathQuietStep ==
  ASSUME PathInv, UNCHANGED <<msgQueue, content, queued, queueLock, queuedBytes>>,
         UNCHANGED <<arrival, clock, cpc, citem>>,
         PathTypes', \A t \in Callers : mpc'[t] = "send" => mpc[t] = "send"
  PROVE  PathInv'
<1>1. SplitInv' /\ ArrivalInv' /\ PushingInv'
  BY DEF PathInv, SplitInv, Flushed, ArrivalInv, PushingInv
<1>2. QED
  BY <1>1 DEF PathInv

LEMMA PathSendMessage ==
  ASSUME PathInv, NEW a \in Apps, SendMessage(a)
  PROVE  PathInv'
<1>1. /\ PathTypes /\ SplitInv /\ PushingInv /\ ArrivalInv /\ a \in Callers
      /\ MaxMsgs \in Nat /\ queued \in Nat /\ msgQueue \in Seq(Msgs) /\ queuedBytes \in Nat
  BY SendPathAssumption DEF PathInv, PathTypes
<1> DEFINE q == queued + 1
<1>2. /\ q \in Msgs /\ queued < MaxMsgs /\ queued' = q /\ msgQueue' = Append(msgQueue, q)
      /\ queuedBytes' = queuedBytes + BytesOf(q) /\ mpc' = [mpc EXCEPT ![a] = "count"]
      /\ UNCHANGED <<queueLock, content, arrival, clock, cpc, citem>>
  BY <1>1 DEF SendMessage, MoveTo, Msgs, pusherVars, vars, callerVars, historyVars
<1>3. queuedBytes' \in Nat
  BY <1>1, <1>2, BytesAssumption
<1>4. /\ Len(msgQueue) \in Nat /\ Len(msgQueue') = Len(msgQueue) + 1 /\ msgQueue' \in Seq(Msgs)
      /\ msgQueue'[Len(msgQueue) + 1] = q
      /\ \A n \in 1..Len(msgQueue) : msgQueue'[n] = msgQueue[n]
  BY <1>1, <1>2
<1>5. PathTypes'
  <2>1. /\ mpc' \in [Callers -> AppPCs \union NotifierPCs] /\ mpc'[a] = "count"
        /\ \A t \in Callers \ {a} : mpc'[t] = mpc[t]
    BY <1>1, <1>2 DEF PathTypes, AppPCs
  <2>2. /\ \A b \in Apps : mpc'[b] \in AppPCs
        /\ \A n \in Notifiers : mpc'[n] \in NotifierPCs
    BY <1>1, <2>1, SendPathAssumption DEF PathTypes, AppPCs
  <2>3. queued' \in 0..MaxMsgs
    BY <1>1, <1>2
  <2>4. QED
    BY <1>1, <1>2, <1>3, <1>4, <2>1, <2>2, <2>3 DEF PathTypes
<1>6. SplitInv'
  <2>1. Flushed' = Flushed /\ Flushed \in Int
    BY <1>1, <1>2, <1>4 DEF Flushed
  <2>2. Len(msgQueue') <= queued'
    BY <1>1, <1>2, <1>4 DEF SplitInv
  <2>3. ASSUME NEW n \in 1..Len(msgQueue') PROVE msgQueue'[n] = Flushed + n
    <3>1. CASE n = Len(msgQueue) + 1
      BY <1>1, <1>4, <3>1 DEF Flushed
    <3>2. CASE n # Len(msgQueue) + 1
      BY <1>1, <1>4, <2>3, <3>2 DEF SplitInv
    <3>3. QED
      BY <3>1, <3>2
  <2>4. QED
    BY <1>1, <1>2, <2>1, <2>2, <2>3 DEF SplitInv
<1>7. PushingInv' /\ ArrivalInv'
  BY <1>1, <1>2 DEF PushingInv, ArrivalInv, PathTypes
<1>8. QED
  BY <1>5, <1>6, <1>7 DEF PathInv

LEMMA PathFlush ==
  ASSUME PathInv, NEW t \in Callers, Flush(t)
  PROVE  PathInv'
<1>1. /\ PathTypes /\ SplitInv /\ PushingInv /\ ArrivalInv /\ queueLock = None /\ msgQueue # <<>>
      /\ MaxMsgs \in Nat /\ queued \in Nat /\ queued <= MaxMsgs /\ msgQueue \in Seq(Msgs)
      /\ Len(msgQueue) \in Nat /\ DOMAIN msgQueue = 1..Len(msgQueue)
      /\ content \in [Items -> Seq(Msgs)]
  BY SendPathAssumption DEF PathInv, PathTypes, Flush
<1>2. PICK p \in Items :
        /\ content[p] = <<>> /\ content' = [content EXCEPT ![p] = msgQueue]
        /\ UNCHANGED pusherVars \/ SendMsg(t, p)
  <2> DEFINE i0 == CHOOSE i \in Unused : TRUE
  <2>1. i0 \in Unused
    BY DEF Flush
  <2>2. content' = [content EXCEPT ![i0] = msgQueue] /\ (UNCHANGED pusherVars \/ SendMsg(t, i0))
    BY DEF Flush
  <2> HIDE DEF i0
  <2>3. QED
    BY <2>1, <2>2 DEF Unused
<1>3. /\ msgQueue' = <<>> /\ queuedBytes' = 0 /\ queueLock' = t /\ queued' = queued
      /\ mpc' = [mpc EXCEPT ![t] = "send"]
  BY DEF Flush, TakeAll, LockQueue, MoveTo
<1>4. /\ content'[p] = msgQueue /\ \A q \in Items \ {p} : content'[q] = content[q]
      /\ content' \in [Items -> Seq(Msgs)]
  BY <1>1, <1>2
<1>5. \A c \in Callers : cpc[c] = "idle" /\ mpc[c] # "send"
  BY <1>1, SendPathAssumption, ThreadAssumption DEF PushingInv
<1>6. /\ cpc' \in [Callers -> CallerPCs] /\ citem' \in [Callers -> Items \union {None}]
      /\ \A c \in Callers : cpc'[c] # "idle" => c = t /\ citem'[c] = p
      /\ UNCHANGED <<arrival, clock>>
  <2>1. CASE UNCHANGED pusherVars
    BY <1>1, <1>5, <2>1 DEF PathTypes, pusherVars, vars, callerVars, historyVars
  <2>2. CASE SendMsg(t, p)
    BY <1>1, <1>5, <2>2 DEF PathTypes, SendMsg, CallerTo, CallerPCs, historyVars
  <2>3. QED
    BY <1>2, <2>1, <2>2
<1>7. PathTypes'
  <2>1. /\ mpc' \in [Callers -> AppPCs \union NotifierPCs] /\ mpc'[t] = "send"
        /\ \A c \in Callers \ {t} : mpc'[c] = mpc[c]
    BY <1>1, <1>3 DEF PathTypes, AppPCs
  <2>2. /\ \A b \in Apps : mpc'[b] \in AppPCs
        /\ \A n \in Notifiers : mpc'[n] \in NotifierPCs
    <3>1. "send" \in AppPCs /\ "send" \in NotifierPCs
      BY DEF AppPCs, NotifierPCs
    <3>2. Apps \subseteq Callers /\ Notifiers \subseteq Callers
      BY SendPathAssumption
    <3>3. QED
      BY <1>1, <2>1, <3>1, <3>2 DEF PathTypes
  <2>3. msgQueue' \in Seq(Msgs) /\ queuedBytes' \in Nat
    BY <1>3
  <2>4. QED
    BY <1>1, <1>3, <1>4, <1>6, <2>1, <2>2, <2>3 DEF PathTypes
<1>8. /\ Elems(msgQueue) = (Flushed + 1)..queued /\ Distinct(msgQueue) /\ Len(msgQueue) <= MaxMsgs
      /\ Flushed \in Nat /\ Flushed <= queued /\ Elems(content[p]) = {}
  <2>1. /\ Flushed \in Nat /\ Flushed <= queued /\ Flushed + Len(msgQueue) = queued
        /\ Len(msgQueue) <= MaxMsgs
    BY <1>1 DEF SplitInv, Flushed
  <2>2. \A n \in 1..Len(msgQueue) : msgQueue[n] = Flushed + n
    BY <1>1 DEF SplitInv
  <2>3. Elems(msgQueue) \subseteq (Flushed + 1)..queued
    BY <1>1, <2>1, <2>2 DEF Elems
  <2>4. ASSUME NEW m \in (Flushed + 1)..queued PROVE m \in Elems(msgQueue)
    <3>1. m - Flushed \in 1..Len(msgQueue) /\ Flushed + (m - Flushed) = m
      BY <1>1, <2>1
    <3>2. msgQueue[m - Flushed] = m
      BY <2>2, <3>1
    <3>3. QED
      BY <1>1, <3>1, <3>2 DEF Elems
  <2>5. Distinct(msgQueue)
    BY <1>1, <2>1, <2>2 DEF Distinct
  <2>6. DOMAIN content[p] = {}
    BY <1>2
  <2>7. QED
    BY <2>1, <2>3, <2>4, <2>5, <2>6 DEF Elems
<1>9. Flushed' = queued /\ Len(msgQueue') = 0
  BY <1>1, <1>3 DEF Flushed
<1>10. SplitInv'
  <2>1. /\ Len(msgQueue') <= queued' /\ \A n \in 1..Len(msgQueue') : msgQueue'[n] = Flushed' + n
    BY <1>1, <1>3, <1>9
  <2>2. \A q \in Items : Len(content'[q]) <= MaxMsgs /\ Distinct(content'[q])
    BY <1>1, <1>4, <1>8 DEF SplitInv
  <2>3. \A q \in Items : Elems(content'[q]) \subseteq 1..queued
    <3>1. ASSUME NEW q \in Items PROVE Elems(content'[q]) \subseteq 1..queued
      <4>1. CASE q = p
        BY <1>1, <1>4, <1>8, <4>1
      <4>2. CASE q # p
        <5>1. Elems(content[q]) \subseteq 1..Flushed
          BY <1>1 DEF SplitInv
        <5>2. QED
          BY <1>1, <1>4, <1>8, <4>2, <5>1
      <4>3. QED
        BY <4>1, <4>2
    <3>2. QED
      BY <3>1
  <2>4. ASSUME NEW r \in Items \ {p} PROVE Elems(content[r]) \intersect Elems(msgQueue) = {}
    <3>1. Elems(content[r]) \subseteq 1..Flushed
      BY <1>1 DEF SplitInv
    <3>2. QED
      BY <1>1, <1>8, <3>1
  <2>5. \A q, r \in Items : q # r => Elems(content'[q]) \intersect Elems(content'[r]) = {}
    BY <1>1, <1>4, <2>4 DEF SplitInv
  <2>6. ASSUME NEW m \in 1..queued PROVE \E q \in Items : m \in Elems(content'[q])
    <3>1. CASE m \in 1..Flushed
      <4>1. PICK q \in Items : m \in Elems(content[q])
        BY <1>1, <3>1 DEF SplitInv
      <4>2. q # p
        BY <1>8, <4>1
      <4>3. QED
        BY <1>4, <4>1, <4>2
    <3>2. CASE m \notin 1..Flushed
      <4>1. m \in Elems(msgQueue)
        BY <1>1, <1>8, <3>2
      <4>2. QED
        BY <1>4, <4>1
    <3>3. QED
      BY <3>1, <3>2
  <2>7. QED
    BY <1>9, <2>1, <2>2, <2>3, <2>5, <2>6 DEF SplitInv
<1>11. ASSUME NEW q \in Items \ {p}, NEW m \in Elems(msgQueue), NEW k \in Elems(content[q]) PROVE k < m
  <2>1. Elems(content[q]) \subseteq 1..Flushed
    BY <1>1 DEF SplitInv
  <2>2. QED
    BY <1>1, <1>8, <2>1
<1>12. PushingInv'
  <2>1. \A c \in Callers : mpc'[c] = "send" => queueLock' = c
    BY <1>1, <1>3, <1>5 DEF PathTypes
  <2>2. ASSUME NEW c \in Callers, cpc'[c] # "idle"
        PROVE  /\ queueLock' = c /\ citem'[c] \in Items /\ content'[citem'[c]] # <<>>
               /\ \A q \in Items \ {citem'[c]} :
                    \A m \in Elems(content'[citem'[c]]), k \in Elems(content'[q]) : k < m
    <3>1. queueLock' = c /\ citem'[c] = p
      BY <1>3, <1>6, <2>2
    <3>2. content'[p] # <<>> /\ \A q \in Items \ {p} :
            \A m \in Elems(content'[p]), k \in Elems(content'[q]) : k < m
      BY <1>1, <1>4, <1>11
    <3>3. QED
      BY <3>1, <3>2
  <2>3. QED
    BY <2>1, <2>2 DEF PushingInv
<1>13. ArrivalInv'
  <2>1. \A q \in Items : arrival'[q] <= clock' /\ (content'[q] = <<>> => arrival'[q] = 0)
    BY <1>1, <1>2, <1>4, <1>6 DEF ArrivalInv
  <2>2. ASSUME NEW q \in Items, NEW r \in Items, arrival[q] < arrival[r], arrival[q] # 0
        PROVE  q # p /\ r # p
    <3>1. arrival[p] = 0 /\ arrival[q] \in Nat
      BY <1>1, <1>2 DEF ArrivalInv, PathTypes
    <3>2. QED
      BY <2>2, <3>1
  <2>3. QED
    BY <1>1, <1>4, <1>6, <2>1, <2>2 DEF ArrivalInv
<1>14. QED
  BY <1>7, <1>10, <1>12, <1>13 DEF PathInv

LEMMA PathSendReturns ==
  ASSUME PathInv, NEW t \in Callers, SendReturns(t)
  PROVE  PathInv'
<1>1. /\ mpc[t] = "send" /\ cpc[t] = "idle" /\ mpc' = [mpc EXCEPT ![t] = Rest(t)]
      /\ UNCHANGED <<msgQueue, content, queued, queuedBytes, arrival, clock, cpc, citem>>
  BY DEF SendReturns, MoveTo, pusherVars, vars, callerVars, historyVars
<1>2. PathTypes /\ PushingInv
  BY DEF PathInv
<1>3. mpc'[t] = Rest(t) /\ \A c \in Callers \ {t} : mpc'[c] = mpc[c]
  BY <1>1, <1>2 DEF PathTypes
<1>4. PathTypes'
  <2>1. Rest(t) \in AppPCs \union NotifierPCs /\ (t \in Apps => Rest(t) \in AppPCs)
        /\ (t \in Notifiers => Rest(t) \in NotifierPCs)
    BY SendPathAssumption DEF Rest, AppPCs, NotifierPCs
  <2>2. mpc' \in [Callers -> AppPCs \union NotifierPCs]
    BY <1>1, <1>2, <2>1 DEF PathTypes
  <2>3. \A b \in Apps : mpc'[b] \in AppPCs
    BY <1>2, <1>3, <2>1, SendPathAssumption DEF PathTypes
  <2>4. \A n \in Notifiers : mpc'[n] \in NotifierPCs
    BY <1>2, <1>3, <2>1, SendPathAssumption DEF PathTypes
  <2>5. QED
    BY <1>1, <1>2, <2>2, <2>3, <2>4 DEF PathTypes
<1>5. PushingInv'
  <2>1. queueLock = t
    BY <1>1, <1>2 DEF PushingInv
  <2>2. \A c \in Callers : cpc[c] = "idle"
    BY <1>1, <1>2, <2>1 DEF PushingInv
  <2>3. \A c \in Callers : mpc'[c] # "send"
    BY <1>2, <1>3, <2>1 DEF PushingInv, Rest
  <2>4. QED
    BY <1>1, <2>2, <2>3 DEF PushingInv
<1>6. SplitInv' /\ ArrivalInv'
  BY <1>1 DEF PathInv, SplitInv, Flushed, ArrivalInv
<1>7. QED
  BY <1>4, <1>5, <1>6 DEF PathInv

\* The sender's other steps, which only move a thread.
Moves(t, pc) ==
  /\ mpc' = [mpc EXCEPT ![t] = pc] /\ pc # "send"
  /\ IF t \in Apps THEN pc \in AppPCs ELSE pc \in NotifierPCs \ {"unborn"}

LEMMA PathMove ==
  ASSUME PathInv, NEW t \in Callers, NEW pc, Moves(t, pc),
         UNCHANGED <<msgQueue, content, queued, queueLock, queuedBytes>>,
         UNCHANGED <<arrival, clock, cpc, citem>>
  PROVE  PathInv'
<1>1. PathTypes
  BY DEF PathInv
<1>2. mpc'[t] = pc /\ pc # "send" /\ \A c \in Callers \ {t} : mpc'[c] = mpc[c]
  BY <1>1 DEF PathTypes, Moves
<1>3. (t \in Apps => pc \in AppPCs) /\ (t \in Notifiers => pc \in NotifierPCs)
      /\ pc \in AppPCs \union NotifierPCs
  BY SendPathAssumption DEF Moves
<1>4. mpc' \in [Callers -> AppPCs \union NotifierPCs]
  BY <1>1, <1>3 DEF PathTypes, Moves
<1>5. /\ \A b \in Apps : mpc'[b] \in AppPCs
      /\ \A n \in Notifiers : mpc'[n] \in NotifierPCs
  BY <1>1, <1>2, <1>3, SendPathAssumption DEF PathTypes
<1>6. PathTypes'
  BY <1>1, <1>4, <1>5 DEF PathTypes
<1>7. QED
  BY <1>2, <1>6, PathQuietStep

LEMMA QuietMoves ==
  ASSUME PathTypes,
         \/ \E a \in Apps : TestCount(a) \/ TestBytes(a) \/ TestSendThread(a)
         \/ \E t \in Callers : FlushNothing(t)
         \/ \E n \in Notifiers : AwaitOutput(n) \/ AwaitEnds(n)
  PROVE  /\ \E t \in Callers, pc \in AppPCs \union NotifierPCs : Moves(t, pc)
         /\ UNCHANGED <<msgQueue, content, queued, queueLock, queuedBytes, sendThread>>
         /\ UNCHANGED <<arrival, clock, cpc, citem>>
<1>1. Apps \subseteq Callers /\ Notifiers \subseteq Callers /\ Apps \intersect Notifiers = {}
      /\ Callers = Apps \union Notifiers
  BY SendPathAssumption
<1>2. ASSUME NEW a \in Apps, TestCount(a) \/ TestBytes(a) \/ TestSendThread(a)
      PROVE  /\ \E pc \in AppPCs : Moves(a, pc)
             /\ UNCHANGED <<msgQueue, content, queued, queueLock, queuedBytes, sendThread>>
             /\ UNCHANGED <<arrival, clock, cpc, citem>>
  BY <1>2 DEF TestCount, TestBytes, TestSendThread, MoveTo, Moves, AppPCs,
              pusherVars, vars, callerVars, historyVars
<1>3. ASSUME NEW t \in Callers, FlushNothing(t)
      PROVE  /\ \E pc \in AppPCs \union NotifierPCs : Moves(t, pc)
             /\ UNCHANGED <<msgQueue, content, queued, queueLock, queuedBytes, sendThread>>
             /\ UNCHANGED <<arrival, clock, cpc, citem>>
  <2>1. Moves(t, Rest(t)) /\ Rest(t) \in AppPCs \union NotifierPCs
    BY <1>3 DEF FlushNothing, MoveTo, Moves, Rest, AppPCs, NotifierPCs
  <2>2. QED
    BY <1>3, <2>1 DEF FlushNothing, pusherVars, vars, callerVars, historyVars
<1>4. ASSUME NEW n \in Notifiers, AwaitOutput(n) \/ AwaitEnds(n)
      PROVE  /\ \E pc \in NotifierPCs : Moves(n, pc)
             /\ UNCHANGED <<msgQueue, content, queued, queueLock, queuedBytes, sendThread>>
             /\ UNCHANGED <<arrival, clock, cpc, citem>>
  <2>1. n \notin Apps
    BY <1>1
  <2>2. QED
    BY <1>4, <2>1 DEF AwaitOutput, AwaitEnds, MoveTo, Moves, NotifierPCs, callerVars, historyVars
<1>5. QED
  BY <1>1, <1>2, <1>3, <1>4

LEMMA PathStart ==
  ASSUME PathTypes, NEW a \in Apps, StartSendThread(a)
  PROVE  /\ PathTypes' /\ \A t \in Callers : mpc'[t] = "send" => mpc[t] = "send"
         /\ UNCHANGED <<msgQueue, content, queued, queueLock, queuedBytes>>
         /\ UNCHANGED <<arrival, clock, cpc, citem>>
         /\ sendThread' /\ mpc[a] = "start"
         /\ \E n \in Notifiers : mpc'[n] # "unborn"
         /\ \A t \in Callers \ {a} : mpc'[t] = mpc[t] \/ (t \in Notifiers /\ mpc[t] = "unborn")
<1>1. /\ UNCHANGED <<msgQueue, content, queued, queueLock, queuedBytes>>
      /\ UNCHANGED <<arrival, clock, cpc, citem>> /\ sendThread' = TRUE /\ mpc[a] = "start"
  BY DEF StartSendThread, pusherVars, vars, callerVars, historyVars
<1>2. a \in Callers /\ a \notin Notifiers /\ Notifiers \subseteq Callers /\ Notifiers # {}
  BY SendPathAssumption
<1>3. "idle" \in AppPCs /\ "await" \in NotifierPCs
  BY DEF AppPCs, NotifierPCs
<1>4. CASE \E n \in Notifiers : mpc[n] = "unborn"
  <2>1. PICK n \in Notifiers : mpc[n] = "unborn" /\ mpc' = [mpc EXCEPT ![n] = "await", ![a] = "idle"]
    BY <1>4 DEF StartSendThread
  <2>2. /\ mpc'[n] = "await" /\ mpc'[a] = "idle" /\ \A t \in Callers \ {a, n} : mpc'[t] = mpc[t]
        /\ mpc' \in [Callers -> AppPCs \union NotifierPCs]
    BY <1>2, <1>3, <2>1 DEF PathTypes
  <2>3. \A b \in Apps : mpc'[b] \in AppPCs
    BY <1>2, <1>3, <2>2, SendPathAssumption DEF PathTypes
  <2>4. \A k \in Notifiers : mpc'[k] \in NotifierPCs
    BY <1>2, <1>3, <2>2 DEF PathTypes
  <2>5. PathTypes'
    BY <1>1, <2>2, <2>3, <2>4 DEF PathTypes
  <2>6. QED
    BY <1>1, <1>2, <2>1, <2>2, <2>5
<1>5. CASE ~\E n \in Notifiers : mpc[n] = "unborn"
  <2>1. mpc' = [mpc EXCEPT ![a] = "idle"]
    BY <1>5 DEF StartSendThread, MoveTo
  <2>2. /\ mpc'[a] = "idle" /\ \A t \in Callers \ {a} : mpc'[t] = mpc[t]
        /\ mpc' \in [Callers -> AppPCs \union NotifierPCs]
    BY <1>2, <1>3, <2>1 DEF PathTypes
  <2>3. \A b \in Apps : mpc'[b] \in AppPCs
    BY <1>2, <1>3, <2>2, SendPathAssumption DEF PathTypes
  <2>4. \A k \in Notifiers : mpc'[k] \in NotifierPCs /\ mpc'[k] # "unborn"
    BY <1>2, <1>5, <2>2 DEF PathTypes
  <2>5. PathTypes'
    BY <1>1, <2>2, <2>3, <2>4 DEF PathTypes
  <2>6. QED
    BY <1>1, <1>2, <2>2, <2>4, <2>5
<1>6. QED
  BY <1>4, <1>5

LEMMA PathStep == PathInv /\ [SendNext]_allVars => PathInv'
<1> SUFFICES ASSUME PathInv, [SendNext]_allVars PROVE PathInv'
  OBVIOUS
<1>1. PathTypes /\ Apps \subseteq Callers /\ Notifiers \subseteq Callers
  BY SendPathAssumption DEF PathInv
<1>2. CASE \E a \in Apps : SendMessage(a)
  BY <1>2, PathSendMessage
<1>3. CASE \/ \E a \in Apps : TestCount(a) \/ TestBytes(a) \/ TestSendThread(a)
           \/ \E t \in Callers : FlushNothing(t)
           \/ \E n \in Notifiers : AwaitOutput(n) \/ AwaitEnds(n)
  <2>1. PICK t \in Callers, pc \in AppPCs \union NotifierPCs : Moves(t, pc)
    BY <1>1, <1>3, QuietMoves
  <2>2. QED
    BY <1>1, <1>3, <2>1, QuietMoves, PathMove
<1>4. CASE \E a \in Apps : StartSendThread(a)
  BY <1>1, <1>4, PathStart, PathQuietStep
<1>5. CASE \E t \in Callers : Flush(t) \/ SendReturns(t)
  BY <1>5, PathFlush, PathSendReturns
<1>6. CASE \E n \in Notifiers : AwaitTimesOut(n)
  <2>1. UNCHANGED senderVars /\ UNCHANGED <<arrival, clock, cpc, citem>>
    BY <1>6 DEF AwaitTimesOut, callerVars, historyVars
  <2>2. UNCHANGED <<msgQueue, content, queued, queueLock, queuedBytes, mpc>>
    BY <2>1 DEF senderVars
  <2>3. PathTypes'
    BY <1>1, <2>1, <2>2 DEF PathTypes
  <2>4. QED
    BY <2>1, <2>2, <2>3, PathQuietStep
<1>7. CASE \/ PusherStep(\E c \in Callers : PushNext(c))
           \/ PusherStep(\E w \in Workers : WorkerNext(w))
           \/ PusherStep(ShutdownNext)
  BY <1>7, PathPusherStep DEF PusherStep
<1>8. CASE UNCHANGED allVars
  <2>1. UNCHANGED <<msgQueue, content, queued, queueLock, queuedBytes, mpc>>
        /\ UNCHANGED <<arrival, clock, cpc, citem>>
    BY <1>8 DEF allVars, senderVars, pusherVars, vars, callerVars, historyVars
  <2>2. PathTypes'
    BY <1>1, <2>1 DEF PathTypes
  <2>3. QED
    BY <2>1, <2>2, PathQuietStep
<1>9. QED
  BY <1>1, <1>2, <1>3, <1>4, <1>5, <1>6, <1>7, <1>8 DEF SendNext, AppNext, NotifierNext

LEMMA OrderFromPath == PathInv => OrderSurvivesFlush
<1> SUFFICES ASSUME PathInv PROVE OrderSurvivesFlush
  OBVIOUS
<1>1. /\ PathTypes /\ SplitInv /\ ArrivalInv
      /\ MaxMsgs \in Nat /\ queued \in Nat /\ queued <= MaxMsgs
      /\ msgQueue \in Seq(Msgs) /\ Len(msgQueue) \in Nat /\ DOMAIN msgQueue = 1..Len(msgQueue)
      /\ Flushed \in Nat /\ Flushed + Len(msgQueue) = queued
  BY SendPathAssumption DEF PathInv, PathTypes, SplitInv, Flushed
<1>2. ASSUME NEW m \in 1..queued
      PROVE  LET inQueue == {n \in DOMAIN msgQueue : msgQueue[n] = m}
                 inPackages == {at \in Items \X Msgs :
                                  at[2] \in DOMAIN content[at[1]] /\ content[at[1]][at[2]] = m}
             IN Cardinality(inQueue) + Cardinality(inPackages) = 1
  <2> DEFINE inQueue == {n \in DOMAIN msgQueue : msgQueue[n] = m}
             inPackages == {at \in Items \X Msgs :
                              at[2] \in DOMAIN content[at[1]] /\ content[at[1]][at[2]] = m}
  <2>1. \A n \in DOMAIN msgQueue : msgQueue[n] = Flushed + n
    BY <1>1 DEF SplitInv
  <2>2. CASE m <= Flushed
    <3>1. inQueue = {}
      BY <1>1, <2>1, <2>2
    <3>2. PICK p \in Items : m \in Elems(content[p])
      BY <1>1, <2>2 DEF SplitInv
    <3>3. PICK n \in DOMAIN content[p] : content[p][n] = m
      BY <3>2 DEF Elems
    <3>4. content[p] \in Seq(Msgs) /\ Len(content[p]) <= MaxMsgs /\ Distinct(content[p])
      BY <1>1 DEF SplitInv, PathTypes
    <3>5. n \in Msgs
      BY <1>1, <3>4 DEF Msgs
    <3>6. <<p, n>> \in inPackages
      BY <3>3, <3>5
    <3>7. ASSUME NEW at \in inPackages PROVE at = <<p, n>>
      <4>1. at = <<at[1], at[2]>> /\ at[1] \in Items /\ at[2] \in DOMAIN content[at[1]]
            /\ content[at[1]][at[2]] = m
        OBVIOUS
      <4>2. m \in Elems(content[at[1]])
        BY <4>1 DEF Elems
      <4>3. at[1] = p
        <5>1. \A q, r \in Items : q # r => Elems(content[q]) \intersect Elems(content[r]) = {}
          BY <1>1 DEF SplitInv
        <5>2. at[1] # p => Elems(content[at[1]]) \intersect Elems(content[p]) = {}
          BY <4>1, <5>1
        <5>3. QED
          BY <3>2, <4>2, <5>2
      <4>4. at[2] = n
        BY <3>3, <3>4, <4>1, <4>3 DEF Distinct
      <4>5. QED
        BY <4>1, <4>3, <4>4
    <3> HIDE DEF inQueue, inPackages
    <3>8. inPackages = {<<p, n>>}
      BY <3>6, <3>7
    <3>9. Cardinality(inQueue) = 0 /\ Cardinality(inPackages) = 1
      BY <3>1, <3>8, FS_EmptySet, FS_Singleton
    <3>10. QED
      BY <3>9 DEF inQueue, inPackages
  <2>3. CASE ~(m <= Flushed)
    <3>1. m - Flushed \in DOMAIN msgQueue /\ Flushed + (m - Flushed) = m
      BY <1>1, <2>3
    <3>2. inQueue = {m - Flushed}
      <4>1. ASSUME NEW n \in DOMAIN msgQueue PROVE msgQueue[n] = m <=> n = m - Flushed
        BY <1>1, <2>1
      <4>2. QED
        BY <3>1, <4>1
    <3>3. inPackages = {}
      <4>1. ASSUME NEW at \in inPackages PROVE FALSE
        <5>1. at[1] \in Items /\ m \in Elems(content[at[1]])
          BY DEF Elems
        <5>2. m \in 1..Flushed
          BY <1>1, <5>1 DEF SplitInv
        <5>3. QED
          BY <1>1, <2>3, <5>2
      <4>2. QED
        BY <4>1
    <3> HIDE DEF inQueue, inPackages
    <3>4. Cardinality(inQueue) = 1 /\ Cardinality(inPackages) = 0
      BY <3>2, <3>3, FS_EmptySet, FS_Singleton
    <3>5. QED
      BY <3>4 DEF inQueue, inPackages
  <2>4. QED
    BY <1>1, <2>2, <2>3
<1>3. ASSUME NEW p \in Items, NEW m \in Elems(content[p]), NEW k \in Elems(msgQueue) PROVE m < k
  <2>1. m \in 1..Flushed
    BY <1>1 DEF SplitInv
  <2>2. PICK n \in 1..Len(msgQueue) : k = msgQueue[n]
    BY <1>1 DEF Elems
  <2>3. k = Flushed + n
    BY <1>1, <2>2 DEF SplitInv
  <2>4. QED
    BY <1>1, <2>1, <2>3
<1>4. EachMessageOnce
  BY <1>2 DEF EachMessageOnce
<1>5. PackagesInOrder
  BY <1>1, <1>3 DEF PackagesInOrder, ArrivalInv
<1>6. QED
  BY <1>4, <1>5 DEF OrderSurvivesFlush

LEMMA PathInvariance == SendSpec => []PathInv
<1>1. SendInit => PathInv
  BY InitPath
<1>2. QED
  BY <1>1, PathStep, PTL DEF SendSpec

\* Whatever number of threads send and flush, each message is in one place and the Pusher gets the
\* packages in the order of sendMessage (MessageSender.py 37-80 under _queueLock).
THEOREM FlushKeepsOrder == SendSpec => []OrderSurvivesFlush
BY OrderFromPath, PathInvariance, PTL

-----------------------------------------------------------------------------
(* The queue is never forgotten *)

\* A step that leaves the queue and its bytes alone, and takes no watching thread away.
LEMMA WatchQuiet ==
  ASSUME WatchInv, UNCHANGED <<msgQueue, queuedBytes>>,
         sendThread' => \E n \in Notifiers : mpc'[n] # "unborn",
         \/ \E n \in Notifiers : mpc'[n] # "unborn"
         \/ \A a \in Apps : mpc[a] \in {"count", "bytes", "ensure", "start", "flush"} =>
                              mpc'[a] \in {"count", "bytes", "ensure", "start", "flush"}
         \/ msgQueue = <<>>,
         \/ \A t \in Callers : mpc[t] \in {"count", "bytes", "flush"} => mpc'[t] \in {"count", "bytes", "flush"}
         \/ ~(MaxQBytes # 0 /\ queuedBytes >= MaxQBytes),
         \A n \in Notifiers : mpc[n] # "unborn" => mpc'[n] # "unborn"
  PROVE  WatchInv'
<1>1. msgQueue # <<>> =>
       \/ \E a \in Apps : mpc'[a] \in {"count", "bytes", "ensure", "start", "flush"}
       \/ \E n \in Notifiers : mpc'[n] # "unborn"
  BY DEF WatchInv, QueueIsWatched
<1>2. MaxQBytes # 0 /\ queuedBytes >= MaxQBytes => \E t \in Callers : mpc'[t] \in {"count", "bytes", "flush"}
  BY DEF WatchInv, QueueIsWatched
<1>3. QED
  BY <1>1, <1>2 DEF WatchInv, QueueIsWatched

LEMMA WatchStep == PathInv /\ WatchInv /\ [SendNext]_allVars => WatchInv'
<1> SUFFICES ASSUME PathInv, WatchInv, [SendNext]_allVars PROVE WatchInv'
  OBVIOUS
<1>1. /\ PathTypes /\ Apps \subseteq Callers /\ Notifiers \subseteq Callers
      /\ Callers = Apps \union Notifiers /\ Apps \intersect Notifiers = {} /\ MaxQBytes \in Nat
  BY SendPathAssumption DEF PathInv
<1> DEFINE watch == {"count", "bytes", "ensure", "start", "flush"}
<1>2. ASSUME NEW a \in Apps, SendMessage(a) PROVE WatchInv'
  <2>1. mpc'[a] = "count" /\ \A t \in Callers \ {a} : mpc'[t] = mpc[t]
    BY <1>1, <1>2 DEF SendMessage, MoveTo, PathTypes
  <2>2. sendThread' = sendThread /\ msgQueue' # <<>>
    <3>1. msgQueue \in Seq(Msgs) /\ msgQueue' = Append(msgQueue, queued') /\ sendThread' = sendThread
      BY <1>1, <1>2 DEF SendMessage, PathTypes
    <3>2. QED
      BY <3>1
  <2>3. sendThread => \E n \in Notifiers : mpc'[n] # "unborn"
    BY <1>1, <2>1 DEF WatchInv
  <2>4. QueueIsWatched'
    BY <1>1, <2>1 DEF QueueIsWatched
  <2>5. QED
    BY <2>2, <2>3, <2>4 DEF WatchInv
<1>3. ASSUME NEW t \in Callers, UNCHANGED <<msgQueue, queuedBytes, sendThread>>,
             \E pc : /\ mpc' = [mpc EXCEPT ![t] = pc]
                     /\ t \in Notifiers => pc # "unborn"
                     /\ \/ pc \in {"bytes", "flush"}
                        \/ mpc[t] \in {"send", "await", "asleep"}
                        \/ t \in Apps /\ pc = "ensure" /\ ~AtLimit
                        \/ mpc[t] = "ensure" /\ pc = "start"
                        \/ mpc[t] = "ensure" /\ sendThread
                        \/ msgQueue = <<>>
      PROVE  WatchInv'
  <2>1. PICK pc : /\ mpc' = [mpc EXCEPT ![t] = pc]
                  /\ t \in Notifiers => pc # "unborn"
                  /\ \/ pc \in {"bytes", "flush"}
                     \/ mpc[t] \in {"send", "await", "asleep"}
                     \/ t \in Apps /\ pc = "ensure" /\ ~AtLimit
                     \/ mpc[t] = "ensure" /\ pc = "start"
                     \/ mpc[t] = "ensure" /\ sendThread
                     \/ msgQueue = <<>>
    BY <1>3
  <2>2. mpc'[t] = pc /\ \A c \in Callers \ {t} : mpc'[c] = mpc[c]
    BY <1>1, <2>1 DEF PathTypes
  <2>3. \A n \in Notifiers : mpc[n] # "unborn" => mpc'[n] # "unborn"
    BY <1>1, <2>1, <2>2
  <2>4. sendThread' => \E n \in Notifiers : mpc'[n] # "unborn"
    BY <1>3, <2>3 DEF WatchInv
  <2>5. \/ \E n \in Notifiers : mpc'[n] # "unborn"
        \/ \A a \in Apps : mpc[a] \in watch => mpc'[a] \in watch
        \/ msgQueue = <<>>
    <3>1. CASE sendThread
      BY <1>3, <2>4, <3>1
    <3>2. CASE ~sendThread
      BY <1>1, <2>1, <2>2, <3>2
    <3>3. QED
      BY <3>1, <3>2
  <2>6. \/ \A c \in Callers : mpc[c] \in {"count", "bytes", "flush"} => mpc'[c] \in {"count", "bytes", "flush"}
        \/ ~(MaxQBytes # 0 /\ queuedBytes >= MaxQBytes)
    <3>1. CASE msgQueue = <<>>
      BY <1>1, <3>1 DEF WatchInv
    <3>2. CASE msgQueue # <<>>
      BY <2>1, <2>2, <3>2 DEF AtLimit
    <3>3. QED
      BY <3>1, <3>2
  <2>7. QED
    BY <1>3, <2>3, <2>4, <2>5, <2>6, WatchQuiet
<1>4. ASSUME NEW a \in Apps, TestCount(a) \/ TestBytes(a) \/ TestSendThread(a) PROVE WatchInv'
  <2>1. UNCHANGED <<msgQueue, queuedBytes, sendThread>>
    BY <1>4 DEF TestCount, TestBytes, TestSendThread
  <2>2. a \in Callers /\ a \notin Notifiers
    BY <1>1
  <2>3. CASE TestCount(a)
    BY <1>3, <2>1, <2>2, <2>3 DEF TestCount, MoveTo
  <2>4. CASE TestBytes(a)
    <3>1. CASE AtLimit
      BY <1>3, <2>1, <2>2, <2>4, <3>1 DEF TestBytes, MoveTo
    <3>2. CASE ~AtLimit
      BY <1>3, <2>1, <2>2, <2>4, <3>2 DEF TestBytes, MoveTo
    <3>3. QED
      BY <3>1, <3>2
  <2>5. CASE TestSendThread(a)
    BY <1>3, <2>1, <2>2, <2>5 DEF TestSendThread, MoveTo
  <2>6. QED
    BY <1>4, <2>3, <2>4, <2>5
<1>5. ASSUME NEW t \in Callers, FlushNothing(t) \/ SendReturns(t) PROVE WatchInv'
  <2>1. /\ UNCHANGED <<msgQueue, queuedBytes, sendThread>> /\ mpc' = [mpc EXCEPT ![t] = Rest(t)]
        /\ mpc[t] = "send" \/ msgQueue = <<>>
    BY <1>5 DEF FlushNothing, SendReturns, MoveTo
  <2>2. Rest(t) # "unborn"
    BY DEF Rest
  <2>3. QED
    BY <1>3, <2>1, <2>2
<1>6. ASSUME NEW n \in Notifiers, AwaitOutput(n) \/ AwaitEnds(n) PROVE WatchInv'
  <2>1. /\ UNCHANGED <<msgQueue, queuedBytes, sendThread>> /\ mpc[n] \in {"await", "asleep"}
        /\ \E pc : pc # "unborn" /\ mpc' = [mpc EXCEPT ![n] = pc]
    BY <1>6 DEF AwaitOutput, AwaitEnds, MoveTo
  <2>2. QED
    BY <1>1, <1>3, <2>1
<1>7. ASSUME NEW a \in Apps, StartSendThread(a) PROVE WatchInv'
  <2>1. /\ UNCHANGED <<msgQueue, queuedBytes>> /\ mpc[a] = "start"
        /\ \E n \in Notifiers : mpc'[n] # "unborn"
        /\ \A t \in Callers \ {a} : mpc'[t] = mpc[t] \/ (t \in Notifiers /\ mpc[t] = "unborn")
    BY <1>1, <1>7, PathStart
  <2>2. \A n \in Notifiers : mpc[n] # "unborn" => mpc'[n] # "unborn"
    BY <1>1, <2>1
  <2>3. \A t \in Callers : mpc[t] \in {"count", "bytes", "flush"} => mpc'[t] \in {"count", "bytes", "flush"}
    BY <2>1
  <2>4. QED
    BY <2>1, <2>2, <2>3, WatchQuiet
<1>8. ASSUME NEW t \in Callers, Flush(t) PROVE WatchInv'
  <2>1. /\ msgQueue' = <<>> /\ queuedBytes' = 0 /\ sendThread' = sendThread
        /\ mpc' = [mpc EXCEPT ![t] = "send"]
    BY <1>8 DEF Flush, TakeAll, MoveTo
  <2>2. \A n \in Notifiers : mpc[n] # "unborn" => mpc'[n] # "unborn"
    BY <1>1, <2>1 DEF PathTypes
  <2>3. ~(MaxQBytes # 0 /\ queuedBytes' >= MaxQBytes)
    BY <1>1, <2>1
  <2>4. QED
    BY <2>1, <2>2, <2>3 DEF WatchInv, QueueIsWatched
<1>9. CASE UNCHANGED senderVars
  <2>1. UNCHANGED <<msgQueue, queuedBytes, sendThread, mpc>>
    BY <1>9 DEF senderVars
  <2>2. QED
    BY <2>1 DEF WatchInv, QueueIsWatched
<1>10. QED
  <2>1. ASSUME NEW n \in Notifiers, AwaitTimesOut(n) PROVE UNCHANGED senderVars
    BY <2>1 DEF AwaitTimesOut
  <2>2. CASE UNCHANGED allVars
    BY <1>9, <2>2 DEF allVars
  <2>3. QED
    BY <1>1, <1>2, <1>4, <1>5, <1>6, <1>7, <1>8, <1>9, <2>1, <2>2
       DEF SendNext, AppNext, NotifierNext, PusherStep

\* A queued message always has a thread on its way to flush it, or a notification thread, and a
\* queue at its byte limit is being flushed (MessageSender.py 82-93).
THEOREM QueueStaysWatched == SendSpec => []QueueIsWatched
<1>1. SendInit => PathInv /\ WatchInv
  BY InitPath
<1>2. PathInv /\ WatchInv /\ [SendNext]_allVars => PathInv' /\ WatchInv'
  BY PathStep, WatchStep
<1>3. WatchInv => QueueIsWatched
  BY DEF WatchInv
<1>4. QED
  BY <1>1, <1>2, <1>3, PTL DEF SendSpec

=============================================================================

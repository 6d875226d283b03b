----------------------------- MODULE Transport ------------------------------
(***************************************************************************)
(* A link of the decomposed channel's transport: its action thread, which  *)
(* posts content to and fetches posts from a whiteboard server, the calls  *)
(* of the component manager, and the hashes by which the link knows its    *)
(* own posts.                                                              *)
(*                                                                         *)
(* The link is created again from its address after it was destroyed, or   *)
(* its process died, with the timestamp that was saved.  A post is the     *)
(* action that made it or a foreign message; the server keeps them in      *)
(* order.  A message's hash is the message.                                *)
(***************************************************************************)
EXTENDS Integers, Sequences, Sequencing

CONSTANTS
  Actions,    \* the post actions
  Foreign,    \* the messages others post
  Malformed,  \* those of them that base64::decode refuses
  MaxTries,   \* address.maxTries
  Capacity,   \* ACTION_QUEUE_MAX_CAPACITY
  MaxHashes,  \* MessageHashQueue::max
  MaxFetches, \* bound: the fetch actions
  MaxLives,   \* bound: how often the link is created
  Fetch       \* the fetch action

ASSUME TransportAssumption ==
  /\ {MaxTries, Capacity, MaxLives} \subseteq Nat \ {0}
  /\ {MaxFetches, MaxHashes} \subseteq Nat
  /\ Malformed \subseteq Foreign /\ Actions \intersect Foreign = {} /\ Fetch \notin Actions \union Foreign

VARIABLES
  server,      \* the posts under the link's hashtag
  saved,       \* lastTimestamp: the posts there were then, -1 when none was saved
  life,        \* how often the link was created
  contentQueue, actionQueue,
  isShutdown,
  thread,      \* "none", "starts", "wants" (the mutex), "empty" (found no action,
               \* does not wait yet), "waits", "acts", "ended"
  action,      \* the action the thread is at
  tries, fetchAttempts, latest,
  hashes,      \* postedMessageHashes
  destroyer,   \* destroyLink: "none", "flagged" (isShutdown is set), "joins"
  fetches,     \* fetch actions so far
  failed,      \* updateState (COMPONENT_STATE_FAILED) was called
  done,        \* history: the statuses an action's handles were given
  queued,      \* history: the post actions that were accepted in this life
  dropped,     \* history: the actions that a shutdown or a crash left undone
  received,    \* history: the places on the server this link handed to onReceive, in order
  earlier,     \* history: those its predecessors handed over
  unheard,     \* history: the server stored a copy and the link did not hear of it
  forgotten,   \* history: the actions whose hash made room for a later one, or was used up by a
               \* fetch that is to be repeated
  unfinished,  \* history: the places handed over by fetches that did not come to save their index
  reread,      \* history: the first index was not to be had, and 0 was taken
  missed       \* history: shutdown notified while the thread was about to wait

histories == <<done, queued, dropped, received, earlier, unheard, forgotten, unfinished,
               reread, missed>>
vars == <<server, saved, life, contentQueue, actionQueue, isShutdown, thread, action, tries,
          fetchAttempts, latest, hashes, destroyer, fetches, failed, histories>>

Init ==
  /\ server = <<>>
  /\ saved = -1
  /\ life = 0
  /\ contentQueue = {}
  /\ actionQueue = <<>>
  /\ isShutdown = FALSE
  /\ thread = "none"
  /\ action = Fetch
  /\ tries = 0
  /\ fetchAttempts = 0
  /\ latest = 0
  /\ hashes = <<>>
  /\ destroyer = "none"
  /\ fetches = 0
  /\ failed = FALSE
  /\ done = [a \in Actions |-> <<>>]
  /\ queued = {}
  /\ dropped = {}
  /\ received = <<>>
  /\ earlier = {}
  /\ unheard = {}
  /\ forgotten = {}
  /\ unfinished = {}
  /\ reread = FALSE
  /\ missed = FALSE

\* The thread holds the link's mutex while it looks at the queue and while it acts.
MutexFree == thread \notin {"empty", "acts"}

\* The link is in the LinkMap.
Known == thread # "none" /\ destroyer = "none"

Status(a, s) == done' = [done EXCEPT ![a] = Append(@, s)]

-----------------------------------------------------------------------------
(* Creation and destruction *)

\* createLink, loadLinkAddress, createLinkFromAddress, and the thread's getInitialIndex.
CreateLink ==
  /\ thread = "none"
  /\ life < MaxLives
  /\ life' = life + 1
  /\ thread' = "starts"
  /\ contentQueue' = {} /\ actionQueue' = <<>> /\ hashes' = <<>>
  /\ isShutdown' = FALSE
  /\ fetchAttempts' = 0
  /\ UNCHANGED <<server, saved, action, tries, latest, destroyer, fetches, failed, histories>>

\* From the saved timestamp, from the address's or from now; 0 when the server does not answer.
GetInitialIndex ==
  /\ thread = "starts"
  /\ thread' = "wants"
  /\ \/ /\ latest' \in IF saved >= 0 THEN {saved} ELSE 0..Len(server)
        /\ UNCHANGED reread
     \/ latest' = 0 /\ reread' = TRUE
  /\ UNCHANGED <<server, saved, life, contentQueue, actionQueue, isShutdown, action, tries, fetchAttempts,
                 hashes, destroyer, fetches, failed, done, queued, dropped, received, earlier, unheard,
                 forgotten, unfinished, missed>>

\* Link::shutdown sets the flag and notifies without the mutex.
DestroyLink ==
  /\ Known
  /\ destroyer' = "flagged"
  /\ isShutdown' = TRUE
  /\ UNCHANGED <<server, saved, life, contentQueue, actionQueue, thread, action, tries, fetchAttempts,
                 latest, hashes, fetches, failed, histories>>

Notified == IF thread = "waits" THEN "wants" ELSE thread

ShutdownNotifies ==
  /\ destroyer = "flagged"
  /\ destroyer' = "joins"
  /\ thread' = Notified
  /\ missed' = (missed \/ thread = "empty")
  /\ UNCHANGED <<server, saved, life, contentQueue, actionQueue, isShutdown, action, tries,
                 fetchAttempts, latest, hashes, fetches, failed, done, queued, dropped, received,
                 earlier, unheard, forgotten, unfinished, reread>>

\* The link is freed with what is in its queues.
DestroyReturns ==
  /\ destroyer = "joins"
  /\ thread = "ended"
  /\ destroyer' = "none"
  /\ thread' = "none"
  /\ dropped' = dropped \union Elems(actionQueue)
  /\ earlier' = earlier \union Elems(received)
  /\ queued' = {} /\ received' = <<>>
  /\ UNCHANGED <<server, saved, life, contentQueue, actionQueue, isShutdown, action, tries,
                 fetchAttempts, latest, hashes, fetches, failed, done, unheard, forgotten, unfinished,
                 reread, missed>>

-----------------------------------------------------------------------------
(* Calls of the component manager *)

\* The manager enqueues content before it calls doAction, or forgets to, and may dequeue it while
\* the action is pending; what it dequeues later nobody looks up.
EnqueueContent(a) ==
  /\ Known /\ MutexFree
  /\ done[a] = <<>> /\ a \notin queued \union dropped \union contentQueue
  /\ contentQueue' = contentQueue \union {a}
  /\ UNCHANGED <<server, saved, life, actionQueue, isShutdown, thread, action, tries, fetchAttempts,
                 latest, hashes, destroyer, fetches, failed, histories>>

DequeueContent(a) ==
  /\ Known /\ MutexFree
  /\ done[a] = <<>> /\ a \in contentQueue \intersect queued
  /\ contentQueue' = contentQueue \ {a}
  /\ UNCHANGED <<server, saved, life, actionQueue, isShutdown, thread, action, tries, fetchAttempts,
                 latest, hashes, destroyer, fetches, failed, histories>>

\* Mutant: an action wakes nobody.
PushQuietly(a) == actionQueue' = Append(actionQueue, a) /\ UNCHANGED thread

Push(a) == actionQueue' = Append(actionQueue, a) /\ thread' = Notified

\* Link::post; a full queue and a link in shutdown refuse it with COMPONENT_ERROR.
Post(a) ==
  /\ Known /\ MutexFree
  /\ done[a] = <<>> /\ a \notin queued \union dropped
  /\ Len(actionQueue) < Capacity
  /\ \/ a \in contentQueue /\ Push(a) /\ queued' = queued \union {a} /\ UNCHANGED done
     \/ a \notin contentQueue /\ Status(a, "FAILED") /\ UNCHANGED <<actionQueue, thread, queued>>
  /\ UNCHANGED <<server, saved, life, contentQueue, isShutdown, action, tries, fetchAttempts, latest,
                 hashes, destroyer, fetches, failed, dropped, received, earlier, unheard, forgotten, unfinished, reread, missed>>

FetchPosts ==
  /\ Known /\ MutexFree
  /\ fetches < MaxFetches
  /\ Len(actionQueue) < Capacity
  /\ fetches' = fetches + 1
  /\ Push(Fetch)
  /\ UNCHANGED <<server, saved, life, contentQueue, isShutdown, action, tries, fetchAttempts, latest,
                 hashes, destroyer, failed, histories>>

ForeignPost(f) ==
  /\ \A n \in DOMAIN server : server[n] # f
  /\ server' = Append(server, f)
  /\ UNCHANGED <<saved, life, contentQueue, actionQueue, isShutdown, thread, action, tries,
                 fetchAttempts, latest, hashes, destroyer, fetches, failed, histories>>

-----------------------------------------------------------------------------
(* runActionThread *)

\* addMessage: a full queue loses its oldest hash.
AddHash(m) ==
  \/ /\ Len(hashes) <= MaxHashes
     /\ hashes' = Append(hashes, m)
     /\ UNCHANGED forgotten
  \/ /\ Len(hashes) > MaxHashes
     /\ hashes' = Append(Tail(hashes), m)
     /\ forgotten' = forgotten \union {Head(hashes)}

\* The loop's test of isShutdown, the lock and the look at the queue.
LookForAction ==
  /\ thread = "wants"
  /\ \/ isShutdown /\ thread' = "ended" /\ UNCHANGED <<actionQueue, action, tries, hashes, forgotten>>
     \/ /\ ~isShutdown /\ actionQueue = <<>>
        /\ thread' = "empty"
        /\ UNCHANGED <<actionQueue, action, tries, hashes, forgotten>>
     \/ /\ ~isShutdown /\ actionQueue # <<>>
        /\ thread' = "acts"
        /\ action' = Head(actionQueue)
        /\ actionQueue' = Tail(actionQueue)
        /\ tries' = 0
        /\ IF action' \in contentQueue THEN AddHash(action') ELSE UNCHANGED <<hashes, forgotten>>
  /\ UNCHANGED <<server, saved, life, contentQueue, isShutdown, fetchAttempts, latest, destroyer,
                 fetches, failed, done, queued, dropped, received, earlier, unheard, unfinished, reread, missed>>

Wait ==
  /\ thread = "empty"
  /\ thread' = "waits"
  /\ UNCHANGED <<server, saved, life, contentQueue, actionQueue, isShutdown, action, tries,
                 fetchAttempts, latest, hashes, destroyer, fetches, failed, histories>>

EndAction(a, s) == Status(a, s) /\ thread' = "wants"

\* The content was dequeued since.
PostMissesContent ==
  /\ thread = "acts" /\ action \in Actions \ contentQueue
  /\ EndAction(action, "FAILED")
  /\ UNCHANGED <<server, saved, life, contentQueue, actionQueue, isShutdown, action, tries,
                 fetchAttempts, latest, hashes, destroyer, fetches, failed, queued, dropped, received,
                 earlier, unheard, forgotten, unfinished, reread, missed>>

\* Mutant: the last try is not looked at.
LastTryCounts ==
  /\ thread = "acts" /\ action \in contentQueue
  /\ \/ server' = Append(server, action) /\ unheard' = unheard \union {action}
     \/ UNCHANGED <<server, unheard>>
  /\ tries' = tries + 1
  /\ IF tries' = MaxTries THEN EndAction(action, "SENT") ELSE UNCHANGED <<done, thread>>
  /\ UNCHANGED <<saved, life, contentQueue, actionQueue, isShutdown, action, fetchAttempts, latest,
                 hashes, destroyer, fetches, failed, queued, dropped, received, earlier, forgotten, unfinished, reread, missed>>

\* The place of the first m in a queue that has one.
FirstPlace(queue, m) ==
  CHOOSE k \in DOMAIN queue : queue[k] = m /\ \A j \in DOMAIN queue : queue[j] = m => k <= j

RemoveHash(queue, m) ==
  IF m \in Elems(queue)
  THEN LET k == FirstPlace(queue, m)
       IN  [n \in 1..Len(queue) - 1 |-> IF n < k THEN queue[n] ELSE queue[n + 1]]
  ELSE queue

\* A try that fails may have stored the post; the last one ends the action.
TryFails ==
  /\ thread = "acts" /\ action \in contentQueue
  /\ \/ server' = Append(server, action) /\ unheard' = unheard \union {action}
     \/ UNCHANGED <<server, unheard>>
  /\ tries' = tries + 1
  /\ IF tries' = MaxTries
     THEN EndAction(action, "FAILED") /\ hashes' = RemoveHash(hashes, action)
     ELSE UNCHANGED <<done, thread, hashes>>
  /\ UNCHANGED <<saved, life, contentQueue, actionQueue, isShutdown, action, fetchAttempts, latest,
                 destroyer, fetches, failed, queued, dropped, received, earlier, forgotten, unfinished, reread, missed>>

TrySucceeds ==
  /\ thread = "acts" /\ action \in contentQueue
  /\ server' = Append(server, action)
  /\ EndAction(action, "SENT")
  /\ UNCHANGED <<saved, life, contentQueue, actionQueue, isShutdown, action, tries, fetchAttempts,
                 latest, hashes, destroyer, fetches, failed, queued, dropped, received, earlier, unheard,
                 forgotten, unfinished, reread, missed>>

\* Mutant: the hash found empties the queue.
FindAndClear(queue, m) == IF m \in Elems(queue) THEN <<>> ELSE queue

\* findAndRemoveMessage: a hash found goes with all before it.
FindAndRemove(queue, m) ==
  IF m \in Elems(queue) THEN SubSeq(queue, FirstPlace(queue, m) + 1, Len(queue)) ELSE queue

\* The places of the posts the link has not read.
NewPlaces == [n \in 1..Len(server) - latest |-> latest + n]

\* What is left of the hashes after the first n of them were looked up.
Sifted ==
  LET sift[n \in 0..Len(server) - latest] ==
        IF n = 0 THEN hashes ELSE FindAndRemove(sift[n - 1], server[latest + n])
  IN sift

\* The places whose posts have no hash there when they are looked up.
Unknown == {p \in latest + 1..Len(server) : server[p] \notin Elems(Sifted[p - latest - 1])}

\* Mutant: the index of the last fetch is kept.
KeepLatest(n) == UNCHANGED latest

SetLatest(n) == latest' = n

\* Of these the places whose posts do not decode.
Undecodable == {p \in Unknown : server[p] \in Malformed}

\* What a fetch has handed over when it comes to place p.
HandedBefore(p) == {q \in Unknown : q < p}

FetchSucceeds ==
  /\ thread = "acts" /\ action = Fetch
  /\ Undecodable = {}
  /\ hashes' = Sifted[Len(server) - latest]
  /\ received' = received \o Only(NewPlaces, Unknown)
  /\ saved' = IF latest < Len(server) THEN Len(server) ELSE saved
  /\ SetLatest(Len(server))
  /\ fetchAttempts' = 0
  /\ thread' = "wants"
  /\ UNCHANGED <<server, life, contentQueue, actionQueue, isShutdown, action, tries, destroyer,
                 fetches, failed, done, queued, dropped, earlier, unheard, forgotten, unfinished, reread, missed>>

FetchEndsInError ==
  /\ fetchAttempts' = fetchAttempts + 1
  /\ failed' = (failed \/ fetchAttempts' >= MaxTries)
  /\ thread' = "wants"

\* The first post that does not decode ends the fetch: what was handed over and the hashes that were
\* used up before it stay so, the index is the old one.
FetchStops ==
  /\ thread = "acts" /\ action = Fetch
  /\ \E p \in Undecodable :
       /\ \A q \in Undecodable : p <= q
       /\ hashes' = Sifted[p - latest]
       /\ received' = received \o Only(NewPlaces, HandedBefore(p))
       /\ unfinished' = unfinished \union HandedBefore(p)
  /\ forgotten' = forgotten \union (Elems(hashes) \ Elems(hashes'))
  /\ FetchEndsInError
  /\ UNCHANGED <<server, saved, life, contentQueue, actionQueue, isShutdown, action, tries, latest,
                 destroyer, fetches, done, queued, dropped, earlier, unheard, reread, missed>>

\* getNewPosts throws.
FetchFails ==
  /\ thread = "acts" /\ action = Fetch
  /\ FetchEndsInError
  /\ UNCHANGED <<server, saved, life, contentQueue, actionQueue, isShutdown, action, tries, latest,
                 hashes, destroyer, fetches, histories>>

-----------------------------------------------------------------------------
(* The process dies *)

\* A post under way may have reached the server.
PostOnItsWay ==
  /\ thread = "acts" /\ action \in contentQueue
  /\ server' = Append(server, action)
  /\ unheard' = unheard \union {action}

\* What a fetch has handed over by now.
HandedByNow ==
  IF thread = "acts" /\ action = Fetch
  THEN {HandedBefore(p) : p \in {q \in latest + 1..Len(server) + 1 : \A u \in Undecodable : q <= u}}
  ELSE {{}}

\* At any moment; a fetch may be between two posts, or about to save its index.
Crash ==
  /\ thread # "none"
  /\ thread' = "none" /\ destroyer' = "none"
  /\ dropped' = dropped \union {a \in queued : done[a] = <<>>}
  /\ \E places \in HandedByNow :
       /\ earlier' = earlier \union Elems(received) \union places
       /\ unfinished' = unfinished \union places
  /\ queued' = {} /\ received' = <<>>
  /\ PostOnItsWay \/ UNCHANGED <<server, unheard>>
  /\ UNCHANGED <<saved, life, contentQueue, actionQueue, isShutdown, action, tries, fetchAttempts,
                 latest, hashes, fetches, failed, done, forgotten, reread, missed>>

-----------------------------------------------------------------------------

ThreadSteps ==
  \/ GetInitialIndex \/ LookForAction \/ Wait
  \/ PostMissesContent \/ TryFails \/ TrySucceeds \/ FetchSucceeds \/ FetchStops \/ FetchFails

Next ==
  \/ CreateLink \/ DestroyLink \/ ShutdownNotifies \/ DestroyReturns \/ FetchPosts
  \/ \E a \in Actions : EnqueueContent(a) \/ DequeueContent(a) \/ Post(a)
  \/ \E f \in Foreign : ForeignPost(f)
  \/ ThreadSteps
  \/ Crash

\* The link's thread runs, and so does the caller of destroyLink.
Fairness == WF_vars(ThreadSteps) /\ WF_vars(ShutdownNotifies \/ DestroyReturns)

Spec == Init /\ [][Next]_vars /\ Fairness

-----------------------------------------------------------------------------
(* Properties *)

\* The posts come in the order of the server and each is handed to onReceive once, also over the lives
\* of a link, unless the first index was not to be had or a fetch did not come to save its index: then
\* those it had handed over come again, and no others (Link.cpp 151-219).
EachPostReadOnce ==
  /\ \A i, j \in DOMAIN received : i < j => received[i] < received[j] \/ received[i] \in unfinished
  /\ \A i \in DOMAIN received : received[i] \in earlier => reread \/ received[i] \in unfinished

\* A link takes no post of its own for another's, unless it did not hear of a copy of it, or its hash
\* had to make room or was used up by a fetch that stopped: hashes are dropped with those before them,
\* but never one whose post is still to be read (Link.cpp 187-219, 302-317, MessageHashQueue.cpp 10-33).
OwnPostsAreKnown ==
  \A i \in DOMAIN received :
    server[received[i]] \in queued => server[received[i]] \in unheard \union forgotten

\* A package is reported once; SENT when it is on the server, FAILED when it is not, unless the link
\* did not hear of it (Link.cpp 83-109, 287-324).
StatusAgrees ==
  \A a \in Actions :
    /\ Len(done[a]) <= 1
    /\ done[a] = <<"SENT">> => \E n \in DOMAIN server : server[n] = a
    /\ done[a] = <<"FAILED">> /\ a \notin unheard => \A n \in DOMAIN server : server[n] # a

\* An accepted action is reported in the end, but for one in the queue of a link that is destroyed or
\* dies; and destroyLink returns, unless its notification came when the thread had seen no flag and
\* did not wait yet (Link.cpp 83-149).
ThreadAnswers ==
  /\ \A a \in Actions : a \in queued ~> (done[a] # <<>> \/ isShutdown \/ a \in dropped)
  /\ destroyer = "joins" ~> (destroyer = "none" \/ missed)

=============================================================================

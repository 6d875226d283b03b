# A verification development for race-destini

TLA+ modules that model the core of DESTINI, the whiteboard-based communications
channels for RACE in `src/`; TLC configurations that check them on small instances;
and TLAPS proofs of the results that matter most. `PROJECT.json` maps every definition
to the source lines it stands for.

## The system

A RACE node sends packages over links. DESTINI realises a link as a pair of
*whiteboards*: public services (a Pixelfed or PeerTube instance behind a Redis
database, a DASH video server) on which a sender posts innocuous-looking media that
carry the package, and which a reader polls under a tag both derive from the time and a
shared secret.

    RACE SDK threads                 user model / status threads
          |                                    |
    AbsDestini  (channels, links, connections, packages)  <- DestiniPixelfed, -Avideo, -Dash
          |  sendPackage                        ^ _recv_message
    MessageSender  (one queue per destination)  |
          |  IOManager.Send                     |
    IOManager (C++: wrap, split into segments, encode / decode, reassemble)
          |  WhiteboardTransport.sendMsg        ^ recvMsg callback
    Pusher  (one queue, one thread)      Puller (polling thread, publication thread)
          |                                     |
    Whiteboard.sendMsg                   Whiteboard.recvMsg     (Pixelfed, Avideo, DASH, PermStore)

Everything below AbsDestini runs on ordinary Python threads: the SDK's, one per Pusher,
two per Puller, one notification thread per MessageSender, and the status threads of a
channel. They share objects through `Condition`s and, in several places, through nothing
at all.

### Inventory

| Component | State | Operations | Hard behaviour | What makes it correct |
|---|---|---|---|---|
| **Pusher** (`WBPushPullers.py`, `AbsWhiteboard.py`) | `_sendQueue`, send queue count, `_channel`, `_wbThread` | `pushMsg`, `queueCount`, `flush`, thread loop with batching and retries, shutdown | unlocked start, count read without the queue's lock, wait/notify, retry of a post that was stored, shutdown beside a waiting thread | no message vanishes, order per destination, batch limits, no lost wakeup, shutdown ends the thread |
| **MessageSender** (`MessageSender.py`) | `_queue`, `_queuedBytes`, `_queueLock`, `_sendThread` | `sendMessage`, `_IOManagerSend`, notification thread | decisions on unlocked counters, two threads flush one queue, one lock held across another component, wakeups through a foreign Condition | order, every message sent once, no deadlock, nothing stays queued |
| **Puller** (`WBPushPullers.py`) | received list, `_recvLock`, two threads | `start`, poll loop, publication loop | callback under the lock; waits | every post published once, in order |
| **IOManager** (`external/so-builder/IOManager.cpp`) | message trackers | `Send`, `Examine`, segment processing | segments reordered, duplicated, lost; trackers never dropped | a message is delivered only complete; duplicates do not corrupt |
| **AbsDestini** (`AbsDestini.py`) | channel status, links, connections, hashes of received packages | activate / deactivate, create / load / destroy link, open / close connection, sendPackage, shutdown | check-then-act on the connection table, status thread against SDK threads, iteration over a table that changes | the SDK is told the status every connection has; a closed link has no connection |
| **Channel plugins** (`pixelfed/`, `avideo/`, `dash/`) | availability, user model state | status threads, `channelSendPackage` | races between status and SDK calls | status reported once per change |
| **WhiteboardTransport** (`WhiteboardTransport.py`) | specification, personas, accounts with tags, transport tables, links | `processWhiteboardSpec`, receive and transmit links, `pullingTag`, `senderFor`, `sendMsg`, `shutdown` | tables shared by aliasing, lists that selection uses up, creations that fail half way, links loaded in any order | one Pusher per whiteboard, one tag per persona, a sender for every destination that has one |
| **Codecs of a node** (`IOManager.cpp`, `WhiteboardTransport.py`, `IPSupport.py`) | codecs per channel and address, broadcast addresses | `MakeCodecs`, `_GetCodec`, `Examine`, `_Prefilter` | first codec wins, order of loading, addresses of 16 bits, wrong codecs that answer | a message is heard by those it is for |
| **Redis whiteboards** (`PixelfedRedis.py`, `AvideoRedis.py`, `PermStoreWB.py`) | posts seen, shared cache | polling threads, `recvMsg`, `sendMsg` | tag intervals, clock skew, failed gets, lost answers, caches shared by readers | a post is handed over, once; readers come back to the present tags |
| **Selenium whiteboards** (`PixelfedSelenium.py`, `AvideoSelenium.py`) | the same, in a browser | the same | the browser's thread ends, pages come late | the same, where it holds |
| **DASH server** (`DashSvr.py`) | announced streams, received messages | `sendMsg`, `recvMsg`, decoding threads | threads share one list | every message once, in order |
| **Dynamic tags** | none | words from time and secret | interval boundaries | part of the polling model |
| **User model** (`UserModel.py`) | counters, samples, states | `trackAdd`, tracker thread | missed notifications, samples that age | the states say what the counters say |
| **Message stores** (`AbsMsgStore.py`, `MsgMemStore.py`, `FlaskRACECOMMS.py`) | messages and numbers | `save_message`, `get_messages` | numbers read without the lock | a client that follows misses and repeats nothing |
| **Codec processes** (`CLICodec.cpp` twice, `popenRWE`) | a run's pipes, events and buffers | `run`, `encode`, `decode`, `GetNamedCodec`, `MediaPaths` | blocking writes, ends of streams in any order, a program that fails | whole answers; runs that end |
| **Decomposed channel** (`encoders/`) | a link's queues, hashes, timelines | actions, posts, fetches, `getTimeline` | retries, a destroyed link's successor, shutdown beside a waiting thread | posts read once, statuses that agree with the server, a stable first action |
| Appraisals, SWIG wrappers, configuration utilities, scripts | | | | not modelled, see below |

## Plan

In order; each module composes or stands beside the earlier ones.

1. `Pusher` with the abstract `Mailbox` it implements, and `PusherProofs`. **Done.**
2. `SendPath`: MessageSender composed with Pusher (it extends it). **Done.**
3. `ReceivePath` with the abstract `Delivery` it implements: splitting in `IOManager.Send`,
   the Pullers, the trackers, the duplicate filter. **Done.**
4. `Connections`: AbsDestini's links and connections under several SDK threads and the
   status thread. **Done.**
5. `Polling`: the readers of five kinds of whiteboard under the tags of an interval, senders
   with clocks of their own, the shared caches. **Done.** `Posting` and `Inbox`: the two
   other ends of a whiteboard. **Done.**
6. `Links`: links, tags, Pushers and `senderFor`; `Addressing`: the specification, the
   codecs of a node and who hears what. **Done.**
7. `UserModel`, `MessageStore`. **Done.** The throttles have no caller in the plugins.
8. `Codec`, `Covers`: a codec's program and the covers of `Send`; `Transport`, `Timeline`: the
   decomposed channel. **Done.**
9. Proofs. **Done:** the type invariants of Pusher, ReceivePath and Connections, every safety
   invariant and action property the runs check, but `FirstActionStays` of Timeline, and the
   refinements of Mailbox and Delivery. **Next:** `FirstActionStays`, which needs a declarative form of
   `getTimeline`. The modules to be proved about declare no RECURSIVE operator.

`Sequencing.tla` has what several of these modules say of sequences (`Elems`, `Distinct`, `Total`,
`Only`), written as recursive functions so that `SequencingProofs.tla` can prove their lemmas.

## Pusher

`Pusher.tla` models the sending half of a whiteboard from `WhiteboardTransport.sendMsg`
down to the call of `Whiteboard.sendMsg`.

| In the model | In the code |
|---|---|
| `sendQueue`, `qCount` | `_sendQueue`; `_status['send queue count']`, read by `queueCount()` under another lock |
| `holder`, `waiters` | the owner of the Condition `_sendLock`; the threads inside its `wait()` that nobody notified yet |
| `channel`, `wbThread`, `wpc` | `_channel is not None`; `_wbThread`; the place of each incarnation of the thread |
| `batch`, `last`, `room`, `tries` | `msgList` until its messages have met their fate, and from then on; the bytes left in the post; the loop counter `_i` |
| `spc`, `inShutdown` | the place of `WhiteboardTransport.shutdown`, its flag |
| `SendMsg`, `TestAlive`, `StartThread`, `PushMsg`, `PushAppend`, `PushCount` | `senderFor` / `start` / `pushMsg` of one caller |
| `BeginThread`, `CloseFirst`, `OpenSucceeds`, `OpenFails` | `_threadRunnable`, `_closeChannel`, `_openChannel` |
| `TestChannel`, `TestInner`, `WaitForWork`, `WakeUp`, `TakeHead`, `CountHead`, `FetchMate`, `FetchEnds` | `threadLoop`'s two `while`s, `wait`, `pop`, `fetchAdditionalMessages` |
| `LeaveLoop` | the test behind the inner `while` when that ended without a batch |
| `TestChannelAgain`, `SendSucceeds`, `SendFails`, `GiveUp` | posting with `_max_try` attempts |
| `ShutdownFlush`, `ShutdownFlag`, `ShutdownClose` | `WhiteboardTransport.shutdown` and the Pusher's `flush` |

A step ends where another thread can see or change what is read next. `_sendLock` is a
variable because `queueCount()` does not take it: the queue and the count move in two
steps. Merged into one step: the liveness tests `senderFor` and `start` make one after
the other (`TestAlive`); the `is_alive` of `notify` with the change of the count that
triggers it. A call refused because of `inShutdown` changes nothing and is no step. The
`arrival`, `clock`, `fate`, `posted`, `crossed` and `resent` variables are history.

Two incarnations share `_channel`. One that starts finds it None, and by the time it calls
`_closeChannel` the other may have opened it: `CloseFirst` closes the other's channel (`crossed`).
The other may drop a batch then, with no shutdown; and if the channel is opened again between its test
of the inner `while` and the one behind it, it goes on to post the `msgList` of its last round once
more (`resent`), or dies of one that was never assigned.

`SendFails` covers a `sendMsg` that returned False and one that raised; either may have
stored the post, so `posted` may or may not grow. `Whiteboard` calls return; what is in
a message is its key and its size.

`Mailbox.tla` is what a Pusher promises: per destination a FIFO box, posts of a prefix
of it, each message settled once. `ImplementsMailbox` maps the box to the batch followed
by the queue. It holds for one incarnation of the thread; two incarnations can overtake
each other, and the `pusher` run checks what remains true then.

### Runs

* `pusher` (two callers, two incarnations, two messages to one destination, batches of up to
  two, two attempts): `CountTracksQueue`, `NoSleepOnWork`, `NothingVanishes`,
  `PostedAgreesWithFate`. The unlocked start test lets both callers start an incarnation, and
  all of this survives it, the last with the two exceptions it names: `resent`, and a loss after
  `crossed`. Two of each is the least that shows the races between them; a third caller adds no new
  pair. Two messages are a batch of two or one for each incarnation. The limits of a batch, which need
  a third message, are checked in `sendpath`. The run's module, `MCAddressing`, has a second part, see
  Addressing.
* `pusher_mailbox` (two callers, one incarnation, two destinations, sizes 1, 1, 2, a byte
  limit of 11 that admits 1 + 1 but not 1 + 2 with their headers, two attempts):
  `ImplementsMailbox` and, under fairness, `AcceptedSettles`.
* `pusher_shutdown` (violation): `AbsWhiteboard.py:48` says of `shutdown ()` "Terminate all
  transport threads". The thread can be in `wait()` when the channel is closed; the
  notification came before, none follows. `ShutdownTerminates` fails.

Bound: when every incarnation runs, `StartThread` is blocked; with two Workers this cuts off
only a third simultaneous incarnation.

## SendPath

`SendPath.tla` extends Pusher with one MessageSender for one destination. Its application
threads and its notification thread are the Pusher's callers: `Flush` takes everything
queued as one package, holds `_queueLock` and enters `SendMsg`; the package is appended by
the Pusher's own actions, and `SendReturns` releases the lock. The notification thread
waits in the Pusher's own `waiters`, so the Pusher's notifications reach it. Every read
that `sendMessage` makes without a lock (`queueCount()`, `_queuedBytes`, `_sendThread`) is
a step of its own.

* `sendpath` (two application threads, one notification thread with a timeout, three
  messages of one byte, a limit of two bytes; packages of one, one and two bytes to a Pusher whose
  posts take two messages and ten bytes, which admits 1 + 1 with their headers of four and not 1 + 2):
  `BatchWithinLimits` (the budget of a batch is kept in two places), `OrderSurvivesFlush` (its two parts: each message
  is in the queue or in one package, and packages reach the Pusher in order), `QueueIsWatched`
  (somebody is responsible for what is queued), `MessagesLeave` (every message leaves, so that
  the two locks, one of which is held while the other is waited for, are never in each other's
  way).
* `lost_wakeup` (violation; no timeout, which is how Pixelfed, Avideo and DASH construct
  their MessageSenders): `WBPushPullers.py:168` says "Notify upstream message providers that
  the queue is empty". The one notification can precede the wait, and when the last messages
  leave through `fetchAdditionalMessages` there is none: a message stays queued
  beside an idle Pusher until the next `sendMessage`.

Bounds: a package has an item of `Items` to itself (`Unused`; a flush waits when none is left,
which three messages and three items do not meet), and there is a notification thread to start
(`Notifiers # {}`). `MaxMsgs` messages are given to `sendMessage`; three let two flushes compete while a
third message arrives. A package is one segment (splitting belongs to `ReceivePath`). The test
that starts a notification thread holds no lock, so more than one may start: threads beyond
`Notifiers` are not modelled. One destination: `senderFor`'s choice among several whiteboards
is left to `Links`.

## ReceivePath

`ReceivePath.tla` follows a package from `IOManager.Send` on one host to `receiveEncPkg` on
another. `Contents` says which messages MessageSender packed into it.

| In the model | In the code |
|---|---|
| `numSegs`, `nextSeg` | `num_segs` of the headers, the loop over `rdEncoders` |
| `posts` | the whiteboards, one per Puller |
| `poller`, `recvQueue`, `pub`, `cur`, `at` | the post a polling thread brings, `_recvQueue`, the place of `_publication_run` and what it works on |
| `seen` | `_MsgTracker::_segPairs` of a package's tracker |
| `recvMsgHashes` | `RecvMsgHashes` |
| `Send`, `SendSegment` | the splitting, and per segment encode and post, either of which may fail |
| `RecvMsg`, `RecvAppend`, `Pop`, `Sleep` | `Puller.threadLoop` and `_publication_run` |
| `ExamineFails`, `ExaminePackage`, `ExamineSegment`, `TrackMessage` | `Examine`, `ProcessSegments`, `track` |
| `RecvMessage`, `ReceiveEncPkg` | the two halves of `_recv_message` |

The C++ code runs under the interpreter's lock, so the publication threads of several Pullers
interleave only where it calls back into Python: `_recv_message`. A message of a packed
package is itself a segment with a tracker, which exists exactly while a thread is at that
message; `Tracked` reads it from the threads' places. A post may be read several times:
the Pusher's retries post it several times, and a reader whose intervals overlap may see it
again.

`Delivery.tla` is the promise: no message before its whole package has arrived, none again
within the window of the filter. The window is `MaxRecvMsgHashes - 1`, one less than the
list's length, because a full list loses its oldest hash before it is searched.

* `receive` (a package of two messages and one of one, up to two segments each, two
  Pullers, three reads, a list of two hashes): `TrackersArePartial`, `HandedOnce`,
  `ImplementsDelivery`, and, under fairness, `WholeIsDelivered`. Three reads are two segments
  and a repetition, or a segment of each package and the missing one; a list of two hashes
  is full after two messages, so the third pushes one out. The bounds in `MaxReads` and
  `MaxSegs` limit the environment only.

## Connections

`Connections.tla` models AbsDestini's tables. The keys of `connections` in their order are
`table`, the CommsConn under a key is `connOf`, its fields are `ids`, `linkOf` and `status`.
`told` is what the SDK last heard of a connection. Operations that hold
`connections_lock` throughout are one step. `openConnection` is four when there is nothing to
share: the search under the lock, the insertion under the lock taken anew, the fields
filled in without it, and the report. `SetConnStatus` is one step of the status thread;
it walks the table up to the first CommsConn that has no link yet, where the code raises
and the thread ends. Exceptions of the code that leave a step half done are modelled:
`Close` of an id that `set_conn_status` removed, the loops of `destroyLink` and `shutdown`.

The SDK is assumed to close only connections it was told of, to destroy links it believes
live, to activate the channel once and to deliver the user's answers after
`activateChannel` has returned. `deactivateChannel` tests `channel_status.get (gid)`, which
holds for every status of the channel, and so always refuses: it is no step. Links are not
removed from `link_profiles`, so a destroyed link can still be opened, as in the code.

* `connections` (two links, three ids, two opening threads): `SDKAgreesWithTables` (its two
  parts: ids that receive are live, ids that are open receive), `ClosedForGood`, `WatcherEndsAtHalfOpen`. Three ids are a CommsConn
  shared by two and another one, on the other link or, when the two openers race, on the same.
  The properties name the two windows of `openConnection` as their only exceptions: a
  closing that overtakes the report of the opener, and a CommsConn that is in the table
  before it has a link, at which the status thread ends. Threads, inputs and links are
  symmetric.
* `destroy_link` (violation): `AbsDestini.py:766` says "Close all the connections in the given
  link." `closeConnection` changes the dict the loop iterates over; after the first
  connection the loop raises, the others stay open and the link stays registered.

The user-model status threads are left out: they read `_userModel` from an object that has
none and end at once. Only DestiniAvideo's whiteboard reports being down.

## The whiteboards: Polling, Posting, Inbox

`Polling.tla` is the polling threads of five kinds of reader: Pixelfed and Avideo over Redis,
PermStore, and the two browser versions. `lists` are the tag intervals a round has still to
visit, `at` is the place of the thread, `index` is `cat_indices`, `listed` is `lfn_cache`,
`cache` and `curr` are the shared cache. Pixelfed's browser knows a post by two keys: the address of
its image, and that of its page (`Page`), by which it is looked up when the list has no whole image
address; the image it then finds on the page is fetched without being looked up. All readers of a behaviour are of one kind. A post is
stored under one word of the interval the sender's clock is in, which may be behind; a reader asks
for one random word of each list. What the server answers, or the page shows, is a
nondeterministic choice: the posts, an error, an exception.

* `polling` (intervals 0 and 1, two posts, one word per list, one reader, or two where a cache is
  shared): `NothingPassedOver`, `HandedOnce`, and, under fairness, `ReadersMoveOn`. `High` stands
  for the cache's limit of 10000: at 0 the first entry trims it, and at 2, for Pixelfed's browser, it
  holds the image and the page of one post, so that a post is met under its second key with the first
  still there. `HandedOnce` allows that one repetition (`handed` = 2 and the page known) and those after
  a trimming. `MaxHanded` = 3 caps how often a reader hands a post over. Two intervals let a reader be at a list whose interval is over.
* `stale_round` (violation, Pixelfed alone, two words per list): `PixelfedRedis.py:234` calls its
  loop "do once". The break stands in the `else` of the `for` over the posts, where Avideo has
  it in the `else` of the test of the answer too: after any answer but 200 the list is asked
  again, so that a reader can stay at a past interval for ever. `EveryListOnce` fails.

`Posting.tla` is `sendMsg` of the five sites over its attempts: an answer may be lost after the
post was stored, the channel may be closed in between, a browser may repeat a click. `copies`
is what the server has. `ResultAgrees` relates it to the result the Pusher hears and to what the
user model was told, and bounds the copies.

`Inbox.tla` leads from a fetched video that packs several messages to what `recvMsg` returns:
Avideo's `recv_msg_list` belongs to the class and is emptied by any Puller, DASH's `_urlQueue`
to the module. `MessagesComeOnceInOrder`, `VideosAreUnpacked`.

## WhiteboardTransport: Links, Addressing

`Links.tla` has the receive links with their Pullers, the transmit links with their Pushers,
the pulling tags, and `senderFor`, which pops whiteboards off the list of a link's profile. The
plugin's operations come one after the other. A creation of a Puller or a Pusher may fail, a
Pusher's thread may be dead, an address may name a whiteboard the node does not know, at which
the loading raises half way. `PullersStay`, `OnePusherPerWhiteboard`, `OneTagPerPersona`, and,
under fairness, `SendersAreFound`.

`Addressing.tla` says who can read whose images. `processWhiteboardSpec` accepts a file
(`SpecIsGood` has its assertions) and makes codecs for the persona's accounts; receive and
transmit links make more; for a channel and an address the first one stays (`MakeCodec`). `Send`
chooses channel and codec, and drops the message when the channel has no Pusher. `Examine` tries
the codecs of the channel in any order and stops at the first that answers, `Prefilter` looks at
the addresses. `AddresseesHear` fails only where the code lets it: personas with one address, a
wrong codec's answer, a channel whose whiteboards have several codecs. In the `pusher` run: three
personas, two of which may have one address, three whiteboards on two channels, a good file
and one for each assertion, groups, one image.

## UserModel, MessageStore

`UserModel.tla` has the counters, the samples of the save period and the tracker thread, whose
notification may be missed. `StatesFollowCounters`, and, under fairness, `RateIsTracked`.
`MessageStore.tla` has savers inside `save_message`, which raise the greatest number before the
message is in the list, and clients that ask each time for what follows the last they have; the
check of the request is made without the lock. `ClientsHaveAPrefix`.

* `parts` checks Inbox, Posting, Links, UserModel and MessageStore together. They share no state:
  a behaviour is one of one part, the others stay where they begin, so that the run is the
  disjoint sum of theirs. Links is two parts, its receive links and its transmit links, which meet
  in the accounts only. Bounds: two videos of two messages and two Pullers, so that each can take
  what the other unpacked; `MaxCalls` = 2 calls of a `sendMsg`, each with its attempts; two links of
  each kind, over two configured whiteboards and a server; `MaxPosts` = 5 posts beside limits of 2
  (rate), 3 (actions) and 4 (items), so that every limit is passed; two savers, two clients,
  `MaxSaved` = 3 messages.

## The decomposed channel and the codecs: Transport, Timeline, Codec, Covers

`Transport.tla` is a link of the decomposed channel: its action queue, its thread, the posts and
fetches with their retries, `postedMessageHashes`, and a link created again from its address with
the timestamp that was saved, after `destroyLink` or after its process died (`Crash`). An answer may be
lost after the server took the post. The queue of hashes keeps `MaxHashes` (1024 in
`MessageHashQueue`) and drops the oldest for a new one.

A fetch ends in one of three ways. `FetchSucceeds` hands over every post and saves the index.
`FetchFails` is a `getNewPosts` that throws. `FetchStops` is a post that `base64::decode` refuses
(`Malformed`): `fetchOnActionThread` has by then handed over the posts before it, and used up the hashes
of its own among them, and returns the old index. The next fetch starts at the same place, hands the
same posts over again, takes its own for another's, and stops at the same post: a link does not get
past it. `unfinished` and `forgotten` record the places handed over and the hashes used up in that way;
a `Crash` may also come between a hand-over and the saving of the index.

`EachPostReadOnce` (the exceptions are the places in `unfinished`, and a life whose first index was not to
be had), `OwnPostsAreKnown` (the exceptions are posts whose answers were lost, and hashes that had to make
room or were used up by a fetch that stopped), `StatusAgrees`, and, under fairness, `ThreadAnswers`,
whose one exception is a real window: `Link::shutdown` sets `isShutdown` and notifies without the
mutex, between the thread's test and its wait, and then joins a thread that sleeps.

`MaxTries` is assumed positive (the default is 120). `LinkAddress.cpp:21` takes any number from the
address's JSON; with 0 every post fails without an attempt, and with a negative one `Link.cpp:311` reports
SENT for a post that never was.

`Timeline.tla` is the user model of that channel: the timelines each link keeps, the merge, and the
later start of new links. `FirstActionStays` is the requirement the code's comment states.

`Codec.tla` is a run of a codec's program through three pipes, in both copies of CLICodec
(`copy`), and what makes a codec good. The loop's writes block, the program's too; the program may
write, end, fail or be killed at any time. `AnswerIsWhole` has the one order of events in which
an answer is cut short (the end of stderr read before the rest of the output); `RunReturns`
has the two in which a run never ends (both sides in a write; in the older copy an input that is
left open because there is nothing to write).

`Covers.tla` is `IOManager::Send` over the covers it draws: the segments are cut to the room of a
cover, and a refused segment is tried with other covers until the draw comes to the one it was
cut for. Sizes are a `size_t`: a cover smaller than a header wraps. `SegmentsFit`, `SendReturns`.

* `decomposed` checks the four together, one part per behaviour as above; Transport is three parts:
  two post actions in one life of the link; one in two lives, with posts of others, of which one does
  not decode, and crashes (`Lives`); or three one after the other, of which the first hash makes room for
  the next. In the first and the last the process does not die and nobody else posts (`OneProcess`).
  Bounds: two foreign posts, `f1` and the malformed `f2`; `MaxFetches` = 2, `MaxTries` = 2, `MaxHashes` = 1,
  a queue of two; pipes of one chunk, `MaxIn` = 3 and `MaxOwed` = 2 chunks, so that
  input and output both exceed a pipe; covers of one, two, three and five units with a header of two
  and a maximum of four, messages up to four units, `SizeT` = 16 values; two links, `MaxTime` = 3,
  `MaxActions` = 4.

## Fairness

`FairSpec` and `FairSendSpec` assume weak fairness of every thread: a Python thread that can
run does run, a lock that is free is handed to a waiter, and no call into a library or a
whiteboard blocks for ever. A `wait` with a timeout ends (`AwaitTimesOut`); one without
does not by itself. `SendMsg`, `SendMessage` and the start of shutdown are the environment's and
are never required to happen. Weak fairness of one thread's whole next step does not promise that
a post succeeds: attempts are bounded by `_max_try`.

In `ReceivePath`, `FairSpec` assumes it of the publication threads and of the polling thread's
append, not of the network: a segment need never be read. `Connections` assumes none: it has
safety properties only.

In `Polling` the polling threads run; that a word's posts are listed, and that a post is got, is
assumed again and again (strong fairness), and nothing of the answer for a word without posts. In
`Inbox`, `UserModel`, `Transport` and `Covers` it is the threads' weak fairness, in `UserModel` also
that time passes. In `Links` the application goes on sending, and a thread started again
and again is found alive. In `Codec` the loop runs, and the program takes its orderly steps, reading
what is there, writing what it owes and ending at the end of its input; its failures are never
required. `Timeline`, `Addressing`, `Posting` and `MessageStore` have safety properties only.

Runs set `CHECK_DEADLOCK FALSE`: after all messages are settled, or after shutdown, the
system rests.

The runs spend their properties on what can be wrong. The type invariants of Pusher, ReceivePath and
Connections are proved instead.

## Proofs

A theorem holds for all values of the constants that satisfy the named assumptions of the module:
any number of threads, messages, posts, links and attempts, and any limits. The assumptions say what
the code's own constants and objects satisfy (positive limits, sizes in Nat, names that are distinct,
finitely many threads). Few of the properties are inductive; each proof names the strengthening that
is, and takes it through the steps one action at a time, one lemma per part. The strengthenings were
model-checked on the runs' instances before they were proved.

`SequencingProofs.tla` proves the lemmas about sequences. `LeastElement` and `SetInduction` derive
induction over the places of a sequence from the well-foundedness of the natural numbers, with a set
in place of the operator an induction theorem would take; `Recursion` says that a recursive function
over 0..n satisfies its equations. From these: `SumsDefined`, `SumsStep`, `TotalOfAppend` (the sum of a
sequence of sizes grows by what is appended), `OnlyUpToDefined`, `OnlyOfAppend`, `OnlyPlaces`,
`OnlyElems` (what a filter keeps, in which order, with or without repetitions), `OnlyOfConcat`,
`OnlyOfAll`, `OnlyOfNone`, `OnlyWithout` (what it keeps of two sequences put together, of one it keeps
whole or drops, of one that lost an element), and what `Append` and `Tail` do to the elements
(`AppendElems`, `TailElems`, `TailFacts`).

### PusherProofs: Pusher and SendPath

* `TypeCorrect`, `CountCorrect` (`CountTracksQueue`), `NoLostWakeup` (`NoSleepOnWork`), from `IInv`. It
  adds `LockInv` (a thread is in a place of the critical section exactly when it is the holder; a
  waiter is in `wait`) and `CarryInv` (a caller in flight carries a message): without the
  first the count could be changed by a thread that does not hold the lock, without the second
  `Head` and `EXCEPT` leave the types.
* `NothingLost` (`NothingVanishes`), from `BatchInv` (an incarnation has messages only between the pop
  and the end of its attempts, so that a pop overwrites nothing) and `PushInv` (what a caller has yet
  to append is new and its alone). A lemma for each way a message changes its place:
  `Entering`, `Moving`, `Settling`.
* `BatchesFit` (`BatchWithinLimits`), from `RoomInv` (`room` is what the batch leaves of the post, and
  every message of a batch has its key) and `OrderInv` (queue and batches are in the order of
  arrival, and what is still fetched comes after the batch).
* `PostsAgree` (`PostedAgreesWithFate`), from `CopiesInv`, which counts the copies of a message against
  the attempts made, `OpenInv` (a thread past the test of its channel finds it open until shutdown, or
  until another incarnation closes it) and `LastInv` (what a thread may post again has met its
  fate).
* `PusherIsMailbox` (`Spec /\ []Undisturbed => ImplementsMailbox`): the Pusher implements Mailbox as long
  as no two incarnations of its thread hold a batch and none posts its last one again, and
  `OneThreadIsMailbox`: with one incarnation it always does, by `AloneInv` (a channel that the one
  incarnation found closed stays closed). `Undisturbed` is no invariant: the unlocked start test lets two
  incarnations run, and then a later batch can be posted first. The steps: `AcceptMails` (an append is Accept), `TakeRests`
  (taking a message into the batch leaves what is pending for every destination as it was, from
  `OnlyOfHead` and `OnlyOfMove`, which needs that the oldest message of the destination is taken),
  `AttemptMails` and `SettleMails` (the batch is what the box of its destination begins with,
  `FrontIsBatch`).
* `FlushKeepsOrder` (`SendSpec => []OrderSurvivesFlush`), from `PathInv`: the queue holds the last
  messages in order and the packages the others (`SplitInv`); the package that is being pushed is the
  last one made, and its thread has `_queueLock` (`PushingInv`); arrival follows content
  (`ArrivalInv`). `PusherView` reduces the Pusher's twenty actions to what they change of it.
* `QueueStaysWatched` (`QueueIsWatched`), from `WatchInv`: once `sendThread` is set there is a thread.

### ReceivePathProofs: ReceivePath

`ReceiveTypes`, `OneThreadPerWholePackage` (`TrackersArePartial`), `PassedIsHanded` (`HandedOnce`) and
`ReceiverDelivers` (`ImplementsDelivery`), for any losses, repetitions and orders of the segments.
`SegInv` says that what is stored, read, queued and worked on was sent, without which a tracker could
count segments that do not exist; `AtInv` keeps a thread's place inside its package; `TrackInv` says
that a tracker is whole exactly while one thread is at the package, except for a package taken without a
tracker. `WholeIsAll` and `CopiesAppend` are the lemmas about counting. The refinement needs that a
tracker's segments were decoded and that a thread at the messages of a package is behind the decoding of
all of it (`ArrivedInv`), and that the hashes kept are the last ones that passed, at least
`MaxRecvMsgHashes - 1` once any were dropped (`WindowInv`, `KeptIsTheEnd`); sending, the segment that
makes a package whole and the duplicate filter are the three steps of Delivery (`SendDelivers`,
`ExamineDelivers`, `FilterDelivers`), all others leave it alone (`DeliveryRests`).

### ConnectionsProofs: Connections, Addressing

* `ConnectionTypes` and `TablesAgree` (`SDKAgreesWithTables`), from `ConnInv`: ids still to be generated
  are in use nowhere (`FreshInv`); an id is in one CommsConn's list, once, and was not reported closed
  (`IdsInv`); what an opening thread has made and not reported is in the tables, or a closing overtook
  it (`OpenerInv`); a CommsConn without link has one key, and a thread that is about to fill it
  (`LinkInv`); what was reported open is live (`ToldInv`).
* `ClosedStaysClosed` (`ClosedForGood`) and `WatcherNeedsHalfOpen` (`WatcherEndsAtHalfOpen`) are action
  properties and follow from it.
* `AddresseesDoHear` (`AddresseesHear`, of Addressing), from `AddressingInv`: a codec that is there stays, its
  secret is the one of its address, and a node that listens has one for its own address on the channel of
  every whiteboard (`CodecInv`); an image is on the channel of a whiteboard and was made with the secret of
  its addressee (`ImageInv`); only good files got a node up (`NodeInv`). `MadeCodec` says what is made of a
  sequence of accounts, `OrderHasAll` that an order of them has each. Assumed: no persona has the address of
  a group, and files have finitely many instances and accounts.

### PollingProofs: Polling

`NonePassedOver` (`NothingPassedOver`) and `NoneHandedTwice` (`HandedOnce`), for any readers, posts, words
and intervals. A reader by place (Pixelfed, Avideo) has handed over, or failed to get, what lies under its
index, and still fetches places above it, ascending (`PlaceInv`); PermStore's readers have handed over
what they listed and do not wait for (`PermInv`); a browser's reader finds what it handed over in the
cache until that is trimmed, and has handed over no post twice whose page it does not know
(`BrowserInv`). `StoreInv`: a post is stored once. `PhaseInv` says what a
thread is about to use at each of its places.

### WhiteboardProofs: Posting, Inbox, UserModel, MessageStore

* `PostingResultAgrees` (`ResultAgrees`). The invariant budgets the copies: those the server has and those
  the rest of the call may still make are within what the calls so far allow, per site and place in
  `sendMsg` (`BudgetInv`); a call that succeeded was the last (`DoneInv`); a copy nobody heard of comes
  from a request or click whose outcome was not known (`HeardInv`).
* `MessagesOnce` (`MessagesComeOnceInOrder`). For Avideo, a video in the queue of a reader is in no other,
  and no message of it was unpacked (`AvideoInv`); for DASH, a stream is one reader's from the time it
  took it off the list (`DashInv`).
* `StatesCorrect` (`StatesFollowCounters`): with the types of the counters the property is inductive.
* `ClientsFollow` (`ClientsHaveAPrefix`): the lock is held exactly inside `save_message`; message n has the
  number n; the greatest number is one ahead of the list only between its increment and the append; a
  client that is admitted asks for the message after its last. `Continued` says what appending a slice
  of the list to a prefix of it gives.

### LinksProofs: Links

* `OnePusher` (`OnePusherPerWhiteboard`): a persona's table entry, where there is one, is the one
  Pusher created.
* `OneTag` (`OneTagPerPersona`), from `TagInv`: what was sent carries the tag its persona still has, and a
  server reached at a whiteboard that is none has a tag there. It speaks of the messages this node pushes;
  whether the reader, on its node, polls under the same tag is not modelled.
* `PullersStayWhere` (`PullersStay`, an action property), from `PullInv`: a Puller polls a marked
  whiteboard under the tag of a started link.

### DecomposedProofs: Transport, Codec, Covers

* `PostsReadOnce` (`EachPostReadOnce`), `OwnPostsKnown` (`OwnPostsAreKnown`), `StatusesAgree` (`StatusAgrees`),
  from `TransportInv`. An action that is queued or under way is there once and unreported (`PendingInv`);
  a copy on the server comes from a reported action, or of a try of the present one that was not heard
  of (`CopyInv`); posts handed over lie behind `latest`, a predecessor's behind what was saved
  (`PlacesInv`). The hashes are in the order of their posts, and every post after `latest` that the link
  has to know has one (`HashInv`): `MessageHashQueue` drops, with a hash it finds, those before it, and
  only this order makes that harmless. `SiftedStep` follows the loop over the fetched posts;
  `HandOverKeeps` takes what it did up to any place, and so serves `FetchSucceeds` and `FetchStops`.
  `CrashKeeps` is the death of the process at any moment.
* `AnswersAreWhole` (`AnswerIsWhole`): what was read and what is in the pipe are what the program
  wrote, as long as the loop runs; the loop outlives its program, so that nothing is written after its
  end; the pass-through has no program.
* `SegmentsMakeTheMessage` (`SegmentsFit`), from `CutInv`: what is cut and what is left is the message, and
  what is still to be tried fits the cover it was cut for.

### Only model-checked

* Every liveness property: fairness and ENABLED are out of the prover's reach.
* `FirstActionStays`, which concerns two timelines merged and cut by bounded recursion, and
  `EveryListOnce` with the other three properties that the code violates.


## Not modelled

* Appraisals: a sliding list of results that only log lines and the operator's queries read.
* SWIG wrappers: generated.
* Configuration utilities, scripts, examples, covers: offline, no shared state.
* The throttles: nothing in the plugins calls them.
* The cached and the permanent message store, and the handlers of the RACE comms server other than
  the one that serves a client.
* What two nodes derive from each other's addresses: that the reader of a persona polls under the tag
  and on the whiteboard its sender uses.
* In the modelled parts: timing statistics, logging, the wait between attempts, the content of
  messages; the channel that `PixelfedSelenium._sendMsgMutex` (lines 833, 1083-1085) sets to None itself
  when its driver fails; the servers, browsers, pages and codec programs, which are nondeterministic; the streams
  and media paths of the DASH server; the draws by which dynamic words come from their seed; the JSON
  of link addresses and properties.

------------------------------ MODULE Polling -------------------------------
(***************************************************************************)
(* The polling threads of the whiteboards that are read under tags:        *)
(* Pixelfed and Avideo over Redis, their browser versions, and PermStore.  *)
(*                                                                         *)
(* A static tag and the clock give a list of words per interval            *)
(* (DynamicWords.words); a sender stores a post under one of them, a       *)
(* reader visits the lists of the last intervals and asks for one random   *)
(* word of each.  All readers of an instance are of one kind.  Posts are   *)
(* named by model values; what they hold is left out.  Words of different  *)
(* intervals are taken to differ.                                          *)
(***************************************************************************)
EXTENDS Integers, Sequences, FiniteSets, SequencesExt, Sequencing

CONSTANTS
  Kinds,      \* the kinds of reader of the instance
  Readers,    \* readers of one process
  Runs(_),    \* bound: the readers that run when all are of this kind
  Posts,      \* the posts
  MaxNow,     \* bound: the intervals of the clock are 0..MaxNow
  Skews,      \* how many intervals the clock of a sender may be ahead (-1: behind)
  NumWords,   \* words in the list of one interval
  High(_),    \* the limit of the shared cache of a kind
  None

Intervals == -2..(MaxNow + 1)
Words     == Intervals \X (1..NumWords)

\* The page of a post, by whose address (pseudo_href) Pixelfed's browser may know it.
Page(p) == [page |-> p]
Pages   == {Page(p) : p \in Posts}

ASSUME PollingAssumption ==
  /\ Kinds \subseteq {"pixelfed", "avideo", "permstore", "pixelfedSelenium", "avideoSelenium"}
  /\ Skews \subseteq -1..1
  /\ MaxNow \in Nat /\ NumWords \in Nat \ {0} /\ \A k \in Kinds : High(k) \in Nat
  /\ None \notin Words /\ Posts \intersect Pages = {}

VARIABLES
  kind,     \* the kind of all readers
  now,      \* the interval the clock is in
  store,    \* the posts the server keeps under a word, in their order
  lists,    \* intervals a reader has still to visit in this round, the head is visited now
  at,       \* "round", "visit" (asks what there is), "ask" (Pixelfed, waits for the answer), "fetch",
            \* "read" (PermStore, cache looked up), "ended"
  word,     \* the word a reader asked for
  todo,     \* what the answer listed and the reader has still to fetch
  index,    \* cat_indices: how many posts of a word were seen
  listed,   \* lfn_cache
  cache,    \* _cache of the shared cache: posts, by file or by image, and pages of posts
  curr,     \* _curr of the shared cache
  handed,   \* history: how often a reader put a post into its recvQueue, at most MaxHanded
  failed,   \* history: the posts it could not get, or not decode, and does not ask for again
  trimmed   \* history: the shared cache was trimmed

cacheVars  == <<cache, curr, trimmed>>
readerVars == <<lists, at, word, todo, index, listed, handed, failed>>
vars == <<kind, now, store, readerVars, cacheVars>>

\* Bound: a reader hands a post over that often at most.
MaxHanded == 3

WordsOf(i) == {i} \X (1..NumWords)

Init ==
  /\ kind \in Kinds
  /\ now = 0
  /\ store = [w \in Words |-> <<>>]
  /\ lists = [r \in Readers |-> <<>>]
  /\ at = [r \in Readers |-> "round"]
  /\ word = [r \in Readers |-> None]
  /\ todo = [r \in Readers |-> <<>>]
  /\ index = [r \in Readers |-> [w \in Words |-> 0]]
  /\ listed = [r \in Readers |-> {}]
  /\ cache = {}
  /\ curr = {}
  /\ handed = [r \in Readers |-> [p \in Posts |-> 0]]
  /\ failed = [r \in Readers |-> {}]
  /\ trimmed = FALSE

-----------------------------------------------------------------------------
(* The clock and the server *)

NextInterval ==
  /\ now < MaxNow
  /\ now' = now + 1
  /\ UNCHANGED <<kind, store, readerVars, cacheVars>>

\* A sender with a clock of its own stores a post under one of its words.
Stored(p) ==
  /\ \A w \in Words : p \notin ToSet(store[w])
  /\ \E d \in Skews : \E w \in WordsOf(now + d) :
       store' = [store EXCEPT ![w] = Append(@, p)]
  /\ UNCHANGED <<kind, now, readerVars, cacheVars>>

-----------------------------------------------------------------------------
(* A round of a reader *)

\* "Search last three tag intervals": of the lists only PermStore takes three.
Lists == IF kind = "permstore" THEN <<now, now - 1, now - 2>> ELSE <<now, now - 1>>

BeginRound(r) ==
  /\ r \in Runs(kind)
  /\ at[r] = "round"
  /\ lists' = [lists EXCEPT ![r] = Lists]
  /\ at' = [at EXCEPT ![r] = "visit"]
  /\ UNCHANGED <<kind, now, store, word, todo, index, listed, handed, failed, cacheVars>>

\* Mutant: the "do once" loop has no break.
NoBreak(r) ==
  /\ at' = [at EXCEPT ![r] = "visit"]
  /\ word' = [word EXCEPT ![r] = None]
  /\ todo' = [todo EXCEPT ![r] = <<>>]
  /\ UNCHANGED lists

EndVisit(r) ==
  /\ lists' = [lists EXCEPT ![r] = Tail(@)]
  /\ at' = [at EXCEPT ![r] = IF Len(lists[r]) = 1 THEN "round" ELSE "visit"]
  /\ word' = [word EXCEPT ![r] = None]
  /\ todo' = [todo EXCEPT ![r] = <<>>]

\* The same list once more.
Again(r, w) ==
  /\ at' = [at EXCEPT ![r] = "visit"]
  /\ word' = [word EXCEPT ![r] = w]
  /\ todo' = [todo EXCEPT ![r] = <<>>]
  /\ UNCHANGED lists

Fetch(r, w, s) ==
  /\ at' = [at EXCEPT ![r] = "fetch"]
  /\ word' = [word EXCEPT ![r] = w]
  /\ todo' = [todo EXCEPT ![r] = s]
  /\ UNCHANGED lists

FetchNext(r) ==
  /\ at' = [at EXCEPT ![r] = "fetch"]
  /\ todo' = [todo EXCEPT ![r] = Tail(@)]
  /\ UNCHANGED <<lists, word>>

Hand(r, p) == handed[r][p] < MaxHanded /\ handed' = [handed EXCEPT ![r][p] = @ + 1]
Fail(r, p) == failed' = [failed EXCEPT ![r] = @ \union {p}]

\* The places of w in the server's answer that were not seen.
NewPlaces(r, w) == [n \in 1..(Len(store[w]) - index[r][w]) |-> index[r][w] + n]

\* Mutants: everything on the server counts as seen; nothing does.
SeenAll(r, n) == index' = [index EXCEPT ![r][word[r]] = Len(store[word[r]])]
SeenNone(r, n) == UNCHANGED index

Seen(r, n) == index' = [index EXCEPT ![r][word[r]] = n]

-----------------------------------------------------------------------------
(* PixelfedRedis._recvMsgPriv *)

PixelfedAsk(r) ==
  /\ at[r] = "visit"
  /\ kind = "pixelfed"
  /\ \E w \in WordsOf(Head(lists[r])) : word' = [word EXCEPT ![r] = w]
  /\ at' = [at EXCEPT ![r] = "ask"]
  /\ UNCHANGED <<kind, now, store, lists, todo, index, listed, handed, failed, cacheVars>>

PixelfedLatest(r) ==
  /\ at[r] = "ask"
  /\ store[word[r]] # <<>>
  /\ Fetch(r, word[r], NewPlaces(r, word[r]))
  /\ UNCHANGED <<kind, now, store, index, listed, handed, failed, cacheVars>>

\* The server has no posts under the word, and says so.
PixelfedNothing(r) ==
  /\ at[r] = "ask"
  /\ store[word[r]] = <<>>
  /\ EndVisit(r)
  /\ UNCHANGED <<kind, now, store, index, listed, handed, failed, cacheVars>>

\* Any other answer than 200: the break is in the else of the for, and the same list is asked again,
\* for another word; so it is after an exception.
PixelfedError(r) ==
  /\ at[r] = "ask"
  /\ Again(r, None)
  /\ UNCHANGED <<kind, now, store, index, listed, handed, failed, cacheVars>>

PixelfedGets(r) ==
  /\ at[r] = "fetch" /\ kind = "pixelfed"
  /\ todo[r] # <<>>
  /\ LET n == Head(todo[r])
         w == word[r]
     IN /\ Seen(r, n)
        /\ Hand(r, store[w][n])
        /\ failed' = [failed EXCEPT ![r] = @ \union {store[w][k] : k \in (index[r][w] + 1)..(n - 1)}]
  /\ FetchNext(r)
  /\ UNCHANGED <<kind, now, store, listed, cacheVars>>

\* A get that fails is passed over; its post is lost when a later one succeeds.
PixelfedGetFails(r) ==
  /\ at[r] = "fetch" /\ kind = "pixelfed"
  /\ todo[r] # <<>>
  /\ FetchNext(r)
  /\ UNCHANGED <<kind, now, store, index, listed, handed, failed, cacheVars>>

PixelfedBreak(r) ==
  /\ at[r] = "fetch" /\ kind = "pixelfed"
  /\ todo[r] = <<>>
  /\ EndVisit(r)
  /\ UNCHANGED <<kind, now, store, index, listed, handed, failed, cacheVars>>

PixelfedRaises(r) ==
  /\ at[r] = "fetch" /\ kind = "pixelfed"
  /\ todo[r] # <<>>
  /\ Again(r, None)
  /\ UNCHANGED <<kind, now, store, index, listed, handed, failed, cacheVars>>

-----------------------------------------------------------------------------
(* AvideoRedis._recvMsg: one post per visit.  An exception asks for the same word again. *)

AvideoLatest(r) ==
  /\ at[r] = "visit"
  /\ kind = "avideo"
  /\ \E w \in IF word[r] = None THEN WordsOf(Head(lists[r])) ELSE {word[r]} :
       \/ EndVisit(r)
       \/ store[w] # <<>> /\ Fetch(r, w, NewPlaces(r, w))
  /\ UNCHANGED <<kind, now, store, index, listed, handed, failed, cacheVars>>

\* A video ffmpeg cannot read is seen and not handed over; a get that fails ends the visit.
AvideoGet(r) ==
  /\ at[r] = "fetch"
  /\ kind = "avideo"
  /\ LET places == todo[r]
         p == store[word[r]][Head(places)]
     IN \/ places = <<>> /\ EndVisit(r) /\ UNCHANGED <<index, handed, failed>>
        \/ /\ places # <<>>
           /\ \/ Seen(r, Head(places)) /\ Hand(r, p) /\ EndVisit(r) /\ UNCHANGED failed
              \/ Seen(r, Head(places)) /\ Fail(r, p) /\ FetchNext(r) /\ UNCHANGED handed
              \/ EndVisit(r) /\ UNCHANGED <<index, handed, failed>>
  /\ UNCHANGED <<kind, now, store, listed, cacheVars>>

AvideoRaises(r) ==
  /\ at[r] = "fetch"
  /\ kind = "avideo"
  /\ todo[r] # <<>>
  /\ Again(r, word[r])
  /\ UNCHANGED <<kind, now, store, index, listed, handed, failed, cacheVars>>

-----------------------------------------------------------------------------
(* _SharedCache, _SharedCache_Pix *)

\* S is cached, and then the cache is trimmed.
CheckCache(S) ==
  IF Cardinality(curr \union S) > High(kind)
  THEN cache' = curr \union S /\ curr' = {} /\ trimmed' = TRUE
  ELSE cache' = cache \union S /\ curr' = curr \union S /\ UNCHANGED trimmed

Cache(S) ==
  /\ cache' = cache \union S
  /\ curr' = curr \union S
  /\ UNCHANGED trimmed

-----------------------------------------------------------------------------
(* PermStoreWB._recvMsg *)

PermList(r) ==
  /\ at[r] = "visit"
  /\ kind = "permstore"
  /\ \E w \in WordsOf(Head(lists[r])) :
       LET new == Only(store[w], Posts \ listed[r])
       IN  /\ IF new = <<>> THEN EndVisit(r) ELSE Fetch(r, w, new)
           /\ listed' = [listed EXCEPT ![r] = @ \union ToSet(new)]
  /\ CheckCache({})
  /\ UNCHANGED <<kind, now, store, index, handed, failed>>

NextFile(r) == IF Len(todo[r]) = 1 THEN EndVisit(r) ELSE FetchNext(r)

\* A file another reader has cached is skipped.
PermLookUp(r) ==
  /\ at[r] = "fetch"
  /\ kind = "permstore"
  /\ IF Head(todo[r]) \in cache
     THEN NextFile(r)
     ELSE at' = [at EXCEPT ![r] = "read"] /\ UNCHANGED <<lists, word, todo>>
  /\ UNCHANGED <<kind, now, store, index, listed, handed, failed, cacheVars>>

\* The look-up and the read are not one step.  A file that cannot be read stays in lfn_cache.
PermRead(r) ==
  /\ at[r] = "read"
  /\ LET p == Head(todo[r])
     IN \/ Hand(r, p) /\ Cache({p}) /\ UNCHANGED failed
        \/ Fail(r, p) /\ UNCHANGED <<handed, cacheVars>>
  /\ NextFile(r)
  /\ UNCHANGED <<kind, now, store, index, listed>>

-----------------------------------------------------------------------------
(* The browser versions *)

New(w) == ToSet(store[w]) \ cache

\* Mutant: a page that was read is read again.
UnreadAlways(w) == ToSet(store[w])

\* The posts whose pages are not known.
Unread(w) == {p \in ToSet(store[w]) : Page(p) \notin cache}

\* The search fails, is not logged in or finds nothing; a browser that was lost is opened again.
PixelfedSearchFails(r) ==
  /\ at[r] = "visit"
  /\ kind = "pixelfedSelenium"
  /\ EndVisit(r)
  /\ UNCHANGED <<kind, now, store, index, listed, handed, failed, cacheVars>>

\* Of the posts found some are listed without the address of the image (late), and looked up by their
\* pages only.  The page gives the address, which nobody looks up again, and is cached before the image
\* is fetched.  The cookies, or the browser's name, may then fail.
PixelfedSearch(r) ==
  /\ at[r] = "visit"
  /\ kind = "pixelfedSelenium"
  /\ \E w \in WordsOf(Head(lists[r])) : \E found \in SUBSET Unread(w) : \E late \in SUBSET found :
       /\ found \ late \subseteq New(w)
       /\ CheckCache({Page(p) : p \in late})
       /\ \/ Fetch(r, w, Only(store[w], found)) /\ UNCHANGED failed
          \/ EndVisit(r) /\ failed' = [failed EXCEPT ![r] = @ \union late]
  /\ UNCHANGED <<kind, now, store, index, listed, handed>>

\* A post is cached by its image when it is fetched; one that fails is tried at a later visit, unless
\* its page was cached.
PixelfedFetch(r) ==
  /\ at[r] = "fetch"
  /\ kind = "pixelfedSelenium"
  /\ \/ todo[r] = <<>> /\ EndVisit(r) /\ UNCHANGED <<handed, failed, cacheVars>>
     \/ /\ todo[r] # <<>>
        /\ LET p == Head(todo[r])
           IN \/ Hand(r, p) /\ Cache({p}) /\ UNCHANGED failed
              \/ /\ IF Page(p) \in cache THEN Fail(r, p) ELSE UNCHANGED failed
                 /\ UNCHANGED <<handed, cacheVars>>
        /\ FetchNext(r)
  /\ UNCHANGED <<kind, now, store, index, listed>>

\* AvideoSelenium never trims the cache.
AvideoSearchFails(r) ==
  /\ at[r] = "visit"
  /\ kind = "avideoSelenium"
  /\ EndVisit(r)
  /\ UNCHANGED <<kind, now, store, index, listed, handed, failed, cacheVars>>

AvideoSearch(r) ==
  /\ at[r] = "visit"
  /\ kind = "avideoSelenium"
  /\ \E w \in WordsOf(Head(lists[r])) :
       New(w) # {} /\ Fetch(r, w, Only(store[w], New(w)))
  /\ UNCHANGED <<kind, now, store, index, listed, handed, failed, cacheVars>>

\* A video that fails three times is left for a later visit.
AvideoFetch(r) ==
  /\ at[r] = "fetch"
  /\ kind = "avideoSelenium"
  /\ \/ todo[r] = <<>> /\ EndVisit(r) /\ UNCHANGED <<handed, cacheVars>>
     \/ /\ todo[r] # <<>>
        /\ \/ Hand(r, Head(todo[r])) /\ Cache({Head(todo[r])})
           \/ UNCHANGED <<handed, cacheVars>>
        /\ FetchNext(r)
  /\ UNCHANGED <<kind, now, store, index, listed, failed>>

EndThread(r) ==
  /\ at' = [at EXCEPT ![r] = "ended"]
  /\ lists' = [lists EXCEPT ![r] = <<>>]
  /\ word' = [word EXCEPT ![r] = None]
  /\ todo' = [todo EXCEPT ![r] = <<>>]
  /\ UNCHANGED <<kind, now, store, index, listed, handed, failed, cacheVars>>

\* The page a browser shows is read outside of any try, as is the first page Pixelfed's feedback
\* asks for between two rounds: the thread ends, and nobody starts it again.
FeedbackRaises(r) == kind = "pixelfedSelenium" /\ at[r] = "round" /\ EndThread(r)

\* Avideo's thread posts videos without a message now and then.  When both tries fail there is no
\* result to return, and the thread ends.
SendMsgGoodRaises(r) == kind = "avideoSelenium" /\ at[r] = "round" /\ EndThread(r)

-----------------------------------------------------------------------------

ReaderStep(r) ==
  \/ BeginRound(r)
  \/ PixelfedAsk(r) \/ PixelfedLatest(r) \/ PixelfedNothing(r) \/ PixelfedError(r)
  \/ PixelfedGets(r) \/ PixelfedGetFails(r) \/ PixelfedBreak(r)
  \/ AvideoLatest(r) \/ AvideoGet(r)
  \/ PermList(r) \/ PermLookUp(r) \/ PermRead(r)
  \/ PixelfedSearchFails(r) \/ PixelfedSearch(r) \/ PixelfedFetch(r)
  \/ AvideoSearchFails(r) \/ AvideoSearch(r) \/ AvideoFetch(r)

Next ==
  \/ NextInterval
  \/ \E p \in Posts : Stored(p)
  \/ \E r \in Readers : 
       ReaderStep(r) \/ PixelfedRaises(r) \/ AvideoRaises(r) \/ FeedbackRaises(r) \/ SendMsgGoodRaises(r)

Spec == Init /\ [][Next]_vars

\* The polling threads run; the server lists the posts of a word, and gives a post, again and again.
\* What it answers for a word without posts is its own.
Fairness ==
  \A r \in Readers :
    WF_vars(ReaderStep(r)) /\ SF_vars(AvideoGet(r) \/ PixelfedGets(r)) /\ SF_vars(PixelfedLatest(r))

FairSpec == Spec /\ Fairness

-----------------------------------------------------------------------------
(* Properties *)

HandedBy(r) == {p \in Posts : handed[r][p] > 0}
HandedOver  == UNION {HandedBy(r) : r \in Readers}
Awaited     == UNION {ToSet(todo[r]) : r \in Readers}

\* A post a reader will not ask for again was handed to its recvQueue, or the reader failed to get
\* or to decode it.  Where the readers share a cache another one may have it, or be about to
\* (PixelfedRedis.py 246-256, AvideoRedis.py 330-355, PermStoreWB.py 265-298,
\* PixelfedSelenium.py 676-795).
NothingPassedOver ==
  /\ \A r \in Readers : \A w \in Words : \A n \in 1..index[r][w] :
       store[w][n] \in HandedBy(r) \union failed[r]
  /\ \A r \in Readers : listed[r] \subseteq HandedOver \union failed[r] \union ToSet(todo[r])
  /\ \A p \in Posts : {p, Page(p)} \intersect cache # {} =>
       p \in HandedOver \union (UNION {failed[r] : r \in Readers}) \union Awaited

\* A reader hands a post over once.  Only Pixelfed's browser version, which knows a post by the shared
\* cache alone, may hand it again: after the cache was trimmed, or once, when a post it knows by its
\* image is listed without the image's address and its page was never read (PixelfedRedis.py 240-256,
\* AvideoRedis.py 325-350, PermStoreWB.py 67-76, 262-298, PixelfedSelenium.py 109-118, 698-732).
HandedOnce ==
  \A r \in Readers, p \in Posts :
    \/ handed[r][p] <= 1
    \/ kind = "pixelfedSelenium" /\ (trimmed \/ (handed[r][p] = 2 /\ Page(p) \in cache))

\* A reader comes back to the tags of the present interval, whatever was posted and however often
\* the server fails, unless its browser ended its thread.  Pixelfed's may stay at a list as long as a
\* word of it has no posts (PixelfedRedis.py 216-273, AvideoRedis.py 305-380, PermStoreWB.py 249-307,
\* PixelfedSelenium.py 580-815).
ReadersMoveOn ==
  \A r \in Readers :
    []<>(\/ at[r] \in {"round", "ended"}
         \/ kind = "pixelfed" /\ \E w \in WordsOf(Head(lists[r])) : store[w] = <<>>)

\* "Search last three tag intervals, starting with 'now'" and a "do once" loop "that permits early
\* exits" (PixelfedRedis.py 220, 234): the reader comes back to the tags of the present interval.
EveryListOnce == \A r \in Readers : []<>(at[r] = "round")

=============================================================================

---------------------------- MODULE PollingProofs ---------------------------
(***************************************************************************)
(* The polling threads pass over no post, and hand none over twice, for    *)
(* any number of readers, words and posts and any clocks.                  *)
(***************************************************************************)
EXTENDS Polling, SequencingProofs, TLAPS

\* The readers of Pixelfed and Avideo know the posts of a word by their places.
ByPlace == kind \in {"pixelfed", "avideo"}
Browser == kind \in {"pixelfedSelenium", "avideoSelenium"}
ToDos   == IF ByPlace THEN Nat ELSE Posts
Steps   == {"round", "visit", "ask", "fetch", "read", "ended"}

DataInv ==
  /\ kind \in Kinds
  /\ now \in 0..MaxNow
  /\ store \in [Words -> Seq(Posts)]
  /\ index \in [Readers -> [Words -> Nat]]
  /\ listed \in [Readers -> SUBSET Posts]
  /\ cache \subseteq Posts \union Pages
  /\ curr \subseteq cache
  /\ handed \in [Readers -> [Posts -> Nat]]
  /\ failed \in [Readers -> SUBSET Posts]
  /\ trimmed \in BOOLEAN

\* What a reader is about to use at each of its steps.
PhaseOf(k, l, a, w, t) ==
  /\ a \in {"visit", "ask", "fetch", "read"} => l # <<>>
  /\ a \in {"ask", "fetch", "read"} => w \in Words
  /\ a \in {"round", "visit", "ask", "ended"} => t = <<>>
  /\ a = "ask" => k = "pixelfed"
  /\ a = "read" => k = "permstore"
  /\ a \in {"fetch", "read"} /\ k = "permstore" => t # <<>>

PhaseInv ==
  /\ lists \in [Readers -> Seq(Intervals)]
  /\ at \in [Readers -> Steps]
  /\ word \in [Readers -> Words \union {None}]
  /\ todo \in [Readers -> Seq(ToDos)]
  /\ \A r \in Readers : PhaseOf(kind, lists[r], at[r], word[r], todo[r])

\* A post is stored once.
StoreInv ==
  \A w, x \in Words : \A m \in DOMAIN store[w], n \in DOMAIN store[x] :
    store[w][m] = store[x][n] => w = x /\ m = n

\* What a reader handed over lies under its index, what it has still to fetch above it.
SeenInv(r) ==
  \A w \in Words :
    /\ index[r][w] <= Len(store[w])
    /\ ~ByPlace => index[r][w] = 0
    /\ \A n \in 1..index[r][w] : store[w][n] \in HandedBy(r) \union failed[r]

AheadInv(r) ==
  /\ \A n \in DOMAIN todo[r] : index[r][word[r]] < todo[r][n] /\ todo[r][n] <= Len(store[word[r]])
  /\ \A m, n \in DOMAIN todo[r] : m < n => todo[r][m] < todo[r][n]
  /\ kind = "avideo" => \A n \in DOMAIN todo[r] : todo[r][n] = index[r][word[r]] + n

UnderInv(r) ==
  \A p \in HandedBy(r) :
    handed[r][p] = 1 /\ \E w \in Words : \E n \in 1..index[r][w] : store[w][n] = p

PlaceInv ==
  \A r \in Readers : SeenInv(r) /\ (ByPlace => AheadInv(r) /\ UnderInv(r))

\* A reader of another kind fetches no post twice in a visit.
TodoInv == ~ByPlace => \A r \in Readers : Distinct(todo[r])

\* What PermStore's readers handed over they have listed, and no longer wait for.
PermInv ==
  /\ kind = "permstore" =>
       /\ cache \subseteq HandedOver
       /\ \A r \in Readers :
            /\ ToSet(todo[r]) \subseteq listed[r]
            /\ listed[r] \subseteq HandedOver \union failed[r] \union ToSet(todo[r])
            /\ \A p \in HandedBy(r) : handed[r][p] = 1 /\ p \in listed[r] \ ToSet(todo[r])
  /\ kind # "permstore" => \A r \in Readers : listed[r] = {}

Failures == UNION {failed[r] : r \in Readers}

\* A post handed over n times is cached, the second time by its page too, and then no longer awaited in t.
Known(p, n, t, c) ==
  /\ n > 0 => p \in c
  /\ n <= 1 \/ (n = 2 /\ Page(p) \in c /\ p \notin ToSet(t))
  /\ n > 0 /\ p \in ToSet(t) => Page(p) \in c

\* What a browser's reader handed over is in the cache until it is trimmed.
BrowserInv ==
  /\ trimmed => kind \in {"permstore", "pixelfedSelenium"}
  /\ ByPlace => cache = {}
  /\ kind # "pixelfedSelenium" => cache \subseteq Posts
  /\ Browser =>
       /\ \A p \in Posts : p \in cache => p \in HandedOver
       /\ \A p \in Posts : Page(p) \in cache => p \in HandedOver \union Failures \union Awaited
       /\ ~trimmed => \A r \in Readers : \A p \in Posts : Known(p, handed[r][p], todo[r], cache)

PollInv == DataInv /\ PhaseInv /\ StoreInv /\ PlaceInv /\ TodoInv /\ PermInv /\ BrowserInv

\* Of the readers only r changes its word and what it has still to fetch.
Moves(r, w, t) ==
  /\ word'[r] = w /\ todo'[r] = t
  /\ \A x \in Readers \ {r} : word'[x] = word[x] /\ todo'[x] = todo[x]

\* A reader goes on: its list, its step, its word and what it has still to fetch are those given.
LEMMA ReaderMoves ==
  ASSUME PhaseInv, NEW r \in Readers, NEW l \in Seq(Intervals), NEW a \in Steps,
         NEW w \in Words \union {None}, NEW t \in Seq(ToDos), PhaseOf(kind, l, a, w, t),
         lists' = [lists EXCEPT ![r] = l], at' = [at EXCEPT ![r] = a],
         word' = [word EXCEPT ![r] = w], todo' = [todo EXCEPT ![r] = t], kind' = kind
  PROVE  PhaseInv' /\ Moves(r, w, t)
<1>1. ToDos' = ToDos
  BY DEF ToDos, ByPlace
<1>2. /\ lists' \in [Readers -> Seq(Intervals)] /\ at' \in [Readers -> Steps]
      /\ word' \in [Readers -> Words \union {None}] /\ todo' \in [Readers -> Seq(ToDos)]
  BY DEF PhaseInv
<1>3. ASSUME NEW x \in Readers PROVE PhaseOf(kind, lists'[x], at'[x], word'[x], todo'[x])
  <2>1. CASE x = r
    BY <2>1 DEF PhaseInv
  <2>2. CASE x # r
    <3>1. lists'[x] = lists[x] /\ at'[x] = at[x] /\ word'[x] = word[x] /\ todo'[x] = todo[x]
      BY <2>2 DEF PhaseInv
    <3>2. QED
      BY <3>1 DEF PhaseInv
  <2>3. QED
    BY <2>1, <2>2
<1>4. \A x \in Readers : PhaseOf(kind, lists[x], at[x], word[x], todo[x])'
  BY <1>3 DEF PhaseOf
<1>5. Moves(r, w, t)
  BY DEF Moves, PhaseInv
<1>6. QED
  BY <1>1, <1>2, <1>4, <1>5 DEF PhaseInv

LEMMA VisitEnds ==
  ASSUME PhaseInv, NEW r \in Readers, at[r] \in {"visit", "ask", "fetch", "read"}, EndVisit(r), kind' = kind
  PROVE  PhaseInv' /\ Moves(r, None, <<>>)
<1>1. lists[r] \in Seq(Intervals) /\ lists[r] # <<>>
  BY DEF PhaseInv, PhaseOf
<1>2. Tail(lists[r]) \in Seq(Intervals) /\ (Len(lists[r]) # 1 => Tail(lists[r]) # <<>>)
  BY <1>1, TailFacts
<1> DEFINE a == IF Len(lists[r]) = 1 THEN "round" ELSE "visit"
<1>3. a \in Steps /\ None \in Words \union {None} /\ <<>> \in Seq(ToDos)
  BY DEF Steps
<1>4. PhaseOf(kind, Tail(lists[r]), a, None, <<>>)
  BY <1>2 DEF PhaseOf
<1>5. /\ lists' = [lists EXCEPT ![r] = Tail(lists[r])] /\ at' = [at EXCEPT ![r] = a]
      /\ word' = [word EXCEPT ![r] = None] /\ todo' = [todo EXCEPT ![r] = <<>>]
  BY DEF EndVisit
<1> HIDE DEF a
<1>6. QED
  BY <1>2, <1>3, <1>4, <1>5, ReaderMoves

\* Where a reader stays at its list, ReaderMoves needs no word of the list.
LEMMA ListKept ==
  ASSUME PhaseInv, NEW r \in Readers, at[r] \in {"visit", "ask", "fetch", "read"}, UNCHANGED lists
  PROVE  lists[r] \in Seq(Intervals) /\ lists[r] # <<>> /\ lists' = [lists EXCEPT ![r] = lists[r]]
BY DEF PhaseInv, PhaseOf

LEMMA ListAgain ==
  ASSUME PhaseInv, NEW r \in Readers, at[r] \in {"visit", "ask", "fetch", "read"},
         NEW w \in Words \union {None}, Again(r, w), kind' = kind
  PROVE  PhaseInv' /\ Moves(r, w, <<>>)
<1>1. lists[r] \in Seq(Intervals) /\ lists[r] # <<>> /\ lists' = [lists EXCEPT ![r] = lists[r]]
  BY ListKept DEF Again
<1>2. "visit" \in Steps /\ <<>> \in Seq(ToDos)
  BY DEF Steps
<1>3. PhaseOf(kind, lists[r], "visit", w, <<>>)
  BY <1>1 DEF PhaseOf
<1>4. QED
  BY <1>1, <1>2, <1>3, ReaderMoves DEF Again

LEMMA FetchBegins ==
  ASSUME PhaseInv, NEW r \in Readers, at[r] \in {"visit", "ask", "fetch", "read"},
         NEW w \in Words, NEW t \in Seq(ToDos), kind = "permstore" => t # <<>>,
         Fetch(r, w, t), kind' = kind
  PROVE  PhaseInv' /\ Moves(r, w, t)
<1>1. lists[r] \in Seq(Intervals) /\ lists[r] # <<>> /\ lists' = [lists EXCEPT ![r] = lists[r]]
  BY ListKept DEF Fetch
<1>2. "fetch" \in Steps
  BY DEF Steps
<1>3. PhaseOf(kind, lists[r], "fetch", w, t)
  BY <1>1 DEF PhaseOf
<1>4. QED
  BY <1>1, <1>2, <1>3, ReaderMoves DEF Fetch

LEMMA FetchGoesOn ==
  ASSUME PhaseInv, NEW r \in Readers, at[r] \in {"fetch", "read"}, todo[r] # <<>>,
         kind = "permstore" => Len(todo[r]) # 1, FetchNext(r), kind' = kind
  PROVE  PhaseInv' /\ Moves(r, word[r], Tail(todo[r]))
<1>1. lists[r] \in Seq(Intervals) /\ lists[r] # <<>> /\ lists' = [lists EXCEPT ![r] = lists[r]]
  BY ListKept DEF FetchNext
<1>2. "fetch" \in Steps /\ word[r] \in Words /\ todo[r] \in Seq(ToDos)
  BY DEF Steps, PhaseInv, PhaseOf
<1>3. Tail(todo[r]) \in Seq(ToDos) /\ (Len(todo[r]) # 1 => Tail(todo[r]) # <<>>)
  BY <1>2, TailFacts
<1>4. PhaseOf(kind, lists[r], "fetch", word[r], Tail(todo[r]))
  BY <1>1, <1>2, <1>3 DEF PhaseOf
<1>5. word' = [word EXCEPT ![r] = word[r]]
  BY DEF FetchNext, PhaseInv
<1>6. /\ at' = [at EXCEPT ![r] = "fetch"] /\ todo' = [todo EXCEPT ![r] = Tail(todo[r])] /\ word' = word
  BY DEF FetchNext
<1>7. QED
  BY <1>1, <1>2, <1>3, <1>4, <1>5, <1>6, ReaderMoves

-----------------------------------------------------------------------------
(* A reader that stops fetching, or had nothing to fetch *)

LEMMA OtherReaders ==
  ASSUME PlaceInv, NEW x \in Readers, kind' = kind, store' = store, index'[x] = index[x],
         handed'[x] = handed[x], failed'[x] = failed[x], todo'[x] = todo[x], word'[x] = word[x]
  PROVE  SeenInv(x)' /\ (ByPlace => AheadInv(x)' /\ UnderInv(x)')
<1>1. SeenInv(x) /\ (ByPlace => AheadInv(x) /\ UnderInv(x)) /\ HandedBy(x)' = HandedBy(x) /\ ByPlace' = ByPlace
  BY DEF PlaceInv, HandedBy, ByPlace
<1>2. SeenInv(x)'
  BY <1>1 DEF SeenInv
<1>3. ByPlace => AheadInv(x)'
  BY <1>1 DEF AheadInv
<1>4. ByPlace => UnderInv(x)'
  BY <1>1 DEF UnderInv
<1>5. QED
  BY <1>2, <1>3, <1>4

LEMMA DropStep ==
  ASSUME PollInv, NEW r \in Readers, NEW w, Moves(r, w, <<>>), PhaseInv', ByPlace \/ todo[r] = <<>>,
         UNCHANGED <<kind, now, store, index, listed, handed, failed, cacheVars>>
  PROVE  PollInv'
<1>1. DataInv' /\ StoreInv' /\ ByPlace' = ByPlace /\ Browser' = Browser /\ Failures' = Failures
  BY DEF PollInv, DataInv, StoreInv, cacheVars, ByPlace, Browser, Failures
<1>2. /\ \A x \in Readers : HandedBy(x)' = HandedBy(x)
      /\ HandedOver' = HandedOver
  BY DEF HandedBy, HandedOver
<1>3. \A x \in Readers \ {r} : todo'[x] = todo[x] /\ word'[x] = word[x]
  BY DEF Moves
<1>4. todo'[r] = <<>> /\ DOMAIN <<>> = {} /\ DOMAIN todo'[r] = {}
  BY DEF Moves
<1>5. PlaceInv'
  <2>1. ASSUME NEW x \in Readers PROVE SeenInv(x)' /\ (ByPlace => AheadInv(x)' /\ UnderInv(x)')
    <3>1. CASE x # r
      BY <1>3, <3>1, OtherReaders DEF PollInv
    <3>2. CASE x = r
      <4>1. SeenInv(x) /\ (ByPlace => UnderInv(x))
        BY DEF PollInv, PlaceInv
      <4>2. SeenInv(x)'
        BY <1>1, <1>2, <4>1 DEF SeenInv
      <4>3. ByPlace => UnderInv(x)'
        BY <1>2, <4>1 DEF UnderInv
      <4>4. AheadInv(x)'
        BY <1>4, <3>2 DEF AheadInv
      <4>5. QED
        BY <4>2, <4>3, <4>4
    <3>3. QED
      BY <3>1, <3>2
  <2>2. QED
    BY <1>1, <2>1 DEF PlaceInv
<1>6. ~ByPlace => \A x \in Readers : todo'[x] = todo[x]
  BY <1>3, <1>4
<1>7. ~ByPlace => Awaited' = Awaited
  BY <1>6 DEF Awaited
<1>8. TodoInv'
  BY <1>1, <1>6 DEF PollInv, TodoInv
<1>9. PermInv'
  <2>1. kind = "permstore" => ~ByPlace
    BY DEF ByPlace
  <2>2. QED
    BY <1>2, <1>6, <2>1 DEF PollInv, PermInv, cacheVars
<1>10. BrowserInv'
  <2>1. Browser => ~ByPlace
    BY DEF ByPlace, Browser
  <2>2. QED
    BY <1>1, <1>2, <1>6, <1>7, <2>1 DEF PollInv, BrowserInv, cacheVars
<1>11. QED
  BY <1>1, <1>5, <1>8, <1>9, <1>10 DEF PollInv

-----------------------------------------------------------------------------
(* Pixelfed and Avideo *)

LEMMA PlaceKinds ==
  ASSUME PollInv, ByPlace, UNCHANGED <<kind, now, store, listed, cacheVars>>, PhaseInv', PlaceInv',
         index' \in [Readers -> [Words -> Nat]], handed' \in [Readers -> [Posts -> Nat]],
         failed' \in [Readers -> SUBSET Posts]
  PROVE  PollInv'
<1>1. ByPlace' /\ ~Browser' /\ kind' # "permstore" /\ kind # "permstore"
  BY DEF ByPlace, Browser
<1>2. DataInv' /\ StoreInv' /\ TodoInv'
  BY <1>1 DEF PollInv, DataInv, StoreInv, TodoInv, cacheVars
<1>3. PermInv' /\ BrowserInv'
  BY <1>1 DEF PollInv, PermInv, BrowserInv, cacheVars
<1>4. QED
  BY <1>2, <1>3 DEF PollInv

LEMMA PlaceFetches ==
  ASSUME PollInv, ByPlace, NEW r \in Readers, NEW w \in Words, at[r] \in {"visit", "ask"},
         Fetch(r, w, NewPlaces(r, w)),
         UNCHANGED <<kind, now, store, index, listed, handed, failed, cacheVars>>
  PROVE  PollInv'
<1> DEFINE t == NewPlaces(r, w)
           k == Len(store[w]) - index[r][w]
<1>1. /\ Len(store[w]) \in Nat /\ index[r][w] \in Nat /\ index[r][w] <= Len(store[w])
      /\ index \in [Readers -> [Words -> Nat]] /\ handed \in [Readers -> [Posts -> Nat]]
      /\ failed \in [Readers -> SUBSET Posts]
  BY DEF PollInv, DataInv, PlaceInv, SeenInv
<1>2. k \in Nat /\ t \in Seq(Nat) /\ DOMAIN t = 1..k /\ \A n \in 1..k : t[n] = index[r][w] + n
  <2>1. k \in Nat /\ \A n \in 1..k : index[r][w] + n \in Nat
    BY <1>1
  <2>2. t = [n \in 1..k |-> index[r][w] + n]
    BY DEF NewPlaces
  <2> HIDE DEF t, k
  <2>3. t \in [1..k -> Nat]
    BY <2>1, <2>2
  <2>4. t \in Seq(Nat)
    BY <2>1, <2>3
  <2>5. QED
    BY <2>1, <2>2, <2>4
<1> HIDE DEF t
<1>3. ToDos = Nat /\ kind # "permstore" /\ PhaseInv
  BY DEF ToDos, ByPlace, PollInv
<1>4. PhaseInv' /\ Moves(r, w, t)
  BY <1>2, <1>3, FetchBegins DEF t
<1>5. ASSUME NEW x \in Readers PROVE SeenInv(x)' /\ (ByPlace => AheadInv(x)' /\ UnderInv(x)')
  <2>1. CASE x # r
    BY <1>4, <2>1, OtherReaders DEF PollInv, Moves
  <2>2. CASE x = r
    <3>1. SeenInv(x) /\ UnderInv(x) /\ HandedBy(x)' = HandedBy(x) /\ ByPlace'
      BY DEF PollInv, PlaceInv, HandedBy, ByPlace
    <3>2. SeenInv(x)'
      BY <3>1 DEF SeenInv
    <3>3. UnderInv(x)'
      BY <3>1 DEF UnderInv
    <3>4. todo'[x] = t /\ word'[x] = w /\ index'[x] = index[x] /\ store' = store
      BY <1>4, <2>2 DEF Moves
    <3>5. /\ \A n \in DOMAIN t : index[x][w] < t[n] /\ t[n] <= Len(store[w])
          /\ \A m, n \in DOMAIN t : m < n => t[m] < t[n]
          /\ \A n \in DOMAIN t : t[n] = index[x][w] + n
      BY <1>1, <1>2, <2>2
    <3>6. AheadInv(x)'
      BY <3>4, <3>5 DEF AheadInv
    <3>7. QED
      BY <3>2, <3>3, <3>6
  <2>3. QED
    BY <2>1, <2>2
<1>6. PlaceInv'
  BY <1>5 DEF PlaceInv, ByPlace
<1>7. QED
  BY <1>1, <1>4, <1>6, PlaceKinds

LEMMA PlaceIsPassed ==
  ASSUME PollInv, kind = "pixelfed", NEW r \in Readers, at[r] = "fetch", todo[r] # <<>>, FetchNext(r),
         UNCHANGED <<kind, now, store, index, listed, handed, failed, cacheVars>>
  PROVE  PollInv'
<1> DEFINE q == todo[r]
           t == Tail(q)
<1>1. /\ index \in [Readers -> [Words -> Nat]] /\ handed \in [Readers -> [Posts -> Nat]]
      /\ failed \in [Readers -> SUBSET Posts]
  BY DEF PollInv, DataInv
<1>2. ByPlace /\ ByPlace' /\ ToDos = Nat /\ q \in Seq(Nat) /\ q # <<>> /\ PhaseInv /\ kind # "permstore"
  BY DEF ByPlace, ToDos, PollInv, PhaseInv
<1>3. PhaseInv' /\ Moves(r, word[r], t)
  BY <1>2, FetchGoesOn
<1> HIDE DEF q, t
<1>4. /\ Len(q) \in Nat \ {0} /\ DOMAIN q = 1..Len(q) /\ DOMAIN t = 1..Len(q) - 1
      /\ \A n \in 1..Len(q) - 1 : t[n] = q[n + 1]
  BY <1>2, TailFacts DEF t
<1>5. ASSUME NEW x \in Readers PROVE SeenInv(x)' /\ (ByPlace => AheadInv(x)' /\ UnderInv(x)')
  <2>1. CASE x # r
    BY <1>3, <2>1, OtherReaders DEF PollInv, Moves
  <2>2. CASE x = r
    <3>1. SeenInv(x) /\ UnderInv(x) /\ AheadInv(x) /\ HandedBy(x)' = HandedBy(x)
      BY <1>2 DEF PollInv, PlaceInv, HandedBy
    <3>2. SeenInv(x)'
      BY <1>2, <3>1 DEF SeenInv
    <3>3. UnderInv(x)'
      BY <3>1 DEF UnderInv
    <3>4. /\ todo'[x] = t /\ word'[x] = word[x] /\ index'[x] = index[x] /\ store' = store
          /\ todo[x] = q /\ kind' # "avideo"
      BY <1>3, <2>2 DEF Moves, q
    <3>5. /\ \A n \in DOMAIN q : index[x][word[x]] < q[n] /\ q[n] <= Len(store[word[x]])
          /\ \A m, n \in DOMAIN q : m < n => q[m] < q[n]
      BY <3>1, <3>4 DEF AheadInv
    <3>6. ASSUME NEW n \in DOMAIN t
          PROVE n + 1 \in DOMAIN q /\ t[n] = q[n + 1]
      BY <1>4, <3>6
    <3>7. \A n \in DOMAIN t : index[x][word[x]] < t[n] /\ t[n] <= Len(store[word[x]])
      BY <3>5, <3>6
    <3>8. ASSUME NEW m \in DOMAIN t, NEW n \in DOMAIN t, m < n PROVE t[m] < t[n]
      <4>1. m + 1 < n + 1
        BY <1>4, <3>8
      <4>2. QED
        BY <3>5, <3>6, <4>1
    <3>9. AheadInv(x)'
      BY <3>4, <3>7, <3>8 DEF AheadInv
    <3>10. QED
      BY <3>2, <3>3, <3>9
  <2>3. QED
    BY <2>1, <2>2
<1>6. PlaceInv'
  BY <1>5 DEF PlaceInv, ByPlace
<1>7. QED
  BY <1>1, <1>2, <1>3, <1>6, PlaceKinds

LEMMA PlaceIsSeen ==
  ASSUME PollInv, ByPlace, NEW r \in Readers, at[r] = "fetch", todo[r] # <<>>,
         NEW F \in SUBSET Posts, NEW v, NEW t, PhaseInv', Moves(r, v, t),
         t = <<>> \/ (t = Tail(todo[r]) /\ v = word[r]),
         Seen(r, Head(todo[r])), failed' = [failed EXCEPT ![r] = F], failed[r] \subseteq F,
         \A k \in (index[r][word[r]] + 1)..(Head(todo[r]) - 1) : store[word[r]][k] \in F,
         \/ Hand(r, store[word[r]][Head(todo[r])])
         \/ handed' = handed /\ store[word[r]][Head(todo[r])] \in F,
         UNCHANGED <<kind, now, store, listed, cacheVars>>
  PROVE  PollInv'
<1> DEFINE q == todo[r]
           n == Head(q)
           w == word[r]
           p == store[w][n]
           i == index[r][w]
<1>1. /\ index \in [Readers -> [Words -> Nat]] /\ handed \in [Readers -> [Posts -> Nat]]
      /\ failed \in [Readers -> SUBSET Posts] /\ store \in [Words -> Seq(Posts)]
  BY DEF PollInv, DataInv
<1>2. ByPlace' /\ q \in Seq(Nat) /\ q # <<>> /\ w \in Words
  BY DEF ByPlace, ToDos, PollInv, PhaseInv, PhaseOf
<1>3. /\ Len(q) \in Nat \ {0} /\ DOMAIN q = 1..Len(q) /\ n = q[1] /\ 1 \in DOMAIN q
      /\ DOMAIN Tail(q) = 1..Len(q) - 1 /\ \A m \in 1..Len(q) - 1 : Tail(q)[m] = q[m + 1]
  <2> HIDE DEF q
  <2>1. QED
    BY <1>2, TailFacts
<1>4. SeenInv(r) /\ UnderInv(r) /\ AheadInv(r)
  BY DEF PollInv, PlaceInv
<1>5. /\ i \in Nat /\ n \in Nat /\ i < n /\ n <= Len(store[w]) /\ n \in DOMAIN store[w] /\ p \in Posts
      /\ kind = "avideo" => \A m \in DOMAIN q : q[m] = i + m
  <2>1. i < n /\ n <= Len(store[w]) /\ n \in Nat /\ i \in Nat /\ store[w] \in Seq(Posts)
    <3>1. i < q[1] /\ q[1] <= Len(store[w])
      BY <1>3, <1>4 DEF AheadInv
    <3>2. q[1] \in Nat /\ i \in Nat /\ store[w] \in Seq(Posts)
      <4>1. i \in Nat /\ store[w] \in Seq(Posts)
        BY <1>1, <1>2
      <4> HIDE DEF i, w, q
      <4>2. QED
        BY <1>2, <1>3, <4>1
    <3> HIDE DEF i, n, w, q
    <3>3. QED
      BY <1>3, <3>1, <3>2
  <2>2. n \in DOMAIN store[w]
    BY <2>1
  <2>3. kind = "avideo" => \A m \in DOMAIN q : q[m] = i + m
    BY <1>4 DEF AheadInv
  <2>4. QED
    BY <2>1, <2>2, <2>3
<1>6. /\ \A m \in DOMAIN q : i < q[m] /\ q[m] <= Len(store[w]) /\ q[m] \in Nat
      /\ \A m, o \in DOMAIN q : m < o => q[m] < q[o]
  BY <1>2, <1>4 DEF AheadInv
<1>7. /\ index' = [index EXCEPT ![r][w] = n] /\ failed' = [failed EXCEPT ![r] = F] /\ store' = store
      /\ handed' = [handed EXCEPT ![r][p] = handed[r][p] + 1] \/ (handed' = handed /\ p \in F)
  BY DEF Seen, Hand
<1>8. \A k \in (i + 1)..(n - 1) : store[w][k] \in F
  OBVIOUS
<1>9. \A x, y \in Words : \A a \in DOMAIN store[x], b \in DOMAIN store[y] :
        store[x][a] = store[y][b] => x = y /\ a = b
  BY DEF PollInv, StoreInv
<1>10. /\ index' \in [Readers -> [Words -> Nat]] /\ handed' \in [Readers -> [Posts -> Nat]]
       /\ failed' \in [Readers -> SUBSET Posts]
  <2> HIDE DEF n, p, i, w, q
  <2>1. index' \in [Readers -> [Words -> Nat]]
    BY <1>1, <1>2, <1>5, <1>7
  <2>2. handed' \in [Readers -> [Posts -> Nat]]
    <3>1. handed[r][p] + 1 \in Nat
      BY <1>1, <1>5
    <3>2. CASE handed' = [handed EXCEPT ![r][p] = handed[r][p] + 1]
      BY <1>1, <3>1, <3>2
    <3>3. QED
      BY <1>1, <1>7, <3>2
  <2>3. failed' \in [Readers -> SUBSET Posts]
    BY <1>1, <1>7
  <2>4. QED
    BY <2>1, <2>2, <2>3
<1>11. /\ index'[r][w] = n /\ \A x \in Words \ {w} : index'[r][x] = index[r][x]
       /\ failed'[r] = F
       /\ \A x \in Readers \ {r} : index'[x] = index[x] /\ handed'[x] = handed[x] /\ failed'[x] = failed[x]
       /\ \A o \in Posts \ {p} : handed'[r][o] = handed[r][o]
       /\ handed'[r][p] = handed[r][p] + 1 \/ (handed'[r][p] = handed[r][p] /\ p \in F)
  <2> HIDE DEF n, p, i, w, q
  <2>1. QED
    BY <1>1, <1>2, <1>5, <1>7
<1> HIDE DEF n, p, i, w, q
<1>12. /\ HandedBy(r) \subseteq HandedBy(r)' /\ p \in HandedBy(r)' \union F
       /\ HandedBy(r)' \subseteq HandedBy(r) \union {p}
  <2>1. \A o \in Posts : handed[r][o] \in Nat /\ handed'[r][o] \in Nat
    BY <1>1, <1>10
  <2>2. \A o \in Posts : handed[r][o] > 0 => handed'[r][o] > 0
    BY <1>5, <1>11, <2>1
  <2>3. \A o \in Posts \ {p} : handed'[r][o] > 0 => handed[r][o] > 0
    BY <1>11
  <2>4. p \in F \/ handed'[r][p] > 0
    BY <1>5, <1>11, <2>1
  <2>5. QED
    BY <1>5, <2>2, <2>3, <2>4 DEF HandedBy
<1>13. p \notin HandedBy(r)
  <2> SUFFICES ASSUME p \in HandedBy(r) PROVE FALSE
    OBVIOUS
  <2>1. PICK x \in Words : \E k \in 1..index[r][x] : store[x][k] = p
    BY <1>4 DEF UnderInv
  <2>7. PICK k \in 1..index[r][x] : store[x][k] = p
    BY <2>1
  <2>2. index[r][x] <= Len(store[x]) /\ index[r][x] \in Nat /\ store[x] \in Seq(Posts)
    BY <1>1, <1>4 DEF SeenInv
  <2>3. k \in DOMAIN store[x]
    BY <2>2
  <2>4. x = w /\ k = n
    BY <1>2, <1>5, <1>9, <2>3, <2>7 DEF p
  <2>5. QED
    BY <1>5, <2>4 DEF i
<1>14. SeenInv(r)'
  <2>1. ASSUME NEW x \in Words
        PROVE  /\ index'[r][x] <= Len(store[x])
               /\ \A k \in 1..index'[r][x] : store[x][k] \in HandedBy(r)' \union F
    <3>1. index[r][x] <= Len(store[x]) /\ \A k \in 1..index[r][x] : store[x][k] \in HandedBy(r) \union failed[r]
      BY <1>4 DEF SeenInv
    <3>2. CASE x # w
      BY <1>11, <1>12, <3>1, <3>2
    <3>3. CASE x = w
      <4>1. ASSUME NEW k \in 1..n PROVE store[x][k] \in HandedBy(r)' \union F
        <5>1. k \in 1..i \/ k \in (i + 1)..(n - 1) \/ k = n
          BY <1>5
        <5>2. CASE k \in 1..i
          BY <1>12, <3>1, <3>3, <5>2 DEF i
        <5>3. CASE k \in (i + 1)..(n - 1)
          BY <1>8, <3>3, <5>3
        <5>4. CASE k = n
          BY <1>12, <3>3, <5>4 DEF p
        <5>5. QED
          BY <5>1, <5>2, <5>3, <5>4
      <4>2. QED
        BY <1>5, <1>11, <3>3, <4>1
    <3>4. QED
      BY <3>2, <3>3
  <2>2. QED
    BY <1>2, <1>7, <1>11, <2>1 DEF SeenInv
<1>15. UnderInv(r)'
  <2>1. ASSUME NEW o \in HandedBy(r)'
        PROVE  handed'[r][o] = 1 /\ \E x \in Words : \E k \in 1..index'[r][x] : store[x][k] = o
    <3>1. CASE o = p
      <4>1. handed[r][p] = 0
        BY <1>1, <1>5, <1>13 DEF HandedBy
      <4>2. handed'[r][p] = 1
        BY <1>11, <2>1, <3>1, <4>1 DEF HandedBy
      <4>3. n \in 1..index'[r][w] /\ store[w][n] = p
        BY <1>5, <1>11 DEF p
      <4>4. QED
        BY <1>2, <3>1, <4>2, <4>3
    <3>2. CASE o # p
      <4>1. o \in HandedBy(r) /\ handed'[r][o] = handed[r][o]
        BY <1>11, <1>12, <2>1, <3>2 DEF HandedBy
      <4>2. handed[r][o] = 1
        BY <1>4, <4>1 DEF UnderInv
      <4>6. PICK x \in Words : \E k \in 1..index[r][x] : store[x][k] = o
        BY <1>4, <4>1 DEF UnderInv
      <4>3. PICK k \in 1..index[r][x] : store[x][k] = o
        BY <4>6
      <4>4. k \in 1..index'[r][x]
        <5>1. CASE x = w
          BY <1>5, <1>11, <4>3, <5>1 DEF i
        <5>2. CASE x # w
          BY <1>11, <4>3, <5>2
        <5>3. QED
          BY <5>1, <5>2
      <4>5. QED
        BY <4>1, <4>2, <4>3, <4>4
    <3>3. QED
      BY <3>1, <3>2
  <2>2. QED
    BY <1>7, <2>1 DEF UnderInv
<1>16. AheadInv(r)'
  <2>1. CASE t = <<>>
    <3>1. todo'[r] = <<>> /\ DOMAIN <<>> = {}
      BY <2>1 DEF Moves
    <3>2. QED
      BY <3>1 DEF AheadInv
  <2>2. CASE t = Tail(q) /\ v = w
    <3>1. todo'[r] = t /\ word'[r] = w /\ index'[r][w] = n /\ kind' = kind /\ DOMAIN t = 1..Len(q) - 1
      BY <1>3, <1>11, <2>2 DEF Moves
    <3>2. ASSUME NEW m \in DOMAIN t
          PROVE m + 1 \in DOMAIN q /\ t[m] = q[m + 1] /\ 1 < m + 1 /\ m \in Nat
      BY <1>3, <2>2, <3>1, <3>2
    <3>3. ASSUME NEW m \in DOMAIN t
          PROVE  /\ n < t[m] /\ t[m] <= Len(store[w])
                 /\ kind = "avideo" => t[m] = n + m
      <4>1. q[1] < q[m + 1] /\ q[m + 1] <= Len(store[w])
        BY <1>3, <1>6, <3>2
      <4>2. kind = "avideo" => q[1] = i + 1 /\ q[m + 1] = i + (m + 1)
        BY <1>3, <1>5, <3>2
      <4>3. kind = "avideo" => q[m + 1] = n + m
        BY <1>3, <1>5, <3>2, <4>2
      <4>4. QED
        BY <1>3, <3>2, <4>1, <4>3
    <3>4. ASSUME NEW m \in DOMAIN t, NEW o \in DOMAIN t, m < o PROVE t[m] < t[o]
      <4>1. m + 1 \in DOMAIN q /\ t[m] = q[m + 1] /\ o + 1 \in DOMAIN q /\ t[o] = q[o + 1] /\ m \in Nat /\ o \in Nat
        BY <3>2
      <4>2. m + 1 < o + 1
        BY <3>4, <4>1
      <4>3. QED
        BY <1>6, <4>1, <4>2
    <3>5. QED
      BY <1>7, <3>1, <3>3, <3>4 DEF AheadInv
  <2>3. QED
    BY <2>1, <2>2 DEF q, w
<1>17. ASSUME NEW x \in Readers PROVE SeenInv(x)' /\ (ByPlace => AheadInv(x)' /\ UnderInv(x)')
  <2>1. CASE x # r
    BY <1>11, <2>1, OtherReaders DEF PollInv, Moves
  <2>2. CASE x = r
    BY <1>14, <1>15, <1>16, <2>2
  <2>3. QED
    BY <2>1, <2>2
<1>18. PlaceInv'
  BY <1>17 DEF PlaceInv, ByPlace
<1>19. QED
  BY <1>10, <1>18, PlaceKinds

-----------------------------------------------------------------------------
(* The kinds with a shared cache *)

LEMMA HeadLeaves ==
  ASSUME NEW A, NEW q \in Seq(A), q # <<>>, Distinct(q)
  PROVE  /\ Head(q) \in A /\ ToSet(q) = {Head(q)} \union ToSet(Tail(q)) /\ Head(q) \notin ToSet(Tail(q))
         /\ Tail(q) \in Seq(A) /\ Distinct(Tail(q)) /\ (Len(q) = 1 => Tail(q) = <<>>)
<1>1. \A s : ToSet(s) = Elems(s)
  BY DEF ToSet, Elems
<1>2. Head(q) \in A /\ Tail(q) \in Seq(A) /\ (Len(q) = 1 => Tail(q) = <<>>)
  BY TailFacts
<1>3. Head(q) \in Elems(q) /\ Elems(Tail(q)) = Elems(q) \ {Head(q)} /\ Distinct(Tail(q))
  BY TailElems
<1>4. QED
  BY <1>1, <1>2, <1>3

LEMMA PartOf ==
  ASSUME NEW A, NEW s \in Seq(A), NEW S, Distinct(s)
  PROVE  Only(s, S) \in Seq(A) /\ Distinct(Only(s, S)) /\ ToSet(Only(s, S)) = ToSet(s) \intersect S
<1>1. \A t : ToSet(t) = Elems(t)
  BY DEF ToSet, Elems
<1>2. QED
  BY <1>1, OnlyElems

LEMMA CacheKinds ==
  ASSUME PollInv, ~ByPlace, UNCHANGED <<kind, now, store, index>>, PhaseInv', PermInv', BrowserInv',
         NEW r \in Readers, NEW v, NEW t, Moves(r, v, t), Distinct(t),
         listed' \in [Readers -> SUBSET Posts], handed' \in [Readers -> [Posts -> Nat]],
         failed' \in [Readers -> SUBSET Posts], cache' \subseteq Posts \union Pages, curr' \subseteq cache',
         trimmed' \in BOOLEAN
  PROVE  PollInv'
<1>1. ~ByPlace'
  BY DEF ByPlace
<1>2. DataInv' /\ StoreInv'
  BY DEF PollInv, DataInv, StoreInv
<1>3. TodoInv'
  <2>1. ASSUME NEW x \in Readers PROVE Distinct(todo'[x])
    BY DEF PollInv, TodoInv, Moves
  <2>2. QED
    BY <2>1 DEF TodoInv, Distinct
<1>4. PlaceInv'
  <2>1. ASSUME NEW x \in Readers, NEW w \in Words PROVE index[x][w] = 0 /\ 0 <= Len(store[w])
    <3>1. index[x][w] = 0
      BY DEF PollInv, PlaceInv, SeenInv
    <3>2. store[w] \in Seq(Posts)
      BY DEF PollInv, DataInv
    <3>3. QED
      BY <3>1, <3>2
  <2>2. 1..0 = {}
    OBVIOUS
  <2>3. ASSUME NEW x \in Readers PROVE SeenInv(x)'
    BY <1>1, <2>1, <2>2 DEF SeenInv
  <2>4. QED
    BY <1>1, <2>3 DEF PlaceInv
<1>5. QED
  BY <1>2, <1>3, <1>4 DEF PollInv

\* Who handed a post over, after r handed one over or nobody did.
LEMMA HandedGrows ==
  ASSUME DataInv, NEW r \in Readers, NEW p, handed' = handed \/ (Hand(r, p) /\ p \in Posts)
  PROVE  /\ handed' \in [Readers -> [Posts -> Nat]]
         /\ \A x \in Readers \ {r} : HandedBy(x)' = HandedBy(x) /\ handed'[x] = handed[x]
         /\ \A o \in Posts \ {p} : handed'[r][o] = handed[r][o]
         /\ HandedBy(r) \subseteq HandedBy(r)' /\ HandedBy(r)' \subseteq HandedBy(r) \union {p}
         /\ HandedOver \subseteq HandedOver'
         /\ Hand(r, p) /\ p \in Posts => p \in HandedBy(r)' /\ (p \notin HandedBy(r) => handed'[r][p] = 1)
<1>1. handed \in [Readers -> [Posts -> Nat]]
  BY DEF DataInv
<1>2. handed' = handed \/ (p \in Posts /\ handed' = [handed EXCEPT ![r][p] = handed[r][p] + 1])
  BY DEF Hand
<1>3. p \in Posts => handed[r][p] + 1 \in Nat
  BY <1>1
<1>4. handed' \in [Readers -> [Posts -> Nat]]
  <2>1. CASE p \in Posts /\ handed' = [handed EXCEPT ![r][p] = handed[r][p] + 1]
    BY <1>1, <1>3, <2>1
  <2>2. QED
    BY <1>1, <1>2, <2>1
<1>5. /\ \A x \in Readers \ {r} : handed'[x] = handed[x]
      /\ \A o \in Posts \ {p} : handed'[r][o] = handed[r][o]
      /\ Hand(r, p) /\ p \in Posts => handed'[r][p] = handed[r][p] + 1
      /\ p \in Posts => handed'[r][p] = handed[r][p] \/ handed'[r][p] = handed[r][p] + 1
  BY <1>1, <1>2 DEF Hand
<1>6. \A x \in Readers \ {r} : HandedBy(x)' = HandedBy(x)
  BY <1>5 DEF HandedBy
<1>7. /\ \A o \in Posts : handed[r][o] > 0 => handed'[r][o] > 0
      /\ \A o \in Posts \ {p} : handed'[r][o] > 0 => handed[r][o] > 0
      /\ Hand(r, p) /\ p \in Posts => handed'[r][p] > 0
  BY <1>1, <1>5
<1>8. HandedBy(r) \subseteq HandedBy(r)' /\ HandedBy(r)' \subseteq HandedBy(r) \union {p}
  BY <1>7 DEF HandedBy
<1>9. HandedOver \subseteq HandedOver'
  BY <1>6, <1>8 DEF HandedOver
<1>10. Hand(r, p) /\ p \in Posts => p \in HandedBy(r)' /\ (p \notin HandedBy(r) => handed'[r][p] = 1)
  <2>1. p \in Posts /\ p \notin HandedBy(r) => handed[r][p] = 0
    BY <1>1 DEF HandedBy
  <2>2. QED
    BY <1>5, <1>7, <2>1 DEF HandedBy
<1>11. QED
  BY <1>4, <1>5, <1>6, <1>8, <1>9, <1>10

LEMMA PermGoes ==
  ASSUME PollInv, kind = "permstore", NEW r \in Readers, NEW v, NEW t, Moves(r, v, t), PhaseInv',
         UNCHANGED <<kind, now, store, index>>,
         NEW L \in SUBSET Posts, listed' = [listed EXCEPT ![r] = L], listed[r] \subseteq L,
         NEW F \in SUBSET Posts, failed' = [failed EXCEPT ![r] = F], failed[r] \subseteq F,
         NEW p, handed' = handed \/ (Hand(r, p) /\ p \in Posts /\ p \in ToSet(todo[r]) \ ToSet(t)),
         Distinct(t), ToSet(t) \subseteq L, ToSet(t) \intersect HandedBy(r) = {},
         L \subseteq listed[r] \union ToSet(t),
         ToSet(todo[r]) \subseteq ToSet(t) \union HandedOver' \union F,
         cache' \subseteq HandedOver' \intersect Posts, curr' \subseteq cache', trimmed' \in BOOLEAN
  PROVE  PollInv'
<1>1. /\ listed \in [Readers -> SUBSET Posts] /\ failed \in [Readers -> SUBSET Posts] /\ DataInv
      /\ ~ByPlace /\ ~ByPlace' /\ ~Browser' /\ kind' = "permstore"
  BY DEF PollInv, DataInv, ByPlace, Browser
<1>2. /\ handed' \in [Readers -> [Posts -> Nat]]
      /\ \A x \in Readers \ {r} : HandedBy(x)' = HandedBy(x) /\ handed'[x] = handed[x]
      /\ \A o \in Posts \ {p} : handed'[r][o] = handed[r][o]
      /\ HandedBy(r) \subseteq HandedBy(r)' /\ HandedBy(r)' \subseteq HandedBy(r) \union {p}
      /\ HandedOver \subseteq HandedOver'
      /\ Hand(r, p) /\ p \in Posts => p \in HandedBy(r)' /\ (p \notin HandedBy(r) => handed'[r][p] = 1)
  BY <1>1, HandedGrows
<1>3. /\ listed' \in [Readers -> SUBSET Posts] /\ failed' \in [Readers -> SUBSET Posts]
      /\ listed'[r] = L /\ failed'[r] = F
      /\ \A x \in Readers \ {r} : listed'[x] = listed[x] /\ failed'[x] = failed[x]
  BY <1>1
<1>4. /\ \A x \in Readers : /\ ToSet(todo[x]) \subseteq listed[x]
                            /\ listed[x] \subseteq HandedOver \union failed[x] \union ToSet(todo[x])
      /\ \A x \in Readers : \A o \in HandedBy(x) : handed[x][o] = 1 /\ o \in listed[x] \ ToSet(todo[x])
  BY DEF PollInv, PermInv
<1>5. ASSUME NEW x \in Readers
      PROVE  /\ ToSet(todo'[x]) \subseteq listed'[x]
             /\ listed'[x] \subseteq HandedOver' \union failed'[x] \union ToSet(todo'[x])
             /\ \A o \in HandedBy(x)' : handed'[x][o] = 1 /\ o \in listed'[x] \ ToSet(todo'[x])
  <2>1. CASE x # r
    BY <1>2, <1>3, <1>4, <2>1 DEF Moves
  <2>2. CASE x = r
    <3>1. todo'[r] = t
      BY DEF Moves
    <3>2. L \subseteq HandedOver' \union F \union ToSet(t)
      BY <1>2, <1>4
    <3>3. ASSUME NEW o \in HandedBy(r)' PROVE handed'[r][o] = 1 /\ o \in L \ ToSet(t)
      <4>1. CASE handed' = handed
        <5>1. o \in HandedBy(r)
          BY <4>1 DEF HandedBy
        <5>2. QED
          BY <1>4, <4>1, <5>1
      <4>2. CASE Hand(r, p) /\ p \in Posts /\ p \in ToSet(todo[r]) \ ToSet(t)
        <5>1. CASE o = p
          <6>1. p \notin HandedBy(r)
            BY <1>4, <4>2
          <6>2. p \in listed[r]
            BY <1>4, <4>2
          <6>3. QED
            BY <1>2, <4>2, <5>1, <6>1, <6>2
        <5>2. CASE o # p
          <6>1. o \in HandedBy(r) /\ o \in Posts
            BY <1>2, <5>2 DEF HandedBy
          <6>2. handed'[r][o] = handed[r][o]
            BY <1>2, <5>2, <6>1
          <6>3. QED
            BY <1>4, <6>1, <6>2
        <5>3. QED
          BY <5>1, <5>2
      <4>3. QED
        BY <4>1, <4>2
    <3>4. QED
      BY <1>3, <2>2, <3>1, <3>2, <3>3
  <2>3. QED
    BY <2>1, <2>2
<1>6. PermInv'
  BY <1>1, <1>5 DEF PermInv
<1>7. BrowserInv'
  BY <1>1 DEF BrowserInv
<1>8. QED
  BY <1>1, <1>2, <1>3, <1>6, <1>7, CacheKinds

LEMMA PagesApart == \A p \in Posts : p \notin Pages /\ Page(p) \in Pages /\ Page(p) \notin Posts
BY PollingAssumption DEF Pages

LEMMA BrowserGoes ==
  ASSUME PollInv, Browser, NEW r \in Readers, NEW v, NEW t, Moves(r, v, t), PhaseInv',
         UNCHANGED <<kind, now, store, index, listed>>,
         NEW F \in SUBSET Posts, failed' = [failed EXCEPT ![r] = F], failed[r] \subseteq F,
         NEW p, handed' = handed \/ (Hand(r, p) /\ p \in Posts /\ p \in (ToSet(todo[r]) \intersect cache') \ ToSet(t)),
         Distinct(t),
         trimmed' \/ \A o \in ToSet(t) \intersect HandedBy(r) : handed[r][o] <= 1 /\ Page(o) \in cache',
         NEW C \in SUBSET (Posts \union Pages), \A o \in Posts : o \in C => o \in HandedOver',
         \A o \in Posts : Page(o) \in C => o \in HandedOver' \union F \union ToSet(t),
         kind = "avideoSelenium" => C \subseteq Posts,
         cache' \subseteq cache \union C, curr' \subseteq cache',
         \A o \in ToSet(todo[r]) : Page(o) \in cache => o \in ToSet(t) \union HandedOver' \union F,
         trimmed' \in BOOLEAN, ~trimmed' => ~trimmed /\ cache \subseteq cache',
         trimmed' => trimmed \/ kind = "pixelfedSelenium"
  PROVE  PollInv'
<1>1. /\ failed \in [Readers -> SUBSET Posts] /\ DataInv /\ BrowserInv
      /\ ~ByPlace /\ ~ByPlace' /\ Browser' /\ kind' = kind /\ kind # "permstore"
      /\ kind \in {"pixelfedSelenium", "avideoSelenium"}
  BY DEF PollInv, DataInv, ByPlace, Browser
<1>2. /\ handed' \in [Readers -> [Posts -> Nat]]
      /\ \A x \in Readers \ {r} : HandedBy(x)' = HandedBy(x) /\ handed'[x] = handed[x]
      /\ \A o \in Posts \ {p} : handed'[r][o] = handed[r][o]
      /\ HandedOver \subseteq HandedOver'
  BY <1>1, HandedGrows
<1>3. /\ failed' \in [Readers -> SUBSET Posts] /\ failed'[r] = F
      /\ \A x \in Readers \ {r} : failed'[x] = failed[x]
  BY <1>1
<1>4. /\ todo'[r] = t /\ \A x \in Readers \ {r} : todo'[x] = todo[x]
      /\ cache \subseteq Posts \union Pages /\ cache' \subseteq Posts \union Pages
  BY <1>1 DEF Moves, DataInv
<1>5. /\ \A o \in Posts : o \in cache => o \in HandedOver
      /\ \A o \in Posts : Page(o) \in cache => o \in HandedOver \union Failures \union Awaited
      /\ ~trimmed => \A x \in Readers : \A o \in Posts : Known(o, handed[x][o], todo[x], cache)
      /\ kind = "avideoSelenium" => cache \subseteq Posts
  BY <1>1 DEF BrowserInv
<1>6. ASSUME NEW o \in Posts, Page(o) \in cache'
      PROVE  o \in HandedOver' \/ (\E x \in Readers : o \in failed'[x]) \/ o \in Awaited'
  <2>1. \A x \in Readers : ToSet(todo'[x]) \subseteq Awaited'
    BY DEF Awaited
  <2>2. CASE Page(o) \in C
    BY <1>3, <1>4, <2>1, <2>2
  <2>3. CASE Page(o) \in cache
    <3>1. o \in HandedOver \/ (\E x \in Readers : o \in failed[x]) \/ (\E x \in Readers : o \in ToSet(todo[x]))
      <4>1. o \in HandedOver \/ o \in Failures \/ o \in Awaited
        BY <1>5, <2>3
      <4>2. o \in Failures => \E x \in Readers : o \in failed[x]
        BY DEF Failures
      <4>3. o \in Awaited => \E x \in Readers : o \in ToSet(todo[x])
        BY DEF Awaited
      <4>4. QED
        BY <4>1, <4>2, <4>3
    <3>2. CASE \E x \in Readers : o \in failed[x]
      BY <1>3, <3>2
    <3>3. CASE \E x \in Readers : o \in ToSet(todo[x])
      <4>1. PICK x \in Readers : o \in ToSet(todo[x])
        BY <3>3
      <4>2. CASE x = r
        BY <1>3, <1>4, <2>1, <2>3, <4>1, <4>2
      <4>3. CASE x # r
        BY <1>4, <2>1, <4>1, <4>3
      <4>4. QED
        BY <4>2, <4>3
    <3>4. QED
      BY <1>2, <3>1, <3>2, <3>3
  <2>4. QED
    BY <1>6, <2>2, <2>3
<1>7. ASSUME ~trimmed', NEW x \in Readers, NEW o \in Posts
      PROVE  Known(o, handed'[x][o], todo'[x], cache')
  <2>1. /\ cache \subseteq cache' /\ Known(o, handed[x][o], todo[x], cache) /\ handed[x][o] \in Nat
        /\ \A a \in ToSet(t) \intersect HandedBy(r) : handed[r][a] <= 1 /\ Page(a) \in cache'
    BY <1>1, <1>5, <1>7 DEF DataInv
  <2>2. CASE x # r
    BY <1>2, <1>4, <2>1, <2>2 DEF Known
  <2>3. ASSUME x = r, handed'[x][o] = handed[x][o] PROVE Known(o, handed'[x][o], t, cache')
    <3>1. o \in ToSet(t) /\ handed[x][o] > 0 => handed[x][o] <= 1 /\ Page(o) \in cache'
      BY <2>1, <2>3 DEF HandedBy
    <3>2. QED
      BY <2>1, <2>3, <3>1 DEF Known
  <2>4. CASE x = r /\ handed' # handed /\ o = p
    <3>1. p \in cache' /\ p \in ToSet(todo[r]) /\ p \notin ToSet(t) /\ handed'[r][p] = handed[r][p] + 1
      BY <1>1, <2>4 DEF Hand, DataInv
    <3>2. handed[x][o] = 0 \/ (handed[x][o] = 1 /\ Page(o) \in cache')
      BY <2>1, <2>4, <3>1 DEF Known
    <3>3. QED
      BY <1>4, <2>1, <2>4, <3>1, <3>2 DEF Known
  <2>5. QED
    BY <1>2, <1>4, <2>2, <2>3, <2>4
<1>8. BrowserInv'
  <2>1. trimmed' => kind \in {"permstore", "pixelfedSelenium"}
    BY <1>1 DEF BrowserInv
  <2>2. \A o \in Posts : Page(o) \in cache' => o \in HandedOver' \union Failures' \union Awaited'
    <3>1. \A o : (\E x \in Readers : o \in failed'[x]) => o \in Failures'
      BY DEF Failures
    <3>2. QED
      BY <1>6, <3>1
  <2>3. \A o \in Posts : o \in cache' => o \in HandedOver'
    BY <1>2, <1>5
  <2>4. kind # "pixelfedSelenium" => cache' \subseteq Posts
    BY <1>1, <1>5
  <2>5. \A x \in Readers : \A o \in Posts : ~trimmed' => Known(o, handed'[x][o], todo'[x], cache')
    BY <1>7
  <2>6. ~trimmed' => \A x \in Readers : \A o \in Posts : Known(o, handed[x][o], todo[x], cache)'
    BY <2>5 DEF Known, Page
  <2>7. QED
    BY <1>1, <2>1, <2>2, <2>3, <2>4, <2>6 DEF BrowserInv, Page
<1>9. PermInv'
  BY <1>1 DEF PollInv, PermInv
<1>10. QED
  <2>1. listed' \in [Readers -> SUBSET Posts]
    BY <1>1 DEF DataInv
  <2>2. QED
    BY <1>1, <1>2, <1>3, <1>4, <1>8, <1>9, <2>1, CacheKinds

-----------------------------------------------------------------------------
(* The steps *)

LEMMA InitPollInv == Init => PollInv
<1> SUFFICES ASSUME Init PROVE PollInv
  OBVIOUS
<1>1. /\ \A r \in Readers : \A p \in Posts : handed[r][p] = 0
      /\ \A w \in Words : store[w] = <<>> /\ DOMAIN <<>> = {} /\ Len(<<>>) = 0
      /\ \A r \in Readers : todo[r] = <<>> /\ listed[r] = {} /\ cache = {} /\ at[r] = "round"
      /\ \A r \in Readers : \A w \in Words : index[r][w] = 0
      /\ 1..0 = {} /\ trimmed = FALSE
  BY DEF Init
<1>2. \A r \in Readers : HandedBy(r) = {}
  BY <1>1 DEF HandedBy
<1>3. DataInv
  <2>1. 0 \in 0..MaxNow
    BY PollingAssumption
  <2>2. <<>> \in Seq(Posts)
    OBVIOUS
  <2>3. QED
    BY <2>1, <2>2 DEF Init, DataInv
<1>4. PhaseInv
  <2>1. <<>> \in Seq(Intervals) /\ <<>> \in Seq(ToDos) /\ "round" \in Steps /\ None \in Words \union {None}
    BY DEF Steps
  <2>2. QED
    BY <1>1, <2>1 DEF Init, PhaseInv, PhaseOf
<1>5. StoreInv
  BY <1>1 DEF StoreInv
<1>6. PlaceInv
  <2>1. \A r \in Readers : SeenInv(r)
    BY <1>1 DEF SeenInv
  <2>2. \A r \in Readers : AheadInv(r)
    BY <1>1 DEF AheadInv
  <2>3. \A r \in Readers : UnderInv(r)
    BY <1>2 DEF UnderInv
  <2>4. QED
    BY <2>1, <2>2, <2>3 DEF PlaceInv
<1>7. TodoInv
  BY <1>1 DEF TodoInv, Distinct
<1>8. PermInv
  <2>1. ToSet(<<>>) = {}
    BY DEF ToSet
  <2>2. cache = {}
    BY DEF Init
  <2>3. QED
    BY <1>1, <1>2, <2>1, <2>2 DEF PermInv
<1>9. BrowserInv
  <2>1. cache = {}
    BY DEF Init
  <2>2. \A r \in Readers : \A p \in Posts : Known(p, handed[r][p], todo[r], cache)
    BY <1>1 DEF Known
  <2>3. QED
    BY <1>1, <2>1, <2>2 DEF BrowserInv
<1>10. QED
  BY <1>3, <1>4, <1>5, <1>6, <1>7, <1>8, <1>9 DEF PollInv

LEMMA StoredStep ==
  ASSUME PollInv, NEW p \in Posts, Stored(p)
  PROVE  PollInv'
<1>1. /\ store \in [Words -> Seq(Posts)] /\ now \in 0..MaxNow
      /\ UNCHANGED <<kind, now, readerVars, cacheVars>> /\ \A w \in Words : p \notin ToSet(store[w])
  BY DEF PollInv, DataInv, Stored
<1>2. PICK d \in Skews : \E w \in WordsOf(now + d) : store' = [store EXCEPT ![w] = Append(@, p)]
  BY DEF Stored
<1>3. PICK w \in WordsOf(now + d) : store' = [store EXCEPT ![w] = Append(@, p)]
  BY <1>2
<1>4. w \in Words
  <2>1. now + d \in Intervals
    BY <1>1, PollingAssumption DEF Intervals
  <2>2. QED
    BY <1>3, <2>1 DEF WordsOf, Words
<1> DEFINE q == store[w]
           a == Append(q, p)
<1>5. q \in Seq(Posts) /\ Len(q) \in Nat /\ DOMAIN q = 1..Len(q)
  BY <1>1, <1>4
<1> HIDE DEF q
<1>6. /\ a \in Seq(Posts) /\ Len(a) = Len(q) + 1 /\ DOMAIN a = 1..Len(q) + 1 /\ a[Len(q) + 1] = p
      /\ \A n \in 1..Len(q) : a[n] = q[n]
  BY <1>5, AppendProperties
<1> HIDE DEF a
<1>7. store'[w] = a /\ (\A x \in Words \ {w} : store'[x] = store[x]) /\ store' \in [Words -> Seq(Posts)]
  BY <1>1, <1>3, <1>4, <1>6 DEF a, q
<1>8. ASSUME NEW x \in Words
      PROVE  /\ Len(store[x]) <= Len(store'[x]) /\ Len(store[x]) \in Nat /\ Len(store'[x]) \in Nat
             /\ DOMAIN store[x] = 1..Len(store[x])
             /\ \A n \in 1..Len(store[x]) : store'[x][n] = store[x][n]
  <2>1. CASE x = w
    BY <1>5, <1>6, <1>7, <2>1 DEF q
  <2>2. CASE x # w
    <3>1. store'[x] = store[x] /\ store[x] \in Seq(Posts)
      BY <1>1, <1>7, <2>2
    <3>2. QED
      BY <3>1
  <2>3. QED
    BY <2>1, <2>2
<1>9. /\ kind' = kind /\ todo' = todo /\ word' = word /\ index' = index /\ handed' = handed /\ failed' = failed
      /\ listed' = listed /\ cache' = cache /\ curr' = curr /\ trimmed' = trimmed /\ at' = at /\ lists' = lists
      /\ now' = now
  BY <1>1 DEF readerVars, cacheVars
<1>10. /\ ByPlace' = ByPlace /\ Browser' = Browser /\ HandedOver' = HandedOver /\ Failures' = Failures
       /\ Awaited' = Awaited /\ ToDos' = ToDos /\ \A r \in Readers : HandedBy(r)' = HandedBy(r)
  BY <1>9 DEF ByPlace, Browser, HandedOver, Failures, Awaited, HandedBy, ToDos
<1>11. DataInv' /\ PhaseInv' /\ TodoInv' /\ PermInv' /\ BrowserInv'
  <2>1. DataInv'
    BY <1>7, <1>9 DEF PollInv, DataInv
  <2>2. PhaseInv'
    BY <1>9, <1>10 DEF PollInv, PhaseInv, PhaseOf
  <2>3. TodoInv'
    BY <1>9, <1>10 DEF PollInv, TodoInv
  <2>4. PermInv'
    BY <1>9, <1>10 DEF PollInv, PermInv
  <2>5. BrowserInv'
    BY <1>9, <1>10 DEF PollInv, BrowserInv
  <2>6. QED
    BY <2>1, <2>2, <2>3, <2>4, <2>5
<1>12. StoreInv'
  <2>1. ASSUME NEW x \in Words, NEW n \in DOMAIN store'[x]
        PROVE  \/ n \in DOMAIN store[x] /\ store'[x][n] = store[x][n] /\ store'[x][n] # p
               \/ x = w /\ n = Len(q) + 1 /\ store'[x][n] = p
    <3>1. \A k \in DOMAIN store[x] : store[x][k] # p
      BY <1>1 DEF ToSet
    <3>2. CASE x = w
      <4>1. n \in 1..Len(q) + 1
        BY <1>6, <1>7, <2>1, <3>2
      <4>2. n \in 1..Len(q) \/ n = Len(q) + 1
        BY <1>5, <4>1
      <4>3. QED
        BY <1>5, <1>6, <1>7, <3>1, <3>2, <4>2 DEF q
    <3>3. CASE x # w
      BY <1>7, <2>1, <3>1, <3>3
    <3>4. QED
      BY <3>2, <3>3
  <2>2. ASSUME NEW x \in Words, NEW y \in Words, NEW m \in DOMAIN store'[x], NEW n \in DOMAIN store'[y],
               store'[x][m] = store'[y][n]
        PROVE  x = y /\ m = n
    <3>1. CASE store'[x][m] = p
      <4>1. x = w /\ m = Len(q) + 1
        BY <2>1, <3>1
      <4>2. store'[y][n] = p
        BY <2>2, <3>1
      <4>3. y = w /\ n = Len(q) + 1
        BY <2>1, <4>2
      <4>4. QED
        BY <4>1, <4>3
    <3>2. CASE store'[x][m] # p
      <4>1. m \in DOMAIN store[x] /\ store'[x][m] = store[x][m]
        BY <2>1, <3>2
      <4>2. store'[y][n] # p
        BY <2>2, <3>2
      <4>3. n \in DOMAIN store[y] /\ store'[y][n] = store[y][n]
        BY <2>1, <4>2
      <4>4. store[x][m] = store[y][n]
        BY <2>2, <4>1, <4>3
      <4>5. QED
        BY <4>1, <4>3, <4>4 DEF PollInv, StoreInv
    <3>3. QED
      BY <3>1, <3>2
  <2>3. QED
    BY <2>2 DEF StoreInv
<1>13. PlaceInv'
  <2>1. ASSUME NEW r \in Readers PROVE SeenInv(r)'
    <3>1. ASSUME NEW x \in Words
          PROVE  /\ index[r][x] <= Len(store'[x]) /\ (~ByPlace => index[r][x] = 0)
                 /\ \A n \in 1..index[r][x] : store'[x][n] \in HandedBy(r) \union failed[r]
      <4>1. /\ index[r][x] <= Len(store[x]) /\ (~ByPlace => index[r][x] = 0)
            /\ \A n \in 1..index[r][x] : store[x][n] \in HandedBy(r) \union failed[r]
            /\ index[r][x] \in Nat
        BY DEF PollInv, PlaceInv, SeenInv, DataInv
      <4>2. \A n \in 1..index[r][x] : n \in 1..Len(store[x])
        BY <1>8, <4>1
      <4>3. QED
        BY <1>8, <4>1, <4>2
    <3>2. QED
      BY <1>9, <1>10, <3>1 DEF SeenInv
  <2>2. ASSUME NEW r \in Readers, ByPlace PROVE UnderInv(r)'
    <3>1. ASSUME NEW o \in HandedBy(r)
          PROVE  handed[r][o] = 1 /\ \E x \in Words : \E n \in 1..index[r][x] : store'[x][n] = o
      <4>1. handed[r][o] = 1 /\ \E x \in Words : \E n \in 1..index[r][x] : store[x][n] = o
        BY <2>2 DEF PollInv, PlaceInv, UnderInv
      <4>2. PICK x \in Words : \E n \in 1..index[r][x] : store[x][n] = o
        BY <4>1
      <4>3. PICK n \in 1..index[r][x] : store[x][n] = o
        BY <4>2
      <4>4. index[r][x] \in Nat /\ index[r][x] <= Len(store[x])
        BY DEF PollInv, PlaceInv, SeenInv, DataInv
      <4>5. n \in 1..Len(store[x])
        BY <1>8, <4>4
      <4>6. QED
        BY <1>8, <4>1, <4>3, <4>5
    <3>2. QED
      BY <1>9, <1>10, <3>1 DEF UnderInv
  <2>3. ASSUME NEW r \in Readers, ByPlace PROVE AheadInv(r)'
    <3>1. AheadInv(r) /\ todo[r] \in Seq(Nat)
      BY <2>3 DEF PollInv, PlaceInv, PhaseInv, ToDos
    <3>2. CASE DOMAIN todo[r] = {}
      BY <1>9, <3>2 DEF AheadInv
    <3>3. CASE DOMAIN todo[r] # {}
      <4>1. DOMAIN <<>> = {}
        OBVIOUS
      <4>2. word[r] \in Words
        BY <3>3, <4>1 DEF PollInv, PhaseInv, PhaseOf, Steps
      <4>3. \A n \in DOMAIN todo[r] : todo[r][n] \in Nat
        BY <3>1
      <4>4. \A n \in DOMAIN todo[r] : index[r][word[r]] < todo[r][n] /\ todo[r][n] <= Len(store'[word[r]])
        BY <1>8, <3>1, <4>2, <4>3 DEF AheadInv
      <4>5. QED
        BY <1>9, <3>1, <4>4 DEF AheadInv
    <3>4. QED
      BY <3>2, <3>3
  <2>4. QED
    BY <1>10, <2>1, <2>2, <2>3 DEF PlaceInv
<1>14. QED
  BY <1>11, <1>12, <1>13 DEF PollInv

LEMMA IntervalStep ==
  ASSUME PollInv, NextInterval
  PROVE  PollInv'
<1>1. /\ now' \in 0..MaxNow /\ UNCHANGED <<kind, store, lists, at, word, todo, index, listed, handed, failed,
                                           cache, curr, trimmed>>
  BY PollingAssumption DEF NextInterval, PollInv, DataInv, readerVars, cacheVars
<1>2. DataInv' /\ StoreInv' /\ PhaseInv' /\ TodoInv'
  BY <1>1 DEF PollInv, DataInv, StoreInv, PhaseInv, PhaseOf, TodoInv, ToDos, ByPlace
<1>3. /\ ByPlace' = ByPlace /\ Browser' = Browser /\ HandedOver' = HandedOver /\ Failures' = Failures
      /\ Awaited' = Awaited /\ \A r \in Readers : HandedBy(r)' = HandedBy(r)
  BY <1>1 DEF ByPlace, Browser, HandedOver, Failures, Awaited, HandedBy
<1>4. PlaceInv'
  BY <1>1, <1>3 DEF PollInv, PlaceInv, SeenInv, AheadInv, UnderInv
<1>5. PermInv'
  BY <1>1, <1>3 DEF PollInv, PermInv
<1>6. BrowserInv'
  BY <1>1, <1>3 DEF PollInv, BrowserInv
<1>7. QED
  BY <1>2, <1>4, <1>5, <1>6 DEF PollInv

LEMMA WordsInReach ==
  ASSUME PhaseInv, NEW r \in Readers, at[r] = "visit"
  PROVE  WordsOf(Head(lists[r])) \subseteq Words
<1>1. lists[r] \in Seq(Intervals) /\ lists[r] # <<>>
  BY DEF PhaseInv, PhaseOf
<1>2. Head(lists[r]) \in Intervals
  BY <1>1, TailFacts
<1>3. QED
  BY <1>2 DEF WordsOf, Words

\* The steps after which a reader of Pixelfed or Avideo, or one without anything to fetch, has seen
\* and handed over what it had before.
LEMMA QuietSteps ==
  ASSUME PollInv, NEW r \in Readers,
         \/ BeginRound(r) \/ PixelfedAsk(r) \/ PixelfedNothing(r) \/ PixelfedError(r)
         \/ PixelfedBreak(r) \/ PixelfedRaises(r) \/ AvideoRaises(r)
         \/ PixelfedSearchFails(r) \/ AvideoSearchFails(r) \/ FeedbackRaises(r) \/ SendMsgGoodRaises(r)
  PROVE  PollInv'
<1> DEFINE Rest == UNCHANGED <<kind, now, store, index, listed, handed, failed, cacheVars>>
<1>1. PhaseInv /\ \A a \in {"round", "visit", "ask", "ended"} : at[r] = a => todo[r] = <<>>
  BY DEF PollInv, PhaseInv, PhaseOf
<1>2. todo[r] = <<>> /\ UNCHANGED todo => todo' = [todo EXCEPT ![r] = <<>>]
  BY <1>1 DEF PhaseInv
<1>3. <<>> \in Seq(ToDos) /\ {"round", "visit", "ask", "fetch", "ended"} \subseteq Steps
  BY DEF Steps
<1>4. CASE BeginRound(r)
  <2>1. Lists \in Seq(Intervals) /\ Lists # <<>>
    <3>1. now \in Intervals /\ now - 1 \in Intervals /\ now - 2 \in Intervals
      BY PollingAssumption DEF PollInv, DataInv, Intervals
    <3>2. <<now, now - 1, now - 2>> \in Seq(Intervals) /\ <<now, now - 1>> \in Seq(Intervals)
      BY <3>1
    <3>3. QED
      BY <3>2 DEF Lists
  <2>2. at[r] = "round" /\ word[r] \in Words \union {None}
    BY <1>1, <1>4 DEF BeginRound, PhaseInv
  <2>3. /\ lists' = [lists EXCEPT ![r] = Lists] /\ at' = [at EXCEPT ![r] = "visit"]
        /\ word' = [word EXCEPT ![r] = word[r]] /\ todo' = [todo EXCEPT ![r] = <<>>] /\ kind' = kind /\ Rest
    BY <1>1, <1>2, <1>4, <2>2 DEF BeginRound, PhaseInv
  <2>4. PhaseOf(kind, Lists, "visit", word[r], <<>>)
    BY <2>1 DEF PhaseOf
  <2>5. PhaseInv' /\ Moves(r, word[r], <<>>)
    <3> HIDE DEF Rest
    <3>1. QED
      BY <1>1, <1>3, <2>1, <2>2, <2>3, <2>4, ReaderMoves
  <2>6. QED
    BY <1>1, <2>2, <2>3, <2>5, DropStep
<1>5. CASE PixelfedAsk(r)
  <2>1. at[r] = "visit" /\ kind = "pixelfed" /\ lists' = lists
    BY <1>5 DEF PixelfedAsk
  <2>2. PICK w \in WordsOf(Head(lists[r])) : word' = [word EXCEPT ![r] = w]
    BY <1>5 DEF PixelfedAsk
  <2>3. w \in Words
    BY <1>1, <2>1, <2>2, WordsInReach
  <2>4. lists[r] \in Seq(Intervals) /\ lists[r] # <<>> /\ lists' = [lists EXCEPT ![r] = lists[r]]
    BY <1>1, <2>1, ListKept
  <2>5. at' = [at EXCEPT ![r] = "ask"] /\ todo' = [todo EXCEPT ![r] = <<>>] /\ kind' = kind /\ Rest
    BY <1>1, <1>2, <1>5, <2>1 DEF PixelfedAsk
  <2>6. PhaseOf(kind, lists[r], "ask", w, <<>>)
    BY <2>1, <2>3, <2>4 DEF PhaseOf
  <2>7. PhaseInv' /\ Moves(r, w, <<>>)
    <3> HIDE DEF Rest
    <3>1. QED
      BY <1>1, <1>3, <2>2, <2>3, <2>4, <2>5, <2>6, ReaderMoves
  <2>8. QED
    BY <1>1, <2>1, <2>5, <2>7, DropStep
<1>6. CASE PixelfedNothing(r) \/ PixelfedBreak(r) \/ PixelfedSearchFails(r) \/ AvideoSearchFails(r)
  <2>1. /\ at[r] \in {"visit", "ask", "fetch", "read"} /\ todo[r] = <<>> /\ EndVisit(r) /\ Rest /\ kind' = kind
    BY <1>1, <1>6 DEF PixelfedNothing, PixelfedBreak, PixelfedSearchFails, AvideoSearchFails
  <2>2. PhaseInv' /\ Moves(r, None, <<>>)
    <3> HIDE DEF Rest
    <3>1. QED
      BY <1>1, <2>1, VisitEnds
  <2>3. QED
    BY <2>1, <2>2, DropStep
<1>7. CASE PixelfedError(r) \/ PixelfedRaises(r)
  <2>1. at[r] \in {"visit", "ask", "fetch", "read"} /\ Again(r, None) /\ Rest /\ kind' = kind
    BY <1>7 DEF PixelfedError, PixelfedRaises
  <2>2. kind = "pixelfed"
    BY <1>7 DEF PixelfedError, PixelfedRaises, PollInv, PhaseInv, PhaseOf
  <2>3. PhaseInv' /\ Moves(r, None, <<>>)
    <3> HIDE DEF Rest
    <3>1. QED
      BY <1>1, <2>1, ListAgain
  <2>4. QED
    BY <2>1, <2>2, <2>3, DropStep DEF ByPlace
<1>8. CASE AvideoRaises(r)
  <2>1. at[r] = "fetch" /\ kind = "avideo" /\ Again(r, word[r]) /\ Rest /\ kind' = kind
    BY <1>8 DEF AvideoRaises
  <2>2. word[r] \in Words \union {None}
    BY <1>1 DEF PhaseInv
  <2>3. PhaseInv' /\ Moves(r, word[r], <<>>)
    <3> HIDE DEF Rest
    <3>1. QED
      BY <1>1, <2>1, <2>2, ListAgain
  <2>4. QED
    BY <2>1, <2>3, DropStep DEF ByPlace
<1>9. CASE FeedbackRaises(r) \/ SendMsgGoodRaises(r)
  <2>1. at[r] = "round" /\ EndThread(r)
    BY <1>9 DEF FeedbackRaises, SendMsgGoodRaises
  <2>2. /\ lists' = [lists EXCEPT ![r] = <<>>] /\ at' = [at EXCEPT ![r] = "ended"]
        /\ word' = [word EXCEPT ![r] = None] /\ todo' = [todo EXCEPT ![r] = <<>>] /\ kind' = kind /\ Rest
    BY <2>1 DEF EndThread
  <2>3. PhaseOf(kind, <<>>, "ended", None, <<>>)
    BY DEF PhaseOf
  <2>4. <<>> \in Seq(Intervals) /\ "ended" \in Steps /\ None \in Words \union {None}
    BY <1>3
  <2>5. PhaseInv' /\ Moves(r, None, <<>>)
    <3> HIDE DEF Rest
    <3>1. QED
      BY <1>1, <1>3, <2>2, <2>3, <2>4, ReaderMoves
  <2>6. QED
    BY <1>1, <2>1, <2>2, <2>5, DropStep
<1>10. QED
  BY <1>4, <1>5, <1>6, <1>7, <1>8, <1>9

LEMMA PlaceSteps ==
  ASSUME PollInv, NEW r \in Readers,
         PixelfedLatest(r) \/ PixelfedGets(r) \/ PixelfedGetFails(r) \/ AvideoLatest(r) \/ AvideoGet(r)
  PROVE  PollInv'
<1> DEFINE Rest == UNCHANGED <<kind, now, store, index, listed, handed, failed, cacheVars>>
<1>1. PhaseInv /\ failed \in [Readers -> SUBSET Posts] /\ store \in [Words -> Seq(Posts)]
  BY DEF PollInv, DataInv
<1>2. CASE PixelfedLatest(r)
  <2>1. at[r] = "ask" /\ kind = "pixelfed" /\ word[r] \in Words
    BY <1>1, <1>2 DEF PixelfedLatest, PhaseInv, PhaseOf
  <2>2. Fetch(r, word[r], NewPlaces(r, word[r])) /\ Rest
    BY <1>2 DEF PixelfedLatest
  <2>3. QED
    BY <2>1, <2>2, PlaceFetches DEF ByPlace
<1>3. CASE PixelfedGetFails(r)
  BY <1>3, PlaceIsPassed DEF PixelfedGetFails
<1>4. CASE AvideoLatest(r)
  <2>1. at[r] = "visit" /\ kind = "avideo" /\ todo[r] = <<>> /\ Rest
    BY <1>1, <1>4 DEF AvideoLatest, PhaseInv, PhaseOf
  <2>2. PICK w \in IF word[r] = None THEN WordsOf(Head(lists[r])) ELSE {word[r]} :
          EndVisit(r) \/ Fetch(r, w, NewPlaces(r, w))
    BY <1>4 DEF AvideoLatest
  <2>3. w \in Words
    <3>1. word[r] \in Words \union {None}
      BY <1>1 DEF PhaseInv
    <3>2. QED
      BY <1>1, <2>1, <2>2, <3>1, WordsInReach
  <2>4. CASE EndVisit(r)
    <3>1. PhaseInv' /\ Moves(r, None, <<>>)
      BY <1>1, <2>1, <2>4, VisitEnds
    <3>2. QED
      BY <2>1, <3>1, DropStep
  <2>5. CASE Fetch(r, w, NewPlaces(r, w))
    BY <2>1, <2>3, <2>5, PlaceFetches DEF ByPlace
  <2>6. QED
    BY <2>2, <2>4, <2>5
<1> DEFINE q == todo[r]
           n == Head(q)
           w == word[r]
           p == store[w][n]
<1>5. ASSUME ByPlace, at[r] = "fetch", q # <<>>
      PROVE  /\ w \in Words /\ n \in DOMAIN store[w] /\ p \in Posts
             /\ index[r][w] \in Nat /\ index[r][w] < n /\ n \in Nat /\ n <= Len(store[w])
             /\ kind = "avideo" => n = index[r][w] + 1
  <2>1. w \in Words /\ q \in Seq(Nat) /\ AheadInv(r) /\ store[w] \in Seq(Posts) /\ index[r][w] \in Nat
    BY <1>1, <1>5 DEF PollInv, PhaseInv, PhaseOf, PlaceInv, ToDos, DataInv
  <2>2. 1 \in DOMAIN q /\ q[1] = n /\ n \in Nat
    <3> HIDE DEF q
    <3>1. QED
      BY <1>5, <2>1, TailFacts
  <2>3. index[r][w] < q[1] /\ q[1] <= Len(store[w]) /\ (kind = "avideo" => q[1] = index[r][w] + 1)
    BY <2>1, <2>2 DEF AheadInv
  <2> HIDE DEF q, n, w
  <2>4. n \in DOMAIN store[w]
    BY <2>1, <2>2, <2>3
  <2>5. QED
    BY <2>1, <2>2, <2>3, <2>4
<1>6. CASE PixelfedGets(r)
  <2> DEFINE F == failed[r] \union {store[w][k] : k \in (index[r][w] + 1)..(n - 1)}
  <2>1. /\ at[r] = "fetch" /\ ByPlace /\ q # <<>> /\ Seen(r, n) /\ Hand(r, p) /\ FetchNext(r)
        /\ failed' = [failed EXCEPT ![r] = F] /\ UNCHANGED <<kind, now, store, listed, cacheVars>>
        /\ kind # "permstore" /\ kind' = kind
    BY <1>6 DEF PixelfedGets, ByPlace
  <2>2. F \in SUBSET Posts
    <3>1. ASSUME NEW k \in (index[r][w] + 1)..(n - 1) PROVE store[w][k] \in Posts
      <4>1. store[w] \in Seq(Posts)
        BY <1>1, <1>5, <2>1
      <4>2. k \in 1..Len(store[w])
        BY <1>5, <2>1, <4>1
      <4>3. QED
        BY <4>1, <4>2
    <3>2. QED
      BY <1>1, <3>1
  <2>3. PhaseInv' /\ Moves(r, w, Tail(q))
    BY <1>1, <2>1, FetchGoesOn
  <2>4. failed[r] \subseteq F /\ \A k \in (index[r][w] + 1)..(n - 1) : store[w][k] \in F
    OBVIOUS
  <2> HIDE DEF F
  <2>5. QED
    BY <2>1, <2>2, <2>3, <2>4, PlaceIsSeen
<1>7. CASE AvideoGet(r)
  <2>1. at[r] = "fetch" /\ kind = "avideo" /\ ByPlace /\ kind' = kind
        /\ UNCHANGED <<kind, now, store, listed, cacheVars>>
    BY <1>7 DEF AvideoGet, ByPlace
  <2>2. \/ EndVisit(r) /\ UNCHANGED <<index, handed, failed>>
        \/ q # <<>> /\ Seen(r, n) /\ Hand(r, p) /\ EndVisit(r) /\ UNCHANGED failed
        \/ q # <<>> /\ Seen(r, n) /\ Fail(r, p) /\ FetchNext(r) /\ UNCHANGED handed
    BY <1>7 DEF AvideoGet
  <2>3. CASE EndVisit(r) /\ UNCHANGED <<index, handed, failed>>
    <3>1. PhaseInv' /\ Moves(r, None, <<>>)
      BY <1>1, <2>1, <2>3, VisitEnds
    <3>2. QED
      BY <2>1, <2>3, <3>1, DropStep
  <2>4. CASE q # <<>> /\ Seen(r, n) /\ Hand(r, p) /\ EndVisit(r) /\ UNCHANGED failed
    <3>1. PhaseInv' /\ Moves(r, None, <<>>)
      BY <1>1, <2>1, <2>4, VisitEnds
    <3>2. failed' = [failed EXCEPT ![r] = failed[r]] /\ failed[r] \in SUBSET Posts
      BY <1>1, <2>4
    <3>3. \A k \in (index[r][w] + 1)..(n - 1) : store[w][k] \in failed[r]
      <4>1. n = index[r][w] + 1 /\ index[r][w] \in Nat
        BY <1>5, <2>1, <2>4
      <4> HIDE DEF n, w
      <4>2. (index[r][w] + 1)..(n - 1) = {}
        BY <4>1
      <4>3. QED
        BY <4>2
    <3>4. QED
      BY <2>1, <2>4, <3>1, <3>2, <3>3, PlaceIsSeen
  <2>5. CASE q # <<>> /\ Seen(r, n) /\ Fail(r, p) /\ FetchNext(r) /\ UNCHANGED handed
    <3> DEFINE F == failed[r] \union {p}
    <3>1. PhaseInv' /\ Moves(r, w, Tail(q))
      BY <1>1, <2>1, <2>5, FetchGoesOn
    <3>2. failed' = [failed EXCEPT ![r] = F] /\ F \in SUBSET Posts /\ p \in F /\ failed[r] \subseteq F
      <4>1. p \in Posts
        BY <1>5, <2>1, <2>5
      <4> HIDE DEF p
      <4>2. QED
        BY <1>1, <2>5, <4>1 DEF Fail
    <3>3. \A k \in (index[r][w] + 1)..(n - 1) : store[w][k] \in F
      <4>1. n = index[r][w] + 1 /\ index[r][w] \in Nat
        BY <1>5, <2>1, <2>5
      <4> HIDE DEF n, w
      <4>2. (index[r][w] + 1)..(n - 1) = {}
        BY <4>1
      <4>3. QED
        BY <4>2
    <3> HIDE DEF F
    <3>4. QED
      BY <2>1, <2>5, <3>1, <3>2, <3>3, PlaceIsSeen
  <2>6. QED
    BY <2>2, <2>3, <2>4, <2>5
<1>8. QED
  BY <1>2, <1>3, <1>4, <1>6, <1>7

LEMMA PermSteps ==
  ASSUME PollInv, NEW r \in Readers, PermList(r) \/ PermLookUp(r) \/ PermRead(r)
  PROVE  PollInv'
<1>1. /\ PhaseInv /\ DataInv /\ kind = "permstore" /\ kind' = kind /\ ~ByPlace /\ ToDos = Posts
      /\ UNCHANGED <<kind, now, store, index>> /\ PermInv
  BY DEF PermList, PermLookUp, PermRead, PollInv, PhaseInv, PhaseOf, ByPlace, ToDos
<1>2. /\ failed \in [Readers -> SUBSET Posts] /\ listed \in [Readers -> SUBSET Posts]
      /\ store \in [Words -> Seq(Posts)] /\ curr \subseteq cache /\ trimmed \in BOOLEAN
      /\ cache \subseteq HandedOver /\ HandedOver \subseteq Posts
  BY <1>1 DEF DataInv, PermInv, HandedOver, HandedBy
<1>3. /\ failed' = failed => failed' = [failed EXCEPT ![r] = failed[r]]
      /\ listed' = listed => listed' = [listed EXCEPT ![r] = listed[r]]
  BY <1>2
<1>4. /\ cache \subseteq HandedOver
      /\ ToSet(todo[r]) \subseteq listed[r]
      /\ listed[r] \subseteq HandedOver \union failed[r] \union ToSet(todo[r])
      /\ \A o \in HandedBy(r) : handed[r][o] = 1 /\ o \in listed[r] \ ToSet(todo[r])
      /\ Distinct(todo[r])
  BY <1>1 DEF PollInv, PermInv, TodoInv
<1>5. handed' = handed => HandedOver' = HandedOver /\ HandedBy(r)' = HandedBy(r)
  BY DEF HandedOver, HandedBy
<1>6. CASE PermList(r)
  <2>1. at[r] = "visit" /\ todo[r] = <<>> /\ handed' = handed /\ failed' = failed /\ CheckCache({})
    BY <1>1, <1>6 DEF PermList, PhaseInv, PhaseOf
  <2>2. PICK w \in WordsOf(Head(lists[r])) :
          LET new == Only(store[w], Posts \ listed[r])
          IN  /\ IF new = <<>> THEN EndVisit(r) ELSE Fetch(r, w, new)
              /\ listed' = [listed EXCEPT ![r] = @ \union ToSet(new)]
    BY <1>6 DEF PermList
  <2> DEFINE new == Only(store[w], Posts \ listed[r])
             L == listed[r] \union ToSet(new)
  <2>3. w \in Words
    BY <1>1, <2>1, WordsInReach
  <2>4. new \in Seq(Posts) /\ Distinct(new) /\ ToSet(new) \subseteq Posts \ listed[r]
    <3>1. store[w] \in Seq(Posts) /\ Distinct(store[w])
      BY <1>2, <2>3 DEF PollInv, StoreInv, Distinct
    <3>2. QED
      BY <3>1, PartOf
  <2>5. /\ IF new = <<>> THEN EndVisit(r) ELSE Fetch(r, w, new)
        /\ listed' = [listed EXCEPT ![r] = L]
    BY <2>2
  <2> HIDE DEF new
  <2>6. PICK v : PhaseInv' /\ Moves(r, v, new)
    <3>1. CASE new = <<>>
      BY <1>1, <2>1, <2>5, <3>1, VisitEnds
    <3>2. CASE new # <<>>
      BY <1>1, <2>1, <2>3, <2>4, <2>5, <3>2, FetchBegins
    <3>3. QED
      BY <3>1, <3>2
  <2>7. cache' \subseteq cache /\ curr' \subseteq cache' /\ trimmed' \in BOOLEAN
    BY <1>2, <2>1 DEF CheckCache
  <2>8. ToSet(todo[r]) = {}
    BY <2>1 DEF ToSet
  <2>9. L \in SUBSET Posts /\ listed[r] \subseteq L /\ ToSet(new) \subseteq L /\ L \subseteq listed[r] \union ToSet(new)
        /\ ToSet(new) \intersect HandedBy(r) = {}
    BY <1>2, <1>4, <2>4
  <2> HIDE DEF L
  <2>10. cache' \subseteq HandedOver' \intersect Posts /\ failed[r] \in SUBSET Posts
    BY <1>2, <1>4, <1>5, <2>1, <2>7
  <2>11. PollInv'
    BY <1>1, <1>3, <2>1, <2>4, <2>5, <2>6, <2>7, <2>8, <2>9, <2>10, PermGoes
  <2>12. QED
    BY <2>11
<1> DEFINE q == todo[r]
           p == Head(q)
           t == Tail(q)
<1>7. ASSUME at[r] \in {"fetch", "read"}
      PROVE  /\ q \in Seq(Posts) /\ q # <<>> /\ p \in Posts /\ ToSet(q) = {p} \union ToSet(t) /\ p \notin ToSet(t)
             /\ Distinct(t) /\ (Len(q) = 1 => t = <<>>)
  <2>1. q \in Seq(Posts) /\ q # <<>> /\ Distinct(q)
    BY <1>1, <1>4, <1>7 DEF PhaseInv, PhaseOf
  <2> HIDE DEF q
  <2>2. QED
    BY <2>1, HeadLeaves
<1>8. ASSUME at[r] \in {"fetch", "read"}, NextFile(r)
      PROVE  \E v : PhaseInv' /\ Moves(r, v, t)
  <2>1. CASE Len(q) = 1
    <3>1. EndVisit(r) /\ t = <<>>
      BY <1>7, <1>8, <2>1 DEF NextFile
    <3>2. QED
      BY <1>1, <1>8, <3>1, VisitEnds
  <2>2. CASE Len(q) # 1
    <3>1. FetchNext(r) /\ q # <<>>
      BY <1>7, <1>8, <2>2 DEF NextFile
    <3>2. QED
      BY <1>1, <1>8, <2>2, <3>1, FetchGoesOn
  <2>3. QED
    BY <2>1, <2>2
<1>9. CASE PermLookUp(r)
  <2>1. /\ at[r] = "fetch" /\ UNCHANGED <<listed, handed, failed, cache, curr, trimmed>>
        /\ IF p \in cache THEN NextFile(r) ELSE at' = [at EXCEPT ![r] = "read"] /\ UNCHANGED <<lists, word, todo>>
    BY <1>9 DEF PermLookUp, cacheVars
  <2>2. /\ listed[r] \in SUBSET Posts /\ failed[r] \in SUBSET Posts
        /\ cache' \subseteq HandedOver' \intersect Posts /\ curr' \subseteq cache' /\ trimmed' \in BOOLEAN
    BY <1>2, <1>4, <1>5, <2>1
  <2>3. CASE p \in cache
    <3>1. PICK v : PhaseInv' /\ Moves(r, v, t)
      BY <1>8, <2>1, <2>3
    <3>2. ToSet(t) \subseteq listed[r] /\ ToSet(t) \intersect HandedBy(r) = {} /\ Distinct(t)
      BY <1>4, <1>7, <2>1
    <3>3. ToSet(q) \subseteq ToSet(t) \union HandedOver' \union failed[r]
      BY <1>4, <1>5, <1>7, <2>1, <2>3
    <3> HIDE DEF p, t
    <3>4. QED
      BY <1>1, <1>3, <2>1, <2>2, <3>1, <3>2, <3>3, PermGoes
  <2>4. CASE p \notin cache
    <3>1. at' = [at EXCEPT ![r] = "read"] /\ UNCHANGED <<lists, word, todo>>
      BY <2>1, <2>4
    <3>2. lists[r] \in Seq(Intervals) /\ lists[r] # <<>> /\ lists' = [lists EXCEPT ![r] = lists[r]]
      BY <1>1, <2>1, <3>1, ListKept
    <3>3. /\ word[r] \in Words /\ q \in Seq(ToDos) /\ q # <<>> /\ "read" \in Steps
          /\ word' = [word EXCEPT ![r] = word[r]] /\ todo' = [todo EXCEPT ![r] = q]
      BY <1>1, <1>7, <2>1, <3>1 DEF PhaseInv, PhaseOf, Steps
    <3>4. PhaseOf(kind, lists[r], "read", word[r], q)
      BY <1>1, <3>2, <3>3 DEF PhaseOf
    <3>5. PhaseInv' /\ Moves(r, word[r], q)
      BY <1>1, <3>1, <3>2, <3>3, <3>4, ReaderMoves
    <3>6. ToSet(q) \subseteq listed[r] /\ ToSet(q) \intersect HandedBy(r) = {} /\ Distinct(q)
      BY <1>4
    <3>7. QED
      BY <1>1, <1>3, <2>1, <2>2, <3>5, <3>6, PermGoes
  <2>5. QED
    BY <2>3, <2>4
<1>10. CASE PermRead(r)
  <2>1. /\ at[r] = "read" /\ NextFile(r) /\ listed' = listed
        /\ \/ Hand(r, p) /\ Cache({p}) /\ UNCHANGED failed
           \/ Fail(r, p) /\ UNCHANGED <<handed, cache, curr, trimmed>>
    BY <1>10 DEF PermRead, cacheVars
  <2>2. PICK v : PhaseInv' /\ Moves(r, v, t)
    BY <1>8, <2>1
  <2>3. ToSet(t) \subseteq listed[r] /\ ToSet(t) \intersect HandedBy(r) = {} /\ Distinct(t) /\ p \in ToSet(q) \ ToSet(t)
    BY <1>4, <1>7, <2>1
  <2>4. listed[r] \in SUBSET Posts /\ failed[r] \in SUBSET Posts /\ p \in Posts
    BY <1>2, <1>7, <2>1
  <2>5. CASE Hand(r, p) /\ Cache({p}) /\ UNCHANGED failed
    <3> HIDE DEF p
    <3>1. p \in HandedOver' /\ HandedOver \subseteq HandedOver'
      <4>1. p \in HandedBy(r)' /\ HandedOver \subseteq HandedOver'
        BY <1>1, <2>4, <2>5, HandedGrows
      <4>2. QED
        BY <4>1 DEF HandedOver
    <3>2. cache' \subseteq HandedOver' \intersect Posts /\ curr' \subseteq cache' /\ trimmed' \in BOOLEAN
      BY <1>2, <1>4, <2>4, <2>5, <3>1 DEF Cache
    <3>3. ToSet(q) \subseteq ToSet(t) \union HandedOver' \union failed[r]
      BY <1>7, <2>1, <3>1 DEF p
    <3> HIDE DEF t
    <3>4. QED
      BY <1>1, <1>3, <2>1, <2>2, <2>3, <2>4, <2>5, <3>2, <3>3, PermGoes
  <2>6. CASE Fail(r, p) /\ UNCHANGED <<handed, cache, curr, trimmed>>
    <3> DEFINE F == failed[r] \union {p}
    <3>1. failed' = [failed EXCEPT ![r] = F] /\ F \in SUBSET Posts /\ failed[r] \subseteq F
      BY <2>4, <2>6 DEF Fail
    <3>2. ToSet(q) \subseteq ToSet(t) \union HandedOver' \union F
      BY <1>7, <2>1
    <3>3. cache' \subseteq HandedOver' \intersect Posts /\ curr' \subseteq cache' /\ trimmed' \in BOOLEAN
      BY <1>2, <1>4, <1>5, <2>6
    <3> HIDE DEF p, t, F
    <3>4. QED
      BY <1>1, <1>3, <2>1, <2>2, <2>3, <2>4, <2>6, <3>1, <3>2, <3>3, PermGoes
  <2>7. QED
    BY <2>1, <2>5, <2>6
<1>11. QED
  BY <1>6, <1>9, <1>10

LEMMA SearchFinds ==
  ASSUME PollInv, NEW w \in Words, NEW S \in SUBSET ToSet(store[w])
  PROVE  /\ Only(store[w], S) \in Seq(Posts) /\ Distinct(Only(store[w], S)) /\ ToSet(Only(store[w], S)) = S
         /\ S \subseteq Posts
<1>1. store[w] \in Seq(Posts) /\ Distinct(store[w])
  BY DEF PollInv, DataInv, StoreInv, Distinct
<1>2. ToSet(store[w]) \subseteq Posts
  BY <1>1 DEF ToSet
<1>3. /\ Only(store[w], S) \in Seq(Posts) /\ Distinct(Only(store[w], S))
      /\ ToSet(Only(store[w], S)) = ToSet(store[w]) \intersect S
  BY <1>1, PartOf
<1>4. ToSet(store[w]) \intersect S = S /\ S \subseteq Posts
  BY <1>2
<1>5. QED
  BY <1>3, <1>4

LEMMA BrowserSteps ==
  ASSUME PollInv, NEW r \in Readers,
         PixelfedSearch(r) \/ PixelfedFetch(r) \/ AvideoSearch(r) \/ AvideoFetch(r)
  PROVE  PollInv'
<1>1. /\ PhaseInv /\ DataInv /\ Browser /\ ~ByPlace /\ ToDos = Posts /\ BrowserInv /\ kind # "permstore"
      /\ UNCHANGED <<kind, now, store, index, listed>>
  BY DEF PixelfedSearch, PixelfedFetch, AvideoSearch, AvideoFetch, PollInv, ByPlace, Browser, ToDos
<1>2. /\ failed \in [Readers -> SUBSET Posts] /\ cache \subseteq Posts \union Pages
      /\ curr \subseteq cache /\ trimmed \in BOOLEAN /\ \A o \in Posts : handed[r][o] \in Nat
  BY <1>1 DEF DataInv
<1>3. /\ failed' = failed => failed' = [failed EXCEPT ![r] = failed[r]]
      /\ failed[r] \in SUBSET Posts
  BY <1>2
<1>4. /\ Distinct(todo[r])
      /\ ~trimmed => \A o \in Posts : Known(o, handed[r][o], todo[r], cache)
      /\ kind = "avideoSelenium" => ~trimmed /\ cache \subseteq Posts
      /\ \A o \in Posts : o \in cache => o \in HandedOver
  BY <1>1 DEF PollInv, TodoInv, BrowserInv
<1>5. ToSet(<<>>) = {} /\ Distinct(<<>>) /\ {} \in SUBSET (Posts \union Pages)
  BY DEF ToSet, Distinct
<1>6. handed' = handed => HandedOver' = HandedOver
  BY DEF HandedOver, HandedBy
<1>7. CASE PixelfedSearch(r)
  <2>1. at[r] = "visit" /\ kind = "pixelfedSelenium" /\ handed' = handed /\ todo[r] = <<>>
    BY <1>1, <1>7 DEF PixelfedSearch, PhaseInv, PhaseOf
  <2>2. PICK w \in WordsOf(Head(lists[r])) : \E found \in SUBSET Unread(w) : \E late \in SUBSET found :
          /\ found \ late \subseteq New(w)
          /\ CheckCache({Page(p) : p \in late})
          /\ \/ Fetch(r, w, Only(store[w], found)) /\ UNCHANGED failed
             \/ EndVisit(r) /\ failed' = [failed EXCEPT ![r] = @ \union late]
    BY <1>7 DEF PixelfedSearch
  <2>3. PICK found \in SUBSET Unread(w) : \E late \in SUBSET found :
          /\ found \ late \subseteq New(w)
          /\ CheckCache({Page(p) : p \in late})
          /\ \/ Fetch(r, w, Only(store[w], found)) /\ UNCHANGED failed
             \/ EndVisit(r) /\ failed' = [failed EXCEPT ![r] = @ \union late]
    BY <2>2
  <2>4. PICK late \in SUBSET found :
          /\ found \ late \subseteq New(w)
          /\ CheckCache({Page(p) : p \in late})
          /\ \/ Fetch(r, w, Only(store[w], found)) /\ UNCHANGED failed
             \/ EndVisit(r) /\ failed' = [failed EXCEPT ![r] = @ \union late]
    BY <2>3
  <2>5. w \in Words
    BY <1>1, <2>1, <2>2, WordsInReach
  <2> DEFINE t == Only(store[w], found)
             C == {Page(o) : o \in late}
  <2>6. /\ t \in Seq(Posts) /\ Distinct(t) /\ ToSet(t) = found /\ found \subseteq Posts
        /\ \A o \in found : Page(o) \notin cache
    <3>1. found \in SUBSET ToSet(store[w]) /\ \A o \in found : Page(o) \notin cache
      BY DEF Unread
    <3>2. QED
      BY <2>5, <3>1, SearchFinds
  <2>7. late \in SUBSET Posts /\ C \in SUBSET (Posts \union Pages) /\ \A o \in Posts : o \notin C
    BY <2>6, PagesApart DEF Pages
  <2>8. /\ \A o \in late : Page(o) \in C
        /\ \A o \in Posts : Page(o) \in C => o \in late
    BY DEF Page
  <2>9. CheckCache(C)
    BY <2>4
  <2> HIDE DEF C
  <2>10. /\ cache' \subseteq cache \union C /\ curr' \subseteq cache' /\ trimmed' \in BOOLEAN
         /\ ~trimmed' => ~trimmed /\ cache' = cache \union C
    BY <1>2, <2>9 DEF CheckCache
  <2>11. ToSet(todo[r]) = {}
    BY <1>5, <2>1
  <2>12. CASE Fetch(r, w, t) /\ UNCHANGED failed
    <3>1. PhaseInv' /\ Moves(r, w, t)
      BY <1>1, <2>1, <2>5, <2>6, <2>12, FetchBegins
    <3>2. ASSUME ~trimmed', NEW o \in ToSet(t) \intersect HandedBy(r)
          PROVE  handed[r][o] <= 1 /\ Page(o) \in cache'
      <4>1. o \in found /\ o \in Posts /\ handed[r][o] > 0 /\ Known(o, handed[r][o], todo[r], cache)
        BY <1>4, <2>6, <2>10, <3>2 DEF HandedBy
      <4>2. handed[r][o] <= 1 /\ o \in cache
        BY <2>6, <4>1 DEF Known
      <4>3. o \in late
        BY <2>4, <4>1, <4>2 DEF New
      <4>4. QED
        BY <2>8, <2>10, <3>2, <4>2, <4>3
    <3>3. \A o \in Posts : Page(o) \in C => o \in HandedOver' \union failed[r] \union ToSet(t)
      BY <2>6, <2>8
    <3>4. trimmed' \/ \A o \in ToSet(t) \intersect HandedBy(r) : handed[r][o] <= 1 /\ Page(o) \in cache'
      BY <3>2
    <3>5. failed' = [failed EXCEPT ![r] = failed[r]] /\ failed[r] \in SUBSET Posts /\ failed[r] \subseteq failed[r]
      BY <1>3, <2>12
    <3>6. /\ ~trimmed' => ~trimmed /\ cache \subseteq cache'
          /\ \A o \in ToSet(todo[r]) : Page(o) \in cache => o \in ToSet(t) \union HandedOver' \union failed[r]
      BY <2>10, <2>11
    <3> HIDE DEF t
    <3>7. QED
      BY <1>1, <2>1, <2>6, <2>7, <2>10, <3>1, <3>3, <3>4, <3>5, <3>6, BrowserGoes
  <2>13. CASE EndVisit(r) /\ failed' = [failed EXCEPT ![r] = @ \union late]
    <3> DEFINE F == failed[r] \union late
    <3>1. PhaseInv' /\ Moves(r, None, <<>>)
      BY <1>1, <2>1, <2>13, VisitEnds
    <3>2. /\ failed' = [failed EXCEPT ![r] = F] /\ F \in SUBSET Posts /\ failed[r] \subseteq F
          /\ \A o \in Posts : Page(o) \in C => o \in F
      BY <1>3, <2>7, <2>8, <2>13
    <3> HIDE DEF F
    <3>3. QED
      BY <1>1, <1>5, <2>1, <2>7, <2>10, <2>11, <3>1, <3>2, BrowserGoes
  <2>14. QED
    BY <2>4, <2>12, <2>13
<1>8. CASE AvideoSearch(r)
  <2>1. /\ at[r] = "visit" /\ kind = "avideoSelenium" /\ handed' = handed /\ todo[r] = <<>>
        /\ UNCHANGED <<failed, cache, curr, trimmed>>
    BY <1>1, <1>8 DEF AvideoSearch, PhaseInv, PhaseOf, cacheVars
  <2>2. PICK w \in WordsOf(Head(lists[r])) : Fetch(r, w, Only(store[w], New(w)))
    BY <1>8 DEF AvideoSearch
  <2>3. w \in Words
    BY <1>1, <2>1, <2>2, WordsInReach
  <2> DEFINE t == Only(store[w], New(w))
  <2>4. t \in Seq(Posts) /\ Distinct(t) /\ ToSet(t) = New(w) /\ New(w) \intersect cache = {} /\ New(w) \subseteq Posts
    <3>1. New(w) \in SUBSET ToSet(store[w]) /\ New(w) \intersect cache = {}
      BY DEF New
    <3>2. QED
      BY <2>3, <3>1, SearchFinds
  <2>5. PhaseInv' /\ Moves(r, w, t)
    BY <1>1, <2>1, <2>2, <2>3, <2>4, FetchBegins
  <2>6. ToSet(t) \intersect HandedBy(r) = {} /\ ToSet(todo[r]) = {} /\ ~trimmed
    BY <1>4, <1>5, <2>1, <2>4 DEF Known, HandedBy
  <2>7. cache' \subseteq cache \union {} /\ curr' \subseteq cache' /\ cache \subseteq cache' /\ ~trimmed'
    BY <1>2, <2>1, <2>6
  <2> HIDE DEF t
  <2>8. /\ trimmed' \in BOOLEAN
        /\ trimmed' \/ \A o \in ToSet(t) \intersect HandedBy(r) : handed[r][o] <= 1 /\ Page(o) \in cache'
    BY <1>2, <2>1, <2>6
  <2>9. QED
    BY <1>1, <1>3, <1>5, <2>1, <2>4, <2>5, <2>6, <2>7, <2>8, BrowserGoes
<1> DEFINE q == todo[r]
           p == Head(q)
           t == Tail(q)
<1>9. CASE PixelfedFetch(r) \/ AvideoFetch(r)
  <2>1. /\ at[r] = "fetch"
        /\ \/ q = <<>> /\ EndVisit(r) /\ UNCHANGED <<handed, failed, cacheVars>>
           \/ q # <<>> /\ FetchNext(r) /\ Hand(r, p) /\ Cache({p}) /\ UNCHANGED failed
           \/ /\ q # <<>> /\ FetchNext(r) /\ UNCHANGED <<handed, cacheVars>>
              /\ \/ Fail(r, p)
                 \/ (Page(p) \notin cache \/ kind = "avideoSelenium") /\ UNCHANGED failed
    BY <1>9 DEF PixelfedFetch, AvideoFetch
  <2>2. CASE q = <<>> /\ EndVisit(r) /\ UNCHANGED <<handed, failed, cacheVars>>
    <3>1. PhaseInv' /\ Moves(r, None, <<>>)
      BY <1>1, <2>1, <2>2, VisitEnds
    <3>2. QED
      BY <1>1, <2>2, <3>1, DropStep
  <2>3. CASE q # <<>> /\ FetchNext(r)
    <3>1. PhaseInv' /\ Moves(r, word[r], t)
      BY <1>1, <2>1, <2>3, FetchGoesOn
    <3>2. q \in Seq(Posts) /\ q # <<>> /\ Distinct(q)
      BY <1>1, <1>4, <2>3 DEF PhaseInv
    <3>3. p \in Posts /\ ToSet(q) = {p} \union ToSet(t) /\ p \notin ToSet(t) /\ Distinct(t) /\ ToSet(t) \subseteq Posts
      <4>1. p \in Posts /\ ToSet(q) = {p} \union ToSet(t) /\ p \notin ToSet(t) /\ Distinct(t)
        <5> HIDE DEF q
        <5>1. QED
          BY <3>2, HeadLeaves
      <4>2. ToSet(q) \subseteq Posts
        <5> HIDE DEF q
        <5>1. QED
          BY <3>2 DEF ToSet
      <4>3. QED
        BY <4>1, <4>2
    <3> HIDE DEF p, t
    <3>4. ASSUME ~trimmed, NEW o \in ToSet(t) \intersect HandedBy(r)
          PROVE  handed[r][o] <= 1 /\ Page(o) \in cache
      <4>1. Known(o, handed[r][o], q, cache) /\ o \in ToSet(q) /\ handed[r][o] > 0 /\ handed[r][o] \in Nat
        BY <1>2, <1>4, <3>3, <3>4 DEF HandedBy
      <4>2. QED
        BY <4>1 DEF Known
    <3>5. CASE Hand(r, p) /\ Cache({p}) /\ UNCHANGED failed
      <4>1. p \in HandedOver' /\ HandedOver \subseteq HandedOver'
        <5>1. p \in HandedBy(r)' /\ HandedOver \subseteq HandedOver'
          BY <1>1, <3>3, <3>5, HandedGrows
        <5>2. QED
          BY <5>1 DEF HandedOver
      <4>2. /\ cache' \subseteq cache \union {p} /\ curr' \subseteq cache' /\ cache \subseteq cache' /\ p \in cache'
            /\ trimmed' = trimmed
        BY <1>2, <3>5 DEF Cache
      <4>3. /\ {p} \in SUBSET (Posts \union Pages) /\ p \in (ToSet(q) \intersect cache') \ ToSet(t)
            /\ \A o \in Posts : o \in {p} => o \in HandedOver'
            /\ \A o \in ToSet(q) : Page(o) \in cache => o \in ToSet(t) \union HandedOver' \union failed[r]
            /\ {p} \subseteq Posts
        BY <3>3, <4>1, <4>2
      <4>4. \A o \in Posts : Page(o) \in {p} => o \in HandedOver' \union failed[r] \union ToSet(t)
        BY <3>3, PagesApart
      <4>5. trimmed' \/ \A o \in ToSet(t) \intersect HandedBy(r) : handed[r][o] <= 1 /\ Page(o) \in cache'
        BY <1>2, <3>4, <4>2
      <4>6. PollInv'
        BY <1>1, <1>2, <1>3, <3>1, <3>3, <3>5, <4>2, <4>3, <4>4, <4>5, BrowserGoes
      <4>7. QED
        BY <4>6
    <3>6. CASE UNCHANGED <<handed, cacheVars>> /\ Fail(r, p)
      <4> DEFINE F == failed[r] \union {p}
      <4>1. failed' = [failed EXCEPT ![r] = F] /\ F \in SUBSET Posts /\ failed[r] \subseteq F
        BY <1>3, <3>3, <3>6 DEF Fail
      <4>2. /\ cache' \subseteq cache \union {} /\ curr' \subseteq cache' /\ cache \subseteq cache' /\ cache' = cache
            /\ trimmed' = trimmed /\ handed' = handed
        BY <1>2, <3>6 DEF cacheVars
      <4>3. \A o \in ToSet(q) : Page(o) \in cache => o \in ToSet(t) \union HandedOver' \union F
        BY <3>3
      <4>4. trimmed' \/ \A o \in ToSet(t) \intersect HandedBy(r) : handed[r][o] <= 1 /\ Page(o) \in cache'
        BY <1>2, <3>4, <4>2
      <4> HIDE DEF F
      <4>5. PollInv'
        BY <1>1, <1>2, <1>5, <3>1, <3>3, <4>1, <4>2, <4>3, <4>4, BrowserGoes
      <4>6. QED
        BY <4>5
    <3>7. CASE UNCHANGED <<handed, cacheVars>> /\ (Page(p) \notin cache \/ kind = "avideoSelenium") /\ UNCHANGED failed
      <4>1. Page(p) \notin cache
        BY <1>4, <3>3, <3>7, PagesApart
      <4>2. /\ cache' \subseteq cache \union {} /\ curr' \subseteq cache' /\ cache \subseteq cache' /\ cache' = cache
            /\ trimmed' = trimmed /\ handed' = handed
        BY <1>2, <3>7 DEF cacheVars
      <4>3. \A o \in ToSet(q) : Page(o) \in cache => o \in ToSet(t) \union HandedOver' \union failed[r]
        BY <3>3, <4>1
      <4>4. trimmed' \/ \A o \in ToSet(t) \intersect HandedBy(r) : handed[r][o] <= 1 /\ Page(o) \in cache'
        BY <1>2, <3>4, <4>2
      <4>5. PollInv'
        BY <1>1, <1>2, <1>3, <1>5, <3>1, <3>3, <3>7, <4>2, <4>3, <4>4, BrowserGoes
      <4>6. QED
        BY <4>5
    <3>8. QED
      BY <2>1, <2>3, <3>5, <3>6, <3>7
  <2>4. QED
    BY <2>1, <2>2, <2>3
<1>10. QED
  BY <1>7, <1>8, <1>9

LEMMA PollInvariance == Spec => []PollInv
<1>1. ASSUME PollInv, [Next]_vars PROVE PollInv'
  <2>1. CASE NextInterval
    BY <1>1, <2>1, IntervalStep
  <2>2. CASE \E p \in Posts : Stored(p)
    BY <1>1, <2>2, StoredStep
  <2>3. ASSUME NEW r \in Readers,
               ReaderStep(r) \/ PixelfedRaises(r) \/ AvideoRaises(r) \/ FeedbackRaises(r) \/ SendMsgGoodRaises(r)
        PROVE  PollInv'
    <3>1. CASE \/ BeginRound(r) \/ PixelfedAsk(r) \/ PixelfedNothing(r) \/ PixelfedError(r)
               \/ PixelfedBreak(r) \/ PixelfedRaises(r) \/ AvideoRaises(r)
               \/ PixelfedSearchFails(r) \/ AvideoSearchFails(r) \/ FeedbackRaises(r) \/ SendMsgGoodRaises(r)
      BY <1>1, <3>1, QuietSteps
    <3>2. CASE PixelfedLatest(r) \/ PixelfedGets(r) \/ PixelfedGetFails(r) \/ AvideoLatest(r) \/ AvideoGet(r)
      BY <1>1, <3>2, PlaceSteps
    <3>3. CASE PermList(r) \/ PermLookUp(r) \/ PermRead(r)
      BY <1>1, <3>3, PermSteps
    <3>4. CASE PixelfedSearch(r) \/ PixelfedFetch(r) \/ AvideoSearch(r) \/ AvideoFetch(r)
      BY <1>1, <3>4, BrowserSteps
    <3>5. QED
      BY <2>3, <3>1, <3>2, <3>3, <3>4 DEF ReaderStep
  <2>4. CASE UNCHANGED vars
    <3>1. UNCHANGED <<kind, now, store, lists, at, word, todo, index, listed, handed, failed, cache, curr, trimmed>>
      BY <2>4 DEF vars, readerVars, cacheVars
    <3>2. /\ ByPlace' = ByPlace /\ Browser' = Browser /\ HandedOver' = HandedOver /\ Failures' = Failures
          /\ Awaited' = Awaited /\ \A r \in Readers : HandedBy(r)' = HandedBy(r)
      BY <3>1 DEF ByPlace, Browser, HandedOver, Failures, Awaited, HandedBy
    <3>3. DataInv' /\ StoreInv' /\ PhaseInv' /\ TodoInv'
      BY <1>1, <3>1 DEF PollInv, DataInv, StoreInv, PhaseInv, PhaseOf, TodoInv, ToDos, ByPlace
    <3>4. PlaceInv'
      BY <1>1, <3>1, <3>2 DEF PollInv, PlaceInv, SeenInv, AheadInv, UnderInv
    <3>5. PermInv' /\ BrowserInv'
      BY <1>1, <3>1, <3>2 DEF PollInv, PermInv, BrowserInv
    <3>6. QED
      BY <3>3, <3>4, <3>5 DEF PollInv
  <2>5. QED
    BY <1>1, <2>1, <2>2, <2>3, <2>4 DEF Next
<1>2. QED
  BY <1>1, InitPollInv, PTL DEF Spec

\* A post that a reader will not ask for again was handed over, or it could not be got or decoded;
\* with a shared cache, by some reader (PixelfedRedis.py 246-256, AvideoRedis.py 330-355,
\* PermStoreWB.py 265-298, PixelfedSelenium.py 676-795).
THEOREM NonePassedOver == Spec => []NothingPassedOver
<1>1. ASSUME PollInv PROVE NothingPassedOver
  <2>1. \A r \in Readers : \A w \in Words : \A n \in 1..index[r][w] :
          store[w][n] \in HandedBy(r) \union failed[r]
    BY <1>1 DEF PollInv, PlaceInv, SeenInv
  <2>2. \A r \in Readers : listed[r] \subseteq HandedOver \union failed[r] \union ToSet(todo[r])
    BY <1>1 DEF PollInv, PermInv
  <2>3. ASSUME NEW p \in Posts, p \in cache \/ Page(p) \in cache
        PROVE  p \in HandedOver \union Failures \union Awaited
    <3>1. kind \in {"pixelfed", "avideo", "permstore", "pixelfedSelenium", "avideoSelenium"}
      BY <1>1, PollingAssumption DEF PollInv, DataInv
    <3>2. CASE ByPlace
      BY <1>1, <2>3, <3>2 DEF PollInv, BrowserInv
    <3>3. CASE kind = "permstore"
      <4>1. cache \subseteq HandedOver /\ HandedOver \subseteq Posts
        BY <1>1, <3>3 DEF PollInv, PermInv, HandedOver, HandedBy
      <4>2. QED
        BY <2>3, <4>1, PagesApart
    <3>4. CASE Browser
      BY <1>1, <2>3, <3>4 DEF PollInv, BrowserInv
    <3>5. QED
      BY <3>1, <3>2, <3>3, <3>4 DEF ByPlace, Browser
  <2>4. \A p \in Posts : {p, Page(p)} \intersect cache # {} =>
          p \in HandedOver \union (UNION {failed[r] : r \in Readers}) \union Awaited
    BY <2>3 DEF Failures
  <2>5. QED
    BY <2>1, <2>2, <2>4 DEF NothingPassedOver
<1>2. QED
  BY <1>1, PollInvariance, PTL

\* A reader hands a post over once.  Pixelfed's browser version alone may do it again: when the cache
\* was trimmed, or once, for a post first listed with its image's address and later without
\* (PixelfedRedis.py 240-256, AvideoRedis.py 325-350, PermStoreWB.py 67-76, 262-298,
\* PixelfedSelenium.py 109-118, 698-732).
THEOREM NoneHandedTwice == Spec => []HandedOnce
<1>1. ASSUME PollInv PROVE HandedOnce
  <2>1. ASSUME NEW r \in Readers, NEW p \in Posts
        PROVE  \/ handed[r][p] <= 1
               \/ kind = "pixelfedSelenium" /\ (trimmed \/ (handed[r][p] = 2 /\ Page(p) \in cache))
    <3>1. handed[r][p] \in Nat
      BY <1>1 DEF PollInv, DataInv
    <3>2. CASE p \notin HandedBy(r)
      BY <3>1, <3>2 DEF HandedBy
    <3>3. CASE p \in HandedBy(r)
      <4>1. kind \in {"pixelfed", "avideo", "permstore", "pixelfedSelenium", "avideoSelenium"}
        BY <1>1, PollingAssumption DEF PollInv, DataInv
      <4>2. CASE ByPlace
        <5>1. handed[r][p] = 1
          BY <1>1, <3>3, <4>2 DEF PollInv, PlaceInv, UnderInv
        <5>2. QED
          BY <5>1
      <4>3. CASE kind = "permstore"
        <5>1. handed[r][p] = 1
          BY <1>1, <3>3, <4>3 DEF PollInv, PermInv
        <5>2. QED
          BY <5>1
      <4>4. CASE Browser /\ ~trimmed
        <5>1. Known(p, handed[r][p], todo[r], cache)
          BY <1>1, <4>4 DEF PollInv, BrowserInv
        <5>2. kind # "pixelfedSelenium" => Page(p) \notin cache
          BY <1>1, PagesApart DEF PollInv, BrowserInv
        <5>3. QED
          BY <5>1, <5>2 DEF Known
      <4>5. CASE Browser /\ trimmed
        BY <1>1, <4>5 DEF PollInv, BrowserInv, Browser
      <4>6. QED
        BY <4>1, <4>2, <4>3, <4>4, <4>5 DEF ByPlace, Browser
    <3>4. QED
      BY <3>2, <3>3
  <2>2. QED
    BY <2>1 DEF HandedOnce
<1>2. QED
  BY <1>1, PollInvariance, PTL

=============================================================================

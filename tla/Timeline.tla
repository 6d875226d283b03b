------------------------------ MODULE Timeline ------------------------------
(***************************************************************************)
(* The user model of the decomposed channel: each link has a model of its  *)
(* own that makes up a timeline of fetches and posts and keeps it; the     *)
(* component merges them for the component manager, which asks for one     *)
(* window after another while links come and go.                           *)
(*                                                                         *)
(* Links are numbers, as std::set keeps them in order.  Time is counted in *)
(* WAIT_TIME, and in the second by which new links come later.             *)
(***************************************************************************)
EXTENDS Integers, Sequences, SequencesExt, FiniteSetsExt

CONSTANTS
  LinkIds,     \* numbers
  MaxTime,     \* bound: the end of the last window
  MaxActions,  \* bound: the actions made up
  NoAction     \* no action

ASSUME TimelineAssumption == LinkIds \subseteq Nat /\ {MaxTime, MaxActions} \subseteq Nat

VARIABLES
  linkUserModels,  \* the links with a model
  cachedTimeline,  \* of each link, in order
  addedLinks,
  nextActionId,
  start,           \* the start of the window asked for last
  first,           \* the first action of the timeline returned last, unless its link is gone
  crashed          \* front() of an empty timeline was read

tvars == <<linkUserModels, cachedTimeline, addedLinks, nextActionId, start, first, crashed>>

TInit ==
  /\ linkUserModels = {} /\ addedLinks = {}
  /\ cachedTimeline = [l \in LinkIds |-> <<>>]
  /\ nextActionId = 0
  /\ start = 0
  /\ first = NoAction
  /\ crashed = FALSE

KnownLinks == linkUserModels \ addedLinks

Forget(l) ==
  /\ cachedTimeline' = [cachedTimeline EXCEPT ![l] = <<>>]
  /\ first' = IF first # NoAction /\ first.link = l THEN NoAction ELSE first

\* A link that is there gets another model.
AddLink(l) ==
  /\ linkUserModels' = linkUserModels \union {l}
  /\ addedLinks' = addedLinks \union {l}
  /\ Forget(l)
  /\ UNCHANGED <<nextActionId, start, crashed>>

RemoveLink(l) ==
  /\ l \in linkUserModels
  /\ linkUserModels' = linkUserModels \ {l}
  /\ Forget(l)
  /\ UNCHANGED <<addedLinks, nextActionId, start, crashed>>

-----------------------------------------------------------------------------
(* The timeline of a link *)

\* Of the three actions of the Markov model, all of which may follow each other, a wait passes time;
\* at most one of the others is made at a time, where the code may make several.
UserActionsAt(from, end) == SUBSET (from..end - 1)

Kept(l, s) == SelectSeq(cachedTimeline[l], LAMBDA a : a.at >= s)

From(l, s) == IF Kept(l, s) = <<>> THEN s ELSE Last(Kept(l, s)).at

\* The timeline of link l from s on, with actions at the given times that are numbered from id on.
Extended(l, s, times, id) ==
  LET sorted == SetToSortSeq(times, <)
  IN Kept(l, s) \o [k \in DOMAIN sorted |-> [link |-> l, at |-> sorted[k], id |-> id + k]]

-----------------------------------------------------------------------------
(* getTimeline *)

\* The timelines of the links of a sequence, each from its own time on, and the last number given.
ExtendAll(links, from, times) ==
  FoldLeft(LAMBDA acc, l : [cache |-> [acc.cache EXCEPT ![l] = Extended(l, from[l], times[l], acc.id)],
                            id |-> acc.id + Cardinality(times[l])],
           [cache |-> cachedTimeline, id |-> nextActionId], links)

Earlier(a, b) == a.at < b.at \/ (a.at = b.at /\ a.id < b.id)

FirstOf(cache, links) ==
  LET firsts == {cache[l][1] : l \in {l \in links : cache[l] # <<>>}}
  IN IF firsts = {} THEN NoAction ELSE CHOOSE a \in firsts : \A b \in firsts \ {a} : Earlier(a, b)

\* Mutant: new links start with the window.
AddedStart(s, known) == s

\* New links begin after the first action of the others.
TimeAfterEarliest(s, known) == IF known = NoAction THEN s ELSE known.at + 1

\* Links that are still in addedLinks without having a model: at() throws at the first.
Reached == {l \in addedLinks : \A k \in addedLinks \ linkUserModels : l < k}

\* The known links come in any order, the added ones in theirs.
GetTimeline(s, e) ==
  /\ ~crashed
  /\ \E known \in SetToSeqs(KnownLinks),
        times \in [linkUserModels -> SUBSET (s..e - 1)] :
       LET all == SetToSortSeq(Reached, <)
           olds == [l \in LinkIds |-> s]
           ofKnown == ExtendAll(known, olds, times)
           later == TimeAfterEarliest(s, FirstOf(ofKnown.cache, KnownLinks))
           from == [l \in LinkIds |-> IF l \in addedLinks THEN later ELSE s]
           ofAll == ExtendAll(known \o all, from, times)
       IN /\ \A l \in KnownLinks : times[l] \in UserActionsAt(From(l, s), e)
          /\ \A l \in Reached : times[l] \in UserActionsAt(From(l, later), e)
          /\ \A l \in (linkUserModels \intersect addedLinks) \ Reached : times[l] = {}
          /\ ofAll.id <= MaxActions
          /\ start' = s
          /\ IF \E l \in KnownLinks : ofKnown.cache[l] = <<>>
             THEN crashed' = TRUE /\ UNCHANGED <<cachedTimeline, nextActionId, addedLinks, first>>
             ELSE /\ cachedTimeline' = ofAll.cache /\ nextActionId' = ofAll.id
                  /\ IF addedLinks \subseteq linkUserModels
                     THEN addedLinks' = {} /\ first' = FirstOf(ofAll.cache, linkUserModels)
                     ELSE UNCHANGED <<addedLinks, first>>
                  /\ UNCHANGED crashed
  /\ UNCHANGED linkUserModels

\* The component manager asks for windows that move on.
TNext ==
  \/ \E l \in LinkIds : AddLink(l) \/ RemoveLink(l)
  \/ \E s \in start..MaxTime - 1 : \E e \in s + 1..MaxTime : GetTimeline(s, e)

TimelineSpec == TInit /\ [][TNext]_tvars

-----------------------------------------------------------------------------
(* Properties *)

\* "The ComponentManager requires the first action in the timeline to have not changed since the
\* last time the timeline was generated" (PluginCommsTwoSixStubUserModel.cpp 69-72): while it is in
\* the window and its link lives it stays the first, unless a link that was new had no action in
\* its first window; that one begins with the next window.
FirstActionStays ==
  [][first # NoAction /\ first' \notin {NoAction, first} =>
       first.at < start' \/ \E l \in KnownLinks : cachedTimeline[l] = <<>>]_tvars

=============================================================================

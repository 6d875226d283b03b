----------------------------- MODULE UserModel ------------------------------
(***************************************************************************)
(* The user model of a whiteboard, which says whether more may be posted:  *)
(* the counters of actions and items, the samples of the save period, and  *)
(* the tracker thread that turns the number of samples into a state.       *)
(*                                                                         *)
(* The whiteboards call trackAdd, without an id, and never trackRemove:    *)
(* both the ids and the removals are left out.                             *)
(***************************************************************************)
EXTENDS Integers, Sequences

CONSTANTS
  MaxActions,   \* maxActions, the limit of all actions
  MaxPActions,  \* maxPeriodActions, the limit of those of a save period
  MaxItems,     \* maxItems
  SavePeriod,   \* in units of time
  MaxPosts      \* bound: the posts of a behaviour

ASSUME UserModelAssumption ==
  {MaxActions, MaxPActions, MaxItems, SavePeriod, MaxPosts} \subseteq Nat \ {0}

VARIABLES
  states,   \* __states
  actions,  \* numActions
  items,    \* numItems
  samples,  \* __samples: their ages
  tracker,  \* the tracker thread: "none", "runs" (is about to look at the samples),
            \* "looked" (and does not wait yet), "waits"
  posting,  \* a post of so many items, begun while the model was good, is not yet tracked; else 0
  posts     \* posts begun

uvars == <<states, actions, items, samples, tracker, posting, posts>>

UInit ==
  /\ states = {"OK"}
  /\ actions = 0
  /\ items = 0
  /\ samples = <<>>
  /\ tracker = "none"
  /\ posting = 0
  /\ posts = 0

\* isGood
Good == "OK" \in states

AddState(set, s) == IF s \in set THEN set ELSE (set \ {"OK"}) \union {s}

\* Mutant: OK does not return.
RemoveOnly(set, s) == set \ {s}

\* OK returns when the last of the others is removed.
RemoveState(set, s) ==
  IF s \notin set THEN set ELSE IF set = {s} THEN {"OK"} ELSE set \ {s}

Limit(set, passed, s) == IF passed THEN AddState(set, s) ELSE set

\* Mutant: a sample that is as old as the period is kept for ever.
NeverAged(age) == FALSE

\* A sample is kept to the end of the period.
Aged(age) == age > SavePeriod

-----------------------------------------------------------------------------

\* sendMsg of a whiteboard that asks its user model first.
BeginPost ==
  /\ posting = 0
  /\ posts < MaxPosts
  /\ Good
  /\ posting' \in 1..2
  /\ posts' = posts + 1
  /\ UNCHANGED <<states, actions, items, samples, tracker>>

\* The tracker is woken when it waits; otherwise it does not hear of the sample.
NotifyTracker == tracker' = IF tracker = "looked" THEN tracker ELSE "runs"

TrackAdd ==
  /\ posting > 0
  /\ posting' = 0
  /\ \/ /\ Good
        /\ actions' = actions + 1
        /\ items' = items + posting
        /\ states' = Limit(Limit(states, actions' > MaxActions, "MAX_ACTION_CNT"),
                           items' > MaxItems, "MAX_ITEM_CNT")
        /\ samples' = Append(samples, 0)
        /\ NotifyTracker
     \/ ~Good /\ UNCHANGED <<states, actions, items, samples, tracker>>
  /\ UNCHANGED posts

\* A round of the tracker ages samples out and sets or clears the rate.
TrackerLooks ==
  /\ tracker = "runs"
  /\ samples' = SelectSeq(samples, LAMBDA age : ~Aged(age))
  /\ states' = IF Len(samples') < MaxPActions THEN RemoveState(states, "MAX_ACTION_RATE")
                                              ELSE AddState(states, "MAX_ACTION_RATE")
  /\ tracker' = "looked"
  /\ UNCHANGED <<actions, items, posting, posts>>

\* Between its two conditions the tracker hears no notification.
TrackerWaits ==
  /\ tracker = "looked"
  /\ tracker' = "waits"
  /\ UNCHANGED <<states, actions, items, samples, posting, posts>>

\* The wait is over after a sampling period.
TrackerTimesOut ==
  /\ tracker = "waits"
  /\ tracker' = "runs"
  /\ UNCHANGED <<states, actions, items, samples, posting, posts>>

Tick ==
  /\ samples # <<>>
  /\ samples' = [n \in DOMAIN samples |-> IF samples[n] > SavePeriod THEN samples[n] ELSE samples[n] + 1]
  /\ UNCHANGED <<states, actions, items, tracker, posting, posts>>

UNext == BeginPost \/ TrackAdd \/ TrackerLooks \/ TrackerWaits \/ TrackerTimesOut \/ Tick

\* The tracker runs, and time passes.
TrackerSteps == TrackerLooks \/ TrackerWaits \/ TrackerTimesOut
UserModelFairness == WF_uvars(TrackerSteps) /\ WF_uvars(Tick)

UserModelSpec == UInit /\ [][UNext]_uvars /\ UserModelFairness

-----------------------------------------------------------------------------
(* Properties *)

\* The states say what the counters and the last look of the tracker say: a passed limit of actions
\* or items is never forgotten, none is set without cause, and OK stands alone; the rate can be
\* behind only until the tracker looks again (UserModel.py 282-299, 326-364, 383-419).
StatesFollowCounters ==
  /\ "OK" \in states <=> states = {"OK"}
  /\ states # {}
  /\ "MAX_ACTION_CNT" \in states <=> actions > MaxActions
  /\ "MAX_ITEM_CNT" \in states <=> items > MaxItems
  /\ tracker = "none" => "MAX_ACTION_RATE" \notin states
  /\ actions <= MaxActions + 1 /\ items <= MaxItems + 2

\* A rate at its limit is acted on, though the notification of the last sample may be missed, and
\* is forgotten when the samples have aged (UserModel.py 326-381).
RateIsTracked ==
  /\ Len(samples) >= MaxPActions ~> ("MAX_ACTION_RATE" \in states \/ Len(samples) < MaxPActions)
  /\ "MAX_ACTION_RATE" \in states ~> "MAX_ACTION_RATE" \notin states

=============================================================================

------------------------------- MODULE Covers -------------------------------
(***************************************************************************)
(* IOManager::Send and the covers it hides a message in: the segments are  *)
(* cut to the capacities of covers drawn at random, and a segment that the *)
(* codec refuses is tried with other covers until the draw comes to the    *)
(* one it was cut for.                                                     *)
(*                                                                         *)
(* Sizes are in a unit of which _RD_SEG_LEN, the header of a segment, is a *)
(* multiple.  The codec's program refuses what its cover cannot hold, and  *)
(* may refuse anything.                                                    *)
(***************************************************************************)
EXTENDS Integers, Sequences, Sequencing

CONSTANTS
  Media,     \* the paths of the capacities file
  Size,      \* their capacities there
  Maximum,   \* "maximum" of the codec's specification, 0 when there is none
  Header,    \* _RD_SEG_LEN
  SizeT,     \* the number of values of a size_t
  MaxLength, \* bound: the length of a message
  NoMedia    \* no cover

ASSUME CoversAssumption ==
  /\ Size \in [Media -> Nat] /\ NoMedia \notin Media
  /\ {Header, SizeT} \subseteq Nat \ {0} /\ {Maximum, MaxLength} \subseteq Nat

VARIABLES
  activeMediaPaths, usedMediaPaths,
  sending,     \* "none", "cuts", "encodes", "posts"
  length,      \* nMsgIn
  rest,        \* what of it is in no segment yet
  rdEncoders,  \* the segments, each with its cover
  i,           \* the segment at hand
  mediaPath    \* the cover it was cut for

kvars == <<activeMediaPaths, usedMediaPaths, sending, length, rest, rdEncoders, i, mediaPath>>

\* The constructor of MediaPaths: a path without a capacity is no cover, one above the maximum is cut.
Usable == {m \in Media : Size[m] > 0}

RoomOf(m) == IF Maximum > 0 /\ Size[m] > Maximum THEN Maximum ELSE Size[m]

KInit ==
  /\ activeMediaPaths = Usable /\ usedMediaPaths = {}
  /\ sending = "none"
  /\ length = 0 /\ rest = 0
  /\ rdEncoders = <<>>
  /\ i = 0 /\ mediaPath = NoMedia

-----------------------------------------------------------------------------

\* Mutant: a cover is drawn from all, whatever was drawn before.
DrawAgain(m) == m \in activeMediaPaths /\ UNCHANGED <<activeMediaPaths, usedMediaPaths>>

\* getRandom: the covers change places when every one was drawn.
Draw(m) ==
  /\ m \in activeMediaPaths
  /\ IF activeMediaPaths = {m}
     THEN activeMediaPaths' = usedMediaPaths \union {m} /\ usedMediaPaths' = {}
     ELSE activeMediaPaths' = activeMediaPaths \ {m} /\ usedMediaPaths' = usedMediaPaths \union {m}

Send(n) ==
  /\ sending = "none"
  /\ sending' = "cuts"
  /\ length' = n /\ rest' = n
  /\ rdEncoders' = <<>>
  /\ UNCHANGED <<activeMediaPaths, usedMediaPaths, i, mediaPath>>

\* Mutant: the header is not counted.
WholeCapacity(m) == RoomOf(m)

\* imgCap: unsigned.
ImgCap(m) == (RoomOf(m) - Header) % SizeT

\* A cover without room is passed over.
Cut(m) ==
  /\ sending = "cuts"
  /\ Draw(m)
  /\ LET segLen == IF rest > ImgCap(m) THEN ImgCap(m) ELSE rest
     IN IF ImgCap(m) = 0 THEN UNCHANGED <<rdEncoders, rest>>
        ELSE rdEncoders' = Append(rdEncoders, [media |-> m, segLen |-> segLen]) /\ rest' = rest - segLen
  /\ IF rest' > 0 THEN UNCHANGED <<sending, i, mediaPath>>
     ELSE sending' = "encodes" /\ i' = 1 /\ mediaPath' = rdEncoders'[1].media
  /\ UNCHANGED length

Holds(e) == e.segLen + Header <= RoomOf(e.media)

EncodeSucceeds ==
  /\ sending = "encodes" /\ Holds(rdEncoders[i])
  /\ sending' = "posts"
  /\ UNCHANGED <<activeMediaPaths, usedMediaPaths, length, rest, rdEncoders, i, mediaPath>>

\* The next segment, or the return.
NextSegment ==
  IF i < Len(rdEncoders)
  THEN i' = i + 1 /\ mediaPath' = rdEncoders[i + 1].media /\ sending' = "encodes" /\ UNCHANGED rdEncoders
  ELSE i' = 0 /\ mediaPath' = NoMedia /\ sending' = "none" /\ rdEncoders' = <<>>

\* The draw of the segment's own cover ends the tries.
EncodeFails(m) ==
  /\ sending = "encodes"
  /\ Draw(m)
  /\ IF m = mediaPath THEN NextSegment
     ELSE rdEncoders' = [rdEncoders EXCEPT ![i].media = m] /\ UNCHANGED <<sending, i, mediaPath>>
  /\ UNCHANGED <<length, rest>>

\* The callback, which lets other threads run.
Posted ==
  /\ sending = "posts"
  /\ NextSegment
  /\ UNCHANGED <<activeMediaPaths, usedMediaPaths, length, rest>>

\* Another thread's Send draws from the same codec's covers.
OtherDraws(m) ==
  /\ sending = "posts"
  /\ Draw(m)
  /\ UNCHANGED <<sending, length, rest, rdEncoders, i, mediaPath>>

SendSteps == EncodeSucceeds \/ Posted \/ \E m \in Usable : Cut(m) \/ EncodeFails(m)

KNext ==
  \/ \E n \in 1..MaxLength : Send(n)
  \/ \E m \in Usable : OtherDraws(m)
  \/ SendSteps

CoversSpec == KInit /\ [][KNext]_kvars /\ WF_kvars(SendSteps)

-----------------------------------------------------------------------------
(* Properties *)

\* The segments are the message, and one that was not tried yet fits the cover it was cut for; but
\* for a cover that is smaller than a header, whose room wraps around (IOManager.cpp 1039-1051).
SegmentsFit ==
  sending \in {"encodes", "posts"} =>
    /\ Total([j \in DOMAIN rdEncoders |-> rdEncoders[j].segLen]) = length
    /\ \A j \in i + 1..Len(rdEncoders) : Holds(rdEncoders[j]) \/ RoomOf(rdEncoders[j].media) < Header

\* Send returns although it draws covers until it has drawn a certain one: every cover comes up
\* once before any comes again.  It does not when no cover has room for more than a header
\* (IOManager.cpp 1024-1095, MediaPaths::getRandom).
SendReturns == sending = "cuts" ~> (sending = "none" \/ \A m \in Usable : ImgCap(m) = 0)

=============================================================================

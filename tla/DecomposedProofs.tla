--------------------------- MODULE DecomposedProofs ---------------------------
(***************************************************************************)
(* Theorems about the codecs and the decomposed channel: what a codec's    *)
(* program answers (Codec), how Send cuts a message (Covers), and the link *)
(* between its queue and the server (Transport).                           *)
(***************************************************************************)
EXTENDS Transport, Codec, Covers, SequencingProofs, TLAPS

-----------------------------------------------------------------------------
(* Codec: all or nothing *)

CountsOK ==
  /\ nMsgOut \in Nat /\ outPipe \in Nat /\ written \in Nat
  /\ errPipe \in Nat

\* As long as the loop runs, what the program wrote is in the output or in the pipe.
OutputInv == loop \in {"dispatch", "write"} => nMsgOut + outPipe = written

\* The loop outlives its program, which therefore writes nothing after the end of the loop.
OutlivesInv == loop = "ended" => program \notin Habits

\* The pass-through has no program.
PassThruInv == codec \in {"none", "passthru"} => program = "none" /\ loop \in {"none", "ended"}

CIInv == CountsOK /\ OutputInv /\ OutlivesInv /\ PassThruInv /\ AnswerIsWhole

\* A run starts with nothing written, and only of a codec that is not the pass-through.
LEMMA RunStep ==
  ASSUME NEW n, Run(n), codec' \notin {"none", "passthru"}
  PROVE  CIInv'
<1>1. nMsgOut' = 0 /\ outPipe' = 0 /\ written' = 0 /\ errPipe' = 0
  BY DEF Run
<1>2. \/ loop' = "dispatch"
      \/ loop' = "ended" /\ program' = "none"
  BY DEF Run
<1>3. QED
  BY <1>1, <1>2 DEF CIInv, CountsOK, OutputInv, OutlivesInv, PassThruInv, AnswerIsWhole, Habits

\* The steps of the event loop.
LEMMA LoopStep ==
  ASSUME CIInv, LoopSteps
  PROVE  CIInv'
<1> USE DEF CIInv, CountsOK, OutputInv, OutlivesInv, PassThruInv, AnswerIsWhole
<1>1. CASE WriteNothing
  BY <1>1 DEF WriteNothing
<1>2. CASE StartWrite
  BY <1>2 DEF StartWrite
<1>3. CASE WriteChunk
  <2>1. loop' \in {"dispatch", "write"} /\ UNCHANGED <<nMsgOut, outPipe, errPipe, written, result>>
    BY <1>3 DEF WriteChunk
  <2>2. QED
    BY <1>3, <2>1 DEF WriteChunk
<1>4. CASE WriteFails
  BY <1>4 DEF WriteFails
<1>5. CASE ReadOut
  BY <1>5 DEF ReadOut
<1>6. CASE ReadErr
  BY <1>6 DEF ReadErr
<1>7. CASE EndLibevent
  <2>1. program = "exited" /\ program' = "exited" /\ loop' = "ended"
    BY <1>7 DEF EndLibevent, AtEnd
  <2>2. outPipe = 0 \/ errFirst'
    <3>1. outPipe # 0 => errPipe = 0 /\ outPipe > 0
      BY <1>7 DEF EndLibevent, AtEnd
    <3>2. errFirst' = (errPipe = 0 /\ outPipe > 0)
      BY <1>7 DEF EndLibevent
    <3>3. QED
      BY <3>1, <3>2
  <2>3. result' = exitStatus /\ nMsgOut' = (IF exitStatus = 0 THEN nMsgOut ELSE 0)
    BY <1>7 DEF EndLibevent, Returned
  <2>4. nMsgOut + outPipe = written /\ written' = written
    BY <1>7 DEF EndLibevent
  <2>5. AnswerIsWhole'
    BY <2>2, <2>3, <2>4
  <2>6. CountsOK'
    BY <1>7, <2>3 DEF EndLibevent
  <2>7. PassThruInv'
    BY <1>7 DEF EndLibevent
  <2>8. QED
    BY <2>1, <2>5, <2>6, <2>7 DEF Habits
<1>8. QED
  BY <1>1, <1>2, <1>3, <1>4, <1>5, <1>6, <1>7 DEF LoopSteps

\* The steps of the program.
LEMMA ProgramStep ==
  ASSUME CIInv, ProgramSteps \/ Fail
  PROVE  CIInv'
<1> USE DEF CIInv, CountsOK, OutputInv, OutlivesInv, PassThruInv, AnswerIsWhole, Running, Habits
<1>1. CASE ReadIn
  BY <1>1 DEF ReadIn
<1>2. CASE SeeEnd
  BY <1>2 DEF SeeEnd
<1>3. CASE WriteOut
  BY <1>3 DEF WriteOut
<1>4. CASE WriteErr
  BY <1>4 DEF WriteErr
<1>5. ASSUME NEW s, ExitWith(s)
      PROVE  CIInv'
  BY <1>5 DEF ExitWith
<1>6. QED
  BY <1>1, <1>2, <1>3, <1>4, <1>5 DEF ProgramSteps, Finish, Fail

\* Every call makes a codec, starts a run, or is the pass-through's copy.
LEMMA CallStep ==
  ASSUME CIInv, Calls
  PROVE  CIInv'
<1> DEFINE Made == run' = run /\ (codec' \in {"none", "passthru"} => codec = "none")
<1>1. CASE Made
  BY <1>1 DEF CIInv, CountsOK, OutputInv, OutlivesInv, PassThruInv, AnswerIsWhole, run
<1>2. CASE NamePassThru \/ ConstructBuilder \/ ConstructEncoder
  <2>1. Made
    BY <1>2 DEF NamePassThru, ConstructBuilder, ConstructEncoder, Verdict
  <2>2. QED
    BY <1>1, <2>1
<1>3. CASE InitCommand
  <2>1. codec' = "initializing" /\ Run(0)
    BY <1>3 DEF InitCommand
  <2>2. QED
    BY <2>1, RunStep
<1>4. ASSUME NEW n \in 0..MaxIn, Convert(n)
      PROVE  CIInv'
  <2>1. codec' = "good" /\ Run(n)
    BY <1>4 DEF Convert
  <2>2. QED
    BY <2>1, RunStep
<1>5. ASSUME NEW n \in 0..MaxIn, PassThru(n)
      PROVE  CIInv'
  <2>1. n \in Nat
    BY CodecAssumption
  <2>2. loop' = "ended" /\ nMsgOut' = n /\ written' = n /\ result' = IF n = 0 THEN -1 ELSE 0
    BY <1>5 DEF PassThru
  <2>3. /\ codec = "passthru"
        /\ UNCHANGED <<codec, program, outPipe, errPipe, errFirst>>
    BY <1>5 DEF PassThru
  <2>4. CountsOK' /\ OutputInv' /\ AnswerIsWhole'
    BY <2>1, <2>2, <2>3 DEF CIInv, CountsOK, OutputInv, AnswerIsWhole
  <2>5. OutlivesInv' /\ PassThruInv'
    BY <2>2, <2>3 DEF CIInv, OutlivesInv, PassThruInv, Habits
  <2>6. QED
    BY <2>4, <2>5 DEF CIInv
<1>6. QED
  BY <1>2, <1>3, <1>4, <1>5 DEF Calls, Encode, Decode, EncodeBytes, DecodeBytes

\* The strengthened invariant of a codec (_RunCodec and its callbacks).
THEOREM CodecInvariance == CodecSpec => []CIInv
<1>1. CInit => CIInv
  BY DEF CInit, CIInv, CountsOK, OutputInv, OutlivesInv, PassThruInv, AnswerIsWhole, Habits
<1>2. CIInv /\ [CNext]_cvars => CIInv'
  <2>1. ASSUME CIInv, UNCHANGED cvars
        PROVE  CIInv'
    BY <2>1 DEF CIInv, CountsOK, OutputInv, OutlivesInv, PassThruInv, AnswerIsWhole, cvars, run
  <2>2. QED
    BY <2>1, CallStep, LoopStep, ProgramStep DEF CNext
<1>3. QED
  BY <1>1, <1>2, PTL DEF CodecSpec

\* A codec that reports success hands over all its program wrote, unless the end of its stderr was
\* read first, and one that fails hands over nothing (_EventInFn, _endLibevent, _RunCodec).
THEOREM AnswersAreWhole == CodecSpec => []AnswerIsWhole
<1>1. CIInv => AnswerIsWhole
  BY DEF CIInv
<1>2. QED
  BY <1>1, CodecInvariance, PTL

-----------------------------------------------------------------------------
(* The segments of a message are the message *)

SegLens(s) == [j \in DOMAIN s |-> s[j].segLen]

Segments == [media : Media, segLen : Nat]

FitsItsCover(e) == Holds(e) \/ RoomOf(e.media) < Header

\* What is cut and what is left is the message, and what is still to be tried fits.
CutInv ==
  /\ length \in Nat /\ rest \in Nat /\ rdEncoders \in Seq(Segments) /\ i \in Nat
  /\ sending \in {"cuts", "encodes", "posts"} => Total(SegLens(rdEncoders)) + rest = length
  /\ sending = "cuts" => \A j \in DOMAIN rdEncoders : FitsItsCover(rdEncoders[j])
  /\ sending \in {"encodes", "posts"} =>
       rest = 0 /\ \A j \in DOMAIN rdEncoders : j > i => FitsItsCover(rdEncoders[j])

LEMMA Remainder ==
  ASSUME NEW x \in Nat, NEW n \in Nat \ {0}
  PROVE  x % n \in Nat /\ x % n <= x
OBVIOUS

LEMMA Rooms ==
  ASSUME NEW m \in Media
  PROVE  RoomOf(m) \in Nat /\ ImgCap(m) \in Nat /\ (RoomOf(m) >= Header => ImgCap(m) + Header <= RoomOf(m))
<1>1. RoomOf(m) \in Nat /\ Header \in Nat /\ SizeT \in Nat \ {0}
  BY CoversAssumption DEF RoomOf
<1>2. ImgCap(m) \in Nat
  BY <1>1 DEF ImgCap
<1>3. ASSUME RoomOf(m) >= Header PROVE ImgCap(m) + Header <= RoomOf(m)
  <2>1. RoomOf(m) - Header \in Nat
    BY <1>1, <1>3
  <2>2. ImgCap(m) <= RoomOf(m) - Header
    BY <1>1, <2>1, Remainder DEF ImgCap
  <2>3. QED
    BY <1>1, <1>2, <2>2
<1>4. QED
  BY <1>1, <1>2, <1>3

LEMMA SegLensType ==
  ASSUME NEW s \in Seq(Segments)
  PROVE  SegLens(s) \in Seq(Int)
<1>1. \A e \in Segments : e.segLen \in Int
  BY DEF Segments
<1>2. Len(s) \in Nat /\ DOMAIN s = 1..Len(s) /\ \A j \in 1..Len(s) : s[j] \in Segments
  OBVIOUS
<1>3. \A j \in 1..Len(s) : s[j].segLen \in Int
  BY <1>1, <1>2
<1>4. QED
  BY <1>2, <1>3 DEF SegLens

\* A segment more is the sum of its length more.
LEMMA SegLensAppend ==
  ASSUME NEW s \in Seq(Segments), NEW e \in Segments
  PROVE  /\ Total(SegLens(s)) \in Int
         /\ Total(SegLens(Append(s, e))) = Total(SegLens(s)) + e.segLen
<1> DEFINE z == SegLens(s)
<1>1. Len(s) \in Nat /\ DOMAIN s = 1..Len(s)
  OBVIOUS
<1>2. z \in Seq(Int) /\ DOMAIN z = 1..Len(s) /\ \A j \in 1..Len(s) : z[j] = s[j].segLen
  BY <1>1, SegLensType DEF SegLens
<1>3. e.segLen \in Int
  BY DEF Segments
<1>4. /\ DOMAIN Append(s, e) = 1..Len(s) + 1 /\ Append(s, e)[Len(s) + 1] = e
      /\ \A j \in 1..Len(s) : Append(s, e)[j] = s[j]
  BY <1>1, AppendProperties
<1>5. SegLens(Append(s, e)) = Append(z, e.segLen)
  <2> HIDE DEF z
  <2>1. Append(z, e.segLen) = [j \in 1..Len(s) + 1 |-> IF j = Len(s) + 1 THEN e.segLen ELSE z[j]]
    BY <1>1, <1>2, <1>3
  <2>2. \A j \in 1..Len(s) + 1 : Append(s, e)[j].segLen = IF j = Len(s) + 1 THEN e.segLen ELSE z[j]
    BY <1>1, <1>2, <1>4
  <2>3. QED
    BY <1>4, <2>1, <2>2 DEF SegLens
<1> HIDE DEF z
<1>6. Total(z) \in Int /\ Total(Append(z, e.segLen)) = Total(z) + e.segLen
  BY <1>2, <1>3, TotalOfAppend
<1>7. QED
  BY <1>5, <1>6 DEF z

LEMMA CutStart == KInit => CutInv
BY DEF KInit, CutInv

\* The next segment is looked at, or the message is forgotten.
LEMMA NextSegmentStep ==
  ASSUME CutInv, sending \in {"encodes", "posts"}, NextSegment, UNCHANGED <<length, rest>>
  PROVE  CutInv'
<1>1. CASE i < Len(rdEncoders)
  BY <1>1 DEF CutInv, NextSegment
<1>2. CASE ~(i < Len(rdEncoders))
  BY <1>2 DEF CutInv, NextSegment
<1>3. QED
  BY <1>1, <1>2

LEMMA CutStep == CutInv /\ [KNext]_kvars => CutInv'
<1> SUFFICES ASSUME CutInv, [KNext]_kvars PROVE CutInv'
  OBVIOUS
<1>1. ASSUME NEW n \in 1..MaxLength, Send(n) PROVE CutInv'
  <2>1. n \in Nat
    BY CoversAssumption
  <2>2. SegLens(<<>>) = <<>> /\ <<>> \in Seq(Int) /\ 0 \in Int /\ DOMAIN <<>> = {} /\ <<>> \in Seq(Segments)
    BY DEF SegLens
  <2>3. Total(<<>>) = 0
    BY <2>2, TotalOfAppend
  <2>4. QED
    BY <1>1, <2>1, <2>2, <2>3 DEF Send, CutInv
<1>2. ASSUME NEW m \in Usable, Cut(m) PROVE CutInv'
  <2> DEFINE cap == ImgCap(m)
             segLen == IF rest > cap THEN cap ELSE rest
             e == [media |-> m, segLen |-> segLen]
  <2>1. m \in Media /\ cap \in Nat /\ RoomOf(m) \in Nat /\ Header \in Nat
        /\ (RoomOf(m) >= Header => cap + Header <= RoomOf(m))
    BY Rooms, CoversAssumption DEF Usable
  <2>2. /\ sending = "cuts" /\ length' = length
        /\ length \in Nat /\ rest \in Nat /\ rdEncoders \in Seq(Segments) /\ i \in Nat
        /\ Total(SegLens(rdEncoders)) + rest = length
        /\ \A j \in DOMAIN rdEncoders : FitsItsCover(rdEncoders[j])
    BY <1>2 DEF Cut, CutInv
  <2>3. /\ IF cap = 0 THEN UNCHANGED <<rdEncoders, rest>>
           ELSE rdEncoders' = Append(rdEncoders, e) /\ rest' = rest - segLen
        /\ IF rest' > 0 THEN UNCHANGED <<sending, i>> ELSE sending' = "encodes" /\ i' = 1
    BY <1>2 DEF Cut
  <2>4. segLen \in Nat /\ segLen <= cap /\ segLen <= rest
    <3> HIDE DEF cap
    <3>1. QED
      BY <2>1, <2>2
  <2>5. e \in Segments /\ e.segLen = segLen /\ e.media = m
    <3> HIDE DEF segLen
    <3>1. QED
      BY <2>1, <2>4 DEF Segments
  <2>6. FitsItsCover(e)
    <3> HIDE DEF e, segLen, cap
    <3>1. CASE RoomOf(m) >= Header
      BY <2>1, <2>4, <2>5, <3>1 DEF FitsItsCover, Holds
    <3>2. CASE RoomOf(m) < Header
      BY <2>5, <3>2 DEF FitsItsCover
    <3>3. QED
      BY <2>1, <3>1, <3>2
  <2> HIDE DEF e, segLen, cap
  <2>7. /\ rest' \in Nat /\ rdEncoders' \in Seq(Segments)
        /\ Total(SegLens(rdEncoders')) + rest' = length'
        /\ \A j \in DOMAIN rdEncoders' : FitsItsCover(rdEncoders'[j])
    <3>1. CASE cap = 0
      BY <2>2, <2>3, <3>1
    <3>2. CASE cap # 0
      <4>1. rdEncoders' = Append(rdEncoders, e) /\ rest' = rest - segLen
        BY <2>3, <3>2
      <4>2. /\ Total(SegLens(rdEncoders)) \in Int
            /\ Total(SegLens(rdEncoders')) = Total(SegLens(rdEncoders)) + segLen
        BY <2>2, <2>5, <4>1, SegLensAppend
      <4>3. rest' \in Nat /\ Total(SegLens(rdEncoders')) + rest' = length'
        BY <2>2, <2>4, <4>1, <4>2
      <4>4. /\ DOMAIN rdEncoders' = 1..Len(rdEncoders) + 1 /\ rdEncoders'[Len(rdEncoders) + 1] = e
            /\ \A j \in 1..Len(rdEncoders) : rdEncoders'[j] = rdEncoders[j]
            /\ DOMAIN rdEncoders = 1..Len(rdEncoders) /\ Len(rdEncoders) \in Nat
            /\ rdEncoders' \in Seq(Segments)
        BY <2>2, <2>5, <4>1, AppendProperties
      <4>5. ASSUME NEW j \in DOMAIN rdEncoders' PROVE FitsItsCover(rdEncoders'[j])
        <5>1. j = Len(rdEncoders) + 1 \/ j \in 1..Len(rdEncoders)
          BY <4>4
        <5>2. QED
          BY <2>2, <2>6, <4>4, <5>1
      <4>6. QED
        BY <4>3, <4>4, <4>5
    <3>3. QED
      BY <3>1, <3>2
  <2>8. QED
    <3>1. CASE rest' > 0
      BY <2>2, <2>3, <2>7, <3>1 DEF CutInv
    <3>2. CASE ~(rest' > 0)
      <4>1. rest' = 0 /\ sending' = "encodes" /\ i' = 1
        BY <2>3, <2>7, <3>2
      <4>2. QED
        BY <2>2, <2>7, <4>1 DEF CutInv
    <3>3. QED
      BY <3>1, <3>2
<1>3. ASSUME NEW m \in Usable, EncodeFails(m) PROVE CutInv'
  <2>1. sending = "encodes" /\ UNCHANGED <<length, rest>>
    BY <1>3 DEF EncodeFails
  <2>2. CASE m = mediaPath
    BY <1>3, <2>1, <2>2, NextSegmentStep DEF EncodeFails
  <2>3. CASE m # mediaPath
    <3>1. rdEncoders' = [rdEncoders EXCEPT ![i].media = m] /\ UNCHANGED <<sending, i>>
      BY <1>3, <2>3 DEF EncodeFails
    <3>2. rdEncoders \in Seq(Segments) /\ DOMAIN rdEncoders = 1..Len(rdEncoders) /\ Len(rdEncoders) \in Nat
      BY DEF CutInv
    <3>3. DOMAIN rdEncoders' = DOMAIN rdEncoders /\ m \in Media
      BY <3>1 DEF Usable
    <3>4. ASSUME NEW j \in DOMAIN rdEncoders
          PROVE  /\ rdEncoders'[j] \in Segments /\ rdEncoders'[j].segLen = rdEncoders[j].segLen
                 /\ j # i => rdEncoders'[j] = rdEncoders[j]
      <4>1. rdEncoders[j] \in Segments
        BY <3>2
      <4>2. CASE j # i
        BY <3>1, <3>2, <4>1, <4>2
      <4>3. CASE j = i
        <5>1. rdEncoders'[j] = [rdEncoders[j] EXCEPT !.media = m]
          BY <3>1, <4>3
        <5>2. QED
          BY <3>3, <4>1, <4>3, <5>1 DEF Segments
      <4>4. QED
        BY <4>2, <4>3
    <3>5. rdEncoders' \in Seq(Segments)
      <4>1. rdEncoders' = [j \in 1..Len(rdEncoders) |-> rdEncoders'[j]]
        BY <3>1, <3>2, <3>3
      <4>2. QED
        BY <3>2, <3>4, <4>1
    <3>6. SegLens(rdEncoders') = SegLens(rdEncoders)
      BY <3>3, <3>4 DEF SegLens
    <3>7. \A j \in DOMAIN rdEncoders' : j > i => rdEncoders'[j] = rdEncoders[j]
      BY <3>2, <3>3, <3>4 DEF CutInv
    <3>8. QED
      BY <2>1, <3>1, <3>3, <3>5, <3>6, <3>7 DEF CutInv
  <2>4. QED
    BY <2>2, <2>3
<1>4. ASSUME Posted PROVE CutInv'
  BY <1>4, NextSegmentStep DEF Posted
<1>5. ASSUME EncodeSucceeds PROVE CutInv'
  BY <1>5 DEF EncodeSucceeds, CutInv
<1>6. ASSUME NEW m \in Usable, OtherDraws(m) PROVE CutInv'
  BY <1>6 DEF OtherDraws, CutInv
<1>7. CASE UNCHANGED kvars
  BY <1>7 DEF kvars, CutInv
<1>8. QED
  BY <1>1, <1>2, <1>3, <1>4, <1>5, <1>6, <1>7 DEF KNext, SendSteps

\* The segments of Send are the message, and one that was not tried yet fits its cover, for any
\* covers, lengths and widths of a size_t (IOManager.cpp 1024-1095).
THEOREM SegmentsMakeTheMessage == CoversSpec => []SegmentsFit
<1>1. CutInv => SegmentsFit
  <2> SUFFICES ASSUME CutInv, sending \in {"encodes", "posts"}
               PROVE  /\ Total(SegLens(rdEncoders)) = length
                      /\ \A j \in i + 1..Len(rdEncoders) : FitsItsCover(rdEncoders[j])
    BY DEF SegmentsFit, SegLens, FitsItsCover
  <2>1. Total(SegLens(rdEncoders)) = length
    <3>1. SegLens(rdEncoders) \in Seq(Int)
      BY SegLensType DEF CutInv
    <3>2. Total(SegLens(rdEncoders)) \in Int
      BY <3>1, SumsStep DEF Total
    <3>3. QED
      BY <3>2 DEF CutInv
  <2>2. ASSUME NEW j \in i + 1..Len(rdEncoders) PROVE FitsItsCover(rdEncoders[j])
    <3>1. j \in DOMAIN rdEncoders /\ j > i
      BY DEF CutInv
    <3>2. QED
      BY <3>1 DEF CutInv
  <2>3. QED
    BY <2>1, <2>2
<1>2. QED
  BY <1>1, CutStart, CutStep, PTL DEF CoversSpec

-----------------------------------------------------------------------------
(* Transport: the link's queue, its hashes and the server *)

AtWork == thread \notin {"none", "starts"}

Copies(a) == {n \in DOMAIN server : server[n] = a}

LinkTypes ==
  /\ server \in Seq(Actions \union Foreign) /\ latest \in Nat /\ saved \in Int
  /\ saved >= -1 /\ saved <= Len(server) /\ latest <= Len(server)
  /\ contentQueue \subseteq Actions /\ queued \subseteq Actions
  /\ actionQueue \in Seq(Actions \union {Fetch}) /\ action \in Actions \union {Fetch}
  /\ hashes \in Seq(Actions) /\ \A p \in unfinished : p \in Nat \ {0} /\ p <= Len(server)
  /\ done \in [Actions -> Seq({"SENT", "FAILED"})]
  /\ thread \in {"none", "starts", "wants", "empty", "waits", "acts", "ended"}

\* A post action that is queued or under way was accepted and is not reported yet, and is there once.
PendingInv ==
  thread # "none" =>
    /\ \A k \in DOMAIN actionQueue : actionQueue[k] \in Actions =>
         /\ actionQueue[k] \in queued
         /\ done[actionQueue[k]] = <<>>
         /\ thread = "acts" => actionQueue[k] # action
    /\ \A k, j \in DOMAIN actionQueue :
         k # j /\ actionQueue[k] \in Actions => actionQueue[k] # actionQueue[j]
    /\ thread = "acts" /\ action \in Actions => action \in queued /\ done[action] = <<>>

\* A copy comes from an action that was reported or given up, or of a try of this one that was not heard of; of an
\* action whose tries were all heard of there is one.
CopyInv ==
  /\ \A a \in Actions : Copies(a) # {} =>
       done[a] # <<>> \/ a \in dropped \/ (thread = "acts" /\ action = a /\ a \in unheard)
  /\ \A m, n \in DOMAIN server : server[m] = server[n] /\ server[m] \in Actions \ unheard => m = n

\* A life begins with nothing accepted, nothing given up is accepted again, and what is accepted before its thread runs is not reported.
LifeInv ==
  /\ thread = "none" => queued = {}
  /\ queued \intersect dropped = {}
  /\ thread = "starts" => \A a \in queued : done[a] = <<>>

ReportInv ==
  \A a \in Actions :
    /\ done[a] \in {<<>>, <<"SENT">>, <<"FAILED">>}
    /\ done[a] = <<"SENT">> => Copies(a) # {}
    /\ done[a] = <<"FAILED">> /\ a \notin unheard => Copies(a) = {}

\* The posts handed over are behind latest and behind what was saved, those of the predecessors too,
\* but for what was handed over by a fetch that did not come to its end.
PlacesInv ==
  /\ received \in Seq(Nat \ {0}) /\ earlier \subseteq Nat \ {0}
  /\ ~AtWork => received = <<>>
  /\ \A k \in DOMAIN received : received[k] \in unfinished \/ (received[k] <= latest /\ received[k] <= saved)
  /\ \A p \in earlier : p \in unfinished \/ (p <= saved /\ (AtWork /\ ~reread => p <= latest))

\* The hashes come in the order of the posts.
InOrder(queue) ==
  \A j, k \in DOMAIN queue : j < k =>
    /\ queue[j] # queue[k]
    /\ \A m \in Copies(queue[j]) : \A n \in Copies(queue[k]) : m < n

\* A post after place m that the link has to know has its hash.
Covered(queue, m) ==
  \A n \in DOMAIN server : n > m /\ server[n] \in queued \ (unheard \union forgotten) => server[n] \in Elems(queue)

\* As long as the link lives, a hash is of an action that was reported, or that is under way: then it
\* was hashed last.
HashInv ==
  /\ InOrder(hashes)
  /\ AtWork => Covered(hashes, latest)
  /\ \A a \in Elems(hashes) : done[a] # <<>> \/ thread = "none" \/ (thread = "acts" /\ action = a)
  /\ thread = "acts" /\ action \in contentQueue => hashes # <<>> /\ hashes[Len(hashes)] = action

TransportInv ==
  /\ LinkTypes /\ PendingInv /\ CopyInv /\ LifeInv /\ ReportInv /\ PlacesInv /\ HashInv
  /\ EachPostReadOnce /\ OwnPostsAreKnown

\* What the invariant speaks of, but for the thread's place.
linkData == <<server, saved, contentQueue, actionQueue, action, latest, hashes, done, queued, received,
              earlier, unheard, forgotten, unfinished, dropped, reread>>

\* A step that only moves the thread, and ends no post action.
LEMMA ThreadMoves ==
  ASSUME TransportInv, UNCHANGED linkData,
         \/ thread' = thread
         \/ AtWork /\ (thread = "acts" => action = Fetch) /\ thread' \in {"wants", "empty", "waits", "ended"}
  PROVE  TransportInv'
<1>1. /\ LinkTypes /\ PendingInv /\ CopyInv /\ LifeInv /\ ReportInv /\ PlacesInv /\ HashInv
      /\ EachPostReadOnce /\ OwnPostsAreKnown
  BY DEF TransportInv
<1>2. Fetch \notin Actions
  BY TransportAssumption
<1>3. LinkTypes'
  BY <1>1 DEF LinkTypes, linkData, AtWork
<1>4. PendingInv'
  BY <1>1, <1>2 DEF PendingInv, linkData, AtWork
<1>5. CopyInv'
  BY <1>1, <1>2 DEF CopyInv, Copies, linkData, AtWork
<1>6. LifeInv'
  BY <1>1 DEF LifeInv, linkData, AtWork
<1>7. ReportInv'
  BY <1>1 DEF ReportInv, Copies, linkData
<1>8. PlacesInv'
  BY <1>1 DEF PlacesInv, linkData, AtWork
<1>9. HashInv'
  <2>1. InOrder(hashes)'
    BY <1>1 DEF HashInv, InOrder, Copies, linkData
  <2>2. (AtWork => Covered(hashes, latest))'
    BY <1>1 DEF HashInv, Covered, linkData, AtWork
  <2>3. \A a \in Elems(hashes) : a \in Actions
    BY <1>1 DEF LinkTypes, Elems
  <2>4. (\A a \in Elems(hashes) : done[a] # <<>> \/ thread = "none" \/ (thread = "acts" /\ action = a))'
    BY <1>1, <1>2, <2>3 DEF HashInv, Elems, linkData, AtWork
  <2>5. (thread = "acts" /\ action \in contentQueue => hashes # <<>> /\ hashes[Len(hashes)] = action)'
    BY <1>1 DEF HashInv, linkData, AtWork
  <2>6. QED
    BY <2>1, <2>2, <2>4, <2>5 DEF HashInv
<1>10. EachPostReadOnce' /\ OwnPostsAreKnown'
  BY <1>1 DEF EachPostReadOnce, OwnPostsAreKnown, linkData
<1>11. QED
  BY <1>3, <1>4, <1>5, <1>6, <1>7, <1>8, <1>9, <1>10 DEF TransportInv

\* Each part of the invariant speaks of some of the variables only.
LEMMA LinkFrames ==
  ASSUME TransportInv
  PROVE  /\ UNCHANGED <<actionQueue, queued, done, thread, action>> => PendingInv'
         /\ UNCHANGED <<server, done, thread, action, unheard, dropped>> => CopyInv'
         /\ UNCHANGED <<thread, queued, done, dropped>> => LifeInv'
         /\ UNCHANGED <<server, done, unheard>> => ReportInv'
         /\ UNCHANGED <<thread, received, earlier, latest, saved, unfinished, reread>> => PlacesInv'
         /\ UNCHANGED <<server, hashes>> => InOrder(hashes)'
         /\ UNCHANGED <<server, hashes, latest, queued, unheard, forgotten, done, thread, action, contentQueue>> => HashInv'
         /\ UNCHANGED <<received, earlier, unfinished, reread>> => EachPostReadOnce'
         /\ UNCHANGED <<received, server, queued, unheard, forgotten>> => OwnPostsAreKnown'
<1>1. /\ PendingInv /\ CopyInv /\ LifeInv /\ ReportInv /\ PlacesInv /\ HashInv
      /\ EachPostReadOnce /\ OwnPostsAreKnown
  BY DEF TransportInv
<1>2. UNCHANGED <<server, hashes>> => InOrder(hashes)'
  BY <1>1 DEF HashInv, InOrder, Copies
<1>3. UNCHANGED <<server, done, thread, action, unheard, dropped>> => CopyInv'
  BY <1>1 DEF CopyInv, Copies
<1>4. UNCHANGED <<server, done, unheard>> => ReportInv'
  BY <1>1 DEF ReportInv, Copies
<1>5. UNCHANGED <<server, hashes, latest, queued, unheard, forgotten, done, thread, action, contentQueue>> => HashInv'
  <2> SUFFICES ASSUME UNCHANGED <<server, hashes, latest, queued, unheard, forgotten, done, thread, action, contentQueue>>
               PROVE  HashInv'
    OBVIOUS
  <2>1. (AtWork => Covered(hashes, latest))'
    BY <1>1 DEF HashInv, Covered, AtWork, Elems
  <2>2. (\A a \in Elems(hashes) : done[a] # <<>> \/ thread = "none" \/ (thread = "acts" /\ action = a))'
    BY <1>1 DEF HashInv, Elems
  <2>3. QED
    BY <1>1, <1>2, <2>1, <2>2 DEF HashInv
<1>6. UNCHANGED <<thread, received, earlier, latest, saved, unfinished, reread>> => PlacesInv'
  BY <1>1 DEF PlacesInv, AtWork
<1>7. UNCHANGED <<actionQueue, queued, done, thread, action>> => PendingInv'
  BY <1>1 DEF PendingInv
<1>8. UNCHANGED <<thread, queued, done, dropped>> => LifeInv'
  BY <1>1 DEF LifeInv
<1>9. UNCHANGED <<received, earlier, unfinished, reread>> => EachPostReadOnce'
  BY <1>1 DEF EachPostReadOnce
<1>10. UNCHANGED <<received, server, queued, unheard, forgotten>> => OwnPostsAreKnown'
  BY <1>1 DEF OwnPostsAreKnown
<1>11. QED
  BY <1>2, <1>3, <1>4, <1>5, <1>6, <1>7, <1>8, <1>9, <1>10

LEMMA CreateLinkKeeps ==
  ASSUME TransportInv, CreateLink
  PROVE  TransportInv'
<1>1. /\ thread = "none" /\ thread' = "starts" /\ contentQueue' = {} /\ actionQueue' = <<>> /\ hashes' = <<>>
      /\ UNCHANGED <<server, saved, action, latest, done, queued, received, earlier, unheard, forgotten, unfinished, dropped, reread>>
  BY DEF CreateLink, histories
<1>2. /\ LinkTypes /\ CopyInv /\ LifeInv /\ PlacesInv /\ DOMAIN <<>> = {}
  BY DEF TransportInv
<1>3. LinkTypes'
  BY <1>1, <1>2 DEF LinkTypes
<1>4. PendingInv'
  BY <1>1, <1>2 DEF PendingInv
<1>5. CopyInv'
  BY <1>1, <1>2 DEF CopyInv, Copies
<1>6. LifeInv'
  BY <1>1, <1>2 DEF LifeInv
<1>7. PlacesInv'
  BY <1>1, <1>2 DEF PlacesInv, AtWork
<1>8. HashInv'
  BY <1>1, <1>2 DEF HashInv, InOrder, AtWork, Elems
<1>9. QED
  BY <1>1, <1>3, <1>4, <1>5, <1>6, <1>7, <1>8, LinkFrames DEF TransportInv

LEMMA GetInitialIndexKeeps ==
  ASSUME TransportInv, GetInitialIndex
  PROVE  TransportInv'
<1>1. /\ thread = "starts" /\ thread' = "wants"
      /\ UNCHANGED <<server, saved, contentQueue, actionQueue, action, hashes, done, queued, received, earlier,
                     unheard, forgotten, unfinished, dropped>>
  BY DEF GetInitialIndex
<1>2. \/ saved >= 0 /\ latest' = saved /\ reread' = reread
      \/ ~(saved >= 0) /\ latest' \in 0..Len(server) /\ reread' = reread
      \/ latest' = 0 /\ reread' = TRUE
  BY DEF GetInitialIndex
<1>3. LinkTypes /\ PendingInv /\ CopyInv /\ LifeInv /\ PlacesInv /\ HashInv /\ EachPostReadOnce
  BY DEF TransportInv
<1>4. latest' \in Nat /\ latest' <= Len(server) /\ Len(server) \in Nat
  BY <1>2, <1>3 DEF LinkTypes
<1>5. LinkTypes'
  BY <1>1, <1>3, <1>4 DEF LinkTypes
<1>6. PendingInv'
  BY <1>1, <1>3 DEF PendingInv
<1>7. CopyInv'
  BY <1>1, <1>3 DEF CopyInv, Copies
<1>8. LifeInv'
  BY <1>1, <1>3 DEF LifeInv
<1>9. PlacesInv' /\ EachPostReadOnce'
  <2>1. received = <<>> /\ DOMAIN received = {}
    BY <1>1, <1>3 DEF PlacesInv, AtWork
  <2>2. EachPostReadOnce'
    BY <1>1, <2>1 DEF EachPostReadOnce
  <2>3. \A p \in earlier : p \in Nat \ {0} /\ (p \in unfinished \/ p <= saved)
    BY <1>3 DEF PlacesInv
  <2>4. ~reread' => \A p \in earlier : p \in unfinished \/ p <= latest'
    BY <1>2, <1>3, <2>3 DEF LinkTypes
  <2>5. PlacesInv'
    BY <1>1, <1>3, <2>1, <2>3, <2>4 DEF PlacesInv, AtWork
  <2>6. QED
    BY <2>2, <2>5
<1>10. HashInv'
  <2>1. \A n \in DOMAIN server : server[n] \notin queued
    <3>1. \A a \in queued : a \in Actions /\ Copies(a) = {}
      <4> TAKE a \in queued
      <4>1. a \in Actions /\ done[a] = <<>> /\ a \notin dropped
        <5>1. a \in Actions
          BY <1>3 DEF LinkTypes
        <5>2. QED
          BY <1>1, <1>3, <5>1 DEF LifeInv
      <4>2. Copies(a) # {} => done[a] # <<>> \/ a \in dropped \/ thread = "acts"
        BY <1>3, <4>1 DEF CopyInv
      <4>3. QED
        BY <1>1, <4>1, <4>2
    <3>2. QED
      BY <3>1 DEF Copies
  <2>2. Covered(hashes, latest)'
    BY <1>1, <2>1 DEF Covered
  <2>3. InOrder(hashes)'
    BY <1>1, LinkFrames
  <2>4. (\A a \in Elems(hashes) : done[a] # <<>> \/ thread = "none" \/ (thread = "acts" /\ action = a))'
    BY <1>1, <1>3 DEF HashInv, Elems
  <2>5. QED
    BY <1>1, <2>2, <2>3, <2>4 DEF HashInv
<1>11. QED
  BY <1>1, <1>5, <1>6, <1>7, <1>8, <1>9, <1>10, LinkFrames DEF TransportInv
LEMMA DestroyReturnsKeeps ==
  ASSUME TransportInv, DestroyReturns
  PROVE  TransportInv'
<1>1. /\ thread = "ended" /\ thread' = "none" /\ earlier' = earlier \union Elems(received)
      /\ queued' = {} /\ received' = <<>>
      /\ UNCHANGED <<server, saved, contentQueue, actionQueue, action, latest, hashes, done, unheard, forgotten, unfinished, reread>>
      /\ dropped \subseteq dropped'
  BY DEF DestroyReturns
<1>2. LinkTypes /\ CopyInv /\ LifeInv /\ PlacesInv /\ HashInv /\ EachPostReadOnce /\ DOMAIN <<>> = {}
  BY DEF TransportInv
<1>3. LinkTypes'
  BY <1>1, <1>2 DEF LinkTypes
<1>4. PendingInv' /\ LifeInv'
  BY <1>1 DEF PendingInv, LifeInv
<1>5. CopyInv'
  BY <1>1, <1>2 DEF CopyInv, Copies
<1>6. PlacesInv'
  <2>1. \A p \in Elems(received) : p \in Nat \ {0} /\ (p \in unfinished \/ p <= saved)
    BY <1>2 DEF PlacesInv, Elems
  <2>2. QED
    <3>1. (received \in Seq(Nat \ {0}) /\ DOMAIN received = {} /\ ~AtWork)'
      BY <1>1, <1>2 DEF AtWork
    <3>2. (earlier \subseteq Nat \ {0} /\ \A p \in earlier : p \in unfinished \/ p <= saved)'
      <4>1. earlier \subseteq Nat \ {0} /\ \A p \in earlier : p \in unfinished \/ p <= saved
        BY <1>2 DEF PlacesInv
      <4>2. QED
        BY <1>1, <2>1, <4>1
    <3>3. QED
      BY <1>1, <3>1, <3>2 DEF PlacesInv
<1>7. HashInv'
  <2>1. InOrder(hashes)'
    BY <1>1, LinkFrames
  <2>2. (\A a \in Elems(hashes) : done[a] # <<>> \/ thread = "none" \/ (thread = "acts" /\ action = a))'
    BY <1>1, <1>2 DEF HashInv, Elems
  <2>3. QED
    BY <1>1, <2>1, <2>2 DEF HashInv, AtWork
<1>8. EachPostReadOnce' /\ OwnPostsAreKnown'
  BY <1>1, <1>2 DEF EachPostReadOnce, OwnPostsAreKnown
<1>9. QED
  BY <1>1, <1>3, <1>4, <1>5, <1>6, <1>7, <1>8, LinkFrames DEF TransportInv

LEMMA EnqueueContentKeeps ==
  ASSUME TransportInv, NEW a \in Actions, EnqueueContent(a) \/ DequeueContent(a)
  PROVE  TransportInv'
<1>1. /\ thread # "acts" /\ contentQueue' \in {contentQueue \union {a}, contentQueue \ {a}}
      /\ UNCHANGED <<server, saved, actionQueue, action, latest, hashes, done, queued, thread, received, earlier,
                     unheard, forgotten, unfinished, dropped, reread>>
  BY DEF EnqueueContent, DequeueContent, MutexFree, histories
<1>2. LinkTypes /\ HashInv
  BY DEF TransportInv
<1>3. LinkTypes'
  BY <1>1, <1>2 DEF LinkTypes
<1>4. HashInv'
  <2>1. InOrder(hashes)'
    BY <1>1, LinkFrames
  <2>2. (AtWork => Covered(hashes, latest))'
    BY <1>1, <1>2 DEF HashInv, Covered, AtWork, Elems
  <2>3. (\A b \in Elems(hashes) : done[b] # <<>> \/ thread = "none" \/ (thread = "acts" /\ action = b))'
    BY <1>1, <1>2 DEF HashInv, Elems
  <2>4. QED
    BY <1>1, <2>1, <2>2, <2>3 DEF HashInv
<1>5. QED
  BY <1>1, <1>3, <1>4, LinkFrames DEF TransportInv

\* Another action at the end of the queue.
LEMMA PushFacts ==
  ASSUME LinkTypes, NEW b \in Actions \union {Fetch}
  PROVE  LET new == Append(actionQueue, b)
         IN  /\ new \in Seq(Actions \union {Fetch})
             /\ DOMAIN actionQueue = 1..Len(actionQueue) /\ Len(actionQueue) \in Nat
             /\ DOMAIN new = 1..Len(actionQueue) + 1
             /\ \A k \in DOMAIN actionQueue : new[k] = actionQueue[k]
             /\ new[Len(actionQueue) + 1] = b
BY DEF LinkTypes

LEMMA FetchPostsKeeps ==
  ASSUME TransportInv, FetchPosts
  PROVE  TransportInv'
<1>1. /\ thread \notin {"none", "acts", "empty"} /\ actionQueue' = Append(actionQueue, Fetch)
      /\ thread' = IF thread = "waits" THEN "wants" ELSE thread
      /\ UNCHANGED <<server, saved, contentQueue, action, latest, hashes, done, queued, received, earlier,
                     unheard, forgotten, unfinished, dropped, reread>>
  BY DEF FetchPosts, Push, Notified, Known, MutexFree, histories
<1>2. LinkTypes /\ PendingInv /\ CopyInv /\ LifeInv /\ PlacesInv /\ HashInv
  BY DEF TransportInv
<1>3. PICK n \in Nat :
        /\ actionQueue' \in Seq(Actions \union {Fetch})
        /\ DOMAIN actionQueue = 1..n
        /\ DOMAIN actionQueue' = 1..n + 1
        /\ \A k \in DOMAIN actionQueue : actionQueue'[k] = actionQueue[k]
        /\ actionQueue'[n + 1] = Fetch
  BY <1>1, <1>2, PushFacts
<1>4. thread' \in {"starts", "wants", "ended"} /\ (thread' = "starts") = (thread = "starts") /\ AtWork' = AtWork
  BY <1>1, <1>2 DEF LinkTypes, AtWork
<1>5. LinkTypes'
  BY <1>1, <1>2, <1>3, <1>4 DEF LinkTypes
<1>6. PendingInv'
  <2>1. \A k \in DOMAIN actionQueue' : actionQueue'[k] \in Actions =>
          k \in DOMAIN actionQueue /\ actionQueue'[k] = actionQueue[k]
    <3>1. \A k \in 1..n + 1 : k = n + 1 \/ k \in 1..n
      OBVIOUS
    <3>2. Fetch \notin Actions
      BY TransportAssumption
    <3>3. DOMAIN actionQueue' = 1..n + 1 /\ DOMAIN actionQueue = 1..n /\ actionQueue'[n + 1] \notin Actions
      BY <1>3, <3>2
    <3>4. QED
      BY <1>3, <3>1, <3>3
  <2>2. \A k \in DOMAIN actionQueue' : \A j \in DOMAIN actionQueue' :
          k # j /\ actionQueue'[k] \in Actions => actionQueue'[k] # actionQueue'[j]
    BY <1>1, <1>2, <2>1 DEF PendingInv
  <2>3. QED
    BY <1>1, <1>2, <1>4, <2>1, <2>2 DEF PendingInv
<1>7. CopyInv' /\ LifeInv' /\ PlacesInv'
  BY <1>1, <1>2, <1>4 DEF CopyInv, Copies, LifeInv, PlacesInv
<1>8. HashInv'
  <2>1. InOrder(hashes)'
    BY <1>1, LinkFrames
  <2>2. (AtWork => Covered(hashes, latest))'
    BY <1>1, <1>2, <1>4 DEF HashInv, Covered, Elems
  <2>3. (\A b \in Elems(hashes) : done[b] # <<>> \/ thread = "none" \/ (thread = "acts" /\ action = b))'
    BY <1>1, <1>2 DEF HashInv, Elems
  <2>4. QED
    BY <1>1, <1>4, <2>1, <2>2, <2>3 DEF HashInv
<1>9. QED
  BY <1>1, <1>5, <1>6, <1>7, <1>8, LinkFrames DEF TransportInv

\* Another post at the end of the server's.
LEMMA AppendPost ==
  ASSUME LinkTypes, NEW m \in Actions \union Foreign, server' = Append(server, m)
  PROVE  /\ server' \in Seq(Actions \union Foreign)
         /\ Len(server) \in Nat /\ Len(server') = Len(server) + 1
         /\ DOMAIN server = 1..Len(server) /\ DOMAIN server' = 1..Len(server) + 1
         /\ \A n \in DOMAIN server : n \in DOMAIN server' /\ server'[n] = server[n]
         /\ \A n \in DOMAIN server' : n # Len(server) + 1 => n \in DOMAIN server
         /\ server'[Len(server) + 1] = m
BY DEF LinkTypes

\* What was handed over is on the server.
LEMMA ReceivedPlaces ==
  ASSUME LinkTypes, PlacesInv
  PROVE  \A k \in DOMAIN received : received[k] \in DOMAIN server
<1> SUFFICES ASSUME NEW k \in DOMAIN received PROVE received[k] \in DOMAIN server
  OBVIOUS
<1>1. received[k] \in Nat \ {0} /\ (received[k] \in unfinished \/ received[k] <= latest)
  BY DEF PlacesInv
<1>2. latest \in Nat /\ latest <= Len(server) /\ Len(server) \in Nat /\ DOMAIN server = 1..Len(server)
  BY DEF LinkTypes
<1>3. received[k] \in unfinished => received[k] <= Len(server)
  BY DEF LinkTypes
<1>4. QED
  BY <1>1, <1>2, <1>3

LEMMA ForeignPostKeeps ==
  ASSUME TransportInv, NEW f \in Foreign, ForeignPost(f)
  PROVE  TransportInv'
<1> DEFINE last == Len(server) + 1
<1>1. /\ server' = Append(server, f)
      /\ UNCHANGED <<saved, contentQueue, actionQueue, action, latest, hashes, done, queued, thread, received,
                     earlier, unheard, forgotten, unfinished, dropped, reread>>
  BY DEF ForeignPost, histories
<1>2. /\ LinkTypes /\ CopyInv /\ ReportInv /\ HashInv /\ OwnPostsAreKnown /\ PlacesInv /\ f \notin Actions
  BY TransportAssumption DEF TransportInv
<1>3. /\ server' \in Seq(Actions \union Foreign)
      /\ Len(server) \in Nat /\ Len(server') = Len(server) + 1
      /\ DOMAIN server = 1..Len(server) /\ DOMAIN server' = 1..Len(server) + 1
      /\ \A n \in DOMAIN server : n \in DOMAIN server' /\ server'[n] = server[n]
      /\ \A n \in DOMAIN server' : n # last => n \in DOMAIN server
      /\ server'[last] = f
  BY <1>1, <1>2, AppendPost
<1> HIDE DEF last
<1>4. \A n \in DOMAIN server' : server'[n] \in Actions => n \in DOMAIN server /\ server'[n] = server[n]
  BY <1>2, <1>3
<1>5. \A a \in Actions : {n \in DOMAIN server' : server'[n] = a} = {n \in DOMAIN server : server[n] = a}
  BY <1>3, <1>4
<1>6. LinkTypes'
  <2>1. (server \in Seq(Actions \union Foreign) /\ saved <= Len(server) /\ latest <= Len(server))'
    BY <1>1, <1>2, <1>3 DEF LinkTypes
  <2>2. (\A p \in unfinished : p \in Nat \ {0} /\ p <= Len(server))'
    <3>1. \A p \in unfinished : p \in Nat \ {0} /\ p <= Len(server)
      BY <1>2 DEF LinkTypes
    <3>2. QED
      BY <1>1, <1>3, <3>1
  <2>3. QED
    BY <1>1, <1>2, <2>1, <2>2 DEF LinkTypes
<1>7. CopyInv'
  <2>1. \A a \in Actions : {n \in DOMAIN server' : server'[n] = a} # {} =>
          done'[a] # <<>> \/ a \in dropped' \/ (thread' = "acts" /\ action' = a /\ a \in unheard')
    BY <1>1, <1>2, <1>5 DEF CopyInv, Copies
  <2>2. \A m, n \in DOMAIN server' : server'[m] = server'[n] /\ server'[m] \in Actions \ unheard' => m = n
    BY <1>1, <1>2, <1>4 DEF CopyInv
  <2>3. QED
    BY <2>1, <2>2 DEF CopyInv, Copies
<1>8. ReportInv'
  BY <1>1, <1>2, <1>5 DEF ReportInv, Copies
<1>9. HashInv'
  <2>1. \A k \in DOMAIN hashes : hashes[k] \in Actions
    BY <1>2 DEF LinkTypes
  <2>2. InOrder(hashes)'
    BY <1>1, <1>2, <1>5, <2>1 DEF HashInv, InOrder, Copies
  <2>3. (AtWork => Covered(hashes, latest))'
    <3>1. AtWork => \A n \in DOMAIN server : n > latest /\ server[n] \in queued \ (unheard \union forgotten) =>
            server[n] \in Elems(hashes)
      BY <1>2 DEF HashInv, Covered
    <3>2. queued \subseteq Actions
      BY <1>2 DEF LinkTypes
    <3>3. AtWork' => \A n \in DOMAIN server' : n > latest' /\ server'[n] \in queued' \ (unheard' \union forgotten') =>
            server'[n] \in Elems(hashes)
      BY <1>1, <1>4, <3>1, <3>2 DEF AtWork
    <3>4. QED
      BY <1>1, <3>3 DEF Covered, Elems
  <2>4. (\A a \in Elems(hashes) : done[a] # <<>> \/ thread = "none" \/ (thread = "acts" /\ action = a))'
    BY <1>1, <1>2 DEF HashInv, Elems
  <2>5. QED
    BY <1>1, <1>2, <2>2, <2>3, <2>4 DEF HashInv
<1>10. OwnPostsAreKnown'
  <2>1. \A k \in DOMAIN received : received[k] \in DOMAIN server
    BY <1>2, ReceivedPlaces
  <2>2. QED
    BY <1>1, <1>2, <1>3, <2>1 DEF OwnPostsAreKnown
<1>11. QED
  BY <1>1, <1>6, <1>7, <1>8, <1>9, <1>10, LinkFrames DEF TransportInv

LEMMA PostAccepted ==
  ASSUME TransportInv, NEW a \in Actions, Post(a), a \in contentQueue
  PROVE  TransportInv'
<1>1. /\ thread \notin {"none", "acts", "empty"} /\ actionQueue' = Append(actionQueue, a)
      /\ done[a] = <<>> /\ a \notin queued \union dropped /\ queued' = queued \union {a}
      /\ thread' = IF thread = "waits" THEN "wants" ELSE thread
      /\ UNCHANGED <<server, saved, contentQueue, action, latest, hashes, done, received, earlier,
                     unheard, forgotten, unfinished, dropped, reread>>
  BY DEF Post, Push, Notified, Known, MutexFree
<1>2. LinkTypes /\ PendingInv /\ CopyInv /\ LifeInv /\ PlacesInv /\ HashInv /\ OwnPostsAreKnown
  BY DEF TransportInv
<1>3. PICK n \in Nat :
        /\ actionQueue' \in Seq(Actions \union {Fetch})
        /\ DOMAIN actionQueue = 1..n
        /\ DOMAIN actionQueue' = 1..n + 1
        /\ \A k \in DOMAIN actionQueue : actionQueue'[k] = actionQueue[k]
        /\ actionQueue'[n + 1] = a
  BY <1>1, <1>2, PushFacts
<1>4. thread' \in {"starts", "wants", "ended"} /\ (thread' = "starts") = (thread = "starts") /\ AtWork' = AtWork
  BY <1>1, <1>2 DEF LinkTypes, AtWork
<1>5. \A m \in DOMAIN server : server[m] # a
  <2>1. Copies(a) # {} => done[a] # <<>> \/ a \in dropped \/ thread = "acts"
    BY <1>2 DEF CopyInv
  <2>2. Copies(a) = {}
    BY <1>1, <2>1
  <2>3. QED
    BY <2>2 DEF Copies
<1>6. LinkTypes'
  <2>1. queued' \subseteq Actions
    BY <1>1, <1>2 DEF LinkTypes
  <2>2. QED
    BY <1>1, <1>2, <1>3, <1>4, <2>1 DEF LinkTypes
<1>7. PendingInv'
  <2>1. \A k \in DOMAIN actionQueue' :
          \/ k \in DOMAIN actionQueue /\ actionQueue'[k] = actionQueue[k]
          \/ k = n + 1 /\ actionQueue'[k] = a /\ k \notin DOMAIN actionQueue
    <3>1. \A k \in 1..n + 1 : k = n + 1 \/ k \in 1..n
      OBVIOUS
    <3>2. n + 1 \notin 1..n
      OBVIOUS
    <3>3. QED
      BY <1>3, <3>1, <3>2
  <2>2. \A k \in DOMAIN actionQueue : actionQueue[k] \in Actions => actionQueue[k] \in queued /\ done[actionQueue[k]] = <<>>
    BY <1>1, <1>2 DEF PendingInv
  <2>3. \A k \in DOMAIN actionQueue : actionQueue[k] # a
    BY <1>1, <2>2
  <2>4. \A k, j \in DOMAIN actionQueue : k # j /\ actionQueue[k] \in Actions => actionQueue[k] # actionQueue[j]
    BY <1>1, <1>2 DEF PendingInv
  <2>5. \A k, j \in DOMAIN actionQueue' : k # j /\ actionQueue'[k] \in Actions => actionQueue'[k] # actionQueue'[j]
    BY <2>1, <2>3, <2>4
  <2>6. \A k \in DOMAIN actionQueue' : actionQueue'[k] \in Actions => actionQueue'[k] \in queued' /\ done'[actionQueue'[k]] = <<>>
    BY <1>1, <2>1, <2>2
  <2>7. QED
    BY <1>4, <2>5, <2>6 DEF PendingInv
<1>8. CopyInv' /\ LifeInv' /\ PlacesInv'
  BY <1>1, <1>2, <1>4 DEF CopyInv, Copies, LifeInv, PlacesInv
<1>9. HashInv'
  <2>1. InOrder(hashes)'
    BY <1>1, LinkFrames
  <2>2. (AtWork => Covered(hashes, latest))'
    <3>1. AtWork => \A m \in DOMAIN server : m > latest /\ server[m] \in queued \ (unheard \union forgotten) =>
            server[m] \in Elems(hashes)
      BY <1>2 DEF HashInv, Covered
    <3>2. QED
      BY <1>1, <1>4, <1>5, <3>1 DEF Covered, Elems
  <2>3. (\A b \in Elems(hashes) : done[b] # <<>> \/ thread = "none" \/ (thread = "acts" /\ action = b))'
    BY <1>1, <1>2 DEF HashInv, Elems
  <2>4. QED
    BY <1>1, <1>4, <2>1, <2>2, <2>3 DEF HashInv
<1>10. OwnPostsAreKnown'
  BY <1>1, <1>2, <1>5, ReceivedPlaces DEF OwnPostsAreKnown
<1>11. QED
  BY <1>1, <1>6, <1>7, <1>8, <1>9, <1>10, LinkFrames DEF TransportInv

\* The only report of an action that had none.
LEMMA FirstStatus ==
  ASSUME LinkTypes, NEW a \in Actions, done[a] = <<>>, NEW s \in {"SENT", "FAILED"}, Status(a, s)
  PROVE  /\ done' \in [Actions -> Seq({"SENT", "FAILED"})] /\ done'[a] = <<s>> /\ done'[a] # <<>>
         /\ \A b \in Actions : b # a => done'[b] = done[b]
<1>1. done' = [done EXCEPT ![a] = Append(done[a], s)] /\ done \in [Actions -> Seq({"SENT", "FAILED"})]
  BY DEF Status, LinkTypes
<1>2. Append(<<>>, s) = <<s>> /\ <<s>> \in Seq({"SENT", "FAILED"}) /\ <<s>> # <<>>
  OBVIOUS
<1>3. done' = [done EXCEPT ![a] = <<s>>]
  BY <1>1, <1>2
<1>4. QED
  BY <1>1, <1>2, <1>3

LEMMA PostRefused ==
  ASSUME TransportInv, NEW a \in Actions, Post(a), a \notin contentQueue
  PROVE  TransportInv'
<1>1. /\ thread # "none" /\ thread # "acts" /\ done[a] = <<>> /\ a \notin queued \union dropped /\ Status(a, "FAILED")
      /\ UNCHANGED <<server, saved, contentQueue, actionQueue, action, latest, hashes, queued, thread, received, earlier,
                     unheard, forgotten, unfinished, dropped, reread>>
  BY DEF Post, Known, MutexFree
<1>2. LinkTypes /\ PendingInv /\ CopyInv /\ LifeInv /\ ReportInv /\ HashInv
  BY DEF TransportInv
<1>3. /\ done' \in [Actions -> Seq({"SENT", "FAILED"})] /\ done'[a] = <<"FAILED">> /\ done'[a] # <<>>
      /\ \A b \in Actions : b # a => done'[b] = done[b]
  BY <1>1, <1>2, FirstStatus
<1>4. Copies(a) = {}
  <2>1. Copies(a) # {} => done[a] # <<>> \/ a \in dropped \/ thread = "acts"
    BY <1>2 DEF CopyInv
  <2>2. QED
    BY <1>1, <2>1
<1>5. LinkTypes'
  BY <1>1, <1>2, <1>3 DEF LinkTypes
<1>6. PendingInv'
  <2>1. \A k \in DOMAIN actionQueue : actionQueue[k] \in Actions => actionQueue[k] \in queued /\ done[actionQueue[k]] = <<>>
    BY <1>1, <1>2 DEF PendingInv
  <2>2. \A k \in DOMAIN actionQueue : actionQueue[k] \in Actions => actionQueue[k] \in queued /\ done'[actionQueue[k]] = <<>>
    BY <1>1, <1>3, <2>1
  <2>3. QED
    BY <1>1, <1>2, <2>2 DEF PendingInv
<1>7. CopyInv' /\ LifeInv'
  <2>1. \A b \in Actions : done[b] # <<>> => done'[b] # <<>>
    BY <1>1, <1>3
  <2>2. CopyInv'
    BY <1>1, <1>2, <2>1 DEF CopyInv, Copies
  <2>3. \A b \in queued : b \in Actions /\ b # a
    BY <1>1, <1>2 DEF LinkTypes
  <2>4. LifeInv'
    BY <1>1, <1>2, <1>3, <2>3 DEF LifeInv
  <2>5. QED
    BY <2>2, <2>4
<1>8. ReportInv'
  <2>1. \A b \in Actions : Copies(b)' = Copies(b)
    BY <1>1 DEF Copies
  <2>2. \A b \in Actions :
          /\ done'[b] \in {<<>>, <<"SENT">>, <<"FAILED">>}
          /\ done'[b] = <<"SENT">> => Copies(b) # {}
          /\ done'[b] = <<"FAILED">> /\ b \notin unheard => Copies(b) = {}
    <3> TAKE b \in Actions
    <3>1. CASE b = a
      <4>1. <<"FAILED">> # <<"SENT">>
        OBVIOUS
      <4>2. QED
        BY <1>3, <1>4, <3>1, <4>1
    <3>2. CASE b # a
      BY <1>2, <1>3, <3>2 DEF ReportInv
    <3>3. QED
      BY <3>1, <3>2
  <2>3. QED
    BY <1>1, <2>2 DEF ReportInv, Copies
<1>9. HashInv'
  <2>1. InOrder(hashes)'
    BY <1>1, LinkFrames
  <2>2. (AtWork => Covered(hashes, latest))'
    BY <1>1, <1>2 DEF HashInv, Covered, AtWork, Elems
  <2>3. \A b \in Elems(hashes) : b \in Actions /\ (done[b] # <<>> \/ (thread = "acts" /\ action = b))
    BY <1>1, <1>2 DEF HashInv, Elems, LinkTypes
  <2>4. \A b \in Elems(hashes) : done'[b] # <<>>
    BY <1>1, <1>3, <2>3
  <2>5. QED
    BY <1>1, <1>2, <2>1, <2>2, <2>4 DEF HashInv, Elems
<1>10. QED
  BY <1>1, <1>5, <1>6, <1>7, <1>8, <1>9, LinkFrames DEF TransportInv

\* The hash of an action without a copy is the last in order.
LEMMA HashAppended ==
  ASSUME NEW queue \in Seq(Actions), InOrder(queue), NEW h \in Actions, h \notin Elems(queue), Copies(h) = {}
  PROVE  LET new == Append(queue, h)
         IN  /\ new \in Seq(Actions) /\ new # <<>> /\ new[Len(new)] = h
             /\ InOrder(new)
             /\ Elems(new) = Elems(queue) \union {h}
<1> DEFINE new == Append(queue, h)
           last == Len(queue) + 1
<1>1. /\ DOMAIN queue = 1..Len(queue) /\ Len(queue) \in Nat
      /\ new \in Seq(Actions) /\ new # <<>> /\ Len(new) = last /\ DOMAIN new = 1..last
      /\ new[last] = h
      /\ \A k \in 1..Len(queue) : new[k] = queue[k]
  OBVIOUS
<1>2. Elems(new) = Elems(queue) \union {h}
  BY AppendElems
<1> HIDE DEF new
<1>3. \A k \in DOMAIN queue : queue[k] # h
  BY DEF Elems
<1>4. ASSUME NEW j \in DOMAIN new, NEW k \in DOMAIN new, j < k
      PROVE  new[j] # new[k] /\ \A m \in Copies(new[j]) : \A n \in Copies(new[k]) : m < n
  <2>1. j \in DOMAIN queue /\ new[j] = queue[j]
    BY <1>1, <1>4
  <2>2. CASE k = last
    <3>1. new[k] = h
      BY <1>1, <2>2
    <3>2. QED
      BY <1>3, <2>1, <3>1
  <2>3. CASE k # last
    <3>1. k \in DOMAIN queue /\ new[k] = queue[k]
      BY <1>1, <2>3
    <3>2. QED
      BY <1>4, <2>1, <3>1 DEF InOrder
  <2>4. QED
    BY <2>2, <2>3
<1>5. InOrder(new)
  BY <1>4 DEF InOrder
<1>6. QED
  BY <1>1, <1>2, <1>5 DEF new

\* The oldest hash away, the others keep their order.
LEMMA HashDropped ==
  ASSUME NEW queue \in Seq(Actions), InOrder(queue), queue # <<>>
  PROVE  /\ Tail(queue) \in Seq(Actions) /\ Head(queue) \in Actions
         /\ InOrder(Tail(queue))
         /\ Elems(queue) = Elems(Tail(queue)) \union {Head(queue)}
<1> DEFINE tail == Tail(queue)
<1>1. /\ Len(queue) \in Nat \ {0} /\ DOMAIN queue = 1..Len(queue) /\ Head(queue) = queue[1] /\ Head(queue) \in Actions
      /\ tail \in Seq(Actions) /\ DOMAIN tail = 1..Len(queue) - 1
      /\ \A n \in 1..Len(queue) - 1 : tail[n] = queue[n + 1]
  BY TailFacts
<1> HIDE DEF tail
<1>2. InOrder(tail)
  <2>1. \A k \in DOMAIN tail : k + 1 \in DOMAIN queue /\ tail[k] = queue[k + 1] /\ k \in Nat
    BY <1>1
  <2>2. SUFFICES ASSUME NEW j \in DOMAIN tail, NEW k \in DOMAIN tail, j < k
                 PROVE  tail[j] # tail[k] /\ \A m \in Copies(tail[j]) : \A n \in Copies(tail[k]) : m < n
    BY DEF InOrder
  <2>3. j + 1 \in DOMAIN queue /\ k + 1 \in DOMAIN queue /\ j + 1 < k + 1 /\ tail[j] = queue[j + 1] /\ tail[k] = queue[k + 1]
    BY <2>1, <2>2
  <2>4. QED
    BY <2>3 DEF InOrder
<1>3. Elems(queue) = Elems(tail) \union {queue[1]}
  <2>1. \A n \in DOMAIN queue : n = 1 \/ (n - 1 \in DOMAIN tail /\ tail[n - 1] = queue[n])
    BY <1>1
  <2>2. \A n \in DOMAIN tail : n + 1 \in DOMAIN queue /\ tail[n] = queue[n + 1]
    BY <1>1
  <2>3. 1 \in DOMAIN queue
    BY <1>1
  <2>4. QED
    BY <2>1, <2>2, <2>3 DEF Elems
<1>4. QED
  BY <1>1, <1>2, <1>3 DEF tail

LEMMA ActionTaken ==
  ASSUME TransportInv, LookForAction, thread' = "acts"
  PROVE  TransportInv'
<1> DEFINE A == Actions \union {Fetch}
           n == Len(actionQueue)
<1>1. /\ thread = "wants" /\ actionQueue # <<>>
      /\ action' = Head(actionQueue) /\ actionQueue' = Tail(actionQueue)
      /\ IF action' \in contentQueue THEN AddHash(action') ELSE UNCHANGED <<hashes, forgotten>>
      /\ UNCHANGED <<server, saved, contentQueue, latest, done, queued, received, earlier, unheard, unfinished, dropped, reread>>
  BY DEF LookForAction
<1>2. LinkTypes /\ PendingInv /\ CopyInv /\ LifeInv /\ PlacesInv /\ HashInv /\ OwnPostsAreKnown
  BY DEF TransportInv
<1>3. /\ n \in Nat \ {0} /\ DOMAIN actionQueue = 1..n /\ action' = actionQueue[1] /\ action' \in A
      /\ actionQueue' \in Seq(A) /\ DOMAIN actionQueue' = 1..n - 1
      /\ \A k \in 1..n - 1 : actionQueue'[k] = actionQueue[k + 1]
  <2>1. actionQueue \in Seq(A)
    BY <1>2 DEF LinkTypes
  <2>2. QED
    BY <1>1, <2>1, TailFacts
<1> HIDE DEF n, A
<1>4. PendingInv'
  <2>1. \A k \in DOMAIN actionQueue' :
          /\ actionQueue'[k] = actionQueue[k + 1]
          /\ k + 1 \in DOMAIN actionQueue /\ k + 1 # 1
    BY <1>3
  <2>2. 1 \in DOMAIN actionQueue
    BY <1>3
  <2>3. \A k \in DOMAIN actionQueue : actionQueue[k] \in Actions =>
          /\ actionQueue[k] \in queued /\ done[actionQueue[k]] = <<>>
          /\ \A j \in DOMAIN actionQueue : k # j => actionQueue[k] # actionQueue[j]
    BY <1>1, <1>2 DEF PendingInv
  <2>4. \A k \in DOMAIN actionQueue' : actionQueue'[k] \in Actions =>
          /\ actionQueue'[k] \in queued /\ done[actionQueue'[k]] = <<>>
          /\ actionQueue'[k] # actionQueue[1]
    BY <2>1, <2>2, <2>3
  <2>5. \A k, j \in DOMAIN actionQueue' : k # j /\ actionQueue'[k] \in Actions => actionQueue'[k] # actionQueue'[j]
    <3> TAKE k, j \in DOMAIN actionQueue'
    <3>1. k # j => k + 1 # j + 1
      BY <1>3
    <3>2. QED
      BY <2>1, <2>3, <3>1
  <2>6. action' \in Actions => action' \in queued /\ done[action'] = <<>>
    BY <1>3, <2>2, <2>3
  <2>7. QED
    BY <1>1, <1>3, <2>4, <2>5, <2>6 DEF PendingInv
<1>5. action' \in Actions => Copies(action') = {} /\ action' \notin Elems(hashes)
  <2> SUFFICES ASSUME action' \in Actions PROVE Copies(action') = {} /\ action' \notin Elems(hashes)
    OBVIOUS
  <2>1. done[action'] = <<>> /\ action' \notin dropped
    <3>1. done[action'] = <<>> /\ action' \in queued
      BY <1>1, <1>2, <1>3 DEF PendingInv
    <3>2. QED
      BY <1>2, <3>1 DEF LifeInv
  <2>2. \A a \in Actions : Copies(a) # {} => done[a] # <<>> \/ a \in dropped
    BY <1>1, <1>2 DEF CopyInv
  <2>3. \A a \in Elems(hashes) : done[a] # <<>>
    BY <1>1, <1>2 DEF HashInv
  <2>4. QED
    BY <2>1, <2>2, <2>3
<1>6. CopyInv' /\ LifeInv' /\ PlacesInv'
  BY <1>1, <1>2 DEF CopyInv, Copies, LifeInv, PlacesInv, AtWork
<1>7. (hashes \in Seq(Actions))' /\ HashInv' /\ forgotten \subseteq forgotten'
  <2>1. CASE action' \notin contentQueue
    <3>1. UNCHANGED <<hashes, forgotten>>
      BY <1>1, <2>1
    <3>2. (AtWork => Covered(hashes, latest))'
      BY <1>1, <1>2, <3>1 DEF HashInv, Covered, AtWork, Elems
    <3>3. (\A b \in Elems(hashes) : done[b] # <<>> \/ thread = "none" \/ (thread = "acts" /\ action = b))'
      BY <1>1, <1>2, <3>1 DEF HashInv, Elems
    <3>4. InOrder(hashes)'
      BY <1>1, <3>1, LinkFrames
    <3>5. hashes' \in Seq(Actions)
      BY <1>2, <3>1 DEF LinkTypes
    <3>6. QED
      BY <1>1, <2>1, <3>1, <3>2, <3>3, <3>4, <3>5 DEF HashInv
  <2>2. CASE action' \in contentQueue
    <3>1. action' \in Actions /\ AddHash(action')
      BY <1>1, <1>2, <2>2 DEF LinkTypes
    <3>2. hashes \in Seq(Actions) /\ InOrder(hashes) /\ Covered(hashes, latest) /\ \A b \in Elems(hashes) : done[b] # <<>>
      BY <1>1, <1>2 DEF LinkTypes, HashInv, AtWork
    <3>3. PICK queue \in Seq(Actions) :
            /\ hashes' = Append(queue, action') /\ InOrder(queue)
            /\ Elems(queue) \subseteq Elems(hashes)
            /\ Elems(hashes) \subseteq Elems(queue) \union forgotten' /\ forgotten \subseteq forgotten'
      <4>1. CASE hashes' = Append(hashes, action') /\ UNCHANGED forgotten
        BY <3>2, <4>1
      <4>2. CASE /\ Len(hashes) > MaxHashes
                 /\ hashes' = Append(Tail(hashes), action')
                 /\ forgotten' = forgotten \union {Head(hashes)}
        <5>1. hashes # <<>>
          BY <4>2, TransportAssumption
        <5>2. /\ Tail(hashes) \in Seq(Actions) /\ InOrder(Tail(hashes))
              /\ Elems(hashes) = Elems(Tail(hashes)) \union {Head(hashes)}
          BY <3>2, <5>1, HashDropped
        <5>3. QED
          BY <4>2, <5>2
      <4>3. QED
        BY <3>1, <4>1, <4>2 DEF AddHash
    <3>4. /\ hashes' \in Seq(Actions) /\ hashes' # <<>> /\ hashes'[Len(hashes')] = action'
          /\ InOrder(hashes')
          /\ Elems(hashes') = Elems(queue) \union {action'}
      <4>1. action' \notin Elems(queue) /\ Copies(action') = {}
        BY <1>5, <3>1, <3>3
      <4>2. QED
        BY <3>1, <3>3, <4>1, HashAppended
    <3>5. InOrder(hashes)'
      BY <1>1, <3>4 DEF InOrder, Copies
    <3>6. \A m \in DOMAIN server : m > latest /\ server[m] \in queued \ (unheard \union forgotten') => server[m] \in Elems(hashes')
      <4>1. \A m \in DOMAIN server : m > latest /\ server[m] \in queued \ (unheard \union forgotten) => server[m] \in Elems(hashes)
        BY <3>2 DEF Covered
      <4>2. QED
        BY <3>3, <3>4, <4>1
    <3>7. Covered(hashes, latest)'
      BY <1>1, <3>6 DEF Covered, Elems
    <3>8. (\A b \in Elems(hashes) : done[b] # <<>> \/ thread = "none" \/ (thread = "acts" /\ action = b))'
      BY <1>1, <3>2, <3>3, <3>4 DEF Elems
    <3>9. QED
      BY <3>3, <3>4, <3>5, <3>7, <3>8 DEF HashInv
  <2>3. QED
    BY <2>1, <2>2
<1>8. LinkTypes'
  BY <1>1, <1>2, <1>3, <1>7 DEF LinkTypes, A
<1>9. OwnPostsAreKnown'
  BY <1>1, <1>2, <1>7 DEF OwnPostsAreKnown
<1>10. QED
  BY <1>1, <1>4, <1>6, <1>7, <1>8, <1>9, LinkFrames DEF TransportInv

LEMMA FirstPlaceIs ==
  ASSUME NEW queue \in Seq(Actions), NEW m \in Elems(queue)
  PROVE  FirstPlace(queue, m) \in DOMAIN queue /\ queue[FirstPlace(queue, m)] = m
<1> DEFINE N == Len(queue)
           T == {k \in 1..N : queue[k] = m}
<1>1. N \in Nat /\ DOMAIN queue = 1..N
  OBVIOUS
<1>2. T \subseteq Nat /\ T # {}
  BY <1>1 DEF Elems
<1>3. PICK k \in T : \A j \in T : ~(j < k)
  BY <1>2, LeastElement
<1>4. k \in DOMAIN queue /\ queue[k] = m /\ \A j \in DOMAIN queue : queue[j] = m => ~(j < k)
  BY <1>1, <1>3
<1>5. \A j \in 1..N : ~(j < k) => k <= j
  BY <1>1, <1>4
<1>6. \E x \in DOMAIN queue : queue[x] = m /\ \A j \in DOMAIN queue : queue[j] = m => x <= j
  BY <1>1, <1>4, <1>5
<1>7. QED
  BY <1>6 DEF FirstPlace

\* removeHash leaves the others in their order.
LEMMA HashRemoved ==
  ASSUME NEW queue \in Seq(Actions), NEW m \in Actions
  PROVE  LET new == RemoveHash(queue, m)
         IN  /\ new \in Seq(Actions)
             /\ Elems(queue) \ {m} \subseteq Elems(new)
             /\ \E p \in [DOMAIN new -> DOMAIN queue] :
                  /\ \A k \in DOMAIN new : new[k] = queue[p[k]]
                  /\ \A j, k \in DOMAIN new : j < k => p[j] < p[k]
<1> DEFINE new == RemoveHash(queue, m)
           N == Len(queue)
           K == FirstPlace(queue, m)
<1>1. N \in Nat /\ DOMAIN queue = 1..N /\ \A k \in 1..N : queue[k] \in Actions
  OBVIOUS
<1>2. CASE m \notin Elems(queue)
  <2>1. new = queue
    BY <1>2 DEF RemoveHash
  <2> DEFINE p == [k \in DOMAIN queue |-> k]
  <2>2. p \in [DOMAIN new -> DOMAIN queue] /\ \A k \in DOMAIN new : p[k] = k
    BY <2>1
  <2> HIDE DEF p, new
  <2>3. QED
    BY <2>1, <2>2 DEF new
<1>3. CASE m \in Elems(queue)
  <2>1. K \in 1..N /\ queue[K] = m
    BY <1>1, <1>3, FirstPlaceIs
  <2>2. new = [n \in 1..N - 1 |-> IF n < K THEN queue[n] ELSE queue[n + 1]]
    BY <1>3 DEF RemoveHash
  <2> HIDE DEF K, new, N
  <2> DEFINE p == [n \in 1..N - 1 |-> IF n < K THEN n ELSE n + 1]
  <2>3. /\ \A n \in 1..N - 1 : p[n] \in 1..N /\ p[n] # K
        /\ \A n \in 1..N - 1 : n < K => p[n] = n
        /\ \A n \in 1..N - 1 : ~(n < K) => p[n] = n + 1
        /\ p = [n \in 1..N - 1 |-> p[n]]
    BY <1>1, <2>1
  <2>4. \A j, k \in 1..N - 1 : j < k => p[j] < p[k]
    BY <1>1, <2>1
  <2>5. \A n \in 1..N - 1 : new[n] = queue[p[n]]
    BY <2>2, <2>3
  <2>6. \A k \in 1..N : k # K => \E n \in 1..N - 1 : p[n] = k
    <3> TAKE k \in 1..N
    <3>1. CASE k < K
      <4>1. k \in 1..N - 1
        BY <1>1, <2>1, <3>1
      <4>2. QED
        BY <2>3, <3>1, <4>1
    <3>2. CASE K < k
      <4>1. k - 1 \in 1..N - 1 /\ ~(k - 1 < K) /\ k - 1 + 1 = k
        BY <1>1, <2>1, <3>2
      <4>2. QED
        BY <2>3, <4>1
    <3>3. QED
      BY <1>1, <2>1, <3>1, <3>2
  <2>7. DOMAIN new = 1..N - 1 /\ p \in [1..N - 1 -> 1..N]
    BY <2>2, <2>3
  <2> HIDE DEF p
  <2>8. new \in Seq(Actions)
    <3>1. N - 1 \in Nat /\ \A n \in 1..N - 1 : new[n] \in Actions
      BY <1>1, <2>1, <2>3, <2>5
    <3>2. new = [n \in 1..N - 1 |-> new[n]]
      BY <2>2
    <3>3. QED
      BY <3>1, <3>2
  <2>9. Elems(queue) \ {m} \subseteq Elems(new)
    <3> SUFFICES ASSUME NEW k \in 1..N, queue[k] # m PROVE queue[k] \in Elems(new)
      BY <1>1 DEF Elems
    <3>1. PICK n \in 1..N - 1 : p[n] = k
      BY <2>1, <2>6
    <3>2. QED
      BY <2>5, <2>7, <3>1 DEF Elems
  <2>10. QED
    BY <1>1, <2>4, <2>5, <2>7, <2>8, <2>9 DEF new
<1>4. QED
  BY <1>2, <1>3

LEMMA InOrderAfterRemoval ==
  ASSUME NEW queue \in Seq(Actions), NEW m \in Actions, InOrder(queue)'
  PROVE  InOrder(RemoveHash(queue, m))'
<1> DEFINE new == RemoveHash(queue, m)
<1>1. PICK p \in [DOMAIN new -> DOMAIN queue] :
        /\ \A k \in DOMAIN new : new[k] = queue[p[k]]
        /\ \A j, k \in DOMAIN new : j < k => p[j] < p[k]
  BY HashRemoved
<1> HIDE DEF new
<1>2. ASSUME NEW j \in DOMAIN new, NEW k \in DOMAIN new, j < k
      PROVE  new[j] # new[k] /\ \A x \in Copies(new[j])' : \A y \in Copies(new[k])' : x < y
  <2>1. p[j] \in DOMAIN queue /\ p[k] \in DOMAIN queue /\ p[j] < p[k] /\ new[j] = queue[p[j]] /\ new[k] = queue[p[k]]
    BY <1>1, <1>2
  <2>2. \A v, w \in DOMAIN queue : v < w =>
          queue[v] # queue[w] /\ \A x \in Copies(queue[v])' : \A y \in Copies(queue[w])' : x < y
    BY DEF InOrder
  <2>3. QED
    BY <2>1, <2>2
<1>3. \A j, k \in DOMAIN new : j < k =>
        new[j] # new[k] /\ \A x \in Copies(new[j])' : \A y \in Copies(new[k])' : x < y
  BY <1>2
<1>4. InOrder(new)'
  BY <1>3 DEF InOrder
<1>5. QED
  BY <1>4 DEF new

\* A try of the post under way, or its end, of which PostKeeps says what becomes of the invariant.
Tried ==
  \/ UNCHANGED <<server, unheard>>
  \/ /\ action \in contentQueue /\ server' = Append(server, action)
     /\ unheard' \in {unheard, unheard \union {action}}

PostGoesOn ==
  /\ UNCHANGED <<done, thread, hashes>>
  /\ UNCHANGED server \/ action \in unheard'

PostEnds ==
  /\ thread' = "wants"
  /\ \/ /\ Status(action, "SENT") /\ hashes' = hashes
        /\ server' = Append(server, action)
     \/ /\ Status(action, "FAILED") /\ hashes' \in {hashes, RemoveHash(hashes, action)}
        /\ UNCHANGED server \/ action \in unheard'

PostStep ==
  /\ thread = "acts" /\ action \in Actions
  /\ Tried
  /\ PostGoesOn \/ PostEnds
  /\ UNCHANGED <<saved, contentQueue, actionQueue, action, latest, queued, received, earlier, forgotten, unfinished, dropped, reread>>

\* What a try does to the posts.
LEMMA TriedServer ==
  ASSUME TransportInv, action \in Actions, Tried
  PROVE  /\ server' \in Seq(Actions \union Foreign) /\ Len(server') \in Nat /\ Len(server) <= Len(server')
         /\ unheard \subseteq unheard'
         /\ \A n \in DOMAIN server : n \in DOMAIN server' /\ server'[n] = server[n]
         /\ \A n \in DOMAIN server' : n \in DOMAIN server \/ (n = Len(server) + 1 /\ server'[n] = action)
         /\ \A n \in DOMAIN server' : n \notin DOMAIN server => action \in contentQueue
         /\ \A n \in DOMAIN server : n < Len(server) + 1
         /\ server' # server => Len(server) + 1 \in DOMAIN server' /\ server'[Len(server) + 1] = action
<1>1. LinkTypes /\ action \in Actions /\ Tried
  BY DEF TransportInv
<1>2. server \in Seq(Actions \union Foreign) /\ Len(server) \in Nat /\ DOMAIN server = 1..Len(server)
  BY <1>1 DEF LinkTypes
<1>3. CASE UNCHANGED <<server, unheard>>
  BY <1>2, <1>3
<1>4. CASE /\ action \in contentQueue /\ server' = Append(server, action)
           /\ unheard' \in {unheard, unheard \union {action}}
  <2>1. action \in Actions \union Foreign /\ server' = Append(server, action)
    BY <1>1, <1>4
  <2>2. /\ server' \in Seq(Actions \union Foreign)
        /\ Len(server') = Len(server) + 1
        /\ DOMAIN server' = 1..Len(server) + 1
        /\ \A n \in DOMAIN server : n \in DOMAIN server' /\ server'[n] = server[n]
        /\ \A n \in DOMAIN server' : n # Len(server) + 1 => n \in DOMAIN server
        /\ server'[Len(server) + 1] = action
    BY <1>1, <2>1, AppendPost
  <2>3. QED
    <3>1. action \in contentQueue /\ unheard \subseteq unheard'
      BY <1>4
    <3>2. \A n \in 1..Len(server) + 1 : n = Len(server) + 1 \/ n \in 1..Len(server)
      BY <1>2
    <3>3. Len(server) + 1 \in 1..Len(server) + 1 /\ \A n \in 1..Len(server) : n < Len(server) + 1
      BY <1>2
    <3>4. Len(server') \in Nat /\ Len(server) <= Len(server')
      BY <1>2, <2>2
    <3>5. \A n \in DOMAIN server' : n \in DOMAIN server \/ (n = Len(server) + 1 /\ server'[n] = action)
      BY <2>2
    <3>6. /\ \A n \in DOMAIN server : n < Len(server) + 1
          /\ Len(server) + 1 \in DOMAIN server' /\ server'[Len(server) + 1] = action
      BY <1>2, <2>2, <3>3
    <3>7. \A n \in DOMAIN server : n \in DOMAIN server' /\ server'[n] = server[n]
      BY <2>2
    <3>8. QED
      BY <2>2, <3>1, <3>4, <3>5, <3>6, <3>7
<1>5. QED
  BY <1>1, <1>3, <1>4 DEF Tried

\* A try of the action that was hashed last leaves the hashes in the order of the posts.
LEMMA TriedInOrder ==
  ASSUME TransportInv, thread = "acts", action \in Actions, Tried, NEW queue \in Seq(Actions), queue = hashes
  PROVE  InOrder(queue)'
<1>1. LinkTypes /\ HashInv
  BY DEF TransportInv
<1>2. Len(queue) \in Nat /\ DOMAIN queue = 1..Len(queue)
  OBVIOUS
<1>3. \A j, k \in DOMAIN queue : j < k =>
        queue[j] # queue[k] /\ \A m \in Copies(queue[j]) : \A n \in Copies(queue[k]) : m < n
  BY <1>1 DEF HashInv, InOrder
<1>4. action \in contentQueue => queue[Len(queue)] = action /\ Len(queue) \in DOMAIN queue
  BY <1>1, <1>2 DEF HashInv
<1>5. ASSUME NEW j \in DOMAIN queue, NEW k \in DOMAIN queue, j < k,
             NEW m \in DOMAIN server', NEW n \in DOMAIN server', server'[m] = queue[j], server'[n] = queue[k]
      PROVE  m < n
  <2>1. m \in DOMAIN server /\ server[m] = queue[j]
    <3>1. SUFFICES ASSUME m \notin DOMAIN server PROVE FALSE
      BY <1>5, TriedServer
    <3>2. queue[j] = action /\ queue[Len(queue)] = action /\ Len(queue) \in DOMAIN queue
      BY <1>4, <1>5, <3>1, TriedServer
    <3>3. j < Len(queue)
      BY <1>2, <1>5
    <3>4. QED
      BY <1>3, <3>2, <3>3
  <2>2. CASE n \in DOMAIN server
    <3>1. server[n] = queue[k]
      BY <1>5, <2>2, TriedServer
    <3>2. m \in Copies(queue[j]) /\ n \in Copies(queue[k])
      BY <2>1, <2>2, <3>1 DEF Copies
    <3>3. QED
      BY <1>3, <1>5, <3>2
  <2>3. CASE n \notin DOMAIN server
    BY <2>1, <2>3, TriedServer
  <2>4. QED
    BY <2>2, <2>3
<1>6. \A j, k \in DOMAIN queue : j < k =>
        /\ queue[j] # queue[k]
        /\ \A m \in {x \in DOMAIN server' : server'[x] = queue[j]} :
           \A n \in {x \in DOMAIN server' : server'[x] = queue[k]} : m < n
  BY <1>3, <1>5
<1>7. QED
  BY <1>6 DEF InOrder, Copies

\* The reports: only the action under way may get its only one.
LEMMA PostStepDone ==
  ASSUME TransportInv, PostStep
  PROVE  /\ done' \in [Actions -> Seq({"SENT", "FAILED"})]
         /\ done[action] = <<>>
         /\ \A b \in Actions : b # action => done'[b] = done[b]
         /\ \/ thread' = "acts" /\ done'[action] = <<>>
            \/ /\ thread' = "wants" /\ done'[action] = <<"SENT">> /\ done'[action] # <<>>
               /\ server' = Append(server, action)
            \/ /\ thread' = "wants" /\ done'[action] = <<"FAILED">> /\ done'[action] # <<>>
               /\ UNCHANGED server \/ action \in unheard'
<1>1. LinkTypes /\ PendingInv /\ thread = "acts" /\ action \in Actions /\ (PostGoesOn \/ PostEnds)
  BY DEF TransportInv, PostStep
<1>2. done[action] = <<>> /\ done \in [Actions -> Seq({"SENT", "FAILED"})]
  BY <1>1 DEF PendingInv, LinkTypes
<1>3. CASE PostGoesOn
  BY <1>1, <1>2, <1>3 DEF PostGoesOn
<1>4. CASE PostEnds
  <2>1. PICK s \in {"SENT", "FAILED"} :
          /\ Status(action, s) /\ thread' = "wants"
          /\ s = "SENT" => server' = Append(server, action)
          /\ s = "FAILED" => UNCHANGED server \/ action \in unheard'
    BY <1>4 DEF PostEnds
  <2>2. /\ done' \in [Actions -> Seq({"SENT", "FAILED"})] /\ done'[action] = <<s>> /\ done'[action] # <<>>
        /\ \A b \in Actions : b # action => done'[b] = done[b]
    BY <1>1, <1>2, <2>1, FirstStatus
  <2>3. QED
    BY <1>2, <2>1, <2>2
<1>5. QED
  BY <1>1, <1>3, <1>4

LEMMA PostStepHashes ==
  ASSUME TransportInv, PostStep
  PROVE  /\ hashes' \in Seq(Actions) /\ InOrder(hashes)'
         /\ Elems(hashes') \subseteq Elems(hashes) /\ Elems(hashes) \ {action} \subseteq Elems(hashes')
         /\ hashes' # hashes => UNCHANGED server \/ action \in unheard'
         /\ thread' = "acts" => hashes' = hashes
<1>1. LinkTypes /\ HashInv /\ thread = "acts" /\ action \in Actions /\ (PostGoesOn \/ PostEnds)
  BY DEF TransportInv, PostStep
<1>2. /\ \/ hashes' = hashes
         \/ hashes' = RemoveHash(hashes, action) /\ thread' = "wants"
      /\ hashes' # hashes => UNCHANGED server \/ action \in unheard'
      /\ thread' = "acts" => hashes' = hashes
  BY <1>1 DEF PostGoesOn, PostEnds
<1>3. PICK queue \in Seq(Actions) : queue = hashes
  BY <1>1 DEF LinkTypes
<1>4. Len(queue) \in Nat /\ DOMAIN queue = 1..Len(queue)
  BY <1>3
<1>5. InOrder(queue)'
  BY <1>1, <1>3, TriedInOrder DEF PostStep
<1>6. CASE hashes' = hashes
  BY <1>2, <1>3, <1>5, <1>6 DEF InOrder, Copies
<1>7. CASE hashes' = RemoveHash(hashes, action)
  <2>1. PICK a \in Actions : a = action
    BY <1>1
  <2>2. PICK new : new = RemoveHash(queue, a)
    OBVIOUS
  <2>3. hashes' = new
    BY <1>3, <1>7, <2>1, <2>2
  <2>4. InOrder(new)'
    BY <1>5, <2>2, InOrderAfterRemoval
  <2>5. new \in Seq(Actions) /\ Elems(queue) \ {a} \subseteq Elems(new) /\ Elems(new) \subseteq Elems(queue)
    <3>1. /\ new \in Seq(Actions) /\ Elems(queue) \ {a} \subseteq Elems(new)
          /\ \E p \in [DOMAIN new -> DOMAIN queue] : \A k \in DOMAIN new : new[k] = queue[p[k]]
      BY <2>2, HashRemoved
    <3>2. QED
      BY <3>1 DEF Elems
  <2>6. InOrder(hashes)'
    BY <2>3, <2>4 DEF InOrder, Copies
  <2>7. QED
    BY <1>2, <1>3, <2>1, <2>3, <2>5, <2>6
<1>8. QED
  BY <1>2, <1>6, <1>7

LEMMA PostStepKeeps ==
  ASSUME TransportInv, PostStep
  PROVE  TransportInv'
<1>1. /\ thread = "acts" /\ action \in Actions /\ Tried /\ (PostGoesOn \/ PostEnds)
      /\ UNCHANGED <<saved, contentQueue, actionQueue, action, latest, queued, received, earlier, forgotten, unfinished, dropped, reread>>
  BY DEF PostStep
<1>2. LinkTypes /\ PendingInv /\ CopyInv /\ LifeInv /\ ReportInv /\ PlacesInv /\ HashInv /\ OwnPostsAreKnown
  BY DEF TransportInv
<1>3. /\ server' \in Seq(Actions \union Foreign) /\ Len(server') \in Nat /\ Len(server) <= Len(server')
      /\ unheard \subseteq unheard'
      /\ \A n \in DOMAIN server : n \in DOMAIN server' /\ server'[n] = server[n]
      /\ \A n \in DOMAIN server' : n \in DOMAIN server \/ (n = Len(server) + 1 /\ server'[n] = action)
      /\ \A n \in DOMAIN server' : n \notin DOMAIN server => action \in contentQueue
      /\ server' # server => Len(server) + 1 \in DOMAIN server' /\ server'[Len(server) + 1] = action
  BY <1>1, TriedServer
<1>4. /\ done' \in [Actions -> Seq({"SENT", "FAILED"})]
      /\ done[action] = <<>>
      /\ \A b \in Actions : b # action => done'[b] = done[b]
      /\ \/ thread' = "acts" /\ done'[action] = <<>>
         \/ /\ thread' = "wants" /\ done'[action] = <<"SENT">> /\ done'[action] # <<>>
            /\ server' = Append(server, action)
         \/ /\ thread' = "wants" /\ done'[action] = <<"FAILED">> /\ done'[action] # <<>>
            /\ UNCHANGED server \/ action \in unheard'
  BY PostStepDone
<1>5. /\ hashes' \in Seq(Actions) /\ InOrder(hashes)'
      /\ Elems(hashes') \subseteq Elems(hashes) /\ Elems(hashes) \ {action} \subseteq Elems(hashes')
      /\ hashes' # hashes => UNCHANGED server \/ action \in unheard'
      /\ thread' = "acts" => hashes' = hashes
  BY PostStepHashes
<1>6. action \notin unheard => \A n \in DOMAIN server : server[n] # action
  <2>1. Copies(action) # {} => done[action] # <<>> \/ action \in dropped \/ action \in unheard
    BY <1>1, <1>2 DEF CopyInv
  <2>2. action \notin dropped
    <3>1. action \in queued
      BY <1>1, <1>2 DEF PendingInv
    <3>2. QED
      BY <1>2, <3>1 DEF LifeInv
  <2>3. QED
    BY <1>4, <2>1, <2>2 DEF Copies
<1>7. \A b \in Actions : b # action =>
        {n \in DOMAIN server' : server'[n] = b} = {n \in DOMAIN server : server[n] = b}
  BY <1>3
<1>8. LinkTypes'
  <2>1. saved' >= -1 /\ saved' <= Len(server') /\ latest' <= Len(server')
    <3>1. saved \in Int /\ saved >= -1 /\ saved <= Len(server) /\ latest \in Nat /\ latest <= Len(server) /\ Len(server) \in Nat
      BY <1>2 DEF LinkTypes
    <3>2. QED
      BY <1>1, <1>3, <3>1
  <2>2. (\A p \in unfinished : p \in Nat \ {0} /\ p <= Len(server))'
    <3>1. Len(server) \in Nat /\ \A p \in unfinished : p \in Nat \ {0} /\ p <= Len(server)
      BY <1>2 DEF LinkTypes
    <3>2. QED
      BY <1>1, <1>3, <3>1
  <2>3. QED
    BY <1>1, <1>2, <1>3, <1>4, <1>5, <2>1, <2>2 DEF LinkTypes
<1>9. PendingInv'
  <2>1. \A k \in DOMAIN actionQueue : actionQueue[k] \in Actions =>
          actionQueue[k] \in queued /\ done[actionQueue[k]] = <<>> /\ actionQueue[k] # action
    BY <1>1, <1>2 DEF PendingInv
  <2>2. \A k \in DOMAIN actionQueue : actionQueue[k] \in Actions =>
          actionQueue[k] \in queued /\ done'[actionQueue[k]] = <<>> /\ actionQueue[k] # action
    BY <1>4, <2>1
  <2>3. /\ \A k, j \in DOMAIN actionQueue : k # j /\ actionQueue[k] \in Actions => actionQueue[k] # actionQueue[j]
        /\ action \in queued
    BY <1>1, <1>2 DEF PendingInv
  <2>4. QED
    BY <1>1, <1>4, <2>2, <2>3 DEF PendingInv
<1>10. CopyInv'
  <2>1. ASSUME NEW a \in Actions, {n \in DOMAIN server' : server'[n] = a} # {}
        PROVE  done'[a] # <<>> \/ a \in dropped' \/ (thread' = "acts" /\ action' = a /\ a \in unheard')
    <3>1. CASE a = action
      <4>1. CASE thread' = "acts"
        <5>1. CASE UNCHANGED server
          BY <1>1, <1>3, <1>6, <2>1, <3>1, <4>1, <5>1
        <5>2. CASE ~(UNCHANGED server)
          <6>1. action \in unheard'
            BY <1>1, <4>1, <5>2 DEF PostGoesOn, PostEnds
          <6>2. QED
            BY <1>1, <3>1, <4>1, <6>1
        <5>3. QED
          BY <5>1, <5>2
      <4>2. CASE thread' # "acts"
        BY <1>4, <3>1, <4>2
      <4>3. QED
        BY <4>1, <4>2
    <3>2. CASE a # action
      <4>1. Copies(a) # {}
        BY <1>7, <2>1, <3>2 DEF Copies
      <4>2. done[a] # <<>> \/ a \in dropped
        BY <1>2, <3>2, <4>1 DEF CopyInv
      <4>3. QED
        BY <1>1, <1>4, <3>2, <4>2
    <3>3. QED
      BY <3>1, <3>2
  <2>2. ASSUME NEW m \in DOMAIN server', NEW n \in DOMAIN server', server'[m] = server'[n],
               server'[m] \in Actions \ unheard'
        PROVE  m = n
    <3>1. CASE server'[m] = action
      <4>1. m \notin DOMAIN server /\ n \notin DOMAIN server
        BY <1>3, <1>6, <2>2, <3>1
      <4>2. QED
        BY <1>3, <4>1
    <3>2. CASE server'[m] # action
      <4>1. m \in DOMAIN server /\ n \in DOMAIN server
        BY <1>3, <2>2, <3>2
      <4>2. QED
        BY <1>2, <1>3, <2>2, <4>1 DEF CopyInv
    <3>3. QED
      BY <3>1, <3>2
  <2>3. QED
    BY <2>1, <2>2 DEF CopyInv, Copies
<1>11. LifeInv' /\ PlacesInv'
  <2>1. LifeInv'
    BY <1>1, <1>2, <1>4 DEF LifeInv
  <2>2. AtWork /\ AtWork'
    BY <1>1, <1>4 DEF AtWork
  <2>3. QED
    BY <1>1, <1>2, <2>1, <2>2 DEF PlacesInv
<1>12. ReportInv'
  <2>1. ASSUME NEW a \in Actions
        PROVE  /\ done'[a] \in {<<>>, <<"SENT">>, <<"FAILED">>}
               /\ done'[a] = <<"SENT">> => {n \in DOMAIN server' : server'[n] = a} # {}
               /\ done'[a] = <<"FAILED">> /\ a \notin unheard' => {n \in DOMAIN server' : server'[n] = a} = {}
    <3>1. CASE a = action
      <4>1. <<"SENT">> # <<"FAILED">> /\ <<>> # <<"SENT">> /\ <<>> # <<"FAILED">>
        OBVIOUS
      <4>2. CASE thread' = "acts"
        BY <1>4, <3>1, <4>1, <4>2
      <4>3. CASE done'[action] = <<"SENT">> /\ server' = Append(server, action)
        <5>1. server' # server
          <6>1. Len(server) \in Nat /\ Len(server') = Len(server) + 1
            BY <1>1, <1>2, <4>3, AppendPost
          <6>2. QED
            BY <6>1
        <5>2. QED
          BY <1>3, <3>1, <4>1, <4>3, <5>1
      <4>4. CASE done'[action] = <<"FAILED">> /\ (UNCHANGED server \/ action \in unheard')
        BY <1>3, <1>6, <3>1, <4>1, <4>4
      <4>5. QED
        BY <1>4, <4>2, <4>3, <4>4
    <3>2. CASE a # action
      BY <1>2, <1>3, <1>4, <1>7, <3>2 DEF ReportInv, Copies
    <3>3. QED
      BY <3>1, <3>2
  <2>2. QED
    BY <2>1 DEF ReportInv, Copies
<1>13. HashInv'
  <2>1. \A n \in DOMAIN server' : n > latest /\ server'[n] \in queued \ (unheard' \union forgotten) => server'[n] \in Elems(hashes')
    <3> SUFFICES ASSUME NEW n \in DOMAIN server', n > latest, server'[n] \in queued \ (unheard' \union forgotten)
                 PROVE  server'[n] \in Elems(hashes')
      OBVIOUS
    <3>1. CASE server'[n] = action
      <4>1. n \notin DOMAIN server /\ action \in contentQueue
        BY <1>3, <1>6, <3>1
      <4>2. hashes' = hashes
        BY <1>5, <3>1, <4>1
      <4>3. hashes # <<>> /\ hashes[Len(hashes)] = action /\ hashes \in Seq(Actions)
        BY <1>1, <1>2, <4>1 DEF HashInv, LinkTypes
      <4>4. Len(hashes) \in DOMAIN hashes
        BY <4>3
      <4>5. QED
        BY <3>1, <4>2, <4>3, <4>4 DEF Elems
    <3>2. CASE server'[n] # action
      <4>1. n \in DOMAIN server /\ server'[n] = server[n]
        BY <1>3, <3>2
      <4>2. Covered(hashes, latest)
        BY <1>1, <1>2 DEF HashInv, AtWork
      <4>3. server[n] \in Elems(hashes)
        BY <1>3, <4>1, <4>2 DEF Covered
      <4>4. QED
        BY <1>5, <3>2, <4>1, <4>3
    <3>3. QED
      BY <3>1, <3>2
  <2>2. (AtWork => Covered(hashes, latest))'
    BY <1>1, <2>1 DEF Covered, Elems
  <2>3. \A b \in Elems(hashes) : b \in Actions /\ (done[b] # <<>> \/ b = action)
    BY <1>1, <1>2 DEF HashInv, LinkTypes, Elems
  <2>4. \A b \in Elems(hashes') : done'[b] # <<>> \/ (thread' = "acts" /\ action' = b)
    <3> TAKE b \in Elems(hashes')
    <3>1. b \in Actions /\ (done[b] # <<>> \/ b = action)
      BY <1>5, <2>3
    <3>2. QED
      BY <1>1, <1>4, <3>1
  <2>5. (thread = "acts" /\ action \in contentQueue => hashes # <<>> /\ hashes[Len(hashes)] = action)'
    BY <1>1, <1>2, <1>5 DEF HashInv
  <2>6. QED
    BY <1>5, <2>2, <2>4, <2>5 DEF HashInv, Elems
<1>14. OwnPostsAreKnown'
  BY <1>1, <1>2, <1>3, ReceivedPlaces DEF OwnPostsAreKnown
<1>15. QED
  BY <1>1, <1>8, <1>9, <1>10, <1>11, <1>12, <1>13, <1>14, LinkFrames DEF TransportInv

\* The three steps of postOnActionThread.
LEMMA PostStepsKeep ==
  ASSUME TransportInv, PostMissesContent \/ TryFails \/ TrySucceeds
  PROVE  TransportInv'
<1>1. PostStep
  <2>1. contentQueue \subseteq Actions
    BY DEF TransportInv, LinkTypes
  <2>2. CASE PostMissesContent
    BY <2>2 DEF PostMissesContent, EndAction, PostStep, PostEnds, Tried
  <2>3. CASE TryFails
    <3>1. /\ thread = "acts" /\ action \in Actions
          /\ UNCHANGED <<saved, contentQueue, actionQueue, action, latest, queued, received, earlier, forgotten, unfinished, dropped, reread>>
      BY <2>1, <2>3 DEF TryFails
    <3>2. Tried /\ (UNCHANGED server \/ action \in unheard')
      BY <2>3 DEF TryFails, Tried
    <3>3. CASE tries' = MaxTries
      BY <2>3, <3>1, <3>2, <3>3 DEF TryFails, EndAction, PostStep, PostEnds
    <3>4. CASE tries' # MaxTries
      BY <2>3, <3>1, <3>2, <3>4 DEF TryFails, PostStep, PostGoesOn
    <3>5. QED
      BY <3>3, <3>4
  <2>4. CASE TrySucceeds
    BY <2>1, <2>4 DEF TrySucceeds, EndAction, PostStep, PostEnds, Tried
  <2>5. QED
    BY <2>2, <2>3, <2>4
<1>2. QED
  BY <1>1, PostStepKeeps

\* One post looked up: what is left has the hashes of the posts after it.
LEMMA SiftOne ==
  ASSUME LinkTypes, CopyInv, NEW queue \in Seq(Actions), InOrder(queue),
         NEW p \in 1..Len(server), Covered(queue, p - 1)
  PROVE  LET new == FindAndRemove(queue, server[p])
         IN  new \in Seq(Actions) /\ InOrder(new) /\ Covered(new, p) /\ Elems(new) \subseteq Elems(queue)
<1> DEFINE m == server[p]
           new == FindAndRemove(queue, m)
           N == Len(queue)
           K == FirstPlace(queue, m)
<1>1. /\ N \in Nat /\ DOMAIN queue = 1..N /\ \A k \in 1..N : queue[k] \in Actions
      /\ DOMAIN server = 1..Len(server) /\ Len(server) \in Nat /\ queued \subseteq Actions
  BY DEF LinkTypes
<1>2. \A n \in DOMAIN server : n > p /\ server[n] \in queued \ (unheard \union forgotten) =>
        /\ server[n] \in Elems(queue) /\ server[n] # m
  <2> TAKE n \in DOMAIN server
  <2> SUFFICES ASSUME n > p, server[n] \in queued \ (unheard \union forgotten)
               PROVE  server[n] \in Elems(queue) /\ server[n] # m
    OBVIOUS
  <2>1. n > p - 1
    BY <1>1
  <2>2. server[n] \in Elems(queue)
    BY <2>1 DEF Covered
  <2>3. server[n] # m
    <3> SUFFICES ASSUME server[n] = server[p] PROVE FALSE
      OBVIOUS
    <3>1. n = p
      BY <1>1 DEF CopyInv
    <3>2. QED
      BY <1>1, <3>1
  <2>4. QED
    BY <2>2, <2>3
<1>3. CASE m \notin Elems(queue)
  <2>1. new = queue
    BY <1>3 DEF FindAndRemove
  <2>2. Covered(queue, p)
    BY <1>2 DEF Covered
  <2>3. QED
    BY <2>1, <2>2
<1>4. CASE m \in Elems(queue)
  <2>1. K \in 1..N /\ queue[K] = m
    BY <1>1, <1>4, FirstPlaceIs
  <2>2. new = SubSeq(queue, K + 1, N)
    BY <1>4 DEF FindAndRemove
  <2> HIDE DEF K
  <2>3. /\ new \in Seq(Actions) /\ DOMAIN new = 1..N - K
        /\ \A k \in 1..N - K : new[k] = queue[k + K]
    <3>1. N - K \in Nat /\ K + 1 \in 1..N + 1
      BY <1>1, <2>1
    <3>2. \A k \in K + 1..N : queue[k] \in Actions
      BY <1>1, <2>1
    <3>3. K + 1 \in Int /\ N \in Int
      BY <1>1, <2>1
    <3>4. /\ new \in Seq(Actions)
          /\ Len(new) = IF K + 1 <= N THEN N - (K + 1) + 1 ELSE 0
          /\ \A k \in 1..N - (K + 1) + 1 : new[k] = queue[K + 1 + k - 1]
      BY <2>2, <3>2, <3>3, SubSeqProperties
    <3> HIDE DEF new, N
    <3>5. (IF K + 1 <= N THEN N - (K + 1) + 1 ELSE 0) = N - K /\ N - (K + 1) + 1 = N - K
      <4>1. N \in Int /\ K \in Int /\ K <= N
        BY <1>1, <2>1
      <4>2. QED
        BY <4>1
    <3>6. \A k \in 1..N - K : K + 1 + k - 1 = k + K
      BY <1>1, <2>1
    <3>7. Len(new) = N - K
      BY <3>4, <3>5
    <3>8. \A k \in 1..N - K : new[k] = queue[k + K]
      BY <3>4, <3>5, <3>6
    <3>9. DOMAIN new = 1..N - K
      BY <3>4, <3>7
    <3>10. QED
      BY <3>4, <3>8, <3>9
  <2> HIDE DEF new
  <2>4. \A k \in DOMAIN new : k + K \in DOMAIN queue /\ new[k] = queue[k + K]
    BY <1>1, <2>1, <2>3
  <2>5. InOrder(new)
    <3>1. \A j, k \in DOMAIN new : j < k => j + K < k + K
      BY <2>1, <2>3
    <3>2. QED
      BY <2>4, <3>1 DEF InOrder
  <2>6. Covered(new, p)
    <3> SUFFICES ASSUME NEW n \in DOMAIN server, n > p, server[n] \in queued \ (unheard \union forgotten)
                 PROVE  server[n] \in Elems(new)
      BY DEF Covered
    <3>1. PICK j \in 1..N : queue[j] = server[n]
      BY <1>1, <1>2 DEF Elems
    <3>2. ~(j < K)
      <4> SUFFICES ASSUME j < K PROVE FALSE
        OBVIOUS
      <4>1. n \in Copies(queue[j]) /\ p \in Copies(queue[K])
        BY <1>1, <2>1, <3>1 DEF Copies
      <4>2. n < p
        BY <1>1, <2>1, <4>1 DEF InOrder
      <4>3. QED
        BY <1>1, <4>2
    <3>3. j # K
      BY <1>2, <2>1, <3>1
    <3>4. j - K \in 1..N - K /\ j - K + K = j
      BY <1>1, <2>1, <3>2, <3>3
    <3>5. new[j - K] = server[n]
      BY <2>3, <3>1, <3>4
    <3>6. QED
      BY <2>3, <3>4, <3>5 DEF Elems
  <2>7. Elems(new) \subseteq Elems(queue)
    BY <2>4 DEF Elems
  <2>8. QED
    BY <2>3, <2>5, <2>6, <2>7 DEF new
<1>5. QED
  BY <1>3, <1>4

\* What the recursion computes.
LEMMA SiftedStep ==
  ASSUME LinkTypes
  PROVE  /\ Sifted[0] = hashes
         /\ \A n \in 1..Len(server) - latest : Sifted[n] = FindAndRemove(Sifted[n - 1], server[latest + n])
<1> DEFINE N == Len(server) - latest
           V == Seq(Actions)
           step == [n \in 1..N |-> [v \in V |-> FindAndRemove(v, server[latest + n])]]
<1>1. N \in Nat /\ hashes \in V
  BY DEF LinkTypes
<1>2. \A n \in 1..N : \A v \in V : FindAndRemove(v, server[latest + n]) \in V
  <2> SUFFICES ASSUME NEW v \in Seq(Actions), NEW m PROVE FindAndRemove(v, m) \in Seq(Actions)
    OBVIOUS
  <2>1. CASE m \in Elems(v)
    <3>1. FirstPlace(v, m) \in 1..Len(v)
      BY <2>1, FirstPlaceIs
    <3>2. PICK k \in 1..Len(v) : k = FirstPlace(v, m)
      BY <3>1
    <3>3. SubSeq(v, k + 1, Len(v)) \in Seq(Actions)
      <4>1. k + 1 \in Nat /\ Len(v) \in Nat /\ \A j \in k + 1..Len(v) : v[j] \in Actions
        OBVIOUS
      <4>2. QED
        BY <4>1
    <3>4. QED
      BY <2>1, <3>2, <3>3 DEF FindAndRemove
  <2>2. QED
    BY <2>1 DEF FindAndRemove
<1> HIDE DEF N, V
<1>3. step \in [1..N -> [V -> V]]
  BY <1>2
<1> HIDE DEF step
<1>4. Recursive(N, V, hashes, step)
  BY <1>1, <1>3, Recursion
<1>5. PICK f \in [0..N -> V] : f[0] = hashes /\ \A n \in 1..N : f[n] = step[n][f[n - 1]]
  BY <1>4 DEF Recursive
<1>6. ASSUME NEW n \in 1..N PROVE f[n] = FindAndRemove(f[n - 1], server[latest + n])
  <2>1. n - 1 \in 0..N
    BY <1>1
  <2>2. f[n - 1] \in V
    BY <2>1
  <2>3. QED
    BY <1>5, <2>2 DEF step
<1>7. f = [n \in 0..N |-> IF n = 0 THEN hashes ELSE FindAndRemove(f[n - 1], server[latest + n])]
  <2>1. ASSUME NEW n \in 0..N
        PROVE  f[n] = IF n = 0 THEN hashes ELSE FindAndRemove(f[n - 1], server[latest + n])
    <3>1. n = 0 \/ n \in 1..N
      BY <1>1
    <3>2. QED
      BY <1>5, <1>6, <3>1
  <2>2. QED
    BY <2>1
<1>8. Sifted = [n \in 0..N |-> IF n = 0 THEN hashes ELSE FindAndRemove(Sifted[n - 1], server[latest + n])]
  BY <1>7 DEF Sifted, N
<1>9. QED
  <2>1. 0 \in 0..N /\ \A n \in 1..N : n \in 0..N /\ n # 0
    BY <1>1
  <2> DEFINE S == Sifted
  <2>2. S = [n \in 0..N |-> IF n = 0 THEN hashes ELSE FindAndRemove(S[n - 1], server[latest + n])]
    BY <1>8
  <2> HIDE DEF S
  <2>3. S[0] = hashes /\ \A n \in 1..N : S[n] = FindAndRemove(S[n - 1], server[latest + n])
    BY <2>1, <2>2
  <2>4. QED
    BY <2>3 DEF S, N

\* While the new posts are looked up, the hashes of those still to come stay.
LEMMA SiftedFits ==
  ASSUME LinkTypes, CopyInv, InOrder(hashes), Covered(hashes, latest)
  PROVE  \A n \in 0..Len(server) - latest :
           /\ Sifted[n] \in Seq(Actions) /\ InOrder(Sifted[n])
           /\ Covered(Sifted[n], latest + n) /\ Elems(Sifted[n]) \subseteq Elems(hashes)
<1> DEFINE N == Len(server) - latest
           Fits(n) == /\ Sifted[n] \in Seq(Actions) /\ InOrder(Sifted[n])
                      /\ Covered(Sifted[n], latest + n) /\ Elems(Sifted[n]) \subseteq Elems(hashes)
           T == {n \in 0..N : Fits(n)}
<1>1. N \in Nat /\ latest \in Nat /\ Len(server) \in Nat /\ hashes \in Seq(Actions)
  BY DEF LinkTypes
<1>2. 0 \in T
  <2>1. Sifted[0] = hashes /\ latest + 0 = latest
    BY <1>1, SiftedStep
  <2>2. QED
    BY <1>1, <2>1
<1>3. ASSUME NEW n \in 1..N, n - 1 \in T PROVE n \in T
  <2>1. latest + n \in 1..Len(server) /\ latest + (n - 1) = latest + n - 1 /\ n \in 0..N
    BY <1>1
  <2>2. PICK queue \in Seq(Actions) :
          queue = Sifted[n - 1] /\ InOrder(queue) /\ Covered(queue, latest + n - 1) /\ Elems(queue) \subseteq Elems(hashes)
    BY <1>3, <2>1
  <2>3. PICK p \in 1..Len(server) : p = latest + n /\ p - 1 = latest + n - 1
    <3>1. latest + n = latest + n /\ (latest + n) - 1 = latest + n - 1
      BY <1>1
    <3>2. QED
      BY <2>1, <3>1
  <2>4. Covered(queue, p - 1)
    BY <2>2, <2>3
  <2>5. PICK new : new = FindAndRemove(queue, server[p])
    OBVIOUS
  <2>6. new \in Seq(Actions) /\ InOrder(new) /\ Covered(new, p) /\ Elems(new) \subseteq Elems(queue)
    BY <2>2, <2>4, <2>5, SiftOne
  <2>7. Sifted[n] = new
    BY <2>2, <2>3, <2>5, SiftedStep
  <2>8. Fits(n)
    BY <2>2, <2>3, <2>6, <2>7
  <2>9. QED
    BY <2>1, <2>8
<1> HIDE DEF T
<1>4. 0..N \subseteq T
  BY <1>1, <1>2, <1>3, SetInduction
<1>5. QED
  BY <1>4 DEF T

\* The posts that are handed over.
LEMMA HandedOver ==
  ASSUME LinkTypes, NEW handed
  PROVE  LET new == Only(NewPlaces, handed)
         IN  /\ new \in Seq(Nat \ {0})
             /\ \A k \in 1..Len(new) : new[k] \in handed
             /\ \A j, k \in 1..Len(new) : j < k => new[j] < new[k]
<1> DEFINE N == Len(server) - latest
           new == Only(NewPlaces, handed)
<1>1. latest \in Nat /\ N \in Nat /\ Len(server) \in Nat
  BY DEF LinkTypes
<1>2. /\ NewPlaces \in Seq(Nat \ {0}) /\ Len(NewPlaces) = N
      /\ \A n \in 1..N : NewPlaces[n] = latest + n
  <2> HIDE DEF N
  <2>1. NewPlaces = [n \in 1..N |-> latest + n]
    BY DEF NewPlaces, N
  <2>2. \A n \in 1..N : latest + n \in Nat \ {0}
    BY <1>1
  <2>3. QED
    BY <1>1, <2>1, <2>2
<1>3. new \in Seq(Nat \ {0})
  BY <1>2, OnlyOfAppend
<1>4. PICK p \in [1..Len(new) -> 1..Len(NewPlaces)] :
        /\ \A k \in 1..Len(new) : new[k] = NewPlaces[p[k]] /\ NewPlaces[p[k]] \in handed
        /\ \A j, k \in 1..Len(new) : j < k => p[j] < p[k]
  BY <1>2, OnlyPlaces
<1> HIDE DEF new, N
<1>5. \A k \in 1..Len(new) : p[k] \in 1..N /\ new[k] = latest + p[k] /\ new[k] \in handed
  BY <1>2, <1>4
<1>6. \A j, k \in 1..Len(new) : j < k => new[j] < new[k]
  <2> TAKE j, k \in 1..Len(new)
  <2>1. p[j] \in Nat /\ p[k] \in Nat
    BY <1>1, <1>5
  <2>2. j < k => p[j] < p[k]
    BY <1>4
  <2>3. QED
    BY <1>1, <1>5, <2>1, <2>2
<1>7. QED
  BY <1>3, <1>5, <1>6 DEF new

\* A fetch looks up the first n of the new posts and hands some of them over; either it has saved its
\* index then, or these are known as unfinished.
HandOver(handed, n) ==
  /\ thread = "acts" /\ action = Fetch /\ thread' = "wants"
  /\ hashes' = Sifted[n] /\ received' = received \o Only(NewPlaces, handed)
  /\ saved' \in Int /\ saved <= saved' /\ saved' <= Len(server)
  /\ latest' \in Nat /\ latest <= latest' /\ latest' <= Len(server)
  /\ unfinished \subseteq unfinished' /\ unfinished' \subseteq unfinished \union handed
  /\ \/ handed \subseteq unfinished'
     \/ latest' = Len(server) /\ (latest < Len(server) => saved' = Len(server))
  /\ forgotten \subseteq forgotten'
  /\ UNCHANGED <<server, contentQueue, actionQueue, action, done, queued, earlier, unheard, dropped, reread>>

LEMMA HandOverKeeps ==
  ASSUME TransportInv, NEW handed \in SUBSET Unknown, NEW n \in 0..Len(server) - latest, HandOver(handed, n),
         Covered(hashes, latest)'
  PROVE  TransportInv'
<1> DEFINE N == Len(server) - latest
           new == Only(NewPlaces, handed)
           R == Len(received)
<1>1. /\ thread = "acts" /\ action = Fetch /\ thread' = "wants"
      /\ hashes' = Sifted[n] /\ received' = received \o new
      /\ unfinished \subseteq unfinished' /\ unfinished' \subseteq unfinished \union handed
      /\ forgotten \subseteq forgotten'
      /\ UNCHANGED <<server, contentQueue, actionQueue, action, done, queued, earlier, unheard, dropped, reread>>
  BY DEF HandOver
<1>2. /\ LinkTypes /\ PendingInv /\ CopyInv /\ LifeInv /\ ReportInv /\ PlacesInv /\ HashInv
      /\ EachPostReadOnce /\ OwnPostsAreKnown /\ Fetch \notin Actions
  BY TransportAssumption DEF TransportInv
<1>3. N \in Nat /\ latest \in Nat /\ Len(server) \in Nat /\ latest <= Len(server) /\ saved \in Int /\ saved <= Len(server)
  BY <1>2 DEF LinkTypes
<1>4. \A k \in 0..N :
        /\ Sifted[k] \in Seq(Actions) /\ InOrder(Sifted[k])
        /\ Covered(Sifted[k], latest + k) /\ Elems(Sifted[k]) \subseteq Elems(hashes)
  BY <1>1, <1>2, SiftedFits DEF HashInv, AtWork
<1>5. /\ new \in Seq(Nat \ {0})
      /\ \A k \in 1..Len(new) : new[k] \in handed
      /\ \A j, k \in 1..Len(new) : j < k => new[j] < new[k]
  BY <1>2, HandedOver
<1>6. \A k \in 1..Len(new) :
        /\ new[k] \in Nat \ {0} /\ latest < new[k] /\ new[k] <= Len(server) /\ new[k] \in handed
        /\ server[new[k]] \in queued => server[new[k]] \in unheard \union forgotten
  <2> TAKE k \in 1..Len(new)
  <2>1. new[k] \in latest + 1..Len(server) /\ server[new[k]] \notin Elems(Sifted[new[k] - latest - 1])
    BY <1>5 DEF Unknown
  <2>2. PICK p \in latest + 1..Len(server) : p = new[k]
    BY <2>1
  <2>3. p - latest - 1 \in 0..N /\ latest + (p - latest - 1) = p - 1 /\ p \in 1..Len(server) /\ p > p - 1
    BY <1>3
  <2>4. Covered(Sifted[p - latest - 1], p - 1)
    BY <1>4, <2>3
  <2>5. p \in DOMAIN server
    BY <1>2, <2>3 DEF LinkTypes
  <2>6. server[p] \in queued => server[p] \in unheard \union forgotten
    BY <2>1, <2>2, <2>3, <2>4, <2>5 DEF Covered
  <2>7. QED
    BY <1>3, <1>5, <2>2, <2>6
<1> HIDE DEF new
<1>7. /\ received' \in Seq(Nat \ {0}) /\ R \in Nat /\ Len(new) \in Nat
      /\ DOMAIN received' = 1..R + Len(new) /\ DOMAIN received = 1..R
      /\ \A k \in 1..R : received'[k] = received[k]
      /\ \A k \in R + 1..R + Len(new) : received'[k] = new[k - R]
  <2>1. received \in Seq(Nat \ {0})
    BY <1>2 DEF PlacesInv
  <2>2. QED
    BY <1>1, <1>5, <2>1
<1> HIDE DEF R
<1>8. \A k \in DOMAIN received' :
        \/ k \in DOMAIN received /\ received'[k] = received[k]
        \/ k \notin DOMAIN received /\ k - R \in 1..Len(new) /\ received'[k] = new[k - R]
  <2>1. \A k \in 1..R + Len(new) : k \in 1..R \/ (k \notin 1..R /\ k \in R + 1..R + Len(new) /\ k - R \in 1..Len(new))
    BY <1>7
  <2>2. QED
    BY <1>7, <2>1
<1>9. \A k \in DOMAIN received :
        received[k] \in Nat /\ (received[k] \in unfinished \/ (received[k] <= latest /\ received[k] <= saved))
  BY <1>2 DEF PlacesInv
<1>10. /\ saved <= saved' /\ saved' <= Len(server) /\ saved' \in Int
       /\ latest <= latest' /\ latest' <= Len(server) /\ latest' \in Nat
       /\ \/ handed \subseteq unfinished'
          \/ latest' = Len(server) /\ (latest < Len(server) => saved' = Len(server))
  BY DEF HandOver
<1>11. LinkTypes'
  <2>1. hashes' \in Seq(Actions)
    BY <1>1, <1>3, <1>4
  <2>2. saved >= -1 /\ saved' >= -1
    BY <1>2, <1>3, <1>10 DEF LinkTypes
  <2>3. (\A p \in unfinished : p \in Nat \ {0} /\ p <= Len(server))'
    <3>1. \A p \in handed : p \in Nat \ {0} /\ p <= Len(server)
      <4>1. \A p \in handed : p \in latest + 1..Len(server)
        BY DEF Unknown
      <4>2. QED
        BY <1>3, <4>1
    <3>2. \A p \in unfinished : p \in Nat \ {0} /\ p <= Len(server)
      BY <1>2 DEF LinkTypes
    <3>3. QED
      BY <1>1, <3>1, <3>2
  <2>4. QED
    BY <1>1, <1>2, <1>3, <1>10, <2>1, <2>2, <2>3 DEF LinkTypes
<1>12. PendingInv' /\ CopyInv' /\ LifeInv'
  <2>1. PendingInv'
    BY <1>1, <1>2 DEF PendingInv
  <2>2. CopyInv'
    BY <1>1, <1>2 DEF CopyInv, Copies
  <2>3. QED
    BY <1>1, <1>2, <2>1, <2>2 DEF LifeInv
<1>13. PlacesInv'
  <2>1. ASSUME NEW k \in DOMAIN received'
        PROVE  received'[k] \in unfinished' \/ (received'[k] <= latest' /\ received'[k] <= saved')
    <3>1. CASE k \in DOMAIN received
      <4>1. /\ received'[k] = received[k] /\ received[k] \in Nat
            /\ received[k] \in unfinished \/ (received[k] <= latest /\ received[k] <= saved)
        BY <1>8, <1>9, <3>1
      <4>2. QED
        BY <1>1, <1>3, <1>10, <4>1
    <3>2. CASE k \notin DOMAIN received
      <4>1. /\ received'[k] \in Nat /\ latest < received'[k] /\ received'[k] <= Len(server)
            /\ received'[k] \in handed
        BY <1>6, <1>8, <3>2
      <4>2. QED
        BY <1>1, <1>3, <1>10, <4>1
    <3>3. QED
      BY <3>1, <3>2
  <2>2. \A p \in earlier : p \in Nat \ {0} /\ (p \in unfinished \/ (p <= saved /\ (~reread => p <= latest)))
    BY <1>1, <1>2 DEF PlacesInv, AtWork
  <2>3. \A p \in earlier : p \in Nat \ {0} /\ (p \in unfinished' \/ (p <= saved' /\ (~reread => p <= latest')))
    <3> TAKE p \in earlier
    <3>1. p \in Nat \ {0} /\ (p \in unfinished \/ (p <= saved /\ (~reread => p <= latest)))
      BY <2>2
    <3>2. QED
      BY <1>1, <1>3, <1>10, <3>1
  <2>4. AtWork'
    BY <1>1 DEF AtWork
  <2>5. QED
    BY <1>1, <1>7, <2>1, <2>3, <2>4 DEF PlacesInv
<1>14. HashInv'
  <2>1. PICK left \in Seq(Actions) : left = Sifted[n] /\ InOrder(left) /\ Elems(left) \subseteq Elems(hashes)
    BY <1>4
  <2>2. hashes' = left
    BY <1>1, <2>1
  <2>3. InOrder(hashes)'
    BY <1>1, <2>1, <2>2 DEF InOrder, Copies
  <2>4. \A b \in Elems(hashes) : b \in Actions /\ done[b] # <<>>
    <3>1. \A b \in Elems(hashes) : b \in Actions
      BY <1>2 DEF LinkTypes, Elems
    <3>2. QED
      BY <1>1, <1>2, <3>1 DEF HashInv
  <2>5. \A b \in Elems(left) : done[b] # <<>>
    BY <2>1, <2>4
  <2>6. (\A b \in Elems(hashes) : done[b] # <<>> \/ thread = "none" \/ (thread = "acts" /\ action = b))'
    BY <1>1, <2>2, <2>5 DEF Elems
  <2>7. QED
    BY <1>1, <2>3, <2>6 DEF HashInv
<1>15. EachPostReadOnce'
  <2>1. ASSUME NEW j \in DOMAIN received', NEW k \in DOMAIN received', j < k
        PROVE  received'[j] < received'[k] \/ received'[j] \in unfinished'
    <3>1. CASE k \in DOMAIN received
      <4>1. j \in DOMAIN received
        BY <1>7, <2>1, <3>1
      <4>2. received[j] < received[k] \/ received[j] \in unfinished
        <5>1. \A m \in DOMAIN received : \A l \in DOMAIN received :
                m < l => received[m] < received[l] \/ received[m] \in unfinished
          BY <1>2 DEF EachPostReadOnce
        <5>2. QED
          BY <2>1, <3>1, <4>1, <5>1
      <4>3. QED
        BY <1>1, <1>8, <3>1, <4>1, <4>2
    <3>2. CASE k \notin DOMAIN received
      <4>1. k - R \in 1..Len(new) /\ received'[k] = new[k - R] /\ new[k - R] \in Nat /\ latest < new[k - R]
        BY <1>6, <1>8, <3>2
      <4>2. CASE j \in DOMAIN received
        <5>1. received'[j] = received[j] /\ received[j] \in Nat /\ (received[j] \in unfinished \/ received[j] <= latest)
          BY <1>8, <1>9, <4>2
        <5>2. QED
          BY <1>1, <1>3, <4>1, <5>1
      <4>3. CASE j \notin DOMAIN received
        <5>1. j - R \in 1..Len(new) /\ received'[j] = new[j - R]
          BY <1>8, <4>3
        <5>2. j - R < k - R
          BY <1>7, <2>1
        <5>3. QED
          BY <1>5, <4>1, <5>1, <5>2
      <4>4. QED
        BY <4>2, <4>3
    <3>3. QED
      BY <3>1, <3>2
  <2>2. ASSUME NEW k \in DOMAIN received', received'[k] \in earlier
        PROVE  reread \/ received'[k] \in unfinished'
    <3>1. CASE k \in DOMAIN received
      <4>1. \A l \in DOMAIN received : received[l] \in earlier => reread \/ received[l] \in unfinished
        BY <1>2 DEF EachPostReadOnce
      <4>2. QED
        BY <1>1, <1>8, <2>2, <3>1, <4>1
    <3>2. CASE k \notin DOMAIN received
      <4>1. received'[k] \in Nat /\ latest < received'[k]
        BY <1>6, <1>8, <3>2
      <4>2. received'[k] \in unfinished \/ (~reread => received'[k] <= latest)
        BY <1>1, <1>2, <2>2 DEF PlacesInv, AtWork
      <4>3. QED
        BY <1>1, <1>3, <4>1, <4>2
    <3>3. QED
      BY <3>1, <3>2
  <2>3. QED
    BY <1>1, <2>1, <2>2 DEF EachPostReadOnce
<1>16. OwnPostsAreKnown'
  <2>1. ASSUME NEW k \in DOMAIN received', server[received'[k]] \in queued
        PROVE  server[received'[k]] \in unheard \union forgotten
    <3>1. CASE k \in DOMAIN received
      <4>1. \A l \in DOMAIN received : server[received[l]] \in queued => server[received[l]] \in unheard \union forgotten
        BY <1>2 DEF OwnPostsAreKnown
      <4>2. QED
        BY <1>8, <2>1, <3>1, <4>1
    <3>2. CASE k \notin DOMAIN received
      BY <1>6, <1>8, <2>1, <3>2
    <3>3. QED
      BY <3>1, <3>2
  <2>2. QED
    BY <1>1, <2>1 DEF OwnPostsAreKnown
<1>17. QED
  BY <1>1, <1>11, <1>12, <1>13, <1>14, <1>15, <1>16, LinkFrames DEF TransportInv

LEMMA FetchSucceedsKeeps ==
  ASSUME TransportInv, FetchSucceeds
  PROVE  TransportInv'
<1> DEFINE N == Len(server) - latest
<1>1. /\ thread = "acts" /\ action = Fetch
      /\ hashes' = Sifted[N] /\ latest' = Len(server)
      /\ saved' = IF latest < Len(server) THEN Len(server) ELSE saved
      /\ UNCHANGED <<server, queued, unheard, forgotten>>
  BY DEF FetchSucceeds, SetLatest
<1>2. LinkTypes /\ CopyInv /\ HashInv
  BY DEF TransportInv
<1>3. N \in 0..N /\ latest + N = Len(server) /\ latest \in Nat /\ Len(server) \in Nat /\ latest <= Len(server)
      /\ saved \in Int /\ saved <= Len(server)
  BY <1>2 DEF LinkTypes
<1>4. HandOver(Unknown, N)
  <2>1. saved' \in Int /\ saved <= saved' /\ saved' <= Len(server)
    BY <1>1, <1>3
  <2>2. QED
    BY <1>1, <1>3, <2>1 DEF HandOver, FetchSucceeds
<1>5. Covered(hashes, latest)'
  <2>1. Covered(Sifted[N], latest + N)
    BY <1>1, <1>2, <1>3, SiftedFits DEF HashInv, AtWork
  <2>2. QED
    BY <1>1, <1>3, <2>1 DEF Covered, Elems
<1> HIDE DEF N
<1>6. QED
  <2>1. PICK handed \in SUBSET Unknown : handed = Unknown
    OBVIOUS
  <2>2. N \in 0..Len(server) - latest
    BY <1>3 DEF N
  <2>3. HandOver(handed, N)
    BY <1>4, <2>1
  <2>4. QED
    BY <1>5, <2>2, <2>3, HandOverKeeps

LEMMA FetchStopsKeeps ==
  ASSUME TransportInv, FetchStops
  PROVE  TransportInv'
<1>1. PICK p \in Undecodable :
        /\ hashes' = Sifted[p - latest]
        /\ received' = received \o Only(NewPlaces, HandedBefore(p))
        /\ unfinished' = unfinished \union HandedBefore(p)
  BY DEF FetchStops
<1>2. /\ thread = "acts" /\ action = Fetch /\ thread' = "wants"
      /\ forgotten' = forgotten \union (Elems(hashes) \ Elems(hashes'))
      /\ UNCHANGED <<server, saved, contentQueue, actionQueue, action, latest, done, queued, earlier, unheard,
                     dropped, reread>>
  BY DEF FetchStops, FetchEndsInError
<1>3. LinkTypes /\ HashInv
  BY DEF TransportInv
<1>4. latest \in Nat /\ Len(server) \in Nat /\ latest <= Len(server) /\ saved \in Int /\ saved <= Len(server)
  BY <1>3 DEF LinkTypes
<1>5. PICK n \in 0..Len(server) - latest : n = p - latest
  <2>1. p \in latest + 1..Len(server)
    BY DEF Undecodable, Unknown
  <2>2. QED
    BY <1>4, <2>1
<1>6. PICK handed \in SUBSET Unknown : handed = HandedBefore(p)
  BY DEF HandedBefore
<1>7. HandOver(handed, n)
  BY <1>1, <1>2, <1>4, <1>5, <1>6 DEF HandOver
<1>8. Covered(hashes, latest)'
  <2>1. \A m \in DOMAIN server : m > latest /\ server[m] \in queued \ (unheard \union forgotten) =>
          server[m] \in Elems(hashes)
    BY <1>2, <1>3 DEF HashInv, Covered, AtWork
  <2>2. \A m \in DOMAIN server : m > latest /\ server[m] \in queued \ (unheard \union forgotten') =>
          server[m] \in Elems(hashes')
    BY <1>2, <2>1
  <2>3. QED
    BY <1>2, <2>2 DEF Covered, Elems
<1>9. QED
  BY <1>7, <1>8, HandOverKeeps

\* The link dies: it has nothing queued any more, and the post under way may have reached the server.
LEMMA CrashKeeps ==
  ASSUME TransportInv, Crash
  PROVE  TransportInv'
<1>1. /\ thread' = "none" /\ dropped' = dropped \union {a \in queued : done[a] = <<>>}
      /\ queued' = {} /\ received' = <<>>
      /\ UNCHANGED <<saved, contentQueue, actionQueue, action, latest, hashes, done, forgotten, reread>>
      /\ PostOnItsWay \/ UNCHANGED <<server, unheard>>
  BY DEF Crash
<1>2. PICK places \in HandedByNow :
        /\ earlier' = earlier \union Elems(received) \union places
        /\ unfinished' = unfinished \union places
  BY DEF Crash
<1>3. /\ LinkTypes /\ PendingInv /\ CopyInv /\ LifeInv /\ ReportInv /\ PlacesInv /\ HashInv
  BY DEF TransportInv
<1>4. latest \in Nat /\ Len(server) \in Nat /\ contentQueue \subseteq Actions
  BY <1>3 DEF LinkTypes
<1>5. \A p \in places : p \in Nat \ {0} /\ p <= Len(server)
  <2>1. places \subseteq Unknown
    BY DEF HandedByNow, HandedBefore
  <2>2. \A p \in Unknown : p \in latest + 1..Len(server)
    BY DEF Unknown
  <2>3. QED
    BY <1>4, <2>1, <2>2
<1>6. /\ server' \in Seq(Actions \union Foreign) /\ Len(server') \in Nat /\ Len(server) <= Len(server')
      /\ unheard \subseteq unheard'
      /\ \A n \in DOMAIN server : n \in DOMAIN server' /\ server'[n] = server[n]
      /\ \A n \in DOMAIN server' : n \in DOMAIN server \/
           (server'[n] = action /\ action \in Actions /\ action \in unheard' /\ thread = "acts")
      /\ InOrder(hashes)'
  <2>1. CASE UNCHANGED <<server, unheard>>
    <3>1. InOrder(hashes)'
      BY <1>1, <2>1, LinkFrames
    <3>2. QED
      BY <1>3, <1>4, <2>1, <3>1 DEF LinkTypes
  <2>2. CASE PostOnItsWay
    <3>1. thread = "acts" /\ action \in Actions /\ Tried /\ unheard' = unheard \union {action}
      BY <1>4, <2>2 DEF PostOnItsWay, Tried
    <3>2. PICK queue \in Seq(Actions) : queue = hashes
      BY <1>3 DEF LinkTypes
    <3>3. InOrder(queue)'
      BY <3>1, <3>2, TriedInOrder
    <3>4. InOrder(hashes)'
      BY <1>1, <3>2, <3>3 DEF InOrder, Copies
    <3>5. /\ server' \in Seq(Actions \union Foreign) /\ Len(server') \in Nat /\ Len(server) <= Len(server')
          /\ \A n \in DOMAIN server : n \in DOMAIN server' /\ server'[n] = server[n]
          /\ \A n \in DOMAIN server' : n \in DOMAIN server \/ (n = Len(server) + 1 /\ server'[n] = action)
      BY <3>1, TriedServer
    <3>6. QED
      BY <3>1, <3>4, <3>5
  <2>3. QED
    BY <1>1, <2>1, <2>2
<1>7. thread = "acts" /\ action \in Actions => action \in dropped'
  BY <1>1, <1>3 DEF PendingInv
<1>8. LinkTypes'
  <2>1. saved' >= -1 /\ saved' <= Len(server') /\ latest' <= Len(server')
    <3>1. saved \in Int /\ saved >= -1 /\ saved <= Len(server) /\ latest <= Len(server)
      BY <1>3 DEF LinkTypes
    <3>2. QED
      BY <1>1, <1>4, <1>6, <3>1
  <2>2. (\A p \in unfinished : p \in Nat \ {0} /\ p <= Len(server))'
    <3>1. \A p \in unfinished : p \in Nat \ {0} /\ p <= Len(server)
      BY <1>3 DEF LinkTypes
    <3>2. QED
      BY <1>2, <1>4, <1>5, <1>6, <3>1
  <2>3. QED
    BY <1>1, <1>3, <1>6, <2>1, <2>2 DEF LinkTypes
<1>9. PendingInv' /\ LifeInv'
  BY <1>1 DEF PendingInv, LifeInv
<1>10. CopyInv'
  <2>1. ASSUME NEW a \in Actions, NEW n \in DOMAIN server', server'[n] = a
        PROVE  done[a] # <<>> \/ a \in dropped'
    <3>1. CASE n \in DOMAIN server
      <4>1. Copies(a) # {}
        BY <1>6, <2>1, <3>1 DEF Copies
      <4>2. done[a] # <<>> \/ a \in dropped \/ (thread = "acts" /\ action = a)
        BY <1>3, <4>1 DEF CopyInv
      <4>3. QED
        BY <1>1, <1>7, <4>2
    <3>2. CASE n \notin DOMAIN server
      BY <1>6, <1>7, <2>1, <3>2
    <3>3. QED
      BY <3>1, <3>2
  <2>2. ASSUME NEW m \in DOMAIN server', NEW n \in DOMAIN server', server'[m] = server'[n],
               server'[m] \in Actions \ unheard'
        PROVE  m = n
    <3>1. m \in DOMAIN server /\ n \in DOMAIN server
      BY <1>6, <2>2
    <3>2. server[m] = server[n] /\ server[m] \in Actions \ unheard
      BY <1>6, <2>2, <3>1
    <3>3. QED
      BY <1>3, <3>1, <3>2 DEF CopyInv
  <2>3. QED
    BY <1>1, <2>1, <2>2 DEF CopyInv, Copies
<1>11. ReportInv'
  <2>1. ASSUME NEW a \in Actions
        PROVE  /\ done[a] \in {<<>>, <<"SENT">>, <<"FAILED">>}
               /\ done[a] = <<"SENT">> => {n \in DOMAIN server' : server'[n] = a} # {}
               /\ done[a] = <<"FAILED">> /\ a \notin unheard' => {n \in DOMAIN server' : server'[n] = a} = {}
    <3>1. /\ done[a] \in {<<>>, <<"SENT">>, <<"FAILED">>}
          /\ done[a] = <<"SENT">> => {n \in DOMAIN server : server[n] = a} # {}
          /\ done[a] = <<"FAILED">> /\ a \notin unheard => {n \in DOMAIN server : server[n] = a} = {}
      BY <1>3 DEF ReportInv, Copies
    <3>2. {n \in DOMAIN server : server[n] = a} # {} => {n \in DOMAIN server' : server'[n] = a} # {}
      BY <1>6
    <3>3. a \notin unheard' =>
            a \notin unheard /\ \A n \in DOMAIN server' : server'[n] = a => n \in DOMAIN server /\ server[n] = a
      BY <1>6
    <3>4. QED
      BY <3>1, <3>2, <3>3
  <2>2. QED
    BY <1>1, <2>1 DEF ReportInv, Copies
<1>12. PlacesInv'
  <2>1. \A p \in earlier \union Elems(received) : p \in Nat \ {0} /\ (p \in unfinished \/ p <= saved)
    BY <1>3 DEF PlacesInv, Elems
  <2>2. \A p \in earlier' : p \in Nat \ {0} /\ (p \in unfinished' \/ p <= saved)
    BY <1>2, <1>5, <2>1
  <2>3. (received \in Seq(Nat \ {0}) /\ DOMAIN received = {} /\ ~AtWork)'
    BY <1>1 DEF AtWork
  <2>4. QED
    BY <1>1, <2>2, <2>3 DEF PlacesInv
<1>13. HashInv'
  BY <1>1, <1>6 DEF HashInv, AtWork
<1>14. EachPostReadOnce' /\ OwnPostsAreKnown'
  BY <1>1 DEF EachPostReadOnce, OwnPostsAreKnown
<1>15. QED
  BY <1>8, <1>9, <1>10, <1>11, <1>12, <1>13, <1>14 DEF TransportInv

LEMMA LinkInitially ==
  ASSUME Init
  PROVE  TransportInv
<1>1. /\ server = <<>> /\ saved = -1 /\ contentQueue = {} /\ actionQueue = <<>> /\ action = Fetch /\ latest = 0
      /\ hashes = <<>> /\ done = [a \in Actions |-> <<>>] /\ queued = {} /\ thread = "none"
      /\ received = <<>> /\ earlier = {} /\ unfinished = {}
  BY DEF Init
<1>2. DOMAIN <<>> = {} /\ Len(<<>>) = 0
  OBVIOUS
<1>3. <<>> \in Seq({"SENT", "FAILED"}) /\ \A a \in Actions : done[a] = <<>>
  BY <1>1
<1>4. LinkTypes
  BY <1>1, <1>2, <1>3 DEF LinkTypes
<1>5. PendingInv /\ LifeInv
  BY <1>1 DEF PendingInv, LifeInv
<1>6. CopyInv /\ ReportInv
  <2>1. \A a \in Actions : Copies(a) = {}
    BY <1>1, <1>2 DEF Copies
  <2>2. QED
    BY <1>1, <1>2, <1>3, <2>1 DEF CopyInv, ReportInv
<1>7. PlacesInv
  BY <1>1, <1>2 DEF PlacesInv, AtWork
<1>8. HashInv
  BY <1>1, <1>2 DEF HashInv, InOrder, AtWork, Elems
<1>9. EachPostReadOnce /\ OwnPostsAreKnown
  BY <1>1, <1>2 DEF EachPostReadOnce, OwnPostsAreKnown
<1>10. QED
  BY <1>4, <1>5, <1>6, <1>7, <1>8, <1>9 DEF TransportInv

LEMMA LinkStep ==
  ASSUME TransportInv, [Next]_vars
  PROVE  TransportInv'
<1>1. CASE CreateLink
  BY <1>1, CreateLinkKeeps
<1>2. CASE DestroyLink
  BY <1>2, ThreadMoves DEF DestroyLink, linkData, histories
<1>3. CASE ShutdownNotifies
  <2>1. UNCHANGED linkData
    BY <1>3 DEF ShutdownNotifies, linkData
  <2>2. thread' = thread \/ (thread = "waits" /\ thread' = "wants")
    BY <1>3 DEF ShutdownNotifies, Notified
  <2>3. QED
    BY <2>1, <2>2, ThreadMoves DEF AtWork
<1>4. CASE DestroyReturns
  BY <1>4, DestroyReturnsKeeps
<1>5. CASE FetchPosts
  BY <1>5, FetchPostsKeeps
<1>6. ASSUME NEW a \in Actions, EnqueueContent(a) \/ DequeueContent(a) \/ Post(a)
      PROVE  TransportInv'
  BY <1>6, EnqueueContentKeeps, PostAccepted, PostRefused
<1>7. ASSUME NEW f \in Foreign, ForeignPost(f)
      PROVE  TransportInv'
  BY <1>7, ForeignPostKeeps
<1>8. CASE GetInitialIndex
  BY <1>8, GetInitialIndexKeeps
<1>9. CASE LookForAction
  <2>1. CASE thread' = "acts"
    BY <1>9, <2>1, ActionTaken
  <2>2. CASE thread' # "acts"
    <3>1. UNCHANGED linkData /\ thread = "wants" /\ thread' \in {"ended", "empty"}
      BY <1>9, <2>2 DEF LookForAction, linkData
    <3>2. QED
      BY <3>1, ThreadMoves DEF AtWork
  <2>3. QED
    BY <2>1, <2>2
<1>10. CASE Wait
  <2>1. UNCHANGED linkData /\ thread = "empty" /\ thread' = "waits"
    BY <1>10 DEF Wait, linkData, histories
  <2>2. QED
    BY <2>1, ThreadMoves DEF AtWork
<1>11. CASE PostMissesContent \/ TryFails \/ TrySucceeds
  BY <1>11, PostStepsKeep
<1>12. CASE FetchSucceeds
  BY <1>12, FetchSucceedsKeeps
<1>13. CASE FetchFails
  <2>1. UNCHANGED linkData /\ thread = "acts" /\ action = Fetch /\ thread' = "wants"
    BY <1>13 DEF FetchFails, FetchEndsInError, linkData, histories
  <2>2. QED
    BY <2>1, ThreadMoves DEF AtWork
<1>14. CASE FetchStops
  BY <1>14, FetchStopsKeeps
<1>15. CASE Crash
  BY <1>15, CrashKeeps
<1>16. CASE UNCHANGED vars
  BY <1>16, ThreadMoves DEF vars, linkData, histories
<1>17. QED
  BY <1>1, <1>2, <1>3, <1>4, <1>5, <1>6, <1>7, <1>8, <1>9, <1>10, <1>11, <1>12, <1>13, <1>14, <1>15, <1>16
  DEF Next, ThreadSteps

LEMMA LinkInvariance == Spec => []TransportInv
<1>1. Init => TransportInv
  BY LinkInitially
<1>2. TransportInv /\ [Next]_vars => TransportInv'
  BY LinkStep
<1>3. QED
  BY <1>1, <1>2, PTL DEF Spec

\* A link hands no post over twice, and none that its predecessors handed over, but for those of
\* fetches that did not come to save their index (EachPostReadOnce), for any actions, foreign posts,
\* malformed ones, lives of the link and tries.
THEOREM PostsReadOnce == Spec => []EachPostReadOnce
<1>1. TransportInv => EachPostReadOnce
  BY DEF TransportInv
<1>2. QED
  BY <1>1, LinkInvariance, PTL

\* A link knows its own posts by their hashes, as long as no fetch was stopped that had used them up
\* (OwnPostsAreKnown), for any actions, foreign posts and number of hashes.
THEOREM OwnPostsKnown == Spec => []OwnPostsAreKnown
<1>1. TransportInv => OwnPostsAreKnown
  BY DEF TransportInv
<1>2. QED
  BY <1>1, LinkInvariance, PTL

\* The reported statuses agree with the server (StatusAgrees), for any number of tries.
THEOREM StatusesAgree == Spec => []StatusAgrees
<1>1. TransportInv => StatusAgrees
  <2> SUFFICES ASSUME TransportInv, NEW a \in Actions
               PROVE  /\ Len(done[a]) <= 1
                      /\ done[a] = <<"SENT">> => \E n \in DOMAIN server : server[n] = a
                      /\ done[a] = <<"FAILED">> /\ a \notin unheard => \A n \in DOMAIN server : server[n] # a
    BY DEF StatusAgrees
  <2>1. /\ done[a] \in {<<>>, <<"SENT">>, <<"FAILED">>}
        /\ done[a] = <<"SENT">> => Copies(a) # {}
        /\ done[a] = <<"FAILED">> /\ a \notin unheard => Copies(a) = {}
    BY DEF TransportInv, ReportInv
  <2>2. Len(<<>>) = 0 /\ Len(<<"SENT">>) = 1 /\ Len(<<"FAILED">>) = 1
    OBVIOUS
  <2>3. Len(done[a]) <= 1
    <3>1. Len(done[a]) \in {0, 1}
      BY <2>1, <2>2, Zenon
    <3>2. \A l \in {0, 1} : l <= 1
      OBVIOUS
    <3>3. QED
      BY <3>1, <3>2, Zenon
  <2>4. QED
    BY <2>1, <2>3 DEF Copies
<1>2. QED
  BY <1>1, LinkInvariance, PTL

=============================================================================

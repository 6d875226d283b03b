------------------------------- MODULE Codec --------------------------------
(***************************************************************************)
(* A codec: what makes one good, and a run of its program, _RunCodec's     *)
(* event loop at one end of three pipes and the program at the other.      *)
(* CLICodec.cpp is in the repository twice, for the IOManager and for the  *)
(* decomposed channel's encoding component; where the copies differ, the   *)
(* variable copy tells which one is meant.                                 *)
(*                                                                         *)
(* Data are counted in chunks.  The pipes block: they are never set        *)
(* otherwise.  The program keeps a second descriptor of each of its ends,  *)
(* so that a pipe's end is seen when the program has exited and not        *)
(* before.                                                                 *)
(***************************************************************************)
EXTENDS Integers

CONSTANTS
  PipeSize,  \* the chunks a pipe holds
  MaxIn,     \* bound: the chunks of an input
  MaxOwed    \* bound: the chunks the program writes between two reads, on each stream

ASSUME CodecAssumption == PipeSize \in Nat \ {0} /\ MaxIn \in Nat /\ MaxOwed \in Nat

VARIABLES
  copy,      \* "encoders" or "so-builder"
  codec,     \* "none", "initializing", "good", "bad", "passthru"
  loop,      \* "none", "dispatch", "write" (in EventOutCB's call of write), "ended"
  nMsgIn,    \* what is left of the input
  nMsgOut,   \* the output so far
  evIn,      \* _evIn is registered
  inOpen,    \* the program's input has not been closed
  inPipe, outPipe, errPipe,
  program,   \* "none", how it treats its input: "reads" all of it, "streams", "ignores", or "exited"
  owed,      \* what the program writes to each stream before it reads or exits
  exitStatus,
  result,    \* what the codec returned, 0 for success
  written,   \* history: the chunks the program wrote to its output
  errFirst   \* history: the end of stderr was read while output was in the pipe

run == <<loop, nMsgIn, nMsgOut, evIn, inOpen, inPipe, outPipe, errPipe, program, owed, exitStatus,
         result, written, errFirst>>
cvars == <<copy, codec, run>>

Streams == {"out", "err"}
Nothing == [s \in Streams |-> 0]
Owable == [Streams -> 0..MaxOwed]
Habits == {"reads", "streams", "ignores"}
Killed == -1  \* the program ended by a signal, popenRWE failed

CInit ==
  /\ copy \in {"encoders", "so-builder"}
  /\ codec = "none"
  /\ loop = "none"
  /\ nMsgIn = 0 /\ nMsgOut = 0
  /\ evIn = FALSE /\ inOpen = FALSE
  /\ inPipe = 0 /\ outPipe = 0 /\ errPipe = 0
  /\ program = "none"
  /\ owed = Nothing
  /\ exitStatus = 0
  /\ result = 0
  /\ written = 0
  /\ errFirst = FALSE

-----------------------------------------------------------------------------
(* popenRWE and run *)

\* posix_spawn reports a program it cannot execute.
PSpawn(h) == program' = h /\ exitStatus' = 0

\* The child of vfork exits with 1 when it cannot.
VFork(h) == \/ program' = h /\ exitStatus' = 0
            \/ program' = "exited" /\ exitStatus' = 1

Popen(h) == IF copy = "encoders" THEN PSpawn(h) ELSE VFork(h)

\* A program that ignores its input owes its output from the start.
Run(n) ==
  /\ loop \in {"none", "ended"}
  /\ nMsgIn' = n /\ nMsgOut' = 0
  /\ inPipe' = 0 /\ outPipe' = 0 /\ errPipe' = 0
  /\ written' = 0 /\ errFirst' = FALSE
  /\ \/ /\ \E h \in Habits : Popen(h) /\ owed' \in IF h = "ignores" THEN Owable ELSE {Nothing}
        /\ loop' = "dispatch"
        /\ evIn' = TRUE /\ inOpen' = TRUE
        /\ result' = 0
     \/ /\ loop' = "ended" /\ result' = Killed
        /\ program' = "none" /\ owed' = Nothing
        /\ UNCHANGED <<evIn, inOpen, exitStatus>>

\* The status of the event loop is overwritten by the program's; output of a failure is freed.
Returned ==
  /\ result' = exitStatus
  /\ nMsgOut' = IF exitStatus = 0 THEN nMsgOut ELSE 0

-----------------------------------------------------------------------------
(* The event loop *)

FreeEvIn == evIn' = FALSE

\* Mutant: the input is left open when all of it was written.
FreeAlways == FreeEvIn /\ UNCHANGED inOpen

CloseAndFree == inOpen' = FALSE /\ FreeEvIn

\* write returns 0: the newer copy goes on as after any other write, the older takes it for a failure.
WriteNothing ==
  /\ loop = "dispatch" /\ evIn /\ nMsgIn = 0
  /\ IF copy = "encoders" THEN CloseAndFree ELSE FreeEvIn /\ UNCHANGED inOpen
  /\ UNCHANGED <<copy, codec, loop, nMsgIn, nMsgOut, inPipe, outPipe, errPipe, program, owed,
                 exitStatus, result, written, errFirst>>

\* The pipe is not full, or nobody reads it any more.
StartWrite ==
  /\ loop = "dispatch" /\ evIn /\ nMsgIn > 0
  /\ inPipe < PipeSize \/ program = "exited"
  /\ loop' = "write"
  /\ UNCHANGED <<copy, codec, nMsgIn, nMsgOut, evIn, inOpen, inPipe, outPipe, errPipe, program, owed,
                 exitStatus, result, written, errFirst>>

\* write returns when it has written everything.
WriteChunk ==
  /\ loop = "write" /\ program # "exited"
  /\ inPipe < PipeSize
  /\ inPipe' = inPipe + 1
  /\ nMsgIn' = nMsgIn - 1
  /\ IF nMsgIn' = 0 THEN loop' = "dispatch" /\ CloseAndFree ELSE UNCHANGED <<loop, evIn, inOpen>>
  /\ UNCHANGED <<copy, codec, nMsgOut, outPipe, errPipe, program, owed, exitStatus, result, written,
                 errFirst>>

\* EPIPE; after a part was written it comes with the next call.
WriteFails ==
  /\ loop = "write" /\ program = "exited"
  /\ loop' = "dispatch"
  /\ FreeEvIn
  /\ UNCHANGED <<copy, codec, nMsgIn, nMsgOut, inOpen, inPipe, outPipe, errPipe, program, owed,
                 exitStatus, result, written, errFirst>>

ReadOut ==
  /\ loop = "dispatch" /\ outPipe > 0
  /\ nMsgOut' = nMsgOut + outPipe
  /\ outPipe' = 0
  /\ UNCHANGED <<copy, codec, loop, nMsgIn, evIn, inOpen, inPipe, errPipe, program, owed, exitStatus,
                 result, written, errFirst>>

ReadErr ==
  /\ loop = "dispatch" /\ errPipe > 0
  /\ errPipe' = 0
  /\ UNCHANGED <<copy, codec, loop, nMsgIn, nMsgOut, evIn, inOpen, inPipe, outPipe, program, owed,
                 exitStatus, result, written, errFirst>>

\* Mutant: a stream has ended when the program has.
EndedWith(pipe) == program = "exited"

\* read returns 0.
AtEnd(pipe) == program = "exited" /\ pipe = 0

\* The end of either stream ends the loop: all events are freed, all pipes closed.  Of two streams
\* that are ready, either comes first.
EndLibevent ==
  /\ loop = "dispatch"
  /\ AtEnd(outPipe) \/ AtEnd(errPipe)
  /\ errFirst' = (errPipe = 0 /\ outPipe > 0)
  /\ loop' = "ended"
  /\ CloseAndFree
  /\ outPipe' = 0 /\ errPipe' = 0
  /\ Returned
  /\ UNCHANGED <<copy, codec, nMsgIn, inPipe, program, owed, exitStatus, written>>

-----------------------------------------------------------------------------
(* The program *)

Running == program \in Habits

\* All that is owed is written before it reads on.
ReadIn ==
  /\ Running /\ program # "ignores"
  /\ owed = Nothing /\ inPipe > 0
  /\ inPipe' = inPipe - 1
  /\ owed' \in IF program = "streams" THEN Owable ELSE {Nothing}
  /\ UNCHANGED <<copy, codec, loop, nMsgIn, nMsgOut, evIn, inOpen, outPipe, errPipe, program,
                 exitStatus, result, written, errFirst>>

AtEndOfInput == program # "ignores" => inPipe = 0 /\ ~inOpen

\* From the end of the input on a program that read it is one that ignores it.
SeeEnd ==
  /\ Running /\ program # "ignores"
  /\ owed = Nothing /\ AtEndOfInput
  /\ program' = "ignores"
  /\ owed' \in Owable
  /\ UNCHANGED <<copy, codec, loop, nMsgIn, nMsgOut, evIn, inOpen, inPipe, outPipe, errPipe,
                 exitStatus, result, written, errFirst>>

WriteOut ==
  /\ Running /\ owed["out"] > 0 /\ outPipe < PipeSize
  /\ owed' = [owed EXCEPT !["out"] = @ - 1]
  /\ outPipe' = outPipe + 1
  /\ written' = written + 1
  /\ UNCHANGED <<copy, codec, loop, nMsgIn, nMsgOut, evIn, inOpen, inPipe, errPipe, program,
                 exitStatus, result, errFirst>>

WriteErr ==
  /\ Running /\ owed["err"] > 0 /\ errPipe < PipeSize
  /\ owed' = [owed EXCEPT !["err"] = @ - 1]
  /\ errPipe' = errPipe + 1
  /\ UNCHANGED <<copy, codec, loop, nMsgIn, nMsgOut, evIn, inOpen, inPipe, outPipe, program,
                 exitStatus, result, written, errFirst>>

ExitWith(s) ==
  /\ Running
  /\ program' = "exited" /\ exitStatus' = s /\ owed' = Nothing
  /\ UNCHANGED <<copy, codec, loop, nMsgIn, nMsgOut, evIn, inOpen, inPipe, outPipe, errPipe, result,
                 written, errFirst>>

Finish == program = "ignores" /\ owed = Nothing /\ \E s \in {0, 1} : ExitWith(s)

Fail == \E s \in {1, Killed} : ExitWith(s)

-----------------------------------------------------------------------------
(* A codec *)

\* GetNamedCodec: the pass-through, which copies its input and fails on an empty one.
NamePassThru ==
  /\ codec = "none"
  /\ codec' = "passthru"
  /\ UNCHANGED <<copy, run>>

PassThru(n) ==
  /\ codec = "passthru"
  /\ loop' = "ended"
  /\ nMsgOut' = n /\ written' = n
  /\ result' = IF n = 0 THEN -1 ELSE 0
  /\ UNCHANGED <<copy, codec, nMsgIn, evIn, inOpen, inPipe, outPipe, errPipe, program, owed,
                 exitStatus, errFirst>>

NoFlaw == "none"

Verdict(flaw) == codec' = IF flaw = NoFlaw THEN "good" ELSE "bad"

\* What the IOManager's constructor refuses, in its order.
ConstructBuilder ==
  /\ codec = "none" /\ copy = "so-builder"
  /\ \E flaw \in {NoFlaw, "path", "args", "coverfile", "media", "capacities"} : Verdict(flaw)
  /\ UNCHANGED <<copy, run>>

\* The command that the encoders' copy runs first, if there is one, on an empty input.
InitCommand ==
  /\ codec = "none" /\ copy = "encoders"
  /\ codec' = "initializing"
  /\ Run(0)
  /\ UNCHANGED copy

\* What the component's constructor refuses; it stops at a command that failed.
ConstructEncoder ==
  /\ \/ codec = "none" /\ copy = "encoders"
     \/ codec = "initializing" /\ loop = "ended"
  /\ \E flaw \in IF result # 0 THEN {"initCommand"}
                 ELSE {NoFlaw, "path", "args", "coverfile", "media", "capacities", "mime-type", "encodingTime"} :
       Verdict(flaw)
  /\ UNCHANGED <<copy, run>>

\* encode and decode of a codec whose covers its constructor found.
Convert(n) ==
  /\ codec = "good"
  /\ Run(n)
  /\ UNCHANGED <<copy, codec>>

\* The IOManager's codec refuses an empty message, and decodes whatever was fetched.
Encode(n) == copy = "so-builder" /\ n > 0 /\ Convert(n)

Decode(n) == copy = "so-builder" /\ Convert(n)

\* The component answers an empty message itself, and decodes whatever the transport received.
EncodeBytes(n) == copy = "encoders" /\ n > 0 /\ Convert(n)

DecodeBytes(n) == copy = "encoders" /\ Convert(n)

-----------------------------------------------------------------------------

LoopSteps == WriteNothing \/ StartWrite \/ WriteChunk \/ WriteFails \/ ReadOut \/ ReadErr \/ EndLibevent

\* What a program does that is neither killed nor fails.
ProgramSteps == ReadIn \/ SeeEnd \/ WriteOut \/ WriteErr \/ Finish

Calls ==
  \/ NamePassThru \/ ConstructBuilder \/ InitCommand \/ ConstructEncoder
  \/ \E n \in 0..MaxIn :
       PassThru(n) \/ Encode(n) \/ Decode(n) \/ EncodeBytes(n) \/ DecodeBytes(n)

CNext == Calls \/ LoopSteps \/ ProgramSteps \/ Fail

CodecSpec == CInit /\ [][CNext]_cvars /\ WF_cvars(LoopSteps) /\ WF_cvars(ProgramSteps)

-----------------------------------------------------------------------------
(* Properties *)

\* A codec that reports success hands over all its program wrote, and one that does not hands over
\* nothing.  The code keeps that but in one order of events: the program has exited and the end of
\* its stderr is seen before the rest of its output is read (_EventInFn, _endLibevent, run).
AnswerIsWhole ==
  loop = "ended" =>
    IF result = 0 THEN nMsgOut = written \/ errFirst ELSE nMsgOut = 0

\* The loop waits in write while the program, which has not read what is in the pipe, waits in a
\* write of its own.
BothWrite ==
  /\ loop = "write" /\ inPipe = PipeSize
  /\ \/ owed["out"] > 0 /\ outPipe = PipeSize
     \/ owed["err"] > 0 /\ errPipe = PipeSize

\* The program waits for the end of an input that is never closed.
InputStaysOpen == copy = "so-builder" /\ inOpen /\ ~evIn /\ Running

\* A run ends, if its program does what it should, unless both sides are in a write, or the older
\* copy was given nothing to write (EventOutCB of the two copies).
RunReturns == loop = "dispatch" ~> (loop = "ended" \/ BothWrite \/ InputStaysOpen)

=============================================================================

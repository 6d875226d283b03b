---------------------------- MODULE MCTransport -----------------------------
(***************************************************************************)
(* Instances for TLC of the decomposed channel and of the codecs: a        *)
(* behaviour is one of one part, the others stay where they begin.  The    *)
(* link has two post actions and one life, or one post action and several  *)
(* lives, or three post actions, more than it keeps hashes for.            *)
(***************************************************************************)
EXTENDS Transport, Codec, Covers, Timeline

CONSTANTS a1, a2, a3, c1, c2, c3, c4

VARIABLE part

allVars == <<part, vars, cvars, kvars, tvars>>

\* A cover smaller than a header, one that just holds it, one with room and one above the maximum.
MCSize == (c1 :> 1) @@ (c2 :> 2) @@ (c3 :> 3) @@ (c4 :> 5)

MCInit ==
  /\ part \in {"actions", "lives", "hashes", "codec", "covers", "timeline"}
  /\ Init /\ CInit /\ KInit /\ TInit
  /\ part # "codec" => copy = "encoders"

\* The three actions of the part "hashes": content is given when its action is to follow, and stays.
OneAfterTheOther ==
  /\ life' <= 1 /\ fetches' <= 1 /\ ~isShutdown'
  /\ contentQueue \subseteq contentQueue'
  /\ a2 \in contentQueue' => a1 \in queued
  /\ a3 \in contentQueue' => a2 \in queued
  /\ \A a \in Actions : done'[a] = <<"FAILED">> => a \in queued

\* In the part "lives" content stays, a post is heard of at its first try, and what others post
\* begins with a message that decodes.
Lives ==
  /\ contentQueue \subseteq contentQueue' \/ thread' = "starts"
  /\ tries' = 0
  /\ Elems(server') \intersect Foreign \subseteq Malformed => Elems(server') \subseteq Actions

\* In the others nobody else posts, and the process does not die.
OneProcess ==
  /\ Elems(server') \subseteq Actions
  /\ thread' = "none" => thread \in {"none", "ended"}

TransportStep(A) ==
  /\ part \in {"actions", "lives", "hashes"}
  /\ A
  /\ part = "actions" => life' <= 1 /\ fetches' <= 1
  /\ part = "lives" => a2 \notin contentQueue' /\ done'[a2] = <<>>
  /\ part = "hashes" => OneAfterTheOther
  /\ part # "hashes" => a3 \notin contentQueue' /\ done'[a3] = <<>>
  /\ IF part = "lives" THEN Lives ELSE OneProcess
  /\ UNCHANGED <<part, cvars, kvars, tvars>>

CodecStep(A) == part = "codec" /\ A /\ UNCHANGED <<part, vars, kvars, tvars>>
CoversStep(A) == part = "covers" /\ A /\ UNCHANGED <<part, vars, cvars, tvars>>
TimelineStep(A) == part = "timeline" /\ A /\ UNCHANGED <<part, vars, cvars, kvars>>

MCNext == TransportStep(Next) \/ CodecStep(CNext) \/ CoversStep(KNext) \/ TimelineStep(TNext)

\* The fairness of each part, as its module states it.
MCFairness ==
  /\ WF_allVars(TransportStep(ThreadSteps)) /\ WF_allVars(TransportStep(ShutdownNotifies \/ DestroyReturns))
  /\ WF_allVars(CodecStep(LoopSteps)) /\ WF_allVars(CodecStep(ProgramSteps))
  /\ WF_allVars(CoversStep(SendSteps))

MCSpec == MCInit /\ [][MCNext]_allVars /\ MCFairness

=============================================================================

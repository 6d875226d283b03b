---------------------------- MODULE MCAddressing ----------------------------
(***************************************************************************)
(* Instances for TLC of the way of a message out of its node and of those  *)
(* who can read it: a behaviour is one of Pusher or one of Addressing, the *)
(* other stays where it begins.                                            *)
(***************************************************************************)
EXTENDS MCPusher, Addressing

CONSTANTS p1, p2, p3, wb1, wb2, wb3, b

VARIABLE part

allVars == <<part, vars, avars>>

\* The third persona has an address of its own, or the first one's.
MCHashes == {(p1 :> 1) @@ (p2 :> 2) @@ (p3 :> n) : n \in {1, 3}}

\* Two whiteboards share a channel and differ in their codecs; the third has a channel for itself.
GoodSpec ==
  [codecs |-> {"stego", "video"},
   classes |-> [pixelfed |-> [channel |-> 1, codecs |-> <<"stego">>],
                avideo |-> [channel |-> 1, codecs |-> <<"video", "stego">>],
                dash |-> [channel |-> 2, codecs |-> <<>>]],
   order |-> <<1, 2>>,
   instances |-> (wb1 :> "pixelfed") @@ (wb2 :> "avideo") @@ (wb3 :> "dash"),
   resolves |-> {wb1, wb2, wb3}]

\* Files that are refused, one for every assertion, and one without a host.
MCSpecs ==
  {GoodSpec,
   [GoodSpec EXCEPT !.codecs = {"stego"}],
   [GoodSpec EXCEPT !.order = <<1>>],
   [GoodSpec EXCEPT !.instances[wb3] = "slack"],
   [GoodSpec EXCEPT !.resolves = {wb1, wb3}]}

MCConfigurations == {{}, {<<wb1, b>>, <<wb3, p1>>, <<wb2, p2>>}}

LinkTo(p, q, wbs) == [at |-> p, peer |-> q, whiteboards |-> wbs]
MCTransmitLinks == {LinkTo(p1, p2, {wb1, wb3}), LinkTo(p3, p2, {wb1, wb2}), LinkTo(p2, p1, {wb1, wb3})}

MCInit ==
  /\ part \in {"pusher", "addressing"}
  /\ Init /\ AInit
  /\ part # "addressing" => spec = GoodSpec /\ address[p3] = 3 /\ \A p \in Personas : destinations[p] = {}

MCNext ==
  \/ part = "pusher" /\ Next /\ UNCHANGED <<part, avars>>
  \/ part = "addressing" /\ ANext /\ UNCHANGED <<part, vars>>

MCSpec == MCInit /\ [][MCNext]_allVars

=============================================================================

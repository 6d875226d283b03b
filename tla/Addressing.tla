----------------------------- MODULE Addressing -----------------------------
(***************************************************************************)
(* Who can read whose images: the codecs a node makes for its peers, from  *)
(* the whiteboard specification and for its links, the channel and the     *)
(* codec a message is sent with, and what a reader of the image makes of   *)
(* it: Examine tries the codecs of the channel, _Prefilter looks at the    *)
(* addresses.                                                              *)
(*                                                                         *)
(* A persona's address is 16 bits of a hash of its name: two personas may  *)
(* have the same.  A codec's program given an image that was not made with *)
(* its secret may fail or answer with garbage; the pass-through has no     *)
(* secret.  A persona has one node, a message one segment.                 *)
(***************************************************************************)
EXTENDS Integers, Sequences, SequencesExt, FiniteSetsExt

CONSTANTS
  Personas,
  Hashes,         \* the addresses personas may have, as functions
  Groups,         \* the addresses of broadcast hosts
  Channels,       \* IOM_CT_*
  Specs,          \* whiteboard files: [codecs, classes, order, instances, resolves], where a class is
                  \* [channel, codecs] and an instance has a class
  PassThru,       \* _PASSTHRU_CODEC_
  Ordered,        \* IOM_CT_ORDERED
  TransmitLinks,  \* the links that may be loaded: [at, peer, whiteboards]
  Configurations, \* the pairs (whiteboard, destination) a persona may have in the file
  NoCodec,
  MaxPosts        \* bound: the images

Addresses == (UNION {Range(h) : h \in Hashes}) \union Groups

CodecNames == (UNION {s.codecs : s \in Specs}) \union {PassThru}

ASSUME AddressingAssumption ==
  /\ \A h \in Hashes : DOMAIN h = Personas /\ Range(h) \intersect Groups = {}
  /\ Groups \intersect Personas = {}
  /\ \A l \in TransmitLinks : l.at \in Personas /\ l.peer \in Personas
  /\ \A pairs \in Configurations :
       IsFiniteSet(pairs) /\ \A x \in pairs : x[2] \in Personas \union Groups
  /\ \A s \in Specs : IsFiniteSet(DOMAIN s.instances)
  /\ NoCodec \notin [secret : Addresses, name : CodecNames]
  /\ Ordered \notin Channels /\ MaxPosts \in Nat

VARIABLES
  spec,              \* the whiteboard file, the same at every node
  address,           \* Persona_IP_string of a persona
  destinations,      \* the persona's pairs in the file
  up,                \* nodes that were initialized
  fromCodecs, toCodecs,  \* of a node: its codec for a channel and an address
  broadcastIPSeeds,  \* of a node: the broadcast addresses it listens to
  links,             \* the transmit links that were loaded, each with its Pushers
  listens,           \* nodes with a receive link
  posts,             \* the images on the whiteboards
  examined           \* history: the persona, the image and the outcome of the last Examine

avars == <<spec, address, destinations, up, fromCodecs, toCodecs, broadcastIPSeeds, links, listens, posts,
           examined>>

\* What a good file leaves: the hosts that resolve, the channel and the first codec of their class.
Whiteboards == DOMAIN spec.instances \intersect spec.resolves
ChannelOf(w) == spec.classes[spec.instances[w]].channel
CodecOf(w) ==
  LET codecs == spec.classes[spec.instances[w]].codecs IN IF codecs = <<>> THEN PassThru ELSE codecs[1]

AddressOf(d) == IF d \in Groups THEN d ELSE address[d]

NoCodecs == [c \in Channels |-> [a \in Addresses |-> NoCodec]]

AInit ==
  /\ spec \in Specs
  /\ address \in Hashes
  /\ destinations \in [Personas -> Configurations]
  /\ up = {} /\ listens = {}
  /\ fromCodecs = [p \in Personas |-> NoCodecs]
  /\ toCodecs = [p \in Personas |-> NoCodecs]
  /\ broadcastIPSeeds = [p \in Personas |-> {}]
  /\ links = {}
  /\ posts = {}
  /\ examined = {}

-----------------------------------------------------------------------------
(* Codecs *)

\* The codec a node has for a channel and an address after those of some pairs were made in their
\* order: the one it had, or else the first.
MakeCodec(codec, pairs, c, a, secret) ==
  LET made == {k \in DOMAIN pairs : ChannelOf(pairs[k][1]) = c /\ pairs[k][2] = a}
  IN IF codec # NoCodec \/ made = {} THEN codec
     ELSE [secret |-> secret, name |-> CodecOf(pairs[Min(made)][1])]

\* The secrets of MakeCodecs: images for a persona have its address, those for a group the group's.
FromSecret(own, a) == IF a \in Groups THEN a ELSE own
ToSecret(own, a) == a

\* For the pairs of a sequence: _makeUnicastCodecs, _makeMulticastCodecs.
MakeCodecs(p, pairs) ==
  /\ fromCodecs' = [fromCodecs EXCEPT ![p] = [c \in Channels |-> [a \in Addresses |->
                      MakeCodec(@[c][a], pairs, c, a, FromSecret(address[p], a))]]]
  /\ toCodecs' = [toCodecs EXCEPT ![p] = [c \in Channels |-> [a \in Addresses |->
                    MakeCodec(@[c][a], pairs, c, a, ToSecret(address[p], a))]]]
  /\ broadcastIPSeeds' = [broadcastIPSeeds EXCEPT ![p] = @ \union (Groups \intersect {x[2] : x \in Range(pairs)})]

-----------------------------------------------------------------------------
(* A node *)

\* The destinations of the persona's accounts, in the order of the specification.
ProcessPersona(p) ==
  \E order \in SetToSeqs(destinations[p]) :
    MakeCodecs(p, [k \in DOMAIN order |-> <<order[k][1], AddressOf(order[k][2])>>])

\* The assertions of processWhiteboardSpec: classes use the codecs and channels there are, their
\* channels are those that have an order, instances have a class, accounts are on instances that
\* resolve.
SpecIsGood(p) ==
  /\ \A k \in DOMAIN spec.classes : spec.classes[k].channel \in Channels
  /\ \A k \in DOMAIN spec.classes : spec.classes[k].codecs \in Seq(spec.codecs)
  /\ {spec.classes[k].channel : k \in DOMAIN spec.classes} = Range(spec.order)
  /\ \A w \in DOMAIN spec.instances : spec.instances[w] \in DOMAIN spec.classes
  /\ \A x \in destinations[p] : x[1] \in Whiteboards

\* init, with a bad file it raises.  The broadcast addresses of the file are set once more.
Start(p) ==
  /\ p \notin up
  /\ SpecIsGood(p)
  /\ up' = up \union {p}
  /\ ProcessPersona(p)
  /\ UNCHANGED <<spec, address, destinations, links, listens, posts, examined>>

\* _makeDynCodecs for an address, a persona's own or its peer's, and whiteboards in some order.
MakeDynCodecs(p, a, wbs) ==
  \E order \in SetToSeqs(wbs) : MakeCodecs(p, [k \in DOMAIN order |-> <<order[k], a>>])

\* _receiveLink: the Pullers of the link read every whiteboard.
ReceiveLink(p) ==
  /\ p \in up \ listens
  /\ listens' = listens \union {p}
  /\ MakeDynCodecs(p, address[p], Whiteboards)
  /\ UNCHANGED <<spec, address, destinations, up, links, posts, examined>>

TransmitLink(l) ==
  /\ l.at \in up /\ l \notin links
  /\ l.whiteboards \subseteq Whiteboards
  /\ MakeDynCodecs(l.at, address[l.peer], l.whiteboards)
  /\ links' = links \union {l}
  /\ UNCHANGED <<spec, address, destinations, up, listens, posts, examined>>

-----------------------------------------------------------------------------
(* Sending *)

\* _GetCodec: the channel asked for, or the first one that has a codec for the address.
ChannelFor(codecs, a, cType) ==
  LET with == {k \in DOMAIN spec.order : codecs[spec.order[k]][a] # NoCodec}
  IN IF cType = Ordered THEN {spec.order[k] : k \in {k \in with : \A j \in with : k <= j}}
     ELSE {c \in {cType} : codecs[c][a] # NoCodec}

\* Send to persona q.  senderFor looks for a Pusher on the codec's channel only: without one the
\* image is dropped and Send succeeds.
Send(p, q, cType) ==
  \E c \in ChannelFor(toCodecs[p], address[q], cType), w \in Whiteboards :
    /\ ChannelOf(w) = c
    /\ \E l \in links : l.at = p /\ address[l.peer] = address[q] /\ w \in l.whiteboards
    /\ Cardinality(posts) < MaxPosts
    /\ posts' = posts \union {[by |-> p, for |-> q, channel |-> c, codec |-> toCodecs[p][c][address[q]]]}
    /\ UNCHANGED <<spec, address, destinations, up, fromCodecs, toCodecs, broadcastIPSeeds, links, listens, examined>>

-----------------------------------------------------------------------------
(* Reading *)

\* Mutant: a node that listens to a group takes what is for anybody.
PrefilterAny(p, img) ==
  /\ address[img.by] # address[p]
  /\ address[img.for] = address[p] \/ broadcastIPSeeds[p] # {}

\* The node's own messages are ignored, and those for other addresses.
Prefilter(p, img) ==
  /\ address[img.by] # address[p]
  /\ address[img.for] \in {address[p]} \union broadcastIPSeeds[p]

Reads(codec, img) == codec = img.codec \/ (codec.name = PassThru /\ img.codec.name = PassThru)

\* The codecs of the channel are tried in any order, until one answers: the right one with the
\* segment, a wrong one, if it does at all, with garbage.
Examine(p, img) ==
  /\ p \in listens
  /\ LET codecs == {fromCodecs[p][img.channel][a] : a \in Addresses} \ {NoCodec}
         right == {codec \in codecs : Reads(codec, img)}
         Outcome(o) == examined' = {[by |-> p, img |-> img, outcome |-> o]}
     IN \/ right # {} /\ Prefilter(p, img) /\ Outcome("heard")
        \/ (right = {} \/ ~Prefilter(p, img)) /\ Outcome("refused")
        \/ codecs # right /\ Outcome("garbage")
  /\ UNCHANGED <<spec, address, destinations, up, fromCodecs, toCodecs, broadcastIPSeeds, links, listens, posts>>

-----------------------------------------------------------------------------

ANext ==
  \/ \E p \in Personas : Start(p) \/ ReceiveLink(p)
  \/ \E l \in TransmitLinks : TransmitLink(l)
  \/ \E p, q \in Personas, cType \in Channels \union {Ordered} : Send(p, q, cType)
  \/ \E p \in Personas, img \in posts : Examine(p, img)

AddressingSpec == AInit /\ [][ANext]_avars

-----------------------------------------------------------------------------
(* Properties *)

\* Of the personas of an address only.
Alike(p, q) == address[p] = address[q]

\* What a persona hears was sent to it by another, and it hears all that was: whatever links and
\* configurations made the codecs of both nodes, in whatever order.  It fails where the code lets
\* it: personas with one address (IPSupport.py 38-44), a wrong codec's answer that ends the search,
\* and a channel whose whiteboards have several codecs, of which each node keeps the first it made
\* (IOManager.cpp 169-232, 803-892, 917-985).
AddresseesHear ==
  \A x \in examined :
    /\ x.outcome = "heard" => Alike(x.img.for, x.by) /\ ~Alike(x.img.by, x.by)
    /\ x.outcome = "refused" /\ x.img.for = x.by =>
         \/ Alike(x.img.by, x.by)
         \/ fromCodecs[x.by][x.img.channel][address[x.by]].name # x.img.codec.name

=============================================================================

------------------------------- MODULE Links --------------------------------
(***************************************************************************)
(* WhiteboardTransport: the links of a node, the Pullers started for       *)
(* receive links, the Pushers shared by transmit links, the pulling tags,  *)
(* and the choice of a Pusher for a destination.                           *)
(*                                                                         *)
(* The plugin's operations are called one after the other; a Pusher's      *)
(* thread may end between any two of them.  shutdown, after which senderFor *)
(* finds nobody, is in Pusher.                                             *)
(***************************************************************************)
EXTENDS Integers

CONSTANTS
  Hosts,      \* whiteboard hosts and personas
  Servers,    \* those of them that serve DASH themselves, named race-server-*
  Me,         \* the persona of this node, which is no server
  Configured, \* the whiteboards of the configuration
  Peers,      \* the personas messages are sent to
  Addresses,  \* the addresses of transmit links: [peer, tag, wbs]
  ReceiveIds, \* ids of receive links
  SendIds,    \* ids of transmit links
  Tags,       \* pulling tags
  NoTag,
  NoHost

ASSUME LinksAssumption ==
  /\ Me \in Hosts /\ {Servers, Peers, Configured} \subseteq SUBSET (Hosts \ {Me})
  /\ Addresses \subseteq [peer : Peers, tag : Tags, wbs : SUBSET Hosts \ {{}}]
  /\ Configured # {} /\ NoTag \notin Tags /\ NoHost \notin Hosts

VARIABLES
  instances,  \* wbInstances
  tagSeed,    \* tagSeed
  account,    \* wbDestAccts: the pulling tag of a persona on a whiteboard
  links,      \* links: the tag and the whiteboards of a receive link, and whether it is to be started
  pullerWBs,  \* pullerWBs
  pullers,    \* rTransports: the tag a whiteboard's Puller polls
  created,    \* history: Pushers created for a whiteboard
  dynWB,      \* _dynWBs: the number of a whiteboard's Pusher, 0 when it has none
  dTrans,     \* dTransports: the number of a persona's Pusher on a whiteboard
  profiles,   \* the profile of a transmit link: its persona and its list of whiteboards
  senders,    \* the whiteboard of a persona's MessageSender
  sentWith    \* history: (whiteboard, persona, tag) of the messages pushed

lvars == <<instances, tagSeed, account, links, pullerWBs, pullers, created, dynWB, dTrans, profiles,
           senders, sentWith>>
receiving == <<tagSeed, links, pullerWBs, pullers>>
sending   == <<created, dynWB, dTrans, profiles, senders, sentWith>>

NoLink == [tag |-> NoTag, wbs |-> {}, fresh |-> FALSE]

\* Some personas of the configuration have accounts with tags.
LInit ==
  /\ instances = Configured
  /\ tagSeed \in Tags
  /\ account \in [Configured -> {[p \in Hosts |-> tag] : tag \in Tags \union {NoTag}}]
  /\ links = [l \in ReceiveIds |-> NoLink]
  /\ pullerWBs = {}
  /\ pullers = [w \in Hosts |-> NoTag]
  /\ created = [w \in Hosts |-> 0]
  /\ dynWB = [w \in Hosts |-> 0]
  /\ dTrans = [p \in Peers |-> [w \in Hosts |-> 0]]
  /\ profiles = [s \in SendIds |-> [peer |-> NoHost, wbs |-> {}]]
  /\ senders = [p \in Peers |-> NoHost]
  /\ sentWith = {}

-----------------------------------------------------------------------------
(* Pulling tags *)

TagOf(w, p) == IF w \in DOMAIN account THEN account[w][p] ELSE NoTag

\* Mutant: the latest link's tag replaces it.
LatestTag(old, tag) == tag

\* The tag a persona has on a whiteboard stays.
PullingTag(old, tag) == IF old = NoTag THEN tag ELSE old

\* pullingTag for each of the pairs (whiteboard, persona).
Register(pairs, tag) ==
  account' = [w \in DOMAIN account \union {pair[1] : pair \in pairs} |->
               [p \in Hosts |-> IF <<w, p>> \in pairs THEN PullingTag(TagOf(w, p), tag)
                                                      ELSE TagOf(w, p)]]

-----------------------------------------------------------------------------
(* Receive links *)

Local(hosts) == hosts \ Servers

AddLink(l, tag) ==
  links' = [links EXCEPT ![l] = [tag |-> tag, wbs |-> Local(instances), fresh |-> TRUE]]

\* receiveLink: each whiteboard is asked for the node's tag, up to the first with another tag.
ReceiveLink(l) ==
  /\ links[l] = NoLink
  /\ Local(instances) # {}
  /\ LET others == {w \in Local(instances) : TagOf(w, Me) \notin {NoTag, tagSeed}}
     IN  \/ /\ others = {}
            /\ Register(Local(instances) \X {Me}, tagSeed)
            /\ AddLink(l, tagSeed)
         \/ \E w \in others, asked \in SUBSET (Local(instances) \ others) :
              /\ Register(asked \X {Me}, tagSeed)
              /\ AddLink(l, TagOf(w, Me))
  /\ UNCHANGED <<instances, tagSeed, pullerWBs, pullers, sending>>

\* createLinkFromAddress; the address may carry a tag of this node's.
ReceiveLinkFromAddress(l, tag) ==
  /\ links[l] = NoLink
  /\ Local(instances) # {}
  /\ AddLink(l, tag)
  /\ tagSeed' \in {tagSeed, tag}
  /\ UNCHANGED <<instances, account, pullerWBs, pullers, sending>>

\* Mutant: the marks are not looked at.
NewPullersAgain(l) == links[l].wbs

\* A whiteboard is marked before its Puller is created; a creation may fail.
NewPullers(l) == links[l].wbs \ pullerWBs

StartReceiveLink(l) ==
  /\ links[l].fresh
  /\ links' = [links EXCEPT ![l].fresh = FALSE]
  /\ pullerWBs' = pullerWBs \union links[l].wbs
  /\ \E good \in SUBSET NewPullers(l) :
       pullers' = [w \in Hosts |-> IF w \in good THEN links[l].tag ELSE pullers[w]]
  /\ UNCHANGED <<instances, tagSeed, account, sending>>

-----------------------------------------------------------------------------
(* Transmit links *)

\* transmitLink.  With no remote whiteboard the tag goes to one local whiteboard, the one its loop
\* variable was left at.
RegisterPeer(all, p, tag) ==
  LET remote == IF p \in Servers THEN all \intersect Servers ELSE {}
  IN  \/ remote # {} /\ Register((all \ remote) \X remote, tag)
      \/ remote = {} /\ \E w \in all : Register({<<w, p>>}, tag)

\* Mutant: each link creates its own.
StartOwnPushers(p, wbs) ==
  /\ created' = [w \in Hosts |-> created[w] + (IF w \in wbs THEN 1 ELSE 0)]
  /\ dynWB' = created'
  /\ dTrans' = [dTrans EXCEPT ![p] = [w \in Hosts |-> IF w \in wbs THEN created'[w] ELSE @[w]]]

\* The Pusher of a whiteboard is created once, and again after its creation failed.
StartPushers(p, wbs) ==
  \E good \in SUBSET {w \in wbs : dynWB[w] = 0} :
    /\ created' = [w \in Hosts |-> created[w] + (IF w \in good THEN 1 ELSE 0)]
    /\ dynWB' = [w \in Hosts |-> IF w \in good THEN created'[w] ELSE dynWB[w]]
    /\ dTrans' = [dTrans EXCEPT ![p] =
                    [w \in Hosts |-> IF w \in wbs /\ dynWB'[w] # 0 THEN dynWB'[w] ELSE @[w]]]

\* loadLinkAddress.  At a whiteboard that is not configured it raises, and the link is not loaded.
TransmitLink(s, p, tag, wbs) ==
  /\ profiles[s].peer = NoHost
  /\ instances' = instances \union ({p} \intersect Servers)
  /\ RegisterPeer(wbs \union instances', p, tag)
  /\ \/ /\ wbs \subseteq instances'
        /\ StartPushers(p, wbs)
        /\ profiles' = [profiles EXCEPT ![s] = [peer |-> p, wbs |-> wbs]]
     \/ /\ ~(wbs \subseteq instances')
        /\ \E before \in SUBSET (wbs \intersect instances') : StartPushers(p, before)
        /\ UNCHANGED profiles
  /\ UNCHANGED <<receiving, senders, sentWith>>

-----------------------------------------------------------------------------
(* senderFor *)

Reached(p) == {w \in Hosts : dTrans[p][w] # 0}

\* Mutant: an exhausted list stays exhausted.
OfferedOnce(s) == profiles[s].wbs

\* The link's list of whiteboards while it lasts, then all of the destination's.
Offered(s) == IF profiles[s].wbs # {} THEN profiles[s].wbs ELSE Reached(profiles[s].peer)

Shorten(s, tried) == profiles' = [profiles EXCEPT ![s].wbs = @ \ tried]

\* The first package for a persona makes its MessageSender, which asks for a Pusher.
Asks(s) ==
  /\ profiles[s].peer # NoHost
  /\ senders[profiles[s].peer] = NoHost

\* Whiteboards are popped from the list until the thread of one of them is alive.
SenderFound(s) ==
  /\ Asks(s)
  /\ \E w \in Offered(s) \intersect Reached(profiles[s].peer) :
       /\ \E dead \in SUBSET ((Offered(s) \intersect Reached(profiles[s].peer)) \ {w}) :
            Shorten(s, dead \union {w})
       /\ senders' = [senders EXCEPT ![profiles[s].peer] = w]
  /\ UNCHANGED <<instances, account, receiving, created, dynWB, dTrans, sentWith>>

\* It raises at a whiteboard without a Pusher, or when no thread came alive.
SenderRaises(s) ==
  /\ Asks(s)
  /\ LET live == Offered(s) \intersect Reached(profiles[s].peer)
     IN  \/ /\ Reached(profiles[s].peer) # {}
            /\ \/ \E dead \in SUBSET live, w \in Offered(s) \ live : Shorten(s, dead \union {w})
               \/ live = Offered(s) /\ Shorten(s, live)
         \/ Reached(profiles[s].peer) = {} /\ UNCHANGED profiles
  /\ UNCHANGED <<instances, account, receiving, created, dynWB, dTrans, senders, sentWith>>

\* sendMsg asks anew, without the list: the message may go to another whiteboard than the one whose
\* queue the MessageSender watches.
SendMsg(p) ==
  /\ senders[p] # NoHost
  /\ \E w \in Reached(p) : sentWith' = sentWith \union {<<w, p, TagOf(w, p)>>}
  /\ UNCHANGED <<instances, account, receiving, created, dynWB, dTrans, profiles, senders>>

-----------------------------------------------------------------------------

Receives ==
  \E l \in ReceiveIds :
    ReceiveLink(l) \/ StartReceiveLink(l) \/ \E tag \in Tags : ReceiveLinkFromAddress(l, tag)

Sends ==
  \/ \E s \in SendIds :
       \/ SenderFound(s) \/ SenderRaises(s)
       \/ \E a \in Addresses : TransmitLink(s, a.peer, a.tag, a.wbs)
  \/ \E p \in Peers : SendMsg(p)

LNext == Receives \/ Sends

\* The application goes on sending, and a thread that is started again and again is found alive.
LinksFairness == \A s \in SendIds : WF_lvars(SenderRaises(s)) /\ SF_lvars(SenderFound(s))

LinksSpec == LInit /\ [][LNext]_lvars /\ LinksFairness

-----------------------------------------------------------------------------
(* Properties *)

\* A started link's whiteboard was marked for it or for an earlier link; a Puller polls the tag of
\* a started link of its whiteboard, and is the one the first of them created: a later link with
\* another tag does not move it (WhiteboardTransport.py 580-585, 668-735).
PullersStay ==
  [][\A w \in Hosts :
       /\ pullers[w] # NoTag => pullers'[w] = pullers[w]
       /\ w \in pullerWBs => pullers'[w] = pullers[w]
       /\ pullers'[w] # NoTag => \E l \in ReceiveIds :
            w \in links'[l].wbs /\ ~links'[l].fresh /\ links'[l].tag = pullers'[w]]_lvars

\* The personas of a whiteboard share one Pusher, so that all its posts go through one queue: it was
\* created once, whatever links came and whichever creations failed before
\* (WhiteboardTransport.py 597-641, 757-767).
OnePusherPerWhiteboard ==
  \A w \in Hosts :
    /\ created[w] \in {0, 1}
    /\ \A p \in Peers : dTrans[p][w] \in {0, dynWB[w]}

\* The messages for a persona on a whiteboard carry one tag, a persona keeps it whatever links come
\* later, and none is missing for a server, on a whiteboard that is none
\* (WhiteboardTransport.py 440-466, 739-755, 846-858).
OneTagPerPersona ==
  /\ \A x, y \in sentWith : x[1] = y[1] /\ x[2] = y[2] /\ NoTag \notin {x[3], y[3]} => x[3] = y[3]
  /\ \A x \in sentWith : x[3] # NoTag => x[3] = TagOf(x[1], x[2])
  /\ \A x \in sentWith : x[2] \in Servers /\ x[1] \notin Servers => x[3] # NoTag

\* A persona with a Pusher gets its MessageSender in the end, though the lists are used up and some
\* of their whiteboards have none (WhiteboardTransport.py 807-905, MessageSender.py 13-35).
SendersAreFound ==
  \A s \in SendIds, p \in Peers :
    profiles[s].peer = p /\ Reached(p) # {} ~> senders[p] # NoHost

=============================================================================

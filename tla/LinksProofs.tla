---------------------------- MODULE LinksProofs -----------------------------
(***************************************************************************)
(* Proofs about Links, for any whiteboards, personas, addresses and links: *)
(* the personas of a whiteboard share one Pusher, a persona keeps its tag, *)
(* and a Puller stays with the tag it was created for.                     *)
(***************************************************************************)
EXTENDS Links, TLAPS

\* A whiteboard has a Pusher from its one creation on, and a persona has that one or none.
PusherInv ==
  /\ created \in [Hosts -> {0, 1}]
  /\ dynWB = created
  /\ dTrans \in [Peers -> [Hosts -> {0, 1}]]
  /\ \A p \in Peers, w \in Hosts : dTrans[p][w] = 1 => created[w] = 1

-----------------------------------------------------------------------------

\* Starting the Pushers of some of an address's whiteboards for a persona, of which any may fail.
LEMMA StartStep ==
  ASSUME PusherInv, NEW p \in Peers, NEW wbs, StartPushers(p, wbs)
  PROVE  PusherInv'
<1> USE DEF PusherInv
<1>1. PICK good \in SUBSET {w \in wbs : dynWB[w] = 0} :
        /\ created' = [w \in Hosts |-> created[w] + (IF w \in good THEN 1 ELSE 0)]
        /\ dynWB' = [w \in Hosts |-> IF w \in good THEN created'[w] ELSE dynWB[w]]
        /\ dTrans' = [dTrans EXCEPT ![p] =
                        [w \in Hosts |-> IF w \in wbs /\ dynWB'[w] # 0 THEN dynWB'[w] ELSE @[w]]]
  BY DEF StartPushers
<1>2. \A w \in Hosts : created'[w] = IF w \in good THEN 1 ELSE created[w]
  BY <1>1
<1>3. created' \in [Hosts -> {0, 1}]
  BY <1>1, <1>2
<1>4. dynWB' = created'
  <2>1. \A w \in Hosts : dynWB'[w] = created'[w]
    BY <1>1, <1>2
  <2>2. QED
    BY <1>1, <2>1
<1>5. \A q \in Peers, w \in Hosts :
        dTrans'[q][w] = IF q = p /\ w \in wbs /\ created'[w] # 0 THEN created'[w] ELSE dTrans[q][w]
  BY <1>1, <1>4
<1>6. dTrans' \in [Peers -> [Hosts -> {0, 1}]]
  <2>1. [w \in Hosts |-> IF w \in wbs /\ dynWB'[w] # 0 THEN dynWB'[w] ELSE dTrans[p][w]]
          \in [Hosts -> {0, 1}]
    BY <1>3, <1>4
  <2>2. QED
    BY <1>1, <2>1
<1>7. \A q \in Peers, w \in Hosts : dTrans'[q][w] = 1 => created'[w] = 1
  BY <1>2, <1>3, <1>5
<1>8. QED
  BY <1>3, <1>4, <1>6, <1>7

\* No other operation touches the Pushers.
LEMMA PusherStep == PusherInv /\ [LNext]_lvars => PusherInv'
<1> SUFFICES ASSUME PusherInv, [LNext]_lvars PROVE PusherInv'
  OBVIOUS
<1> DEFINE same == UNCHANGED <<created, dynWB, dTrans>>
<1>1. same => PusherInv'
  BY DEF PusherInv
<1>2. CASE Receives
  BY <1>1, <1>2 DEF Receives, ReceiveLink, StartReceiveLink, ReceiveLinkFromAddress, sending
<1>3. ASSUME NEW s \in SendIds, SenderFound(s) \/ SenderRaises(s) PROVE PusherInv'
  BY <1>1, <1>3 DEF SenderFound, SenderRaises
<1>4. ASSUME NEW s \in SendIds, NEW a \in Addresses, TransmitLink(s, a.peer, a.tag, a.wbs)
      PROVE  PusherInv'
  <2>1. a.peer \in Peers
    BY LinksAssumption
  <2>2. \E wbs \in SUBSET a.wbs : StartPushers(a.peer, wbs)
    BY <1>4 DEF TransmitLink
  <2>3. QED
    BY <2>1, <2>2, StartStep
<1>5. ASSUME NEW p \in Peers, SendMsg(p) PROVE PusherInv'
  BY <1>1, <1>5 DEF SendMsg
<1>6. CASE UNCHANGED lvars
  BY <1>1, <1>6 DEF lvars
<1>7. QED
  BY <1>2, <1>3, <1>4, <1>5, <1>6 DEF LNext, Sends

\* All posts of a whiteboard go through one queue: its Pusher is created at most once and shared by
\* the personas reached there, for any links loaded in any order and any failed creations
\* (WhiteboardTransport.py 597-641, 757-767).
THEOREM OnePusher == LinksSpec => []OnePusherPerWhiteboard
<1>1. LInit => PusherInv
  BY DEF LInit, PusherInv
<1>2. PusherInv => OnePusherPerWhiteboard
  BY DEF PusherInv, OnePusherPerWhiteboard
<1>3. QED
  BY <1>1, <1>2, PusherStep, PTL DEF LinksSpec

-----------------------------------------------------------------------------
(* The pulling tags *)

AccountTypes ==
  /\ DOMAIN account \subseteq Hosts
  /\ \A w \in DOMAIN account : account[w] \in [Hosts -> Tags \union {NoTag}]
  /\ instances \subseteq Hosts
  /\ tagSeed \in Tags

\* What was sent carries the tag its persona still has; a server that is reached at a whiteboard
\* which is none has a tag there.
TagInv ==
  /\ AccountTypes
  /\ sentWith \subseteq Hosts \X Peers \X (Tags \union {NoTag})
  /\ \A x \in sentWith : x[3] # NoTag => x[3] = TagOf(x[1], x[2])
  /\ \A x \in sentWith : x[2] \in Servers /\ x[1] \notin Servers => x[3] # NoTag
  /\ \A p \in Peers, w \in Hosts :
       dTrans[p][w] # 0 /\ p \in Servers /\ w \notin Servers => TagOf(w, p) # NoTag

LEMMA TagOfType ==
  ASSUME AccountTypes, NEW w, NEW p \in Hosts
  PROVE  TagOf(w, p) \in Tags \union {NoTag}
BY DEF AccountTypes, TagOf

\* Registering a tag changes no tag that is there, and leaves none of the pairs without one.
LEMMA Registered ==
  ASSUME AccountTypes, NEW pairs \in SUBSET (Hosts \X Hosts), NEW tag \in Tags,
         Register(pairs, tag)
  PROVE  /\ DOMAIN account' \subseteq Hosts
         /\ \A w \in DOMAIN account' : account'[w] \in [Hosts -> Tags \union {NoTag}]
         /\ \A w, p \in Hosts : TagOf(w, p) # NoTag => TagOf(w, p)' = TagOf(w, p)
         /\ \A pair \in pairs : TagOf(pair[1], pair[2])' # NoTag
<1> DEFINE D == DOMAIN account \union {pair[1] : pair \in pairs}
           New(w, p) == IF <<w, p>> \in pairs THEN PullingTag(TagOf(w, p), tag) ELSE TagOf(w, p)
<1>1. account' = [w \in D |-> [p \in Hosts |-> New(w, p)]]
  BY DEF Register
<1>2. \A w, p \in Hosts : New(w, p) \in Tags \union {NoTag}
  BY TagOfType DEF PullingTag
<1>3. D \subseteq Hosts
  BY DEF AccountTypes
<1> HIDE DEF D
<1>4. \A w \in D, p \in Hosts : account'[w][p] = New(w, p)
  BY <1>1
<1>5. \A w \in DOMAIN account' : account'[w] \in [Hosts -> Tags \union {NoTag}]
  BY <1>1, <1>2, <1>3
<1>6. ASSUME NEW w \in Hosts, NEW p \in Hosts, TagOf(w, p) # NoTag
      PROVE  TagOf(w, p)' = TagOf(w, p)
  <2>1. w \in DOMAIN account
    BY <1>6 DEF TagOf
  <2>2. w \in D
    BY <2>1 DEF D
  <2>3. TagOf(w, p)' = New(w, p)
    BY <1>1, <1>4, <2>2 DEF TagOf
  <2>4. QED
    BY <1>6, <2>3 DEF PullingTag
<1>7. ASSUME NEW pair \in pairs PROVE TagOf(pair[1], pair[2])' # NoTag
  <2>1. pair[1] \in D /\ pair[1] \in Hosts /\ pair[2] \in Hosts /\ pair = <<pair[1], pair[2]>>
    BY DEF D
  <2>2. TagOf(pair[1], pair[2])' = New(pair[1], pair[2])
    BY <1>1, <1>4, <2>1 DEF TagOf
  <2>3. QED
    BY <2>1, <2>2, LinksAssumption DEF PullingTag
<1>8. QED
  BY <1>1, <1>3, <1>5, <1>6, <1>7

\* A step that registers tags and leaves what was sent and who is reached.
LEMMA RegisterStep ==
  ASSUME TagInv, NEW pairs \in SUBSET (Hosts \X Hosts), NEW tag \in Tags,
         Register(pairs, tag), instances' \subseteq Hosts, tagSeed' \in Tags,
         UNCHANGED <<dTrans, sentWith>>
  PROVE  TagInv'
<1>1. AccountTypes'
  BY Registered DEF TagInv, AccountTypes
<1>2. \A x \in sentWith : x[1] \in Hosts /\ x[2] \in Hosts
  BY LinksAssumption DEF TagInv
<1>3. \A x \in sentWith : x[3] # NoTag => x[3] = TagOf(x[1], x[2])'
  BY <1>2, Registered DEF TagInv
<1>4. \A p \in Peers, w \in Hosts :
        dTrans[p][w] # 0 /\ p \in Servers /\ w \notin Servers => TagOf(w, p)' # NoTag
  <2>1. Peers \subseteq Hosts
    BY LinksAssumption
  <2>2. QED
    BY <2>1, Registered DEF TagInv
<1>5. QED
  BY <1>1, <1>3, <1>4 DEF TagInv

LEMMA ReceiveTagStep ==
  ASSUME TagInv, NEW l \in ReceiveIds, NEW given \in Tags,
         ReceiveLink(l) \/ StartReceiveLink(l) \/ ReceiveLinkFromAddress(l, given)
  PROVE  TagInv'
<1>1. CASE ReceiveLink(l)
  <2>1. PICK asked \in SUBSET Local(instances) : Register(asked \X {Me}, tagSeed)
    BY <1>1 DEF ReceiveLink
  <2>2. asked \X {Me} \in SUBSET (Hosts \X Hosts)
    BY <2>1, LinksAssumption DEF TagInv, AccountTypes, Local
  <2>3. UNCHANGED <<instances, tagSeed, dTrans, sentWith>>
    BY <1>1 DEF ReceiveLink, sending
  <2>4. instances' \subseteq Hosts /\ tagSeed' \in Tags /\ tagSeed \in Tags
    BY <2>3 DEF TagInv, AccountTypes
  <2>5. QED
    BY <2>1, <2>2, <2>3, <2>4, RegisterStep
<1>2. CASE StartReceiveLink(l)
  BY <1>2 DEF StartReceiveLink, sending, TagInv, AccountTypes, TagOf
<1>3. CASE ReceiveLinkFromAddress(l, given)
  BY <1>3 DEF ReceiveLinkFromAddress, sending, TagInv, AccountTypes, TagOf
<1>4. QED
  BY <1>1, <1>2, <1>3

\* A link's address gives a server its tag before it gives it Pushers.
LEMMA TransmitTagStep ==
  ASSUME TagInv, PusherInv, NEW s \in SendIds, NEW a \in Addresses,
         TransmitLink(s, a.peer, a.tag, a.wbs)
  PROVE  TagInv'
<1> DEFINE all == a.wbs \union instances'
           remote == IF a.peer \in Servers THEN all \intersect Servers ELSE {}
<1>1. /\ a.peer \in Peers /\ a.peer \in Hosts
      /\ a.tag \in Tags
      /\ a.wbs \subseteq Hosts
  BY LinksAssumption
<1>2. instances' = instances \union ({a.peer} \intersect Servers) /\ UNCHANGED <<tagSeed, sentWith>>
  BY DEF TransmitLink, receiving
<1>3. instances' \subseteq Hosts /\ all \subseteq Hosts /\ tagSeed' \in Tags
  BY <1>1, <1>2 DEF TagInv, AccountTypes
<1>4. PICK pairs \in SUBSET (Hosts \X Hosts) :
        /\ Register(pairs, a.tag)
        /\ a.peer \in Servers => \A w \in a.wbs \ Servers : <<w, a.peer>> \in pairs
  <2>1. RegisterPeer(all, a.peer, a.tag)
    BY DEF TransmitLink
  <2>2. CASE remote # {} /\ Register((all \ remote) \X remote, a.tag)
    <3>1. a.peer \in Servers => a.peer \in remote
      BY <1>2
    <3>2. (all \ remote) \X remote \in SUBSET (Hosts \X Hosts)
      BY <1>3
    <3>3. QED
      BY <2>2, <3>1, <3>2
  <2>3. CASE remote = {} /\ \E w \in all : Register({<<w, a.peer>>}, a.tag)
    <3>1. a.peer \notin Servers
      BY <1>2, <2>3
    <3>2. PICK w \in all : Register({<<w, a.peer>>}, a.tag)
      BY <2>3
    <3>3. {<<w, a.peer>>} \in SUBSET (Hosts \X Hosts)
      BY <1>1, <1>3
    <3>4. QED
      BY <3>1, <3>2, <3>3
  <2>4. QED
    BY <2>1, <2>2, <2>3 DEF RegisterPeer
<1>5. PICK wbs \in SUBSET a.wbs : StartPushers(a.peer, wbs)
  BY DEF TransmitLink
<1>6. AccountTypes /\ AccountTypes'
  BY <1>1, <1>3, <1>4, Registered DEF TagInv, AccountTypes
<1>7. \A p \in Peers, w \in Hosts :
        dTrans'[p][w] # 0 => dTrans[p][w] # 0 \/ (p = a.peer /\ w \in a.wbs)
  BY <1>1, <1>5 DEF StartPushers, PusherInv
<1>8. \A w, p \in Hosts : TagOf(w, p) # NoTag => TagOf(w, p)' = TagOf(w, p)
  BY <1>1, <1>4, <1>6, Registered
<1>9. ASSUME NEW p \in Peers, NEW w \in Hosts, dTrans'[p][w] # 0, p \in Servers, w \notin Servers
      PROVE  TagOf(w, p)' # NoTag
  <2>1. CASE dTrans[p][w] # 0
    <3>1. TagOf(w, p) # NoTag /\ p \in Hosts
      BY <1>9, <2>1, LinksAssumption DEF TagInv
    <3>2. QED
      BY <1>8, <3>1
  <2>2. CASE p = a.peer /\ w \in a.wbs
    <3>1. <<w, p>> \in pairs
      BY <1>4, <1>9, <2>2
    <3>2. \A pair \in pairs : TagOf(pair[1], pair[2])' # NoTag
      BY <1>1, <1>4, <1>6, Registered
    <3>3. QED
      BY <3>1, <3>2
  <2>3. QED
    BY <1>7, <1>9, <2>1, <2>2
<1>10. \A x \in sentWith : x[3] # NoTag => x[3] = TagOf(x[1], x[2])'
  <2>1. \A x \in sentWith : x[1] \in Hosts /\ x[2] \in Hosts
    BY LinksAssumption DEF TagInv
  <2>2. QED
    BY <1>8, <2>1 DEF TagInv
<1>11. QED
  BY <1>2, <1>6, <1>9, <1>10 DEF TagInv

LEMMA SendTagStep ==
  ASSUME TagInv, NEW p \in Peers, SendMsg(p)
  PROVE  TagInv'
<1>1. PICK w \in Hosts : dTrans[p][w] # 0 /\ sentWith' = sentWith \union {<<w, p, TagOf(w, p)>>}
  BY DEF SendMsg, Reached
<1>2. UNCHANGED <<account, instances, tagSeed, dTrans>>
  BY DEF SendMsg, receiving
<1>3. AccountTypes' /\ \A v, q : TagOf(v, q)' = TagOf(v, q)
  BY <1>2 DEF TagInv, AccountTypes, TagOf
<1>4. TagOf(w, p) \in Tags \union {NoTag}
  BY TagOfType, LinksAssumption DEF TagInv
<1>5. p \in Servers /\ w \notin Servers => TagOf(w, p) # NoTag
  BY <1>1 DEF TagInv
<1>6. \A x \in sentWith' : x \in sentWith \/ x = <<w, p, TagOf(w, p)>>
  BY <1>1
<1>7. QED
  BY <1>2, <1>3, <1>4, <1>5, <1>6 DEF TagInv

LEMMA TagStep == TagInv /\ PusherInv /\ [LNext]_lvars => TagInv'
<1> SUFFICES ASSUME TagInv, PusherInv, [LNext]_lvars PROVE TagInv'
  OBVIOUS
<1>1. CASE Receives
  <2>1. PICK l \in ReceiveIds :
          ReceiveLink(l) \/ StartReceiveLink(l) \/ \E tag \in Tags : ReceiveLinkFromAddress(l, tag)
    BY <1>1 DEF Receives
  <2>2. tagSeed \in Tags
    BY DEF TagInv, AccountTypes
  <2>3. QED
    BY <2>1, <2>2, ReceiveTagStep
<1>2. ASSUME NEW s \in SendIds, SenderFound(s) \/ SenderRaises(s) PROVE TagInv'
  BY <1>2 DEF SenderFound, SenderRaises, receiving, TagInv, AccountTypes, TagOf
<1>3. ASSUME NEW s \in SendIds, NEW a \in Addresses, TransmitLink(s, a.peer, a.tag, a.wbs)
      PROVE  TagInv'
  BY <1>3, TransmitTagStep
<1>4. ASSUME NEW p \in Peers, SendMsg(p) PROVE TagInv'
  BY <1>4, SendTagStep
<1>5. CASE UNCHANGED lvars
  BY <1>5 DEF lvars, TagInv, AccountTypes, TagOf
<1>6. QED
  BY <1>1, <1>2, <1>3, <1>4, <1>5 DEF LNext, Sends

LEMMA TagStart == LInit => TagInv
<1> SUFFICES ASSUME LInit PROVE TagInv
  OBVIOUS
<1>1. PICK f \in [Configured -> {[p \in Hosts |-> tag] : tag \in Tags \union {NoTag}}] : account = f
  BY DEF LInit
<1>2. AccountTypes
  BY <1>1, LinksAssumption DEF LInit, AccountTypes
<1>3. QED
  BY <1>2 DEF LInit, TagInv

\* The messages for a persona on a whiteboard carry one tag, which the persona still has, and a
\* server's are never without one: for any links loaded in any order, and whatever the
\* whiteboards' specification gave (WhiteboardTransport.py 440-466, 739-755, 846-858).
THEOREM OneTag == LinksSpec => []OneTagPerPersona
<1>1. LInit => PusherInv
  BY DEF LInit, PusherInv
<1>2. TagInv => OneTagPerPersona
  BY DEF TagInv, OneTagPerPersona
<1>3. QED
  BY <1>1, <1>2, TagStart, TagStep, PusherStep, PTL DEF LinksSpec

-----------------------------------------------------------------------------
(* The Pullers *)

\* A Puller polls a marked whiteboard, under the tag of a started link.
PullInv ==
  /\ links \in [ReceiveIds -> [tag : Tags \union {NoTag}, wbs : SUBSET Hosts, fresh : BOOLEAN]]
  /\ \A w \in Hosts : pullers[w] # NoTag =>
       /\ w \in pullerWBs
       /\ \E l \in ReceiveIds : w \in links[l].wbs /\ ~links[l].fresh /\ links[l].tag = pullers[w]

\* What PullersStay says of one step.
PullersStayStep ==
  \A w \in Hosts :
    /\ pullers[w] # NoTag => pullers'[w] = pullers[w]
    /\ w \in pullerWBs => pullers'[w] = pullers[w]
    /\ pullers'[w] # NoTag => \E l \in ReceiveIds :
         w \in links'[l].wbs /\ ~links'[l].fresh /\ links'[l].tag = pullers'[w]

\* A link is added under an id that had none.
LEMMA AddedLink ==
  ASSUME PullInv, AccountTypes, NEW l \in ReceiveIds, links[l] = NoLink,
         NEW tag \in Tags \union {NoTag}, AddLink(l, tag), UNCHANGED <<pullers, pullerWBs>>
  PROVE  PullInv' /\ PullersStayStep
<1>1. \A k \in ReceiveIds : links'[k] = IF k = l THEN [tag |-> tag, wbs |-> Local(instances), fresh |-> TRUE]
                                                  ELSE links[k]
  BY DEF AddLink, PullInv
<1>2. links' \in [ReceiveIds -> [tag : Tags \union {NoTag}, wbs : SUBSET Hosts, fresh : BOOLEAN]]
  <2>1. Local(instances) \in SUBSET Hosts
    BY DEF Local, AccountTypes
  <2>2. [tag |-> tag, wbs |-> Local(instances), fresh |-> TRUE]
          \in [tag : Tags \union {NoTag}, wbs : SUBSET Hosts, fresh : BOOLEAN]
    BY <2>1
  <2>3. QED
    BY <2>2 DEF AddLink, PullInv
<1>4. ASSUME NEW w \in Hosts, pullers[w] # NoTag
      PROVE  \E k \in ReceiveIds : w \in links'[k].wbs /\ ~links'[k].fresh /\ links'[k].tag = pullers[w]
  <2>1. PICK k \in ReceiveIds : w \in links[k].wbs /\ ~links[k].fresh /\ links[k].tag = pullers[w]
    BY <1>4 DEF PullInv
  <2>2. k # l
    BY <2>1 DEF NoLink
  <2>3. QED
    BY <1>1, <2>1, <2>2
<1>5. PullInv'
  BY <1>2, <1>4 DEF PullInv
<1>6. QED
  BY <1>4, <1>5 DEF PullersStayStep

\* A link is started: what is marked already is left alone.
LEMMA StartedLink ==
  ASSUME PullInv, NEW l \in ReceiveIds, StartReceiveLink(l)
  PROVE  PullInv' /\ PullersStayStep
<1>1. PICK good \in SUBSET NewPullers(l) :
        pullers' = [w \in Hosts |-> IF w \in good THEN links[l].tag ELSE pullers[w]]
  BY DEF StartReceiveLink
<1>2. /\ links[l].fresh
      /\ pullerWBs' = pullerWBs \union links[l].wbs
      /\ links' = [links EXCEPT ![l].fresh = FALSE]
  BY DEF StartReceiveLink
<1>3. \A k \in ReceiveIds :
        /\ links'[k].tag = links[k].tag /\ links'[k].wbs = links[k].wbs
        /\ links'[k].fresh = (links[k].fresh /\ k # l)
  BY <1>2 DEF PullInv
<1>4. links' \in [ReceiveIds -> [tag : Tags \union {NoTag}, wbs : SUBSET Hosts, fresh : BOOLEAN]]
  BY <1>2 DEF PullInv
<1>6. \A w \in good : w \in links[l].wbs /\ w \notin pullerWBs
  BY DEF NewPullers
<1>7. ASSUME NEW w \in Hosts, pullers'[w] # NoTag
      PROVE  /\ w \in pullerWBs'
             /\ \E k \in ReceiveIds : w \in links'[k].wbs /\ ~links'[k].fresh /\ links'[k].tag = pullers'[w]
  <2>1. CASE w \in good
    BY <1>1, <1>2, <1>3, <1>6, <2>1
  <2>2. CASE w \notin good
    <3>1. pullers'[w] = pullers[w]
      BY <1>1, <2>2
    <3>2. PICK k \in ReceiveIds : w \in links[k].wbs /\ ~links[k].fresh /\ links[k].tag = pullers[w]
      BY <1>7, <3>1 DEF PullInv
    <3>3. k # l
      BY <1>2, <3>2
    <3>4. w \in pullerWBs
      BY <1>7, <3>1 DEF PullInv
    <3>5. QED
      BY <1>2, <1>3, <3>1, <3>2, <3>3, <3>4
  <2>3. QED
    BY <2>1, <2>2
<1>8. PullInv'
  BY <1>4, <1>7 DEF PullInv
<1>9. ASSUME NEW w \in Hosts, pullers[w] # NoTag \/ w \in pullerWBs PROVE pullers'[w] = pullers[w]
  <2>1. w \in pullerWBs
    BY <1>9 DEF PullInv
  <2>2. QED
    BY <1>1, <1>6, <2>1
<1>10. QED
  BY <1>7, <1>8, <1>9 DEF PullersStayStep

LEMMA PullStep == PullInv /\ AccountTypes /\ [LNext]_lvars => PullInv' /\ PullersStayStep
<1> SUFFICES ASSUME PullInv, AccountTypes, [LNext]_lvars PROVE PullInv' /\ PullersStayStep
  OBVIOUS
<1>1. UNCHANGED <<links, pullerWBs, pullers>> => PullInv' /\ PullersStayStep
  BY DEF PullInv, PullersStayStep
<1>2. ASSUME NEW l \in ReceiveIds, ReceiveLink(l) PROVE PullInv' /\ PullersStayStep
  <2>1. PICK tag \in Tags \union {NoTag} : AddLink(l, tag)
    <3>1. tagSeed \in Tags /\ \A w : TagOf(w, Me) \in Tags \union {NoTag}
      BY TagOfType, LinksAssumption DEF AccountTypes
    <3>2. QED
      BY <1>2, <3>1 DEF ReceiveLink
  <2>2. links[l] = NoLink /\ UNCHANGED <<pullers, pullerWBs>>
    BY <1>2 DEF ReceiveLink
  <2>3. QED
    BY <2>1, <2>2, AddedLink
<1>3. ASSUME NEW l \in ReceiveIds, NEW tag \in Tags, ReceiveLinkFromAddress(l, tag)
      PROVE  PullInv' /\ PullersStayStep
  BY <1>3, AddedLink DEF ReceiveLinkFromAddress
<1>4. ASSUME NEW l \in ReceiveIds, StartReceiveLink(l) PROVE PullInv' /\ PullersStayStep
  BY <1>4, StartedLink
<1>5. CASE Sends
  BY <1>1, <1>5 DEF Sends, SenderFound, SenderRaises, TransmitLink, SendMsg, receiving
<1>6. CASE UNCHANGED lvars
  BY <1>1, <1>6 DEF lvars
<1>7. QED
  BY <1>2, <1>3, <1>4, <1>5, <1>6 DEF LNext, Receives

\* A Puller, once created, goes on polling the tag it was created for, a whiteboard that is marked
\* gets no other, and the tag it polls is that of a started link: for any links loaded and started
\* in any order and any failed creations (WhiteboardTransport.py 580-585, 668-735).
THEOREM PullersStayWhere == LinksSpec => PullersStay
<1>1. LInit => PullInv
  BY DEF LInit, PullInv, NoLink
<1>2. LInit => PusherInv
  BY DEF LInit, PusherInv
<1>3. TagInv => AccountTypes
  BY DEF TagInv
<1>4. PullersStayStep => [\A w \in Hosts :
        /\ pullers[w] # NoTag => pullers'[w] = pullers[w]
        /\ w \in pullerWBs => pullers'[w] = pullers[w]
        /\ pullers'[w] # NoTag => \E l \in ReceiveIds :
             w \in links'[l].wbs /\ ~links'[l].fresh /\ links'[l].tag = pullers'[w]]_lvars
  BY DEF PullersStayStep
<1>5. QED
  BY <1>1, <1>2, <1>3, <1>4, TagStart, TagStep, PusherStep, PullStep, PTL DEF LinksSpec, PullersStay

=============================================================================

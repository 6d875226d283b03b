-------------------------- MODULE ConnectionsProofs --------------------------
(***************************************************************************)
(* Proofs about Connections, for any number of links, connection ids,      *)
(* opening threads and user inputs: what the SDK was told of a connection  *)
(* agrees with the two tables AbsDestini keeps, a closed connection stays  *)
(* closed, and what ends the status thread.                                *)
(*                                                                         *)
(* And about Addressing, for any whiteboard files, personas, addresses,    *)
(* accounts and links: who hears what.                                     *)
(***************************************************************************)
EXTENDS Connections, Addressing, SequencingProofs, FiniteSetTheorems, TLAPS

\* A connection id of the table that the CommsConn under it still has.
LiveId(d) == connOf[d] # None /\ d \in Elems(ids[connOf[d]])

\* Ids the SDK has yet to generate are in use nowhere.
FreshInv ==
  /\ \A d \in Conns : d >= nextConn =>
       /\ connOf[d] = None /\ told[d] = None /\ ids[d] = <<>> /\ linkOf[d] = None /\ d \notin overtaken
       /\ \A t \in Openers : oconn[t] # d
  /\ \A k \in Conns : connOf[k] # None => connOf[k] < nextConn

\* An id is in the list of one CommsConn, once, and the SDK was not told that it is closed.
IdsInv ==
  \A c \in Conns : Distinct(ids[c]) /\ \A d \in Elems(ids[c]) : connOf[d] = c /\ told[d] # "CLOSED"

\* What a thread has made and not yet reported is in the tables, or its closing overtook the thread.
OpenerInv ==
  \A t \in Openers :
    /\ opc[t] \in {"fill", "report"} <=> oconn[t] # None
    /\ opc[t] # "idle" => olink[t] \in Links
    /\ oconn[t] # None =>
         /\ LiveId(oconn[t]) \/ oconn[t] \in overtaken
         /\ told[oconn[t]] = "CLOSED" => oconn[t] \in overtaken

\* A CommsConn without link is shared by nobody, and the thread that made it is about to fill it.
LinkInv ==
  \A c \in Conns : linkOf[c] = None =>
    \A k \in Conns : connOf[k] = c => k = c /\ \E t \in Openers : opc[t] = "fill" /\ oconn[t] = c

ToldInv == \A d \in Conns : told[d] \in {"OPEN", "UNAVAILABLE"} => LiveId(d) \/ d \in overtaken

ConnInv == TypeOK /\ FreshInv /\ IdsInv /\ OpenerInv /\ LinkInv /\ ToldInv

LEMMA KeysAre ==
  ASSUME TypeOK
  PROVE  /\ Keys = Elems(table) /\ Keys = {k \in Conns : connOf[k] # None}
         /\ \A k \in Keys : connOf[k] \in Conns
         /\ \A n \in DOMAIN table : table[n] \in Keys
BY DEF TypeOK, Keys, Elems

LEMMA InitConnInv == Init => ConnInv
<1> SUFFICES ASSUME Init PROVE ConnInv
  OBVIOUS
<1>1. /\ DOMAIN <<>> = {} /\ <<>> \in Seq(Conns) /\ Elems(<<>>) = {} /\ Distinct(<<>>)
      /\ 1 \in 1..(MaxConns + 1)
  BY ConnectionsAssumption DEF Elems, Distinct
<1>2. TypeOK
  <2>1. Keys = {k \in Conns : connOf[k] # None}
    BY <1>1 DEF Init, Keys
  <2>2. requests \subseteq Inputs \union {None} /\ available \in BOOLEAN /\ inChannel \subseteq Links
    BY DEF Init
  <2>3. QED
    BY <1>1, <2>1, <2>2 DEF Init, TypeOK, Statuses
<1>3. FreshInv
  BY ConnectionsAssumption DEF Init, FreshInv
<1>4. IdsInv
  BY <1>1 DEF Init, IdsInv
<1>5. OpenerInv
  BY DEF Init, OpenerInv
<1>6. LinkInv
  BY ConnectionsAssumption DEF Init, LinkInv
<1>7. ToldInv
  BY ConnectionsAssumption DEF Init, ToldInv, Statuses
<1>8. QED
  BY <1>2, <1>3, <1>4, <1>5, <1>6, <1>7 DEF ConnInv

\* A step that leaves the tables, the openers and the SDK's knowledge alone.
LEMMA OutsideStep ==
  ASSUME ConnInv, UNCHANGED <<connVars, openVars, toldVars>>, TypeOK'
  PROVE  ConnInv'
<1>1. /\ UNCHANGED <<table, connOf, ids, linkOf, status, nextConn, opc, olink, oconn, told, overtaken>>
  BY DEF connVars, openVars, toldVars
<1>2. FreshInv' /\ IdsInv' /\ LinkInv'
  BY <1>1 DEF ConnInv, FreshInv, IdsInv, LinkInv
<1>3. OpenerInv' /\ ToldInv'
  BY <1>1 DEF ConnInv, OpenerInv, ToldInv, LiveId
<1>4. QED
  BY <1>2, <1>3 DEF ConnInv

LEMMA OutsideSteps ==
  ASSUME ConnInv,
         \/ ActivateChannel
         \/ \E i \in Inputs : OnUserInputReceived(i)
         \/ \E l \in Links : NewLink(l)
         \/ WhiteboardChanges
         \/ UNCHANGED vars
  PROVE  ConnInv'
<1>1. TypeOK
  BY DEF ConnInv
<1>2. UNCHANGED <<connVars, openVars, toldVars>>
  BY DEF ActivateChannel, OnUserInputReceived, NewLink, WhiteboardChanges, vars
<1>3. UNCHANGED <<table, connOf, ids, linkOf, status, nextConn, opc, olink, oconn, told, overtaken>>
  BY <1>2 DEF connVars, openVars, toldVars
<1>4. Keys' = Keys
  BY <1>3 DEF Keys
<1>5. /\ requests' \subseteq Inputs \union {None} /\ available' \in BOOLEAN
      /\ linkTold' \in [Links -> {None, "LIVE", "DESTROYED"}] /\ inChannel' \subseteq Links
      /\ wbStatus' \in {"new", "up", "down"} /\ reported' \in BOOLEAN /\ watching' \in BOOLEAN
  <2>1. CASE ActivateChannel
    BY <1>1, <2>1 DEF ActivateChannel, linkVars, watchVars, TypeOK
  <2>2. CASE \E i \in Inputs : OnUserInputReceived(i)
    BY <1>1, <2>2 DEF OnUserInputReceived, linkVars, watchVars, TypeOK
  <2>3. CASE \E l \in Links : NewLink(l)
    BY <1>1, <2>3 DEF NewLink, channelVars, watchVars, TypeOK
  <2>4. CASE WhiteboardChanges
    BY <1>1, <2>4 DEF WhiteboardChanges, channelVars, linkVars, TypeOK
  <2>5. CASE UNCHANGED vars
    BY <1>1, <2>5 DEF vars, channelVars, linkVars, watchVars, TypeOK
  <2>6. QED
    BY <2>1, <2>2, <2>3, <2>4, <2>5
<1>6. TypeOK'
  BY <1>1, <1>3, <1>4, <1>5 DEF TypeOK
<1>7. QED
  BY <1>2, <1>6, OutsideStep

-----------------------------------------------------------------------------
(* Opening *)

\* The search finds the first connection of the link.
LEMMA SearchEnds ==
  ASSUME TypeOK, NEW l \in Links, Connected(l)
  PROVE  \E n \in DOMAIN table :
           /\ linkOf[connOf[table[n]]] = l
           /\ \A m \in 1..(n - 1) : linkOf[connOf[table[m]]] # l
<1> DEFINE S == {n \in DOMAIN table : linkOf[connOf[table[n]]] = l}
<1>1. DOMAIN table = 1..Len(table) /\ Len(table) \in Nat
  BY DEF TypeOK
<1>2. S \subseteq Nat /\ S # {}
  <2>1. PICK n \in DOMAIN table : linkOf[connOf[table[n]]] = l
    BY DEF Connected, Keys
  <2>2. QED
    BY <1>1, <2>1
<1>3. PICK n \in S : \A m \in S : ~(m < n)
  <2> HIDE DEF S
  <2>1. QED
    BY <1>2, LeastElement
<1>4. \A m \in 1..(n - 1) : m \in DOMAIN table /\ m < n
  BY <1>1
<1>5. \A m \in 1..(n - 1) : linkOf[connOf[table[m]]] # l
  BY <1>3, <1>4
<1>6. QED
  BY <1>5

LEMMA ShareFacts ==
  ASSUME ConnInv, NEW l \in Links, Connected(l), Share(l)
  PROVE  \E c \in Conns :
           /\ linkOf[c] = l /\ c \in {connOf[k] : k \in Keys}
           /\ nextConn \in Conns
           /\ table' = Append(table, nextConn)
           /\ connOf' = [connOf EXCEPT ![nextConn] = c]
           /\ ids' = [ids EXCEPT ![c] = Append(ids[c], nextConn)]
           /\ status' = [status EXCEPT ![c] = "OPEN"]
           /\ told' = [told EXCEPT ![nextConn] = "OPEN"]
           /\ nextConn' = nextConn + 1
           /\ linkOf' = linkOf
<1> DEFINE n == CHOOSE n \in DOMAIN table :
                  /\ linkOf[connOf[table[n]]] = l
                  /\ \A m \in 1..(n - 1) : linkOf[connOf[table[m]]] # l
           c == connOf[table[n]]
<1>1. n \in DOMAIN table /\ linkOf[connOf[table[n]]] = l
  BY SearchEnds DEF ConnInv
<1>2. /\ nextConn \in Conns
      /\ table' = Append(table, nextConn)
      /\ connOf' = [connOf EXCEPT ![nextConn] = c]
      /\ ids' = [ids EXCEPT ![c] = Append(ids[c], nextConn)]
      /\ status' = [status EXCEPT ![c] = "OPEN"]
      /\ told' = [told EXCEPT ![nextConn] = "OPEN"]
      /\ nextConn' = nextConn + 1
      /\ linkOf' = linkOf
  BY DEF Share
<1> HIDE DEF n
<1>3. table[n] \in Keys /\ c \in Conns
  BY <1>1, KeysAre DEF ConnInv
<1>4. QED
  BY <1>1, <1>2, <1>3

LEMMA NewKey ==
  ASSUME TypeOK, nextConn \in Conns, table' = Append(table, nextConn), NEW c \in Conns,
         connOf' = [connOf EXCEPT ![nextConn] = c]
  PROVE  /\ table' \in Seq(Conns) /\ connOf' \in [Conns -> Conns \union {None}]
         /\ Keys' = {k \in Conns : connOf'[k] # None}
<1>1. table \in Seq(Conns) /\ connOf \in [Conns -> Conns \union {None}] /\ c # None
  BY ConnectionsAssumption DEF TypeOK
<1>2. Elems(table') = Elems(table) \union {nextConn} /\ table' \in Seq(Conns)
  BY <1>1, AppendElems
<1>3. Keys = {k \in Conns : connOf[k] # None} /\ Keys = Elems(table) /\ Keys' = Elems(table')
  BY DEF TypeOK, Keys, Elems
<1>4. connOf' \in [Conns -> Conns \union {None}] /\ connOf'[nextConn] = c
      /\ \A k \in Conns \ {nextConn} : connOf'[k] = connOf[k]
  BY <1>1
<1>5. QED
  BY <1>1, <1>2, <1>3, <1>4

LEMMA ShareStep ==
  ASSUME ConnInv, NEW l \in Links, Connected(l), Share(l), UNCHANGED openVars,
         UNCHANGED <<channelVars, linkVars, watchVars, overtaken>>
  PROVE  ConnInv'
<1>1. PICK c \in Conns :
        /\ linkOf[c] = l /\ c \in {connOf[k] : k \in Keys}
        /\ nextConn \in Conns
        /\ table' = Append(table, nextConn)
        /\ connOf' = [connOf EXCEPT ![nextConn] = c]
        /\ ids' = [ids EXCEPT ![c] = Append(ids[c], nextConn)]
        /\ status' = [status EXCEPT ![c] = "OPEN"]
        /\ told' = [told EXCEPT ![nextConn] = "OPEN"]
        /\ nextConn' = nextConn + 1
        /\ linkOf' = linkOf
  BY ShareFacts
<1> DEFINE e == nextConn
<1>2. TypeOK /\ FreshInv /\ IdsInv /\ OpenerInv /\ LinkInv /\ ToldInv
  BY DEF ConnInv
<1>3. /\ opc' = opc /\ olink' = olink /\ oconn' = oconn /\ overtaken' = overtaken
      /\ requests' = requests /\ available' = available /\ linkTold' = linkTold /\ inChannel' = inChannel
      /\ wbStatus' = wbStatus /\ reported' = reported /\ watching' = watching
  BY DEF openVars, channelVars, linkVars, watchVars
<1>4. /\ e \in Nat /\ Conns \subseteq Nat /\ e <= MaxConns /\ MaxConns \in Nat /\ c # None
      /\ connOf \in [Conns -> Conns \union {None}] /\ ids \in [Conns -> Seq(Conns)]
      /\ told \in [Conns -> Statuses \union {None}] /\ linkOf \in [Conns -> Links \union {None}]
      /\ status \in [Conns -> Statuses] /\ oconn \in [Openers -> Conns \union {None}]
  BY <1>1, <1>2, ConnectionsAssumption DEF TypeOK, Conns
<1>5. connOf[e] = None /\ told[e] = None /\ ids[e] = <<>> /\ linkOf[e] = None /\ e \notin overtaken
      /\ \A t \in Openers : oconn[t] # e
  BY <1>1, <1>2, <1>4 DEF FreshInv
<1>6. c # e
  BY <1>1, <1>5, ConnectionsAssumption
<1>7. \A d \in Conns : e \notin Elems(ids[d])
  BY <1>1, <1>2, <1>5, ConnectionsAssumption DEF IdsInv
<1>8. /\ Append(ids[c], e) \in Seq(Conns)
      /\ Elems(Append(ids[c], e)) = Elems(ids[c]) \union {e}
      /\ Distinct(Append(ids[c], e))
  <2>1. ids[c] \in Seq(Conns) /\ Distinct(ids[c]) /\ e \notin Elems(ids[c])
    BY <1>2, <1>4, <1>7 DEF IdsInv
  <2>2. QED
    BY <1>1, <2>1, AppendElems
<1>9. /\ connOf'[e] = c /\ \A k \in Conns \ {e} : connOf'[k] = connOf[k]
      /\ ids'[c] = Append(ids[c], e) /\ \A d \in Conns \ {c} : ids'[d] = ids[d]
      /\ told'[e] = "OPEN" /\ \A d \in Conns \ {e} : told'[d] = told[d]
      /\ ids' \in [Conns -> Seq(Conns)] /\ told' \in [Conns -> Statuses \union {None}]
      /\ status' \in [Conns -> Statuses]
  BY <1>1, <1>4, <1>8 DEF Statuses
<1>10. /\ Elems(ids'[c]) = Elems(ids[c]) \union {e}
       /\ \A d \in Conns : Distinct(ids'[d]) /\ Elems(ids'[d]) \subseteq Elems(ids[d]) \union {e}
       /\ \A d \in Conns : d # c => Elems(ids'[d]) = Elems(ids[d])
  BY <1>2, <1>8, <1>9 DEF IdsInv
<1> HIDE DEF e
<1>11. TypeOK'
  <2>1. /\ table' \in Seq(Conns) /\ connOf' \in [Conns -> Conns \union {None}]
        /\ Keys' = {k \in Conns : connOf'[k] # None}
    BY <1>1, <1>2, NewKey
  <2>2. nextConn' \in 1..(MaxConns + 1)
    BY <1>1, <1>4 DEF e, Conns
  <2>3. QED
    BY <1>1, <1>2, <1>3, <1>9, <2>1, <2>2 DEF TypeOK
<1>12. FreshInv'
  <2>1. ASSUME NEW d \in Conns, d >= nextConn'
        PROVE  /\ connOf'[d] = None /\ told'[d] = None /\ ids'[d] = <<>> /\ linkOf'[d] = None /\ d \notin overtaken
               /\ \A t \in Openers : oconn[t] # d
    <3>1. d >= nextConn /\ d # e
      BY <1>1, <1>4, <2>1 DEF e
    <3>2. connOf[d] = None /\ told[d] = None /\ ids[d] = <<>> /\ linkOf[d] = None /\ d \notin overtaken
          /\ \A t \in Openers : oconn[t] # d
      BY <1>2, <3>1 DEF FreshInv
    <3>3. d # c
      BY <1>1, <3>2, ConnectionsAssumption
    <3>4. QED
      BY <1>1, <1>9, <3>1, <3>2, <3>3
  <2>2. ASSUME NEW k \in Conns, connOf'[k] # None PROVE connOf'[k] < nextConn'
    <3>1. c < nextConn
      <4>1. PICK j \in Keys : c = connOf[j]
        BY <1>1
      <4>2. j \in Conns
        BY <1>2, KeysAre
      <4>3. QED
        BY <1>2, <1>4, <4>1, <4>2 DEF FreshInv
    <3>2. CASE k = e
      BY <1>1, <1>4, <1>9, <3>1, <3>2 DEF e
    <3>3. CASE k # e
      <4>1. connOf'[k] = connOf[k]
        BY <1>9, <3>3
      <4>2. connOf[k] # None /\ connOf[k] \in Conns
        BY <1>4, <2>2, <4>1
      <4>3. connOf[k] < nextConn /\ connOf[k] \in Nat
        BY <1>2, <1>4, <4>2 DEF FreshInv
      <4>4. QED
        BY <1>1, <1>4, <4>1, <4>3 DEF e
    <3>4. QED
      BY <3>2, <3>3
  <2>3. QED
    BY <1>3, <2>1, <2>2 DEF FreshInv
<1>13. IdsInv'
  <2>1. ASSUME NEW d \in Conns, NEW x \in Elems(ids'[d]) PROVE connOf'[x] = d /\ told'[x] # "CLOSED"
    <3>1. CASE x = e
      <4>1. d = c
        BY <1>7, <1>10, <2>1, <3>1
      <4>2. QED
        BY <1>9, <3>1, <4>1
    <3>2. CASE x # e
      <4>1. x \in Elems(ids[d])
        BY <1>10, <2>1, <3>2
      <4>2. connOf[x] = d /\ told[x] # "CLOSED" /\ x \in Conns
        BY <1>2, <1>4, <4>1 DEF IdsInv, Elems
      <4>3. QED
        BY <1>9, <3>2, <4>2
    <3>3. QED
      BY <3>1, <3>2
  <2>2. QED
    BY <1>10, <2>1 DEF IdsInv
<1>14. ASSUME NEW d \in Conns, LiveId(d) PROVE connOf'[d] # None /\ d \in Elems(ids'[connOf'[d]])
  <2>1. d # e
    BY <1>5, <1>14 DEF LiveId
  <2>2. connOf'[d] = connOf[d] /\ connOf[d] \in Conns /\ connOf[d] # None
    BY <1>4, <1>9, <1>14, <2>1 DEF LiveId
  <2>3. Elems(ids[connOf[d]]) \subseteq Elems(ids'[connOf[d]])
    BY <1>10, <2>2
  <2>4. QED
    BY <1>14, <2>2, <2>3 DEF LiveId
<1>15. OpenerInv'
  <2>1. ASSUME NEW t \in Openers, oconn[t] # None
        PROVE  /\ \/ connOf'[oconn[t]] # None /\ oconn[t] \in Elems(ids'[connOf'[oconn[t]]])
                  \/ oconn[t] \in overtaken
               /\ told'[oconn[t]] = "CLOSED" => oconn[t] \in overtaken
    <3>1. oconn[t] \in Conns /\ oconn[t] # e
      BY <1>4, <1>5, <2>1
    <3>2. /\ LiveId(oconn[t]) \/ oconn[t] \in overtaken
          /\ told[oconn[t]] = "CLOSED" => oconn[t] \in overtaken
      BY <1>2, <2>1 DEF OpenerInv
    <3>3. told'[oconn[t]] = told[oconn[t]]
      BY <1>9, <3>1
    <3>4. LiveId(oconn[t]) => connOf'[oconn[t]] # None /\ oconn[t] \in Elems(ids'[connOf'[oconn[t]]])
      BY <1>14, <3>1
    <3>5. QED
      BY <3>2, <3>3, <3>4
  <2>2. QED
    BY <1>2, <1>3, <2>1 DEF OpenerInv, LiveId
<1>16. LinkInv'
  <2>1. ASSUME NEW d \in Conns, linkOf[d] = None, NEW k \in Conns, connOf'[k] = d
        PROVE  k = d /\ \E t \in Openers : opc[t] = "fill" /\ oconn[t] = d
    <3>1. d # c
      BY <1>1, <2>1, ConnectionsAssumption
    <3>2. connOf[k] = d
      BY <1>9, <2>1, <3>1
    <3>3. QED
      BY <1>2, <2>1, <3>2 DEF LinkInv
  <2>2. QED
    BY <1>1, <1>3, <2>1 DEF LinkInv
<1>17. ToldInv'
  <2>1. ASSUME NEW d \in Conns, told'[d] \in {"OPEN", "UNAVAILABLE"}
        PROVE  (connOf'[d] # None /\ d \in Elems(ids'[connOf'[d]])) \/ d \in overtaken
    <3>1. CASE d = e
      BY <1>4, <1>9, <1>10, <3>1
    <3>2. CASE d # e
      <4>1. told[d] \in {"OPEN", "UNAVAILABLE"}
        BY <1>9, <2>1, <3>2
      <4>2. QED
        BY <1>2, <1>14, <4>1 DEF ToldInv
    <3>3. QED
      BY <3>1, <3>2
  <2>2. QED
    BY <1>3, <2>1 DEF ToldInv, LiveId
<1>18. QED
  BY <1>11, <1>12, <1>13, <1>15, <1>16, <1>17 DEF ConnInv

\* A thread that found no connection of the link only leaves the lock.
LEMMA SearchFailsStep ==
  ASSUME ConnInv, NEW t \in Openers, NEW l \in Links, opc[t] = "idle",
         opc' = [opc EXCEPT ![t] = "insert"], olink' = [olink EXCEPT ![t] = l],
         UNCHANGED <<oconn, connVars, told, channelVars, linkVars, watchVars, overtaken>>
  PROVE  ConnInv'
<1>1. /\ TypeOK /\ FreshInv /\ IdsInv /\ OpenerInv /\ LinkInv /\ ToldInv
      /\ opc \in [Openers -> {"idle", "insert", "fill", "report"}]
      /\ olink \in [Openers -> Links \union {None}]
  BY DEF ConnInv, TypeOK
<1>2. /\ table' = table /\ connOf' = connOf /\ ids' = ids /\ linkOf' = linkOf /\ status' = status
      /\ nextConn' = nextConn /\ oconn' = oconn /\ told' = told /\ overtaken' = overtaken
      /\ requests' = requests /\ available' = available /\ linkTold' = linkTold /\ inChannel' = inChannel
      /\ wbStatus' = wbStatus /\ reported' = reported /\ watching' = watching
  BY DEF connVars, channelVars, linkVars, watchVars
<1>3. /\ opc'[t] = "insert" /\ olink'[t] = l /\ \A u \in Openers \ {t} : opc'[u] = opc[u] /\ olink'[u] = olink[u]
      /\ opc' \in [Openers -> {"idle", "insert", "fill", "report"}]
      /\ olink' \in [Openers -> Links \union {None}]
  BY <1>1
<1>4. TypeOK'
  BY <1>1, <1>2, <1>3 DEF TypeOK, Keys
<1>5. FreshInv' /\ IdsInv'
  BY <1>1, <1>2 DEF FreshInv, IdsInv
<1>6. OpenerInv'
  <2>1. ASSUME NEW u \in Openers
        PROVE  /\ opc'[u] \in {"fill", "report"} <=> oconn[u] # None
               /\ opc'[u] # "idle" => olink'[u] \in Links
    BY <1>1, <1>3 DEF OpenerInv
  <2>2. QED
    BY <1>1, <1>2, <2>1 DEF OpenerInv, LiveId
<1>7. LinkInv'
  <2>1. \A u \in Openers : opc[u] = "fill" => opc'[u] = "fill"
    BY <1>3
  <2>2. QED
    BY <1>1, <1>2, <2>1 DEF LinkInv
<1>8. ToldInv'
  BY <1>1, <1>2 DEF ToldInv, LiveId
<1>9. QED
  BY <1>4, <1>5, <1>6, <1>7, <1>8 DEF ConnInv

LEMMA InsertStep ==
  ASSUME ConnInv, NEW t \in Openers, InsertConnection(t)
  PROVE  ConnInv'
<1> DEFINE e == nextConn
<1>1. /\ opc[t] = "insert" /\ e \in Conns /\ table' = Append(table, e)
      /\ connOf' = [connOf EXCEPT ![e] = e] /\ ids' = [ids EXCEPT ![e] = <<e>>] /\ nextConn' = e + 1
      /\ opc' = [opc EXCEPT ![t] = "fill"] /\ oconn' = [oconn EXCEPT ![t] = e]
      /\ linkOf' = linkOf /\ status' = status /\ olink' = olink
      /\ requests' = requests /\ available' = available /\ linkTold' = linkTold /\ inChannel' = inChannel
      /\ wbStatus' = wbStatus /\ reported' = reported /\ watching' = watching
      /\ told' = told /\ overtaken' = overtaken
  BY DEF InsertConnection, channelVars, linkVars, watchVars, toldVars
<1>2. TypeOK /\ FreshInv /\ IdsInv /\ OpenerInv /\ LinkInv /\ ToldInv
  BY DEF ConnInv
<1>3. /\ e \in Nat /\ Conns \subseteq Nat /\ e <= MaxConns /\ MaxConns \in Nat /\ e # None
      /\ connOf \in [Conns -> Conns \union {None}] /\ ids \in [Conns -> Seq(Conns)]
      /\ opc \in [Openers -> {"idle", "insert", "fill", "report"}]
      /\ oconn \in [Openers -> Conns \union {None}] /\ told \in [Conns -> Statuses \union {None}]
  BY <1>1, <1>2, ConnectionsAssumption DEF TypeOK, Conns
<1>4. /\ connOf[e] = None /\ told[e] = None /\ ids[e] = <<>> /\ linkOf[e] = None /\ e \notin overtaken
      /\ \A u \in Openers : oconn[u] # e
  BY <1>1, <1>2, <1>3 DEF FreshInv
<1>5. \A d \in Conns : e \notin Elems(ids[d]) /\ connOf[d] # e
  <2>1. ASSUME NEW d \in Conns PROVE e \notin Elems(ids[d])
    BY <1>1, <1>2, <1>4, ConnectionsAssumption DEF IdsInv
  <2>2. ASSUME NEW d \in Conns, connOf[d] = e PROVE FALSE
    BY <1>2, <1>3, <2>2 DEF FreshInv
  <2>3. QED
    BY <2>1, <2>2
<1>6. <<e>> \in Seq(Conns) /\ Elems(<<e>>) = {e} /\ Distinct(<<e>>)
  <2>1. <<e>> \in Seq(Conns) /\ DOMAIN <<e>> = {1} /\ <<e>>[1] = e
    BY <1>1
  <2>2. QED
    BY <2>1 DEF Elems, Distinct
<1>7. /\ connOf'[e] = e /\ \A k \in Conns \ {e} : connOf'[k] = connOf[k]
      /\ ids'[e] = <<e>> /\ \A d \in Conns \ {e} : ids'[d] = ids[d]
      /\ opc'[t] = "fill" /\ oconn'[t] = e /\ \A u \in Openers \ {t} : opc'[u] = opc[u] /\ oconn'[u] = oconn[u]
      /\ ids' \in [Conns -> Seq(Conns)]
      /\ opc' \in [Openers -> {"idle", "insert", "fill", "report"}]
      /\ oconn' \in [Openers -> Conns \union {None}]
  BY <1>1, <1>3, <1>6
<1> HIDE DEF e
<1>8. TypeOK'
  <2>1. /\ table' \in Seq(Conns) /\ connOf' \in [Conns -> Conns \union {None}]
        /\ Keys' = {k \in Conns : connOf'[k] # None}
    BY <1>1, <1>2, NewKey DEF e
  <2>2. nextConn' \in 1..(MaxConns + 1)
    BY <1>1, <1>3 DEF e, Conns
  <2>3. QED
    BY <1>1, <1>2, <1>7, <2>1, <2>2 DEF TypeOK
<1>9. FreshInv'
  <2>1. ASSUME NEW d \in Conns, d >= nextConn'
        PROVE  /\ connOf'[d] = None /\ told[d] = None /\ ids'[d] = <<>> /\ linkOf[d] = None /\ d \notin overtaken
               /\ \A u \in Openers : oconn'[u] # d
    <3>1. d >= nextConn /\ d # e
      BY <1>1, <1>3, <2>1 DEF e
    <3>2. /\ connOf[d] = None /\ told[d] = None /\ ids[d] = <<>> /\ linkOf[d] = None /\ d \notin overtaken
          /\ \A u \in Openers : oconn[u] # d
      BY <1>2, <3>1 DEF FreshInv
    <3>3. \A u \in Openers : oconn'[u] # d
      BY <1>7, <3>1, <3>2
    <3>4. QED
      BY <1>7, <3>1, <3>2, <3>3
  <2>2. ASSUME NEW k \in Conns, connOf'[k] # None PROVE connOf'[k] < nextConn'
    <3>1. CASE k = e
      BY <1>1, <1>3, <1>7, <3>1
    <3>2. CASE k # e
      <4>1. connOf[k] # None /\ connOf[k] \in Conns /\ connOf'[k] = connOf[k]
        BY <1>3, <1>7, <2>2, <3>2
      <4>2. connOf[k] < nextConn /\ connOf[k] \in Nat
        BY <1>2, <1>3, <4>1 DEF FreshInv
      <4>3. QED
        BY <1>1, <1>3, <4>1, <4>2 DEF e
    <3>3. QED
      BY <3>1, <3>2
  <2>3. QED
    BY <1>1, <2>1, <2>2 DEF FreshInv
<1>10. IdsInv'
  <2>1. ASSUME NEW d \in Conns
        PROVE  Distinct(ids'[d]) /\ \A x \in Elems(ids'[d]) : connOf'[x] = d /\ told[x] # "CLOSED"
    <3>1. CASE d = e
      BY <1>4, <1>6, <1>7, <3>1, ConnectionsAssumption DEF Statuses
    <3>2. CASE d # e
      <4>1. ids'[d] = ids[d] /\ e \notin Elems(ids[d]) /\ Elems(ids[d]) \subseteq Conns
        BY <1>3, <1>5, <1>7, <3>2 DEF Elems
      <4>2. QED
        BY <1>2, <1>7, <4>1 DEF IdsInv
    <3>3. QED
      BY <3>1, <3>2
  <2>2. QED
    BY <1>1, <2>1 DEF IdsInv
<1>11. ASSUME NEW d \in Conns, LiveId(d) PROVE connOf'[d] # None /\ d \in Elems(ids'[connOf'[d]])
  <2>1. d # e /\ connOf[d] \in Conns /\ connOf[d] # e
    BY <1>3, <1>4, <1>5, <1>11 DEF LiveId
  <2>2. connOf'[d] = connOf[d] /\ ids'[connOf[d]] = ids[connOf[d]]
    BY <1>7, <2>1
  <2>3. QED
    BY <1>11, <2>2 DEF LiveId
<1>12. OpenerInv'
  <2>1. ASSUME NEW u \in Openers
        PROVE  /\ opc'[u] \in {"fill", "report"} <=> oconn'[u] # None
               /\ opc'[u] # "idle" => olink[u] \in Links
               /\ oconn'[u] # None =>
                    /\ \/ connOf'[oconn'[u]] # None /\ oconn'[u] \in Elems(ids'[connOf'[oconn'[u]]])
                       \/ oconn'[u] \in overtaken
                    /\ told[oconn'[u]] = "CLOSED" => oconn'[u] \in overtaken
    <3>1. CASE u = t
      <4>1. opc'[u] = "fill" /\ oconn'[u] = e
        BY <1>7, <3>1
      <4>2. connOf'[e] # None /\ e \in Elems(ids'[connOf'[e]]) /\ told[e] # "CLOSED"
        BY <1>3, <1>4, <1>6, <1>7, ConnectionsAssumption DEF Statuses
      <4>3. olink[u] \in Links
        BY <1>1, <1>2, <3>1 DEF OpenerInv
      <4>4. QED
        BY <1>3, <4>1, <4>2, <4>3
    <3>2. CASE u # t
      <4>1. opc'[u] = opc[u] /\ oconn'[u] = oconn[u]
        BY <1>7, <3>2
      <4>2. oconn[u] # None => oconn[u] \in Conns
        BY <1>3
      <4>3. QED
        BY <1>2, <1>11, <4>1, <4>2 DEF OpenerInv
    <3>3. QED
      BY <3>1, <3>2
  <2>2. QED
    BY <1>1, <2>1 DEF OpenerInv, LiveId
<1>13. LinkInv'
  <2>1. ASSUME NEW d \in Conns, linkOf[d] = None, NEW k \in Conns, connOf'[k] = d
        PROVE  k = d /\ \E u \in Openers : opc'[u] = "fill" /\ oconn'[u] = d
    <3>1. CASE k = e
      BY <1>7, <2>1, <3>1
    <3>2. CASE k # e
      <4>1. connOf[k] = d
        BY <1>7, <2>1, <3>2
      <4>2. k = d /\ \E u \in Openers : opc[u] = "fill" /\ oconn[u] = d
        BY <1>2, <2>1, <4>1 DEF LinkInv
      <4>3. PICK u \in Openers : opc[u] = "fill" /\ oconn[u] = d
        BY <4>2
      <4>4. u # t
        BY <1>1, <4>3
      <4>5. QED
        BY <1>7, <4>2, <4>3, <4>4
    <3>3. QED
      BY <3>1, <3>2
  <2>2. QED
    BY <1>1, <2>1 DEF LinkInv
<1>14. ToldInv'
  <2>1. ASSUME NEW d \in Conns, told[d] \in {"OPEN", "UNAVAILABLE"}
        PROVE  (connOf'[d] # None /\ d \in Elems(ids'[connOf'[d]])) \/ d \in overtaken
    BY <1>2, <1>11, <2>1 DEF ToldInv
  <2>2. QED
    BY <1>1, <2>1 DEF ToldInv, LiveId
<1>15. QED
  BY <1>8, <1>9, <1>10, <1>12, <1>13, <1>14 DEF ConnInv

LEMMA FillStep ==
  ASSUME ConnInv, NEW t \in Openers, FillConnection(t)
  PROVE  ConnInv'
<1> DEFINE o == oconn[t]
<1>1. /\ opc[t] = "fill" /\ linkOf' = [linkOf EXCEPT ![o] = olink[t]]
      /\ opc' = [opc EXCEPT ![t] = "report"]
      /\ table' = table /\ connOf' = connOf /\ ids' = ids /\ status' = status /\ nextConn' = nextConn
      /\ olink' = olink /\ oconn' = oconn /\ told' = told /\ overtaken' = overtaken
      /\ requests' = requests /\ available' = available /\ linkTold' = linkTold /\ inChannel' = inChannel
      /\ wbStatus' = wbStatus /\ reported' = reported /\ watching' = watching
  BY DEF FillConnection, channelVars, linkVars, watchVars, toldVars
<1>2. /\ TypeOK /\ FreshInv /\ IdsInv /\ OpenerInv /\ LinkInv /\ ToldInv
      /\ linkOf \in [Conns -> Links \union {None}]
      /\ opc \in [Openers -> {"idle", "insert", "fill", "report"}]
  BY DEF ConnInv, TypeOK
<1>3. o \in Conns /\ olink[t] \in Links /\ olink[t] # None
  <2>1. o # None /\ olink[t] \in Links
    BY <1>1, <1>2 DEF OpenerInv
  <2>2. QED
    BY <1>2, <2>1, ConnectionsAssumption DEF TypeOK
<1>4. /\ linkOf'[o] # None /\ \A d \in Conns \ {o} : linkOf'[d] = linkOf[d]
      /\ linkOf' \in [Conns -> Links \union {None}]
      /\ opc'[t] = "report" /\ \A u \in Openers \ {t} : opc'[u] = opc[u]
      /\ opc' \in [Openers -> {"idle", "insert", "fill", "report"}]
  BY <1>1, <1>2, <1>3
<1>5. TypeOK'
  BY <1>1, <1>2, <1>4 DEF TypeOK, Keys
<1>6. FreshInv'
  <2>1. ASSUME NEW d \in Conns, d >= nextConn PROVE linkOf'[d] = None
    <3>1. linkOf[d] = None /\ \A u \in Openers : oconn[u] # d
      BY <1>2, <2>1 DEF FreshInv
    <3>2. QED
      BY <1>4, <3>1
  <2>2. QED
    BY <1>1, <1>2, <2>1 DEF FreshInv
<1>7. IdsInv' /\ ToldInv'
  BY <1>1, <1>2 DEF IdsInv, ToldInv, LiveId
<1>8. OpenerInv'
  <2>1. ASSUME NEW u \in Openers
        PROVE  /\ opc'[u] \in {"fill", "report"} <=> oconn[u] # None
               /\ opc'[u] # "idle" => olink[u] \in Links
    BY <1>1, <1>2, <1>4 DEF OpenerInv
  <2>2. QED
    BY <1>1, <1>2, <2>1 DEF OpenerInv, LiveId
<1>9. LinkInv'
  <2>1. ASSUME NEW d \in Conns, linkOf'[d] = None, NEW k \in Conns, connOf[k] = d
        PROVE  k = d /\ \E u \in Openers : opc'[u] = "fill" /\ oconn[u] = d
    <3>1. d # o /\ linkOf[d] = None
      BY <1>4, <2>1
    <3>2. k = d /\ \E u \in Openers : opc[u] = "fill" /\ oconn[u] = d
      BY <1>2, <2>1, <3>1 DEF LinkInv
    <3>3. QED
      BY <1>4, <3>1, <3>2
  <2>2. QED
    BY <1>1, <2>1 DEF LinkInv
<1>10. QED
  BY <1>5, <1>6, <1>7, <1>8, <1>9 DEF ConnInv

LEMMA ReportStep ==
  ASSUME ConnInv, NEW t \in Openers, ReportOpen(t)
  PROVE  ConnInv'
<1> DEFINE o == oconn[t]
<1>1. /\ opc[t] = "report" /\ told' = [told EXCEPT ![o] = "OPEN"]
      /\ opc' = [opc EXCEPT ![t] = "idle"] /\ olink' = [olink EXCEPT ![t] = None]
      /\ oconn' = [oconn EXCEPT ![t] = None]
      /\ table' = table /\ connOf' = connOf /\ ids' = ids /\ linkOf' = linkOf /\ status' = status
      /\ nextConn' = nextConn /\ overtaken' = overtaken
      /\ requests' = requests /\ available' = available /\ linkTold' = linkTold /\ inChannel' = inChannel
      /\ wbStatus' = wbStatus /\ reported' = reported /\ watching' = watching
  BY DEF ReportOpen, connVars, channelVars, linkVars, watchVars
<1>2. /\ TypeOK /\ FreshInv /\ IdsInv /\ OpenerInv /\ LinkInv /\ ToldInv
      /\ told \in [Conns -> Statuses \union {None}]
      /\ opc \in [Openers -> {"idle", "insert", "fill", "report"}]
      /\ olink \in [Openers -> Links \union {None}] /\ oconn \in [Openers -> Conns \union {None}]
  BY DEF ConnInv, TypeOK
<1>3. o \in Conns /\ (LiveId(o) \/ o \in overtaken)
  <2>1. o # None
    BY <1>1, <1>2 DEF OpenerInv
  <2>2. QED
    BY <1>2, <2>1 DEF OpenerInv
<1>4. /\ told'[o] = "OPEN" /\ \A d \in Conns \ {o} : told'[d] = told[d]
      /\ told' \in [Conns -> Statuses \union {None}]
      /\ opc'[t] = "idle" /\ oconn'[t] = None
      /\ \A u \in Openers \ {t} : opc'[u] = opc[u] /\ olink'[u] = olink[u] /\ oconn'[u] = oconn[u]
      /\ opc' \in [Openers -> {"idle", "insert", "fill", "report"}]
      /\ olink' \in [Openers -> Links \union {None}] /\ oconn' \in [Openers -> Conns \union {None}]
  BY <1>1, <1>2, <1>3 DEF Statuses
<1>5. TypeOK'
  BY <1>1, <1>2, <1>4 DEF TypeOK, Keys
<1>6. FreshInv'
  <2>1. ASSUME NEW d \in Conns, d >= nextConn PROVE told'[d] = None /\ \A u \in Openers : oconn'[u] # d
    <3>1. told[d] = None /\ \A u \in Openers : oconn[u] # d
      BY <1>2, <2>1 DEF FreshInv
    <3>2. QED
      BY <1>4, <3>1, ConnectionsAssumption
  <2>2. QED
    BY <1>1, <1>2, <2>1 DEF FreshInv
<1>7. IdsInv'
  <2>1. \A d \in Conns : told[d] # "CLOSED" => told'[d] # "CLOSED"
    BY <1>4
  <2>2. \A c \in Conns : Elems(ids[c]) \subseteq Conns
    BY <1>2 DEF TypeOK, Elems
  <2>3. QED
    BY <1>1, <1>2, <2>1, <2>2 DEF IdsInv
<1>8. OpenerInv'
  <2>1. ASSUME NEW u \in Openers
        PROVE  /\ opc'[u] \in {"fill", "report"} <=> oconn'[u] # None
               /\ opc'[u] # "idle" => olink'[u] \in Links
               /\ oconn'[u] # None =>
                    /\ \/ connOf[oconn'[u]] # None /\ oconn'[u] \in Elems(ids[connOf[oconn'[u]]])
                       \/ oconn'[u] \in overtaken
                    /\ told'[oconn'[u]] = "CLOSED" => oconn'[u] \in overtaken
    <3>1. CASE u = t
      BY <1>4, <3>1
    <3>2. CASE u # t
      <4>1. opc'[u] = opc[u] /\ olink'[u] = olink[u] /\ oconn'[u] = oconn[u]
        BY <1>4, <3>2
      <4>2. ASSUME oconn[u] # None, told'[oconn[u]] = "CLOSED" PROVE told[oconn[u]] = "CLOSED"
        <5>1. oconn[u] \in Conns
          BY <1>2, <4>2
        <5>2. QED
          BY <1>4, <4>2, <5>1
      <4>3. QED
        BY <1>2, <4>1, <4>2 DEF OpenerInv, LiveId
    <3>3. QED
      BY <3>1, <3>2
  <2>2. QED
    BY <1>1, <2>1 DEF OpenerInv, LiveId
<1>9. LinkInv'
  <2>1. \A u \in Openers : opc[u] = "fill" => opc'[u] = "fill" /\ oconn'[u] = oconn[u]
    BY <1>1, <1>4
  <2>2. QED
    BY <1>1, <1>2, <2>1 DEF LinkInv
<1>10. ToldInv'
  <2>1. ASSUME NEW d \in Conns, told'[d] \in {"OPEN", "UNAVAILABLE"} PROVE LiveId(d) \/ d \in overtaken
    BY <1>2, <1>3, <1>4, <2>1 DEF ToldInv
  <2>2. QED
    BY <1>1, <2>1 DEF ToldInv, LiveId
<1>11. QED
  BY <1>5, <1>6, <1>7, <1>8, <1>9, <1>10 DEF ConnInv

-----------------------------------------------------------------------------
(* Closing *)

LEMMA CloseStep ==
  ASSUME ConnInv, NEW c \in Keys, Close(c), UNCHANGED openVars, UNCHANGED <<channelVars, watchVars>>,
         linkTold' \in [Links -> {None, "LIVE", "DESTROYED"}], inChannel' \subseteq Links
  PROVE  ConnInv'
<1> DEFINE own == connOf[c]
<1>1. /\ TypeOK /\ FreshInv /\ IdsInv /\ OpenerInv /\ LinkInv /\ ToldInv
      /\ connOf \in [Conns -> Conns \union {None}] /\ ids \in [Conns -> Seq(Conns)]
      /\ told \in [Conns -> Statuses \union {None}] /\ table \in Seq(Conns) /\ Conns \subseteq Nat
      /\ nextConn \in Nat /\ oconn \in [Openers -> Conns \union {None}]
  BY DEF ConnInv, TypeOK, Conns
<1>2. c \in Conns /\ own \in Conns /\ own # None
  BY <1>1, KeysAre, ConnectionsAssumption
<1>3. /\ table' = Only(table, Conns \ {c})
      /\ ids' = [ids EXCEPT ![own] = Only(ids[own], Conns \ {c})]
      /\ connOf' = [connOf EXCEPT ![c] = None]
      /\ overtaken' = IF BeingOpened(c) THEN overtaken \union {c} ELSE overtaken
      /\ IF c \in Elems(ids[own]) /\ linkOf[own] # None
         THEN told' = [told EXCEPT ![c] = "CLOSED"] ELSE told' = told
      /\ linkOf' = linkOf /\ status' = status /\ nextConn' = nextConn
      /\ opc' = opc /\ olink' = olink /\ oconn' = oconn
      /\ requests' = requests /\ available' = available
      /\ wbStatus' = wbStatus /\ reported' = reported /\ watching' = watching
  BY <1>1, <1>2 DEF Close, Unlink, Without, KeepLink, ReportClosed, openVars, channelVars, watchVars
<1> DEFINE shorter == Only(ids[own], Conns \ {c})
<1>4. shorter \in Seq(Conns) /\ Distinct(shorter) /\ Elems(shorter) = Elems(ids[own]) \ {c}
  <2>1. ids[own] \in Seq(Conns) /\ Distinct(ids[own])
    BY <1>1, <1>2 DEF IdsInv
  <2>2. Elems(ids[own]) \subseteq Conns
    BY <2>1 DEF Elems
  <2>3. QED
    BY <2>1, <2>2, OnlyElems
<1> HIDE DEF shorter
<1>5. /\ connOf'[c] = None /\ \A k \in Conns \ {c} : connOf'[k] = connOf[k]
      /\ connOf' \in [Conns -> Conns \union {None}]
      /\ ids'[own] = shorter /\ \A d \in Conns \ {own} : ids'[d] = ids[d]
      /\ ids' \in [Conns -> Seq(Conns)]
  BY <1>1, <1>2, <1>3, <1>4 DEF shorter
<1> HIDE DEF own
<1>6. /\ told' \in [Conns -> Statuses \union {None}]
      /\ \A d \in Conns \ {c} : told'[d] = told[d]
      /\ told'[c] = "CLOSED" \/ (told'[c] = told[c] /\ (c \notin Elems(ids[own]) \/ linkOf[own] = None))
  BY <1>1, <1>2, <1>3 DEF Statuses
<1>7. \A d \in Conns : Distinct(ids'[d]) /\ Elems(ids'[d]) = Elems(ids[d]) \ {c}
  <2>1. ASSUME NEW d \in Conns, d # own PROVE c \notin Elems(ids[d])
    BY <1>1, <1>2, <2>1 DEF IdsInv, own
  <2>2. \A d \in Conns : Distinct(ids[d])
    BY <1>1 DEF IdsInv
  <2>3. QED
    BY <1>4, <1>5, <2>1, <2>2
<1>8. overtaken \subseteq overtaken' /\ overtaken' \subseteq overtaken \union {c}
      /\ (BeingOpened(c) => c \in overtaken')
  BY <1>3
<1>9. TypeOK'
  <2>1. table' \in Seq(Conns) /\ Elems(table') = Elems(table) \ {c}
    <3>1. Elems(table) \subseteq Conns
      BY <1>1 DEF Elems
    <3>2. QED
      BY <1>1, <1>3, <3>1, OnlyElems
  <2>2. Keys = {k \in Conns : connOf[k] # None} /\ Keys = Elems(table) /\ Keys' = Elems(table')
    BY <1>1 DEF TypeOK, Keys, Elems
  <2>3. Keys' = {k \in Conns : connOf'[k] # None}
    BY <1>2, <1>5, <2>1, <2>2
  <2>4. overtaken' \subseteq Conns
    BY <1>1, <1>2, <1>8 DEF TypeOK
  <2>5. QED
    BY <1>1, <1>3, <1>5, <1>6, <2>1, <2>3, <2>4 DEF TypeOK
<1>10. FreshInv'
  <2>1. ASSUME NEW d \in Conns, d >= nextConn
        PROVE  /\ connOf'[d] = None /\ told'[d] = None /\ ids'[d] = <<>> /\ linkOf[d] = None /\ d \notin overtaken'
               /\ \A t \in Openers : oconn[t] # d
    <3>1. /\ connOf[d] = None /\ told[d] = None /\ ids[d] = <<>> /\ linkOf[d] = None /\ d \notin overtaken
          /\ \A t \in Openers : oconn[t] # d
      BY <1>1, <2>1 DEF FreshInv
    <3>2. d # c
      BY <1>2, <3>1 DEF own
    <3>3. d # own
      <4>1. own < nextConn /\ own \in Nat
        BY <1>1, <1>2 DEF FreshInv, own
      <4>2. QED
        BY <1>1, <2>1, <4>1
    <3>4. QED
      BY <1>5, <1>6, <1>8, <3>1, <3>2, <3>3
  <2>2. ASSUME NEW k \in Conns, connOf'[k] # None PROVE connOf'[k] < nextConn
    <3>1. connOf'[k] = connOf[k]
      BY <1>5, <2>2
    <3>2. QED
      BY <1>1, <2>2, <3>1 DEF FreshInv
  <2>3. QED
    BY <1>3, <2>1, <2>2 DEF FreshInv
<1>11. IdsInv'
  <2>1. ASSUME NEW d \in Conns, NEW x \in Elems(ids'[d]) PROVE connOf'[x] = d /\ told'[x] # "CLOSED"
    <3>1. x \in Elems(ids[d]) /\ x # c
      BY <1>7, <2>1
    <3>2. connOf[x] = d /\ told[x] # "CLOSED" /\ x \in Conns
      BY <1>1, <3>1 DEF IdsInv, Elems
    <3>3. QED
      BY <1>5, <1>6, <3>1, <3>2
  <2>2. QED
    BY <1>7, <2>1 DEF IdsInv
<1>12. ASSUME NEW d \in Conns, d # c, LiveId(d) PROVE connOf'[d] # None /\ d \in Elems(ids'[connOf'[d]])
  <2>1. connOf'[d] = connOf[d] /\ connOf[d] \in Conns
    BY <1>1, <1>5, <1>12 DEF LiveId
  <2>2. QED
    BY <1>7, <1>12, <2>1 DEF LiveId
<1>13. OpenerInv'
  <2>1. ASSUME NEW t \in Openers, oconn[t] # None
        PROVE  /\ (connOf'[oconn[t]] # None /\ oconn[t] \in Elems(ids'[connOf'[oconn[t]]])) \/ oconn[t] \in overtaken'
               /\ told'[oconn[t]] = "CLOSED" => oconn[t] \in overtaken'
    <3>1. CASE oconn[t] = c
      BY <1>8, <3>1 DEF BeingOpened
    <3>2. CASE oconn[t] # c
      <4>1. oconn[t] \in Conns
        BY <1>1, <2>1
      <4>2. /\ LiveId(oconn[t]) \/ oconn[t] \in overtaken
            /\ told[oconn[t]] = "CLOSED" => oconn[t] \in overtaken
        BY <1>1, <2>1 DEF OpenerInv
      <4>3. told'[oconn[t]] = told[oconn[t]]
        BY <1>6, <3>2, <4>1
      <4>4. QED
        BY <1>8, <1>12, <3>2, <4>1, <4>2, <4>3
    <3>3. QED
      BY <3>1, <3>2
  <2>2. QED
    BY <1>1, <1>3, <2>1 DEF OpenerInv, LiveId
<1>14. LinkInv'
  <2>1. \A k, d \in Conns : connOf'[k] = d => connOf[k] = d
    BY <1>2, <1>5, ConnectionsAssumption
  <2>2. QED
    BY <1>1, <1>3, <2>1 DEF LinkInv
<1>15. ToldInv'
  <2>1. ASSUME NEW d \in Conns, told'[d] \in {"OPEN", "UNAVAILABLE"}
        PROVE  (connOf'[d] # None /\ d \in Elems(ids'[connOf'[d]])) \/ d \in overtaken'
    <3>1. CASE d = c
      <4>1. told[c] \in {"OPEN", "UNAVAILABLE"} /\ (c \notin Elems(ids[own]) \/ linkOf[own] = None)
        BY <1>6, <2>1, <3>1
      <4>2. CASE c \in overtaken
        BY <1>8, <3>1, <4>2
      <4>3. CASE c \notin overtaken
        <5>1. c \in Elems(ids[own])
          BY <1>1, <1>2, <4>1, <4>3 DEF ToldInv, LiveId, own
        <5>2. linkOf[own] = None
          BY <4>1, <5>1
        <5>3. c = own /\ \E t \in Openers : oconn[t] = own
          BY <1>1, <1>2, <5>2 DEF LinkInv, own
        <5>4. QED
          BY <1>8, <3>1, <5>3 DEF BeingOpened
      <4>4. QED
        BY <4>2, <4>3
    <3>2. CASE d # c
      <4>1. told[d] \in {"OPEN", "UNAVAILABLE"}
        BY <1>6, <2>1, <3>2
      <4>2. QED
        BY <1>1, <1>8, <1>12, <3>2, <4>1 DEF ToldInv
    <3>3. QED
      BY <3>1, <3>2
  <2>2. QED
    BY <1>3, <2>1 DEF ToldInv, LiveId
<1>16. QED
  BY <1>9, <1>10, <1>11, <1>13, <1>14, <1>15 DEF ConnInv

-----------------------------------------------------------------------------
(* The status thread *)

LEMMA StatusStep ==
  ASSUME ConnInv, NEW st \in Statuses, SetConnStatus(st), reported' \in BOOLEAN,
         UNCHANGED <<wbStatus, channelVars, linkVars, openVars>>
  PROVE  ConnInv'
<1> DEFINE concerned == {c \in Conns : Concerned(c, st) /\ \E n \in Reached(st) : connOf[table[n]] = c}
           heads == {Head(ids[c]) : c \in concerned}
<1>1. /\ TypeOK /\ FreshInv /\ IdsInv /\ OpenerInv /\ LinkInv /\ ToldInv
      /\ connOf \in [Conns -> Conns \union {None}] /\ ids \in [Conns -> Seq(Conns)]
      /\ told \in [Conns -> Statuses \union {None}] /\ status \in [Conns -> Statuses]
      /\ oconn \in [Openers -> Conns \union {None}]
  BY DEF ConnInv, TypeOK
<1>2. /\ told' = [d \in Conns |-> IF d \in heads THEN st ELSE told[d]]
      /\ status' = [c \in Conns |-> IF c \in concerned THEN st ELSE status[c]]
      /\ watching' \in BOOLEAN
      /\ IF st = "CLOSED"
         THEN /\ ids' = [c \in Conns |-> IF c \in concerned THEN Tail(ids[c]) ELSE ids[c]]
              /\ overtaken' = overtaken \union {d \in heads : BeingOpened(d)}
         ELSE ids' = ids /\ overtaken' = overtaken
      /\ table' = table /\ connOf' = connOf /\ linkOf' = linkOf /\ nextConn' = nextConn
  BY DEF SetConnStatus, DropFirst
<1>3. /\ opc' = opc /\ olink' = olink /\ oconn' = oconn /\ wbStatus' = wbStatus
      /\ requests' = requests /\ available' = available /\ linkTold' = linkTold /\ inChannel' = inChannel
  BY DEF openVars, channelVars, linkVars
<1>4. \A c \in concerned : c \in Conns /\ ids[c] # <<>>
  BY DEF Concerned
<1> HIDE DEF concerned
<1>5. ASSUME NEW c \in concerned
      PROVE  /\ Head(ids[c]) \in Elems(ids[c]) /\ Elems(Tail(ids[c])) = Elems(ids[c]) \ {Head(ids[c])}
             /\ Distinct(Tail(ids[c])) /\ Tail(ids[c]) \in Seq(Conns)
             /\ Head(ids[c]) \in Conns /\ connOf[Head(ids[c])] = c
  <2>1. ids[c] \in Seq(Conns) /\ ids[c] # <<>> /\ Distinct(ids[c]) /\ c \in Conns
    BY <1>1, <1>4 DEF IdsInv
  <2>2. Head(ids[c]) \in Elems(ids[c]) /\ Elems(Tail(ids[c])) = Elems(ids[c]) \ {Head(ids[c])}
        /\ Distinct(Tail(ids[c]))
    BY <2>1, TailElems
  <2>3. Tail(ids[c]) \in Seq(Conns) /\ Head(ids[c]) \in Conns
    BY <2>1, TailFacts
  <2>4. connOf[Head(ids[c])] = c
    BY <1>1, <2>1, <2>2 DEF IdsInv
  <2>5. QED
    BY <2>2, <2>3, <2>4
<1>6. ASSUME NEW d \in heads
      PROVE  d \in Conns /\ connOf[d] \in concerned /\ connOf[d] \in Conns /\ d = Head(ids[connOf[d]])
             /\ d \in Elems(ids[connOf[d]])
  <2>1. PICK c \in concerned : d = Head(ids[c])
    OBVIOUS
  <2>2. QED
    BY <1>4, <1>5, <2>1
<1> DEFINE gone == IF st = "CLOSED" THEN heads ELSE {}
<1>7. ASSUME NEW c \in Conns
      PROVE  ids'[c] \in Seq(Conns) /\ Distinct(ids'[c]) /\ Elems(ids'[c]) = Elems(ids[c]) \ gone
             /\ (ids[c] = <<>> => ids'[c] = <<>>)
  <2>1. ids[c] \in Seq(Conns) /\ Distinct(ids[c])
    BY <1>1 DEF IdsInv
  <2>2. CASE st # "CLOSED"
    BY <1>2, <2>1, <2>2
  <2>3. CASE st = "CLOSED" /\ c \in concerned
    <3>1. ids'[c] = Tail(ids[c])
      BY <1>2, <2>3
    <3>2. Elems(ids[c]) \intersect heads = {Head(ids[c])}
      <4>1. Head(ids[c]) \in heads
        BY <2>3
      <4>2. ASSUME NEW d \in Elems(ids[c]), d \in heads PROVE d = Head(ids[c])
        <5>1. connOf[d] = c
          BY <1>1 DEF IdsInv
        <5>2. QED
          BY <1>6, <4>2, <5>1
      <4>3. Head(ids[c]) \in Elems(ids[c])
        BY <1>5, <2>3
      <4> HIDE DEF heads
      <4>4. QED
        BY <4>1, <4>2, <4>3
    <3> HIDE DEF heads
    <3>3. QED
      BY <1>4, <1>5, <2>3, <3>1, <3>2
  <2>4. CASE st = "CLOSED" /\ c \notin concerned
    <3>1. ids'[c] = ids[c]
      BY <1>2, <2>4
    <3>2. ASSUME NEW d \in Elems(ids[c]), d \in heads PROVE FALSE
      <4>1. connOf[d] = c
        BY <1>1 DEF IdsInv
      <4>2. QED
        BY <1>6, <2>4, <3>2, <4>1
    <3> HIDE DEF heads
    <3>3. QED
      BY <2>1, <2>4, <3>1, <3>2
  <2>5. QED
    BY <2>2, <2>3, <2>4
<1> HIDE DEF heads
<1>8. /\ told' \in [Conns -> Statuses \union {None}]
      /\ \A d \in Conns : told'[d] = IF d \in heads THEN st ELSE told[d]
      /\ status' \in [Conns -> Statuses] /\ ids' \in [Conns -> Seq(Conns)]
      /\ overtaken \subseteq overtaken' /\ overtaken' \subseteq overtaken \union heads
      /\ \A t \in Openers : oconn[t] \in gone => oconn[t] \in overtaken'
  <2>1. told' \in [Conns -> Statuses \union {None}] /\ status' \in [Conns -> Statuses]
        /\ \A d \in Conns : told'[d] = IF d \in heads THEN st ELSE told[d]
    BY <1>1, <1>2
  <2>2. ids' \in [Conns -> Seq(Conns)]
    <3>1. CASE st = "CLOSED"
      <4>1. \A c \in Conns : (IF c \in concerned THEN Tail(ids[c]) ELSE ids[c]) \in Seq(Conns)
        BY <1>1, <1>5
      <4>2. QED
        BY <1>2, <3>1, <4>1
    <3>2. CASE st # "CLOSED"
      BY <1>1, <1>2, <3>2
    <3>3. QED
      BY <3>1, <3>2
  <2>3. /\ overtaken \subseteq overtaken' /\ overtaken' \subseteq overtaken \union heads
        /\ \A t \in Openers : oconn[t] \in gone => oconn[t] \in overtaken'
    BY <1>2 DEF BeingOpened
  <2>4. QED
    BY <2>1, <2>2, <2>3
<1>9. TypeOK'
  <2>1. overtaken' \subseteq Conns
    BY <1>1, <1>6, <1>8 DEF TypeOK
  <2>2. Keys' = Keys
    BY <1>2 DEF Keys
  <2>3. QED
    BY <1>1, <1>2, <1>3, <1>8, <2>1, <2>2 DEF TypeOK
<1>10. FreshInv'
  <2>1. ASSUME NEW d \in Conns, d >= nextConn
        PROVE  told'[d] = None /\ ids'[d] = <<>> /\ d \notin overtaken'
    <3>1. connOf[d] = None /\ told[d] = None /\ ids[d] = <<>> /\ d \notin overtaken
      BY <1>1, <2>1 DEF FreshInv
    <3>2. d \notin heads
      BY <1>6, <3>1, ConnectionsAssumption
    <3>3. QED
      BY <1>7, <1>8, <3>1, <3>2
  <2>2. QED
    BY <1>1, <1>2, <1>3, <2>1 DEF FreshInv
<1>11. IdsInv'
  <2>1. ASSUME NEW d \in Conns, NEW x \in Elems(ids'[d]) PROVE connOf[x] = d /\ told'[x] # "CLOSED"
    <3>1. x \in Elems(ids[d]) /\ x \notin gone
      BY <1>7
    <3>2. connOf[x] = d /\ told[x] # "CLOSED" /\ x \in Conns
      BY <1>1, <3>1 DEF IdsInv, Elems
    <3>3. QED
      BY <1>8, <3>1, <3>2
  <2>2. QED
    BY <1>2, <1>7, <2>1 DEF IdsInv
<1>12. ASSUME NEW d \in Conns, LiveId(d), d \notin gone PROVE connOf[d] # None /\ d \in Elems(ids'[connOf[d]])
  <2>1. connOf[d] \in Conns
    BY <1>1, <1>12 DEF LiveId
  <2>2. QED
    BY <1>7, <1>12, <2>1 DEF LiveId
<1>13. OpenerInv'
  <2>1. ASSUME NEW t \in Openers, oconn[t] # None
        PROVE  /\ (connOf[oconn[t]] # None /\ oconn[t] \in Elems(ids'[connOf[oconn[t]]])) \/ oconn[t] \in overtaken'
               /\ told'[oconn[t]] = "CLOSED" => oconn[t] \in overtaken'
    <3>1. CASE oconn[t] \in gone
      BY <1>8, <3>1
    <3>2. CASE oconn[t] \notin gone
      <4>1. oconn[t] \in Conns
        BY <1>1, <2>1
      <4>2. /\ LiveId(oconn[t]) \/ oconn[t] \in overtaken
            /\ told[oconn[t]] = "CLOSED" => oconn[t] \in overtaken
        BY <1>1, <2>1 DEF OpenerInv
      <4>3. told'[oconn[t]] = "CLOSED" => told[oconn[t]] = "CLOSED"
        BY <1>8, <3>2, <4>1
      <4>4. QED
        BY <1>8, <1>12, <3>2, <4>1, <4>2, <4>3
    <3>3. QED
      BY <3>1, <3>2
  <2>2. QED
    BY <1>1, <1>2, <1>3, <2>1 DEF OpenerInv, LiveId
<1>14. LinkInv'
  BY <1>1, <1>2, <1>3 DEF LinkInv
<1>15. ToldInv'
  <2>1. ASSUME NEW d \in Conns, told'[d] \in {"OPEN", "UNAVAILABLE"}
        PROVE  (connOf[d] # None /\ d \in Elems(ids'[connOf[d]])) \/ d \in overtaken'
    <3>1. d \notin gone
      BY <1>8, <2>1
    <3>2. LiveId(d) \/ d \in overtaken
      <4>1. CASE d \in heads
        BY <1>6, <4>1, ConnectionsAssumption DEF LiveId
      <4>2. CASE d \notin heads
        BY <1>1, <1>8, <2>1, <4>2 DEF ToldInv
      <4>3. QED
        BY <4>1, <4>2
    <3>3. QED
      BY <1>8, <1>12, <3>1, <3>2
  <2>2. QED
    BY <1>2, <2>1 DEF ToldInv, LiveId
<1>16. QED
  BY <1>9, <1>10, <1>11, <1>13, <1>14, <1>15 DEF ConnInv

-----------------------------------------------------------------------------
(* The invariant *)

LEMMA ConnStep == ConnInv /\ [Next]_vars => ConnInv'
<1> SUFFICES ASSUME ConnInv, [Next]_vars PROVE ConnInv'
  OBVIOUS
<1>1. TypeOK
  BY DEF ConnInv
<1>2. ASSUME NEW t \in Openers, NEW l \in Links, OpenConnection(t, l) PROVE ConnInv'
  <2>1. CASE Connected(l) /\ Share(l) /\ UNCHANGED openVars
    BY <1>2, <2>1, ShareStep DEF OpenConnection
  <2>2. CASE /\ opc' = [opc EXCEPT ![t] = "insert"]
             /\ olink' = [olink EXCEPT ![t] = l]
             /\ UNCHANGED <<oconn, connVars, told>>
    BY <1>2, <2>2, SearchFailsStep DEF OpenConnection
  <2>3. QED
    BY <1>2, <2>1, <2>2 DEF OpenConnection
<1>3. ASSUME NEW t \in Openers, InsertConnection(t) \/ FillConnection(t) \/ ReportOpen(t) PROVE ConnInv'
  BY <1>3, InsertStep, FillStep, ReportStep
<1>4. ASSUME NEW c \in Conns, CloseConnection(c) PROVE ConnInv'
  <2>1. linkTold' \in [Links -> {None, "LIVE", "DESTROYED"}] /\ inChannel' \subseteq Links
    BY <1>1, <1>4 DEF CloseConnection, linkVars, TypeOK
  <2>2. QED
    BY <1>4, <2>1, CloseStep DEF CloseConnection
<1>5. ASSUME NEW l \in Links, DestroyLink(l) PROVE ConnInv'
  <2>1. linkTold' \in [Links -> {None, "LIVE", "DESTROYED"}]
    BY <1>1, <1>5 DEF DestroyLink, TypeOK
  <2>2. CASE inChannel' = inChannel \ {l} /\ UNCHANGED <<connVars, toldVars>>
    <3>1. UNCHANGED <<connVars, openVars, toldVars>> /\ UNCHANGED <<channelVars, watchVars>>
      BY <1>5, <2>2 DEF DestroyLink
    <3>2. /\ UNCHANGED <<table, connOf, ids, linkOf, status, nextConn, opc, olink, oconn, told, overtaken>>
          /\ UNCHANGED <<requests, available, wbStatus, reported, watching>>
      BY <3>1 DEF connVars, openVars, toldVars, channelVars, watchVars
    <3>3. Keys' = Keys /\ inChannel' \subseteq Links
      BY <1>1, <2>2, <3>2 DEF Keys, TypeOK
    <3>4. TypeOK'
      BY <1>1, <2>1, <3>2, <3>3 DEF TypeOK
    <3>5. QED
      BY <3>1, <3>4, OutsideStep
  <2>3. CASE \E n \in DOMAIN table : Close(table[n]) /\ UNCHANGED inChannel
    <3>1. PICK n \in DOMAIN table : Close(table[n]) /\ UNCHANGED inChannel
      BY <2>3
    <3>2. table[n] \in Keys /\ inChannel' \subseteq Links
      BY <1>1, <3>1, KeysAre DEF TypeOK
    <3>3. UNCHANGED openVars /\ UNCHANGED <<channelVars, watchVars>>
      BY <1>5 DEF DestroyLink
    <3>4. QED
      BY <2>1, <3>1, <3>2, <3>3, CloseStep
  <2>4. QED
    BY <1>5, <2>2, <2>3 DEF DestroyLink
<1>6. ASSUME Shutdown PROVE ConnInv'
  <2>1. Head(table) \in Keys
    <3>1. table \in Seq(Conns) /\ table # <<>>
      BY <1>1, <1>6 DEF TypeOK, Shutdown
    <3>2. Head(table) = table[1] /\ 1 \in DOMAIN table
      BY <3>1, TailFacts
    <3>3. QED
      BY <1>1, <3>2, KeysAre
  <2>2. linkTold' \in [Links -> {None, "LIVE", "DESTROYED"}] /\ inChannel' \subseteq Links
    BY <1>1, <1>6 DEF Shutdown, linkVars, TypeOK
  <2>3. QED
    BY <1>6, <2>1, <2>2, CloseStep DEF Shutdown
<1>7. ASSUME CheckWhiteboardStatus PROVE ConnInv'
  <2>1. PICK st \in Statuses : SetConnStatus(st)
    BY <1>7 DEF CheckWhiteboardStatus, Statuses
  <2>2. reported' \in BOOLEAN /\ UNCHANGED <<wbStatus, channelVars, linkVars, openVars>>
    BY <1>7 DEF CheckWhiteboardStatus
  <2>3. QED
    BY <2>1, <2>2, StatusStep
<1>8. QED
  BY <1>2, <1>3, <1>4, <1>5, <1>6, <1>7, OutsideSteps
     DEF Next, CreateLink, CreateLinkFromAddress, LoadLinkAddress

LEMMA ConnInvariant == Spec => []ConnInv
<1>1. Init => ConnInv
  BY InitConnInv
<1>2. ConnInv /\ [Next]_vars => ConnInv'
  BY ConnStep
<1>3. QED
  BY <1>1, <1>2, PTL DEF Spec

\* The tables of AbsDestini keep their shape (AbsDestini.py 89-130, 146-200).
THEOREM ConnectionTypes == Spec => []TypeOK
<1>1. ConnInv => TypeOK
  BY DEF ConnInv
<1>2. QED
  BY <1>1, ConnInvariant, PTL

\* Whatever the SDK's threads and the status thread do between each other's steps, the SDK's
\* knowledge of a connection agrees with connections and with connection_ids: no package comes with
\* a closed id, and every id the SDK takes for open receives, or its closing overtook its opener.
THEOREM TablesAgree == Spec => []SDKAgreesWithTables
<1>1. ASSUME ConnInv PROVE SDKAgreesWithTables
  <2>1. /\ TypeOK /\ IdsInv /\ ToldInv
        /\ Keys = {k \in Conns : connOf[k] # None} /\ \A k \in Keys : connOf[k] \in Conns
        /\ ids \in [Conns -> Seq(Conns)]
    BY <1>1, KeysAre DEF ConnInv, TypeOK
  <2>2. ASSUME NEW k \in Keys, NEW d \in Elems(ids[connOf[k]])
        PROVE  d \in Conns /\ connOf[d] = connOf[k] /\ told[d] # "CLOSED" /\ d \in Keys
    <3>1. connOf[k] \in Conns /\ connOf[k] # None /\ ids[connOf[k]] \in Seq(Conns)
      BY <2>1
    <3>2. d \in Conns
      BY <3>1 DEF Elems
    <3>3. connOf[d] = connOf[k] /\ told[d] # "CLOSED"
      BY <2>1, <3>1 DEF IdsInv
    <3>4. QED
      BY <2>1, <3>1, <3>2, <3>3
  <2>3. ASSUME NEW d, LiveId(d), d \in Conns PROVE d \in GetConnIds
    <3>1. d \in Keys
      BY <2>1, <2>3 DEF LiveId
    <3>2. QED
      BY <2>3, <3>1 DEF LiveId, GetConnIds
  <2>4. ASSUME NEW d \in GetConnIds
        PROVE  /\ told[d] # "CLOSED" /\ d \in Keys
               /\ \A k \in Keys : d \in Elems(ids[connOf[k]]) <=> connOf[k] = connOf[d]
    <3>1. PICK j \in Keys : d \in Elems(ids[connOf[j]])
      BY DEF GetConnIds
    <3>2. connOf[d] = connOf[j] /\ told[d] # "CLOSED" /\ d \in Keys
      BY <2>2, <3>1
    <3>3. \A k \in Keys : d \in Elems(ids[connOf[k]]) => connOf[k] = connOf[d]
      BY <2>2
    <3>4. \A k \in Keys : connOf[k] = connOf[d] => d \in Elems(ids[connOf[k]])
      BY <3>1, <3>2
    <3>5. QED
      BY <3>2, <3>3, <3>4
  <2>5. ReceivingIdsAreLive
    BY <2>4 DEF ReceivingIdsAreLive
  <2>6. OpenIdsReceive
    BY <2>1, <2>3 DEF OpenIdsReceive, ToldInv
  <2>7. QED
    BY <2>5, <2>6 DEF SDKAgreesWithTables
<1>2. QED
  BY <1>1, ConnInvariant, PTL

-----------------------------------------------------------------------------
(* What a step may not do *)

LEMMA ClosedStep ==
  ASSUME ConnInv, [Next]_vars, NEW d \in Conns, told[d] = "CLOSED"
  PROVE  told'[d] = "CLOSED" \/ (d \in overtaken /\ BeingOpened(d))
<1>1. /\ TypeOK /\ FreshInv /\ IdsInv /\ OpenerInv
      /\ told \in [Conns -> Statuses \union {None}] /\ ids \in [Conns -> Seq(Conns)]
      /\ nextConn \in Nat /\ Conns \subseteq Nat
  BY DEF ConnInv, TypeOK, Conns
<1>2. CASE told' = told
  BY <1>2
<1>3. ASSUME NEW c, Close(c) PROVE told'[d] = "CLOSED"
  BY <1>1, <1>3 DEF Close, ReportClosed
<1>4. ASSUME NEW l \in Links, Connected(l), Share(l) PROVE told'[d] = "CLOSED"
  <2>1. nextConn \in Conns /\ told' = [told EXCEPT ![nextConn] = "OPEN"]
    BY <1>4 DEF Share
  <2>2. told[nextConn] = None
    BY <1>1, <2>1 DEF FreshInv
  <2>3. d # nextConn
    BY <2>2, ConnectionsAssumption DEF Statuses
  <2>4. QED
    BY <1>1, <2>1, <2>3
<1>5. ASSUME NEW t \in Openers, ReportOpen(t) PROVE told'[d] = "CLOSED" \/ (d \in overtaken /\ BeingOpened(d))
  <2>1. opc[t] = "report" /\ told' = [told EXCEPT ![oconn[t]] = "OPEN"]
    BY <1>5 DEF ReportOpen
  <2>2. oconn[t] # None /\ (told[oconn[t]] = "CLOSED" => oconn[t] \in overtaken)
    BY <1>1, <2>1 DEF OpenerInv
  <2>3. CASE oconn[t] = d
    BY <2>2, <2>3 DEF BeingOpened
  <2>4. CASE oconn[t] # d
    BY <1>1, <2>1, <2>4
  <2>5. QED
    BY <2>3, <2>4
<1>6. ASSUME NEW st \in Statuses, SetConnStatus(st) PROVE told'[d] = "CLOSED"
  <2>1. ASSUME NEW c \in Conns, ids[c] # <<>>, Head(ids[c]) = d PROVE FALSE
    <3>1. Head(ids[c]) \in Elems(ids[c])
      <4>1. Head(ids[c]) = ids[c][1] /\ 1 \in DOMAIN ids[c]
        BY <1>1, <2>1, TailFacts
      <4>2. QED
        BY <4>1 DEF Elems
    <3>2. QED
      BY <1>1, <2>1, <3>1 DEF IdsInv
  <2>2. d \notin {Head(ids[c]) : c \in {c \in Conns :
                    Concerned(c, st) /\ \E n \in Reached(st) : connOf[table[n]] = c}}
    BY <2>1 DEF Concerned
  <2>3. QED
    BY <1>6, <2>2 DEF SetConnStatus
<1>7. QED
  <2>1. CASE \E t \in Openers, l \in Links : OpenConnection(t, l)
    BY <1>2, <1>4, <2>1 DEF OpenConnection
  <2>2. CASE \E t \in Openers : InsertConnection(t) \/ FillConnection(t)
    BY <1>2, <2>2 DEF InsertConnection, FillConnection, toldVars
  <2>3. CASE \E t \in Openers : ReportOpen(t)
    BY <1>5, <2>3
  <2>4. CASE \E c \in Conns : CloseConnection(c)
    BY <1>3, <2>4 DEF CloseConnection
  <2>5. CASE \E l \in Links : DestroyLink(l)
    BY <1>2, <1>3, <2>5 DEF DestroyLink, toldVars
  <2>6. CASE Shutdown
    BY <1>3, <2>6 DEF Shutdown
  <2>7. CASE CheckWhiteboardStatus
    BY <1>6, <2>7 DEF CheckWhiteboardStatus, Statuses
  <2>8. CASE \/ ActivateChannel \/ \E i \in Inputs : OnUserInputReceived(i)
             \/ \E l \in Links : NewLink(l)
             \/ WhiteboardChanges \/ UNCHANGED vars
    BY <1>2, <2>8 DEF ActivateChannel, OnUserInputReceived, NewLink, WhiteboardChanges, toldVars, vars
  <2>9. QED
    BY <2>1, <2>2, <2>3, <2>4, <2>5, <2>6, <2>7, <2>8
       DEF Next, CreateLink, CreateLinkFromAddress, LoadLinkAddress

\* A closed connection stays closed for the SDK, except for an opener that the closing overtook.
THEOREM ClosedStaysClosed == Spec => ClosedForGood
<1>1. ConnInv /\ [Next]_vars =>
        [\A d \in Conns : told[d] = "CLOSED" =>
           told'[d] = "CLOSED" \/ (d \in overtaken /\ BeingOpened(d))]_vars
  BY ClosedStep
<1>2. QED
  BY <1>1, ConnInvariant, PTL DEF Spec, ClosedForGood

LEMMA WatcherStep ==
  ASSUME ConnInv, [Next]_vars, watching, ~watching'
  PROVE  \E t \in Openers : opc[t] = "fill" /\ oconn[t] \in Keys
<1>1. /\ TypeOK /\ LinkInv /\ Keys = {k \in Conns : connOf[k] # None}
      /\ \A n \in DOMAIN table : table[n] \in Keys /\ table[n] \in Conns /\ connOf[table[n]] \in Conns
  BY KeysAre DEF ConnInv
<1>2. CheckWhiteboardStatus
  <2>1. CASE \E t \in Openers, l \in Links : OpenConnection(t, l)
    BY <2>1 DEF OpenConnection, watchVars
  <2>2. CASE \E t \in Openers : InsertConnection(t) \/ FillConnection(t) \/ ReportOpen(t)
    BY <2>2 DEF InsertConnection, FillConnection, ReportOpen, watchVars
  <2>3. CASE \E c \in Conns : CloseConnection(c)
    BY <2>3 DEF CloseConnection, watchVars
  <2>4. CASE \E l \in Links : DestroyLink(l)
    BY <2>4 DEF DestroyLink, watchVars
  <2>5. CASE Shutdown
    BY <2>5 DEF Shutdown, watchVars
  <2>6. CASE \/ ActivateChannel \/ \E i \in Inputs : OnUserInputReceived(i)
             \/ \E l \in Links : NewLink(l)
             \/ WhiteboardChanges \/ UNCHANGED vars
    BY <2>6 DEF ActivateChannel, OnUserInputReceived, NewLink, WhiteboardChanges, watchVars, vars
  <2>7. QED
    BY <2>1, <2>2, <2>3, <2>4, <2>5, <2>6
       DEF Next, CreateLink, CreateLinkFromAddress, LoadLinkAddress
<1>3. PICK st \in Statuses : SetConnStatus(st)
  BY <1>2 DEF CheckWhiteboardStatus, Statuses
<1>4. Reached(st) # DOMAIN table
  BY <1>3 DEF SetConnStatus
<1>5. PICK n \in DOMAIN table : linkOf[connOf[table[n]]] = None
  <2>1. DOMAIN table = 1..Len(table) /\ Len(table) \in Nat
    BY <1>1 DEF TypeOK
  <2>2. PICK n \in DOMAIN table : n \notin Reached(st)
    BY <1>4 DEF Reached
  <2>3. PICK m \in 1..n : linkOf[connOf[table[m]]] = None
    BY <2>2 DEF Reached
  <2>4. m \in DOMAIN table
    BY <2>1, <2>2, <2>3
  <2>5. QED
    BY <2>3, <2>4
<1>6. table[n] = connOf[table[n]] /\ \E t \in Openers : opc[t] = "fill" /\ oconn[t] = connOf[table[n]]
  BY <1>1, <1>5 DEF LinkInv
<1>7. QED
  BY <1>1, <1>5, <1>6

\* Only a connection an opener has inserted and not filled makes the status thread raise.
THEOREM WatcherNeedsHalfOpen == Spec => WatcherEndsAtHalfOpen
<1>1. ConnInv /\ [Next]_vars =>
        [watching /\ ~watching' => \E t \in Openers : opc[t] = "fill" /\ oconn[t] \in Keys]_vars
  BY WatcherStep
<1>2. QED
  BY <1>1, ConnInvariant, PTL DEF Spec, WatcherEndsAtHalfOpen

-----------------------------------------------------------------------------
(* Who hears what *)

Codecs == [secret : Addresses, name : CodecNames]

Tables == [Personas -> [Channels -> [Addresses -> Codecs \union {NoCodec}]]]

\* What no step changes, and who may be up, listen and have links.
NodeInv ==
  /\ spec \in Specs /\ address \in Hashes /\ destinations \in [Personas -> Configurations]
  /\ listens \subseteq up /\ up \subseteq Personas
  /\ links \subseteq TransmitLinks /\ \A l \in links : l.at \in up
  /\ \A p \in up : SpecIsGood(p)

\* The secrets of the codecs, and that a node that listens has one for each channel and its address.
CodecInv ==
  /\ fromCodecs \in Tables /\ toCodecs \in Tables
  /\ \A p \in Personas, c \in Channels, a \in Addresses :
       /\ fromCodecs[p][c][a] # NoCodec => fromCodecs[p][c][a].secret = FromSecret(address[p], a)
       /\ toCodecs[p][c][a] # NoCodec => toCodecs[p][c][a].secret = a
  /\ \A p \in listens : \A w \in Whiteboards : fromCodecs[p][ChannelOf(w)][address[p]] # NoCodec
  /\ broadcastIPSeeds \in [Personas -> SUBSET Groups]

\* An image is on the channel of a whiteboard, and was made with the address it is for.
Image(img) ==
  /\ img.by \in Personas /\ img.for \in Personas
  /\ \E w \in Whiteboards : img.channel = ChannelOf(w)
  /\ img.codec \in Codecs /\ img.codec.secret = address[img.for]

ImageInv ==
  /\ \A img \in posts : Image(img)
  /\ \A x \in examined : x.by \in listens /\ Image(x.img)

AddressingInv == NodeInv /\ CodecInv /\ ImageInv /\ AddresseesHear

LEMMA OwnAddress ==
  ASSUME NodeInv, NEW p \in Personas
  PROVE  address[p] \in Addresses \ Groups
BY AddressingAssumption DEF NodeInv, Addresses, Range

\* A whiteboard of a good file has a channel and a codec there is.
LEMMA GoodWhiteboard ==
  ASSUME NodeInv, NEW p, SpecIsGood(p), NEW w \in Whiteboards
  PROVE  ChannelOf(w) \in Channels /\ CodecOf(w) \in CodecNames
<1>1. spec.instances[w] \in DOMAIN spec.classes
  BY DEF SpecIsGood, Whiteboards
<1>2. ChannelOf(w) \in Channels
  BY <1>1 DEF SpecIsGood, ChannelOf
<1>3. PICK codecs \in Seq(spec.codecs) : codecs = spec.classes[spec.instances[w]].codecs
  BY <1>1 DEF SpecIsGood
<1>4. codecs # <<>> => codecs[1] \in spec.codecs
  BY <1>3
<1>5. spec.codecs \subseteq CodecNames /\ PassThru \in CodecNames
  BY DEF NodeInv, CodecNames
<1>6. CodecOf(w) \in CodecNames
  BY <1>3, <1>4, <1>5, Zenon DEF CodecOf
<1>7. QED
  BY <1>2, <1>6

\* A codec that is there stays; otherwise one of the pairs made it, if one was for the channel and
\* the address.
LEMMA MadeCodec ==
  ASSUME NEW codec, NEW pairs, DOMAIN pairs \subseteq Nat, NEW c, NEW a, NEW secret,
         NEW made, made = MakeCodec(codec, pairs, c, a, secret)
  PROVE  /\ \/ made = codec
            \/ /\ codec = NoCodec
               /\ \E k \in DOMAIN pairs : made = [secret |-> secret, name |-> CodecOf(pairs[k][1])]
         /\ codec = NoCodec /\ (\E k \in DOMAIN pairs : ChannelOf(pairs[k][1]) = c /\ pairs[k][2] = a)
              => \E k \in DOMAIN pairs : made = [secret |-> secret, name |-> CodecOf(pairs[k][1])]
<1> DEFINE K == {k \in DOMAIN pairs : ChannelOf(pairs[k][1]) = c /\ pairs[k][2] = a}
<1>1. ASSUME K # {} PROVE Min(K) \in K
  <2>1. K \subseteq Nat
    OBVIOUS
  <2>2. PICK n \in K : \A m \in K : ~(m < n)
    BY <1>1, <2>1, LeastElement
  <2>3. \A m \in K : n <= m
    BY <2>1, <2>2
  <2> HIDE DEF K
  <2>4. QED
    BY <2>3, Zenon DEF Min
<1>2. made =
        IF codec # NoCodec \/ K = {} THEN codec ELSE [secret |-> secret, name |-> CodecOf(pairs[Min(K)][1])]
  BY Zenon DEF MakeCodec
<1>3. K \subseteq DOMAIN pairs
  OBVIOUS
<1>4. (\E k \in DOMAIN pairs : ChannelOf(pairs[k][1]) = c /\ pairs[k][2] = a) => K # {}
  OBVIOUS
<1> HIDE DEF K
<1>5. QED
  BY <1>1, <1>2, <1>3, <1>4, Zenon

\* Known is what the pairs of a MakeCodecs are about.
Known(p, pairs) ==
  /\ SpecIsGood(p)
  /\ DOMAIN pairs \subseteq Nat
  /\ \A k \in DOMAIN pairs : pairs[k][1] \in Whiteboards

LEMMA MadeCodecType ==
  ASSUME NodeInv, NEW p, NEW pairs, Known(p, pairs), NEW c, NEW a, NEW secret \in Addresses,
         NEW codec \in Codecs \union {NoCodec}, codec # NoCodec => codec.secret = secret,
         NEW made, made = MakeCodec(codec, pairs, c, a, secret)
  PROVE  /\ made \in Codecs \union {NoCodec}
         /\ made # NoCodec => made.secret = secret
         /\ codec # NoCodec => made = codec
         /\ (\E k \in DOMAIN pairs : ChannelOf(pairs[k][1]) = c /\ pairs[k][2] = a) => made # NoCodec
<1>1. NoCodec \notin Codecs
  BY AddressingAssumption DEF Codecs
<1>2. ASSUME NEW k \in DOMAIN pairs, made = [secret |-> secret, name |-> CodecOf(pairs[k][1])]
      PROVE  made \in Codecs /\ made.secret = secret
  <2>1. CodecOf(pairs[k][1]) \in CodecNames
    BY GoodWhiteboard DEF Known
  <2>2. QED
    BY <1>2, <2>1 DEF Codecs
<1>3. DOMAIN pairs \subseteq Nat
  BY DEF Known
<1>4. /\ \/ made = codec
         \/ codec = NoCodec /\ \E k \in DOMAIN pairs : made = [secret |-> secret, name |-> CodecOf(pairs[k][1])]
      /\ codec = NoCodec /\ (\E k \in DOMAIN pairs : ChannelOf(pairs[k][1]) = c /\ pairs[k][2] = a)
         => \E k \in DOMAIN pairs : made = [secret |-> secret, name |-> CodecOf(pairs[k][1])]
  BY <1>3, MadeCodec
<1>5. QED
  BY <1>1, <1>2, <1>4, Zenon

\* MakeCodecs for whiteboards that are known.
LEMMA MadeCodecs ==
  ASSUME NodeInv, CodecInv, NEW p \in Personas, NEW pairs, Known(p, pairs), MakeCodecs(p, pairs)
  PROVE  /\ fromCodecs' \in Tables /\ toCodecs' \in Tables
         /\ broadcastIPSeeds' \in [Personas -> SUBSET Groups]
         /\ \A q \in Personas, c \in Channels, a \in Addresses :
              /\ fromCodecs'[q][c][a] # NoCodec => fromCodecs'[q][c][a].secret = FromSecret(address[q], a)
              /\ toCodecs'[q][c][a] # NoCodec => toCodecs'[q][c][a].secret = a
              /\ fromCodecs[q][c][a] # NoCodec => fromCodecs'[q][c][a] = fromCodecs[q][c][a]
         /\ \A k \in DOMAIN pairs : pairs[k][2] \in Addresses =>
              fromCodecs'[p][ChannelOf(pairs[k][1])][pairs[k][2]] # NoCodec
<1>1. \A k \in DOMAIN pairs : ChannelOf(pairs[k][1]) \in Channels
  BY GoodWhiteboard DEF Known
<1>2. address[p] \in Addresses \ Groups
  BY OwnAddress
<1>3. fromCodecs \in Tables /\ toCodecs \in Tables
  BY DEF CodecInv
<1> DEFINE old(c, a) == fromCodecs[p][c][a]
           from(c, a) == MakeCodec(old(c, a), pairs, c, a, FromSecret(address[p], a))
           oldTo(c, a) == toCodecs[p][c][a]
           to(c, a) == MakeCodec(oldTo(c, a), pairs, c, a, ToSecret(address[p], a))
<1>4. ASSUME NEW c \in Channels, NEW a \in Addresses
      PROVE  /\ from(c, a) \in Codecs \union {NoCodec}
             /\ from(c, a) # NoCodec => from(c, a).secret = FromSecret(address[p], a)
             /\ old(c, a) # NoCodec => from(c, a) = old(c, a)
             /\ (\E k \in DOMAIN pairs : ChannelOf(pairs[k][1]) = c /\ pairs[k][2] = a) => from(c, a) # NoCodec
  <2>1. PICK secret \in Addresses : secret = FromSecret(address[p], a)
    BY <1>2 DEF FromSecret
  <2>2. PICK codec \in Codecs \union {NoCodec} : codec = old(c, a)
    BY <1>3 DEF Tables
  <2>3. codec # NoCodec => codec.secret = secret
    BY <2>1, <2>2 DEF CodecInv
  <2>4. PICK made : made = MakeCodec(codec, pairs, c, a, secret)
    OBVIOUS
  <2>5. /\ made \in Codecs \union {NoCodec}
        /\ made # NoCodec => made.secret = secret
        /\ codec # NoCodec => made = codec
        /\ (\E k \in DOMAIN pairs : ChannelOf(pairs[k][1]) = c /\ pairs[k][2] = a) => made # NoCodec
    BY <2>3, <2>4, MadeCodecType
  <2>6. made = from(c, a)
    BY <2>1, <2>2, <2>4, Zenon
  <2> HIDE DEF from, old
  <2>7. QED
    BY <2>1, <2>2, <2>5, <2>6, Zenon
<1>5. ASSUME NEW c \in Channels, NEW a \in Addresses
      PROVE  to(c, a) \in Codecs \union {NoCodec} /\ (to(c, a) # NoCodec => to(c, a).secret = a)
  <2>1. PICK codec \in Codecs \union {NoCodec} : codec = oldTo(c, a)
    BY <1>3 DEF Tables
  <2>2. codec # NoCodec => codec.secret = a
    BY <2>1 DEF CodecInv
  <2>3. PICK made : made = MakeCodec(codec, pairs, c, a, a)
    OBVIOUS
  <2>4. made \in Codecs \union {NoCodec} /\ (made # NoCodec => made.secret = a)
    BY <2>2, <2>3, MadeCodecType
  <2>5. made = to(c, a)
    BY <2>1, <2>3, Zenon DEF ToSecret
  <2> HIDE DEF to, oldTo
  <2>6. QED
    BY <2>4, <2>5, Zenon
<1>6. /\ fromCodecs' = [fromCodecs EXCEPT ![p] = [c \in Channels |-> [a \in Addresses |-> from(c, a)]]]
      /\ toCodecs' = [toCodecs EXCEPT ![p] = [c \in Channels |-> [a \in Addresses |-> to(c, a)]]]
  BY DEF MakeCodecs
<1> HIDE DEF from, to
<1>7. /\ \A c \in Channels, a \in Addresses : fromCodecs'[p][c][a] = from(c, a) /\ toCodecs'[p][c][a] = to(c, a)
      /\ \A q \in Personas \ {p} : fromCodecs'[q] = fromCodecs[q] /\ toCodecs'[q] = toCodecs[q]
  BY <1>3, <1>6 DEF Tables
<1>8. fromCodecs' \in Tables
  <2>1. [c \in Channels |-> [a \in Addresses |-> from(c, a)]] \in [Channels -> [Addresses -> Codecs \union {NoCodec}]]
    BY <1>4
  <2>2. QED
    BY <1>3, <1>6, <2>1 DEF Tables
<1>9. toCodecs' \in Tables
  <2>1. [c \in Channels |-> [a \in Addresses |-> to(c, a)]] \in [Channels -> [Addresses -> Codecs \union {NoCodec}]]
    BY <1>5
  <2>2. QED
    BY <1>3, <1>6, <2>1 DEF Tables
<1>10. broadcastIPSeeds' \in [Personas -> SUBSET Groups]
  <2>1. PICK more \in SUBSET Groups : broadcastIPSeeds' = [broadcastIPSeeds EXCEPT ![p] = @ \union more]
    <3>1. Groups \intersect {x[2] : x \in Range(pairs)} \in SUBSET Groups
      OBVIOUS
    <3>2. QED
      BY <3>1, Zenon DEF MakeCodecs
  <2>2. QED
    BY <2>1 DEF CodecInv
<1>11. ASSUME NEW q \in Personas, NEW c \in Channels, NEW a \in Addresses
       PROVE  /\ fromCodecs'[q][c][a] # NoCodec => fromCodecs'[q][c][a].secret = FromSecret(address[q], a)
              /\ toCodecs'[q][c][a] # NoCodec => toCodecs'[q][c][a].secret = a
              /\ fromCodecs[q][c][a] # NoCodec => fromCodecs'[q][c][a] = fromCodecs[q][c][a]
  <2>1. CASE q = p
    BY <1>4, <1>5, <1>7, <2>1
  <2>2. CASE q # p
    BY <1>7, <2>2 DEF CodecInv
  <2>3. QED
    BY <2>1, <2>2
<1>12. ASSUME NEW k \in DOMAIN pairs, pairs[k][2] \in Addresses
       PROVE  fromCodecs'[p][ChannelOf(pairs[k][1])][pairs[k][2]] # NoCodec
  <2>1. PICK c \in Channels, a \in Addresses : c = ChannelOf(pairs[k][1]) /\ a = pairs[k][2]
    BY <1>1, <1>12
  <2>2. from(c, a) # NoCodec
    BY <1>4, <2>1, Zenon
  <2>3. QED
    BY <1>7, <2>1, <2>2
<1>13. QED
  BY <1>8, <1>9, <1>10, <1>11, <1>12

\* An order of a finite set has all of its elements.
LEMMA OrderHasAll ==
  ASSUME NEW S, IsFiniteSet(S), NEW order \in SetToSeqs(S)
  PROVE  /\ DOMAIN order \subseteq Nat
         /\ \A k \in DOMAIN order : order[k] \in S
         /\ \A x \in S : \E k \in DOMAIN order : order[k] = x
<1> DEFINE n == Cardinality(S)
<1>1. n \in Nat
  BY FS_CardinalityType
<1>2. IsFiniteSet(1..n) /\ Cardinality(1..n) = n
  BY <1>1, FS_Interval
<1>3. order \in [1..n -> S] /\ \A i, j \in 1..n : i # j => order[i] # order[j]
  BY DEF SetToSeqs
<1>4. order \in Injection(1..n, S)
  BY <1>3 DEF Injection, IsInjective
<1>5. Cardinality(1..n) = Cardinality(S)
  BY <1>2
<1>6. order \in Surjection(1..n, S)
  BY <1>4, <1>5, FS_Injection
<1>7. \A x \in S : \E k \in 1..n : order[k] = x
  BY <1>6 DEF Surjection
<1>8. 1..n \subseteq Nat
  BY <1>1
<1> HIDE DEF n
<1>9. QED
  BY <1>3, <1>7, <1>8

LEMMA WhiteboardsFinite ==
  ASSUME NodeInv
  PROVE  IsFiniteSet(Whiteboards)
<1>1. IsFiniteSet(DOMAIN spec.instances)
  BY AddressingAssumption DEF NodeInv
<1>2. Whiteboards \in SUBSET DOMAIN spec.instances
  BY DEF Whiteboards
<1>3. QED
  BY <1>1, <1>2, FS_Subset

\* Codecs that are made keep the images, the outcomes and the codecs there were.
LEMMA CodecsKeep ==
  ASSUME AddressingInv, NEW p \in Personas, NEW pairs, Known(p, pairs), MakeCodecs(p, pairs),
         spec' = spec, address' = address, posts' = posts, examined' = examined,
         listens \subseteq listens', listens' \subseteq listens \union {p}, listens' \subseteq Personas,
         p \in listens' \ listens =>
           \A w \in Whiteboards : \E k \in DOMAIN pairs : pairs[k] = <<w, address[p]>>
  PROVE  CodecInv' /\ ImageInv' /\ AddresseesHear'
<1> USE DEF AddressingInv
<1>1. /\ fromCodecs' \in Tables /\ toCodecs' \in Tables
      /\ broadcastIPSeeds' \in [Personas -> SUBSET Groups]
      /\ \A q \in Personas, c \in Channels, a \in Addresses :
           /\ fromCodecs'[q][c][a] # NoCodec => fromCodecs'[q][c][a].secret = FromSecret(address[q], a)
           /\ toCodecs'[q][c][a] # NoCodec => toCodecs'[q][c][a].secret = a
           /\ fromCodecs[q][c][a] # NoCodec => fromCodecs'[q][c][a] = fromCodecs[q][c][a]
      /\ \A k \in DOMAIN pairs : pairs[k][2] \in Addresses =>
           fromCodecs'[p][ChannelOf(pairs[k][1])][pairs[k][2]] # NoCodec
  BY MadeCodecs
<1>2. Whiteboards' = Whiteboards /\ \A w : ChannelOf(w)' = ChannelOf(w)
  BY DEF Whiteboards, ChannelOf
<1>3. ASSUME NEW q \in listens, NEW w \in Whiteboards
      PROVE  /\ fromCodecs[q][ChannelOf(w)][address[q]] # NoCodec
             /\ fromCodecs'[q][ChannelOf(w)][address[q]] = fromCodecs[q][ChannelOf(w)][address[q]]
  <2>1. q \in Personas /\ SpecIsGood(q)
    BY DEF NodeInv
  <2>2. ChannelOf(w) \in Channels /\ address[q] \in Addresses
    BY <2>1, GoodWhiteboard, OwnAddress
  <2>3. fromCodecs[q][ChannelOf(w)][address[q]] # NoCodec
    BY DEF CodecInv
  <2>4. QED
    BY <1>1, <2>1, <2>2, <2>3
<1>4. ASSUME NEW w \in Whiteboards, p \in listens' \ listens
      PROVE  fromCodecs'[p][ChannelOf(w)][address[p]] # NoCodec
  <2>1. PICK k \in DOMAIN pairs : pairs[k] = <<w, address[p]>>
    BY <1>4
  <2>2. pairs[k][1] = w /\ pairs[k][2] = address[p]
    BY <2>1
  <2>3. address[p] \in Addresses
    BY OwnAddress
  <2>4. QED
    BY <1>1, <2>2, <2>3
<1>5. \A q \in listens', w \in Whiteboards : fromCodecs'[q][ChannelOf(w)][address[q]] # NoCodec
  <2>1. ASSUME NEW q \in listens', NEW w \in Whiteboards
        PROVE  fromCodecs'[q][ChannelOf(w)][address[q]] # NoCodec
    <3>1. CASE q \in listens
      BY <1>3, <3>1
    <3>2. CASE q \notin listens
      BY <1>4, <3>2
    <3>3. QED
      BY <3>1, <3>2
  <2>2. QED
    BY <2>1
<1>6. CodecInv'
  <2>1. \A q \in Personas, c \in Channels, a \in Addresses :
          /\ fromCodecs'[q][c][a] # NoCodec => fromCodecs'[q][c][a].secret = FromSecret(address'[q], a)
          /\ toCodecs'[q][c][a] # NoCodec => toCodecs'[q][c][a].secret = a
    BY <1>1
  <2>2. \A q \in listens', w \in Whiteboards' : fromCodecs'[q][ChannelOf(w)'][address'[q]] # NoCodec
    BY <1>2, <1>5
  <2>3. QED
    BY <1>1, <2>1, <2>2 DEF CodecInv
<1>7. \A img : Image(img) => Image(img)'
  BY <1>2 DEF Image
<1>8. ImageInv'
  BY <1>7 DEF ImageInv
<1>9. AddresseesHear'
  <2>1. \A q, r : Alike(q, r)' <=> Alike(q, r)
    BY DEF Alike
  <2>2. ASSUME NEW x \in examined
        PROVE  fromCodecs'[x.by][x.img.channel][address[x.by]] = fromCodecs[x.by][x.img.channel][address[x.by]]
    <3>1. x.by \in listens /\ \E w \in Whiteboards : x.img.channel = ChannelOf(w)
      BY DEF ImageInv, Image
    <3>2. QED
      BY <1>3, <3>1
  <2>3. QED
    BY <2>1, <2>2 DEF AddresseesHear
<1>10. QED
  BY <1>6, <1>8, <1>9

\* The steps of a node.
LEMMA StartKeeps ==
  ASSUME AddressingInv, NEW p \in Personas, Start(p)
  PROVE  AddressingInv'
<1> USE DEF AddressingInv
<1>1. PICK order \in SetToSeqs(destinations[p]) :
        MakeCodecs(p, [k \in DOMAIN order |-> <<order[k][1], AddressOf(order[k][2])>>])
  BY DEF Start, ProcessPersona
<1> DEFINE pairs == [k \in DOMAIN order |-> <<order[k][1], AddressOf(order[k][2])>>]
<1>2. IsFiniteSet(destinations[p])
  BY AddressingAssumption DEF NodeInv
<1>3. SpecIsGood(p)
  BY DEF Start
<1>4. DOMAIN order \subseteq Nat /\ \A k \in DOMAIN order : order[k] \in destinations[p]
  BY <1>2, OrderHasAll
<1>5. \A k \in DOMAIN order : order[k][1] \in Whiteboards
  BY <1>3, <1>4 DEF SpecIsGood
<1>6. DOMAIN pairs = DOMAIN order /\ \A k \in DOMAIN pairs : pairs[k][1] = order[k][1]
  OBVIOUS
<1>7. MakeCodecs(p, pairs)
  BY <1>1
<1> HIDE DEF pairs
<1>8. Known(p, pairs)
  BY <1>3, <1>4, <1>5, <1>6 DEF Known
<1>9. /\ spec' = spec /\ address' = address /\ destinations' = destinations /\ links' = links
      /\ listens' = listens /\ posts' = posts /\ examined' = examined /\ up' = up \union {p}
  BY DEF Start
<1>10. listens \subseteq Personas
  BY DEF NodeInv
<1>11. CodecInv' /\ ImageInv' /\ AddresseesHear'
  BY <1>7, <1>8, <1>9, <1>10, CodecsKeep
<1>12. \A q : SpecIsGood(q)' <=> SpecIsGood(q)
  BY <1>9 DEF SpecIsGood, Whiteboards
<1>13. NodeInv'
  BY <1>3, <1>9, <1>12 DEF NodeInv
<1>14. QED
  BY <1>11, <1>13

\* _makeDynCodecs: the pairs of an address and whiteboards.
LEMMA DynCodecs ==
  ASSUME NodeInv, NEW p \in up, NEW a, NEW wbs \in SUBSET Whiteboards, MakeDynCodecs(p, a, wbs)
  PROVE  \E pairs :
           /\ MakeCodecs(p, pairs) /\ Known(p, pairs)
           /\ \A w \in wbs : \E k \in DOMAIN pairs : pairs[k] = <<w, a>>
<1>1. PICK order \in SetToSeqs(wbs) : MakeCodecs(p, [k \in DOMAIN order |-> <<order[k], a>>])
  BY DEF MakeDynCodecs
<1> DEFINE pairs == [k \in DOMAIN order |-> <<order[k], a>>]
<1>2. IsFiniteSet(wbs)
  BY WhiteboardsFinite, FS_Subset
<1>3. /\ DOMAIN order \subseteq Nat
      /\ \A k \in DOMAIN order : order[k] \in wbs
      /\ \A w \in wbs : \E k \in DOMAIN order : order[k] = w
  BY <1>2, OrderHasAll
<1>4. DOMAIN pairs = DOMAIN order /\ \A k \in DOMAIN pairs : pairs[k] = <<order[k], a>>
  OBVIOUS
<1>5. MakeCodecs(p, pairs)
  BY <1>1
<1> HIDE DEF pairs
<1>6. \A k \in DOMAIN pairs : pairs[k][1] \in Whiteboards
  BY <1>3, <1>4
<1>7. Known(p, pairs)
  BY <1>3, <1>4, <1>6 DEF Known, NodeInv
<1>8. \A w \in wbs : \E k \in DOMAIN pairs : pairs[k] = <<w, a>>
  BY <1>3, <1>4
<1>9. QED
  BY <1>5, <1>7, <1>8

LEMMA ReceiveLinkKeeps ==
  ASSUME AddressingInv, NEW p \in Personas, ReceiveLink(p)
  PROVE  AddressingInv'
<1> USE DEF AddressingInv
<1>1. /\ spec' = spec /\ address' = address /\ destinations' = destinations /\ links' = links
      /\ up' = up /\ posts' = posts /\ examined' = examined /\ listens' = listens \union {p}
      /\ p \in up /\ MakeDynCodecs(p, address[p], Whiteboards)
  BY DEF ReceiveLink
<1>2. PICK pairs :
        /\ MakeCodecs(p, pairs) /\ Known(p, pairs)
        /\ \A w \in Whiteboards : \E k \in DOMAIN pairs : pairs[k] = <<w, address[p]>>
  BY <1>1, DynCodecs
<1>3. listens \subseteq Personas
  BY DEF NodeInv
<1>4. CodecInv' /\ ImageInv' /\ AddresseesHear'
  BY <1>1, <1>2, <1>3, CodecsKeep
<1>5. \A q : SpecIsGood(q)' <=> SpecIsGood(q)
  BY <1>1 DEF SpecIsGood, Whiteboards
<1>6. NodeInv'
  BY <1>1, <1>5 DEF NodeInv
<1>7. QED
  BY <1>4, <1>6

LEMMA TransmitLinkKeeps ==
  ASSUME AddressingInv, NEW l \in TransmitLinks, TransmitLink(l)
  PROVE  AddressingInv'
<1> USE DEF AddressingInv
<1>1. /\ spec' = spec /\ address' = address /\ destinations' = destinations /\ links' = links \union {l}
      /\ up' = up /\ posts' = posts /\ examined' = examined /\ listens' = listens
      /\ l.at \in up /\ l.whiteboards \in SUBSET Whiteboards
      /\ MakeDynCodecs(l.at, address[l.peer], l.whiteboards)
  BY DEF TransmitLink
<1>2. PICK pairs : MakeCodecs(l.at, pairs) /\ Known(l.at, pairs)
  BY <1>1, DynCodecs
<1>3. listens \subseteq Personas /\ l.at \in Personas
  BY <1>1 DEF NodeInv
<1>4. CodecInv' /\ ImageInv' /\ AddresseesHear'
  BY <1>1, <1>2, <1>3, CodecsKeep
<1>5. \A q : SpecIsGood(q)' <=> SpecIsGood(q)
  BY <1>1 DEF SpecIsGood, Whiteboards
<1>6. NodeInv'
  BY <1>1, <1>5 DEF NodeInv
<1>7. QED
  BY <1>4, <1>6

\* _GetCodec finds channels that have a codec for the address.
LEMMA SendKeeps ==
  ASSUME AddressingInv, NEW p \in Personas, NEW q \in Personas, NEW cType, Send(p, q, cType)
  PROVE  AddressingInv'
<1> USE DEF AddressingInv
<1>1. PICK c \in ChannelFor(toCodecs[p], address[q], cType) : \E w \in Whiteboards :
        /\ ChannelOf(w) = c
        /\ \E l \in links : l.at = p
        /\ posts' = posts \union {[by |-> p, for |-> q, channel |-> c, codec |-> toCodecs[p][c][address[q]]]}
  BY Zenon DEF Send
<1>2. PICK w \in Whiteboards :
        /\ ChannelOf(w) = c
        /\ \E l \in links : l.at = p
        /\ posts' = posts \union {[by |-> p, for |-> q, channel |-> c, codec |-> toCodecs[p][c][address[q]]]}
  BY <1>1
<1>3. UNCHANGED <<spec, address, destinations, up, fromCodecs, toCodecs, broadcastIPSeeds, links, listens, examined>>
  BY Zenon DEF Send
<1>4. toCodecs[p][c][address[q]] # NoCodec
  BY DEF ChannelFor
<1>5. c \in Channels /\ address[q] \in Addresses
  <2>1. p \in up /\ SpecIsGood(p)
    BY <1>2 DEF NodeInv
  <2>2. QED
    BY <1>2, <2>1, GoodWhiteboard, OwnAddress
<1>6. toCodecs[p][c][address[q]] \in Codecs /\ toCodecs[p][c][address[q]].secret = address[q]
  BY <1>4, <1>5 DEF CodecInv, Tables
<1>7. Image([by |-> p, for |-> q, channel |-> c, codec |-> toCodecs[p][c][address[q]]])
  BY <1>2, <1>6 DEF Image
<1>8. Whiteboards' = Whiteboards /\ (\A v : ChannelOf(v)' = ChannelOf(v)) /\ \A r : SpecIsGood(r)' <=> SpecIsGood(r)
  BY <1>3 DEF Whiteboards, ChannelOf, SpecIsGood
<1>9. \A img : Image(img)' <=> Image(img)
  BY <1>3, <1>8 DEF Image
<1>10. NodeInv'
  BY <1>3, <1>8 DEF NodeInv
<1>11. CodecInv'
  BY <1>3, <1>8 DEF CodecInv
<1>12. ImageInv'
  BY <1>2, <1>3, <1>7, <1>9 DEF ImageInv
<1>13. AddresseesHear'
  BY <1>3 DEF AddresseesHear, Alike
<1>14. QED
  BY <1>10, <1>11, <1>12, <1>13

\* Examine: the persona's own codec for the channel reads what was made with its address, if it has
\* the name; what was made with another address does not pass _Prefilter.
LEMMA ExamineKeeps ==
  ASSUME AddressingInv, NEW p \in Personas, NEW img \in posts, Examine(p, img)
  PROVE  AddressingInv'
<1> USE DEF AddressingInv
<1> DEFINE codecs == {fromCodecs[p][img.channel][a] : a \in Addresses} \ {NoCodec}
           right == {codec \in codecs : Reads(codec, img)}
           own == fromCodecs[p][img.channel][address[p]]
<1>1. p \in listens
      /\ UNCHANGED <<spec, address, destinations, up, fromCodecs, toCodecs, broadcastIPSeeds, links, listens, posts>>
  BY DEF Examine
<1>2. PICK o :
        /\ examined' = {[by |-> p, img |-> img, outcome |-> o]}
        /\ \/ o = "heard" /\ Prefilter(p, img)
           \/ o = "refused" /\ (right = {} \/ ~Prefilter(p, img))
           \/ o = "garbage"
  BY DEF Examine
<1>3. Image(img)
  BY DEF ImageInv
<1>4. address[p] \in Addresses /\ address[p] \notin Groups /\ address[img.for] \notin Groups
  BY <1>3, OwnAddress DEF Image
<1>5. Prefilter(p, img) => Alike(img.for, p) /\ ~Alike(img.by, p)
  BY <1>4 DEF Prefilter, Alike, CodecInv
<1>6. own \in codecs
  <2>1. PICK w \in Whiteboards : img.channel = ChannelOf(w)
    BY <1>3 DEF Image
  <2>2. own # NoCodec
    BY <1>1, <2>1 DEF CodecInv
  <2>3. QED
    BY <1>4, <2>2
<1>7. own \in Codecs /\ own.secret = address[p]
  <2>1. img.channel \in Channels
    BY <1>1, <1>3, GoodWhiteboard DEF Image, NodeInv
  <2>2. QED
    BY <1>4, <1>6, <2>1 DEF CodecInv, Tables, FromSecret
<1>8. img.for = p /\ own.name = img.codec.name => own = img.codec
  BY <1>3, <1>7 DEF Image, Codecs
<1>9. own = img.codec => right # {}
  BY <1>6 DEF Reads
<1>10. img.for = p /\ ~Alike(img.by, p) => Prefilter(p, img)
  BY DEF Prefilter, Alike
<1>11. o = "refused" /\ img.for = p => Alike(img.by, p) \/ own.name # img.codec.name
  <2> HIDE DEF right, own
  <2>1. QED
    BY <1>2, <1>8, <1>9, <1>10
<1>12. AddresseesHear'
  <2>1. \A q, r : Alike(q, r)' <=> Alike(q, r)
    BY <1>1 DEF Alike
  <2>2. o = "heard" => Alike(img.for, p) /\ ~Alike(img.by, p)
    BY <1>2, <1>5
  <2>3. QED
    BY <1>1, <1>2, <1>11, <2>1, <2>2 DEF AddresseesHear
<1>13. Whiteboards' = Whiteboards /\ (\A v : ChannelOf(v)' = ChannelOf(v)) /\ \A r : SpecIsGood(r)' <=> SpecIsGood(r)
  BY <1>1 DEF Whiteboards, ChannelOf, SpecIsGood
<1>14. \A i : Image(i)' <=> Image(i)
  BY <1>1, <1>13 DEF Image
<1>15. NodeInv'
  BY <1>1, <1>13 DEF NodeInv
<1>16. CodecInv'
  BY <1>1, <1>13 DEF CodecInv
<1>17. ImageInv'
  BY <1>1, <1>2, <1>3, <1>14 DEF ImageInv
<1>18. QED
  BY <1>12, <1>15, <1>16, <1>17

\* Nothing is there when it begins.
LEMMA AddressingInit ==
  ASSUME AInit
  PROVE  AddressingInv
<1>1. fromCodecs \in Tables /\ toCodecs \in Tables /\ broadcastIPSeeds \in [Personas -> SUBSET Groups]
  BY DEF AInit, Tables, NoCodecs
<1>2. \A p \in Personas, c \in Channels, a \in Addresses :
        fromCodecs[p][c][a] = NoCodec /\ toCodecs[p][c][a] = NoCodec
  BY DEF AInit, NoCodecs
<1>3. CodecInv
  BY <1>1, <1>2 DEF AInit, CodecInv
<1>4. NodeInv
  BY DEF AInit, NodeInv
<1>5. QED
  BY <1>3, <1>4 DEF AInit, AddressingInv, ImageInv, AddresseesHear

\* For every whiteboard file, configuration and order of the codecs: of the personas of an address
\* only those that were sent an image hear it, never one they sent, and none is refused by the
\* persona it was for, unless the node made a codec of another name first.
THEOREM AddresseesDoHear == AddressingSpec => []AddresseesHear
<1>1. AInit => AddressingInv
  BY AddressingInit
<1>2. AddressingInv /\ [ANext]_avars => AddressingInv'
  <2> SUFFICES ASSUME AddressingInv, [ANext]_avars
               PROVE  AddressingInv'
    OBVIOUS
  <2>1. ASSUME NEW p \in Personas, Start(p) PROVE AddressingInv'
    BY <2>1, StartKeeps
  <2>2. ASSUME NEW p \in Personas, ReceiveLink(p) PROVE AddressingInv'
    BY <2>2, ReceiveLinkKeeps
  <2>3. ASSUME NEW l \in TransmitLinks, TransmitLink(l) PROVE AddressingInv'
    BY <2>3, TransmitLinkKeeps
  <2>4. ASSUME NEW p \in Personas, NEW q \in Personas, NEW cType, Send(p, q, cType) PROVE AddressingInv'
    BY <2>4, SendKeeps
  <2>5. ASSUME NEW p \in Personas, NEW img \in posts, Examine(p, img) PROVE AddressingInv'
    BY <2>5, ExamineKeeps
  <2>6. ASSUME UNCHANGED avars PROVE AddressingInv'
    <3>1. NodeInv'
      BY <2>6 DEF avars, AddressingInv, NodeInv, SpecIsGood, Whiteboards
    <3>2. Whiteboards' = Whiteboards /\ \A w : ChannelOf(w)' = ChannelOf(w)
      BY <2>6 DEF avars, Whiteboards, ChannelOf
    <3>3. CodecInv'
      BY <2>6, <3>2 DEF avars, AddressingInv, CodecInv
    <3>4. \A img : Image(img)' <=> Image(img)
      BY <2>6, <3>2 DEF avars, Image
    <3>5. ImageInv'
      BY <2>6, <3>4 DEF avars, AddressingInv, ImageInv
    <3>6. AddresseesHear'
      BY <2>6 DEF avars, AddressingInv, AddresseesHear, Alike
    <3>7. QED
      BY <3>1, <3>3, <3>5, <3>6 DEF AddressingInv
  <2>7. QED
    BY <2>1, <2>2, <2>3, <2>4, <2>5, <2>6 DEF ANext
<1>3. AddressingInv => AddresseesHear
  BY DEF AddressingInv
<1>4. QED
  BY <1>1, <1>2, <1>3, PTL DEF AddressingSpec

=============================================================================

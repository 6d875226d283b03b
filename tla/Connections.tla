---------------------------- MODULE Connections -----------------------------
(***************************************************************************)
(* AbsDestini's tables of links and connections (AbsDestini.py), under the *)
(* SDK's threads and the whiteboard status thread of DestiniAvideo.        *)
(*                                                                         *)
(* A CommsConn may have several connection ids; it is named here by the id *)
(* it was made with.  Calls on a channel that is not available, and        *)
(* deactivateChannel, which refuses every channel that has a status, tell  *)
(* the SDK and change nothing, and are no steps.                           *)
(***************************************************************************)
EXTENDS Integers, Sequences, Sequencing

CONSTANTS
  Inputs,     \* what requestUserInput asks the user for
  Links,      \* link ids the SDK generates
  MaxConns,   \* bound: connection ids the SDK generates, 1, 2, ... in order
  Openers,    \* SDK threads that may be in openConnection
  None

Conns    == 1..MaxConns
Statuses == {"OPEN", "UNAVAILABLE", "CLOSED"}

ASSUME ConnectionsAssumption ==
  /\ Inputs # {}
  /\ MaxConns \in Nat
  /\ None \notin Links /\ None \notin Conns /\ None \notin Statuses

VARIABLES
  requests,    \* user_input_requests, None before the channel is activated
  available,   \* channel_status is CHANNEL_AVAILABLE
  linkTold,    \* whether the SDK was told that a link is created or loaded, or is destroyed
  inChannel,   \* links_in_channels of the channel
  table,       \* the keys of connections, in the dict's order
  connOf,      \* the CommsConn under a key
  ids,         \* connection_ids of a CommsConn
  linkOf,      \* its link_id
  status,      \* its status
  nextConn,    \* the next connection id
  opc,         \* where each thread is in openConnection
  olink,       \* the link it opens
  oconn,       \* the connection it made
  wbStatus,    \* WB_STATUS, "new" as long as WB_STATUS_CHANGE_TIME is 0
  reported,    \* _status of checkWhiteboardStatus
  watching,    \* the status thread lives
  told,        \* history: the last status of a connection the SDK was told
  overtaken    \* history: the connections closed before their opener told the SDK OPEN

channelVars == <<requests, available>>
linkVars    == <<linkTold, inChannel>>
connVars    == <<table, connOf, ids, linkOf, status, nextConn>>
openVars    == <<opc, olink, oconn>>
watchVars   == <<wbStatus, reported, watching>>
toldVars    == <<told, overtaken>>
vars == <<channelVars, linkVars, connVars, openVars, watchVars, toldVars>>

Keys     == {table[n] : n \in DOMAIN table}

Without(s, c) == Only(s, Conns \ {c})

Init ==
  /\ requests = {None}
  /\ available = FALSE
  /\ linkTold = [l \in Links |-> None]
  /\ inChannel = {}
  /\ table = <<>>
  /\ connOf = [c \in Conns |-> None]
  /\ ids = [c \in Conns |-> <<>>]
  /\ linkOf = [c \in Conns |-> None]
  /\ status = [c \in Conns |-> "OPEN"]
  /\ nextConn = 1
  /\ opc = [t \in Openers |-> "idle"]
  /\ olink = [t \in Openers |-> None]
  /\ oconn = [t \in Openers |-> None]
  /\ wbStatus = "new"
  /\ reported = TRUE
  /\ watching = TRUE
  /\ told = [c \in Conns |-> None]
  /\ overtaken = {}

-----------------------------------------------------------------------------
(* The channel and its links *)

ActivateChannel ==
  /\ requests = {None}
  /\ requests' = Inputs
  /\ UNCHANGED <<available, linkVars, connVars, openVars, watchVars, toldVars>>

OnUserInputReceived(i) ==
  /\ i \in requests \ {None}
  /\ requests' = requests \ {i}
  /\ available' = (requests' = {})
  /\ UNCHANGED <<linkVars, connVars, openVars, watchVars, toldVars>>

\* A link gets its profile, its properties and its place in the channel before the SDK hears of it.
NewLink(l) ==
  /\ available
  /\ linkTold[l] = None
  /\ linkTold' = [linkTold EXCEPT ![l] = "LIVE"]
  /\ inChannel' = inChannel \union {l}
  /\ UNCHANGED <<channelVars, connVars, openVars, watchVars, toldVars>>

CreateLink(l) == NewLink(l)
CreateLinkFromAddress(l) == NewLink(l)
LoadLinkAddress(l) == NewLink(l)

-----------------------------------------------------------------------------
(* openConnection *)

\* A connection of the link is shared; the lock is held from the search to the report.
Share(l) ==
  LET c == connOf[table[CHOOSE n \in DOMAIN table :
                          /\ linkOf[connOf[table[n]]] = l
                          /\ \A m \in 1..(n - 1) : linkOf[connOf[table[m]]] # l]]
  IN /\ nextConn \in Conns
     /\ table' = Append(table, nextConn)
     /\ connOf' = [connOf EXCEPT ![nextConn] = c]
     /\ ids' = [ids EXCEPT ![c] = Append(@, nextConn)]
     /\ status' = [status EXCEPT ![c] = "OPEN"]
     /\ told' = [told EXCEPT ![nextConn] = "OPEN"]
     /\ nextConn' = nextConn + 1
     /\ UNCHANGED linkOf

Connected(l) == \E k \in Keys : linkOf[connOf[k]] = l

OpenConnection(t, l) ==
  /\ opc[t] = "idle"
  /\ linkTold[l] # None
  /\ \/ Connected(l) /\ Share(l) /\ UNCHANGED openVars
     \/ /\ ~Connected(l)
        /\ opc' = [opc EXCEPT ![t] = "insert"]
        /\ olink' = [olink EXCEPT ![t] = l]
        /\ UNCHANGED <<oconn, connVars, told>>
  /\ UNCHANGED <<channelVars, linkVars, watchVars, overtaken>>

\* The lock was released since the search.
InsertConnection(t) ==
  /\ opc[t] = "insert"
  /\ nextConn \in Conns
  /\ table' = Append(table, nextConn)
  /\ connOf' = [connOf EXCEPT ![nextConn] = nextConn]
  /\ ids' = [ids EXCEPT ![nextConn] = <<nextConn>>]
  /\ nextConn' = nextConn + 1
  /\ opc' = [opc EXCEPT ![t] = "fill"]
  /\ oconn' = [oconn EXCEPT ![t] = nextConn]
  /\ UNCHANGED <<linkOf, status, olink, channelVars, linkVars, watchVars, toldVars>>

FillConnection(t) ==
  /\ opc[t] = "fill"
  /\ linkOf' = [linkOf EXCEPT ![oconn[t]] = olink[t]]
  /\ opc' = [opc EXCEPT ![t] = "report"]
  /\ UNCHANGED <<table, connOf, ids, status, nextConn, olink, oconn,
                 channelVars, linkVars, watchVars, toldVars>>

ReportOpen(t) ==
  /\ opc[t] = "report"
  /\ told' = [told EXCEPT ![oconn[t]] = "OPEN"]
  /\ opc' = [opc EXCEPT ![t] = "idle"]
  /\ olink' = [olink EXCEPT ![t] = None]
  /\ oconn' = [oconn EXCEPT ![t] = None]
  /\ UNCHANGED <<connVars, channelVars, linkVars, watchVars, overtaken>>

BeingOpened(c) == \E t \in Openers : oconn[t] = c

-----------------------------------------------------------------------------
(* closeConnection, destroyLinkdown *)

\* Mutant: the id is unlinked from the table only.
UnlinkFromTable(c) == UNCHANGED ids

Unlink(c) == ids' = [ids EXCEPT ![connOf[c]] = Without(@, c)]

ReportClosed(c) == told' = [told EXCEPT ![c] = "CLOSED"]

\* Mutant: the CommsConn is cleared although other ids may use it.
ClearLink(c) == linkOf' = [linkOf EXCEPT ![connOf[c]] = None]

KeepLink(c) == UNCHANGED linkOf

\* Closing a key of the table.  An id set_conn_status has removed, or a connection without link,
\* makes the call raise before the report.
Close(c) ==
  /\ table' = Without(table, c)
  /\ Unlink(c)
  /\ IF c \in Elems(ids[connOf[c]]) /\ linkOf[connOf[c]] # None
     THEN ReportClosed(c)
     ELSE UNCHANGED told
  /\ overtaken' = IF BeingOpened(c) THEN overtaken \union {c} ELSE overtaken
  /\ connOf' = [connOf EXCEPT ![c] = None]
  /\ KeepLink(c)
  /\ UNCHANGED <<status, nextConn>>

\* The SDK closes connections it was told of; one that is not in the table changes nothing.
CloseConnection(c) ==
  /\ told[c] # None
  /\ c \in Keys
  /\ Close(c)
  /\ UNCHANGED <<channelVars, linkVars, openVars, watchVars>>

\* The loop over the table raises after the first connection it closes, and the link stays in the
\* channel.
DestroyLink(l) ==
  LET places == {n \in DOMAIN table : linkOf[connOf[table[n]]] = l}
  IN /\ linkTold[l] = "LIVE"
     /\ linkTold' = [linkTold EXCEPT ![l] = "DESTROYED"]
     /\ \/ /\ places = {}
           /\ inChannel' = inChannel \ {l}
           /\ UNCHANGED <<connVars, toldVars>>
        \/ /\ \E n \in places : (\A m \in places : n <= m) /\ Close(table[n])
           /\ UNCHANGED inChannel
     /\ UNCHANGED <<channelVars, openVars, watchVars>>

\* So does the loop of shutdown, over all connections.  __del__ calls it too.
Shutdown ==
  /\ table # <<>>
  /\ Close(Head(table))
  /\ UNCHANGED <<channelVars, linkVars, openVars, watchVars>>

-----------------------------------------------------------------------------
(* The whiteboard status thread *)

\* AvideoRedis finds the server up or down.
WhiteboardChanges ==
  /\ \/ wbStatus = "new" /\ wbStatus' = "down"
     \/ wbStatus = "down" /\ wbStatus' = "up"
     \/ wbStatus = "up" /\ wbStatus' = "down"
  /\ UNCHANGED <<reported, watching, channelVars, linkVars, connVars, openVars, toldVars>>

\* The loop of set_conn_status reports a status for this CommsConn, for its first id.
Concerned(c, st) == status[c] # st /\ ids[c] # <<>>

\* It comes as far as the first one that has no link yet, and raises there.
Reached(st) ==
  LET raises(n) == Concerned(connOf[table[n]], st) /\ linkOf[connOf[table[n]]] = None
  IN {n \in DOMAIN table : \A m \in 1..n : ~raises(m)}

\* Mutant: a closed id stays in the list.
KeepIds(c) == ids[c]

DropFirst(c) == Tail(ids[c])

SetConnStatus(st) ==
  LET concerned == {c \in Conns : Concerned(c, st) /\ \E n \in Reached(st) : connOf[table[n]] = c}
      heads == {Head(ids[c]) : c \in concerned}
  IN /\ told' = [d \in Conns |-> IF d \in heads THEN st ELSE told[d]]
     /\ status' = [c \in Conns |-> IF c \in concerned THEN st ELSE status[c]]
     /\ watching' = (Reached(st) = DOMAIN table)
     /\ IF st = "CLOSED"
        THEN /\ ids' = [c \in Conns |-> IF c \in concerned THEN DropFirst(c) ELSE ids[c]]
             /\ overtaken' = overtaken \union {d \in heads : BeingOpened(d)}
        ELSE UNCHANGED <<ids, overtaken>>
     /\ UNCHANGED <<table, connOf, linkOf, nextConn>>

\* A change seen more than 300 seconds late is reported as CLOSED.
CheckWhiteboardStatus ==
  /\ watching
  /\ wbStatus # "new"
  /\ (wbStatus = "up") # reported
  /\ reported' = (wbStatus = "up")
  /\ \/ wbStatus = "up" /\ SetConnStatus("OPEN")
     \/ wbStatus = "down" /\ SetConnStatus("CLOSED")
     \/ wbStatus = "down" /\ SetConnStatus("UNAVAILABLE")
  /\ UNCHANGED <<wbStatus, channelVars, linkVars, openVars>>

-----------------------------------------------------------------------------

Next ==
  \/ ActivateChannel
  \/ \E i \in Inputs : OnUserInputReceived(i)
  \/ \E l \in Links : CreateLink(l) \/ CreateLinkFromAddress(l) \/ LoadLinkAddress(l)
  \/ \E t \in Openers :
       \/ \E l \in Links : OpenConnection(t, l)
       \/ InsertConnection(t) \/ FillConnection(t) \/ ReportOpen(t)
  \/ \E c \in Conns : CloseConnection(c)
  \/ \E l \in Links : DestroyLink(l)
  \/ Shutdown \/ WhiteboardChanges \/ CheckWhiteboardStatus

Spec == Init /\ [][Next]_vars

-----------------------------------------------------------------------------
(* Properties *)

\* Type invariant of AbsDestini's tables (AbsDestini.py 89-130, 146-200).
TypeOK ==
  /\ requests \subseteq Inputs \union {None}
  /\ available \in BOOLEAN
  /\ linkTold \in [Links -> {None, "LIVE", "DESTROYED"}]
  /\ inChannel \subseteq Links
  /\ table \in Seq(Conns)
  /\ connOf \in [Conns -> Conns \union {None}]
  /\ Keys = {k \in Conns : connOf[k] # None}
  /\ ids \in [Conns -> Seq(Conns)]
  /\ linkOf \in [Conns -> Links \union {None}]
  /\ status \in [Conns -> Statuses]
  /\ nextConn \in 1..(MaxConns + 1)
  /\ opc \in [Openers -> {"idle", "insert", "fill", "report"}]
  /\ olink \in [Openers -> Links \union {None}]
  /\ oconn \in [Openers -> Conns \union {None}]
  /\ wbStatus \in {"new", "up", "down"}
  /\ reported \in BOOLEAN
  /\ watching \in BOOLEAN
  /\ told \in [Conns -> Statuses \union {None}]
  /\ overtaken \subseteq Conns

\* What get_conn_ids collects and _recv_message hands to receiveEncPkg.
GetConnIds == UNION {Elems(ids[connOf[k]]) : k \in Keys}

\* A package is never handed over with a connection the SDK was told is closed, nor with one that
\* sendPackage and closeConnection would not find; the ids of two CommsConns never mix.
ReceivingIdsAreLive ==
  \A d \in GetConnIds :
    /\ told[d] # "CLOSED"
    /\ d \in Keys
    /\ \A k \in Keys : d \in Elems(ids[connOf[k]]) <=> connOf[k] = connOf[d]

\* A connection the SDK takes for open or unavailable receives packages and can be closed, unless
\* its closing overtook the report of its opener.
OpenIdsReceive ==
  \A d \in Conns :
    told[d] \in {"OPEN", "UNAVAILABLE"} => d \in GetConnIds \union overtaken

\* What the SDK was told of a connection agrees with the two tables, connections and the ids of a
\* CommsConn, which openConnection, closeConnection, destroyLink, shutdown and the status thread
\* change in steps of their own (AbsDestini.py 420-450, 637-685, 697-735).
SDKAgreesWithTables == ReceivingIdsAreLive /\ OpenIdsReceive

\* A connection that was closed is not reported open or unavailable afterwards, except by an opener
\* the closing overtook: neither the status thread nor another connection that shares its
\* CommsConn revives it (AbsDestini.py 430-450, 637-652).
ClosedForGood ==
  [][\A d \in Conns : told[d] = "CLOSED" =>
       told'[d] = "CLOSED" \/ (d \in overtaken /\ BeingOpened(d))]_vars

\* The status thread ends only at a connection that an opener has inserted and not yet given its
\* link; closing, destroying and shared opening never take the link properties away from it
\* (AbsDestini.py 433-445, 656-659).
WatcherEndsAtHalfOpen ==
  [][watching /\ ~watching' => \E t \in Openers : opc[t] = "fill" /\ oconn[t] \in Keys]_vars

\* destroyLink: "Close all the connections in the given link" (AbsDestini.py 766).
DestroyClosesAll ==
  [][\A l \in Links : linkTold[l] # "DESTROYED" /\ linkTold'[l] = "DESTROYED" =>
       \A n \in DOMAIN table' : linkOf'[connOf'[table'[n]]] # l]_vars

=============================================================================

------------------------------ MODULE MCParts -------------------------------
(***************************************************************************)
(* Instances for TLC of the parts of the transport that share no state:    *)
(* a behaviour is one of one part, the others stay where they begin.       *)
(***************************************************************************)
EXTENDS Inbox, Posting, Links, UserModel, MessageStore

CONSTANTS me, w1, w2, p1, sv, t1, t2, k1, k2

VARIABLE part

allVars == <<part, ivars, svars, lvars, uvars, mvars>>

\* A link to a peer with the node's own whiteboards, one to a server, and one to the peer again
\* that names a whiteboard the node knows only if the server's link was loaded.
MCAddresses == {[peer |-> p1, tag |-> t1, wbs |-> {w1, w2}], [peer |-> sv, tag |-> t1, wbs |-> {w1, sv}],
                [peer |-> p1, tag |-> t2, wbs |-> {w2, sv}]}

\* The two kinds of links meet in the accounts of the personas only: each kind is a part.
Init ==
  /\ part \in {"inbox", "posting", "receiveLinks", "transmitLinks", "userModel", "messageStore"}
  /\ IInit /\ SInit /\ LInit /\ UInit /\ MInit
  /\ part # "inbox" => server = "dash"
  /\ part # "posting" => site = "dash"
  /\ part # "receiveLinks" => \A w \in Configured, p \in Hosts : account[w][p] = NoTag
  /\ part # "receiveLinks" => tagSeed = CHOOSE tag \in Tags : TRUE

InboxStep(A) == part = "inbox" /\ A /\ UNCHANGED <<part, svars, lvars, uvars, mvars>>
PostingStep(A) == part = "posting" /\ A /\ UNCHANGED <<part, ivars, lvars, uvars, mvars>>
LinksStep(p, A) == part = p /\ A /\ UNCHANGED <<part, ivars, svars, uvars, mvars>>
UserModelStep(A) == part = "userModel" /\ A /\ UNCHANGED <<part, ivars, svars, lvars, mvars>>
StoreStep(A) == part = "messageStore" /\ A /\ UNCHANGED <<part, ivars, svars, lvars, uvars>>

\* Of the transmit links, which are alike, k1 is loaded first.
InTurn == profiles'[k1].peer = NoHost => profiles'[k2].peer = NoHost

Next ==
  \/ InboxStep(INext)
  \/ PostingStep(SNext)
  \/ LinksStep("receiveLinks", Receives)
  \/ LinksStep("transmitLinks", Sends /\ InTurn)
  \/ UserModelStep(UNext)
  \/ StoreStep(MNext)

\* The fairness of each part, as its module states it.
Fairness ==
  /\ \A r \in Pullers : WF_allVars(InboxStep(Pull(r))) /\ WF_allVars(InboxStep(Decode(r)))
  /\ \A s \in SendIds : /\ WF_allVars(LinksStep("transmitLinks", SenderRaises(s)))
                        /\ SF_allVars(LinksStep("transmitLinks", SenderFound(s)))
  /\ WF_allVars(UserModelStep(TrackerSteps)) /\ WF_allVars(UserModelStep(Tick))

Spec == Init /\ [][Next]_allVars /\ Fairness

=============================================================================

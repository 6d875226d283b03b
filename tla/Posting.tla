------------------------------ MODULE Posting -------------------------------
(***************************************************************************)
(* sendMsg of the whiteboards: the attempts to post one batch, and what    *)
(* the Pusher hears of them.  sendMsg holds the class's _PusherMutex, so   *)
(* there is one sender; the Pusher calls it again unless it returns True.  *)
(*                                                                         *)
(* The number of messages is what getMaxSendMsgCount allows, as the Pusher *)
(* sees to it; the refusals of other numbers are left out.                 *)
(***************************************************************************)
EXTENDS Integers

CONSTANT MaxCalls   \* bound: how often the Pusher calls sendMsg

ASSUME PostingAssumption == MaxCalls \in Nat \ {0}

Sites == {"pixelfed", "avideo", "dash", "pixelfedSelenium", "avideoSelenium"}
Browsers == {"pixelfedSelenium", "avideoSelenium"}

VARIABLES
  site,       \* the whiteboard
  spc,        \* "idle", "try", "sent" (the request is out), "uploaded" (publish was clicked), "done"
  calls,      \* calls of sendMsg so far
  tries,      \* _loop_count
  clicks,     \* click_counter
  open,       \* self._channel is not None
  driver,     \* _PusherDriver is not None
  copies,     \* history: posts of the batch on the server
  unheard,    \* history: the server may have stored a copy without sendMsg hearing of it
  withdrawn,  \* history: the channel was closed during a call
  result,     \* what the last call returned, "raised" when it raised
  tracked     \* history: calls of trackAdd

svars == <<site, spc, calls, tries, clicks, open, driver, copies, unheard, withdrawn, result, tracked>>

SInit ==
  /\ site \in Sites
  /\ spc = "idle"
  /\ calls = 0
  /\ tries = 0
  /\ clicks = 0
  /\ open = TRUE
  /\ driver = FALSE
  /\ copies = 0
  /\ unheard = FALSE
  /\ withdrawn = FALSE
  /\ result = "none"
  /\ tracked = 0

\* The outcomes of a call.
Ends(r) ==
  /\ result' = r
  /\ spc' = IF r = "true" THEN "done" ELSE "idle"
  /\ UNCHANGED <<site, calls, tries, clicks, open, driver, withdrawn>>

Goes(l) ==
  /\ spc' = l
  /\ UNCHANGED <<site, calls, tries, open, driver, withdrawn, result>>

\* A whiteboard's channel is closed beside a call.
ClosesChannel ==
  /\ spc \notin {"idle", "done"}
  /\ open
  /\ open' = FALSE
  /\ withdrawn' = TRUE
  /\ UNCHANGED <<site, spc, calls, tries, clicks, driver, copies, unheard, result, tracked>>

-----------------------------------------------------------------------------

\* Refused by the user model (Pixelfed), or larger than the largest cover (None).
SendMsgRefuses ==
  /\ spc = "idle"
  /\ calls < MaxCalls
  /\ calls' = calls + 1
  /\ \/ site \in {"pixelfed", "pixelfedSelenium"} /\ result' = "false"
     \/ site \in {"avideo", "dash", "avideoSelenium"} /\ result' = "none"
  /\ UNCHANGED <<site, spc, tries, clicks, open, driver, copies, unheard, withdrawn, tracked>>

\* A browser is opened for the first batch, and again after it could not be opened.
SendMsgStarts ==
  /\ spc = "idle"
  /\ calls < MaxCalls
  /\ calls' = calls + 1
  /\ spc' = "try"
  /\ tries' = 2
  /\ IF site \in Browsers
     THEN /\ driver' \in IF driver THEN {TRUE} ELSE BOOLEAN
          /\ open' = driver'
     ELSE UNCHANGED <<open, driver>>
  /\ UNCHANGED <<site, clicks, copies, unheard, withdrawn, result, tracked>>

\* An attempt raised.  Avideo's browser is opened again, Pixelfed's when it is no longer logged
\* in; to ask that of a closed one raises once more.
AttemptFails ==
  IF tries = 1
  THEN /\ result' = "false"
       /\ spc' = "idle"
       /\ tries' = 0
       /\ UNCHANGED <<site, calls, clicks, open, driver, withdrawn>>
  ELSE IF site = "pixelfedSelenium" /\ ~open
  THEN Ends("raised")
  ELSE /\ spc' = "try"
       /\ tries' = tries - 1
       /\ \/ site # "avideoSelenium" /\ UNCHANGED <<open, driver>>
          \/ site \in Browsers /\ driver' \in BOOLEAN /\ open' = driver'
       /\ UNCHANGED <<site, calls, clicks, withdrawn, result>>

\* PixelfedRedis does not look at its channel; dash posts through its own encoder.
FindsChannelClosed ==
  /\ spc = "try"
  /\ site \in {"avideo"} \union Browsers
  /\ ~open
  /\ Ends("false")
  /\ UNCHANGED <<copies, unheard, tracked>>

\* Mutant: a refusal is taken for an answer.
RefusalAccepted ==
  /\ spc = "try"
  /\ site = "pixelfed" \/ (site # "dash" /\ open)
  /\ Ends("true")
  /\ UNCHANGED <<copies, unheard, tracked>>

\* The page does not come, the server cannot be reached or refuses.
RequestFails ==
  /\ spc = "try"
  /\ site = "pixelfed" \/ (site # "dash" /\ open)
  /\ AttemptFails
  /\ UNCHANGED <<copies, unheard, tracked>>

-----------------------------------------------------------------------------
(* PixelfedRedis and AvideoRedis *)

Request ==
  /\ spc = "try"
  /\ site = "pixelfed" \/ (site = "avideo" /\ open)
  /\ Goes("sent")
  /\ copies' = copies + 1
  /\ UNCHANGED <<clicks, unheard, tracked>>

AnswerLost ==
  /\ spc = "sent"
  /\ unheard' = TRUE
  /\ AttemptFails
  /\ UNCHANGED <<copies, tracked>>

\* Avideo looks at its channel once more; only Avideo tells the user model.
AnswerComes ==
  /\ spc = "sent"
  /\ \/ site = "pixelfed" /\ Ends("true") /\ UNCHANGED tracked
     \/ site = "avideo" /\ open /\ Ends("true") /\ tracked' = tracked + 1
     \/ site = "avideo" /\ ~open /\ Ends("false") /\ UNCHANGED tracked
  /\ UNCHANGED <<copies, unheard>>

-----------------------------------------------------------------------------
(* DashSvr.sendMsg: one attempt; the rendezvous message that announces the video is sent and its  *)
(* result is not looked at.                                                                        *)

DashSends ==
  /\ spc = "try"
  /\ site = "dash"
  /\ \/ Ends("true") /\ copies' = copies + 1
     \/ Ends("false") /\ UNCHANGED copies
     \/ Ends("none") /\ UNCHANGED copies
  /\ UNCHANGED <<unheard, tracked>>

-----------------------------------------------------------------------------
(* PixelfedSelenium._sendMsgMutex *)

\* The click may store the post, soon or late, or not at all.
PublishClicked ==
  /\ spc = "try"
  /\ site = "pixelfedSelenium"
  /\ open
  /\ Goes("uploaded")
  /\ clicks' = 0
  /\ copies' \in {copies, copies + 1}
  /\ UNCHANGED <<unheard, tracked>>

\* The post's page is not there after 5 seconds: publish is clicked again, and the third time the
\* attempt fails.  A channel closed meanwhile makes the attempt raise.
PublishRepeated ==
  /\ spc = "uploaded"
  /\ site = "pixelfedSelenium"
  /\ unheard' = TRUE
  /\ \/ /\ clicks < 2 /\ open
        /\ Goes("uploaded")
        /\ clicks' = clicks + 1
        /\ copies' \in {copies, copies + 1}
     \/ (clicks = 2 \/ ~open) /\ AttemptFails /\ UNCHANGED copies
  /\ UNCHANGED tracked

\* Only a page titled "A post by ..." counts.
PublishConfirmed ==
  /\ spc = "uploaded"
  /\ site = "pixelfedSelenium"
  /\ open
  /\ \/ copies > 0 /\ Ends("true") /\ tracked' = tracked + 1 /\ UNCHANGED unheard
     \/ Ends("false") /\ unheard' = TRUE /\ UNCHANGED tracked
  /\ UNCHANGED copies

-----------------------------------------------------------------------------
(* AvideoSelenium._sendMsgMutex *)

\* The upload goes on after the click, and is not looked at.
SubmitClicked ==
  /\ spc = "try"
  /\ site = "avideoSelenium"
  /\ open
  /\ Goes("uploaded")
  /\ clicks' = 1
  /\ copies' \in {copies, copies + 1}
  /\ UNCHANGED <<unheard, tracked>>

SubmitReturns ==
  /\ spc = "uploaded"
  /\ site = "avideoSelenium"
  /\ \/ open /\ Ends("true") /\ tracked' = tracked + 1
     \/ ~open /\ Ends("false") /\ UNCHANGED tracked
  /\ UNCHANGED <<copies, unheard>>

-----------------------------------------------------------------------------

SNext ==
  \/ ClosesChannel \/ SendMsgRefuses \/ SendMsgStarts \/ FindsChannelClosed \/ RequestFails
  \/ Request \/ AnswerLost \/ AnswerComes \/ DashSends
  \/ PublishClicked \/ PublishRepeated \/ PublishConfirmed
  \/ SubmitClicked \/ SubmitReturns

PostingSpec == SInit /\ [][SNext]_svars

-----------------------------------------------------------------------------
(* Properties *)

\* However its attempts and its calls fail, a batch is posted at most twice per call, by Pixelfed's
\* browser six times.
CopiesBounded == copies <= calls * (IF site = "pixelfedSelenium" THEN 6 ELSE 2)

\* A batch the Pusher drops from its queue is on the server, but for AvideoSelenium, which does not
\* wait for the upload, and the user model was told of it once, but by PixelfedRedis and DashSvr,
\* which never tell it.  One that is kept is not on the server, unless an answer was lost or the
\* channel was closed during a call, and then not for more than CopiesBounded times
\* (PixelfedRedis.py 352-389, AvideoRedis.py 510-560, DashSvr.py 433-468, PixelfedSelenium.py
\* 896-1093).
ResultAgrees ==
  /\ result = "true" /\ site # "avideoSelenium" => copies > 0
  /\ spc = "idle" /\ site # "avideoSelenium" /\ ~unheard /\ ~withdrawn => copies = 0
  /\ tracked = IF result = "true" /\ site \notin {"pixelfed", "dash"} THEN 1 ELSE 0
  /\ CopiesBounded

=============================================================================

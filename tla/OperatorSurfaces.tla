-------------------------- MODULE OperatorSurfaces --------------------------
(***************************************************************************)
(* How the operator learns of approvals and of trouble, and acts on them:  *)
(* one connection of the voice server with its four dialogues, the text    *)
(* messages and the inbox, over one control plane.  Others decide and      *)
(* triage at the same time, requests fail or lose their reply, the         *)
(* connection is closed and the voice server restarted.                    *)
(*                                                                         *)
(* The control plane's approvals change here in single steps, but for the  *)
(* webhooks; what can happen within a decision is in Approvals.            *)
(***************************************************************************)
EXTENDS VoiceTurn

CONSTANTS
    Approvals, Findings, Missions, Urgent,    \* as in OperatorInbox
    Webhooks,                                 \* as in SmsApprovals
    Kinds,                                    \* as in GovernedDraft
    MaxChanges, MaxUpdates                    \* bounds on the inbox and on jarvis.updates

\* Approvals and missions count from 1, in the order in which they come; 0 is none.
ASSUME CountedAssumption ==
    /\ IsFiniteSet(Approvals) /\ Approvals = 1..Cardinality(Approvals)
    /\ IsFiniteSet(Missions) /\ Missions = 1..Cardinality(Missions)

\* Only who decides by text message is named after a webhook.
ASSUME WebhooksAssumption == Webhooks \cap {"voice", "desk"} = {}

\* The voice server knows the fields of its kinds.
ASSUME KindsAssumption ==
    Kinds \subseteq {"gh_issue", "gh_pr", "gh_merge", "gm_draft", "gm_send", "gm_reply"}

VARIABLES
    approval, decided,                                          \* the control plane
    mission, broken, findings, arrival, triage, changes,    \* OperatorInbox
    token, notice, texted, hook,                                \* SmsApprovals
    queue, cursor, items, spot, ranked, place,                  \* the dialogues
    draft, catalog, lastMission,                     \* GovernedDraft
    told,           \* whether there is a _last_voice_reply
    following,      \* missions whose updates the connection gets
    updates, loop,  \* jarvis.updates and where _redis_updates_loop is
    offered,        \* history: [approval, item, inbox, astray], the approval told last
                    \* while in focus, the item told last and the inbox it was told
                    \* from, and which of both stands on something that was not told
    readback,       \* history: the reading, if any, not yet requested or cancelled
    owed            \* history: updates to tell on this connection

VA == INSTANCE VoiceApprovals
VI == INSTANCE VoiceInbox
VB == INSTANCE VoiceBriefing
GD == INSTANCE GovernedDraft
Sms == INSTANCE SmsApprovals
Inbox == INSTANCE OperatorInbox

inboxVars == <<mission, broken, findings, arrival, triage, changes>>
smsVars == <<token, notice, texted, hook>>
voiceApprovalVars == <<queue, cursor>>
voiceInboxVars == <<items, spot>>
voiceBriefingVars == <<ranked, place>>
draftVars == <<draft, catalog, lastMission>>
dialogueVars == <<voiceApprovalVars, voiceInboxVars, voiceBriefingVars, draftVars>>
streamVars == <<updates, loop>>
historyVars == <<offered, readback>>
connectionVars == <<told, following, owed, historyVars>>
vars == <<turn, faults, approval, decided, inboxVars, smsVars, dialogueVars,
          streamVars, connectionVars>>

\* What names nothing; the rest names an approval, a mission or a kind.
PlainPhrases ==
    (VA!ApprovalPhrases \ VA!ById) \cup VI!InboxPhrases \cup VB!BriefingPhrases
        \cup GD!Vague \cup GD!Confirming
        \cup {"read-that-again", "cancel-that", "last-mission", "skip",
              "look-through-my-mail", "open-a-page"}

Utterances ==
    {Utter(p, 0) : p \in PlainPhrases}
        \cup {Utter(p, a) : p \in VA!ById, a \in Approvals}
        \cup {Utter("mission-id", m) : m \in Missions}
        \cup {Utter("words", 1)}

Starting == {Utter(p, kind) : p \in GD!Starts, kind \in Kinds}

NothingOffered == [approval |-> <<>>, item |-> <<>>, inbox |-> <<>>, astray |-> {"inbox"}]
Connected == ~At("closed")

-----------------------------------------------------------------------------
(* The endpoint: connect, hear, route, speak, disconnect.                  *)

Connect ==
    /\ At("closed")
    /\ turn' = Listening
    /\ \E thread \in {{}} \cup {{m} : m \in Missions} : following' = thread
    /\ UNCHANGED <<faults, approval, decided, inboxVars, smsVars, dialogueVars,
                   streamVars, told, owed, historyVars>>

Hear(u) ==
    /\ At("listening")
    /\ turn' = [Listening EXCEPT !.at = "heard", !.said = u]
    /\ UNCHANGED <<faults, approval, decided, inboxVars, smsVars, dialogueVars,
                   streamVars, connectionVars>>

\* Speech recognition failed or heard nothing: an error on the screen.
MisHear ==
    /\ At("heard") /\ Fault
    /\ turn' = Listening
    /\ UNCHANGED <<approval, decided, inboxVars, smsVars, dialogueVars, streamVars,
                   connectionVars>>

\* "Read that again" is answered from memory; the dialogues do not hear of it.
Route ==
    /\ At("heard")
    /\ IF Saying({"read-that-again"})
       THEN IF told THEN turn' = Listening ELSE Answer("hint", <<>>)
       ELSE Goto(IF Saying(VI!InboxPhrases) THEN "inbox" ELSE "briefing")
    /\ UNCHANGED <<faults, approval, decided, inboxVars, smsVars, dialogueVars,
                   streamVars, connectionVars>>

\* What is read out, for the properties.  The focus is told with an approval, as
\* the first of a list, and in "recorded approve for"; it stands on an approval
\* nobody told when a reading failed after it moved, and when the queue was
\* loaded anew after a decision.
FocusTold(answer) ==
    \/ answer.kind \in {"approval", "approvals"}
    \/ answer.kind = "decided" /\ Saying({"approve-id"})

FocusLost(answer) ==
    \/ answer.kind = "failed" /\ answer.of # <<>> /\ Saying(VA!Readings)
    \/ answer.kind = "decided" /\ Saying(VA!It)

ItemTold(answer) == answer.kind \in {"item", "items"}

Offered(answer) ==
    [approval |-> IF ~FocusTold(answer) THEN offered.approval
                  ELSE IF answer.of = <<>> THEN <<>> ELSE <<answer.of[1]>>,
     item |-> IF answer.kind = "item" THEN answer.of
              ELSE IF answer.kind = "items" THEN answer.of[1] ELSE offered.item,
     inbox |-> IF ItemTold(answer) THEN items ELSE offered.inbox,
     astray |-> (offered.astray \cup (IF FocusLost(answer) THEN {"approvals"} ELSE {}))
                    \ ((IF FocusTold(answer) THEN {"approvals"} ELSE {})
                            \cup (IF ItemTold(answer) THEN {"inbox"} ELSE {}))]

\* Nothing has come or gone at the place of the item told last, or ahead of it.
Stands(list) ==
    \A i \in DOMAIN offered.inbox : offered.inbox[i] = offered.item =>
        \A j \in 1..i : j \in DOMAIN list /\ list[j] = offered.inbox[j]

Speak ==
    /\ At("answer")
    /\ turn' = Listening
    /\ told' = TRUE
    /\ offered' = Offered(turn.answer)
    /\ readback' = IF turn.answer.kind = "ready"
                   THEN {[spoken |-> turn.answer.of, posted |-> GD!Posted(draft)]}
                   ELSE IF turn.answer.kind = "cancelled" \/ Saying(GD!Confirming) THEN {}
                   ELSE readback
    /\ UNCHANGED <<faults, approval, decided, inboxVars, smsVars, dialogueVars,
                   streamVars, following, owed>>

ForgetConnection ==
    /\ queue' = <<>> /\ cursor' = 0 /\ items' = <<>> /\ spot' = 0 /\ ranked' = <<>> /\ place' = 0
    /\ draft' = GD!NoDraft /\ lastMission' = 0
    /\ told' = FALSE /\ following' = {}
    /\ offered' = NothingOffered /\ readback' = {} /\ owed' = {}
    /\ turn' = [Listening EXCEPT !.at = "closed"]

\* Noticed when the server next receives or sends.
Disconnect ==
    /\ turn.at \in {"listening", "heard", "answer"}
    /\ ForgetConnection
    /\ UNCHANGED <<faults, approval, decided, inboxVars, smsVars, catalog,
                   streamVars>>

\* The voice server goes down and comes up again.
Restart ==
    /\ Fault
    /\ ForgetConnection
    /\ catalog' = "unread" /\ loop' = [at |-> "between", met |-> FALSE, last |-> 0]
    /\ UNCHANGED <<approval, decided, inboxVars, smsVars, updates>>

-----------------------------------------------------------------------------
(* The dialogues, with what they leave alone.                              *)

\* A decision waits for the row that a webhook has updated.
TalkOfApprovals ==
    /\ \/ /\ At("approvals-or-intake") /\ Saying(VA!ApprovalPhrases)
          /\ Goto("approvals")
          /\ UNCHANGED <<faults, approval, decided, voiceApprovalVars>>
       \/ VA!VoiceApprovalStep
    /\ decided' # decided => Sms!ApprovalFree(turn.target[1])
    /\ UNCHANGED <<inboxVars, smsVars, voiceInboxVars, voiceBriefingVars,
                   draftVars, streamVars, connectionVars>>

TalkOfInbox ==
    /\ VI!VoiceInboxStep
    /\ offered' = IF Stands(items') THEN offered
                  ELSE [offered EXCEPT !.astray = @ \cup {"inbox"}]
    /\ UNCHANGED <<decided, smsVars, voiceApprovalVars, voiceBriefingVars, draftVars,
                   streamVars, told, following, owed, readback>>

TalkOfMissions ==
    /\ VB!VoiceBriefingStep
    /\ UNCHANGED <<approval, decided, broken, findings, arrival, triage, changes,
                   smsVars, voiceApprovalVars, voiceInboxVars, draftVars,
                   streamVars, connectionVars>>

TalkOfDraft ==
    /\ GD!GovernedDraftStep
    /\ UNCHANGED <<decided, inboxVars, smsVars, voiceApprovalVars,
                   voiceInboxVars, voiceBriefingVars, streamVars, connectionVars>>

\* What every new approval comes with; the text message if they are configured.
Opened(a) ==
    /\ \A b \in Approvals : b < a => approval[b] # "absent"
    /\ Inbox!RequestArrives(a)
    /\ Sms!QueueNotice(a) \/ UNCHANGED smsVars

SubmitDraft(a) ==
    /\ GD!Submit(a) \/ GD!SubmitLosesReply(a)
    /\ Opened(a)
    /\ readback' = {}
    /\ UNCHANGED <<decided, voiceApprovalVars, voiceInboxVars, voiceBriefingVars,
                   streamVars, told, following, owed, offered>>

\* Everything else goes to POST /intake; it makes a mission of it or only replies.
Intake ==
    /\ At("approvals-or-intake") /\ ~Saying(VA!ApprovalPhrases)
    /\ \/ /\ Answer("reply", <<>>)
          /\ UNCHANGED <<mission, lastMission, following, faults>>
       \/ \E m \in Missions :
            /\ mission[m] = "none"
            /\ mission' = [mission EXCEPT ![m] = "active"]
            /\ \/ /\ Answer("mission", <<m>>)
                  /\ lastMission' = m /\ following' = following \cup {m}
                  /\ UNCHANGED faults
               \/ Fault /\ Answer("failed", <<>>) /\ UNCHANGED <<lastMission, following>>
       \/ Fault /\ Answer("failed", <<>>) /\ UNCHANGED <<mission, lastMission, following>>
    /\ UNCHANGED <<approval, decided, broken, findings, arrival, triage, changes,
                   smsVars, voiceApprovalVars, voiceInboxVars, voiceBriefingVars,
                   draft, catalog, streamVars, told, owed, historyVars>>

-----------------------------------------------------------------------------
(* The updates loop: XREAD from the newest until a first message came.     *)

Publish(m) ==
    /\ mission[m] # "none" /\ Len(updates) < MaxUpdates
    /\ updates' = Append(updates, m)
    /\ owed' = IF Connected /\ m \in following /\ loop.met THEN owed \cup {Len(updates) + 1}
               ELSE owed
    /\ UNCHANGED <<turn, faults, approval, decided, inboxVars, smsVars, dialogueVars,
                   loop, told, following, historyVars>>

\* What arrives between two reads from "$" is never read.
ReadUpdates ==
    /\ loop.at = "between"
    /\ loop' = [loop EXCEPT !.at = "waiting", !.last = IF loop.met THEN @ ELSE Len(updates)]
    /\ UNCHANGED <<turn, faults, approval, decided, inboxVars, smsVars, dialogueVars,
                   updates, connectionVars>>

\* After eight seconds, or when Redis fails.
ReadNothing ==
    /\ loop.at = "waiting" /\ loop.last = Len(updates)
    /\ loop' = [loop EXCEPT !.at = "between"]
    /\ UNCHANGED <<turn, faults, approval, decided, inboxVars, smsVars, dialogueVars,
                   updates, connectionVars>>

\* An update of a mission that is not followed is dropped.
TellUpdate ==
    /\ loop.at = "waiting" /\ loop.last < Len(updates)
    /\ loop' = [at |-> "between", met |-> TRUE, last |-> loop.last + 1]
    /\ owed' = IF Connected /\ updates[loop.last + 1] \in following
               THEN owed \ {loop.last + 1} ELSE owed
    /\ UNCHANGED <<turn, faults, approval, decided, inboxVars, smsVars, dialogueVars,
                   updates, told, following, historyVars>>

-----------------------------------------------------------------------------
(* Everyone else.                                                          *)

RequestElsewhere(a) ==
    /\ approval[a] = "absent" /\ approval' = [approval EXCEPT ![a] = "pending"]
    /\ Opened(a)
    /\ UNCHANGED <<turn, faults, decided, dialogueVars, streamVars, connectionVars>>

DecideElsewhere(a, decision) ==
    /\ approval[a] = "pending" /\ Sms!ApprovalFree(a)
    /\ approval' = [approval EXCEPT ![a] = decision]
    /\ decided' = decided \cup {[approval |-> a, decision |-> decision, by |-> "desk"]}
    /\ UNCHANGED <<turn, faults, inboxVars, smsVars, dialogueVars, streamVars,
                   connectionVars>>

AnswerMessage(w) ==
    /\ Sms!WebhookStep(w)
    /\ UNCHANGED <<turn, inboxVars, dialogueVars, streamVars, connectionVars>>

Texting ==
    /\ Sms!SmsStep
    /\ UNCHANGED <<turn, inboxVars, dialogueVars, streamVars, connectionVars>>

InboxMoves ==
    /\ Inbox!InboxChanges
    /\ UNCHANGED <<turn, faults, decided, smsVars, dialogueVars, streamVars, connectionVars>>

CatalogLoads ==
    /\ GD!LoadCatalogElsewhere
    /\ UNCHANGED <<decided, inboxVars, smsVars, voiceApprovalVars,
                   voiceInboxVars, voiceBriefingVars, streamVars, connectionVars>>

Init ==
    /\ turn = [Listening EXCEPT !.at = "closed"] /\ faults = 0
    /\ approval = [a \in Approvals |-> "absent"] /\ decided = {}
    /\ Inbox!InboxInit /\ Sms!SmsInit
    /\ queue = <<>> /\ cursor = 0 /\ items = <<>> /\ spot = 0 /\ ranked = <<>> /\ place = 0
    /\ draft = GD!NoDraft /\ catalog = "unread" /\ lastMission = 0
    /\ told = FALSE /\ following = {} /\ updates = <<>>
    /\ loop = [at |-> "between", met |-> FALSE, last |-> 0]
    /\ offered = NothingOffered /\ readback = {} /\ owed = {}

\* The steps the voice server owes to an utterance.
Converse ==
    \/ Route \/ Speak \/ Intake
    \/ TalkOfApprovals \/ TalkOfInbox \/ TalkOfMissions \/ TalkOfDraft
    \/ \E a \in Approvals : SubmitDraft(a)

Connection ==
    Connect \/ MisHear \/ Disconnect \/ Restart \/ Converse \/ CatalogLoads

Streaming == ReadUpdates \/ ReadNothing \/ TellUpdate \/ \E m \in Missions : Publish(m)

Elsewhere ==
    \/ \E a \in Approvals : RequestElsewhere(a)
    \/ \E a \in Approvals, decision \in {"approved", "denied"} : DecideElsewhere(a, decision)

Next ==
    \/ Connection \/ Streaming \/ Elsewhere \/ Texting \/ InboxMoves
    \/ \E u \in Utterances : Hear(u)
    \/ \E u \in Starting : Hear(u)

Spec == Init /\ [][Next]_vars

\* Requests end by answer or time-out, so an utterance is seen through; so are
\* a webhook and a notification; the updates loop runs for ever.
Fairness ==
    /\ WF_vars(Converse)
    /\ WF_vars(ReadUpdates) /\ WF_vars(TellUpdate)
    /\ \A w \in Webhooks : WF_vars(AnswerMessage(w))

FairSpec == Spec /\ Fairness

-----------------------------------------------------------------------------
(* Properties.                                                             *)

\* A cursor stands on an item of its list, which the code reads unchecked; a
\* draft asks only for fields of its kind; the loop is not ahead of the stream.
TypeOK ==
    /\ approval \in [Approvals -> {"absent", "pending", "approved", "denied"}]
    /\ turn.at \in {"closed", "listening", "heard", "inbox", "triage", "reload",
                     "briefing", "detail", "draft", "dictation", "submit",
                     "approvals-or-intake", "approvals", "pending", "bundle", "decide",
                     "refresh", "answer"}
    /\ Range(queue) \subseteq Approvals /\ (queue # <<>> => cursor < Len(queue))
    /\ Range(items) \subseteq Inbox!Keys /\ (items # <<>> => spot < Len(items))
    /\ Range(ranked) \subseteq Missions /\ (ranked # <<>> => place < Len(ranked))
    /\ draft.step \in {"none", "collect", "confirm"}
    /\ draft # GD!NoDraft => DOMAIN draft.fields \subseteq
            Range(GD!CatalogFields[draft.kind]) \cup Range(GD!LegacyFields[draft.kind])
    /\ loop.last <= Len(updates) /\ owed \subseteq 1..Len(updates)

Deciding == At("decide") /\ decided' # decided /\ turn' # turn
Triaging == At("triage") /\ triage' # triage /\ turn' # turn

\* "Approve it" and "deny it" decide the approval told last while in focus,
\* whatever others request and decide meanwhile, unless the focus went astray: a
\* reading failed behind a moved cursor, or the queue was loaded anew after a
\* decision, and nothing was told since.  No approval is decided while a draft is
\* dictated.  "Acknowledge it" and its like act on the inbox item told last,
\* unless none was told yet, or an inbox loaded since had something come or go at
\* its place or ahead of it.
FocusIsWhatWasHeard ==
    [][ /\ Deciding =>
            /\ ~GD!Drafting
            /\ Saying(VA!It) =>
                    "approvals" \in offered.astray \/ turn.target = offered.approval
        /\ Triaging =>
            "inbox" \in offered.astray \/ turn.target = offered.item ]_vars

\* An approval that voice or a text message calls decided was decided so by it;
\* a message that came after the decision decides nothing.
AnswersAreTrue == VA!VoiceDecisionClaimed /\ Sms!SmsAnswersTrue

Requesting == At("submit") /\ approval' # approval

\* What is requested by voice is what stood in the draft when its summary was
\* read out last, the fields that the summary passes over included, and those it
\* names as they were spoken, the default of a method that nobody chose too; each
\* reading is good for one request, and for none once it is cancelled.
RequestedAsReadBack ==
    [][ Requesting =>
            \E reading \in readback :
                /\ reading.posted = GD!Posted(draft)
                /\ \A name \in DOMAIN reading.spoken :
                    /\ name \in DOMAIN GD!Posted(draft)
                    /\ reading.spoken[name] = GD!Aloud(name, GD!Posted(draft)[name]) ]_vars

\* Every utterance and every message is answered, and the updates of a mission
\* the connection follows are told, unless it is closed.
EveryTurnAnswered ==
    /\ At("heard") ~> (At("listening") \/ At("closed"))
    /\ \A w \in Webhooks : hook[w].at = "token" ~> hook[w].at = "done"
    /\ owed # {} ~> owed = {}
=============================================================================

------------------------- MODULE MCOperatorSurfaces -------------------------
(***************************************************************************)
(* Six sessions, each with the phrases and the changes it is about; any    *)
(* phrase of a session may be said at any time, in any order.              *)
(***************************************************************************)
EXTENDS OperatorSurfaces

CONSTANTS w1, w2
VARIABLE session

MCKinds == {"gh_merge", "gm_reply"}
MCUrgent == {<<"approval", 2>>, <<"heartbeat", 1>>}

Sessions == {"approvals", "messages", "inbox", "missions", "merges", "replies"}

Phrases ==
    CASE session = "approvals" -> (VA!ApprovalPhrases \ {"deny-it", "deny-id", "approve"})
                                     \cup {"read-that-again"}
      [] session = "messages" -> {"deny-id"}
      [] session = "inbox" -> VI!InboxPhrases \ {"dismiss-it", "top-item", "previous-item",
                                                 "open-the-mission", "what-kind-of-item"}
      [] session = "missions" -> VB!BriefingPhrases
                                    \cup {"look-through-my-mail", "open-a-page"}
      [] session = "merges" -> GD!Vague \cup GD!Confirming \cup GD!Starts
                                    \cup {"words", "skip", "last-mission", "cancel-that",
                                          "open-a-page", "approve-it"}
      [] session = "replies" -> {"start", "words", "skip", "confirm", "mission-id",
                                 "cancel-that"}

\* A draft is of the session's kind; a reply is for a mission named at once.
SaidInSession(u) ==
    /\ u.phrase \in Phrases
    /\ u.phrase \in GD!Starts => u.of = IF session = "merges" THEN "gh_merge" ELSE "gm_reply"
    /\ u.phrase \in VI!TriagePhrases => \A k \in Inbox!Keys : triage[k] = Inbox!NoRow
    /\ session = "replies" =>
            /\ u.phrase = "mission-id" <=> GD!Drafting /\ DOMAIN draft.fields = {}
            /\ u.phrase = "confirm" <=> draft.step = "confirm"

\* What goes on besides the conversation; the inbox changes when it is about to
\* be read.
Besides ==
    \/ session = "missions" /\ Streaming
    \/ session \in {"approvals", "messages", "inbox"} /\ Elsewhere
    \/ session = "messages" /\ Texting
    \/ session = "inbox" /\ turn.at \in {"listening", "triage"} /\ InboxMoves

InSession ==
    /\ notice' # notice => session = "messages"
    /\ following' # following => session \in {"missions", "merges"}
    /\ session \in {"inbox", "messages", "replies"} => approval'[2] = "absent"
    /\ approval' # approval /\ session = "inbox" => At("closed") /\ decided' = decided
    /\ \A event \in decided' \ decided : event.by = "desk" => event.decision = "denied"
    /\ turn'.at = "closed" => At("closed") \/ session \notin {"messages", "inbox"}
    /\ faults' # faults => CASE session = "messages" -> hook' # hook \/ notice' # notice
                             [] session = "inbox" -> turn'.at = "answer"
                             [] OTHER -> TRUE
    /\ session' = session

\* In the inbox one item is triaged, by voice or, dismissed, by another, or two at
\* the same time; the last change is a trouble that comes again.
NoMarks == \A k \in Inbox!Keys : triage[k] = Inbox!NoRow

FewMarks ==
    /\ turn' = turn => \A k \in Inbox!Keys :
            /\ triage'[k].acknowledged => triage[k].acknowledged
            /\ triage'[k].snoozed => triage[k].snoozed
            /\ triage'[k].dismissed => triage[k].dismissed \/ NoMarks
    /\ changes' = MaxChanges /\ changes # MaxChanges =>
            /\ findings' # findings \/ arrival' # arrival
            /\ findings \subseteq findings' /\ Range(arrival') = Range(arrival)

\* One message denies, the other approves or asks; a spoken decision meets the
\* other, and comes when the notification is through.
FewMessages ==
    /\ \A w \in Webhooks : hook'[w].verb = "DENY" <=> w = w2 /\ hook'[w].at # "idle"
    /\ session = "messages" /\ (hook'[w2].at \notin {"idle", "done"} \/ notice'[1] # "done") =>
            turn'.at \in {"closed", "listening"}

MCInit == Init /\ session \in Sessions
Hears ==
    \/ \E u \in {v \in Utterances : SaidInSession(v)} : Hear(u)
    \/ \E u \in {v \in Starting : SaidInSession(v)} : Hear(u)
Allowed == InSession /\ FewMarks /\ FewMessages
MCNext == (Connection \/ Besides \/ Hears) /\ Allowed

\* OperatorSurfaces' fairness, of the steps that the session has.
MCFairness ==
    /\ WF_vars(Converse /\ Allowed)
    /\ WF_vars(ReadUpdates /\ session = "missions" /\ Allowed)
    /\ WF_vars(TellUpdate /\ session = "missions" /\ Allowed)
    /\ \A w \in Webhooks : WF_vars(AnswerMessage(w) /\ session = "messages" /\ Allowed)

MCSpec == MCInit /\ [][MCNext]_<<vars, session>> /\ MCFairness
=============================================================================

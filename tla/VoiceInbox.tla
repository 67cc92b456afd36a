----------------------------- MODULE VoiceInbox -----------------------------
(***************************************************************************)
(* The inbox dialogue of a voice connection.  It loads the open items anew *)
(* for every utterance and keeps its place among them by number: when the  *)
(* list has changed, the number stands for another item.                   *)
(***************************************************************************)
EXTENDS VoiceTurn

CONSTANTS Approvals, Findings, Missions, Urgent, MaxChanges    \* as in OperatorInbox

VARIABLES
    approval, mission, broken, findings, arrival, triage, changes,    \* OperatorInbox
    items, spot     \* VoiceInboxState: items_cache and cursor

voiceInboxVars == <<items, spot>>
Inbox == INSTANCE OperatorInbox

Moves == {"next-item", "previous-item"}
Questions == {"what-kind-of-item", "open-the-approval", "open-the-mission"}
TriagePhrases == {"acknowledge-it", "snooze-it", "dismiss-it"}
InboxPhrases == {"what-is-in-my-inbox", "top-item"} \cup Moves \cup Questions \cup TriagePhrases

MarkOf(phrase) ==
    CASE phrase = "acknowledge-it" -> "acknowledge"
      [] phrase = "snooze-it" -> "snooze"
      [] phrase = "dismiss-it" -> "dismiss"

Forgotten == items = <<>> /\ spot = 0

ControlPlane == <<approval, mission, broken, findings, arrival, triage, changes>>

-----------------------------------------------------------------------------
\* The place is kept by number, or is the last one of a shorter list.
Synced(list) == IF spot < Len(list) THEN spot ELSE IF list = <<>> THEN 0 ELSE Len(list) - 1

Place(list) ==
    IF list = <<>> \/ Saying({"what-is-in-my-inbox", "top-item"}) THEN 0
    ELSE IF Saying({"next-item"}) THEN After(Synced(list), list)
    ELSE IF Saying({"previous-item"}) THEN Before(Synced(list))
    ELSE Synced(list)

\* The item at that place is spoken of or triaged; an empty list has none.
GetItems ==
    /\ At("inbox")
    /\ LET list == Inbox!OpenItems
           it == list[Place(list) + 1]
       IN /\ items' = list /\ spot' = Place(list)
          /\ IF list = <<>> THEN Answer("hint", <<>>)
             ELSE IF Saying({"what-is-in-my-inbox"}) THEN Answer("items", list)
             ELSE IF Saying(TriagePhrases) THEN With("triage", it)
             ELSE IF Saying({"top-item"} \cup Moves) THEN Answer("item", it)
             ELSE IF \/ Saying({"open-the-approval"}) /\ it[1] # "approval"
                     \/ Saying({"open-the-mission"}) /\ it[1] = "heartbeat"
             THEN Answer("hint", <<>>)
             ELSE Answer("hand-off", it)
    /\ UNCHANGED <<ControlPlane, faults>>

PostTriage ==
    /\ At("triage")
    /\ Inbox!Mark(turn.target, MarkOf(turn.said.phrase))
    /\ Goto("reload")
    /\ UNCHANGED <<voiceInboxVars, changes, faults>>

\* The reply is lost on the way, or the row was inserted by two at a time.
LoseMark ==
    /\ At("triage") /\ Fault
    /\ Inbox!Mark(turn.target, MarkOf(turn.said.phrase))
    /\ Answer("failed", turn.target)
    /\ UNCHANGED <<voiceInboxVars, changes>>

\* The number now stands for the item behind the one that was triaged.
Reload ==
    /\ At("reload")
    /\ LET list == Inbox!OpenItems IN items' = list /\ spot' = Synced(list)
    /\ Answer("triaged", turn.target)
    /\ UNCHANGED <<ControlPlane, faults>>

FailInbox ==
    /\ turn.at \in {"inbox", "triage", "reload"} /\ Fault
    /\ Answer(IF At("reload") THEN "triaged" ELSE "failed", turn.target)
    /\ UNCHANGED <<voiceInboxVars, ControlPlane>>

VoiceInboxStep == GetItems \/ PostTriage \/ LoseMark \/ Reload \/ FailInbox
=============================================================================

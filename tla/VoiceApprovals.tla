--------------------------- MODULE VoiceApprovals ---------------------------
(***************************************************************************)
(* The approval dialogue of a voice connection: a queue of approvals with  *)
(* a cursor, read out and decided by fixed phrases.  Every request to the  *)
(* control plane is a step of its own, so that others decide in between.   *)
(***************************************************************************)
EXTENDS VoiceTurn

CONSTANT Approvals    \* 1..n, in the order in which they are requested

VARIABLES
    approval,      \* status of every approval
    decided,       \* decisions committed: [approval, decision, by]
    queue, cursor  \* VoiceApprovalState

voiceApprovalVars == <<queue, cursor>>

Pending == Kept([a \in Approvals |-> a], {a \in Approvals : approval[a] = "pending"})

It == {"approve-it", "deny-it"}
ById == {"approve-id", "deny-id"}
Bare == {"yes", "approve"}
Readings == {"read-approval", "next-approval", "previous-approval"}
ApprovalPhrases == Bare \cup ById \cup It \cup Readings \cup {"what-needs-approval"}

Verdict(phrase) == IF phrase \in {"approve-it", "approve-id"} THEN "approved" ELSE "denied"

Forgotten == queue = <<>> /\ cursor = 0

UntouchedByVoice == UNCHANGED <<approval, decided>>

\* The approval in focus; the cursor counts from 0.
Focused == IF cursor < Len(queue) THEN <<queue[cursor + 1]>> ELSE <<>>

\* Mutant: the first approval is read, wherever the cursor is.
FocusOnFirst(q, c) == With("bundle", <<q[1]>>)

FocusOn(q, c) == With("bundle", <<q[c + 1]>>)

-----------------------------------------------------------------------------
\* What the handler does before its first request.
Refuse ==
    /\ At("approvals") /\ Saying(Bare)
    /\ Answer("hint", <<>>)
    /\ UNCHANGED <<voiceApprovalVars, faults>> /\ UntouchedByVoice

LoadFirst ==
    /\ At("approvals")
    /\ \/ Saying(ById \cup {"what-needs-approval", "read-approval"})
       \/ Saying({"next-approval"}) /\ queue = <<>>
    /\ Goto("pending")
    /\ UNCHANGED <<voiceApprovalVars, faults>> /\ UntouchedByVoice

\* The queue is the one loaded last, whatever was decided since.
Move ==
    /\ At("approvals") /\ Saying({"next-approval", "previous-approval"}) /\ queue # <<>>
    /\ cursor' = IF Saying({"next-approval"}) THEN After(cursor, queue)
                 ELSE Before(cursor)
    /\ FocusOn(queue, cursor')
    /\ UNCHANGED <<queue, faults>> /\ UntouchedByVoice

MoveNowhere ==
    /\ At("approvals") /\ Saying({"previous-approval"}) /\ queue = <<>>
    /\ Answer("hint", <<>>)
    /\ UNCHANGED <<voiceApprovalVars, faults>> /\ UntouchedByVoice

DecideIt ==
    /\ At("approvals") /\ Saying(It)
    /\ IF Focused = <<>> THEN Answer("hint", <<>>) ELSE With("bundle", Focused)
    /\ UNCHANGED <<voiceApprovalVars, faults>> /\ UntouchedByVoice

-----------------------------------------------------------------------------
(* GET /approvals/pending, GET bundle, POST decision, GET pending again.   *)

FindById ==
    /\ At("pending") /\ Saying(ById)
    /\ IF approval[turn.said.of] = "pending"
       THEN turn' = [turn EXCEPT !.at = "bundle", !.list = Pending,
                                 !.target = <<turn.said.of>>]
       ELSE Answer("hint", <<>>)
    /\ UNCHANGED <<voiceApprovalVars, faults>> /\ UntouchedByVoice

TellPending ==
    /\ At("pending") /\ Saying({"what-needs-approval"})
    /\ Answer("approvals", Pending)
    /\ queue' = Pending /\ cursor' = 0
    /\ UNCHANGED faults /\ UntouchedByVoice

\* For "read approval" and "next approval".
FocusPending ==
    /\ At("pending") /\ ~Saying(ById \cup {"what-needs-approval"})
    /\ queue' = Pending
    /\ IF Pending = <<>>
       THEN Answer("hint", <<>>) /\ UNCHANGED cursor
       ELSE /\ cursor' = IF Saying({"next-approval"}) THEN After(cursor, Pending)
                         ELSE Within(cursor, Pending)
            /\ FocusOn(Pending, cursor')
    /\ UNCHANGED faults /\ UntouchedByVoice

GetPending == FindById \/ TellPending \/ FocusPending

GetBundle ==
    /\ At("bundle")
    /\ IF Saying(It \cup ById) THEN Goto("decide") ELSE Answer("approval", turn.target)
    /\ UNCHANGED <<voiceApprovalVars, faults>> /\ UntouchedByVoice

\* Mutant: the place in a list counts from 1.
PlaceFromOne(list, a) == Cardinality({b \in Range(list) : b =< a})

PlaceOf(list, a) == Cardinality({b \in Range(list) : b < a})

\* After a decision by id the queue is the list it was found in.
Recorded ==
    IF Saying(It) THEN Goto("refresh") /\ UNCHANGED voiceApprovalVars
    ELSE /\ Answer("decided", turn.target)
         /\ IF Saying({"approve-id"})
            THEN queue' = turn.list /\ cursor' = PlaceOf(turn.list, turn.target[1])
            ELSE UNCHANGED voiceApprovalVars

\* Mutant: the status code of the answer is not looked at.
FailedUnseen == Recorded

Failed == Answer("failed", turn.target) /\ UNCHANGED voiceApprovalVars

\* resolve_approval in one step; Approvals has what can happen in it.
Apply(a) ==
    /\ approval[a] = "pending"
    /\ approval' = [approval EXCEPT ![a] = Verdict(turn.said.phrase)]
    /\ decided' = decided \cup {[approval |-> a, decision |-> Verdict(turn.said.phrase),
                                 by |-> "voice"]}

PostDecision ==
    /\ At("decide")
    /\ \/ Apply(turn.target[1]) /\ Recorded
       \/ approval[turn.target[1]] # "pending" /\ UntouchedByVoice /\ Failed
    /\ UNCHANGED faults

\* Timed out after 25 seconds, applied all the same.
LoseReply ==
    /\ At("decide") /\ Fault
    /\ Apply(turn.target[1])
    /\ Failed

Refresh ==
    /\ At("refresh")
    /\ Answer("decided", turn.target)
    /\ queue' = Pending /\ cursor' = 0
    /\ UNCHANGED faults /\ UntouchedByVoice

\* A failed refresh after the decision is passed over in silence.
FailRequest ==
    /\ turn.at \in {"pending", "bundle", "decide", "refresh"} /\ Fault
    /\ Answer(IF At("refresh") THEN "decided" ELSE "failed", turn.target)
    /\ UNCHANGED voiceApprovalVars /\ UntouchedByVoice

VoiceApprovalStep ==
    \/ Refuse \/ LoadFirst \/ Move \/ MoveNowhere \/ DecideIt
    \/ GetPending \/ GetBundle \/ PostDecision \/ LoseReply \/ Refresh \/ FailRequest

-----------------------------------------------------------------------------
\* The answer claims what is on record.
VoiceDecisionClaimed ==
    At("answer") /\ turn.answer.kind = "decided" =>
        [approval |-> turn.answer.of[1], decision |-> Verdict(turn.said.phrase),
         by |-> "voice"] \in decided
=============================================================================

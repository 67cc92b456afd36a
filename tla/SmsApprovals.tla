---------------------------- MODULE SmsApprovals ----------------------------
(***************************************************************************)
(* Approvals by text message.  A new approval is texted to the operator    *)
(* with a code of its own, after the commit of the request; a reply comes  *)
(* in as a webhook with that code.  A webhook reads the approval once and  *)
(* keeps what it read; its updates lock the token's row, then the          *)
(* approval's, until it commits.                                           *)
(***************************************************************************)
EXTENDS Naturals, FiniteSets

CONSTANTS
    Approvals,
    Webhooks,      \* replies of the operator, each with a session of its own
    MaxFaults      \* bound on failures

VARIABLES
    approval,      \* committed status of every approval
    decided,       \* decisions committed: [approval, decision, by]
    token,         \* approval_sms_tokens by approval: none, pending or used
    notice,        \* where the notification of an approval is
    texted,        \* approvals whose code the operator was sent
    hook,          \* [at, approval, verb, seen, late, answer] of every webhook
    faults

smsVars == <<token, notice, texted, hook>>
UntouchedBySms == UNCHANGED <<approval, decided>>

Idle == [at |-> "idle", approval |-> 0, verb |-> "none", seen |-> "none", late |-> FALSE,
         answer |-> "none"]

SmsInit ==
    /\ token = [a \in Approvals |-> "none"] /\ notice = [a \in Approvals |-> "none"]
    /\ texted = {}
    /\ hook = [w \in Webhooks |-> Idle]

Decision(verb) == IF verb = "APPROVE" THEN "approved" ELSE "denied"
Decided(a) == \E event \in decided : event.approval = a

At(w, label) == hook[w].at = label
Fault == faults < MaxFaults /\ faults' = faults + 1

-----------------------------------------------------------------------------
(* The notification: process_approval_sms_queue.                           *)

Notify(a, label) == notice' = [notice EXCEPT ![a] = label]

\* Called with the request of the approval; get_db runs the queue after its commit.
QueueNotice(a) == Notify(a, "queued") /\ UNCHANGED <<token, texted, hook>>

StartNotice(a) ==
    /\ notice[a] = "queued"
    /\ Notify(a, IF approval[a] = "pending" /\ token[a] = "none" THEN "send" ELSE "done")
    /\ UNCHANGED <<token, texted, hook, faults>> /\ UntouchedBySms

\* The text goes out before the code is committed.
SendText(a) ==
    /\ notice[a] = "send"
    /\ Notify(a, "commit")
    /\ \/ texted' = texted \cup {a} /\ UNCHANGED faults
       \/ Fault /\ UNCHANGED texted
    /\ UNCHANGED <<token, hook>> /\ UntouchedBySms

CommitToken(a) ==
    /\ notice[a] = "commit"
    /\ token' = [token EXCEPT ![a] = "pending"]
    /\ Notify(a, "done")
    /\ UNCHANGED <<texted, hook, faults>> /\ UntouchedBySms

\* A code that is taken, a commit that fails, or a crash: the row is gone,
\* and nobody tries again.
LoseNotice(a) ==
    /\ notice[a] \in {"queued", "send", "commit"} /\ Fault
    /\ Notify(a, "done")
    /\ UNCHANGED <<token, texted, hook>> /\ UntouchedBySms

-----------------------------------------------------------------------------
(* The webhook: handle_twilio_inbound.                                     *)

Move(w, label) == hook' = [hook EXCEPT ![w].at = label]
Reply(w, answer) ==
    hook' = [hook EXCEPT ![w].at = "done", ![w].seen = "none", ![w].answer = answer]

\* Mutant: the code is marked used by another session before the commit.
LocksTokenToTheEnd(w, a) == hook[w].approval = a /\ hook[w].at \in {"decide", "commit", "use"}

LocksToken(w, a) == hook[w].approval = a /\ hook[w].at \in {"decide", "commit"}
TokenFree(a) == \A w \in Webhooks : ~LocksToken(w, a)
ApprovalFree(a) == \A w \in Webhooks : ~(hook[w].approval = a /\ At(w, "commit"))

\* Replies that are unsigned, from elsewhere or with no code of ours end here.
Receive(w, a, verb) ==
    /\ At(w, "idle") /\ a \in texted
    /\ hook' = [hook EXCEPT ![w] = [Idle EXCEPT !.at = "token", !.approval = a, !.verb = verb,
                                                !.late = Decided(a)]]
    /\ UNCHANGED <<token, notice, texted, faults>> /\ UntouchedBySms

ReadToken(w) ==
    /\ At(w, "token")
    /\ IF token[hook[w].approval] = "pending" THEN Move(w, "approval") ELSE Reply(w, "unknown")
    /\ UNCHANGED <<token, notice, texted, faults>> /\ UntouchedBySms

ReadApproval(w) ==
    /\ At(w, "approval")
    /\ hook' = [hook EXCEPT ![w].at = "mark", ![w].seen = approval[hook[w].approval]]
    /\ UNCHANGED <<token, notice, texted, faults>> /\ UntouchedBySms

\* mark_inbound waits for the token's row; then what was read before decides.
MarkInbound(w) ==
    /\ At(w, "mark") /\ TokenFree(hook[w].approval)
    /\ IF hook[w].seen # "pending" THEN Reply(w, "not-pending")
       ELSE IF hook[w].verb = "READ" THEN Reply(w, "details")
       ELSE Move(w, "decide")
    /\ UNCHANGED <<token, notice, texted, faults>> /\ UntouchedBySms

UpdateDecision(w) ==
    /\ At(w, "decide") /\ ApprovalFree(hook[w].approval)
    /\ Move(w, "commit")
    /\ UNCHANGED <<token, notice, texted, faults>> /\ UntouchedBySms

CommitDecision(w) ==
    /\ At(w, "commit")
    /\ LET verdict == Decision(hook[w].verb)
       IN /\ approval' = [approval EXCEPT ![hook[w].approval] = verdict]
          /\ decided' = decided \cup {[approval |-> hook[w].approval, decision |-> verdict,
                                       by |-> w]}
    /\ Move(w, "use")
    /\ UNCHANGED <<token, notice, texted, faults>>

\* In a second session, after the first has committed.
MarkUsed(w) ==
    /\ At(w, "use") /\ TokenFree(hook[w].approval)
    /\ token' = [token EXCEPT ![hook[w].approval] = "used"]
    /\ Reply(w, "recorded")
    /\ UNCHANGED <<notice, texted, faults>> /\ UntouchedBySms

\* An exception or a crash; the locks go with the session.
FailWebhook(w) ==
    /\ hook[w].at \notin {"idle", "done"} /\ Fault
    /\ Reply(w, "error")
    /\ UNCHANGED <<token, notice, texted>> /\ UntouchedBySms

NoticeStep(a) == StartNotice(a) \/ SendText(a) \/ CommitToken(a)
WebhookStep(w) ==
    ReadToken(w) \/ ReadApproval(w) \/ MarkInbound(w) \/ UpdateDecision(w)
        \/ CommitDecision(w) \/ MarkUsed(w)

SmsStep ==
    \/ \E a \in Approvals : NoticeStep(a) \/ LoseNotice(a)
    \/ \E w \in Webhooks : WebhookStep(w) \/ FailWebhook(w)
    \/ \E w \in Webhooks, a \in Approvals, verb \in {"APPROVE", "DENY", "READ"} :
            Receive(w, a, verb)

-----------------------------------------------------------------------------
\* A reply says "recorded" only of its own decision, "no longer pending" only
\* of a decided approval; and one that came after the decision decides nothing.
SmsAnswersTrue ==
    \A w \in Webhooks :
        LET own == [approval |-> hook[w].approval, decision |-> Decision(hook[w].verb), by |-> w]
        IN /\ hook[w].answer = "recorded" => own \in decided
           /\ hook[w].answer = "not-pending" => Decided(hook[w].approval)
           /\ hook[w].late => own \notin decided
           /\ own \in decided => hook[w].verb # "READ"
=============================================================================

-------------------------- MODULE GovernedWorkflow --------------------------
(***************************************************************************)
(* The six governed integrations of the control plane: create an issue,    *)
(* create a pull request, merge one, create a Gmail draft, a reply draft,  *)
(* send a draft.  Each is submitted (a merge and a reply only after a      *)
(* preflight), approved, and carried out by the session of the approving   *)
(* decision: preflight again, one call, receipt and mission status in one  *)
(* transaction.  GitHub and Gmail go on changing in between.               *)
(*                                                                         *)
(* Every approval has a mission of its own here; sessions that meet on one *)
(* mission, their row locks and the COMMIT of the decision are Approvals.  *)
(* A denied approval is never carried out (there too), so denials are left *)
(* out.  There is one pull request, one draft and one message.             *)
(***************************************************************************)
EXTENDS Naturals

CONSTANTS
    Approvals,    \* approval ids
    Sessions,     \* requests to the control plane
    Versions,     \* commits that are, or were, the head of the pull request
    NoVersion,    \* no head: the pull request's answer has no head sha
    MaxChanges    \* bound on what others change at GitHub and Gmail

ASSUME WorkflowAssumption ==
    /\ NoVersion \notin Versions
    /\ MaxChanges \in Nat

VARIABLES
    contract,   \* command_text: the kind of action, the heads the merge is for
    approval,   \* status of an approval
    mission,    \* status of its mission
    pull,       \* the pull request at GitHub: [state, ready, head]
    checks,     \* the check runs of a commit, as the first page tells them
    mailbox,    \* which of the draft and the message exist at Gmail
    effects,    \* calls that took effect: the session, the head it merged
    receipts,   \* committed receipts: the session, the outcome
    job,        \* the approval a session works for
    runs,       \* sessions that carry out an approved action (not a submission)
    pc,         \* where it is
    snap,       \* the head sha in its preflight snapshot
    outcome,    \* what its call returned
    reply,      \* what its client was answered
    since,      \* heads seen clean and ready at GitHub since the session began
    changes     \* changes made by others so far

stored == <<contract, approval, mission, receipts>>
provider == <<pull, checks, mailbox, effects>>
vars == <<stored, provider, job, runs, pc, snap, outcome, reply, since, changes>>

Kinds == {"issue", "pull", "draft", "reply", "send", "merge"}
NoContract == [kind |-> "none", heads |-> {}]
NoJob == "no job"

PullStates ==
    [state : {"open", "closed", "merged"}, ready : BOOLEAN,
     head : Versions \cup {NoVersion}]

KindOf(s) == contract[job[s]].kind

\* What GitHub would tell of heads right now; `since` collects it.
CleanHeads == {v \in Versions : checks[v] = "clean"}
ReadyHeads == {v \in Versions : pull = [state |-> "open", ready |-> TRUE, head |-> v]}

Init ==
    /\ contract = [a \in Approvals |-> NoContract]
    /\ approval = [a \in Approvals |-> "absent"]
    /\ mission = [a \in Approvals |-> "pending"]
    /\ pull \in {p \in PullStates : p.state = "open" /\ p.ready /\ p.head \in Versions}
    /\ checks = [v \in Versions |-> "clean"]
    /\ mailbox = {"draft", "message"}
    /\ effects = {} /\ receipts = {}
    /\ job = [s \in Sessions |-> NoJob]
    /\ runs = {}
    /\ pc = [s \in Sessions |-> "idle"]
    /\ snap = [s \in Sessions |-> NoVersion]
    /\ outcome = [s \in Sessions |-> "none"]
    /\ reply = [s \in Sessions |-> "none"]
    /\ since = [s \in Sessions |-> [clean |-> {}, ready |-> {}]]
    /\ changes = 0

Goto(s, label) == pc' = [pc EXCEPT ![s] = label]

Answer(s, what) ==
    /\ Goto(s, "done")
    /\ reply' = [reply EXCEPT ![s] = what]

Begin(s, a, label) ==
    /\ pc[s] = "idle"
    /\ job' = [job EXCEPT ![s] = a]
    /\ since' = [since EXCEPT ![s] = [clean |-> CleanHeads, ready |-> ReadyHeads]]
    /\ Goto(s, label)
    /\ UNCHANGED <<provider, receipts, snap, outcome, reply, changes>>

-----------------------------------------------------------------------------
(* Submission.                                                             *)

Submit(s, a, kind, heads, label) ==
    /\ contract[a] = NoContract
    /\ contract' = [contract EXCEPT ![a] = [kind |-> kind, heads |-> heads]]
    /\ Begin(s, a, label)
    /\ UNCHANGED <<approval, mission, runs>>

SubmitIssue(s, a) == Submit(s, a, "issue", Versions, "request")
SubmitPull(s, a) == Submit(s, a, "pull", Versions, "request")
SubmitDraft(s, a) == Submit(s, a, "draft", Versions, "request")
SubmitSend(s, a) == Submit(s, a, "send", Versions, "request")
SubmitReply(s, a) == Submit(s, a, "reply", Versions, "readMessage")

\* expected_head_sha, if given, is a prefix: it stands for some of the heads.
SubmitMerge(s, a) ==
    \E heads \in SUBSET Versions \ {{}} : Submit(s, a, "merge", heads, "readPull")

Submitting(s) == s \notin runs

\* Before the approval exists, a failed preflight is an HTTP error; after it,
\* a failed outcome that is recorded.
Refuse(s) ==
    /\ \/ Submitting(s) /\ Answer(s, "refused") /\ UNCHANGED outcome
       \/ /\ ~Submitting(s) /\ Goto(s, "record")
          /\ outcome' = [outcome EXCEPT ![s] = "failed"]
          /\ UNCHANGED reply
    /\ UNCHANGED <<stored, provider, job, runs, snap, since, changes>>

GoOn(s) ==
    /\ Goto(s, IF Submitting(s) THEN "request" ELSE "call")
    /\ UNCHANGED <<stored, provider, job, runs, snap, outcome, reply, since, changes>>

RequestApproval(s) ==
    /\ pc[s] = "request"
    /\ approval' = [approval EXCEPT ![job[s]] = "pending"]
    /\ mission' = [mission EXCEPT ![job[s]] = "awaiting_approval"]
    /\ Answer(s, "ok")
    /\ UNCHANGED <<contract, receipts, provider, job, runs, snap, outcome, since, changes>>

-----------------------------------------------------------------------------
(* Preflight, the same before and after the approval.  Any GET can fail.   *)

\* Mutants of ReadPull: a pull request without head sha passes; the head is
\* not compared with expected_head_sha.
ReadPullAnyHead(s) ==
    /\ pc[s] = "readPull"
    /\ \/ /\ pull.state = "open" /\ pull.ready
          /\ pull.head \in contract[job[s]].heads \cup {NoVersion}
          /\ snap' = [snap EXCEPT ![s] = pull.head]
          /\ Goto(s, "readChecks")
          /\ UNCHANGED <<stored, provider, job, runs, outcome, reply, since, changes>>
       \/ Refuse(s)

ReadPullIgnoresExpected(s) ==
    /\ pc[s] = "readPull"
    /\ \/ /\ pull.state = "open" /\ pull.ready /\ pull.head # NoVersion
          /\ snap' = [snap EXCEPT ![s] = pull.head]
          /\ Goto(s, "readChecks")
          /\ UNCHANGED <<stored, provider, job, runs, outcome, reply, since, changes>>
       \/ Refuse(s)

\* The first half of preflight_merge; `ready` is: not a draft, mergeable, and
\* mergeable_state none, clean or behind.
ReadPull(s) ==
    /\ pc[s] = "readPull"
    /\ \/ /\ pull.state = "open" /\ pull.ready /\ pull.head \in contract[job[s]].heads
          /\ snap' = [snap EXCEPT ![s] = pull.head]
          /\ Goto(s, "readChecks")
          /\ UNCHANGED <<stored, provider, job, runs, outcome, reply, since, changes>>
       \/ Refuse(s)

\* Mutant: the checks of the branch are read, not those of the snapshot's head.
ReadChecksOfBranch(s) ==
    /\ pc[s] = "readChecks"
    /\ \/ /\ pull.head \in Versions /\ checks[pull.head] \notin {"running", "bad"}
          /\ GoOn(s)
       \/ Refuse(s)

\* The second half: no check run of that head is queued, in progress or bad.
ReadChecks(s) ==
    /\ pc[s] = "readChecks"
    /\ \/ checks[snap[s]] \notin {"running", "bad"} /\ GoOn(s)
       \/ Refuse(s)

\* get_message_metadata, with the checks on the headers a reply needs.
ReadMessage(s) ==
    /\ pc[s] = "readMessage"
    /\ \/ "message" \in mailbox /\ GoOn(s)
       \/ Refuse(s)

-----------------------------------------------------------------------------
(* After COMMIT of an approving decision, in its session.                  *)

\* A decision that read the approval as pending may commit after another one;
\* it leaves the mission as it is when it read it as active.
Approve(s, a) ==
    /\ approval[a] \in {"pending", "approved"}
    /\ approval' = [approval EXCEPT ![a] = "approved"]
    /\ \/ mission' = [mission EXCEPT ![a] = "active"]
       \/ approval[a] = "approved" /\ UNCHANGED mission
    /\ Begin(s, a, "execute")
    /\ runs' = runs \cup {s}
    /\ UNCHANGED contract

\* No contract, no token and an invalid contract are recorded as failures.
Execute(s, kind, label) ==
    /\ pc[s] = "execute" /\ KindOf(s) = kind
    /\ \/ /\ Goto(s, label)
          /\ UNCHANGED <<stored, provider, job, runs, snap, outcome, reply, since, changes>>
       \/ Refuse(s)

ExecuteIssue(s) == Execute(s, "issue", "call")
ExecutePull(s) == Execute(s, "pull", "call")
ExecuteDraft(s) == Execute(s, "draft", "call")
ExecuteSend(s) == Execute(s, "send", "call")
ExecuteReply(s) == Execute(s, "reply", "readMessage")
ExecuteMerge(s) == Execute(s, "merge", "readPull")

Calling(s, kinds) ==
    /\ pc[s] = "call" /\ KindOf(s) \in kinds
    /\ UNCHANGED <<stored, checks, job, runs, snap, reply, since, changes>>

\* The call took effect and said so, or a time-out hides it.
TookEffect(s) ==
    /\ effects' = effects \cup {[by |-> s, head |-> snap[s]]}
    /\ outcome' \in {[outcome EXCEPT ![s] = r] : r \in {"complete", "failed"}}
    /\ Goto(s, "record")

NoEffect(s) ==
    /\ outcome' = [outcome EXCEPT ![s] = "failed"]
    /\ Goto(s, "record")
    /\ UNCHANGED <<pull, mailbox, effects>>

\* Mutants of Create: a time-out is taken for success; it is tried again.
CreateOptimistic(s, kind) ==
    /\ Calling(s, {kind})
    /\ effects' \in {effects, effects \cup {[by |-> s, head |-> snap[s]]}}
    /\ outcome' \in {[outcome EXCEPT ![s] = r] : r \in {"complete", "failed"}}
    /\ Goto(s, "record")
    /\ UNCHANGED <<pull, mailbox>>

CreateRetried(s, kind) ==
    /\ Calling(s, {kind})
    /\ \/ TookEffect(s) /\ UNCHANGED <<pull, mailbox>>
       \/ NoEffect(s)
       \/ /\ effects' = effects \cup {[by |-> s, head |-> snap[s]]}
          /\ UNCHANGED <<pc, outcome, pull, mailbox>>

Create(s, kind) ==
    /\ Calling(s, {kind})
    /\ \/ TookEffect(s) /\ UNCHANGED <<pull, mailbox>>
       \/ NoEffect(s)

CreateIssue(s) == Create(s, "issue")
CreatePull(s) == Create(s, "pull")
CreateDraft(s) == Create(s, "draft")
CreateReplyDraft(s) == Create(s, "reply")

\* drafts.send takes the draft away.
SendDraft(s) ==
    /\ Calling(s, {"send"})
    /\ \/ /\ "draft" \in mailbox
          /\ mailbox' = mailbox \ {"draft"}
          /\ TookEffect(s)
          /\ UNCHANGED pull
       \/ NoEffect(s)

\* Mutant: the merge is sent without the sha of the preflight.
MergePullUnpinned(s) ==
    /\ Calling(s, {"merge"})
    /\ \/ /\ pull.state = "open" /\ pull.ready /\ pull.head \in Versions
          /\ pull' = [pull EXCEPT !.state = "merged"]
          /\ effects' = effects \cup {[by |-> s, head |-> pull.head]}
          /\ outcome' \in {[outcome EXCEPT ![s] = r] : r \in {"complete", "failed"}}
          /\ Goto(s, "record")
          /\ UNCHANGED mailbox
       \/ NoEffect(s)

\* PUT .../merge with the sha of the preflight: GitHub compares it with the
\* head, and knows for itself whether the pull request is open and ready.
MergePull(s) ==
    /\ Calling(s, {"merge"})
    /\ \/ /\ pull = [state |-> "open", ready |-> TRUE, head |-> snap[s]]
          /\ pull' = [pull EXCEPT !.state = "merged"]
          /\ TookEffect(s)
          /\ UNCHANGED mailbox
       \/ NoEffect(s)

\* Mutant: a failure leaves the mission's status as it is.
RecordOutcomeOfSuccess(s) ==
    /\ pc[s] = "record"
    /\ receipts' = receipts \cup {[by |-> s, outcome |-> outcome[s]]}
    /\ mission' = IF outcome[s] = "complete"
                  THEN [mission EXCEPT ![job[s]] = "complete"] ELSE mission
    /\ Answer(s, "ok")
    /\ UNCHANGED <<contract, approval, provider, job, runs, snap, outcome, since, changes>>

\* _success_path or _failure_path, and COMMIT.
RecordOutcome(s) ==
    /\ pc[s] = "record"
    /\ receipts' = receipts \cup {[by |-> s, outcome |-> outcome[s]]}
    /\ mission' = [mission EXCEPT ![job[s]] = outcome[s]]
    /\ Answer(s, "ok")
    /\ UNCHANGED <<contract, approval, provider, job, runs, snap, outcome, since, changes>>

\* An exception or the death of the process; get_db rolls back.
Abort(s) ==
    /\ pc[s] \notin {"idle", "done"}
    /\ Answer(s, "lost")
    /\ UNCHANGED <<stored, provider, job, runs, snap, outcome, since, changes>>

-----------------------------------------------------------------------------
(* Others at GitHub and Gmail.                                             *)

Others(A) ==
    /\ changes < MaxChanges
    /\ changes' = changes + 1
    /\ A
    /\ since' = [s \in Sessions |->
                   IF pc[s] \in {"idle", "done"} THEN since[s]
                   ELSE [clean |-> since[s].clean \cup CleanHeads',
                         ready |-> since[s].ready \cup ReadyHeads']]
    /\ UNCHANGED <<stored, effects, job, runs, pc, snap, outcome, reply>>

\* A push, a force-push, a conflict, "draft", "close", "reopen".
PullChanges ==
    /\ pull.state # "merged"
    /\ pull' \in {p \in PullStates : p.state # "merged"} \ {pull}
    /\ UNCHANGED <<checks, mailbox>>

CheckChanges ==
    /\ \E v \in Versions : \E c \in {"clean", "running", "bad"} \ {checks[v]} :
         checks' = [checks EXCEPT ![v] = c]
    /\ UNCHANGED <<pull, mailbox>>

MailChanges ==
    /\ \E x \in mailbox : mailbox' = mailbox \ {x}
    /\ UNCHANGED <<pull, checks>>

-----------------------------------------------------------------------------
Arrive(s) ==
    \E a \in Approvals :
        \/ SubmitIssue(s, a) \/ SubmitPull(s, a) \/ SubmitDraft(s, a)
        \/ SubmitReply(s, a) \/ SubmitSend(s, a) \/ SubmitMerge(s, a)
        \/ Approve(s, a)

Prepare(s) ==
    \/ ReadPull(s) \/ ReadChecks(s) \/ ReadMessage(s)
    \/ ExecuteIssue(s) \/ ExecutePull(s) \/ ExecuteDraft(s)
    \/ ExecuteReply(s) \/ ExecuteSend(s) \/ ExecuteMerge(s)

CallOut(s) ==
    \/ CreateIssue(s) \/ CreatePull(s) \/ CreateDraft(s)
    \/ CreateReplyDraft(s) \/ SendDraft(s) \/ MergePull(s)

Step(s) == Prepare(s) \/ CallOut(s) \/ RequestApproval(s) \/ RecordOutcome(s)

Next ==
    \/ \E s \in Sessions : Arrive(s) \/ Step(s) \/ Abort(s)
    \/ Others(PullChanges) \/ Others(CheckChanges) \/ Others(MailChanges)

Spec == Init /\ [][Next]_vars

-----------------------------------------------------------------------------
Labels == {"idle", "readMessage", "readPull", "readChecks", "request",
           "execute", "call", "record", "done"}

Contracts == {NoContract} \cup [kind : Kinds, heads : SUBSET Versions]

\* Every variable stays in its type, and a merge that has passed its preflight
\* has the head to give to GitHub.
TypeOK ==
    /\ contract \in [Approvals -> Contracts]
    /\ approval \in [Approvals -> {"absent", "pending", "approved"}]
    /\ mission \in [Approvals -> {"pending", "awaiting_approval", "active",
                                  "complete", "failed"}]
    /\ pull \in PullStates
    /\ checks \in [Versions -> {"clean", "running", "bad"}]
    /\ mailbox \subseteq {"draft", "message"}
    /\ effects \subseteq [by : Sessions, head : Versions \cup {NoVersion}]
    /\ receipts \subseteq [by : Sessions, outcome : {"complete", "failed"}]
    /\ job \in [Sessions -> Approvals \cup {NoJob}]
    /\ runs \subseteq Sessions
    /\ pc \in [Sessions -> Labels]
    /\ snap \in [Sessions -> Versions \cup {NoVersion}]
    /\ \A s \in Sessions : pc[s] = "readChecks" => snap[s] \in Versions
    /\ outcome \in [Sessions -> {"none", "complete", "failed"}]
    /\ reply \in [Sessions -> {"none", "ok", "refused", "lost"}]
    /\ since \in [Sessions -> [clean : SUBSET Versions, ready : SUBSET Versions]]
    /\ changes \in 0..MaxChanges

Vetted(s, v) == v \in since[s].clean /\ v \in since[s].ready

\* The commit that is merged is one that GitHub showed, after the approval, as
\* the head of an open and mergeable pull request and without a running or bad
\* check, however the branch moves between the three requests of a run.
MergedWasVetted ==
    \A x \in effects : KindOf(x.by) = "merge" => Vetted(x.by, x.head)

\* expected_head_sha: "merge only when PR head SHA matches (race guard)".
PinnedHeadOnly ==
    \A x \in effects : KindOf(x.by) = "merge" => x.head \in contract[job[x.by]].heads

\* No approval of a merge is opened on a preflight that failed: its session
\* saw the head of its snapshot clean and ready.
ApprovalWasVetted ==
    \A a \in Approvals : approval[a] # "absent" /\ contract[a].kind = "merge" =>
        \E s \in Sessions : job[s] = a /\ Vetted(s, snap[s])

\* A mission that says complete has the effect it was approved for, whichever
\* of the sessions of a double decision wrote it.
CompleteIsDone ==
    \A a \in Approvals : mission[a] = "complete" =>
        \E x \in effects : job[x.by] = a

\* A mission stays active only while a session works for it or after one was
\* lost; a run that was answered left its receipt.
ActiveHasRun ==
    /\ \A a \in Approvals : mission[a] = "active" =>
         \E s \in runs : job[s] = a /\ (pc[s] # "done" \/ reply[s] = "lost")
    /\ \A s \in Sessions : outcome[s] # "none" /\ reply[s] = "ok" =>
         [by |-> s, outcome |-> outcome[s]] \in receipts

\* Reading, calling and recording are, for the approvals, one call that may
\* be reported as failed although it took effect, and never the reverse.
Governed == INSTANCE IntegrationCall WITH
    phase <- [s \in Sessions |->
                IF s \notin runs THEN "idle"
                ELSE IF pc[s] \in {"record", "done"} THEN pc[s] ELSE "call"],
    effect <- {x.by : x \in effects},
    reported <- outcome
CallSpec == Governed!CallSpec
=============================================================================

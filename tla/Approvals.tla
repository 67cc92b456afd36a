----------------------------- MODULE Approvals -----------------------------
(***************************************************************************)
(* The approval domain of the control plane: every HTTP request is a       *)
(* database session of its own, cut into one action per await at which     *)
(* another session can run (SELECT, flush, COMMIT, call after COMMIT).     *)
(* Postgres runs READ COMMITTED: a SELECT returns committed rows and takes *)
(* no lock, a flushed UPDATE locks its row until the session ends.         *)
(* The session keeps the first version it read of a row (identity map,     *)
(* expire_on_commit=False), so what it read may be stale when it is used.  *)
(*                                                                         *)
(* One request does one of three things: open an approval, decide one, or  *)
(* set a mission's status (what the coordinator and the executors post).   *)
(***************************************************************************)
EXTENDS Naturals, FiniteSets

CONSTANTS
    Missions,      \* mission rows
    Approvals,     \* ids an approval can be created with
    Requests,      \* HTTP requests, each with a session of its own
    MissionOf,     \* the mission an approval is requested for
    Governed       \* approvals whose action_type is one of the six
                   \* github_* / gmail_* actions; the others resume execution

ASSUME ApprovalsAssumption ==
    /\ MissionOf \in [Approvals -> Missions]
    /\ Governed \subseteq Approvals

MissionStatus ==
    {"pending", "awaiting_approval", "active", "blocked", "complete", "failed"}

\* What the workers post to /missions/{id}/status.
PostedStatus == {"active", "complete", "failed"}

Decisions == {"approved", "denied"}

Jobs ==
    [kind : {"none"}]
        \cup [kind : {"request"}, approval : Approvals]
        \cup [kind : {"resolve"}, approval : Approvals, decision : Decisions]
        \cup [kind : {"status"}, mission : Missions, status : PostedStatus]

VARIABLES
    approval,   \* committed approvals: status and the request that decided it
    mission,    \* committed mission statuses
    timeline,   \* committed approval_resolved events
    published,  \* resume messages added to jarvis.execution
    effects,    \* calls that took effect at GitHub or Gmail
    receipts,   \* committed integration receipts
    job,        \* what a request was sent to do
    pc,         \* the statement its session is at
    seen,       \* the mission status its session holds in memory
    outcome,    \* what the integration call returned to it
    reply       \* what the client was answered

dbVars == <<approval, mission, timeline, receipts>>
vars == <<approval, mission, timeline, published, effects, receipts,
          job, pc, seen, outcome, reply>>

Undecided == "nobody"
Rows == [status : {"absent", "pending"} \cup Decisions,
         by : Requests \cup {Undecided}]
Resolved == [approval : Approvals, by : Requests, decision : Decisions]
Act == [approval : Approvals, by : Requests]
Receipt == [approval : Approvals, by : Requests, outcome : {"complete", "failed"}]

Init ==
    /\ approval = [a \in Approvals |-> [status |-> "absent", by |-> Undecided]]
    /\ mission = [m \in Missions |-> "pending"]
    /\ timeline = {} /\ published = {} /\ effects = {} /\ receipts = {}
    /\ job = [r \in Requests |-> [kind |-> "none"]]
    /\ pc = [r \in Requests |-> "idle"]
    /\ seen = [r \in Requests |-> "pending"]
    /\ outcome = [r \in Requests |-> "none"]
    /\ reply = [r \in Requests |-> "none"]

-----------------------------------------------------------------------------
(* Row locks.  A session holds a lock from the flush of its UPDATE until   *)
(* it commits or rolls back.                                               *)

MissionFor(r) ==
    IF job[r].kind = "status" THEN job[r].mission ELSE MissionOf[job[r].approval]

\* Mutants of Target: the decision itself as the mission's status; a denial
\* that leaves the mission as it is.
TargetIsDecision(r) ==
    IF pc[r] \in {"record", "commitOutcome"} THEN outcome[r]
    ELSE IF job[r].kind = "request" THEN "awaiting_approval"
    ELSE IF job[r].kind = "status" THEN job[r].status
    ELSE job[r].decision

TargetOnlyWhenApproved(r) ==
    IF pc[r] \in {"record", "commitOutcome"} THEN outcome[r]
    ELSE IF job[r].kind = "request" THEN "awaiting_approval"
    ELSE IF job[r].kind = "status" THEN job[r].status
    ELSE IF job[r].decision = "approved" THEN "active" ELSE seen[r]

\* The status the session's unit of work moves the mission to.
Target(r) ==
    CASE pc[r] \in {"record", "commitOutcome"} -> outcome[r]
      [] job[r].kind = "request" -> "awaiting_approval"
      [] job[r].kind = "status" -> job[r].status
      [] OTHER -> IF job[r].decision = "approved" THEN "active" ELSE "blocked"

\* update_status returns early when the row in memory has the status already.
Dirty(r) == seen[r] # Target(r)

HoldsApproval(r, a) ==
    /\ job[r].kind = "resolve" /\ job[r].approval = a
    /\ pc[r] \in {"readMission", "writeMission", "commit"}

\* Mutant: a session that failed keeps its lock (no rollback).
HoldsMissionAfterAbort(r, m) ==
    /\ pc[r] \in {"commit", "commitOutcome", "done"}
    /\ MissionFor(r) = m
    /\ Dirty(r)

HoldsMission(r, m) ==
    /\ pc[r] \in {"commit", "commitOutcome"}
    /\ MissionFor(r) = m
    /\ Dirty(r)

MissionUnlocked(m) == \A r \in Requests : ~HoldsMission(r, m)

Goto(r, label) == pc' = [pc EXCEPT ![r] = label]

Answer(r, what) ==
    /\ Goto(r, "done")
    /\ reply' = [reply EXCEPT ![r] = what]

AfterMissionRead(r, status, target) ==
    Goto(r, IF status = target THEN "commit" ELSE "writeMission")

-----------------------------------------------------------------------------
(* Requests arrive.                                                        *)

\* Mutant: the id of an approval that exists is used again.
RequestApprovalAgain(r, a) ==
    /\ pc[r] = "idle"
    /\ job' = [job EXCEPT ![r] = [kind |-> "request", approval |-> a]]
    /\ seen' = [seen EXCEPT ![r] = mission[MissionOf[a]]]
    /\ AfterMissionRead(r, mission[MissionOf[a]], "awaiting_approval")
    /\ UNCHANGED <<dbVars, published, effects, outcome, reply>>

\* request_approval: the mission is read first, so update_status compares
\* with that version however long the INSERTs in between take.
RequestApproval(r, a) ==
    /\ pc[r] = "idle"
    /\ approval[a].status = "absent"
    /\ \A q \in Requests : job[q].kind = "request" => job[q].approval # a
    /\ job' = [job EXCEPT ![r] = [kind |-> "request", approval |-> a]]
    /\ seen' = [seen EXCEPT ![r] = mission[MissionOf[a]]]
    /\ AfterMissionRead(r, mission[MissionOf[a]], "awaiting_approval")
    /\ UNCHANGED <<dbVars, published, effects, outcome, reply>>

\* resolve_approval up to its status check: the row is read, not locked.
ReadApproval(r, a, d) ==
    /\ pc[r] = "idle"
    /\ job' = [job EXCEPT ![r] =
                [kind |-> "resolve", approval |-> a, decision |-> d]]
    /\ \/ /\ approval[a].status = "pending"
          /\ Goto(r, "decide")
          /\ UNCHANGED reply
       \/ /\ approval[a].status # "pending"
          /\ Answer(r, "refused")
    /\ UNCHANGED <<dbVars, published, effects, seen, outcome>>

PostStatus(r, m, s) ==
    /\ pc[r] = "idle"
    /\ job' = [job EXCEPT ![r] = [kind |-> "status", mission |-> m, status |-> s]]
    /\ seen' = [seen EXCEPT ![r] = mission[m]]
    /\ AfterMissionRead(r, mission[m], s)
    /\ UNCHANGED <<dbVars, published, effects, outcome, reply>>

-----------------------------------------------------------------------------
(* The transaction.                                                        *)

TheAct(r) == [approval |-> job[r].approval, by |-> r]

\* Mutant: the integration is called before COMMIT.
UpdateDecisionActsFirst(r) ==
    /\ pc[r] = "decide"
    /\ \A q \in Requests : ~HoldsApproval(q, job[r].approval)
    /\ Goto(r, "readMission")
    /\ effects' = effects \cup {TheAct(r)}
    /\ UNCHANGED <<dbVars, published, job, seen, outcome, reply>>

\* update_decision: UPDATE ... WHERE id = :id, with no condition on status.
UpdateDecision(r) ==
    /\ pc[r] = "decide"
    /\ \A q \in Requests : ~HoldsApproval(q, job[r].approval)
    /\ Goto(r, "readMission")
    /\ UNCHANGED <<dbVars, published, effects, job, seen, outcome, reply>>

ReadMission(r) ==
    /\ pc[r] = "readMission"
    /\ LET status == mission[MissionFor(r)]
       IN  /\ seen' = [seen EXCEPT ![r] = status]
           /\ AfterMissionRead(r, status, Target(r))
    /\ UNCHANGED <<dbVars, published, effects, job, outcome, reply>>

WriteMission(r) ==
    /\ pc[r] = "writeMission"
    /\ MissionUnlocked(MissionFor(r))
    /\ Goto(r, "commit")
    /\ UNCHANGED <<dbVars, published, effects, job, seen, outcome, reply>>

CommitMission(r) ==
    mission' = IF Dirty(r) THEN [mission EXCEPT ![MissionFor(r)] = Target(r)]
                           ELSE mission

CommitRequest(r) ==
    /\ pc[r] = "commit" /\ job[r].kind = "request"
    /\ approval' = [approval EXCEPT ![job[r].approval] =
                      [status |-> "pending", by |-> Undecided]]
    /\ CommitMission(r)
    /\ Answer(r, "ok")
    /\ UNCHANGED <<timeline, published, effects, receipts, job, seen, outcome>>

CommitStatus(r) ==
    /\ pc[r] = "commit" /\ job[r].kind = "status"
    /\ CommitMission(r)
    /\ Answer(r, "ok")
    /\ UNCHANGED <<approval, timeline, published, effects, receipts,
                   job, seen, outcome>>

TheEvent(r) ==
    [approval |-> job[r].approval, by |-> r, decision |-> job[r].decision]

\* Mutant: the event is left out when update_status has nothing to change.
RecordResolvedIfDirty(r) ==
    timeline' = IF Dirty(r) THEN timeline \cup {TheEvent(r)} ELSE timeline

RecordResolved(r) == timeline' = timeline \cup {TheEvent(r)}

CommitDecision(r) ==
    LET a == job[r].approval
        d == job[r].decision
    IN  /\ pc[r] = "commit" /\ job[r].kind = "resolve"
        /\ approval' = [approval EXCEPT ![a] = [status |-> d, by |-> r]]
        /\ RecordResolved(r)
        /\ CommitMission(r)
        /\ seen' = [seen EXCEPT ![r] = Target(r)]
        /\ \/ d = "denied" /\ Answer(r, "ok")
           \/ /\ d = "approved"
              /\ Goto(r, IF a \in Governed THEN "call" ELSE "publish")
              /\ UNCHANGED reply
        /\ UNCHANGED <<published, effects, receipts, job, outcome>>

-----------------------------------------------------------------------------
(* After COMMIT of an approval.                                            *)

\* _publish_execution_resume swallows every exception: the client is
\* answered the same whether or not the stream took the message.
PublishResume(r) ==
    /\ pc[r] = "publish"
    /\ published' \in {published, published \cup {TheAct(r)}}
    /\ Answer(r, "ok")
    /\ UNCHANGED <<dbVars, effects, job, seen, outcome>>

\* Mutant: a call that timed out is taken for done.
CallIntegrationOptimistic(r) ==
    /\ pc[r] = "call"
    /\ effects' \in {effects, effects \cup {TheAct(r)}}
    /\ outcome' \in {[outcome EXCEPT ![r] = s] : s \in {"complete", "failed"}}
    /\ Goto(r, "record")
    /\ UNCHANGED <<dbVars, published, job, seen, reply>>

\* The call at GitHub or Gmail: done, done but reported as failed (time-out,
\* unreadable response), or not done (no token, bad contract, HTTP error).
CallIntegration(r) ==
    /\ pc[r] = "call"
    /\ \/ /\ effects' = effects \cup {TheAct(r)}
          /\ outcome' \in {[outcome EXCEPT ![r] = s] : s \in {"complete", "failed"}}
       \/ /\ outcome' = [outcome EXCEPT ![r] = "failed"]
          /\ UNCHANGED effects
    /\ Goto(r, "record")
    /\ UNCHANGED <<dbVars, published, job, seen, reply>>

\* _success_path / _failure_path up to the flush of the mission's status;
\* the mission in memory is the one resolve_approval left there.
RecordOutcome(r) ==
    /\ pc[r] = "record"
    /\ MissionUnlocked(MissionFor(r))
    /\ Goto(r, "commitOutcome")
    /\ UNCHANGED <<dbVars, published, effects, job, seen, outcome, reply>>

CommitOutcome(r) ==
    /\ pc[r] = "commitOutcome"
    /\ receipts' = receipts \cup {[approval |-> job[r].approval, by |-> r,
                                   outcome |-> outcome[r]]}
    /\ CommitMission(r)
    /\ Answer(r, "ok")
    /\ UNCHANGED <<approval, timeline, published, effects, job, seen, outcome>>

\* An exception, a dropped connection or the death of the process: get_db
\* rolls back what is not committed, and nothing after it runs.
Abort(r) ==
    /\ pc[r] \notin {"idle", "done"}
    /\ Answer(r, "lost")
    /\ UNCHANGED <<dbVars, published, effects, job, seen, outcome>>

-----------------------------------------------------------------------------
Step(r) ==
    \/ UpdateDecision(r) \/ ReadMission(r) \/ WriteMission(r)
    \/ CommitRequest(r) \/ CommitStatus(r) \/ CommitDecision(r)
    \/ PublishResume(r)
    \/ CallIntegration(r) \/ RecordOutcome(r) \/ CommitOutcome(r)

Arrive(r) ==
    \/ \E a \in Approvals : RequestApproval(r, a)
    \/ \E a \in Approvals, d \in Decisions : ReadApproval(r, a, d)
    \/ \E m \in Missions, s \in PostedStatus : PostStatus(r, m, s)

Next == \E r \in Requests : Arrive(r) \/ Step(r) \/ Abort(r)

Spec == Init /\ [][Next]_vars

\* The event loop keeps running every session that can go on.
FairSpec == Spec /\ \A r \in Requests : WF_vars(Step(r))

-----------------------------------------------------------------------------
PCs == {"idle", "decide", "readMission", "writeMission", "commit", "publish",
        "call", "record", "commitOutcome", "done"}

\* Every variable stays in its type; a session past "idle" has a job.
TypeOK ==
    /\ approval \in [Approvals -> Rows]
    /\ mission \in [Missions -> MissionStatus]
    /\ timeline \subseteq Resolved
    /\ published \subseteq Act
    /\ effects \subseteq Act
    /\ receipts \subseteq Receipt
    /\ job \in [Requests -> Jobs]
    /\ pc \in [Requests -> PCs]
    /\ seen \in [Requests -> MissionStatus]
    /\ outcome \in [Requests -> {"none", "complete", "failed"}]
    /\ reply \in [Requests -> {"none", "ok", "refused", "lost"}]

\* Nothing reaches jarvis.execution as a resume, GitHub or Gmail unless the
\* very request that sent it had committed the approved decision: no order of
\* sessions, rollbacks and crashes lets work out on an uncommitted decision.
ActedOnlyWhenApproved ==
    \A x \in published \cup effects :
        [approval |-> x.approval, by |-> x.by, decision |-> "approved"] \in timeline

\* An approval row and its timeline never disagree: a decided row names a
\* request whose approval_resolved event has the same decision, and an
\* approval with no event is not decided (resolve_approval is one transaction).
RowMatchesTimeline ==
    \A a \in Approvals :
        IF approval[a].status \in Decisions
        THEN [approval |-> a, by |-> approval[a].by,
              decision |-> approval[a].status] \in timeline
        ELSE \A e \in timeline : e.approval # a

\* A mission that awaits approval has an approval somebody can still decide:
\* the "stuck in awaiting_approval" state the golden path warns of is reached
\* by no interleaving of requests, decisions, status posts and aborts.
AwaitingHasPending ==
    \A m \in Missions : mission[m] = "awaiting_approval" =>
        \E a \in Approvals : MissionOf[a] = m /\ approval[a].status = "pending"

\* A success receipt is the trace of a call that took effect, and a governed
\* approval that was answered "ok" left a receipt, of success or failure.
ReceiptsAreTrue ==
    /\ \A x \in receipts : x.outcome = "complete" =>
           [approval |-> x.approval, by |-> x.by] \in effects
    /\ \A r \in Requests :
         reply[r] = "ok" /\ job[r].kind = "resolve" =>
             \/ job[r].decision = "denied"
             \/ job[r].approval \notin Governed
             \/ \E x \in receipts : x.by = r /\ x.approval = job[r].approval

\* docs/FAILURE_MODES.md says a second decision is refused with 400 and adds
\* no mission event: an approval would have one approval_resolved event.
ResolvedOnce ==
    \A e, f \in timeline : e.approval = f.approval => e = f

\* A decision, once committed, is never withdrawn: the approval does not go
\* back to pending, so a decided approval cannot be opened for decision again.
NeverReopened ==
    [][\A a \in Approvals : approval[a].status \in Decisions
                              => approval'[a].status \in Decisions]_vars

\* Sessions wait for each other's row locks, take them in one order (approval,
\* then mission) and give them back on every exit: each request is answered.
EveryRequestAnswered ==
    \A r \in Requests : pc[r] # "idle" ~> pc[r] = "done"

\* The approvals' sessions, seen from outside, are a governance gate.
Gate == INSTANCE GovernanceGate WITH
            Grants <- Act,
            granted <- {[approval |-> e.approval, by |-> e.by] :
                          e \in {x \in timeline : x.decision = "approved"}},
            acted <- published \cup effects
GateSpec == Gate!GateSpec
=============================================================================

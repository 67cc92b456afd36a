-------------------------- MODULE ApprovalsProofs --------------------------
(***************************************************************************)
(* Proofs about Approvals, for any sets of missions, approvals and         *)
(* requests: type correctness, the governance gate, decisions that agree   *)
(* with their rows and stay, the pending approval behind every mission     *)
(* that awaits one, and receipts that are true.                            *)
(***************************************************************************)
EXTENDS Approvals, TLAPS

\* What a job's fields are, by its kind.
LEMMA JobFields ==
    ASSUME NEW j \in Jobs
    PROVE  /\ j.kind \in {"none", "request", "resolve", "status"}
           /\ j.kind = "request" => j.approval \in Approvals
           /\ j.kind = "resolve" => j.approval \in Approvals /\ j.decision \in Decisions
           /\ j.kind = "status" => j.mission \in Missions /\ j.status \in PostedStatus
  BY DEF Jobs

\* A session past "idle" has the job that its statement belongs to, and the
\* result of the integration call once it records it.
SessionInv ==
    \A r \in Requests :
        /\ pc[r] = "idle" => job[r].kind = "none"
        /\ pc[r] \in {"decide", "readMission"} => job[r].kind = "resolve"
        /\ pc[r] \in {"writeMission", "commit"} =>
             job[r].kind \in {"request", "resolve", "status"}
        /\ pc[r] = "writeMission" => Dirty(r)
        /\ pc[r] \in {"publish", "call", "record", "commitOutcome"} =>
             job[r].kind = "resolve" /\ job[r].decision = "approved"
        /\ pc[r] \in {"record", "commitOutcome"} => outcome[r] \in {"complete", "failed"}

TypeInv == TypeOK /\ SessionInv

-----------------------------------------------------------------------------
LEMMA TargetType ==
    ASSUME TypeInv, NEW r \in Requests,
           pc[r] \in {"readMission", "writeMission", "commit", "record", "commitOutcome"}
    PROVE  /\ Target(r) \in MissionStatus
           /\ MissionFor(r) \in Missions
  <1>. USE DEF TypeInv, TypeOK, SessionInv, Target, MissionFor, MissionStatus,
               PostedStatus, Decisions
  <1>1. job[r] \in Jobs  OBVIOUS
  <1>2. pc[r] \in {"record", "commitOutcome"} => outcome[r] \in {"complete", "failed"}
    OBVIOUS
  <1>3. job[r].kind \in {"request", "resolve", "status"}  OBVIOUS
  <1>. QED  BY <1>1, <1>2, <1>3, JobFields, ApprovalsAssumption

\* The type invariant and the session discipline are inductive.
LEMMA TypeStep == TypeInv /\ [Next]_vars => TypeInv'
  <1> SUFFICES ASSUME TypeInv, [Next]_vars PROVE TypeInv'
    OBVIOUS
  <1>. USE DEF TypeInv, TypeOK, SessionInv, dbVars
  <1>1. ASSUME NEW r \in Requests, NEW a \in Approvals, RequestApproval(r, a)
        PROVE  TypeInv'
    <2>1. [kind |-> "request", approval |-> a] \in Jobs  BY DEF Jobs
    <2>. QED  BY <1>1, <2>1, ApprovalsAssumption
           DEF RequestApproval, AfterMissionRead, Goto, Dirty, Target, PCs, MissionStatus
  <1>2. ASSUME NEW r \in Requests, NEW a \in Approvals, NEW d \in Decisions,
               ReadApproval(r, a, d)
        PROVE  TypeInv'
    <2>1. [kind |-> "resolve", approval |-> a, decision |-> d] \in Jobs  BY DEF Jobs
    <2>. QED  BY <1>2, <2>1 DEF ReadApproval, Answer, Goto, Dirty, Target, PCs
  <1>3. ASSUME NEW r \in Requests, NEW m \in Missions, NEW s \in PostedStatus,
               PostStatus(r, m, s)
        PROVE  TypeInv'
    <2>1. [kind |-> "status", mission |-> m, status |-> s] \in Jobs  BY DEF Jobs
    <2>. QED  BY <1>3, <2>1 DEF PostStatus, AfterMissionRead, Goto, Dirty, Target, PCs
  <1>4. ASSUME NEW r \in Requests, UpdateDecision(r) PROVE TypeInv'
    BY <1>4 DEF UpdateDecision, Goto, Dirty, Target, PCs
  <1>5. ASSUME NEW r \in Requests, ReadMission(r) PROVE TypeInv'
    BY <1>5, TargetType DEF ReadMission, AfterMissionRead, Goto, Dirty, Target, PCs
  <1>6. ASSUME NEW r \in Requests, WriteMission(r) PROVE TypeInv'
    BY <1>6 DEF WriteMission, Goto, Dirty, Target, PCs
  <1>7. ASSUME NEW r \in Requests, CommitRequest(r) PROVE TypeInv'
    <2>1. /\ job[r].approval \in Approvals
          /\ Target(r) \in MissionStatus
      BY <1>7, TargetType, JobFields DEF CommitRequest
    <2>2. mission' \in [Missions -> MissionStatus]
      BY <1>7, <2>1 DEF CommitRequest, CommitMission
    <2>3. approval' \in [Approvals -> Rows]
      BY <1>7, <2>1 DEF CommitRequest, Rows
    <2>4. TypeOK'
      BY <1>7, <2>2, <2>3 DEF CommitRequest, Answer, Goto, PCs
    <2>5. SessionInv'
      BY <1>7 DEF CommitRequest, Answer, Goto, Dirty, Target
    <2>. QED  BY <2>4, <2>5
  <1>8. ASSUME NEW r \in Requests, CommitStatus(r) PROVE TypeInv'
    BY <1>8, TargetType DEF CommitStatus, CommitMission, Answer, Goto, Dirty, Target, PCs
  <1>9. ASSUME NEW r \in Requests, CommitDecision(r) PROVE TypeInv'
    <2>1. /\ job[r].approval \in Approvals /\ job[r].decision \in Decisions
          /\ Target(r) \in MissionStatus
      BY <1>9, TargetType, JobFields DEF CommitDecision, RecordResolved, TheEvent
    <2>2. mission' \in [Missions -> MissionStatus]
      BY <1>9, TargetType DEF CommitDecision, RecordResolved, TheEvent, CommitMission
    <2>3. /\ approval' \in [Approvals -> Rows]
          /\ timeline' \subseteq Resolved
      BY <1>9, <2>1 DEF CommitDecision, RecordResolved, TheEvent, Rows, Resolved
    <2>4. /\ seen' \in [Requests -> MissionStatus]
          /\ pc' \in [Requests -> PCs]
          /\ reply' \in [Requests -> {"none", "ok", "refused", "lost"}]
      BY <1>9, <2>1 DEF CommitDecision, RecordResolved, TheEvent, Answer, Goto, PCs
    <2>5. TypeOK'
      BY <1>9, <2>2, <2>3, <2>4 DEF CommitDecision, RecordResolved, TheEvent
    <2>6. SessionInv'
      BY <1>9, <2>1 DEF CommitDecision, RecordResolved, TheEvent, Answer, Goto, Dirty, Target
    <2>. QED  BY <2>5, <2>6
  <1>10. ASSUME NEW r \in Requests, PublishResume(r) PROVE TypeInv'
    BY <1>10, JobFields DEF PublishResume, TheAct, Act, Answer, Goto, Dirty, Target, PCs
  <1>11. ASSUME NEW r \in Requests, CallIntegration(r) PROVE TypeInv'
    BY <1>11, JobFields DEF CallIntegration, TheAct, Act, Goto, Dirty, Target, PCs
  <1>12. ASSUME NEW r \in Requests, RecordOutcome(r) PROVE TypeInv'
    BY <1>12 DEF RecordOutcome, Goto, Dirty, Target, PCs
  <1>13. ASSUME NEW r \in Requests, CommitOutcome(r) PROVE TypeInv'
    <2>1. /\ job[r].approval \in Approvals
          /\ Target(r) \in MissionStatus
      BY <1>13, TargetType, JobFields DEF CommitOutcome
    <2>2. mission' \in [Missions -> MissionStatus]
      BY <1>13, <2>1 DEF CommitOutcome, CommitMission
    <2>3. receipts' \subseteq Receipt
      BY <1>13, <2>1 DEF CommitOutcome, Receipt
    <2>4. TypeOK'
      BY <1>13, <2>2, <2>3 DEF CommitOutcome, Answer, Goto, PCs
    <2>5. SessionInv'
      BY <1>13 DEF CommitOutcome, Answer, Goto, Dirty, Target
    <2>. QED  BY <2>4, <2>5
  <1>14. ASSUME NEW r \in Requests, Abort(r) PROVE TypeInv'
    BY <1>14 DEF Abort, Answer, Goto, Dirty, Target, PCs
  <1>15. CASE UNCHANGED vars
    BY <1>15 DEF vars, Dirty, Target
  <1>. QED
    BY <1>1, <1>2, <1>3, <1>4, <1>5, <1>6, <1>7, <1>8, <1>9, <1>10, <1>11,
       <1>12, <1>13, <1>14, <1>15 DEF Next, Arrive, Step

LEMMA TypeInit == Init => TypeInv
  BY DEF Init, TypeInv, TypeOK, SessionInv, Rows, Jobs, MissionStatus, PCs

\* Every variable stays in its type, in every behaviour of the sessions.
THEOREM TypeCorrect == Spec => []TypeOK
  <1>1. TypeInv => TypeOK  BY DEF TypeInv
  <1>. QED  BY TypeInit, TypeStep, <1>1, PTL DEF Spec

-----------------------------------------------------------------------------
(* The governance gate.                                                    *)

\* What a session has put in the timeline and sent out, by where it is: a
\* decision is in the timeline only once its session is past COMMIT, and a
\* session that may still publish or call has done neither.
GateInv ==
    /\ \A e \in timeline :
         /\ pc[e.by] \in {"publish", "call", "record", "commitOutcome", "done"}
         /\ job[e.by] = [kind |-> "resolve", approval |-> e.approval,
                         decision |-> e.decision]
    /\ \A r \in Requests : pc[r] \in {"publish", "call", "record", "commitOutcome"} =>
         [approval |-> job[r].approval, by |-> r, decision |-> "approved"] \in timeline
    /\ \A x \in published \cup effects : pc[x.by] \in {"record", "commitOutcome", "done"}
    /\ ActedOnlyWhenApproved

LEMMA GateStep == TypeInv /\ GateInv /\ [Next]_vars => GateInv'
  <1> SUFFICES ASSUME TypeInv, GateInv, [Next]_vars PROVE GateInv'
    OBVIOUS
  <1>. USE DEF GateInv, ActedOnlyWhenApproved
  <1>1. /\ pc \in [Requests -> PCs] /\ job \in [Requests -> Jobs]
        /\ timeline \subseteq Resolved /\ published \subseteq Act /\ effects \subseteq Act
        /\ SessionInv
    BY DEF TypeInv, TypeOK
  <1>2. /\ \A e \in timeline : e.by \in Requests
        /\ \A x \in published \cup effects : x.by \in Requests
    BY <1>1 DEF Resolved, Act
  <1>3. ASSUME NEW r \in Requests, Arrive(r) PROVE GateInv'
    BY <1>1, <1>2, <1>3
       DEF Arrive, RequestApproval, ReadApproval, PostStatus, AfterMissionRead,
           Answer, Goto, dbVars
  <1>4. ASSUME NEW r \in Requests,
               \/ UpdateDecision(r) \/ ReadMission(r) \/ WriteMission(r)
               \/ CommitRequest(r) \/ CommitStatus(r)
        PROVE  GateInv'
    BY <1>1, <1>2, <1>4
       DEF UpdateDecision, ReadMission, WriteMission, CommitRequest, CommitStatus,
           AfterMissionRead, Answer, Goto, dbVars
  <1>5. ASSUME NEW r \in Requests, CommitDecision(r) PROVE GateInv'
    <2> DEFINE e == [approval |-> job[r].approval, by |-> r, decision |-> job[r].decision]
    <2>1. /\ timeline' = timeline \cup {e}
          /\ e.by = r /\ e.approval = job[r].approval /\ e.decision = job[r].decision
          /\ UNCHANGED <<published, effects, job>>
          /\ pc[r] = "commit" /\ job[r].kind = "resolve"
      BY <1>5 DEF CommitDecision, RecordResolved, TheEvent
    <2>2. job[r].decision \in Decisions /\ job[r] \in Jobs
      BY <1>1, <2>1, JobFields
    <2>3. job[r] = [kind |-> "resolve", approval |-> e.approval, decision |-> e.decision]
      BY <2>1, <2>2 DEF Jobs
    <2>4. /\ \A q \in Requests : q # r => pc'[q] = pc[q]
          /\ job[r].decision = "denied" => pc'[r] = "done"
          /\ job[r].decision = "approved" => pc'[r] \in {"call", "publish"}
      BY <1>5, <1>1 DEF CommitDecision, RecordResolved, TheEvent, Answer, Goto
    <2>5. /\ \A x \in timeline : x.by # r
          /\ \A x \in published \cup effects : x.by # r
      BY <2>1
    <2>6. \A x \in timeline' :
            /\ pc'[x.by] \in {"publish", "call", "record", "commitOutcome", "done"}
            /\ job'[x.by] = [kind |-> "resolve", approval |-> x.approval,
                             decision |-> x.decision]
      BY <1>2, <2>1, <2>2, <2>3, <2>4, <2>5 DEF Decisions
    <2>7. \A q \in Requests :
            pc'[q] \in {"publish", "call", "record", "commitOutcome"} =>
              [approval |-> job'[q].approval, by |-> q, decision |-> "approved"] \in timeline'
      BY <2>1, <2>2, <2>4 DEF Decisions
    <2>8. /\ \A x \in published' \cup effects' :
               pc'[x.by] \in {"record", "commitOutcome", "done"}
          /\ ActedOnlyWhenApproved'
      BY <1>2, <2>1, <2>4, <2>5
    <2>. QED  BY <2>6, <2>7, <2>8
  <1>6. ASSUME NEW r \in Requests, PublishResume(r) \/ CallIntegration(r) PROVE GateInv'
    <2> DEFINE x == [approval |-> job[r].approval, by |-> r]
    <2>1. /\ (published \cup effects)' \subseteq (published \cup effects) \cup {x}
          /\ UNCHANGED <<timeline, job>>
          /\ pc[r] \in {"publish", "call"}
          /\ pc'[r] \in {"record", "done"}
          /\ \A q \in Requests : q # r => pc'[q] = pc[q]
      BY <1>1, <1>6 DEF PublishResume, CallIntegration, TheAct, Answer, Goto, dbVars
    <2>2. x.by = r /\ x.approval = job[r].approval
      OBVIOUS
    <2>3. [approval |-> job[r].approval, by |-> r, decision |-> "approved"] \in timeline
      BY <2>1
    <2>4. ASSUME NEW y \in published' \cup effects'
          PROVE  [approval |-> y.approval, by |-> y.by, decision |-> "approved"] \in timeline'
      <3>1. CASE y = x  BY <2>1, <2>2, <2>3, <3>1
      <3>2. CASE y \in published \cup effects  BY <2>1, <3>2
      <3>. QED  BY <2>1, <3>1, <3>2
    <2>. QED  BY <1>1, <1>2, <2>1, <2>2, <2>4
  <1>7. ASSUME NEW r \in Requests, RecordOutcome(r) \/ CommitOutcome(r) \/ Abort(r)
        PROVE  GateInv'
    BY <1>1, <1>2, <1>7 DEF RecordOutcome, CommitOutcome, Abort, Answer, Goto, dbVars
  <1>8. CASE UNCHANGED vars
    BY <1>8 DEF vars
  <1>. QED
    BY <1>3, <1>4, <1>5, <1>6, <1>7, <1>8 DEF Next, Step

LEMMA GateInvInit == Init => GateInv
  BY DEF Init, GateInv, ActedOnlyWhenApproved

\* No message reaches jarvis.execution as a resume, and no call takes effect at
\* an integration, unless its request had committed the approved decision.
THEOREM GateHolds == Spec => []ActedOnlyWhenApproved
  <1>1. GateInv => ActedOnlyWhenApproved  BY DEF GateInv
  <1>. QED
    BY TypeInit, TypeStep, GateInvInit, GateStep, <1>1, PTL DEF Spec

-----------------------------------------------------------------------------
(* Rows and timeline.                                                      *)

\* An id is opened by one request, and decided only after that request
\* committed, so no commit of an opening can undo a decision.
RowInv ==
    /\ \A r \in Requests :
         /\ job[r].kind = "request" /\ pc[r] \in {"writeMission", "commit"} =>
              approval[job[r].approval].status = "absent"
         /\ job[r].kind = "resolve"
              /\ pc[r] \in {"decide", "readMission", "writeMission", "commit"} =>
              approval[job[r].approval].status # "absent"
    /\ \A q, r \in Requests :
         job[q].kind = "request" /\ job[r].kind = "request"
           /\ job[q].approval = job[r].approval => q = r
    /\ \A e \in timeline : approval[e.approval].status \in Decisions
    /\ \A a \in Approvals : approval[a].status \in Decisions =>
         [approval |-> a, by |-> approval[a].by, decision |-> approval[a].status]
           \in timeline

LEMMA RowStep == TypeInv /\ RowInv /\ [Next]_vars => RowInv'
  <1> SUFFICES ASSUME TypeInv, RowInv, [Next]_vars PROVE RowInv'
    OBVIOUS
  <1>. USE DEF RowInv
  <1>1. /\ pc \in [Requests -> PCs] /\ job \in [Requests -> Jobs]
        /\ approval \in [Approvals -> Rows] /\ timeline \subseteq Resolved
        /\ SessionInv
    BY DEF TypeInv, TypeOK
  <1>2. \A e \in timeline : e.approval \in Approvals
    BY <1>1 DEF Resolved
  <1>3. \A r \in Requests : job[r].kind \in {"request", "resolve"} => job[r].approval \in Approvals
    BY <1>1, JobFields
  <1>4. ASSUME NEW r \in Requests, NEW a \in Approvals, RequestApproval(r, a)
        PROVE  RowInv'
    BY <1>1, <1>4 DEF RequestApproval, AfterMissionRead, Goto, dbVars
  <1>5. ASSUME NEW r \in Requests, NEW a \in Approvals, NEW d \in Decisions,
               ReadApproval(r, a, d)
        PROVE  RowInv'
    BY <1>1, <1>5 DEF ReadApproval, Answer, Goto, dbVars
  <1>6. ASSUME NEW r \in Requests, NEW m \in Missions, NEW s \in PostedStatus,
               PostStatus(r, m, s)
        PROVE  RowInv'
    BY <1>1, <1>6 DEF PostStatus, AfterMissionRead, Goto, dbVars
  <1>7. ASSUME NEW r \in Requests, CommitRequest(r) PROVE RowInv'
    <2> DEFINE a == job[r].approval
    <2>1. /\ a \in Approvals /\ approval[a].status = "absent"
          /\ approval' = [approval EXCEPT ![a] = [status |-> "pending", by |-> Undecided]]
          /\ \A q \in Requests : q # r => pc'[q] = pc[q]
          /\ pc'[r] = "done"
          /\ UNCHANGED <<timeline, job>>
      BY <1>1, <1>3, <1>7 DEF CommitRequest, Answer, Goto
    <2>2. \A e \in timeline : e.approval # a
      BY <2>1 DEF Decisions
    <2>3. /\ approval'[a].status = "pending"
          /\ \A b \in Approvals : b # a => approval'[b] = approval[b]
      BY <1>1, <2>1
    <2>4. \A q \in Requests : q # r /\ job[q].kind = "request" => job[q].approval # a
      BY <1>7 DEF CommitRequest
    <2>. QED  BY <1>2, <1>3, <2>1, <2>2, <2>3, <2>4 DEF Decisions
  <1>8. ASSUME NEW r \in Requests, CommitDecision(r) PROVE RowInv'
    <2> DEFINE a == job[r].approval
               d == job[r].decision
    <2>1. /\ a \in Approvals /\ d \in Decisions
          /\ approval' = [approval EXCEPT ![a] = [status |-> d, by |-> r]]
          /\ timeline' = timeline \cup {[approval |-> a, by |-> r, decision |-> d]}
          /\ UNCHANGED job
      BY <1>1, <1>8, JobFields DEF CommitDecision, RecordResolved, TheEvent
    <2>2. /\ approval'[a].status = d /\ approval'[a].by = r
          /\ \A b \in Approvals : b # a => approval'[b] = approval[b]
      BY <1>1, <2>1
    <2>3. /\ \A q \in Requests : q # r => pc'[q] = pc[q]
          /\ pc'[r] \in {"call", "publish", "done"}
      BY <1>1, <1>8 DEF CommitDecision, RecordResolved, TheEvent, Answer, Goto
    <2>4. approval[a].status # "absent"
      BY <1>8 DEF CommitDecision, RecordResolved, TheEvent
    <2>. QED  BY <1>2, <1>3, <2>1, <2>2, <2>3, <2>4 DEF Decisions
  <1>9. ASSUME NEW r \in Requests,
               \/ UpdateDecision(r) \/ ReadMission(r) \/ WriteMission(r)
               \/ CommitStatus(r) \/ PublishResume(r) \/ CallIntegration(r)
               \/ RecordOutcome(r) \/ CommitOutcome(r) \/ Abort(r)
        PROVE  RowInv'
    <2>1. CASE UpdateDecision(r) \/ WriteMission(r)
      BY <1>1, <2>1 DEF UpdateDecision, WriteMission, Goto, dbVars
    <2>2. CASE ReadMission(r)
      <3>1. /\ UNCHANGED <<approval, timeline, job>>
            /\ pc[r] = "readMission" /\ job[r].kind = "resolve"
            /\ pc'[r] \in {"writeMission", "commit"}
            /\ \A q \in Requests : q # r => pc'[q] = pc[q]
        BY <1>1, <2>2 DEF ReadMission, AfterMissionRead, Goto, dbVars, SessionInv
      <3>. QED  BY <3>1
    <2>3. CASE CommitStatus(r) \/ PublishResume(r) \/ CommitOutcome(r) \/ Abort(r)
      BY <1>1, <2>3
         DEF CommitStatus, PublishResume, CommitOutcome, Abort, Answer, Goto, dbVars
    <2>4. CASE CallIntegration(r) \/ RecordOutcome(r)
      BY <1>1, <2>4 DEF CallIntegration, RecordOutcome, Goto, dbVars
    <2>. QED  BY <1>9, <2>1, <2>2, <2>3, <2>4
  <1>10. CASE UNCHANGED vars
    BY <1>10 DEF vars
  <1>. QED
    BY <1>4, <1>5, <1>6, <1>7, <1>8, <1>9, <1>10 DEF Next, Arrive, Step

LEMMA RowInit == Init => RowInv
  BY DEF Init, RowInv, Decisions

\* The row of an approval and its timeline agree in every reachable state.
THEOREM RowsMatch == Spec => []RowMatchesTimeline
  <1>1. RowInv => RowMatchesTimeline
    BY DEF RowInv, RowMatchesTimeline
  <1>. QED
    BY TypeInit, TypeStep, RowInit, RowStep, <1>1, PTL DEF Spec

-----------------------------------------------------------------------------
(* The pending approval behind a mission that awaits one.                  *)

\* A resolver about to commit that found the mission in its target status and
\* will not write it: if the mission has come to await approval since, this
\* commit takes a pending approval away and leaves the mission as it is.
Spent(a) ==
    \E r \in Requests :
        job[r].kind = "resolve" /\ job[r].approval = a /\ pc[r] = "commit" /\ ~Dirty(r)

\* The invariant is therefore about pending approvals that no such resolver
\* holds; one that was opened last always is.
AwaitInv ==
    \A m \in Missions : mission[m] = "awaiting_approval" =>
        \E a \in Approvals :
            MissionOf[a] = m /\ approval[a].status = "pending" /\ ~Spent(a)

LEMMA AwaitStep == TypeInv /\ RowInv /\ AwaitInv /\ [Next]_vars => AwaitInv'
  <1> SUFFICES ASSUME TypeInv, RowInv, AwaitInv, [Next]_vars,
                      NEW m \in Missions, mission'[m] = "awaiting_approval"
               PROVE  \E a \in Approvals :
                        /\ MissionOf[a] = m
                        /\ approval'[a].status = "pending"
                        /\ ~Spent(a)'
    BY DEF AwaitInv
  <1>1. /\ pc \in [Requests -> PCs] /\ job \in [Requests -> Jobs]
        /\ seen \in [Requests -> MissionStatus]
        /\ approval \in [Approvals -> Rows]
        /\ mission \in [Missions -> MissionStatus]
        /\ SessionInv
    BY DEF TypeInv, TypeOK
  <1>2. mission[m] = "awaiting_approval" =>
          \E a \in Approvals : MissionOf[a] = m /\ approval[a].status = "pending" /\ ~Spent(a)
    BY DEF AwaitInv
  \* A step that changes neither rows nor missions, and spends no resolver.
  <1>3. ASSUME UNCHANGED <<approval, mission>>,
               \A a \in Approvals : approval[a].status = "pending" /\ Spent(a)' =>
                  Spent(a) \/ mission[MissionOf[a]] # "awaiting_approval"
        PROVE  \E a \in Approvals :
                 MissionOf[a] = m /\ approval'[a].status = "pending" /\ ~Spent(a)'
    BY <1>2, <1>3
  <1>4. ASSUME NEW r \in Requests, NEW a \in Approvals, RequestApproval(r, a)
        PROVE  \A b \in Approvals : Spent(b)' => Spent(b)
    BY <1>1, <1>4 DEF RequestApproval, AfterMissionRead, Goto, Spent, Dirty, Target
  <1>5. ASSUME NEW r \in Requests, NEW a \in Approvals, NEW d \in Decisions,
               ReadApproval(r, a, d)
        PROVE  \A b \in Approvals : Spent(b)' => Spent(b)
    BY <1>1, <1>5 DEF ReadApproval, Answer, Goto, Spent, Dirty, Target
  <1>6. ASSUME NEW r \in Requests, NEW n \in Missions, NEW s \in PostedStatus,
               PostStatus(r, n, s)
        PROVE  \A b \in Approvals : Spent(b)' => Spent(b)
    BY <1>1, <1>6 DEF PostStatus, AfterMissionRead, Goto, Spent, Dirty, Target
  <1>7. ASSUME NEW r \in Requests,
               UpdateDecision(r) \/ WriteMission(r) \/ PublishResume(r)
                 \/ CallIntegration(r) \/ RecordOutcome(r) \/ Abort(r)
        PROVE  \A b \in Approvals : Spent(b)' => Spent(b)
    BY <1>1, <1>7
       DEF UpdateDecision, WriteMission, PublishResume, CallIntegration, RecordOutcome,
           Abort, Answer, Goto, Spent, Dirty, Target, SessionInv
  <1>8. ASSUME NEW r \in Requests, ReadMission(r)
        PROVE  \A b \in Approvals :
                 Spent(b)' => Spent(b) \/ mission[MissionOf[b]] # "awaiting_approval"
    <2> TAKE b \in Approvals
    <2> HAVE Spent(b)'
    <2>1. PICK q \in Requests : job'[q].kind = "resolve" /\ job'[q].approval = b
                                  /\ pc'[q] = "commit" /\ ~Dirty(q)'
      BY DEF Spent
    <2>2. CASE q = r
      <3>1. /\ job' = job /\ job[r].kind = "resolve" /\ MissionFor(r) = MissionOf[b]
            /\ seen'[r] = mission[MissionOf[b]]
        BY <1>1, <1>8, <2>1, <2>2 DEF ReadMission, MissionFor
      <3>2. Target(r)' \in {"active", "blocked"}
        BY <2>1, <2>2, <3>1 DEF Target
      <3>. QED  BY <2>1, <2>2, <3>1, <3>2 DEF Dirty
    <2>3. CASE q # r
      BY <1>1, <1>8, <2>1, <2>3
         DEF ReadMission, AfterMissionRead, Goto, Spent, Dirty, Target
    <2>. QED  BY <2>2, <2>3
  <1>9. ASSUME NEW r \in Requests, CommitStatus(r) \/ CommitOutcome(r)
        PROVE  \E a \in Approvals :
                 MissionOf[a] = m /\ approval'[a].status = "pending" /\ ~Spent(a)'
    <2>1. Target(r) # "awaiting_approval"
      <3>0. \/ pc[r] = "commit" /\ job[r].kind = "status"
            \/ pc[r] = "commitOutcome" /\ job[r].kind = "resolve"
        BY <1>1, <1>9 DEF CommitStatus, CommitOutcome, SessionInv
      <3>1. pc[r] = "commitOutcome" => outcome[r] \in {"complete", "failed"}
        BY <1>1 DEF SessionInv
      <3>2. job[r].kind = "status" => job[r].status \in PostedStatus
        BY <1>1, JobFields
      <3>. QED  BY <3>0, <3>1, <3>2 DEF Target, PostedStatus
    <2>2. mission[m] = "awaiting_approval"
      BY <1>1, <1>9, <2>1 DEF CommitStatus, CommitOutcome, CommitMission
    <2>3. \A b \in Approvals : Spent(b)' => Spent(b)
      BY <1>1, <1>9 DEF CommitStatus, CommitOutcome, Answer, Goto, Spent, Dirty, Target
    <2>. QED  BY <1>2, <1>9, <2>2, <2>3 DEF CommitStatus, CommitOutcome
  <1>10. ASSUME NEW r \in Requests, CommitRequest(r)
         PROVE  \E a \in Approvals :
                  MissionOf[a] = m /\ approval'[a].status = "pending" /\ ~Spent(a)'
    <2> DEFINE a == job[r].approval
    <2>1. /\ a \in Approvals /\ MissionFor(r) = MissionOf[a]
          /\ approval[a].status = "absent" /\ approval'[a].status = "pending"
          /\ \A b \in Approvals : b # a => approval'[b] = approval[b]
      BY <1>1, <1>10, JobFields DEF CommitRequest, MissionFor, RowInv
    <2>2. \A b \in Approvals : Spent(b)' => Spent(b)
      BY <1>1, <1>10 DEF CommitRequest, Answer, Goto, Spent, Dirty, Target
    <2>3. ~Spent(a)
      BY <2>1 DEF Spent, RowInv
    <2>4. CASE MissionOf[a] = m
      BY <2>1, <2>2, <2>3, <2>4
    <2>5. CASE MissionOf[a] # m
      <3>1. mission'[m] = mission[m]
        BY <1>1, <1>10, <2>1, <2>5 DEF CommitRequest, CommitMission
      <3>. QED  BY <1>2, <2>1, <2>2, <2>5, <3>1
    <2>. QED  BY <2>4, <2>5
  <1>11. ASSUME NEW r \in Requests, CommitDecision(r)
         PROVE  \E a \in Approvals :
                  MissionOf[a] = m /\ approval'[a].status = "pending" /\ ~Spent(a)'
    <2> DEFINE a == job[r].approval
    <2>1. /\ a \in Approvals /\ MissionFor(r) = MissionOf[a]
          /\ job[r].kind = "resolve" /\ pc[r] = "commit"
          /\ Target(r) \in {"active", "blocked"}
          /\ \A b \in Approvals : b # a => approval'[b] = approval[b]
      BY <1>1, <1>11, JobFields DEF CommitDecision, RecordResolved, TheEvent, MissionFor, Target
    <2>2. \A b \in Approvals : Spent(b)' => Spent(b)
      BY <1>1, <1>11 DEF CommitDecision, RecordResolved, TheEvent, Answer, Goto, Spent, Dirty, Target
    <2>3. mission[m] = "awaiting_approval"
      BY <1>1, <1>11, <2>1 DEF CommitDecision, RecordResolved, TheEvent, CommitMission
    <2>4. PICK b \in Approvals :
            MissionOf[b] = m /\ approval[b].status = "pending" /\ ~Spent(b)
      BY <1>2, <2>3
    <2>5. MissionOf[a] = m => ~Dirty(r)
      BY <1>1, <1>11, <2>1 DEF CommitDecision, RecordResolved, TheEvent, CommitMission
    <2>6. b # a
      BY <2>1, <2>4, <2>5 DEF Spent
    <2>. QED  BY <2>1, <2>2, <2>4, <2>6
  <1>12. CASE UNCHANGED vars
    BY <1>2, <1>12 DEF vars, Spent, Dirty, Target
  <1>13. ASSUME NEW r \in Requests,
                Arrive(r) \/ UpdateDecision(r) \/ ReadMission(r) \/ WriteMission(r)
                  \/ PublishResume(r) \/ CallIntegration(r) \/ RecordOutcome(r)
                  \/ Abort(r)
         PROVE  UNCHANGED <<approval, mission>>
    BY <1>13
       DEF Arrive, RequestApproval, ReadApproval, PostStatus, UpdateDecision, ReadMission,
           WriteMission, PublishResume, CallIntegration, RecordOutcome, Abort, dbVars
  <1>. QED
    BY <1>3, <1>4, <1>5, <1>6, <1>7, <1>8, <1>9, <1>10, <1>11, <1>12, <1>13
       DEF Next, Arrive, Step

LEMMA AwaitInit == Init => AwaitInv
  BY DEF Init, AwaitInv

\* No interleaving of openings, decisions, status posts and rollbacks leaves a
\* mission awaiting an approval that nobody can decide any more.
THEOREM AwaitingIsDecidable == Spec => []AwaitingHasPending
  <1>1. AwaitInv => AwaitingHasPending
    BY DEF AwaitInv, AwaitingHasPending
  <1>. QED
    BY TypeInit, TypeStep, RowInit, RowStep, AwaitInit, AwaitStep, <1>1, PTL DEF Spec

-----------------------------------------------------------------------------
(* The sessions implement the abstract governance gate.                    *)

Granted == {[approval |-> e.approval, by |-> e.by] :
              e \in {x \in timeline : x.decision = "approved"}}
Acted == published \cup effects

LEMMA GateRefinement ==
    TypeInv /\ GateInv /\ [Next]_vars =>
        \/ UNCHANGED <<Granted, Acted>>
        \/ \E g \in Act :
             \/ g \notin Granted /\ Granted' = Granted \cup {g} /\ UNCHANGED Acted
             \/ g \in Granted \ Acted /\ Acted' = Acted \cup {g} /\ UNCHANGED Granted
  <1> SUFFICES ASSUME TypeInv, GateInv, [Next]_vars
               PROVE  \/ UNCHANGED <<Granted, Acted>>
                      \/ \E g \in Act :
                           \/ /\ g \notin Granted
                              /\ Granted' = Granted \cup {g} /\ UNCHANGED Acted
                           \/ /\ g \in Granted \ Acted
                              /\ Acted' = Acted \cup {g} /\ UNCHANGED Granted
    OBVIOUS
  <1>1. /\ pc \in [Requests -> PCs] /\ job \in [Requests -> Jobs] /\ SessionInv
    BY DEF TypeInv, TypeOK
  <1>2. ASSUME UNCHANGED <<timeline, published, effects>>
        PROVE  UNCHANGED <<Granted, Acted>>
    BY <1>2 DEF Granted, Acted
  <1>3. ASSUME NEW r \in Requests, CommitDecision(r)
        PROVE  \/ UNCHANGED <<Granted, Acted>>
               \/ \E g \in Act :
                    g \notin Granted /\ Granted' = Granted \cup {g} /\ UNCHANGED Acted
    <2> DEFINE g == [approval |-> job[r].approval, by |-> r]
               e == [approval |-> job[r].approval, by |-> r, decision |-> job[r].decision]
    <2>1. /\ timeline' = timeline \cup {e}
          /\ UNCHANGED <<published, effects>>
          /\ pc[r] = "commit" /\ job[r].kind = "resolve"
      BY <1>3 DEF CommitDecision, RecordResolved, TheEvent
    <2>2. /\ e.approval = job[r].approval /\ e.by = r /\ e.decision = job[r].decision
          /\ g.by = r
      OBVIOUS
    <2>3. UNCHANGED Acted
      BY <2>1 DEF Acted
    <2>4. CASE job[r].decision = "approved"
      <3>1. g \in Act  BY <1>1, <2>1, JobFields DEF Act
      <3>2. Granted' = Granted \cup {g}  BY <2>1, <2>2, <2>4 DEF Granted
      <3>3. g \notin Granted
        BY <2>1, <2>2 DEF Granted, GateInv
      <3>. QED  BY <2>3, <3>1, <3>2, <3>3
    <2>5. CASE job[r].decision # "approved"
      BY <2>1, <2>2, <2>3, <2>5 DEF Granted
    <2>. QED  BY <2>4, <2>5
  <1>4. ASSUME NEW r \in Requests, PublishResume(r) \/ CallIntegration(r)
        PROVE  \/ UNCHANGED <<Granted, Acted>>
               \/ \E g \in Act :
                    g \in Granted \ Acted /\ Acted' = Acted \cup {g} /\ UNCHANGED Granted
    <2> DEFINE g == [approval |-> job[r].approval, by |-> r]
               e == [approval |-> job[r].approval, by |-> r, decision |-> "approved"]
    <2>1. /\ UNCHANGED timeline
          /\ Acted' = Acted \/ Acted' = Acted \cup {g}
          /\ pc[r] \in {"publish", "call"}
      BY <1>4 DEF PublishResume, CallIntegration, TheAct, Acted, dbVars
    <2>2. g.by = r /\ e.approval = job[r].approval /\ e.by = r /\ e.decision = "approved"
      OBVIOUS
    <2>3. e \in timeline  BY <2>1 DEF GateInv
    <2>4. g \in Granted  BY <2>2, <2>3 DEF Granted
    <2>5. g \notin Acted  BY <2>1, <2>2 DEF Acted, GateInv
    <2>6. g \in Act  BY <1>1, <2>1, JobFields DEF Act, SessionInv
    <2>7. UNCHANGED Granted  BY <2>1 DEF Granted
    <2>. QED  BY <2>1, <2>4, <2>5, <2>6, <2>7
  <1>5. ASSUME NEW r \in Requests,
               Arrive(r) \/ UpdateDecision(r) \/ ReadMission(r) \/ WriteMission(r)
                 \/ CommitRequest(r) \/ CommitStatus(r) \/ RecordOutcome(r)
                 \/ CommitOutcome(r) \/ Abort(r)
        PROVE  UNCHANGED <<timeline, published, effects>>
    BY <1>5
       DEF Arrive, RequestApproval, ReadApproval, PostStatus, UpdateDecision, ReadMission,
           WriteMission, CommitRequest, CommitStatus, RecordOutcome, CommitOutcome, Abort,
           dbVars
  <1>6. CASE UNCHANGED vars
    BY <1>2, <1>6 DEF vars
  <1>. QED
    BY <1>2, <1>3, <1>4, <1>5, <1>6 DEF Next, Step

\* Seen from outside, every behaviour of the sessions is one of the gate: work
\* leaves under a recorded grant, and once for each grant.
THEOREM ImplementsGate == Spec => GateSpec
  <1>1. Init => Gate!GateInit
    BY DEF Init, Gate!GateInit
  <1>2. TypeInv /\ GateInv /\ [Next]_vars => [Gate!GateNext]_(Gate!gateVars)
    BY GateRefinement
       DEF Granted, Acted, Gate!GateNext, Gate!Grant, Gate!Act, Gate!gateVars
  <1>. QED
    BY <1>1, <1>2, TypeInit, TypeStep, GateInvInit, GateStep, PTL
       DEF Spec, GateSpec, Gate!GateSpec
-----------------------------------------------------------------------------
(* What a decision and a receipt stand for.                                *)

\* Only an opening writes "pending", and RowInv has its row absent until then.
LEMMA DecisionStays ==
    TypeInv /\ RowInv /\ [Next]_vars =>
      [\A a \in Approvals : approval[a].status \in Decisions
                              => approval'[a].status \in Decisions]_vars
  <1> SUFFICES ASSUME TypeInv, RowInv, [Next]_vars,
                      NEW a \in Approvals, approval[a].status \in Decisions
               PROVE  approval'[a].status \in Decisions
    OBVIOUS
  <1>1. /\ job \in [Requests -> Jobs] /\ approval \in [Approvals -> Rows]
    BY DEF TypeInv, TypeOK
  <1>2. ASSUME NEW r \in Requests, CommitRequest(r)
        PROVE  approval'[a].status \in Decisions
    <2>1. approval[job[r].approval].status = "absent"
      BY <1>2 DEF RowInv, CommitRequest
    <2>2. a # job[r].approval
      BY <2>1 DEF Decisions
    <2>. QED  BY <1>1, <1>2, <2>2 DEF CommitRequest
  <1>3. ASSUME NEW r \in Requests, CommitDecision(r)
        PROVE  approval'[a].status \in Decisions
    <2>1. job[r].decision \in Decisions
      BY <1>1, <1>3, JobFields DEF CommitDecision
    <2>. QED  BY <1>1, <1>3, <2>1 DEF CommitDecision
  <1>4. ASSUME NEW r \in Requests,
               Arrive(r) \/ UpdateDecision(r) \/ ReadMission(r) \/ WriteMission(r)
                 \/ CommitStatus(r) \/ PublishResume(r) \/ CallIntegration(r)
                 \/ RecordOutcome(r) \/ CommitOutcome(r) \/ Abort(r)
        PROVE  UNCHANGED approval
    BY <1>4
       DEF Arrive, RequestApproval, ReadApproval, PostStatus, UpdateDecision, ReadMission,
           WriteMission, CommitStatus, PublishResume, CallIntegration, RecordOutcome,
           CommitOutcome, Abort, dbVars
  <1>5. CASE UNCHANGED vars
    BY <1>5 DEF vars
  <1>. QED
    BY <1>2, <1>3, <1>4, <1>5 DEF Next, Step

\* No sequence of requests, decisions, rollbacks and crashes takes a committed
\* decision back.
THEOREM NeverWithdrawn == Spec => NeverReopened
  <1>. QED
    BY TypeInit, TypeStep, RowInit, RowStep, DecisionStays, PTL DEF Spec, NeverReopened

\* A session that is about to record success made the call; one that was
\* answered "ok" has recorded what became of it.
ReceiptInv ==
    /\ \A r \in Requests :
         /\ pc[r] \in {"record", "commitOutcome"} /\ outcome[r] = "complete" =>
              TheAct(r) \in effects
         /\ pc[r] # "done" => reply[r] = "none"
         /\ pc[r] = "publish" => job[r].approval \notin Governed
    /\ ReceiptsAreTrue

LEMMA ReceiptStep == TypeInv /\ ReceiptInv /\ [Next]_vars => ReceiptInv'
  <1> SUFFICES ASSUME TypeInv, ReceiptInv, [Next]_vars PROVE ReceiptInv'
    OBVIOUS
  <1>. USE DEF ReceiptInv, ReceiptsAreTrue, TheAct
  <1>1. /\ pc \in [Requests -> PCs] /\ job \in [Requests -> Jobs]
        /\ outcome \in [Requests -> {"none", "complete", "failed"}]
        /\ reply \in [Requests -> {"none", "ok", "refused", "lost"}]
        /\ SessionInv
    BY DEF TypeInv, TypeOK
  <1>2. ASSUME NEW r \in Requests, Arrive(r) PROVE ReceiptInv'
    <2>1. /\ pc[r] = "idle"
          /\ \/ pc'[r] \in {"decide", "writeMission", "commit"} /\ reply' = reply
             \/ pc'[r] = "done" /\ reply' = [reply EXCEPT ![r] = "refused"]
          /\ \A q \in Requests : q # r => pc'[q] = pc[q] /\ job'[q] = job[q]
          /\ UNCHANGED <<effects, receipts, outcome>>
      <3>1. CASE \E a \in Approvals : RequestApproval(r, a)
        BY <1>1, <3>1 DEF RequestApproval, AfterMissionRead, Goto, dbVars
      <3>2. CASE \E a \in Approvals, d \in Decisions : ReadApproval(r, a, d)
        BY <1>1, <3>2 DEF ReadApproval, Answer, Goto, dbVars
      <3>3. CASE \E m \in Missions, s \in PostedStatus : PostStatus(r, m, s)
        BY <1>1, <3>3 DEF PostStatus, AfterMissionRead, Goto, dbVars
      <3>. QED  BY <1>2, <3>1, <3>2, <3>3 DEF Arrive
    <2>2. reply[r] = "none" /\ reply'[r] # "ok"
      BY <1>1, <2>1
    <2>3. \A q \in Requests : q # r => reply'[q] = reply[q]
      BY <1>1, <2>1
    <2>4. ASSUME NEW q \in Requests
          PROVE  /\ pc'[q] \in {"record", "commitOutcome"} /\ outcome'[q] = "complete" =>
                      [approval |-> job'[q].approval, by |-> q] \in effects'
                 /\ pc'[q] # "done" => reply'[q] = "none"
                 /\ pc'[q] = "publish" => job'[q].approval \notin Governed
      BY <2>1, <2>2, <2>3
    <2>5. ASSUME NEW q \in Requests, reply'[q] = "ok", job'[q].kind = "resolve"
          PROVE  \/ job'[q].decision = "denied"
                 \/ job'[q].approval \notin Governed
                 \/ \E y \in receipts' : y.by = q /\ y.approval = job'[q].approval
      BY <2>1, <2>2, <2>3, <2>5
    <2>. QED  BY <2>1, <2>4, <2>5
  <1>3. ASSUME NEW r \in Requests,
               UpdateDecision(r) \/ ReadMission(r) \/ WriteMission(r) \/ RecordOutcome(r)
        PROVE  ReceiptInv'
    BY <1>1, <1>3
       DEF UpdateDecision, ReadMission, WriteMission, RecordOutcome, AfterMissionRead,
           Goto, dbVars
  <1>4. ASSUME NEW r \in Requests, CommitRequest(r) \/ CommitStatus(r)
        PROVE  ReceiptInv'
    BY <1>1, <1>4 DEF CommitRequest, CommitStatus, Answer, Goto
  <1>5. ASSUME NEW r \in Requests, CommitDecision(r) PROVE ReceiptInv'
    BY <1>1, <1>5 DEF CommitDecision, RecordResolved, TheEvent, Answer, Goto
  <1>6. ASSUME NEW r \in Requests, PublishResume(r) PROVE ReceiptInv'
    BY <1>1, <1>6 DEF PublishResume, Answer, Goto, dbVars
  <1>7. ASSUME NEW r \in Requests, CallIntegration(r) PROVE ReceiptInv'
    BY <1>1, <1>7 DEF CallIntegration, Goto, dbVars
  <1>8. ASSUME NEW r \in Requests, CommitOutcome(r) PROVE ReceiptInv'
    <2> DEFINE x == [approval |-> job[r].approval, by |-> r, outcome |-> outcome[r]]
    <2>1. /\ receipts' = receipts \cup {x}
          /\ UNCHANGED <<effects, job, outcome>>
          /\ pc[r] = "commitOutcome"
          /\ pc' = [pc EXCEPT ![r] = "done"]
          /\ reply' = [reply EXCEPT ![r] = "ok"]
      BY <1>8 DEF CommitOutcome, Answer, Goto
    <2>2. x.approval = job[r].approval /\ x.by = r /\ x.outcome = outcome[r]
      OBVIOUS
    <2>3. ASSUME NEW y \in receipts', y.outcome = "complete"
          PROVE  [approval |-> y.approval, by |-> y.by] \in effects'
      BY <2>1, <2>2, <2>3
    <2>4. ASSUME NEW q \in Requests, reply'[q] = "ok", job'[q].kind = "resolve"
          PROVE  \/ job'[q].decision = "denied"
                 \/ job'[q].approval \notin Governed
                 \/ \E y \in receipts' : y.by = q /\ y.approval = job'[q].approval
      <3>1. CASE q = r
        <4>1. x \in receipts' /\ x.by = q /\ x.approval = job'[q].approval
          BY <2>1, <2>2, <3>1
        <4>. QED  BY <4>1
      <3>2. CASE q # r
        <4>1. reply[q] = "ok" /\ job[q].kind = "resolve"
          BY <1>1, <2>1, <2>4, <3>2
        <4>2. receipts \subseteq receipts' /\ job' = job
          BY <2>1
        <4>. QED  BY <4>1, <4>2
      <3>. QED  BY <3>1, <3>2
    <2>5. \A q \in Requests :
            /\ pc'[q] \in {"record", "commitOutcome"} /\ outcome'[q] = "complete" =>
                 [approval |-> job'[q].approval, by |-> q] \in effects'
            /\ pc'[q] # "done" => reply'[q] = "none"
            /\ pc'[q] = "publish" => job'[q].approval \notin Governed
      BY <1>1, <2>1
    <2>. QED  BY <2>3, <2>4, <2>5
  <1>9. ASSUME NEW r \in Requests, Abort(r) PROVE ReceiptInv'
    BY <1>1, <1>9 DEF Abort, Answer, Goto, dbVars
  <1>10. CASE UNCHANGED vars
    BY <1>10 DEF vars
  <1>. QED
    BY <1>2, <1>3, <1>4, <1>5, <1>6, <1>7, <1>8, <1>9, <1>10 DEF Next, Step

LEMMA ReceiptInit == Init => ReceiptInv
  BY DEF Init, ReceiptInv, ReceiptsAreTrue

\* A success receipt stands for a call that took effect, and an approval that
\* was answered "ok" left the receipt of its call.
THEOREM ReceiptsHold == Spec => []ReceiptsAreTrue
  <1>1. ReceiptInv => ReceiptsAreTrue  BY DEF ReceiptInv
  <1>. QED
    BY TypeInit, TypeStep, ReceiptInit, ReceiptStep, <1>1, PTL DEF Spec
=============================================================================

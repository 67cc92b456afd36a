----------------------- MODULE GovernedWorkflowProofs -----------------------
(***************************************************************************)
(* Theorems about GovernedWorkflow.  The invariants follow a session from  *)
(* its job (PlaceInv) over what it saw at GitHub (SinceInv, PreflightInv)  *)
(* to its call (CallInv); the properties about merges, approvals and       *)
(* missions are conjuncts that these carry over every step.                *)
(***************************************************************************)
EXTENDS GovernedWorkflow, TLAPS

-----------------------------------------------------------------------------
(* The steps, by what they do to the state.                                *)

Submission(s) ==
    \E a \in Approvals, heads \in SUBSET Versions :
        \/ \E kind \in Kinds \ {"merge"} : Submit(s, a, kind, heads, "request")
        \/ Submit(s, a, "reply", heads, "readMessage")
        \/ Submit(s, a, "merge", heads, "readPull")

Refusal(s) ==
    pc[s] \in {"readPull", "readChecks", "readMessage", "execute"} /\ Refuse(s)

SawPull(s) ==
    /\ pc[s] = "readPull"
    /\ pull.state = "open" /\ pull.ready /\ pull.head \in contract[job[s]].heads
    /\ snap' = [snap EXCEPT ![s] = pull.head]
    /\ Goto(s, "readChecks")
    /\ UNCHANGED <<stored, provider, job, runs, outcome, reply, since, changes>>

SawChecks(s) ==
    pc[s] = "readChecks" /\ checks[snap[s]] \notin {"running", "bad"} /\ GoOn(s)

SawMessage(s) == pc[s] = "readMessage" /\ GoOn(s)

Started(s) ==
    /\ pc[s] = "execute"
    /\ \/ KindOf(s) # "merge" /\ Goto(s, "call")
       \/ KindOf(s) = "reply" /\ Goto(s, "readMessage")
       \/ KindOf(s) = "merge" /\ Goto(s, "readPull")
    /\ UNCHANGED <<stored, provider, job, runs, snap, outcome, reply, since, changes>>

Called(s) ==
    /\ pc[s] = "call"
    /\ IF KindOf(s) = "merge"
       THEN /\ pull = [state |-> "open", ready |-> TRUE, head |-> snap[s]]
            /\ pull' = [pull EXCEPT !.state = "merged"]
       ELSE pull' = pull
    /\ mailbox' \in SUBSET mailbox
    /\ TookEffect(s)
    /\ UNCHANGED <<stored, checks, job, runs, snap, reply, since, changes>>

CalledInVain(s) ==
    /\ pc[s] = "call" /\ NoEffect(s)
    /\ UNCHANGED <<stored, checks, job, runs, snap, reply, since, changes>>

SessionStep(s) ==
    \/ Submission(s) \/ (\E a \in Approvals : Approve(s, a))
    \/ Refusal(s) \/ SawPull(s) \/ SawChecks(s) \/ SawMessage(s) \/ Started(s)
    \/ Called(s) \/ CalledInVain(s)
    \/ RequestApproval(s) \/ RecordOutcome(s) \/ Abort(s)

OthersStep == Others(PullChanges) \/ Others(CheckChanges) \/ Others(MailChanges)

\* Every step of the specification is one of these.
LEMMA Steps ==
  ASSUME Next
  PROVE  (\E s \in Sessions : SessionStep(s)) \/ OthersStep
<1>1. CASE OthersStep
  BY <1>1
<1>2. ASSUME NEW s \in Sessions, Arrive(s) \/ Step(s) \/ Abort(s)
      PROVE  SessionStep(s)
  <2>1. ASSUME Arrive(s)
        PROVE  SessionStep(s)
    <3>1. PICK a \in Approvals :
            \/ SubmitIssue(s, a) \/ SubmitPull(s, a) \/ SubmitDraft(s, a)
            \/ SubmitReply(s, a) \/ SubmitSend(s, a) \/ SubmitMerge(s, a)
            \/ Approve(s, a)
      BY <2>1 DEF Arrive
    <3>2. CASE SubmitIssue(s, a) \/ SubmitPull(s, a) \/ SubmitDraft(s, a) \/ SubmitSend(s, a)
      <4>1. \E kind \in Kinds \ {"merge"} : Submit(s, a, kind, Versions, "request")
        BY <3>2 DEF SubmitIssue, SubmitPull, SubmitDraft, SubmitSend, Kinds
      <4> QED  BY <4>1 DEF SessionStep, Submission
    <3>3. CASE SubmitReply(s, a)
      BY <3>3 DEF SubmitReply, SessionStep, Submission
    <3>4. CASE SubmitMerge(s, a)
      BY <3>4 DEF SubmitMerge, SessionStep, Submission
    <3>5. CASE Approve(s, a)
      BY <3>5 DEF SessionStep
    <3> QED  BY <3>1, <3>2, <3>3, <3>4, <3>5
  <2>2. ASSUME Prepare(s)
        PROVE  SessionStep(s)
    <3>1. CASE ReadPull(s) \/ ReadChecks(s) \/ ReadMessage(s)
      BY <3>1 DEF ReadPull, ReadChecks, ReadMessage, SessionStep, Refusal,
                  SawPull, SawChecks, SawMessage
    <3>2. CASE ExecuteIssue(s) \/ ExecutePull(s) \/ ExecuteDraft(s) \/ ExecuteSend(s)
      BY <3>2 DEF ExecuteIssue, ExecutePull, ExecuteDraft, ExecuteSend, Execute,
                  SessionStep, Refusal, Started
    <3>3. CASE ExecuteReply(s) \/ ExecuteMerge(s)
      BY <3>3 DEF ExecuteReply, ExecuteMerge, Execute, SessionStep, Refusal, Started
    <3> QED  BY <2>2, <3>1, <3>2, <3>3 DEF Prepare
  <2>3. ASSUME CallOut(s)
        PROVE  SessionStep(s)
    <3>1. CASE CreateIssue(s) \/ CreatePull(s) \/ CreateDraft(s) \/ CreateReplyDraft(s)
      <4>1. PICK kind \in Kinds \ {"merge"} : Create(s, kind)
        BY <3>1 DEF CreateIssue, CreatePull, CreateDraft, CreateReplyDraft, Kinds
      <4>2. CASE NoEffect(s)
        BY <4>1, <4>2 DEF Create, Calling, CalledInVain, SessionStep
      <4>3. CASE TookEffect(s) /\ UNCHANGED <<pull, mailbox>>
        BY <4>1, <4>3 DEF Create, Calling, Called, SessionStep
      <4> QED  BY <4>1, <4>2, <4>3 DEF Create
    <3>2. CASE SendDraft(s)
      BY <3>2 DEF SendDraft, Calling, Called, CalledInVain, SessionStep
    <3>3. CASE MergePull(s)
      BY <3>3 DEF MergePull, Calling, Called, CalledInVain, SessionStep
    <3> QED  BY <2>3, <3>1, <3>2, <3>3 DEF CallOut
  <2> QED  BY <1>2, <2>1, <2>2, <2>3 DEF Step, SessionStep
<1> QED  BY <1>1, <1>2 DEF Next, OthersStep

-----------------------------------------------------------------------------
(* Types, and what a session's place says of its job.                      *)

PlaceInv ==
    \A s \in Sessions :
        /\ pc[s] # "idle" => job[s] \in Approvals /\ contract[job[s]] # NoContract
        /\ pc[s] = "idle" => s \notin runs
        /\ pc[s] = "request" => s \notin runs
        /\ pc[s] \in {"execute", "call", "record"} => s \in runs
        /\ pc[s] \in {"readPull", "readChecks"} => KindOf(s) = "merge"
        /\ pc[s] = "readMessage" => KindOf(s) = "reply"
        /\ s \notin runs => outcome[s] = "none"
        /\ pc[s] = "record" => outcome[s] # "none"
        /\ outcome[s] # "none" => pc[s] \in {"record", "done"}
        /\ reply[s] # "none" => pc[s] = "done"

\* An approval that exists has its contract.
ContractInv == \A a \in Approvals : approval[a] # "absent" => contract[a] # NoContract

Base == TypeOK /\ PlaceInv /\ ContractInv

LEMMA BaseInit ==
  ASSUME Init
  PROVE  Base
BY WorkflowAssumption
   DEF Init, Base, TypeOK, PlaceInv, ContractInv, Contracts, NoContract, PullStates, Labels

\* What a session has seen is a set of heads.
LEMMA SinceTyped ==
  ASSUME TypeOK, NEW s \in Sessions, NEW a, NEW label, Begin(s, a, label)
  PROVE  since' \in [Sessions -> [clean : SUBSET Versions, ready : SUBSET Versions]]
<1>1. CleanHeads \in SUBSET Versions /\ ReadyHeads \in SUBSET Versions
  BY DEF CleanHeads, ReadyHeads
<1> QED  BY <1>1 DEF TypeOK, Begin

LEMMA TypeStep ==
  ASSUME Base, Next
  PROVE  TypeOK'
<1> USE DEF Base, TypeOK, Labels
<1>1. ASSUME NEW s \in Sessions, Submission(s)
      PROVE  TypeOK'
  <2>1. PICK a \in Approvals, kind \in Kinds, heads \in SUBSET Versions,
             label \in {"request", "readMessage", "readPull"} :
               Submit(s, a, kind, heads, label)
    BY <1>1 DEF Submission, Kinds
  <2>2. since' \in [Sessions -> [clean : SUBSET Versions, ready : SUBSET Versions]]
    BY <2>1, SinceTyped DEF Submit
  <2>3. [kind |-> kind, heads |-> heads] \in Contracts
    BY DEF Contracts
  <2> QED  BY <2>1, <2>2, <2>3 DEF Submit, Begin, Goto, provider
<1>2. ASSUME NEW s \in Sessions, NEW a \in Approvals, Approve(s, a)
      PROVE  TypeOK'
  <2>1. since' \in [Sessions -> [clean : SUBSET Versions, ready : SUBSET Versions]]
    BY <1>2, SinceTyped DEF Approve
  <2> QED  BY <1>2, <2>1 DEF Approve, Begin, Goto, provider
<1>3. ASSUME NEW s \in Sessions, Refusal(s)
      PROVE  TypeOK'
  <2>1. pc' \in [Sessions -> Labels] /\ pc'[s] \in {"done", "record"}
        /\ \A t \in Sessions \ {s} : pc'[t] = pc[t]
    BY <1>3 DEF Refusal, Refuse, Answer, Goto
  <2>2. outcome' \in [Sessions -> {"none", "complete", "failed"}]
    BY <1>3 DEF Refusal, Refuse
  <2>3. reply' \in [Sessions -> {"none", "ok", "refused", "lost"}]
    BY <1>3 DEF Refusal, Refuse, Answer
  <2> QED  BY <1>3, <2>1, <2>2, <2>3 DEF Refusal, Refuse, stored, provider
<1>4. ASSUME NEW s \in Sessions, SawPull(s)
      PROVE  TypeOK'
  <2>1. pull.head \in Versions
    BY <1>4 DEF SawPull, PlaceInv, Contracts, NoContract
  <2> QED  BY <1>4, <2>1 DEF SawPull, Goto, stored, provider
<1>5. ASSUME NEW s \in Sessions, SawChecks(s) \/ SawMessage(s)
      PROVE  TypeOK'
  <2>1. pc' \in [Sessions -> Labels] /\ pc'[s] \in {"request", "call"}
        /\ \A t \in Sessions \ {s} : pc'[t] = pc[t]
    BY <1>5 DEF SawChecks, SawMessage, GoOn, Goto
  <2> QED  BY <1>5, <2>1 DEF SawChecks, SawMessage, GoOn, stored, provider
<1>6. ASSUME NEW s \in Sessions, Started(s)
      PROVE  TypeOK'
  BY <1>6 DEF Started, Goto, stored, provider
<1>7. ASSUME NEW s \in Sessions, Called(s)
      PROVE  TypeOK'
  <2>1. pull' \in PullStates
    BY <1>7 DEF Called, PullStates
  <2>2. effects' \subseteq [by : Sessions, head : Versions \cup {NoVersion}]
    BY <1>7 DEF Called, TookEffect
  <2>3. outcome' \in [Sessions -> {"none", "complete", "failed"}]
    BY <1>7 DEF Called, TookEffect
  <2>4. mailbox' \subseteq {"draft", "message"}
    BY <1>7 DEF Called
  <2> QED  BY <1>7, <2>1, <2>2, <2>3, <2>4 DEF Called, TookEffect, Goto, stored
<1>8. ASSUME NEW s \in Sessions, CalledInVain(s)
      PROVE  TypeOK'
  BY <1>8 DEF CalledInVain, NoEffect, Goto, stored
<1>9. ASSUME NEW s \in Sessions, RequestApproval(s)
      PROVE  TypeOK'
  BY <1>9 DEF RequestApproval, Answer, Goto, provider
<1>10. ASSUME NEW s \in Sessions, RecordOutcome(s)
       PROVE  TypeOK'
  <2>1. outcome[s] \in {"complete", "failed"}
    BY <1>10 DEF RecordOutcome, PlaceInv
  <2>2. receipts' \subseteq [by : Sessions, outcome : {"complete", "failed"}]
    BY <1>10, <2>1 DEF RecordOutcome
  <2>3. mission' \in [Approvals -> {"pending", "awaiting_approval", "active",
                                   "complete", "failed"}]
    BY <1>10, <2>1 DEF RecordOutcome
  <2> QED  BY <1>10, <2>2, <2>3 DEF RecordOutcome, Answer, Goto, provider
<1>11. ASSUME NEW s \in Sessions, Abort(s)
       PROVE  TypeOK'
  BY <1>11 DEF Abort, Answer, Goto, stored, provider
<1>12. ASSUME OthersStep
       PROVE  TypeOK'
  <2>1. CleanHeads' \in SUBSET Versions /\ ReadyHeads' \in SUBSET Versions
    BY DEF CleanHeads, ReadyHeads
  <2>2. since' \in [Sessions -> [clean : SUBSET Versions, ready : SUBSET Versions]]
    <3>1. since' = [t \in Sessions |->
                      IF pc[t] \in {"idle", "done"} THEN since[t]
                      ELSE [clean |-> since[t].clean \cup CleanHeads',
                            ready |-> since[t].ready \cup ReadyHeads']]
      BY <1>12 DEF OthersStep, Others
    <3> QED  BY <2>1, <3>1
  <2>3. changes' \in 0..MaxChanges
    BY <1>12, WorkflowAssumption DEF OthersStep, Others
  <2>4. pull' \in PullStates
    BY <1>12 DEF OthersStep, Others, PullChanges, CheckChanges, MailChanges
  <2>5. checks' \in [Versions -> {"clean", "running", "bad"}]
    BY <1>12 DEF OthersStep, Others, PullChanges, CheckChanges, MailChanges
  <2>6. mailbox' \subseteq {"draft", "message"}
    BY <1>12 DEF OthersStep, Others, PullChanges, CheckChanges, MailChanges
  <2> QED  BY <1>12, <2>2, <2>3, <2>4, <2>5, <2>6 DEF OthersStep, Others, stored
<1> QED
  BY Steps, <1>1, <1>2, <1>3, <1>4, <1>5, <1>6, <1>7, <1>8, <1>9, <1>10, <1>11, <1>12
     DEF SessionStep

LEMMA BaseStep ==
  ASSUME Base, Next
  PROVE  Base'
<1> USE DEF Base, PlaceInv, ContractInv, KindOf
<1>0. TypeOK'
  BY TypeStep
<1>1. ASSUME NEW s \in Sessions, Submission(s)
      PROVE  PlaceInv' /\ ContractInv'
  <2>1. PICK a \in Approvals, heads \in SUBSET Versions :
          \/ \E kind \in Kinds \ {"merge"} : Submit(s, a, kind, heads, "request")
          \/ Submit(s, a, "reply", heads, "readMessage")
          \/ Submit(s, a, "merge", heads, "readPull")
    BY <1>1 DEF Submission
  <2>2. PICK kind \in Kinds, label \in {"request", "readMessage", "readPull"} :
          /\ Submit(s, a, kind, heads, label)
          /\ label = "readMessage" => kind = "reply"
          /\ label = "readPull" => kind = "merge"
    BY <2>1 DEF Kinds
  <2>3. contract'[a] # NoContract
    BY <2>2 DEF Submit, TypeOK, NoContract, Kinds
  <2> QED  BY <2>2, <2>3 DEF Submit, Begin, Goto, TypeOK, Labels
<1>2. ASSUME NEW s \in Sessions, NEW a \in Approvals, Approve(s, a)
      PROVE  PlaceInv' /\ ContractInv'
  BY <1>2 DEF Approve, Begin, Goto, TypeOK
<1>3. ASSUME NEW s \in Sessions, Refusal(s)
      PROVE  PlaceInv' /\ ContractInv'
  BY <1>3 DEF Refusal, Refuse, Submitting, Answer, Goto, stored, TypeOK
<1>4. ASSUME NEW s \in Sessions, SawPull(s)
      PROVE  PlaceInv' /\ ContractInv'
  BY <1>4 DEF SawPull, Goto, stored, TypeOK
<1>5. ASSUME NEW s \in Sessions, SawChecks(s) \/ SawMessage(s)
      PROVE  PlaceInv' /\ ContractInv'
  BY <1>5 DEF SawChecks, SawMessage, GoOn, Submitting, Goto, stored, TypeOK
<1>6. ASSUME NEW s \in Sessions, Started(s)
      PROVE  PlaceInv' /\ ContractInv'
  BY <1>6 DEF Started, Goto, stored, TypeOK
<1>7. ASSUME NEW s \in Sessions, Called(s)
      PROVE  PlaceInv' /\ ContractInv'
  BY <1>7 DEF Called, TookEffect, Goto, stored, TypeOK
<1>8. ASSUME NEW s \in Sessions, CalledInVain(s)
      PROVE  PlaceInv' /\ ContractInv'
  BY <1>8 DEF CalledInVain, NoEffect, Goto, stored, TypeOK
<1>9. ASSUME NEW s \in Sessions, RequestApproval(s)
      PROVE  PlaceInv' /\ ContractInv'
  BY <1>9 DEF RequestApproval, Answer, Goto, TypeOK
<1>10. ASSUME NEW s \in Sessions, RecordOutcome(s)
       PROVE  PlaceInv' /\ ContractInv'
  BY <1>10 DEF RecordOutcome, Answer, Goto, TypeOK
<1>11. ASSUME NEW s \in Sessions, Abort(s)
       PROVE  PlaceInv' /\ ContractInv'
  BY <1>11 DEF Abort, Answer, Goto, stored, TypeOK
<1>12. ASSUME OthersStep
       PROVE  PlaceInv' /\ ContractInv'
  BY <1>12 DEF OthersStep, Others, stored
<1> QED
  BY Steps, <1>0, <1>1, <1>2, <1>3, <1>4, <1>5, <1>6, <1>7, <1>8, <1>9, <1>10, <1>11, <1>12
     DEF SessionStep

\* Spec: every variable of the workflows keeps its type, and a merge that has
\* passed the first half of its preflight has a head to look up.
THEOREM TypeCorrect == Spec => []TypeOK
<1>1. Base /\ UNCHANGED vars => Base'
  BY DEF Base, TypeOK, PlaceInv, ContractInv, KindOf, vars, stored, provider
<1>2. Base => TypeOK
  BY DEF Base
<1> QED  BY BaseInit, BaseStep, <1>1, <1>2, PTL DEF Spec

-----------------------------------------------------------------------------
(* What a session knows of GitHub, up to its call.                         *)

\* A session at work has seen whatever GitHub would tell it now.
SinceInv ==
    \A s \in Sessions : pc[s] \notin {"idle", "done"} =>
        CleanHeads \subseteq since[s].clean /\ ReadyHeads \subseteq since[s].ready

\* What the two halves of a merge's preflight have established.
PreflightInv ==
    \A s \in Sessions : KindOf(s) = "merge" =>
        /\ pc[s] = "readChecks" =>
             snap[s] \in contract[job[s]].heads /\ snap[s] \in since[s].ready
        /\ pc[s] \in {"request", "call"} =>
             snap[s] \in contract[job[s]].heads /\ Vetted(s, snap[s])

\* An effect has a run that is past its call.
EffectInv == \A x \in effects : x.by \in runs /\ pc[x.by] \in {"record", "done"}

\* What a session has begun stays: its job, its contract, what it has seen.
LEMMA Frame ==
  ASSUME Base, Next, NEW t \in Sessions, pc[t] # "idle"
  PROVE  /\ pc'[t] # "idle" /\ job'[t] = job[t] /\ contract'[job[t]] = contract[job[t]]
         /\ since[t].clean \subseteq since'[t].clean
         /\ since[t].ready \subseteq since'[t].ready
<1> USE DEF Base, PlaceInv, TypeOK, Labels
<1>1. ASSUME NEW s \in Sessions, Submission(s)
      PROVE  /\ pc'[t] # "idle" /\ job'[t] = job[t] /\ contract'[job[t]] = contract[job[t]]
             /\ since'[t] = since[t]
  <2>1. PICK a \in Approvals, kind \in Kinds, heads \in SUBSET Versions,
             label \in {"request", "readMessage", "readPull"} :
               Submit(s, a, kind, heads, label)
    BY <1>1 DEF Submission, Kinds
  <2> QED  BY <2>1 DEF Submit, Begin, Goto
<1>2. ASSUME NEW s \in Sessions, NEW a \in Approvals, Approve(s, a)
      PROVE  /\ pc'[t] # "idle" /\ job'[t] = job[t] /\ contract'[job[t]] = contract[job[t]]
             /\ since'[t] = since[t]
  BY <1>2 DEF Approve, Begin, Goto
<1>3. ASSUME NEW s \in Sessions,
             \/ Refusal(s) \/ SawPull(s) \/ SawChecks(s) \/ SawMessage(s) \/ Started(s)
             \/ Called(s) \/ CalledInVain(s)
             \/ RequestApproval(s) \/ RecordOutcome(s) \/ Abort(s)
      PROVE  /\ pc'[t] # "idle" /\ job' = job /\ contract' = contract /\ since' = since
  <2>1. job' = job /\ contract' = contract /\ since' = since
    BY <1>3 DEF Refusal, Refuse, SawPull, SawChecks, SawMessage, GoOn, Started, Called,
                CalledInVain, RequestApproval, RecordOutcome, Abort, stored
  <2>2. pc'[t] = pc[t] \/ pc'[t] # "idle"
    <3>1. \E label \in Labels \ {"idle"} : pc' = [pc EXCEPT ![s] = label]
      BY <1>3 DEF Refusal, Refuse, SawPull, SawChecks, SawMessage, GoOn, Started, Called,
                  TookEffect, CalledInVain, NoEffect, RequestApproval, RecordOutcome,
                  Abort, Goto, Answer
    <3> QED  BY <3>1
  <2> QED  BY <2>1, <2>2
<1>4. ASSUME OthersStep
      PROVE  /\ pc'[t] # "idle" /\ job' = job /\ contract' = contract
             /\ since[t].clean \subseteq since'[t].clean
             /\ since[t].ready \subseteq since'[t].ready
  BY <1>4 DEF OthersStep, Others, stored
<1> QED  BY Steps, <1>1, <1>2, <1>3, <1>4 DEF SessionStep

\* A session's step moves that session alone, and of GitHub only by a merge.
LEMMA Moves ==
  ASSUME Base, NEW s \in Sessions, SessionStep(s)
  PROVE  /\ \A t \in Sessions \ {s} : pc'[t] = pc[t] /\ snap'[t] = snap[t]
                                      /\ outcome'[t] = outcome[t] /\ reply'[t] = reply[t]
                                      /\ since'[t] = since[t] /\ job'[t] = job[t]
         /\ runs' \in {runs, runs \cup {s}}
         /\ CleanHeads' = CleanHeads /\ ReadyHeads' \subseteq ReadyHeads
<1> USE DEF Base, TypeOK
<1>1. CASE Submission(s) \/ \E a \in Approvals : Approve(s, a)
  <2>1. PICK a, label : Begin(s, a, label)
    BY <1>1 DEF Submission, Submit, Approve
  <2>2. runs' \in {runs, runs \cup {s}}
    BY <1>1 DEF Submission, Submit, Approve
  <2>3. CleanHeads' = CleanHeads /\ ReadyHeads' = ReadyHeads
    BY <2>1 DEF Begin, provider, CleanHeads, ReadyHeads
  <2> QED  BY <2>1, <2>2, <2>3 DEF Begin, Goto
<1>2. CASE \/ Refusal(s) \/ SawPull(s) \/ SawChecks(s) \/ SawMessage(s) \/ Started(s)
           \/ RequestApproval(s) \/ RecordOutcome(s) \/ Abort(s)
  <2>1. UNCHANGED <<provider, job, runs, since>>
    BY <1>2 DEF Refusal, Refuse, SawPull, SawChecks, SawMessage, GoOn, Started,
                RequestApproval, RecordOutcome, Abort
  <2>2. CleanHeads' = CleanHeads /\ ReadyHeads' = ReadyHeads
    BY <2>1 DEF provider, CleanHeads, ReadyHeads
  <2>3. \A t \in Sessions \ {s} : pc'[t] = pc[t] /\ snap'[t] = snap[t]
                                 /\ outcome'[t] = outcome[t] /\ reply'[t] = reply[t]
    BY <1>2 DEF Refusal, Refuse, SawPull, SawChecks, SawMessage, GoOn, Started,
                RequestApproval, RecordOutcome, Abort, Goto, Answer
  <2> QED  BY <2>1, <2>2, <2>3
<1>3. CASE Called(s) \/ CalledInVain(s)
  <2>1. CleanHeads' = CleanHeads
    BY <1>3 DEF Called, CalledInVain, CleanHeads
  <2>2. ReadyHeads' \subseteq ReadyHeads
    <3>1. pull' = pull \/ pull'.state = "merged"
      BY <1>3 DEF Called, CalledInVain, NoEffect, PullStates
    <3> QED  BY <3>1 DEF ReadyHeads
  <2> QED  BY <1>3, <2>1, <2>2 DEF Called, CalledInVain, TookEffect, NoEffect, Goto
<1> QED  BY <1>1, <1>2, <1>3 DEF SessionStep

LEMMA SinceStep ==
  ASSUME Base, SinceInv, Next
  PROVE  SinceInv'
<1>1. ASSUME NEW s \in Sessions, SessionStep(s)
      PROVE  SinceInv'
  <2>1. ASSUME NEW t \in Sessions, t # s, pc'[t] \notin {"idle", "done"}
        PROVE  CleanHeads' \subseteq since'[t].clean /\ ReadyHeads' \subseteq since'[t].ready
    BY <1>1, <2>1, Moves DEF SinceInv
  <2>2. \/ CleanHeads' \subseteq since'[s].clean /\ ReadyHeads' \subseteq since'[s].ready
        \/ pc'[s] \in {"idle", "done"}
    <3>1. CASE pc[s] = "idle"
      <4>1. PICK a, label : Begin(s, a, label)
        BY <1>1, <3>1 DEF SessionStep, Submission, Submit, Approve, Refusal, SawPull,
             SawChecks, SawMessage, Started, Called, CalledInVain, RequestApproval,
             RecordOutcome, Abort
      <4>2. since'[s] = [clean |-> CleanHeads, ready |-> ReadyHeads]
        BY <4>1 DEF Begin, Base, TypeOK
      <4> QED  BY <1>1, <4>2, Moves
    <3>2. CASE pc[s] = "done"
      BY <1>1, <3>2 DEF SessionStep, Submission, Submit, Approve, Begin, Refusal, SawPull,
           SawChecks, SawMessage, Started, Called, CalledInVain, RequestApproval,
           RecordOutcome, Abort
    <3>3. CASE pc[s] \notin {"idle", "done"}
      BY <1>1, <3>3, Moves, Frame, Steps DEF SinceInv
    <3> QED  BY <3>1, <3>2, <3>3
  <2> QED  BY <2>1, <2>2 DEF SinceInv
<1>2. ASSUME OthersStep
      PROVE  SinceInv'
  <2>1. pc' = pc /\ since' = [t \in Sessions |->
                               IF pc[t] \in {"idle", "done"} THEN since[t]
                               ELSE [clean |-> since[t].clean \cup CleanHeads',
                                     ready |-> since[t].ready \cup ReadyHeads']]
    BY <1>2 DEF OthersStep, Others
  <2> QED  BY <2>1 DEF SinceInv
<1> QED  BY Steps, <1>1, <1>2

LEMMA PreflightStep ==
  ASSUME Base, SinceInv, PreflightInv, Next
  PROVE  PreflightInv'
<1> DEFINE Known(t) ==
      KindOf(t) = "merge" =>
        /\ pc[t] = "readChecks" =>
             snap[t] \in contract[job[t]].heads /\ snap[t] \in since[t].ready
        /\ pc[t] \in {"request", "call"} =>
             snap[t] \in contract[job[t]].heads /\ Vetted(t, snap[t])
<1> USE DEF Base, KindOf, Vetted
<1>1. ASSUME NEW t \in Sessions, pc[t] # "idle", pc'[t] = pc[t], snap'[t] = snap[t]
      PROVE  Known(t)'
  BY <1>1, Frame DEF PreflightInv
<1>2. ASSUME NEW s \in Sessions, SessionStep(s)
      PROVE  PreflightInv'
  <2>1. ASSUME NEW t \in Sessions \ {s}
        PROVE  Known(t)'
    BY <1>1, <1>2, <2>1, Moves
  <2>2. Known(s)'
    <3> USE DEF TypeOK, Goto
    <3>1. CASE Submission(s)
      <4>1. PICK a \in Approvals, heads \in SUBSET Versions :
              \/ \E kind \in Kinds \ {"merge"} : Submit(s, a, kind, heads, "request")
              \/ Submit(s, a, "reply", heads, "readMessage")
              \/ Submit(s, a, "merge", heads, "readPull")
        BY <3>1 DEF Submission
      <4> QED  BY <4>1 DEF Submit, Begin
    <3>2. CASE \E a \in Approvals : Approve(s, a)
      BY <3>2 DEF Approve, Begin
    <3>3. CASE SawPull(s)
      <4>1. pull.head \in Versions /\ pull.head \in ReadyHeads
        BY <3>3 DEF SawPull, PlaceInv, Contracts, NoContract, PullStates, ReadyHeads
      <4>2. pull.head \in since[s].ready
        BY <3>3, <4>1 DEF SawPull, SinceInv
      <4> QED  BY <3>3, <4>2 DEF SawPull, stored
    <3>4. CASE SawChecks(s)
      <4>1. snap[s] \in CleanHeads
        BY <3>4 DEF SawChecks, CleanHeads
      <4>2. snap[s] \in since[s].clean
        BY <3>4, <4>1 DEF SawChecks, SinceInv
      <4>3. snap[s] \in contract[job[s]].heads /\ snap[s] \in since[s].ready
        BY <3>4 DEF SawChecks, PreflightInv, PlaceInv
      <4> QED  BY <3>4, <4>2, <4>3 DEF SawChecks, GoOn, stored
    <3>5. CASE SawMessage(s) \/ Started(s)
      BY <3>5 DEF SawMessage, Started, GoOn, stored, PlaceInv
    <3>6. CASE Refusal(s) \/ Called(s) \/ CalledInVain(s)
      BY <3>6 DEF Refusal, Refuse, Answer, Called, TookEffect, CalledInVain, NoEffect
    <3>7. CASE RequestApproval(s) \/ RecordOutcome(s) \/ Abort(s)
      BY <3>7 DEF RequestApproval, RecordOutcome, Abort, Answer
    <3> QED  BY <1>2, <3>1, <3>2, <3>3, <3>4, <3>5, <3>6, <3>7 DEF SessionStep
  <2> QED  BY <2>1, <2>2 DEF PreflightInv
<1>3. ASSUME OthersStep
      PROVE  PreflightInv'
  <2>1. pc' = pc /\ snap' = snap
    BY <1>3 DEF OthersStep, Others
  <2>2. ASSUME NEW t \in Sessions
        PROVE  Known(t)'
    BY <1>1, <2>1, <2>2
  <2> QED  BY <2>2 DEF PreflightInv
<1> QED  BY Steps, <1>2, <1>3

LEMMA EffectStep ==
  ASSUME Base, EffectInv, Next
  PROVE  EffectInv'
<1> USE DEF Base, TypeOK, Goto
<1>1. ASSUME NEW s \in Sessions, SessionStep(s)
      PROVE  EffectInv'
  <2>1. ASSUME NEW x \in effects, x.by # s
        PROVE  x.by \in runs' /\ pc'[x.by] \in {"record", "done"}
    BY <1>1, <2>1, Moves DEF EffectInv
  <2>2. CASE Called(s)
    <3>1. s \in runs' /\ pc'[s] = "record"
      BY <2>2 DEF Called, TookEffect, PlaceInv
    <3>2. effects' = effects \cup {[by |-> s, head |-> snap[s]]}
      BY <2>2 DEF Called, TookEffect
    <3> QED  BY <2>1, <3>1, <3>2 DEF EffectInv
  <2>3. CASE ~Called(s)
    <3>1. effects' = effects
      BY <1>1, <2>3 DEF SessionStep, Submission, Submit, Approve, Begin, Refusal, Refuse,
           SawPull, SawChecks, SawMessage, GoOn, Started, CalledInVain, NoEffect,
           RequestApproval, RecordOutcome, Abort, provider
    <3>2. pc[s] \in {"record", "done"} => pc'[s] \in {"record", "done"}
      BY <1>1, <2>3 DEF SessionStep, Submission, Submit, Approve, Begin, Refusal, SawPull,
           SawChecks, SawMessage, Started, CalledInVain, RequestApproval, RecordOutcome,
           Abort, Answer
    <3>3. runs \subseteq runs'
      BY <1>1, Moves
    <3> QED  BY <2>1, <3>1, <3>2, <3>3 DEF EffectInv
  <2> QED  BY <2>2, <2>3
<1>2. ASSUME OthersStep
      PROVE  EffectInv'
  BY <1>2 DEF OthersStep, Others, EffectInv
<1> QED  BY Steps, <1>1, <1>2

-----------------------------------------------------------------------------
(* Merges.                                                                 *)

MergeInv == SinceInv /\ PreflightInv /\ EffectInv /\ MergedWasVetted /\ PinnedHeadOnly

\* The head a new effect merges is the one its preflight vouched for; the
\* older effects keep their contract and what their runs have seen.
LEMMA MergeStep ==
  ASSUME Base, MergeInv, Next
  PROVE  MergedWasVetted' /\ PinnedHeadOnly'
<1> DEFINE Sound(x) == KindOf(x.by) = "merge" =>
             Vetted(x.by, x.head) /\ x.head \in contract[job[x.by]].heads
<1>1. ASSUME NEW x \in effects
      PROVE  Sound(x)'
  <2>1. x.by \in Sessions /\ pc[x.by] # "idle"
    BY DEF Base, TypeOK, MergeInv, EffectInv
  <2>2. KindOf(x.by)' = KindOf(x.by) /\ contract'[job'[x.by]] = contract[job[x.by]]
    BY <2>1, Frame DEF KindOf
  <2>3. Sound(x)
    BY DEF MergeInv, MergedWasVetted, PinnedHeadOnly
  <2> QED  BY <2>1, <2>2, <2>3, Frame DEF Vetted
<1>2. ASSUME NEW s \in Sessions, Called(s)
      PROVE  Sound([by |-> s, head |-> snap[s]])'
  <2>1. job' = job /\ contract' = contract /\ since' = since /\ snap' = snap
    BY <1>2 DEF Called, stored
  <2> QED  BY <1>2, <2>1 DEF Called, MergeInv, PreflightInv, KindOf, Vetted
<1>3. ASSUME NEW x \in effects'
      PROVE  Sound(x)'
  <2>1. CASE x \in effects
    BY <1>1, <2>1
  <2>2. CASE x \notin effects
    <3>1. \E s \in Sessions : Called(s) /\ x = [by |-> s, head |-> snap[s]] /\ snap' = snap
      BY Steps, <1>3, <2>2
         DEF SessionStep, Submission, Submit, Approve, Begin, Refusal, Refuse, SawPull,
             SawChecks, SawMessage, GoOn, Started, Called, TookEffect, CalledInVain,
             NoEffect, RequestApproval, RecordOutcome, Abort, OthersStep, Others, provider
    <3> QED  BY <3>1, <1>2
  <2> QED  BY <2>1, <2>2
<1> QED  BY <1>3 DEF MergedWasVetted, PinnedHeadOnly

LEMMA MergeInit ==
  ASSUME Init
  PROVE  MergeInv
BY DEF Init, MergeInv, SinceInv, PreflightInv, EffectInv, MergedWasVetted, PinnedHeadOnly

LEMMA MergeStutter ==
  ASSUME UNCHANGED vars
  PROVE  /\ (Base => Base') /\ (MergeInv => MergeInv')
<1> USE DEF vars, stored, provider, KindOf
<1>1. Base => Base'
  BY DEF Base, TypeOK, PlaceInv, ContractInv
<1>2. MergeInv => MergeInv'
  BY DEF MergeInv, SinceInv, PreflightInv, EffectInv, MergedWasVetted, PinnedHeadOnly,
         Vetted, CleanHeads, ReadyHeads
<1> QED  BY <1>1, <1>2

LEMMA MergeAlways == Spec => [](Base /\ MergeInv)
<1>1. Base /\ MergeInv /\ Next => (Base /\ MergeInv)'
  BY BaseStep, SinceStep, PreflightStep, EffectStep, MergeStep DEF MergeInv
<1> QED  BY BaseInit, MergeInit, MergeStutter, <1>1, PTL DEF Spec

\* Spec: what a run merges is a commit that GitHub has shown since the
\* approval as the head of an open, mergeable pull request and without a
\* running or bad check, for any number of runs and pushes.
THEOREM OnlyVettedIsMerged == Spec => []MergedWasVetted
BY MergeAlways, PTL DEF MergeInv

\* Spec: no run merges a head that its contract does not allow.
THEOREM OnlyPinnedIsMerged == Spec => []PinnedHeadOnly
BY MergeAlways, PTL DEF MergeInv

-----------------------------------------------------------------------------
(* Approvals, missions and receipts.                                       *)

OutcomeInv == \A s \in Sessions : outcome[s] = "complete" => \E x \in effects : x.by = s

\* The submission that opened the approval of a merge is over and had its
\* preflight passed.
OpenInv ==
    \A a \in Approvals : approval[a] # "absent" /\ contract[a].kind = "merge" =>
        \E s \in Sessions : job[s] = a /\ pc[s] = "done" /\ Vetted(s, snap[s])

RecordInv == MergeInv /\ OutcomeInv /\ CompleteIsDone /\ OpenInv /\ ActiveHasRun

LEMMA EffectsStay ==
  ASSUME Next
  PROVE  effects \subseteq effects'
<1>1. ASSUME NEW s \in Sessions, SessionStep(s)
      PROVE  effects \subseteq effects'
  BY <1>1 DEF SessionStep, Submission, Submit, Approve, Begin, Refusal, Refuse, SawPull,
       SawChecks, SawMessage, GoOn, Started, Called, TookEffect, CalledInVain, NoEffect,
       RequestApproval, RecordOutcome, Abort, provider
<1>2. ASSUME OthersStep
      PROVE  effects \subseteq effects'
  BY <1>2 DEF OthersStep, Others
<1> QED  BY Steps, <1>1, <1>2

LEMMA OutcomeStep ==
  ASSUME Base, OutcomeInv, Next
  PROVE  OutcomeInv'
<1> USE DEF Base, TypeOK
<1>1. ASSUME NEW s \in Sessions, SessionStep(s)
      PROVE  OutcomeInv'
  <2>1. CASE Called(s)
    <3>1. effects' = effects \cup {[by |-> s, head |-> snap[s]]}
      BY <2>1 DEF Called, TookEffect
    <3>2. \E x \in effects' : x.by = s
      <4>1. [by |-> s, head |-> snap[s]] \in effects'
        BY <3>1
      <4>2. [by |-> s, head |-> snap[s]].by = s
        OBVIOUS
      <4> QED  BY <4>1, <4>2
    <3>3. ASSUME NEW t \in Sessions, t # s, outcome'[t] = "complete"
          PROVE  \E x \in effects' : x.by = t
      <4>1. outcome[t] = "complete"
        BY <1>1, <3>3, Moves
      <4> QED  BY <3>1, <3>3, <4>1 DEF OutcomeInv
    <3> QED  BY <3>2, <3>3 DEF OutcomeInv
  <2>2. CASE ~Called(s)
    <3>1. outcome'[s] \in {outcome[s], "failed"}
      BY <1>1, <2>2 DEF SessionStep, Submission, Submit, Approve, Begin, Refusal, Refuse,
           SawPull, SawChecks, SawMessage, GoOn, Started, CalledInVain, NoEffect,
           RequestApproval, RecordOutcome, Abort
    <3> QED  BY <1>1, <3>1, Moves, EffectsStay DEF OutcomeInv
  <2> QED  BY <2>1, <2>2
<1>2. ASSUME OthersStep
      PROVE  OutcomeInv'
  BY <1>2 DEF OthersStep, Others, OutcomeInv
<1> QED  BY Steps, <1>1, <1>2

\* Statuses are written by the run itself, which had its effect before.
LEMMA CompleteStep ==
  ASSUME Base, EffectInv, OutcomeInv, CompleteIsDone, Next
  PROVE  CompleteIsDone'
<1> USE DEF Base, TypeOK
<1>1. ASSUME NEW x \in effects
      PROVE  x \in effects' /\ job'[x.by] = job[x.by]
  <2>1. x.by \in Sessions /\ pc[x.by] # "idle"
    BY DEF EffectInv
  <2> QED  BY <2>1, Frame, EffectsStay
<1>2. ASSUME NEW a \in Approvals, mission'[a] = "complete"
      PROVE  \E x \in effects' : job'[x.by] = a
  <2>1. CASE mission[a] = "complete"
    <3>1. PICK x \in effects : job[x.by] = a
      BY <2>1 DEF CompleteIsDone
    <3> QED  BY <3>1, <1>1
  <2>2. CASE mission[a] # "complete"
    <3>1. PICK s \in Sessions : RecordOutcome(s) /\ job[s] = a /\ outcome[s] = "complete"
      <4>1. ASSUME NEW s \in Sessions, SessionStep(s)
            PROVE  RecordOutcome(s) /\ job[s] = a /\ outcome[s] = "complete"
        BY <1>2, <2>2, <4>1
           DEF SessionStep, Submission, Submit, Approve, Refusal, Refuse, SawPull,
               SawChecks, SawMessage, GoOn, Started, Called, CalledInVain,
               RequestApproval, RecordOutcome, Abort, stored
      <4>2. ~OthersStep
        BY <1>2, <2>2 DEF OthersStep, Others, stored
      <4> QED  BY Steps, <4>1, <4>2
    <3>2. PICK x \in effects : x.by = s
      BY <3>1 DEF OutcomeInv
    <3> QED  BY <3>1, <3>2, <1>1
  <2> QED  BY <2>1, <2>2
<1> QED  BY <1>2 DEF CompleteIsDone

LEMMA OpenStep ==
  ASSUME Base, PreflightInv, OpenInv, Next
  PROVE  OpenInv'
<1> USE DEF Base, TypeOK
<1>1. ASSUME NEW t \in Sessions, pc[t] = "done"
      PROVE  pc'[t] = "done" /\ job'[t] = job[t] /\ (Vetted(t, snap[t]) => Vetted(t, snap[t])')
  <2>1. pc'[t] = "done" /\ snap'[t] = snap[t]
    <3>1. ASSUME NEW s \in Sessions, SessionStep(s)
          PROVE  pc'[t] = "done" /\ snap'[t] = snap[t]
      <4>1. s # t
        BY <1>1, <3>1 DEF SessionStep, Submission, Submit, Approve, Begin, Refusal, SawPull,
             SawChecks, SawMessage, Started, Called, CalledInVain, RequestApproval,
             RecordOutcome, Abort
      <4> QED  BY <1>1, <3>1, <4>1, Moves
    <3>2. ASSUME OthersStep
          PROVE  pc'[t] = "done" /\ snap'[t] = snap[t]
      BY <1>1, <3>2 DEF OthersStep, Others
    <3> QED  BY Steps, <3>1, <3>2
  <2> QED  BY <1>1, <2>1, Frame DEF Vetted
<1>2. ASSUME NEW a \in Approvals, approval'[a] # "absent", contract'[a].kind = "merge"
      PROVE  \E t \in Sessions : job'[t] = a /\ pc'[t] = "done" /\ Vetted(t, snap[t])'
  <2>1. CASE approval[a] # "absent"
    <3>1. contract'[a] = contract[a]
      <4>1. contract[a] # NoContract
        BY <2>1 DEF ContractInv
      <4>2. ASSUME NEW s \in Sessions, SessionStep(s)
            PROVE  contract'[a] = contract[a]
        BY <4>1, <4>2
           DEF SessionStep, Submission, Submit, Approve, Refusal, Refuse, SawPull,
               SawChecks, SawMessage, GoOn, Started, Called, CalledInVain,
               RequestApproval, RecordOutcome, Abort, stored
      <4> QED  BY Steps, <4>2 DEF OthersStep, Others, stored
    <3>2. PICK t \in Sessions : job[t] = a /\ pc[t] = "done" /\ Vetted(t, snap[t])
      BY <1>2, <2>1, <3>1 DEF OpenInv
    <3> QED  BY <3>2, <1>1
  <2>2. CASE approval[a] = "absent"
    <3>1. PICK s \in Sessions : RequestApproval(s) /\ job[s] = a
      <4>1. ASSUME NEW s \in Sessions, SessionStep(s)
            PROVE  RequestApproval(s) /\ job[s] = a
        BY <1>2, <2>2, <4>1
           DEF SessionStep, Submission, Submit, Approve, Refusal, Refuse, SawPull,
               SawChecks, SawMessage, GoOn, Started, Called, CalledInVain,
               RequestApproval, RecordOutcome, Abort, stored
      <4>2. ~OthersStep
        BY <1>2, <2>2 DEF OthersStep, Others, stored
      <4> QED  BY Steps, <4>1, <4>2
    <3>2. /\ contract' = contract /\ job' = job /\ snap' = snap /\ since' = since
          /\ pc'[s] = "done" /\ pc[s] = "request"
      BY <3>1 DEF RequestApproval, Answer, Goto
    <3>3. Vetted(s, snap[s])
      BY <1>2, <3>1, <3>2 DEF PreflightInv, KindOf
    <3> QED  BY <3>1, <3>2, <3>3 DEF Vetted
  <2> QED  BY <2>1, <2>2
<1> QED  BY <1>2 DEF OpenInv

\* A mission becomes active with a run, and the run takes it out of active or
\* is lost; who is answered ok by a run has its receipt.
LEMMA ActiveStep ==
  ASSUME Base, ActiveHasRun, Next
  PROVE  ActiveHasRun'
<1> DEFINE Working(a) == \E t \in runs : job[t] = a /\ (pc[t] # "done" \/ reply[t] = "lost")
           Filed(t) == outcome[t] # "none" /\ reply[t] = "ok" =>
                         [by |-> t, outcome |-> outcome[t]] \in receipts
<1> USE DEF Base, TypeOK, Goto
<1>1. ASSUME NEW s \in Sessions, SessionStep(s)
      PROVE  ActiveHasRun'
  <2>1. ASSUME NEW a \in Approvals, mission[a] = "active", mission'[a] = "active"
        PROVE  Working(a)'
    <3>1. PICK t \in runs : job[t] = a /\ (pc[t] # "done" \/ reply[t] = "lost")
      BY <2>1 DEF ActiveHasRun
    <3>2. t \in runs' /\ job'[t] = a
      BY <1>1, <3>1, Moves, Frame DEF PlaceInv
    <3>3. CASE t # s
      BY <1>1, <3>1, <3>2, <3>3, Moves
    <3>4. CASE t = s
      <4>1. pc[s] \notin {"idle", "request"} /\ ~RequestApproval(s)
        BY <3>1, <3>4 DEF PlaceInv, RequestApproval
      <4>2. ~RecordOutcome(s)
        BY <2>1, <3>1, <3>4 DEF RecordOutcome
      <4>3. pc'[s] # "done" \/ reply'[s] = "lost"
        BY <1>1, <3>1, <3>4, <4>1, <4>2
           DEF SessionStep, Submission, Submit, Approve, Begin, Refusal, Refuse, Submitting,
               SawPull, SawChecks, SawMessage, GoOn, Started, Called, TookEffect,
               CalledInVain, NoEffect, Abort, Answer
      <4> QED  BY <3>2, <3>4, <4>3
    <3> QED  BY <3>3, <3>4
  <2>2. ASSUME NEW a \in Approvals, mission[a] # "active", mission'[a] = "active"
        PROVE  Working(a)'
    <3>1. Approve(s, a)
      <4>1. ~RecordOutcome(s) /\ ~RequestApproval(s)
        BY <2>2 DEF RecordOutcome, RequestApproval
      <4> QED  BY <1>1, <2>2, <4>1
           DEF SessionStep, Submission, Submit, Approve, Refusal, Refuse, SawPull,
               SawChecks, SawMessage, GoOn, Started, Called, CalledInVain, Abort, stored
    <3>2. s \in runs' /\ job'[s] = a /\ pc'[s] = "execute"
      BY <3>1 DEF Approve, Begin
    <3> QED  BY <3>2
  <2>3. receipts \subseteq receipts'
    BY <1>1 DEF SessionStep, Submission, Submit, Approve, Begin, Refusal, Refuse, SawPull,
         SawChecks, SawMessage, GoOn, Started, Called, CalledInVain, RequestApproval,
         RecordOutcome, Abort, stored
  <2>4. ASSUME NEW t \in Sessions
        PROVE  Filed(t)'
    <3>1. CASE t # s
      BY <1>1, <2>3, <3>1, Moves DEF ActiveHasRun
    <3>2. CASE t = s /\ RecordOutcome(s)
      BY <3>2 DEF RecordOutcome
    <3>3. CASE t = s /\ RequestApproval(s)
      BY <3>3 DEF RequestApproval, PlaceInv
    <3>4. CASE t = s /\ ~RecordOutcome(s) /\ ~RequestApproval(s)
      <4>1. reply'[s] \in {reply[s], "refused", "lost"}
        BY <1>1, <3>4
           DEF SessionStep, Submission, Submit, Approve, Begin, Refusal, Refuse, SawPull,
               SawChecks, SawMessage, GoOn, Started, Called, CalledInVain, Abort, Answer
      <4>2. outcome'[s] = outcome[s] \/ reply[s] = "none"
        BY <1>1, <3>4
           DEF SessionStep, Submission, Submit, Approve, Begin, Refusal, SawPull,
               SawChecks, SawMessage, GoOn, Started, Called, CalledInVain, Abort, PlaceInv
      <4> QED  BY <2>3, <3>4, <4>1, <4>2 DEF ActiveHasRun
    <3> QED  BY <3>1, <3>2, <3>3, <3>4
  <2> QED  BY <2>1, <2>2, <2>4 DEF ActiveHasRun
<1>2. ASSUME OthersStep
      PROVE  ActiveHasRun'
  BY <1>2 DEF OthersStep, Others, stored, ActiveHasRun
<1> QED  BY Steps, <1>1, <1>2

LEMMA RecordInit ==
  ASSUME Init
  PROVE  RecordInv
<1>1. MergeInv
  BY MergeInit
<1>2. OutcomeInv /\ CompleteIsDone /\ OpenInv /\ ActiveHasRun
  BY DEF Init, OutcomeInv, CompleteIsDone, OpenInv, ActiveHasRun
<1> QED  BY <1>1, <1>2 DEF RecordInv

LEMMA RecordAlways == Spec => [](Base /\ RecordInv)
<1>1. Base /\ RecordInv /\ Next => (Base /\ RecordInv)'
  BY BaseStep, SinceStep, PreflightStep, EffectStep, MergeStep, OutcomeStep, CompleteStep,
     OpenStep, ActiveStep DEF MergeInv, RecordInv
<1>2. Base /\ RecordInv /\ UNCHANGED vars => (Base /\ RecordInv)'
  BY MergeStutter DEF RecordInv, OutcomeInv, CompleteIsDone, OpenInv, ActiveHasRun, Vetted,
                      KindOf, vars, stored, provider
<1> QED  BY BaseInit, RecordInit, <1>1, <1>2, PTL DEF Spec

\* Spec: a mission that says complete has the effect it was approved for,
\* whatever times out and however many decisions were taken.
THEOREM CompleteHasEffect == Spec => []CompleteIsDone
BY RecordAlways, PTL DEF RecordInv

\* Spec: no approval of a merge is opened on a preflight that failed.
THEOREM OpenedVetted == Spec => []ApprovalWasVetted
<1>1. RecordInv => ApprovalWasVetted
  BY DEF RecordInv, OpenInv, ApprovalWasVetted
<1> QED  BY RecordAlways, <1>1, PTL

\* Spec: an active mission has a run at work or one that was lost, and a run
\* that was answered left its receipt.
THEOREM ActiveIsWorkedFor == Spec => []ActiveHasRun
BY RecordAlways, PTL DEF RecordInv

-----------------------------------------------------------------------------
(* Each step is one of IntegrationCall's, or a stutter.                    *)

LEMMA CallInit ==
  ASSUME Init
  PROVE  Governed!CallInit
BY DEF Init, Governed!CallInit

LEMMA CallStep ==
  ASSUME Base, EffectInv, [Next]_vars
  PROVE  [Governed!CallNext]_(Governed!callVars)
<1> DEFINE ph == [s \in Sessions |->
                    IF s \notin runs THEN "idle"
                    ELSE IF pc[s] \in {"record", "done"} THEN pc[s] ELSE "call"]
           ef == {x.by : x \in effects}
<1> USE DEF Base, TypeOK, Labels, Goto
<1>1. ASSUME ph' = ph, ef' = ef, outcome' = outcome
      PROVE  UNCHANGED Governed!callVars
  BY <1>1 DEF Governed!callVars
<1>2. ASSUME NEW s \in Sessions, SessionStep(s)
      PROVE  [Governed!CallNext]_(Governed!callVars)
  <2>1. CASE s \notin runs'
    <3>1. s \notin runs /\ runs' = runs /\ ph' = ph
      BY <1>2, <2>1, Moves
    <3>2. effects' = effects /\ outcome' = outcome
      BY <1>2, <3>1
         DEF SessionStep, Submission, Submit, Approve, Begin, Refusal, Refuse, Submitting,
             SawPull, SawChecks, SawMessage, GoOn, Started, Called, CalledInVain,
             RequestApproval, RecordOutcome, Abort, provider, PlaceInv
    <3> QED  BY <3>1, <3>2, <1>1
  <2>2. CASE s \in runs' /\ s \notin runs
    <3>1. \E a \in Approvals : Approve(s, a)
      BY <1>2, <2>2
         DEF SessionStep, Submission, Submit, Approve, Refusal, Refuse, SawPull, SawChecks,
             SawMessage, GoOn, Started, Called, CalledInVain, RequestApproval,
             RecordOutcome, Abort
    <3>2. effects' = effects /\ outcome' = outcome /\ pc' = [pc EXCEPT ![s] = "execute"]
          /\ runs' = runs \cup {s}
      BY <3>1 DEF Approve, Begin, provider
    <3>3. ph' = [ph EXCEPT ![s] = "call"] /\ ph[s] = "idle"
      BY <2>2, <3>2
    <3> QED  BY <3>2, <3>3 DEF Governed!CallNext, Governed!Begin
  <2>3. CASE s \in runs
    <3>1. runs' = runs
      <4>1. runs \cup {s} = runs
        BY <2>3
      <4> QED  BY <1>2, <4>1, Moves
    <3>2. CASE pc'[s] \notin {"record", "done"}
      <4>1. pc[s] \notin {"record", "done"} /\ effects' = effects /\ outcome' = outcome
        BY <1>2, <2>3, <3>2
           DEF SessionStep, Submission, Submit, Approve, Begin, Refusal, Refuse, Submitting,
               SawPull, SawChecks, SawMessage, GoOn, Started, Called, TookEffect,
               CalledInVain, NoEffect, RequestApproval, RecordOutcome, Abort, Answer,
               provider, PlaceInv
      <4>2. ph' = ph
        BY <1>2, <3>1, <3>2, <4>1, Moves
      <4> QED  BY <4>1, <4>2, <1>1
    <3>3. CASE Called(s) \/ CalledInVain(s) \/ Refusal(s)
      <4>1. pc' = [pc EXCEPT ![s] = "record"] /\ pc[s] \notin {"record", "done"}
        BY <2>3, <3>3 DEF Called, TookEffect, CalledInVain, NoEffect, Refusal, Refuse, Submitting
      <4>2. ph' = [ph EXCEPT ![s] = "record"] /\ ph[s] = "call"
        BY <2>3, <3>1, <4>1
      <4>3. PICK r \in {"complete", "failed"} : outcome' = [outcome EXCEPT ![s] = r]
        BY <2>3, <3>3 DEF Called, TookEffect, CalledInVain, NoEffect, Refusal, Refuse, Submitting
      <4>4. ef' = ef \cup {s} \/ (outcome'[s] = "failed" /\ ef' = ef)
        <5>1. CASE Called(s)
          <6>1. effects' = effects \cup {[by |-> s, head |-> snap[s]]}
            BY <5>1 DEF Called, TookEffect
          <6> DEFINE new == [by |-> s, head |-> snap[s]]
          <6>2. new.by = s
            OBVIOUS
          <6>3. \A y : y \in ef' <=> \E x \in effects' : y = x.by
            OBVIOUS
          <6> HIDE DEF new
          <6>4. effects' = effects \cup {new}
            BY <6>1 DEF new
          <6>5. \A y : (\E x \in effects' : y = x.by) <=> (\E x \in effects : y = x.by) \/ y = s
            BY <6>2, <6>4
          <6>6. \A y : y \in ef <=> \E x \in effects : y = x.by
            OBVIOUS
          <6> HIDE DEF ef
          <6> QED  BY <6>3, <6>5, <6>6
        <5>2. CASE CalledInVain(s) \/ Refusal(s)
          BY <2>3, <5>2 DEF CalledInVain, NoEffect, Refusal, Refuse, Submitting, provider
        <5> QED  BY <3>3, <5>1, <5>2
      <4> QED  BY <4>2, <4>3, <4>4 DEF Governed!CallNext, Governed!Call
    <3>4. CASE RecordOutcome(s) \/ Abort(s)
      <4>1. pc' = [pc EXCEPT ![s] = "done"] /\ pc[s] # "done"
            /\ effects' = effects /\ outcome' = outcome
        BY <3>4 DEF RecordOutcome, Abort, Answer, provider
      <4>2. ph' = [ph EXCEPT ![s] = "done"] /\ ph[s] \in {"call", "record"}
        BY <2>3, <3>1, <4>1
      <4> QED  BY <4>1, <4>2 DEF Governed!CallNext, Governed!End
    <3>5. ~RequestApproval(s) /\ ~Submission(s) /\ ~\E a \in Approvals : Approve(s, a)
      BY <2>3 DEF PlaceInv, RequestApproval, Submission, Submit, Approve, Begin
    <3>6. SawPull(s) \/ SawChecks(s) \/ SawMessage(s) \/ Started(s)
            => pc'[s] \notin {"record", "done"}
      BY DEF SawPull, SawChecks, SawMessage, GoOn, Started
    <3> QED  BY <1>2, <3>2, <3>3, <3>4, <3>5, <3>6 DEF SessionStep
  <2> QED  BY <1>2, <2>1, <2>2, <2>3, Moves
<1>3. ASSUME OthersStep
      PROVE  [Governed!CallNext]_(Governed!callVars)
  BY <1>1, <1>3 DEF OthersStep, Others
<1>4. CASE UNCHANGED vars
  BY <1>1, <1>4 DEF vars, provider
<1> QED  BY Steps, <1>2, <1>3, <1>4

\* Spec => CallSpec: to the approvals, the requests of a run are one call that
\* is made once and whose success is never reported without its effect.
THEOREM ImplementsCall == Spec => CallSpec
<1>1. Base /\ RecordInv => EffectInv
  BY DEF RecordInv, MergeInv
<1> QED
  BY RecordAlways, CallInit, CallStep, <1>1, PTL DEF Spec, CallSpec, Governed!CallSpec

=============================================================================

# Main-Jarvis: TLA+ models, checks and proofs

Jarvis takes an operator's command, decides whether it may run, runs it on a
worker, and keeps a record of what happened. This directory holds TLA+ models of
the parts of it that run concurrently and can fail, the TLC runs that check them
on small instances, and TLAPS proofs of what matters most. Every definition is
read from the code; `PROJECT.json` (`map`) names the lines.

## The system

| Component | State | Operations | Hard because |
|---|---|---|---|
| control plane, approvals and missions (`services/control-plane/app`) | rows of missions, approvals, mission_events, receipts in Postgres | request_approval, resolve_approval, update_mission_status, record_receipt | every HTTP request is a session; reads take no lock; sessions keep what they read; work after COMMIT |
| governed workflows (`*_workflow.py`, `integrations/*_adapter.py`) | contract, receipts, mission status; issues, pull requests, drafts outside | submit with preflight, execute after approval | the call outside and its record are not atomic; GitHub and Gmail go on changing between the requests of a run |
| command intake (`command_service.py`) | mission row; `jarvis.commands` | intake | commit, XADD, commit |
| coordinator (`coordinator/coordinator.py`) | none; group `jarvis-coordinator-*` | handle_command, handle_receipt | best-effort POSTs before XACK |
| classifier worker (`executor/worker.py`) | none; group `jarvis-executor` | classify, act, re-route | shares its group and its stream with the executor |
| executor (`executor/executor.py`) | batch in hand; group `jarvis-executor` | handle_execution, internal-failure path | POSTs applied but reported failed, retries, crash, no redelivery |
| SMS approvals (`sms_approval_service.py`) | `approval_sms_tokens` | notify, inbound webhook | sends before commit; two sessions per webhook; the approval is read before the token is locked |
| reminders and heartbeat findings (`approval_reminder_service.py`, `heartbeat_service.py`, `heartbeat/heartbeat.py`) | reminder and finding rows | cycle | one long transaction, texts inside it, overlapping cycles |
| worker registry (`worker_registry_service.py`, `shared/worker_registry_client.py`) | `workers` | register, heartbeat, summary | late requests overwrite newer ones |
| costs (`cost_event_service.py`, `cost_guardrail_service.py`) | `cost_events` | event per receipt, guardrails over a rolling window | findings that nothing but time ends |
| memory (`memory_service.py`) | `memory_items` | create, promote, patch | unique key inside the receipt's transaction; stale PATCHes |
| operator inbox (`operator_inbox_service.py`) | `operator_inbox_state` | derived list; acknowledge, snooze, dismiss | the list changes under every reader |
| voice (`voice/server.py` and its dialogues) | per connection: queue, list, ranking, draft, place in each | one utterance at a time, several requests each | positions that grow stale, replies that are lost, which reading a confirmation belongs to |
| realtime hub, SSE, command center | bounded queues; client maps | broadcast, hydrate, apply | overflow, late responses |

Interaction: a command becomes a mission row and an entry of `jarvis.commands`.
The coordinator asks the guard (DashClaw) and either adds an entry to
`jarvis.execution`, opens an approval, or fails the mission. A decision on an
approval moves the mission and, when approved, either calls GitHub or Gmail or adds
an entry to `jarvis.execution`. The worker and the executor read that stream
through one consumer group. The executor writes its receipts and the mission's
status to the control plane, the worker adds to `jarvis.receipts`, which the
coordinator turns into a status and a receipt. A receipt leaves a cost event and perhaps a
memory. Committed changes are broadcast to browsers, an approval is texted to the operator
after the COMMIT of its request, and the voice server reads approvals, inbox and missions
with requests of its own and writes decisions, triage and governed requests the same way.
Every few minutes a heartbeat run looks at all of it, texts reminders, and opens and resolves
findings, which become items of the inbox.

Hard behaviours, by place:

- **Sessions of the control plane.** Every HTTP request has one SQLAlchemy session
  (`core/db.py`), READ COMMITTED, `expire_on_commit=False`. A SELECT takes no lock; a
  flushed UPDATE holds its row until COMMIT or rollback. What a session read first is what
  `update_status` compares with later (`mission_repo.py:53-60`), however stale it is.
- **After COMMIT.** The resume message and the GitHub and Gmail calls go out after the
  deciding transaction is committed (`approval_service.py:184-210`); a governed call is
  recorded in a second transaction.
- **Streams.** Every worker reads `>` only: what was delivered and not acknowledged never
  comes back. So the place of XACK in each handler decides what is lost.
- **POSTs between processes** can be applied and reported as failed. Executor: nothing is
  acknowledged unless the record is known to be written. Coordinator and worker: best
  effort, then XACK.
- **Two consumers of one group.** Worker and executor share `jarvis-executor` on
  `jarvis.execution`; an entry goes to whichever reads first, re-routed entries included.
- **Everything in small:** retries against the attempt bound, exceptions after XACK, crash
  between any two awaits, a re-used session after a rollback, bounded queues, overlapping
  periodic cycles. `PROJECT.json` (`hazards`) lists them at their lines.

## Modules

| Module | Models | Rests on |
|---|---|---|
| `GovernanceGate` | abstract: work is done under a grant, a grant is used once | |
| `Approvals` | requests to the control plane, as sessions | implements `GovernanceGate` |
| `ApprovalsProofs` | theorems about `Approvals` | TLAPS |
| `IntegrationCall` | abstract: a run calls once, and success is never reported without an effect | |
| `GovernedWorkflow` | the six governed integrations with GitHub and Gmail | implements `IntegrationCall` |
| `GovernedWorkflowProofs` | theorems about `GovernedWorkflow` | TLAPS |
| `StreamGroup` | a Redis stream with one consumer group | external |
| `ReadLoop` | the read loop the workers share | `StreamGroup` |
| `ExecutionContract` | abstract: what an executor may do to its stream and missions | `StreamGroup` |
| `Executor` | `executor/executor.py` | implements `ExecutionContract` |
| `ExecutorProofs` | theorems about `Executor` | TLAPS |
| `Coordinator` | `coordinator/coordinator.py`, both tasks | `ReadLoop` |
| `Worker` | `executor/worker.py` | `ReadLoop` |
| `MissionLoop` | intake, coordinator, decisions, worker and executor together | instances of `Coordinator`, `Worker`, `ExecutionContract`, `GovernanceGate` |
| `MissionLoopProofs` | theorems about `MissionLoop` | TLAPS |
| `Heartbeat` | the heartbeat worker and its runs: reminders, escalations, findings | |
| `HeartbeatProofs` | theorems about `Heartbeat` | TLAPS |
| `LiveUpdates` | the hub, the stream, and one page of the command center | |
| `LiveUpdatesProofs` | theorems about `LiveUpdates` | TLAPS |
| `VoiceTurn` | one utterance on its way through the loop of `voice/server.py` | |
| `VoiceApprovals`, `VoiceInbox`, `VoiceBriefing`, `GovernedDraft` | the four dialogues: `approval_voice.py`, `inbox_voice.py`, `briefing_voice.py`, `governed_action_voice.py` | `VoiceTurn`, `OperatorInbox`, `Lists` |
| `SmsApprovals` | notification and webhook of `sms_approval_service.py` | |
| `Lists` | lists built from what another list has, in its order | |
| `OperatorInbox` | `operator_inbox_service.py`, with what its items are derived from | |
| `OperatorSurfaces` | one voice connection, text messages, inbox and updates over one control plane | instances of the above |
| `OperatorSurfacesProofs` | theorems about `OperatorSurfaces` | TLAPS |
| `WorkerRegistry` | rows and requests of the worker registry | |
| `CostLedger` | cost events and guardrails | |
| `OperatorMemory` | `memory_service.py` | |
| `Supervision` | what a heartbeat run watches, and the runs | `Heartbeat`, instances of `WorkerRegistry`, `CostLedger`, `OperatorMemory` |
| `SupervisionProofs` | a theorem about `Supervision` | TLAPS |
| `MCApprovals`, `MCExecutor`, `MCMissionLoop`, `MCGovernedWorkflow`, `MCHeartbeat`, `MCLiveUpdates`, `MCOperatorSurfaces`, `MCSupervision` | the constants of the runs, and in the last three also their settings | |

An operator of a module whose comment begins with "Mutant" is not part of the
specification. It is what a plausible mistake in the code would turn the definition below
it into; `PROJECT.json` (`mutants`) says which property notices.

### Approvals

One request is one session, and one action is what runs between two awaits at which another
session can come in. `approval`, `mission`, `timeline` and `receipts` are the committed rows;
`job`, `pc`, `seen`, `outcome` and `reply` are the session: what it was sent to do, where it
is, the mission's status in its identity map, what the integration returned, and the answer.
An uncommitted UPDATE is not a value of its own: until COMMIT nobody else can see it, so
only its lock matters (`HoldsApproval`, `HoldsMission`), and the write happens in the commit
action. `UpdateDecision` has no guard on the row's status because the UPDATE has none.

| Action | Code |
|---|---|
| `RequestApproval`, `CommitRequest` | `ApprovalService.request_approval` |
| `ReadApproval`, `UpdateDecision`, `ReadMission`, `WriteMission`, `CommitDecision` | `ApprovalService.resolve_approval` up to COMMIT |
| `PublishResume` | `_publish_execution_resume`, which swallows a failed XADD |
| `CallIntegration`, `RecordOutcome`, `CommitOutcome` | `github_issue_workflow.py`, whose shape the other governed workflows have |
| `PostStatus`, `CommitStatus` | `MissionService.update_mission_status` |
| `Abort` | exception, dropped connection or death of the process; `get_db` rolls back |

### GovernedWorkflow

One session submits (a merge and a reply only after their preflight), another approves and,
after its COMMIT, carries the action out. Every request to GitHub or Gmail is an action of
its own, so that pushes, edits, check runs and deletions by others (`Others`) come between
any two of them.

| Action | Code |
|---|---|
| `SubmitIssue`, `SubmitPull`, `SubmitMerge`, `SubmitDraft`, `SubmitReply`, `SubmitSend`, `RequestApproval` | the `submit_*` functions, up to the committed approval |
| `ReadPull`, `ReadChecks` | `preflight_merge`: `get_pull_request_json`, `get_commit_check_runs_json` and what is asked of their answers |
| `ReadMessage` | `get_message_metadata` and the checks of `create_reply_draft` |
| `Approve`, `Execute…` | `resolve_approval` after COMMIT, and the start of the `execute_*_after_approval` functions |
| `CreateIssue`, `CreatePull`, `CreateDraft`, `CreateReplyDraft`, `SendDraft`, `MergePull` | the one POST or PUT of each, with the outcomes "applied", "applied, but timed out", "not applied" |
| `RecordOutcome` | `_success_path`, `_failure_path` and COMMIT |
| `Abort` | exception or death of the process; `get_db` rolls back |

`contract` is the approval's `command_text`; its `heads` are the commits whose sha begins with
`expected_head_sha` (all of them when there is none). `since` is a history variable: the heads
that GitHub would have shown as clean, and as open and mergeable, at some time since the
session began. No action reads it; the properties do. That a 2xx answer means that the call
took effect is GitHub's and Gmail's promise, not the code's. `Approvals` has the same run as
one step, `CallIntegration`; `IntegrationCall` is what that step assumes, and `CallSpec` says
that the requests of a run keep to it.

### Executor

`execution` is the stream and its group, `batch` and `cur` what the loop was given, `pc` the
await `handle_execution` is at. `plan`, `calls`, `receipts` and `statuses` are kept by entry,
because one mission can have several entries. A POST has three outcomes: applied and
reported, applied and not reported, neither. `Raise` is the exception path of the loop (from
every step that can raise, `XACK` included) and `Crash` the end of the process at any await.
`written` is the code's conjunction of the results of its durable POSTs.

`ExecutionContract` is what remains of that from outside. It knows which entries are in
hand, which are accounted for and have a final status, and where something failed. Entries
are published by others, so `Add` is part of it.

### Coordinator, Worker, MissionLoop

`Coordinator` has one action for every await of `handle_command` and `handle_receipt`; the
two loops are one process and die together. `Worker` has the classification, what follows
from it, and the exception path, whose unguarded XADD ends the process. A POST of the
coordinator is applied or not at once. In `MissionLoop` the control plane's rows are shared
variables; a decision is read and committed in two steps (so two decisions can meet), and
the rest of a session is one step here because `Approvals` has it in detail. The executor
is its contract, which is what makes this composition small enough to check: `Executor`
is proved to implement it. Seen from its two ends the loop is the governance gate again,
this time counted: the k-th entry of a mission has a k-th grant, and the k-th re-routed entry
a k-th entry (`GateSpec`).

`faults` and `hit` record where the environment did something to a mission. No action of
the code reads them; the properties use them to say "unless something failed". So they do not
say what becomes of the disturbed mission itself: one whose resume or approval request was lost
stays where it is, and what the code has for it is the heartbeat's report of a mission without
activity or without a receipt (`ReportedInTheEnd` in `Supervision`).

### Heartbeat

A run is the transaction of one `POST /heartbeat/run`, with one action per await:

| Action | Code |
|---|---|
| `StartRun`, `TimeOut` | `heartbeat.py`: the loop, and the request it gives up after 120 s while the control plane goes on |
| `CheckEscalation`, `CountReminders`, `CheckDue` | `run_approval_reminder_cycle`, approval by approval, oldest first |
| `CheckDedupe`, `Send`, `InsertRow`, `DuplicateKey` | `_try_sms_delivery`: look-up, text, INSERT and its IntegrityError |
| `CollectCandidates` | `_collect_candidates` |
| `ReadFinding`, `UpsertCandidate`, `DuplicateFinding` | `_upsert_candidate` |
| `ListOpen`, `ResolveFinding`, `CommitRun` | the end of `run_heartbeat_cycle` |
| `Raise`, `Deadlock` | whatever fails; `get_db` rolls back |

`reminders` and `findings` are what is committed. A run keeps its own rows (`rows`, `writes`)
until `CommitRun`; others see only that they hold keys and row locks. `texts` counts what
Twilio accepted, and a roll-back moves a text to `lost`. A finding is an aging approval or a
condition: all other checks (workers, components, integrations, costs) are the same to the
run, they hold or they do not (`Supervision` says when). `Upserted` is what the flush writes: when the row it read is
open, only `last_seen_at`, so that another run's resolve stays.

### OperatorSurfaces

One websocket connection of the voice server hears, handles and answers one utterance at a
time. `turn` is where that is: what was said, what was picked from a list, what will be
spoken. Every request that a handler makes is an action of its own, so everything the
control plane does elsewhere can come before and after it. Utterances are phrases by the
pattern they match, not texts; the order in which the dialogues are asked is the code's.

| Action | Code |
|---|---|
| `Connect`, `Hear`, `MisHear`, `Route`, `Speak`, `Disconnect`, `Restart` | the endpoint and `_process_text` in `voice/server.py`, `routing_precedence.py` |
| `TalkOfApprovals`: `Refuse`, `LoadFirst`, `Move`, `MoveNowhere`, `DecideIt`, `FindById`, `TellPending`, `FocusPending`, `GetBundle`, `PostDecision`, `LoseReply`, `Refresh`, `FailRequest` | `approval_voice.py`: queue and cursor, GET pending, GET bundle, POST decision, GET pending again |
| `TalkOfInbox`: `GetItems`, `PostTriage`, `LoseMark`, `Reload`, `FailInbox` | `inbox_voice.py`: the list is loaded for every utterance, the place is kept by number |
| `TalkOfMissions`: `Defer`, `Overview`, `TellChanges`, `Walk`, `TellMission`, `MissMission` | `briefing_voice.py`: snapshot, ranking, walk |
| `TalkOfDraft`, `SubmitDraft`: `ReadCatalog`, `Start`, `Dictate`, `NameMission`, `AskToConfirm`, `Cancel`, `RefuseSecond`, `Submit`, `SubmitLosesReply`, `SubmitFails` | `governed_action_voice.py` with the fields of `governed_action_catalog.py` |
| `Intake` | everything else: POST to the control plane |
| `Publish`, `ReadUpdates`, `ReadNothing`, `TellUpdate` | `_redis_updates_loop` on `jarvis.updates` |
| `Texting`: `StartNotice`, `SendText`, `CommitToken`, `LoseNotice` | `process_approval_sms_queue`, run by `get_db` after COMMIT |
| `Texting`: `Receive`, `ReadToken`, `ReadApproval`, `MarkInbound`, `UpdateDecision`, `CommitDecision`, `MarkUsed`, `FailWebhook` | `handle_twilio_inbound`, with the row locks of its two sessions |
| `RequestElsewhere`, `DecideElsewhere`, `InboxMoves` | operators at the desk, heartbeat and missions |

`offered`, `readback` and `owed` are history. `offered` keeps the approval told last while in
focus, the inbox item told last with the inbox it was told from, and what is `astray`:
"approvals" from a reading that failed behind the moved cursor, or a decision after which the
queue was loaded anew, until something in focus is told again; "inbox" while none was told yet,
and from a reload in which something came or went at the item's place or ahead of it. `readback`
is the last reading not yet requested or cancelled: what was spoken (`Spoken`, the few fields
that `_confirm_summary` names) beside what would be posted (`Posted`). `owed` are the updates this
connection is to be told. No action reads any of the three. A decision by voice or at the desk is one step here, since `Approvals` has it in
detail; that of a webhook keeps the steps between which its session holds locks.

### Supervision, with WorkerRegistry, CostLedger and OperatorMemory

`Supervision` extends `Heartbeat`: `holding`, which `Heartbeat` lets change at will, is here
`Found`, what the checks of `_collect_candidates` find in the rows of the workers, the
missions and the costs (`Noticed` in every action), and the probes, which still change at will.

| Action | Code |
|---|---|
| `TimePasses` | the clock alone makes workers stale, missions stand still and spend leave its window |
| `WorkerStarts`, `WorkerBeats`, `WorkerStops` | the processes: `register`, the heartbeat loops, the end |
| `BeatCommits`, `BeatIsLost` | `WorkerRegistryService`: an upsert with the time the request came in, committed in any order, or lost |
| `MissionMoves`, `RecordReceipt` | status changes; `ReceiptService.record_receipt` with its cost event and the memory it proposes |
| `RefuseReceipt` | the same, when that memory is known |
| `Remember` | `operator_memory.py`: create, promote from a mission, PATCH as read and later write |
| `Watch` | the actions of `Heartbeat` |

### LiveUpdates

`commits` counts the committed changes of one mission; what a page shows is the set of events
and the versions of the snapshot and of the pending approvals it has. `Broadcast` is one step
for a session's two messages because `broadcast_all` never gives the event loop away, but
sessions can overtake each other between COMMIT and broadcast. `Subscribe` (server) and
`Open` (client, on the headers) come in either order. A fetch is asked, read and applied in
three steps, so that live messages come between.

| Action | Code |
|---|---|
| `Commit`, `Broadcast` | `get_db`, `emit.py`, `RealtimeHub.broadcast` |
| `Subscribe`, `Pump` | `RealtimeHub.subscribe`, `sse_mission_updates_stream` |
| `Connect`, `Open`, `Disconnect` | the reconnect loop of `ControlPlaneLiveContext.tsx` |
| `ReceiveEvent`, `ReceiveMission` | `applyLiveMessage` |
| `Poll`, `Read`, `ApplyPending`, `ApplyBundle`, `ApplySeparate`, `FailFetch` | `useControlPlane.ts`, `refetchPendingApprovals`, `bootstrapMission` and its fallback |

The queries behind one bundle are one read, and the list of missions is left out: of one
mission it tells what the bundle tells.

## Runs

| Run | Instance | Distinct states | Properties |
|---|---|---|---|
| `approvals_safety` | 1 mission, 2 approvals, 3 requests | 49,610 | `TypeOK` `ActedOnlyWhenApproved` `RowMatchesTimeline` `AwaitingHasPending` `ReceiptsAreTrue` `NeverReopened` `GateSpec` `EveryRequestAnswered` |
| `approvals_double_resolve` | the same | violation | `ResolvedOnce` |
| `executor_safety` | 1 mission and the poison entry, 2 entries, batch of 2, 2 stages | 152,897 | `TypeOK` `AckedIsRecorded` `StagesProven` `LeftOnlyByFault` `ContractSpec` `EveryEntrySettled` |
| `governed_workflow` | 1 approval of any kind, 3 sessions, 2 commits, 2 changes by others | 959,800 (up to symmetry) | `TypeOK` `MergedWasVetted` `PinnedHeadOnly` `ApprovalWasVetted` `CompleteIsDone` `ActiveHasRun` `CallSpec` |
| `mission_loop_safety` | 1 mission to which everything can happen, 1 decision, or 1 stray entry that can fail anywhere | 131,144 | `NeverForgotten` `CompleteHasReceipt` `FinishedStays` `GateSpec` `EveryCommandSettled` |
| `mission_loop_routed` | 1 mission, nothing fails | violation | `RoutedReachesExecutor` |
| `heartbeat_reminders` | 2 runs; 1 approval with 2 reminders and an escalation, or 2 conditions, a change and a failure | 386,588 | `RemindersSpaced` `TextsOnRecord` `PendingIsEscalated` |
| `supervision` | 2 runs; in turn 1 worker, 1 mission, 2 receipts, 1 probe beside 1 approval, 1 memory with 2 PATCHes | 119,592 | `FindingsConverge` `ReportedInTheEnd` `ArchivesTold` |
| `memory_receipt_refused` | the same | violation | `PromotionIsIdempotent` |
| `operator_surfaces` | 2 approvals, 1 finding, 1 mission, 2 webhooks, a merge and a reply; 6 sessions | 163,515 | `TypeOK` `AnswersAreTrue` `FocusIsWhatWasHeard` `RequestedAsReadBack` `EveryTurnAnswered` |
| `live_updates` | 2 commits, queue of 2, bridge of 1, 1 failure | 88,267 | `TimelineComplete` `EventShown` `OfflineConverges` |
| `live_updates_aligned` | the same, nothing fails | violation | `StaysAligned` |

**Why the bounds are enough.** Two approvals of one mission are the least at which decisions
on different rows meet on the same mission; three requests let an opening and two decisions,
or a status post between them, be in flight at once, and the theorems cover any number. One approval resumes execution, the other calls an
integration. Two entries in one batch are the least at which one entry can harm another, and
they may be two entries of one mission; two stages give a first, a later and a last one; two
attempts are the code's bound. In the loop, one mission can be granted by the guard and by
an operator, re-routed, and reported on, which already gives every pair of writers of its
status. One
decision is enough there because `Approvals` has the concurrent ones, and one stray entry
because a read loop does the same with every entry in front of a command. A stray entry and faults of the mission
itself do not come up in one behaviour (`OneDisturbance`): a stray entry has no mission, so
the two share no row, and either one alone already reaches every exception path.
Three sessions of one approval are a submission and two decisions; two commits are an old
head and a new one; two changes are a push and a check, or a push and its undoing, within one
run. Sessions and commits are interchangeable in `GovernedWorkflow`, its specification and
all its properties (none is a liveness property), which is why that run may use symmetry. Two
heartbeat runs are the least that overlap; time counts in units of the shortest interval, and
goes on until the escalation is due, so a first, a next and a surplus reminder and the
escalation all come up. Two commits are the least that overtake each other, and a queue that holds the
two messages of one commit overflows with the second. In `Heartbeat` the two ways to begin are
states that a longer run reaches: what the reminders of a run meet is another run's reminders,
and what its findings meet is another run's findings; both parts share the transaction, which
each has. In `OperatorSurfaces` two approvals are the least with a "next" and a wrong
one; two webhooks the least that meet on one token, and a merge and a reply are the kinds
with inline fields, optional fields and prompts from the catalogue. The six sessions of
`MCOperatorSurfaces` say which phrases belong together: a dialogue's state changes with its
own phrases only, and what two dialogues share (the control plane, the turn) each meets from
others in its own session. In `Supervision`, one worker, mission or event is all that a check
looks at, two receipts are the least that tip a guardrail, two PATCHes the least of which one
is stale, and three units of time let a row grow stale twice; the probe recovers
once both findings are open, which is when two runs can lock them in opposite orders. The theorems hold for every value of these constants.

The systems stop when their bounded supply of requests or entries is used up (the loops then
wait in XREADGROUP), so their configurations turn the deadlock check off (not
those of `Heartbeat`, which never stops; a live page comes to rest); that nobody waits
for anybody for ever is `EveryRequestAnswered`, `EveryEntrySettled` and
`EveryCommandSettled`.

**Fairness.** Weak fairness of each session's next statement (the event loop runs every
session that can go on, and Postgres hands a released row lock on), of the executor's, the
coordinator's two and the worker's loops (each is `while True` around a blocking read with a
time-out), of an intake request that was begun and of a resume that is to be published; in
`MissionLoop` these are the operator `Fairness`. There is
none for arrivals, decisions, exceptions, lost calls, crashes or stray entries: nothing has
to fail and nobody has to decide. The exception paths of the coordinator (`LeaveCommand`,
`GiveUpReceipt`) need none, since each is an alternative to a step of the fair handler.

In `Heartbeat`: weak fairness of time and of the worker's loop, which starts a run after the
last one, and strong fairness of each run's next statement: a row lock that is free again and
again is given to the run that waits for it (Postgres queues the waiters). Failures, time-outs,
decisions and changes of what is checked are not fair. A bound on failures stands for "in the
end it works"; with a failure in every run nothing would ever be committed.

In `LiveUpdates`: weak fairness of sessions that have something to broadcast, of the pump, the
reader and the answers to polled requests, strong fairness of the poll timers, which the
bound on fetches under way can hold up. None for commits, failures, or connecting: the stream
may stay down for ever, which is the case `OfflineConverges` is about.

In `OperatorSurfaces`: weak fairness of `Converse` (every request of the voice server has a
time-out, so an utterance is seen through), of the updates loop and of a webhook that has
come in. None for speech, failures, decisions, triage, notifications or time between reads.
In `Supervision`: that of `Heartbeat`, and weak fairness of the heartbeats of a worker that is
up and of requests in progress; none for starts, stops, missions, receipts or memories. In
`MCOperatorSurfaces` and `MCSupervision` the same fairness is stated of the steps that the
session or setting has.

### What the violations show

1. `ResolvedOnce` (`approvals_double_resolve`). `docs/FAILURE_MODES.md:42` says of a double
   resolve "server returns **400** if not pending — no extra mission event". The check reads
   the row without a lock and the UPDATE has no condition, so two decisions that both read
   `pending` are both committed, each with an event, and the second overwrites the first.
   What still holds with that: `RowMatchesTimeline`, `ActedOnlyWhenApproved`, `NeverReopened`.
2. `RoutedReachesExecutor` (`mission_loop_routed`). The worker adds a complex command to the
   stream and group it reads itself. When it is given that entry, it sees the skip flag and
   acknowledges it: the command is never run. `NeverForgotten` and `EveryCommandSettled`
   make an exception for exactly this (`RoutedBack`).
3. `StaysAligned` (`live_updates_aligned`). `docs/REALTIME_UPDATES.md:33`: one bundle, then
   "SSE + targeted approval/receipt refresh (debounced) so the UI stays aligned". The phase is
   live when the headers are there, polling stops, and nothing is fetched again; an event that
   was broadcast after the bundle was read and before the hub had the subscription is missing
   while the stream stays up. This holds for the first connect and for every reconnect.
4. `PromotionIsIdempotent` (`memory_receipt_refused`). A receipt may propose a memory, and one
   that is known is meant to be passed over (`memory_service.py:260`, "Idempotent promotion").
   The failed INSERT ends the transaction of the session, there is no savepoint, and the next
   statement raises: the receipt, its timeline event and its cost are rolled back, and so they
   are on every retry.

### Other divergences

Met while modelling; each is visible in the modules, none has a run of its own.

- `executor.py`: an XACK that raises at the end of `handle_execution` takes the
  internal-failure path; the mission that was completed is set to failed, and a receipt says
  that no normal receipt was recorded. `AckedIsRecorded` holds all the same.
- `docs/SMS_APPROVALS.md:35` gives reminders a dedupe key "so the same logical reminder is not
  re-sent every tick". The text goes out before its row is committed; a later failure of
  the run takes the row back and the next run sends the text again (`lost` in `Heartbeat`).
- `REPO_TRUTH.md:37` says heartbeat runs add `approval_escalation_pending` findings; no check
  of `heartbeat_service.py:98-325` does, and `operator_inbox_service.py:169` waits for them.
- `heartbeat_service.py:249` says "same probes as /system/health"; that endpoint looks at
  Ollama as well, and at what the workers report of the gateway.
- `governed_action_voice.py:519-528`: for a reply draft the voice asks for subject, cc and bcc
  as the catalogue says, and posts none of them (`Posted` in `GovernedDraft`).
- `governed_action_voice.py:602-604`: a submission that timed out and was applied clears the
  draft like one that failed; dictated again it is a second approval.
- `governed_action_voice.py:608-611` asks for "an explicit confirm, not a vague go-ahead";
  line 33 takes "go ahead" for one.
- `approval_voice.py:198-199` says "say approve it or deny it after you have heard an approval". "Next
  approval" moves the cursor before the GET of the bundle (325-330); when that fails, "approve it"
  decides an approval of which nothing was said. After a decision the queue is loaded anew with
  the cursor on its first (378-381), and a second "approve it" decides that one. TLC refutes
  `turn.target = offered.approval` by either; `FocusIsWhatWasHeard` leaves out exactly these two
  (`FocusLost`) and says that there is no third. "Approve it" works as well after a mere list of
  approvals, on the first; `offered` takes the first of a list for told.
- `inbox_voice.py:336` is to say "That inbox item is no longer open", but the key it compares is taken
  from the very list it is looked up in (323-335), at the number kept from before: it is never
  said. When the item that was read out is gone, "acknowledge it" marks the one that has moved to its
  place. `FocusIsWhatWasHeard` says that only such a move (`Stands`) makes triage act on another.
- `governed_action_voice.py:301-350`: the summary before "confirm" names some of the fields. Never
  spoken, and posted where the kind has them: the mission, labels, `expected_head_sha`, cc, bcc
  and the thread; of an issue's body only whether there is one, of the other bodies nothing (the
  catalogue's template of a pull request has none either). `RequestedAsReadBack` says of
  these only that they are what they were when the summary was spoken.
- `inbox_voice.py:331` sends "acknowledge it" without a focused item back to "read me the top inbox
  item"; with nothing told yet, the list loaded for it has a first item, which is marked.
- `inbox_voice.py:289` ("Re-align cursor to same item_key if still present") is followed by code
  that sets the cursor to a key of the list at the cursor, which changes nothing.
- `server.py:741`: inbox phrases are acted on while a draft is dictated, only approvals are not.
- `inbox_voice.py:341` says that an acknowledged item stays out "until the underlying issue
  changes"; triage is kept by key and never lifted, so a trouble that comes again stays out. A
  dismissed finding about an approval's age is hidden for good in the same way.
- `briefing_voice.py`: only "what's happening" says that data is missing when a GET failed.
- A failed GET of the action catalogue is remembered for the whole voice process.
- `sms_approval_service.py`: a reply that comes before the code is committed is answered as
  an unknown code; a code that collides loses the notification; a second webhook that read
  `pending` before it waited decides again, as in 1.
- `worker_registry_service.py`: two processes of one type on one host share a row, and the row
  of a host that was renamed stays stale for ever.
- `cost_guardrail_service.py`: all spend has the provider `openclaw`, so its concentration is
  always 100 %; the flags of the cost page are of now, the findings of the last run.
- `github_adapter.py:240` reads the first 100 check runs of a commit.

## Proofs

Theorems hold for all values of the constants that satisfy the named assumptions
(`ApprovalsAssumption`: an approval belongs to a mission; `ExecutorAssumption`: the bounds are
naturals, a batch and a plan's bound are not zero, and the poison entry is no mission;
`WorkflowAssumption`: a missing head is no commit, and the bound on changes is a natural;
`HeartbeatAssumption`: settings and bounds are naturals, and there are finitely many runs;
`LiveUpdatesAssumption`: sizes and bounds are naturals, all but the failures not zero;
`MissionLoopAssumption`: the stray entry is no mission, a batch is not empty, the bounds are
naturals; `CountedAssumption`: approvals and missions are numbered, in the order in which they
are requested; `WebhooksAssumption`: no webhook is called "voice" or "desk", the names under
which the other decisions are on record; `KindsAssumption`: a draft is of one of the six kinds;
`WatchedAssumption`: the conditions of the heartbeat are the ones `Supervision` watches).

| Theorem | Says |
|---|---|
| `ApprovalsProofs!TypeCorrect` | `Spec => []TypeOK` |
| `GateHolds` | `Spec => []ActedOnlyWhenApproved` |
| `RowsMatch` | `Spec => []RowMatchesTimeline` |
| `AwaitingIsDecidable` | `Spec => []AwaitingHasPending` |
| `NeverWithdrawn` | `Spec => NeverReopened` |
| `ReceiptsHold` | `Spec => []ReceiptsAreTrue` |
| `ImplementsGate` | `Spec => GateSpec` |
| `ExecutorProofs!TypeCorrect` | `Spec => []TypeOK` (with the bound on OpenClaw attempts) |
| `AckedAreRecorded` | `Spec => []AckedIsRecorded` |
| `StagesAreProven` | `Spec => []StagesProven` |
| `LeftByFaultOnly` | `Spec => []LeftOnlyByFault` |
| `ImplementsContract` | `Spec => ContractSpec` |
| `GovernedWorkflowProofs!TypeCorrect` | `Spec => []TypeOK` |
| `OnlyVettedIsMerged` | `Spec => []MergedWasVetted` |
| `OnlyPinnedIsMerged` | `Spec => []PinnedHeadOnly` |
| `OpenedVetted` | `Spec => []ApprovalWasVetted` |
| `CompleteHasEffect` | `Spec => []CompleteIsDone` |
| `ActiveIsWorkedFor` | `Spec => []ActiveHasRun` |
| `ImplementsCall` | `Spec => CallSpec` |
| `HeartbeatProofs!TypeCorrect` | `Spec => []TypeOK` |
| `TextsAreKept` | `Spec => []TextsOnRecord` |
| `RemindersKeepDistance` | `Spec => []RemindersSpaced` |
| `LiveUpdatesProofs!TypeCorrect` | `Spec => []TypeOK` |
| `NothingMissed` | `Spec => []TimelineComplete` |
| `MissionLoopProofs!TypeCorrect` | `Spec => []TypeOK` |
| `CompletedHasReceipt` | `Spec => []CompleteHasReceipt` |
| `NothingForgotten` | `Spec => []NeverForgotten` |
| `FinishedIsFinal` | `Spec => FinishedStays` |
| `MissionLoopProofs!GateHolds` | `Spec => GateSpec` |
| `OperatorSurfacesProofs!TypeCorrect` | `Spec => []TypeOK` |
| `AnswersTrue` | `Spec => []AnswersAreTrue` |
| `HeardIsActedOn` | `Spec => FocusIsWhatWasHeard` |
| `ReadBackIsRequested` | `Spec => RequestedAsReadBack` |
| `SupervisionProofs!ArchivingIsTold` | `SupervisionSpec => ArchivesTold` |

**Approvals.** `SessionInv` ties a session's place to its job. `GateInv` says what a session
has put in the timeline and sent out by where it is, which makes the gate inductive. `RowInv`
needs that an id is opened by one request only and decided after that request committed: no
commit of an opening can undo a decision. `AwaitingHasPending` is not inductive by a
distance: a decision that read the mission before it came to await approval will not write it
(`Dirty` is false), yet its commit takes a pending approval away. `AwaitInv` asks for a
pending approval that no such session (`Spent`) is about to decide; the opening that set the
mission to `awaiting_approval` has one. `NeverReopened` follows from `RowInv` alone: the row
that an opening writes was absent up to its COMMIT. `ReceiptInv` adds to the receipts what a
session is about to record: success only behind a call that took effect. The refinement maps COMMIT of an approving decision to
`Grant`, and the publish and the call to `Act`.

**Executor.** `StreamInv`: what is in hand is pending, delivered, and in hand once.
`CallInv`: the attempts counted in the handler are those OpenClaw saw, and later stages have
none. `FreshInv`: entries nobody has begun have no plan, call or status. `RecordInv` says what
is on record at each place of the handler, and that a place reached without a record is
reached with a fault. `HandlerImplements` and `ContractStep` map each action to the
contract's `Add`, `Deliver`, `Handle`, `Settle`, `Die` or a stutter; `RecordInv` supplies the
contract's conditions on a final status and on XACK.

**GovernedWorkflow.** `Steps` sorts the actions by what they do to the state, so that each
invariant is argued once per kind of step. `PlaceInv` ties a session's place to its job and its
contract; `Frame` says that a job, its contract and what has been seen for it stay. `SinceInv`
makes the history variable usable: what GitHub would tell now has been seen by every session
at work. From it, `PreflightInv` collects what the two halves of the preflight establish,
and carries it over the pushes between them and the call; the comparison of the sha in
`MergePull` then gives `MergedWasVetted` and `PinnedHeadOnly`. `OutcomeInv` (success stands
for an effect) makes `CompleteIsDone` inductive. `ApprovalWasVetted` is not: its witness
could move on, so `OpenInv` names the submission that is over. The refinement maps a
decision's COMMIT to `Begin`, the step that leads to the receipt to `Call`, the receipt's
COMMIT or an abort to `End`.

**Heartbeat.** `Steps` sorts the actions into the world's, quiet ones, a text, its INSERT, a
roll-back and COMMIT. `KeyInv`: a reminder's key is in one row at most, committed or in a
transaction; the INSERT that would make a second one takes `DuplicateKey`. With it `TextInv`
counts: the texts that went out are those of the committed rows, of the runs between text and
COMMIT (`Holders`), and of those rolled back. `RemindersSpaced` says nothing of a run's
private rows, so `SpaceInv` does: what a run decided (`MayFollow`) stays right while others
commit, because a count that others made stale ends in a key that is taken.

**LiveUpdates.** `TimelineComplete` is inductive with the types: an event in the queue goes to
the bridge, from there to the page, and is owed no longer when the full queue drops it.

**MissionLoop.** Lemmas on any stream (`StreamOK`) with any loop that reads it (`LoopOK`) say
that an entry stays where it is and is handled by one step at a time; each of the three loops
is an instance. `Vouched` makes `CompleteHasReceipt` inductive: who is about to post
"complete" has accounted for it. For the gate, `PublishInv` and `UnaskedInv` say that a
mission is published once, so that the guard answers once for it. `CountInv` bounds entries,
plus the resumes and the "allow" still to be added, by grants; `RouteInv` bounds
re-routed entries by those the worker is past (`Past`). `Counting` sorts the steps by what they
do to the three counts, and each of its cases is a step of one gate or of both.

`NeverForgotten` and `FinishedStays` are not inductive: both need to know where a mission is on its
whole way from intake to its final status, and that it is nowhere else. `Holders(m)` are the
places that will write its next status: intake, a command, an entry or a report that is not handled
yet (`Unhandled`: nobody was given it, it waits in a batch, or the handler has it and is not past
the step that hands the mission on), a pending approval, a resume to be published. `HeldInv` says
that an undisturbed mission has one holder at most, none when it is finished, and that one without
is finished, re-routed back to the worker, or was never published. Every step is then one of three
(`EveryMove`): it keeps holder and status (`Kept`), hands the mission to one next holder
(`Passed`), or is the last (`Ended`). With one holder at a time there is no second writer to come
late, which is `FinishedStays`; a holder is in flight or at the operator, which is
`NeverForgotten`. `FailedKnown` says that a publish which failed and a report of an error are
consequences of a fault on record, `PendingDecided` that who is about to decide decides a pending
approval or makes a second decision, `HandsApart` that the executor and the worker, which share the
group, never have one entry between them. A second decision, a lost call or a restart is what breaks the
argument, and what `Undisturbed` excludes.

**OperatorSurfaces.** `IInv` has a part for each thing a connection remembers, and for what it
shares with the others. `TurnInv` says which labels a phrase can come to, `DraftInv` that a
dictation and the approval dialogue exclude each other; that is why "approve it" said into a
draft is text. `TypeOK` needs that the places stay within their lists, through every way a list is
replaced: `QueueInv`, `ItemsInv`, `RankedInv`, and `TargetInv` for the approval decided by id, which
is of the list that the queue becomes. `FocusIsWhatWasHeard` compares
what was told with what is decided, several requests later. `FocusInv`: unless the focus went astray
or nothing is in focus, the approval told last is the one in focus, but between the step that moves
the cursor and the answer that tells of it or loses it; and what is about to be decided by reference
is in focus. `PlaceInv` says the same of the inbox by place: up to the number kept, the inbox loaded
last is the one the item was told from (`InPlace`), so `Synced` keeps the number on the item.
`ReadbackInv`: from the answer that reads it back on, a draft to be confirmed is `Complete` and the
reading kept is its own. `SpokenIsPosted` then compares the summary with the request field by
field; it needs that a draft is complete only when every field that the summary names was asked for
(`SummaryIsAsked`, `NothingMissing`). A decision by id asks that the queue it becomes is in the
order of arrival (`Rising`), so that the place it is found at is its own (`PlaceIsOf`).
`ClaimInv` and `SmsInv` make `AnswersAreTrue` inductive. A webhook that came late,
after the decision, must find it: either it reads a status that is no longer pending, or it does not
come to decide (`GoodHook`). The reads of an approval, of the token and the lock that a second
webhook waits for are at different steps, and others decide between them. The
lemmas come by dialogue (what its steps do to the turn, the queue, the draft) and then by part of
the invariant, each part asking what a step can disturb of it (`Passed`, `Answered`, `Moved`).

The lists are built by `Kept`, a recursive function. That it is defined, and that its members
are those of the list that are in the set, is proved by the least length at which it would be
otherwise (`LeastOf`, from the well-founded order of the naturals); the induction theorems of the
library, which take a predicate as a parameter, are not needed for it.

**Supervision.** `MemorySteps` sorts the many steps of the system into those that leave the
memory alone, an INSERT, and a PATCH read, written or lost. `MemoryInv` types the rows and what is told of each. `ArchivesTold` is then inductive: a row becomes archived, from a
status that the PATCH has not read as archived, with an event, and an event of the kind is
written with no other step.

**Only model-checked:** liveness (`EveryRequestAnswered`, `EveryEntrySettled`,
`EveryCommandSettled`, `PendingIsEscalated`, `FindingsConverge`, `ReportedInTheEnd`, `EventShown`,
`OfflineConverges`, `EveryTurnAnswered`), which is out of the prover's reach, and the violations. Every invariant, action
property and refinement that a passing run checks is proved as well. `HeartbeatProofs!TypeCorrect`, `LiveUpdatesProofs!TypeCorrect` and
`MissionLoopProofs!TypeCorrect` prove type invariants that no run repeats.

## Not modelled

`PROJECT.json` (`components`) gives the reason for every part. In the modelled parts:

- the text side: interpretation of an utterance by intake, choice of route, lane and model,
  wording of events, receipts and speech. A plan, a guard's answer or a classification is an
  input that can be anything; a phrase is the pattern it matches;
- the read models of the operator pages, which aggregate and word rows and change none;
- `plan_and_save_stages`: the executor takes any plan;
- in the governed workflows: what titles, recipients and threads say, the refresh of the Gmail
  token (one more request that can fail), and check runs beyond the first page of 100, which
  the code does not read. Denials, row locks and COMMITs are in `Approvals`;
- a POST of the coordinator that is applied after its time-out was reported. In `Executor`
  such a POST is applied before the next step; with one that can come any time later the order
  of the three writers of a status would be free;
- several executors in one group (the scripts start one), and several voice connections at a
  time, whose dialogues share only the catalogue of actions, which is modelled.

## Plan

1. *(done)* `GovernanceGate`, `Approvals`, and their proofs.
2. *(done)* `StreamGroup`, `Executor`, `ExecutionContract`, and their proofs.
3. *(done)* `ReadLoop`, `Coordinator`, `Worker`, `MissionLoop`, and the proofs of its gate and
   its receipts.
4. *(done)* `SmsApprovals`, `OperatorInbox`, the voice dialogues, and `OperatorSurfaces`, which
   composes them.
5. *(done)* `Heartbeat`, and the proofs about reminders.
6. *(done)* `IntegrationCall`, `GovernedWorkflow`, and their proofs.
7. *(done)* `LiveUpdates`, and the proof that nothing is missed.
8. *(done)* `WorkerRegistry`, `CostLedger`, `OperatorMemory`, and `Supervision`, which composes them with
   the heartbeat.
9. *(done)* The safety of `OperatorSurfaces`, and what `Supervision` says of memories, proved.
10. *(done)* `NeverForgotten` and `FinishedStays`, from the one place at a time where an undisturbed
    mission is.
11. Proofs: the safety that the liveness properties rest on, such as that no cycle of row locks
    outlasts a run, in the modules that have locks.
12. `decide_route` and the interpretation of utterances as pure operators against a reference
    definition, should a property ever depend on what they decide.

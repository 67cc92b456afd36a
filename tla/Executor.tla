------------------------------ MODULE Executor ------------------------------
(***************************************************************************)
(* executor/executor.py: one process reads jarvis.execution in batches and *)
(* handles the entries one after the other: start event, plan, OpenClaw    *)
(* runs with one retry, a receipt for each run, the mission's status, and  *)
(* XACK last.  Every POST to the control plane can fail, or be applied and *)
(* reported as failed; the process can die at any await and comes back     *)
(* reading new entries only.                                               *)
(*                                                                         *)
(* An entry is known by its position in the stream.  A run is one command  *)
(* or one stage given to OpenClaw; a single-command entry has one run.     *)
(***************************************************************************)
EXTENDS StreamGroup, FiniteSets

CONSTANTS
    Missions,       \* missions of well-formed entries
    Poison,         \* the entry that carries no mission_id
    MaxMessages,    \* bound on the entries published
    BatchSize,      \* COUNT of XREADGROUP (10 in the code)
    MaxStages       \* bound on the runnable stages of a plan

ASSUME ExecutorAssumption ==
    /\ Poison \notin Missions
    /\ MaxMessages \in Nat /\ MaxStages \in Nat \ {0}
    /\ BatchSize \in Nat \ {0}

OPENCLAW_MAX_ATTEMPTS == 2

Ids == 1..MaxMessages
Runs == 1..MaxStages
NoMessage == 0

VARIABLES
    execution,  \* the stream jarvis.execution and its consumer group
    batch,      \* entries of the last read still to be handled, in order
    cur,        \* the entry in handle_execution, NoMessage between entries
    pc,         \* where its handler is
    plan,       \* what an entry turned out to be: [staged, runs]
    run,        \* the run (stage) in progress
    attempt,    \* OpenClaw attempts of this run
    result,     \* what _call_openclaw returned for it
    written,    \* both durable writes of the handler reported success so far
    calls,      \* OpenClaw invocations, by entry and run
    receipts,   \* receipts in the control plane's database
    statuses,   \* mission statuses posted and applied, by entry
    mission,    \* mission status in the control plane's database
    faults      \* entries the environment hit: failed POST, crash, Redis error

local == <<batch, cur, pc, run, attempt, result, written>>
durable == <<receipts, statuses, mission>>
vars == <<execution, local, plan, calls, durable, faults>>

Plans ==
    {[staged |-> FALSE, runs |-> 1]} \cup [staged : {TRUE}, runs : 0..MaxStages]
NoPlan == [staged |-> FALSE, runs |-> 0]

Receipt == [msg : Ids, run : Runs \cup {0}, type : {"openclaw", "internal"},
            ok : BOOLEAN]

Init ==
    /\ execution = EmptyStream
    /\ batch = <<>> /\ cur = NoMessage /\ pc = "read"
    /\ plan = [i \in Ids |-> NoPlan]
    /\ run = 1 /\ attempt = 0 /\ result = "none" /\ written = TRUE
    /\ calls = [i \in Ids |-> [k \in Runs |-> 0]]
    /\ receipts = {} /\ statuses = {}
    /\ mission = [m \in Missions |-> "active"]
    /\ faults = {}

-----------------------------------------------------------------------------
(* Helpers.                                                                *)

MissionOf(i) == execution.log[i]

\* Entries read with the one in the handler that are still to be handled.
Waiting == {batch[k] : k \in DOMAIN batch}

\* A POST: whether it was applied, and whether the executor saw a 2xx.
PostOutcomes ==
    {[applied |-> TRUE, ok |-> TRUE], [applied |-> TRUE, ok |-> FALSE],
     [applied |-> FALSE, ok |-> FALSE]}

Fault(post) == faults' = IF post.ok THEN faults ELSE faults \cup {cur}

PostReceipt(post, receipt) ==
    receipts' = IF post.applied THEN receipts \cup {receipt} ELSE receipts

PostStatus(post, status) ==
    IF post.applied
    THEN /\ statuses' = statuses \cup {[msg |-> cur, status |-> status]}
         /\ mission' = [mission EXCEPT ![MissionOf(cur)] = status]
    ELSE UNCHANGED <<statuses, mission>>

Goto(label) == pc' = label

\* handle_execution returns, with or without XACK.
Return ==
    /\ Goto("read")
    /\ cur' = NoMessage
    /\ run' = 1 /\ attempt' = 0 /\ result' = "none" /\ written' = TRUE

-----------------------------------------------------------------------------
(* The stream.                                                             *)

\* The coordinator, the approval service or the classifier worker adds an entry.
Publish(m) ==
    /\ Len(execution.log) < MaxMessages
    /\ execution' = XAdd(execution, m)
    /\ UNCHANGED <<local, plan, calls, durable, faults>>

\* _read_loop: the next batch is read when the last one has been handled.
Read ==
    /\ pc = "read" /\ cur = NoMessage /\ batch = <<>>
    /\ execution.read < Len(execution.log)
    /\ execution' = XReadGroup(execution, BatchSize)
    /\ LET given == Batch(execution, BatchSize)
       IN  \/ /\ batch' = [k \in 1..Cardinality(given) |-> execution.read + k]
              /\ UNCHANGED faults
           \/ /\ faults' = faults \cup given    \* the reply is lost
              /\ UNCHANGED batch
    /\ UNCHANGED <<cur, pc, plan, run, attempt, result, written, calls, durable>>

\* Mutant: only the first entry of a batch is handled.
TakeFirstOnly ==
    /\ pc = "read" /\ cur = NoMessage /\ batch # <<>>
    /\ cur' = Head(batch)
    /\ batch' = <<>>
    /\ Goto("start")
    /\ UNCHANGED <<execution, plan, run, attempt, result, written, calls,
                   durable, faults>>

Take ==
    /\ pc = "read" /\ cur = NoMessage /\ batch # <<>>
    /\ cur' = Head(batch)
    /\ batch' = Tail(batch)
    /\ Goto("start")
    /\ UNCHANGED <<execution, plan, run, attempt, result, written, calls,
                   durable, faults>>

-----------------------------------------------------------------------------
(* handle_execution.                                                       *)

\* Mutant: an entry without mission_id is skipped without XACK.
DropPoisonUnacked ==
    /\ pc = "start" /\ MissionOf(cur) = Poison
    /\ Return
    /\ UNCHANGED <<execution, batch, plan, calls, durable, faults>>

\* No mission_id: drop the entry.
DropPoison ==
    /\ pc = "start" /\ MissionOf(cur) = Poison
    /\ Goto("ack")
    /\ UNCHANGED <<execution, batch, cur, plan, run, attempt, result, written,
                   calls, durable, faults>>

\* execution_started must be written, or the entry is left as it is.
PostStarted ==
    /\ pc = "start" /\ MissionOf(cur) # Poison
    /\ \E ok \in BOOLEAN :
         \/ /\ ok /\ Goto("plan")
            /\ UNCHANGED <<cur, run, attempt, result, written, faults>>
         \/ /\ ~ok /\ Return
            /\ faults' = faults \cup {cur}
    /\ UNCHANGED <<execution, batch, plan, calls, durable>>

\* The mission's stages or a fresh plan; every failed GET falls back to the
\* single command, and stages that are complete or failed are not runnable.
Plan ==
    /\ pc = "plan"
    /\ \E p \in Plans :
         /\ plan' = [plan EXCEPT ![cur] = p]
         /\ Goto(IF p.runs = 0 THEN "status" ELSE "openclaw")
    /\ UNCHANGED <<execution, batch, cur, run, attempt, result, written, calls,
                   durable, faults>>

\* Mutant: the bound on the attempts is off by one.
RetriesOnceMore(r, n) == r = "retryable" /\ n <= OPENCLAW_MAX_ATTEMPTS

Retries(r, n) == r = "retryable" /\ n < OPENCLAW_MAX_ATTEMPTS

\* One invocation of the CLI.  A time-out, empty output or a transient launch
\* error is retryable, any other failure is not.
CallOpenClaw ==
    /\ pc = "openclaw"
    /\ calls' = [calls EXCEPT ![cur][run] = @ + 1]
    /\ attempt' = attempt + 1
    /\ \E r \in {"ok", "retryable", "fatal"} :
         /\ result' = IF r = "ok" THEN "ok" ELSE "failed"
         /\ Goto(IF Retries(r, attempt') THEN "openclaw" ELSE "receipt")
    /\ UNCHANGED <<execution, batch, cur, plan, run, written, durable, faults>>

TheReceipt ==
    [msg |-> cur, run |-> run, type |-> "openclaw", ok |-> result = "ok"]

\* Mutant: a failed stage does not end the mission's run.
ContinuesAfterFailure == run < plan[cur].runs

Continues == result = "ok" /\ run < plan[cur].runs

\* A stage's receipt must be written before anything else happens.
PostStageReceipt ==
    /\ pc = "receipt" /\ plan[cur].staged
    /\ \E post \in PostOutcomes :
         /\ PostReceipt(post, TheReceipt)
         /\ Fault(post)
         /\ \/ /\ ~post.ok /\ Return
            \/ /\ post.ok /\ Continues
               /\ Goto("openclaw")
               /\ run' = run + 1 /\ attempt' = 0 /\ result' = "none"
               /\ UNCHANGED <<cur, written>>
            \/ /\ post.ok /\ ~Continues
               /\ Goto("status")
               /\ UNCHANGED <<cur, run, attempt, result, written>>
    /\ UNCHANGED <<execution, batch, plan, calls, statuses, mission>>

\* The single command: the status is posted whether or not the receipt was.
PostSingleReceipt ==
    /\ pc = "receipt" /\ ~plan[cur].staged
    /\ \E post \in PostOutcomes :
         /\ PostReceipt(post, TheReceipt)
         /\ Fault(post)
         /\ written' = post.ok
    /\ Goto("status")
    /\ UNCHANGED <<execution, batch, cur, plan, run, attempt, result, calls,
                   statuses, mission>>

\* A plan with nothing runnable ends "complete" without a run.
FinalStatus ==
    IF result = "ok" \/ plan[cur].runs = 0 THEN "complete" ELSE "failed"

\* Mutant: XACK whenever the status was written, receipt or not.
RecordedStatus(post) == post.ok

Recorded(post) == written /\ post.ok

PostFinalStatus ==
    /\ pc = "status"
    /\ \E post \in PostOutcomes :
         /\ PostStatus(post, FinalStatus)
         /\ Fault(post)
         /\ \/ /\ Recorded(post)
               /\ Goto("ack")
               /\ UNCHANGED <<cur, run, attempt, result, written>>
            \/ /\ ~Recorded(post)
               /\ Return
    /\ UNCHANGED <<execution, batch, plan, calls, receipts>>

\* The terminal event and jarvis.updates are best effort; XACK is last.
Ack ==
    /\ pc = "ack"
    /\ execution' = XAck(execution, cur)
    /\ Return
    /\ UNCHANGED <<batch, plan, calls, durable, faults>>

-----------------------------------------------------------------------------
(* _finish_unexpected_execution_failure.                                   *)

\* What can raise: reading the entry's fields or openclaw.json, launching the
\* CLI, describing the run for its receipt, and XACK (applied or not).
Raise ==
    /\ pc \in {"start", "plan", "openclaw", "receipt", "ack"}
    /\ execution' \in IF pc = "ack" THEN {execution, XAck(execution, cur)}
                                     ELSE {execution}
    /\ faults' = faults \cup {cur}
    /\ Goto(IF MissionOf(cur) = Poison THEN "ackFailure" ELSE "internalReceipt")
    /\ UNCHANGED <<batch, cur, plan, run, attempt, result, written, calls, durable>>

PostInternalReceipt ==
    /\ pc = "internalReceipt"
    /\ \E post \in PostOutcomes :
         /\ PostReceipt(post, [msg |-> cur, run |-> 0, type |-> "internal",
                               ok |-> FALSE])
         /\ Fault(post)
         /\ written' = post.ok
    /\ Goto("internalStatus")
    /\ UNCHANGED <<execution, batch, cur, plan, run, attempt, result, calls,
                   statuses, mission>>

PostInternalStatus ==
    /\ pc = "internalStatus"
    /\ \E post \in PostOutcomes :
         /\ PostStatus(post, "failed")
         /\ Fault(post)
         /\ \/ /\ Recorded(post)
               /\ Goto("ackFailure")
               /\ UNCHANGED <<cur, run, attempt, result, written>>
            \/ /\ ~Recorded(post)
               /\ Return
    /\ UNCHANGED <<execution, batch, plan, calls, receipts>>

\* XACK of a failed or poison entry; an error here is only logged.
AckFailure ==
    /\ pc = "ackFailure"
    /\ execution' \in {execution, XAck(execution, cur)}
    /\ Return
    /\ UNCHANGED <<batch, plan, calls, durable, faults>>

\* The process dies and is started again: what it had in hand stays pending,
\* and the next read asks for new entries only.
Crash ==
    /\ cur # NoMessage \/ batch # <<>>
    /\ faults' = faults \cup Waiting \cup ({cur} \ {NoMessage})
    /\ batch' = <<>>
    /\ Return
    /\ UNCHANGED <<execution, plan, calls, durable>>

-----------------------------------------------------------------------------
Handle ==
    \/ Read \/ Take
    \/ DropPoison \/ PostStarted \/ Plan \/ CallOpenClaw
    \/ PostStageReceipt \/ PostSingleReceipt \/ PostFinalStatus \/ Ack
    \/ PostInternalReceipt \/ PostInternalStatus \/ AckFailure

Next ==
    \/ \E m \in Missions \cup {Poison} : Publish(m)
    \/ Handle
    \/ Raise
    \/ Crash

Spec == Init /\ [][Next]_vars

\* The read loop never stops taking its next step; nothing makes the world
\* publish, raise or crash.
FairSpec == Spec /\ WF_vars(Handle)

-----------------------------------------------------------------------------
PCs == {"read", "start", "plan", "openclaw", "receipt", "status", "ack",
        "internalReceipt", "internalStatus", "ackFailure"}

\* Every variable stays in its type.
TypeOK ==
    /\ execution \in StreamType(Missions \cup {Poison})
    /\ Len(execution.log) <= MaxMessages
    /\ batch \in Seq(Ids)
    /\ cur \in Ids \cup {NoMessage}
    /\ pc \in PCs
    /\ plan \in [Ids -> Plans \cup {NoPlan}]
    /\ run \in Runs
    /\ attempt \in 0..OPENCLAW_MAX_ATTEMPTS
    /\ result \in {"none", "ok", "failed"}
    /\ written \in BOOLEAN
    /\ calls \in [Ids -> [Runs -> 0..OPENCLAW_MAX_ATTEMPTS]]
    /\ receipts \subseteq Receipt
    /\ statuses \subseteq [msg : Ids, status : {"complete", "failed"}]
    /\ mission \in [Missions -> {"active", "complete", "failed"}]
    /\ faults \subseteq Ids

HasReceipt(i) == \E x \in receipts : x.msg = i
HasStatus(i) == \E x \in statuses : x.msg = i

\* The work on an entry has a receipt, or its plan had nothing to run.
Accounted(i) == HasReceipt(i) \/ (plan[i].staged /\ plan[i].runs = 0)

Succeeded(i, k) ==
    [msg |-> i, run |-> k, type |-> "openclaw", ok |-> TRUE] \in receipts

\* An entry leaves the stream only when its mission has a final status and the
\* work has a receipt in the database: whatever fails, and wherever the handler
\* returns, raises or dies, no mission's entry is acknowledged silently.
AckedIsRecorded ==
    \A i \in Acked(execution) :
        MissionOf(i) # Poison =>
            HasStatus(i) /\ Accounted(i)

\* A staged entry completes its mission only with a success receipt of every
\* runnable stage, and no stage is given to OpenClaw before the one in front
\* of it has one.
StagesProven ==
    \A i \in Ids : plan[i].staged =>
        /\ [msg |-> i, status |-> "complete"] \in statuses =>
             \A k \in 1..plan[i].runs : Succeeded(i, k)
        /\ \A k \in 2..MaxStages : calls[i][k] > 0 => Succeeded(i, k - 1)

\* An entry is left pending only where the environment failed it: the code
\* itself never walks away from an entry that met no fault.
LeftOnlyByFault ==
    \A i \in execution.pending :
        i = cur \/ i \in faults \/ i \in Waiting

\* What the other components rely on: the executor implements the contract
\* they are composed with, through every retry, raise, lost reply and crash.
Itself(m) == m
Contract == INSTANCE ExecutionContract WITH
    Entries <- Missions \cup {Poison},
    Bare <- Poison,
    MissionIn <- Itself,
    hand <- Waiting \cup ({cur} \ {NoMessage}),
    accounted <- {i \in Ids : Accounted(i)},
    recorded <- statuses,
    hit <- faults
ContractSpec == Contract!ContractSpec

\* With the handler running, every published entry is acknowledged or was hit
\* by a fault: the loop never blocks behind an entry.
EveryEntrySettled ==
    \A i \in Ids :
        i \in Positions(execution) ~> (i \in Acked(execution) \/ i \in faults)
=============================================================================

---------------------------- MODULE MissionLoop ----------------------------
(***************************************************************************)
(* The whole way of a command: intake commits a mission and adds it to     *)
(* jarvis.commands; the coordinator asks the guard; an operator decides    *)
(* what needs approval; the worker and the executor share                  *)
(* jarvis.execution; the worker's reports come back through the            *)
(* coordinator.  Coordinator and Worker are the modules of that name, the  *)
(* executor is what ExecutionContract leaves of it (Executor implements    *)
(* it), and a request to the control plane is one step, except that a      *)
(* decision is read and committed apart (Approvals has the sessions).      *)
(***************************************************************************)
EXTENDS ReadLoop

CONSTANTS
    Missions, Poison, Faulty,   \* as in Coordinator
    BatchSize,
    MaxStray,      \* bound on entries without mission_id, added by hand
    MaxDecisions   \* bound on the decisions that read one approval as pending

ASSUME MissionLoopAssumption ==
    /\ Poison \notin Missions
    /\ Faulty \subseteq Missions \cup {Poison}
    /\ BatchSize \in Nat \ {0}
    /\ MaxStray \in Nat /\ MaxDecisions \in Nat

VARIABLES
    commands, execution, receiptStream, mission, approval, receipts, answer,
    faults, commandLoop, receiptLoop,   \* Coordinator
    workerLoop, skipped,                \* Worker
    hand, accounted, recorded, hit,     \* ExecutionContract
    intake,     \* how far the intake request of a mission is
    deciding,   \* decisions that have read the mission's approval as pending
    decisions,  \* approvals and denials committed: [approved, denied]
    resume,     \* resume messages still to be added, by mission
    stray       \* entries without mission_id added so far

C == INSTANCE Coordinator
W == INSTANCE Worker

MissionIn(e) == e.mission
Entries == [mission : Missions \cup {Poison}, skip : BOOLEAN]
X == INSTANCE ExecutionContract WITH Bare <- Poison

coordinatorOnly == <<commands, approval, receipts, answer, commandLoop, receiptLoop>>
workerOnly == <<workerLoop, skipped>>
executorOnly == <<hand, accounted, recorded, hit>>
operator == <<intake, deciding, decisions, resume, stray>>
vars == <<coordinatorOnly, workerOnly, executorOnly, operator,
          execution, receiptStream, mission, faults>>

Init ==
    /\ commands = EmptyStream /\ execution = EmptyStream
    /\ receiptStream = EmptyStream
    /\ mission = [m \in Missions |-> "none"]
    /\ approval = [m \in Missions |-> "none"]
    /\ receipts = {} /\ answer = [m \in Missions |-> "none"] /\ faults = {}
    /\ commandLoop = IdleLoop /\ receiptLoop = IdleLoop
    /\ workerLoop = IdleLoop /\ skipped = {}
    /\ hand = {} /\ accounted = {} /\ recorded = {} /\ hit = {}
    /\ intake = [m \in Missions |-> "new"]
    /\ deciding = [m \in Missions |-> 0]
    /\ decisions = [m \in Missions |-> [approved |-> 0, denied |-> 0]]
    /\ resume = [m \in Missions |-> 0]
    /\ stray = 0

-----------------------------------------------------------------------------
(* CommandService.intake.                                                  *)

IntakeUnchanged ==
    UNCHANGED <<execution, receiptStream, approval, receipts, answer, commandLoop,
                receiptLoop, workerOnly, executorOnly, deciding, decisions, resume,
                stray>>

\* A synthetic rehearsal asks for a mission that is not published.
CreateMission(m) ==
    /\ intake[m] = "new"
    /\ mission' = [mission EXCEPT ![m] = "pending"]
    /\ intake' \in {[intake EXCEPT ![m] = s] : s \in {"publish", "unpublished"}}
    /\ UNCHANGED <<commands, faults>>
    /\ IntakeUnchanged

\* XADD after COMMIT; one that is reported as failed may have been applied.
PublishCommand(m) ==
    /\ intake[m] = "publish"
    /\ \/ /\ commands' = XAdd(commands, m)
          /\ intake' = [intake EXCEPT ![m] = "done"]
          /\ UNCHANGED faults
       \/ /\ m \in Faulty /\ faults' = faults \cup {m}
          /\ commands' \in {commands, XAdd(commands, m)}
          /\ intake' \in {[intake EXCEPT ![m] = s] : s \in {"failed", "done"}}
    /\ UNCHANGED mission
    /\ IntakeUnchanged

DispatchFailed(m) ==
    /\ intake[m] = "failed"
    /\ mission' = [mission EXCEPT ![m] = "failed"]
    /\ intake' = [intake EXCEPT ![m] = "done"]
    /\ UNCHANGED <<commands, faults>>
    /\ IntakeUnchanged

-----------------------------------------------------------------------------
(* Decisions, and what they set going.                                     *)

OperatorUnchanged ==
    UNCHANGED <<commands, receiptStream, receipts, answer, commandLoop, receiptLoop,
                workerOnly, executorOnly, intake, stray>>

ReadPending(m) ==
    /\ approval[m] = "pending"
    /\ deciding[m] + decisions[m].approved + decisions[m].denied < MaxDecisions
    /\ deciding' = [deciding EXCEPT ![m] = @ + 1]
    /\ UNCHANGED <<execution, mission, approval, decisions, resume, faults>>
    /\ OperatorUnchanged

Approve(m) ==
    /\ deciding[m] > 0
    /\ deciding' = [deciding EXCEPT ![m] = @ - 1]
    /\ approval' = [approval EXCEPT ![m] = "approved"]
    /\ mission' = [mission EXCEPT ![m] = "active"]
    /\ decisions' = [decisions EXCEPT ![m].approved = @ + 1]
    /\ resume' = [resume EXCEPT ![m] = @ + 1]
    /\ UNCHANGED <<execution, faults>>
    /\ OperatorUnchanged

Deny(m) ==
    /\ deciding[m] > 0
    /\ deciding' = [deciding EXCEPT ![m] = @ - 1]
    /\ approval' = [approval EXCEPT ![m] = "denied"]
    /\ mission' = [mission EXCEPT ![m] = "blocked"]
    /\ decisions' = [decisions EXCEPT ![m].denied = @ + 1]
    /\ UNCHANGED <<execution, resume, faults>>
    /\ OperatorUnchanged

\* _publish_execution_resume; an XADD that fails, applied or not, is swallowed.
PublishResume(m) ==
    /\ resume[m] > 0
    /\ resume' = [resume EXCEPT ![m] = @ - 1]
    /\ \/ /\ execution' = XAdd(execution, [mission |-> m, skip |-> FALSE])
          /\ UNCHANGED faults
       \/ /\ m \in Faulty /\ faults' = faults \cup {m}
          /\ UNCHANGED execution
    /\ UNCHANGED <<mission, approval, deciding, decisions>>
    /\ OperatorUnchanged

\* An entry without mission_id, added by hand to any of the streams.
AddStray ==
    /\ stray < MaxStray
    /\ stray' = stray + 1
    /\ \/ /\ commands' = XAdd(commands, Poison)
          /\ UNCHANGED <<execution, receiptStream>>
       \/ /\ execution' = XAdd(execution, [mission |-> Poison, skip |-> FALSE])
          /\ UNCHANGED <<commands, receiptStream>>
       \/ /\ receiptStream' = XAdd(receiptStream, [mission |-> Poison, ok |-> FALSE])
          /\ UNCHANGED <<commands, execution>>
    /\ UNCHANGED <<mission, approval, receipts, answer, faults, commandLoop,
                   receiptLoop, workerOnly, executorOnly, intake, deciding,
                   decisions, resume>>

-----------------------------------------------------------------------------
(* The components' steps, next to what they leave alone.                   *)

Coordinate(A) == A /\ UNCHANGED <<workerOnly, executorOnly, operator>>

WorkOn(A) ==
    A /\ UNCHANGED <<coordinatorOnly, executorOnly, operator, mission>>

Execute(A) ==
    /\ A
    /\ \A i \in hit' \ hit : execution.log[i].mission \in Faulty
    /\ UNCHANGED <<coordinatorOnly, workerOnly, operator, receiptStream, faults>>

ExecutorStep == X!Deliver \/ (\E i \in hand : X!Handle(i) \/ X!Settle(i)) \/ X!Die

Next ==
    \/ \E m \in Missions :
         \/ CreateMission(m) \/ PublishCommand(m) \/ DispatchFailed(m)
         \/ ReadPending(m) \/ Approve(m) \/ Deny(m) \/ PublishResume(m)
    \/ AddStray
    \/ Coordinate(C!Next)
    \/ WorkOn(W!Next)
    \/ Execute(ExecutorStep)

Spec == Init /\ [][Next]_vars

\* Every process keeps running its tasks and every request that was begun goes
\* on; nobody has to send a command or decide, and nothing has to fail.
Progress ==
    /\ X!Deliver \/ \E i \in hand : X!Handle(i) \/ X!Settle(i)
    /\ hit' = hit

Fairness ==
    /\ \A m \in Missions :
         /\ WF_vars(PublishCommand(m)) /\ WF_vars(DispatchFailed(m))
         /\ WF_vars(PublishResume(m))
    /\ WF_vars(Coordinate(C!HandleCommand)) /\ WF_vars(Coordinate(C!HandleReceipt))
    /\ WF_vars(WorkOn(W!HandleWork))
    /\ WF_vars(Execute(Progress))

-----------------------------------------------------------------------------
\* Every variable stays in its type.
TypeOK ==
    /\ commands \in StreamType(Missions \cup {Poison})
    /\ execution \in StreamType(Entries)
    /\ receiptStream \in StreamType([mission : Missions \cup {Poison}, ok : BOOLEAN])
    /\ mission \in [Missions -> {"none", "pending", "awaiting_approval", "active",
                                 "blocked", "complete", "failed"}]
    /\ approval \in [Missions -> {"none", "pending", "approved", "denied"}]
    /\ receipts \subseteq Missions
    /\ answer \in [Missions -> C!Answers \cup {"none"}]
    /\ faults \subseteq Missions \cup {Poison}
    /\ commandLoop \in LoopType(C!CommandLabels)
    /\ receiptLoop \in LoopType(C!ReceiptLabels)
    /\ workerLoop \in LoopType(W!WorkLabels)
    /\ skipped \subseteq Nat /\ hand \subseteq Nat
    /\ accounted \subseteq Nat /\ hit \subseteq Nat
    /\ recorded \subseteq [msg : Nat, status : X!Final]
    /\ intake \in [Missions -> {"new", "publish", "unpublished", "failed", "done"}]
    /\ deciding \in [Missions -> 0..MaxDecisions]
    /\ decisions \in [Missions -> [approved : 0..MaxDecisions,
                                   denied : 0..MaxDecisions]]
    /\ resume \in [Missions -> 0..MaxDecisions]
    /\ stray \in 0..MaxStray

Terminal == {"complete", "failed", "blocked"}

EntriesOf(m, flagged) ==
    {i \in Positions(execution) :
        execution.log[i].mission = m /\ execution.log[i].skip = flagged}

GrantCount(m) ==
    (IF answer[m] = "allow" THEN 1 ELSE 0) + decisions[m].approved

\* Where the environment failed nothing and one decision was made at most.
Undisturbed(m) ==
    /\ m \notin faults
    /\ \A i \in hit : execution.log[i].mission # m
    /\ decisions[m].approved + decisions[m].denied <= 1

InHandOf(loop, s) == {s.log[i] : i \in InHand(loop) \cup (Positions(s) \ Delivered(s))}

\* Something still has the mission in hand, or will be handed it.
InFlight(m) ==
    \/ intake[m] \in {"publish", "failed"}
    \/ m \in InHandOf(commandLoop, commands)
    \/ deciding[m] > 0 \/ resume[m] > 0
    \/ \E e \in InHandOf(workerLoop, execution) : e.mission = m
    \/ \E i \in hand : execution.log[i].mission = m
    \/ \E e \in InHandOf(receiptLoop, receiptStream) : e.mission = m

\* The worker was handed the entry it had routed to the executor.
RoutedBack(m) == \E i \in skipped : execution.log[i].mission = m

\* A published mission is never forgotten: it is finished, an operator can
\* decide it, or somebody has it in hand; else the environment failed one of its calls,
\* or the worker was handed its own re-routed entry.
NeverForgotten ==
    \A m \in Missions :
        \/ mission[m] \in Terminal \cup {"none"}
        \/ intake[m] = "unpublished"
        \/ approval[m] = "pending"
        \/ InFlight(m)
        \/ ~Undisturbed(m) \/ RoutedBack(m)

\* Worker and executor post statuses on their own: a mission completed in
\* an undisturbed run has a receipt, or the coordinator is about to write it.
CompleteHasReceipt ==
    \A m \in Missions :
        mission[m] = "complete" /\ Undisturbed(m) =>
            \/ m \in receipts
            \/ \E i \in accounted : execution.log[i].mission = m
            \/ /\ receiptLoop.pc \in {"notify", "receipt"}
               /\ receiptStream.log[receiptLoop.cur].mission = m

\* What the worker logs as complex_routed_to_executor reaches the executor:
\* the worker itself acknowledges no flagged entry.
RoutedReachesExecutor == skipped = {}

\* Undisturbed, a finished mission stays as it is: no status that was posted
\* on the way ("active" before XADD, the worker's report) comes after it.
FinishedStays ==
    [][\A m \in Missions :
         mission[m] \in Terminal /\ Undisturbed(m)' => mission'[m] = mission[m]]_vars

\* Every published command comes to an end or to an operator, unless it was disturbed or
\* the worker was handed its own re-routed entry.
EveryCommandSettled ==
    \A m \in Missions :
        intake[m] = "publish" ~>
            \/ mission[m] \in Terminal
            \/ approval[m] = "pending"
            \/ ~Undisturbed(m) \/ RoutedBack(m)

\* From the guard's answer to the executor, Jarvis is a governance gate, end to
\* end: work is added only where it was granted and as often as it was, an entry
\* for each "allow" and each approval at most, and one re-routed entry for each
\* of those at most, whatever is lost, raised, crashed or decided twice on the way.
Numbered(Count(_)) == {grant \in Missions \X (1..MaxDecisions + 1) : grant[2] <= Count(grant[1])}
EntryCount(m) == Cardinality(EntriesOf(m, FALSE))
RoutedCount(m) == Cardinality(EntriesOf(m, TRUE))

Gate == INSTANCE GovernanceGate WITH
            Grants <- Missions \X (1..MaxDecisions + 1),
            granted <- Numbered(GrantCount),
            acted <- Numbered(EntryCount)
Rerouting == INSTANCE GovernanceGate WITH
            Grants <- Missions \X (1..MaxDecisions + 1),
            granted <- Numbered(EntryCount),
            acted <- Numbered(RoutedCount)
GateSpec == Gate!GateSpec /\ Rerouting!GateSpec
=============================================================================

------------------------------- MODULE Worker -------------------------------
(***************************************************************************)
(* executor/worker.py: classifies a command with the local model, opens a  *)
(* URL or does nothing, and reports on jarvis.receipts.  It reads          *)
(* jarvis.execution in the group and under the eyes of the executor: an    *)
(* entry goes to one of the two.  A complex command is added to the same   *)
(* stream again, flagged so that the worker leaves it alone.               *)
(***************************************************************************)
EXTENDS ReadLoop

CONSTANTS Missions, Poison, Faulty, BatchSize   \* as in Coordinator

VARIABLES
    execution,     \* stream jarvis.execution: [mission, skip]
    receiptStream, \* stream jarvis.receipts: [mission, ok]
    faults,        \* missions the environment hit
    workerLoop,    \* the loop on jarvis.execution
    skipped        \* flagged entries the worker was handed and acknowledged

vars == <<execution, receiptStream, faults, workerLoop, skipped>>

Work == execution.log[workerLoop.cur]

Hit(m) == m \in Faulty /\ faults' = faults \cup {m}

Reported(ok) == XAdd(receiptStream, [mission |-> Work.mission, ok |-> ok])

-----------------------------------------------------------------------------
ReadWork ==
    /\ CanRead(workerLoop, execution)
    /\ execution' = XReadGroup(execution, BatchSize)
    /\ workerLoop' = Handed(workerLoop, execution, BatchSize)
    /\ UNCHANGED <<receiptStream, faults, skipped>>

\* Mutant: a poison entry takes the rest of its batch with it.
TakeWorkOrDropBatch ==
    /\ CanTake(workerLoop)
    /\ LET e == execution.log[Head(workerLoop.batch)]
           taken == Taken(workerLoop,
                IF e.skip \/ e.mission = Poison THEN "ack" ELSE "classify")
       IN  workerLoop' = IF e.mission = Poison THEN [taken EXCEPT !.batch = <<>>]
                                               ELSE taken
    /\ UNCHANGED <<execution, receiptStream, faults, skipped>>

\* The flag is looked at first, then the mission id.
TakeWork ==
    /\ CanTake(workerLoop)
    /\ LET e == execution.log[Head(workerLoop.batch)]
       IN  /\ workerLoop' = Taken(workerLoop,
                IF e.skip \/ e.mission = Poison THEN "ack" ELSE "classify")
           /\ skipped' = IF e.skip THEN skipped \cup {Head(workerLoop.batch)}
                                   ELSE skipped
    /\ UNCHANGED <<execution, receiptStream, faults>>

\* The model does not answer, or not with JSON: reported as failed.
ClassifyFailed ==
    /\ workerLoop.pc = "classify"
    /\ receiptStream' = Reported(FALSE)
    /\ workerLoop' = Goto(workerLoop, "ack")
    /\ UNCHANGED <<execution, faults, skipped>>

\* open_url opened or not, or nothing to do for a short unknown command.
ActOnIntent ==
    /\ workerLoop.pc = "classify"
    /\ \E ok \in BOOLEAN : receiptStream' = Reported(ok)
    /\ workerLoop' = Goto(workerLoop, "ack")
    /\ UNCHANGED <<execution, faults, skipped>>

\* Mutant: it reports as well (no return after XADD).
RouteAndReport ==
    /\ workerLoop.pc = "classify"
    /\ execution' = XAdd(execution, [mission |-> Work.mission, skip |-> TRUE])
    /\ receiptStream' = Reported(TRUE)
    /\ workerLoop' = Goto(workerLoop, "ack")
    /\ UNCHANGED <<faults, skipped>>

\* An unknown intent of more than six words: complex_routed_to_executor.
RouteToExecutor ==
    /\ workerLoop.pc = "classify"
    /\ execution' = XAdd(execution, [mission |-> Work.mission, skip |-> TRUE])
    /\ workerLoop' = Goto(workerLoop, "ack")
    /\ UNCHANGED <<receiptStream, faults, skipped>>

AckWork ==
    /\ workerLoop.pc = "ack"
    /\ execution' = XAck(execution, workerLoop.cur)
    /\ workerLoop' = Finished(workerLoop)
    /\ UNCHANGED <<receiptStream, faults, skipped>>

\* An XADD or XACK raised, applied or not: the exception path.
RaiseWork ==
    /\ workerLoop.pc \in {"classify", "ack"}
    /\ Hit(Work.mission)
    /\ \/ UNCHANGED <<execution, receiptStream>>
       \/ /\ workerLoop.pc = "classify"
          /\ \E ok \in BOOLEAN : receiptStream' = Reported(ok)
          /\ UNCHANGED execution
       \/ /\ workerLoop.pc = "classify"
          /\ execution' = XAdd(execution, [mission |-> Work.mission, skip |-> TRUE])
          /\ UNCHANGED receiptStream
       \/ /\ workerLoop.pc = "ack"
          /\ execution' = XAck(execution, workerLoop.cur)
          /\ UNCHANGED receiptStream
    /\ workerLoop' = Goto(workerLoop,
                          IF Work.mission = Poison THEN "ackError" ELSE "report")
    /\ UNCHANGED skipped

\* "Executor worker internal error" on jarvis.receipts.
ReportError ==
    /\ workerLoop.pc = "report"
    /\ receiptStream' = Reported(FALSE)
    /\ workerLoop' = Goto(workerLoop, "ackError")
    /\ UNCHANGED <<execution, faults, skipped>>

\* XACK in the exception path: an error is only logged.
AckError ==
    /\ workerLoop.pc = "ackError"
    /\ execution' \in {execution, XAck(execution, workerLoop.cur)}
    /\ workerLoop' = Finished(workerLoop)
    /\ UNCHANGED <<receiptStream, faults, skipped>>

\* The process dies: killed, or by an XADD that raises in the exception path
\* (applied or not).  It is started again with nothing in its hands.
CrashWorker ==
    LET lost == {execution.log[i].mission : i \in InHand(workerLoop)}
    IN  /\ lost # {} /\ lost \subseteq Faulty
        /\ faults' = faults \cup lost
        /\ \/ UNCHANGED receiptStream
           \/ workerLoop.pc = "report" /\ receiptStream' = Reported(FALSE)
        /\ workerLoop' = IdleLoop
        /\ UNCHANGED <<execution, skipped>>

-----------------------------------------------------------------------------
HandleWork ==
    \/ ReadWork \/ TakeWork \/ ClassifyFailed \/ ActOnIntent \/ RouteToExecutor
    \/ AckWork \/ ReportError \/ AckError

Next == HandleWork \/ RaiseWork \/ CrashWorker

WorkLabels == {"classify", "report", "ackError", "ack"}
=============================================================================

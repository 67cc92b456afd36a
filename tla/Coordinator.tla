---------------------------- MODULE Coordinator ----------------------------
(***************************************************************************)
(* coordinator/coordinator.py: one process, two tasks.  The command loop   *)
(* asks DashClaw and turns a command into an execution entry, an approval  *)
(* or a failed mission; the receipt loop turns a worker's receipt into the *)
(* mission's status and a receipt row.  POSTs to the control plane are     *)
(* best effort: one that fails is logged and the handler goes on.  The     *)
(* control plane and the streams are shared with the modules that compose  *)
(* with this one (MissionLoop); a POST is one step here.                   *)
(***************************************************************************)
EXTENDS ReadLoop

CONSTANTS
    Missions,   \* mission ids
    Poison,     \* what an entry without a usable mission_id carries
    Faulty,     \* missions whose calls the environment may fail
    BatchSize   \* COUNT of XREADGROUP (10 in the code)

VARIABLES
    commands,      \* stream jarvis.commands: mission ids
    execution,     \* stream jarvis.execution: [mission, skip]
    receiptStream, \* stream jarvis.receipts: [mission, ok]
    mission,       \* mission statuses in the control plane
    approval,      \* approvals there, one for a mission at most
    receipts,      \* missions that have a receipt there
    answer,        \* what DashClaw's guard answered about a mission
    faults,        \* missions the environment hit
    commandLoop,   \* the task on jarvis.commands
    receiptLoop    \* the task on jarvis.receipts

controlPlane == <<mission, approval, receipts>>
vars == <<commands, execution, receiptStream, controlPlane, answer, faults,
          commandLoop, receiptLoop>>

\* The guard's answers, and what the coordinator makes of them.
Answers == {"allow", "requires_approval", "deny", "other"}

\* Mutant: an answer it does not know is taken for "allow".
DecisionAllowsUnknown(a) == IF a = "other" THEN "allow" ELSE a

Decision(a) == IF a = "other" THEN "requires_approval" ELSE a

Command == commands.log[commandLoop.cur]
Report == receiptStream.log[receiptLoop.cur]

\* A fault of the environment while m is being handled.
Hit(m) == m \in Faulty /\ faults' = faults \cup {m}

-----------------------------------------------------------------------------
(* handle_command.                                                         *)

ReadCommands ==
    /\ CanRead(commandLoop, commands)
    /\ commands' = XReadGroup(commands, BatchSize)
    /\ commandLoop' = Handed(commandLoop, commands, BatchSize)
    /\ UNCHANGED <<execution, receiptStream, controlPlane, answer, faults, receiptLoop>>

TakeCommand ==
    /\ CanTake(commandLoop)
    /\ commandLoop' = Taken(commandLoop,
          IF commands.log[Head(commandLoop.batch)] = Poison THEN "ack" ELSE "guard")
    /\ UNCHANGED <<commands, execution, receiptStream, controlPlane, answer, faults,
                   receiptLoop>>

AskGuard(a) ==
    /\ commandLoop.pc = "guard"
    /\ answer' = [answer EXCEPT ![Command] = a]
    /\ commandLoop' = Goto(commandLoop, Decision(a))
    /\ UNCHANGED <<commands, execution, receiptStream, controlPlane, faults, receiptLoop>>

\* allow: routing_decided and the status are posted, then the entry is added.
PostActive ==
    /\ commandLoop.pc = "allow"
    /\ \/ /\ mission' = [mission EXCEPT ![Command] = "active"]
          /\ UNCHANGED faults
       \/ /\ Hit(Command)
          /\ UNCHANGED mission
    /\ commandLoop' = Goto(commandLoop, "add")
    /\ UNCHANGED <<commands, execution, receiptStream, approval, receipts, answer,
                   receiptLoop>>

AddExecution ==
    /\ commandLoop.pc = "add"
    /\ execution' = XAdd(execution, [mission |-> Command, skip |-> FALSE])
    /\ commandLoop' = Goto(commandLoop, "ack")
    /\ UNCHANGED <<commands, receiptStream, controlPlane, answer, faults, receiptLoop>>

\* requires_approval: request_approval in the control plane, then jarvis.updates.
OpenApproval ==
    /\ commandLoop.pc = "requires_approval"
    /\ \/ /\ approval' = [approval EXCEPT ![Command] = "pending"]
          /\ mission' = [mission EXCEPT ![Command] = "awaiting_approval"]
          /\ UNCHANGED faults
       \/ /\ Hit(Command)
          /\ UNCHANGED <<approval, mission>>
    /\ commandLoop' = Goto(commandLoop, "notify")
    /\ UNCHANGED <<commands, execution, receiptStream, receipts, answer, receiptLoop>>

NotifyApproval ==
    /\ commandLoop.pc = "notify"
    /\ commandLoop' = Goto(commandLoop, "ack")
    /\ UNCHANGED <<commands, execution, receiptStream, controlPlane, answer, faults,
                   receiptLoop>>

\* Mutant: the denial is logged and not posted.
DenySilently ==
    /\ commandLoop.pc = "deny"
    /\ commandLoop' = Goto(commandLoop, "ack")
    /\ UNCHANGED <<commands, execution, receiptStream, controlPlane, answer, faults,
                   receiptLoop>>

PostDenied ==
    /\ commandLoop.pc = "deny"
    /\ \/ /\ mission' = [mission EXCEPT ![Command] = "failed"]
          /\ UNCHANGED faults
       \/ /\ Hit(Command)
          /\ UNCHANGED mission
    /\ commandLoop' = Goto(commandLoop, "ack")
    /\ UNCHANGED <<commands, execution, receiptStream, approval, receipts, answer,
                   receiptLoop>>

AckCommand ==
    /\ commandLoop.pc = "ack"
    /\ commands' = XAck(commands, commandLoop.cur)
    /\ commandLoop' = Finished(commandLoop)
    /\ UNCHANGED <<execution, receiptStream, controlPlane, answer, faults, receiptLoop>>

\* DashClaw (after five seconds) or Redis raised: the command is left pending.
\* A Redis command that raised may have been applied.
LeaveCommand ==
    /\ commandLoop.pc \in {"guard", "add", "notify", "ack"}
    /\ Hit(Command)
    /\ commandLoop' = Finished(commandLoop)
    /\ \/ UNCHANGED <<commands, execution>>
       \/ /\ commandLoop.pc = "add"
          /\ execution' = XAdd(execution, [mission |-> Command, skip |-> FALSE])
          /\ UNCHANGED commands
       \/ /\ commandLoop.pc = "ack"
          /\ commands' = XAck(commands, commandLoop.cur)
          /\ UNCHANGED execution
    /\ UNCHANGED <<receiptStream, controlPlane, answer, receiptLoop>>

-----------------------------------------------------------------------------
(* handle_receipt.                                                         *)

ReadReceipts ==
    /\ CanRead(receiptLoop, receiptStream)
    /\ receiptStream' = XReadGroup(receiptStream, BatchSize)
    /\ receiptLoop' = Handed(receiptLoop, receiptStream, BatchSize)
    /\ UNCHANGED <<commands, execution, controlPlane, answer, faults, commandLoop>>

TakeReceipt ==
    /\ CanTake(receiptLoop)
    /\ receiptLoop' = Taken(receiptLoop,
          IF receiptStream.log[Head(receiptLoop.batch)].mission = Poison
          THEN "ack" ELSE "status")
    /\ UNCHANGED <<commands, execution, receiptStream, controlPlane, answer, faults,
                   commandLoop>>

\* DashClaw's outcome is best effort; then the mission's status.
PostReportedStatus ==
    /\ receiptLoop.pc = "status"
    /\ \/ /\ mission' = [mission EXCEPT ![Report.mission] =
                           IF Report.ok THEN "complete" ELSE "failed"]
          /\ UNCHANGED faults
       \/ /\ Hit(Report.mission)
          /\ UNCHANGED mission
    /\ receiptLoop' = Goto(receiptLoop, "notify")
    /\ UNCHANGED <<commands, execution, receiptStream, approval, receipts, answer,
                   commandLoop>>

NotifyReceipt ==
    /\ receiptLoop.pc = "notify"
    /\ receiptLoop' = Goto(receiptLoop, "receipt")
    /\ UNCHANGED <<commands, execution, receiptStream, controlPlane, answer, faults,
                   commandLoop>>

PostReportReceipt ==
    /\ receiptLoop.pc = "receipt"
    /\ \/ /\ receipts' = receipts \cup {Report.mission}
          /\ UNCHANGED faults
       \/ /\ Hit(Report.mission)
          /\ UNCHANGED receipts
    /\ receiptLoop' = Goto(receiptLoop, "ack")
    /\ UNCHANGED <<commands, execution, receiptStream, mission, approval, answer,
                   commandLoop>>

AckReceipt ==
    /\ receiptLoop.pc = "ack"
    /\ receiptStream' = XAck(receiptStream, receiptLoop.cur)
    /\ receiptLoop' = Finished(receiptLoop)
    /\ UNCHANGED <<commands, execution, controlPlane, answer, faults, commandLoop>>

\* Whatever raises in the handler, the receipt is acknowledged, unless that
\* XACK raises too.
GiveUpReceipt ==
    /\ receiptLoop.pc \in {"status", "notify", "ack"}
    /\ Hit(Report.mission)
    /\ receiptStream' \in {receiptStream, XAck(receiptStream, receiptLoop.cur)}
    /\ receiptLoop' = Finished(receiptLoop)
    /\ UNCHANGED <<commands, execution, controlPlane, answer, commandLoop>>

\* The process dies with both tasks, or the reply of a read is lost: the group
\* never hands out again what was read.
CrashCoordinator ==
    LET lost == {commands.log[i] : i \in InHand(commandLoop)}
                  \cup {receiptStream.log[i].mission : i \in InHand(receiptLoop)}
    IN  /\ lost # {} /\ lost \subseteq Faulty
        /\ faults' = faults \cup lost
        /\ commandLoop' = IdleLoop /\ receiptLoop' = IdleLoop
        /\ UNCHANGED <<commands, execution, receiptStream, controlPlane, answer>>

-----------------------------------------------------------------------------
HandleCommand ==
    \/ ReadCommands \/ TakeCommand \/ \E a \in Answers : AskGuard(a)
    \/ PostActive \/ AddExecution \/ OpenApproval \/ NotifyApproval \/ PostDenied
    \/ AckCommand

HandleReceipt ==
    \/ ReadReceipts \/ TakeReceipt \/ PostReportedStatus \/ NotifyReceipt
    \/ PostReportReceipt \/ AckReceipt

Next ==
    HandleCommand \/ HandleReceipt \/ LeaveCommand \/ GiveUpReceipt \/ CrashCoordinator

CommandLabels ==
    {"guard", "allow", "add", "requires_approval", "notify", "deny", "ack"}
ReceiptLabels == {"status", "notify", "receipt", "ack"}
=============================================================================

---------------------------- MODULE OperatorInbox ----------------------------
(***************************************************************************)
(* The operator inbox.  Its items are not stored: every read derives them  *)
(* from what is wrong now, under keys that are stable, and hides those     *)
(* the operator has triaged.  Only the triage has rows of its own.         *)
(***************************************************************************)
EXTENDS Naturals, Sequences, FiniteSets, Functions, Lists

CONSTANTS
    Approvals,     \* 1..n
    Findings,      \* heartbeat findings other than aging approvals, 1..n
    Missions,      \* 1..n
    Urgent,        \* items whose own row says so: risk red, severity critical
    MaxChanges     \* bound on what changes, triage by others included

VARIABLES
    approval,      \* status of every approval
    mission,       \* status of every mission
    broken,        \* missions with an integration_action_failed event
    findings,      \* open heartbeat findings, by item key
    arrival,       \* every key that ever had a cause, by created_at
    triage,        \* operator_inbox_state, by key
    changes        \* changes so far

inboxVars == <<mission, broken, findings, arrival, triage, changes>>

Keys == ({"approval", "aging"} \X Approvals) \cup ({"heartbeat"} \X Findings)
            \cup ({"integration_failure", "mission_terminal"} \X Missions)

NoRow == [acknowledged |-> FALSE, snoozed |-> FALSE, dismissed |-> FALSE]

InboxInit ==
    /\ mission = [m \in Missions |-> "none"] /\ broken = {} /\ findings = {}
    /\ arrival = <<>> /\ changes = 0
    /\ triage = [k \in Keys |-> NoRow]

-----------------------------------------------------------------------------
(* What the items are derived from.                                        *)

Arrived(k) == arrival' = Append(Kept(arrival, Keys \ {k}), k)

Change == changes < MaxChanges /\ changes' = changes + 1

\* Called with the request of an approval.
RequestArrives(a) ==
    /\ Arrived(<<"approval", a>>)
    /\ UNCHANGED <<mission, broken, findings, triage, changes>>

\* A finding that comes again is the same row, with its first_seen_at.
FindingOpens(k) ==
    /\ k[1] \in {"aging", "heartbeat"} /\ k \notin findings /\ Change
    /\ k[1] = "aging" => approval[k[2]] = "pending"
    /\ findings' = findings \cup {k}
    /\ IF k \in Range(arrival) THEN UNCHANGED arrival ELSE Arrived(k)
    /\ UNCHANGED <<approval, mission, broken, triage>>

FindingResolves(k) ==
    /\ k \in findings /\ Change
    /\ findings' = findings \ {k}
    /\ UNCHANGED <<approval, mission, broken, arrival, triage>>

\* The item stands for the mission's latest integration_action_failed.
IntegrationFails(m) ==
    /\ mission[m] = "active" /\ Change
    /\ broken' = broken \cup {m}
    /\ Arrived(<<"integration_failure", m>>)
    /\ UNCHANGED <<approval, mission, findings, triage>>

MissionMoves(m) ==
    /\ mission[m] # "failed" /\ Change
    /\ \/ /\ mission' = [mission EXCEPT ![m] = "failed"]
          /\ Arrived(<<"mission_terminal", m>>)
       \/ /\ mission[m] = "none" /\ mission' = [mission EXCEPT ![m] = "active"]
          /\ UNCHANGED arrival
    /\ UNCHANGED <<approval, broken, findings, triage>>

-----------------------------------------------------------------------------
(* GET /operator/inbox                                                     *)

Exists(k) ==
    CASE k[1] = "approval" -> approval[k[2]] = "pending"
      [] k[1] = "integration_failure" -> k[2] \in broken /\ mission[k[2]] = "active"
      [] k[1] = "mission_terminal" -> mission[k[2]] = "failed"
      [] OTHER -> k \in findings

\* A pending approval has its own item: the finding about its age is left out.
Repeats(k) == k[1] = "aging" /\ approval[k[2]] = "pending"

EffectiveStatus(row) ==
    IF row.dismissed THEN "dismissed"
    ELSE IF row.snoozed THEN "snoozed"
    ELSE IF row.acknowledged THEN "acknowledged" ELSE "open"

Severity(k) ==
    IF k[1] = "integration_failure" \/ k \in Urgent THEN "urgent"
    ELSE IF k[1] = "mission_terminal" THEN "attention" ELSE "info"

Open(k) == Exists(k) /\ ~Repeats(k) /\ EffectiveStatus(triage[k]) = "open"

\* By severity, then by created_at; every item kind keeps below its limit.
OpenItems ==
    LET Of(severity) == Kept(arrival, {k \in Keys : Open(k) /\ Severity(k) = severity})
    IN Of("urgent") \o Of("attention") \o Of("info")

-----------------------------------------------------------------------------
(* POST /operator/inbox/{item_key}/...; any key is taken.                  *)

Marked(k, mark) ==
    CASE mark = "acknowledge" -> [triage[k] EXCEPT !.acknowledged = TRUE, !.snoozed = FALSE]
      [] mark = "snooze" -> [triage[k] EXCEPT !.snoozed = TRUE]
      [] mark = "dismiss" -> [triage[k] EXCEPT !.dismissed = TRUE]

Mark(k, mark) ==
    /\ triage' = [triage EXCEPT ![k] = Marked(k, mark)]
    /\ UNCHANGED <<approval, mission, broken, findings, arrival>>

MarkElsewhere(k, mark) == k \in Range(OpenItems) /\ Change /\ Mark(k, mark)

SnoozeEnds(k) ==
    /\ triage[k].snoozed /\ Change
    /\ triage' = [triage EXCEPT ![k].snoozed = FALSE]
    /\ UNCHANGED <<approval, mission, broken, findings, arrival>>

InboxChanges ==
    \/ \E k \in Keys : FindingOpens(k) \/ FindingResolves(k) \/ SnoozeEnds(k)
    \/ \E m \in Missions : IntegrationFails(m) \/ MissionMoves(m)
    \/ \E k \in Keys, mark \in {"acknowledge", "snooze", "dismiss"} : MarkElsewhere(k, mark)
=============================================================================

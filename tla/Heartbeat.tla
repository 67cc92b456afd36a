----------------------------- MODULE Heartbeat -----------------------------
(***************************************************************************)
(* POST /heartbeat/run: one database transaction that texts reminders and  *)
(* escalations of pending approvals, then opens and resolves findings.     *)
(* The heartbeat worker gives a run up after its time-out while the        *)
(* control plane goes on with it, so that runs overlap.  A run is cut into *)
(* one action per await: READ COMMITTED reads, row locks until the end, an *)
(* INSERT that waits for another run's row with its unique key.            *)
(* A text is sent when its row is not yet committed, so a roll-back takes  *)
(* back the row and not the text.                                          *)
(***************************************************************************)
EXTENDS Integers, FiniteSets

CONSTANTS
    Approvals, Conditions,          \* what is watched: approvals, and what is
                                    \* checked after them (receipts, workers,
                                    \* components, integrations, costs)
    Runs,                           \* runs in progress at once
    RemindersEnabled,               \* APPROVAL_REMINDERS_ENABLED
    FIRST, REPEAT, ESCALATION,      \* APPROVAL_REMINDER_*, APPROVAL_ESCALATION_MINUTES
    MAX_ATTEMPTS,                   \* APPROVAL_REMINDER_MAX_ATTEMPTS
    AGING,                          \* HEARTBEAT_AGING_APPROVAL_HOURS
    MaxTime, MaxFaults, MaxChanges  \* bounds of the model

ASSUME HeartbeatAssumption ==
    /\ RemindersEnabled \in BOOLEAN
    /\ {FIRST, REPEAT, ESCALATION, MAX_ATTEMPTS, AGING} \subseteq Nat
    /\ {MaxTime, MaxFaults, MaxChanges} \subseteq Nat
    /\ IsFiniteSet(Runs)

VARIABLES
    clock,
    approval,    \* committed approvals and when they were created
    holding,     \* conditions a check would find now
    reminders,   \* committed approval_reminders
    findings,    \* committed heartbeat_findings, by dedupe_key
    texts,       \* history: texts Twilio accepted, by dedupe_key
    lost,        \* history: of these, texts whose row was rolled back
    run,         \* the runs in progress
    waiting,     \* the run the heartbeat worker waits for
    faults, changes

vars == <<clock, approval, holding, reminders, findings, texts, lost, run,
          waiting, faults, changes>>

\* The slot of a reminder's dedupe_key; an escalation has one key.
Escalation == 0
Slots == 0..MAX_ATTEMPTS
Keys == Approvals \X Slots
Row == [approval : Approvals, slot : Slots, at : 0..MaxTime, texted : BOOLEAN]

\* A finding's dedupe_key: its type and what it is about.
Findings == ({"aging_approval"} \X Approvals) \cup ({"condition"} \X Conditions)
FindingStatus == {"absent", "open", "resolved"}

NoRun == "none"
Idle == [pc |-> "idle", now |-> 0, todo |-> {}, key |-> <<>>, count |-> 0,
         texted |-> FALSE, rows |-> {}, keys |-> {}, left |-> {},
         finding |-> <<>>, seen |-> "absent", writes |-> {}]

\* No approval, no row and no run, yet.
Fresh ==
    /\ approval = [a \in Approvals |-> [status |-> "absent", since |-> 0]]
    /\ reminders = {}
    /\ findings = [f \in Findings |-> "absent"]
    /\ texts = [k \in Keys |-> 0] /\ lost = [k \in Keys |-> 0]
    /\ run = [r \in Runs |-> Idle]
    /\ waiting = NoRun

Init == Fresh /\ clock = 0 /\ holding = {} /\ faults = 0 /\ changes = 0

-----------------------------------------------------------------------------
(* What happens around the runs.                                           *)

Tick ==
    /\ clock < MaxTime
    /\ clock' = clock + 1
    /\ UNCHANGED <<approval, holding, reminders, findings, texts, lost, run,
                   waiting, faults, changes>>

\* The bound leaves time for an escalation.
OpenApproval(a) ==
    /\ approval[a].status = "absent" /\ clock + ESCALATION =< MaxTime
    /\ approval' = [approval EXCEPT ![a] = [status |-> "pending", since |-> clock]]
    /\ UNCHANGED <<clock, holding, reminders, findings, texts, lost, run,
                   waiting, faults, changes>>

DecideApproval(a) ==
    /\ approval[a].status = "pending"
    /\ approval' = [approval EXCEPT ![a].status = "decided"]
    /\ UNCHANGED <<clock, holding, reminders, findings, texts, lost, run,
                   waiting, faults, changes>>

ChangeCondition(d) ==
    /\ changes < MaxChanges
    /\ changes' = changes + 1
    /\ holding' = IF d \in holding THEN holding \ {d} ELSE holding \cup {d}
    /\ UNCHANGED <<clock, approval, reminders, findings, texts, lost, run,
                   waiting, faults>>

-----------------------------------------------------------------------------
(* The transaction of a run.                                               *)

Pending == {a \in Approvals : approval[a].status = "pending"}

\* Rows a run can read: what is committed, and its own.
Visible(r) == reminders \cup run[r].rows
RowsFor(r, a) == {w \in Visible(r) : w.approval = a}
Reminders(rows) == {w \in rows : w.slot # Escalation}

KeyOf(w) == <<w.approval, w.slot>>
\* Mutant: the index on dedupe_key is not unique.
KeyNotUnique(k) == k \notin Keys

\* The unique index on dedupe_key: taken by a committed row.
KeyTaken(k) == \E w \in reminders : KeyOf(w) = k

\* An INSERT waits while another run's row has the key.
KeyHeld(r, k) == \E o \in Runs \ {r} : \E w \in run[o].rows : KeyOf(w) = k

Locked(r, f) == \E o \in Runs \ {r} : \E w \in run[o].writes : w.finding = f

At(r, label) == run[r].pc = label
Step(r, next) == run' = [run EXCEPT ![r] = next]

\* The approval that was looked at leaves the list.
Done(r) == [run[r] EXCEPT !.pc = "scan", !.todo = @ \ {run[r].key[1]},
                !.key = <<>>, !.count = 0, !.texted = FALSE]

Leave(r) ==
    /\ Step(r, Idle)
    /\ waiting' = IF waiting = r THEN NoRun ELSE waiting

\* Texts that a roll-back leaves without a row.
TextedBy(r) ==
    {KeyOf(w) : w \in {x \in run[r].rows : x.texted}}
        \cup (IF run[r].texted THEN {run[r].key} ELSE {})

RollBack(r) ==
    /\ lost' = [k \in Keys |-> lost[k] + IF k \in TextedBy(r) THEN 1 ELSE 0]
    /\ Leave(r)
    /\ UNCHANGED <<clock, approval, holding, reminders, findings, texts, changes>>

untouched == <<clock, approval, holding, reminders, findings, lost, faults, changes>>

-----------------------------------------------------------------------------
(* The heartbeat worker.                                                   *)

StartRun(r) ==
    /\ At(r, "idle") /\ waiting = NoRun
    /\ waiting' = r
    /\ Step(r, [Idle EXCEPT !.pc = "scan", !.now = clock,
                          !.todo = IF RemindersEnabled THEN Pending ELSE {}])
    /\ UNCHANGED <<untouched, texts>>

\* The worker's request times out; the run goes on.
TimeOut ==
    /\ waiting # NoRun
    /\ waiting' = NoRun
    /\ UNCHANGED <<untouched, texts, run>>

-----------------------------------------------------------------------------
(* run_approval_reminder_cycle                                             *)

\* Mutant: any row of the approval counts as its escalation.
HasEscalationOrAny(r, a) == RowsFor(r, a) # {}

HasEscalation(r, a) == \E w \in RowsFor(r, a) : w.slot = Escalation

CheckEscalation(r, a) ==
    /\ At(r, "scan") /\ a \in run[r].todo
    /\ \A b \in run[r].todo : approval[a].since =< approval[b].since
    /\ LET due == /\ run[r].now - approval[a].since >= ESCALATION
                  /\ ~HasEscalation(r, a)
       IN Step(r, [run[r] EXCEPT !.key = <<a, Escalation>>,
                                 !.pc = IF due THEN "dedupe" ELSE "count"])
    /\ UNCHANGED <<untouched, texts, waiting>>

Exhausted(n) == n >= MAX_ATTEMPTS

CountReminders(r) ==
    /\ At(r, "count")
    /\ LET n == Cardinality(Reminders(RowsFor(r, run[r].key[1])))
       IN Step(r, IF Exhausted(n) THEN Done(r)
                  ELSE [run[r] EXCEPT !.pc = "due", !.count = n])
    /\ UNCHANGED <<untouched, texts, waiting>>

\* Mutant: every reminder is due by the approval's age.
DueByAge(r, a) == run[r].now - approval[a].since >= FIRST

\* Of the last reminder, and so of all of them.
RepeatDue(r, a) == \A w \in Reminders(RowsFor(r, a)) : run[r].now >= w.at + REPEAT

Due(r, a) ==
    IF run[r].count = 0 THEN run[r].now - approval[a].since >= FIRST
    ELSE RepeatDue(r, a)

CheckDue(r) ==
    /\ At(r, "due")
    /\ LET a == run[r].key[1]
       IN Step(r, IF Due(r, a)
                  THEN [run[r] EXCEPT !.pc = "dedupe", !.key = <<a, run[r].count + 1>>]
                  ELSE Done(r))
    /\ UNCHANGED <<untouched, texts, waiting>>

CheckDedupe(r) ==
    /\ At(r, "dedupe")
    /\ Step(r, IF \E w \in Visible(r) : KeyOf(w) = run[r].key THEN Done(r)
               ELSE [run[r] EXCEPT !.pc = "send"])
    /\ UNCHANGED <<untouched, texts, waiting>>

\* Texted: the row will say sent, or failed if Twilio's answer was lost.
\* Otherwise it says failed, or skipped without settings or a code.
Send(r) ==
    /\ At(r, "send")
    /\ \E texted \in BOOLEAN :
        /\ Step(r, [run[r] EXCEPT !.pc = "insert", !.texted = texted])
        /\ texts' = [texts EXCEPT ![run[r].key] = @ + IF texted THEN 1 ELSE 0]
    /\ UNCHANGED <<untouched, waiting>>

\* The INSERT of the attempt; its mission_event goes with it.
InsertRow(r) ==
    /\ At(r, "insert") /\ ~KeyHeld(r, run[r].key) /\ ~KeyTaken(run[r].key)
    /\ Step(r, [Done(r) EXCEPT !.rows = @ \cup
            {[approval |-> run[r].key[1], slot |-> run[r].key[2], at |-> run[r].now,
              texted |-> run[r].texted]}])
    /\ UNCHANGED <<untouched, texts, waiting>>

\* IntegrityError is not caught: the whole run is rolled back.
DuplicateKey(r) ==
    /\ At(r, "insert") /\ ~KeyHeld(r, run[r].key) /\ KeyTaken(run[r].key)
    /\ RollBack(r)
    /\ UNCHANGED faults

-----------------------------------------------------------------------------
(* run_heartbeat_cycle                                                     *)

Candidates ==
    {<<"aging_approval", a>> : a \in {b \in Pending : clock - approval[b].since > AGING}}
        \cup {<<"condition", d>> : d \in holding}

CollectCandidates(r) ==
    /\ At(r, "scan") /\ run[r].todo = {}
    /\ Step(r, [run[r] EXCEPT !.pc = "findings", !.keys = Candidates, !.left = Candidates])
    /\ UNCHANGED <<untouched, texts, waiting>>

\* The list of candidates has the aging approvals first.
ReadFinding(r, f) ==
    /\ At(r, "findings") /\ f \in run[r].left
    /\ f[1] = "condition" => \A g \in run[r].left : g[1] = "condition"
    /\ Step(r, [run[r] EXCEPT !.pc = "upsert", !.finding = f, !.seen = findings[f],
                              !.left = @ \ {f}])
    /\ UNCHANGED <<untouched, texts, waiting>>

\* Mutant: a resolved finding is updated and stays resolved.
UpsertedAsIs(seen) == IF seen = "absent" THEN "open" ELSE "kept"

\* What the flush writes: last_seen_at alone leaves the status to others.
Upserted(seen) == IF seen = "open" THEN "kept" ELSE "open"

UpsertCandidate(r) ==
    LET f == run[r].finding IN
    /\ At(r, "upsert") /\ ~Locked(r, f)
    /\ (run[r].seen = "absent") => (findings[f] = "absent")
    /\ Step(r, [run[r] EXCEPT !.pc = "findings", !.finding = <<>>, !.seen = "absent",
            !.writes = @ \cup {[finding |-> f, status |-> Upserted(run[r].seen)]}])
    /\ UNCHANGED <<untouched, texts, waiting>>

\* Another run inserted the finding since it was looked for.
DuplicateFinding(r) ==
    LET f == run[r].finding IN
    /\ At(r, "upsert")
    /\ run[r].seen = "absent" /\ findings[f] # "absent"
    /\ RollBack(r)
    /\ UNCHANGED faults

ListOpen(r) ==
    /\ At(r, "findings") /\ run[r].left = {}
    /\ Step(r, [run[r] EXCEPT !.pc = "resolve",
            !.left = {f \in Findings : findings[f] = "open"} \ run[r].keys])
    /\ UNCHANGED <<untouched, texts, waiting>>

\* A flush updates rows in the order of their primary keys.
KeysOf[some \in SUBSET Findings] ==
    LET first == CHOOSE f \in some : TRUE
    IN [f \in some |-> IF f = first THEN 0 ELSE 1 + KeysOf[some \ {first}][f]]
PrimaryKey == KeysOf[Findings]

NextToResolve(r, f) ==
    /\ At(r, "resolve") /\ f \in run[r].left
    /\ \A g \in run[r].left : PrimaryKey[f] =< PrimaryKey[g]

ResolveFinding(r, f) ==
    /\ NextToResolve(r, f) /\ ~Locked(r, f)
    /\ Step(r, [run[r] EXCEPT !.left = @ \ {f},
            !.writes = @ \cup {[finding |-> f, status |-> "resolved"]}])
    /\ UNCHANGED <<untouched, texts, waiting>>

CommitRun(r) ==
    /\ At(r, "resolve") /\ run[r].left = {}
    /\ reminders' = reminders \cup run[r].rows
    /\ LET written == {w \in run[r].writes : w.status # "kept"}
       IN findings' = [f \in Findings |->
                IF \E w \in written : w.finding = f
                THEN (CHOOSE w \in written : w.finding = f).status
                ELSE findings[f]]
    /\ Leave(r)
    /\ UNCHANGED <<clock, approval, holding, texts, lost, faults, changes>>

\* A query, a probe or the process fails.
Raise(r) ==
    /\ ~At(r, "idle") /\ faults < MaxFaults
    /\ RollBack(r)
    /\ faults' = faults + 1

WaitsFor(r, o) ==
    \/ At(r, "insert") /\ \E w \in run[o].rows : KeyOf(w) = run[r].key
    \/ At(r, "upsert") /\ \E w \in run[o].writes : w.finding = run[r].finding
    \/ \E w \in run[o].writes : NextToResolve(r, w.finding)

\* Postgres ends one of two transactions that wait for each other.
Deadlock(r) ==
    /\ \E o \in Runs \ {r} : WaitsFor(r, o) /\ WaitsFor(o, r)
    /\ RollBack(r)
    /\ UNCHANGED faults

-----------------------------------------------------------------------------
RunStep(r) ==
    \/ \E a \in Approvals : CheckEscalation(r, a)
    \/ CountReminders(r) \/ CheckDue(r) \/ CheckDedupe(r)
    \/ Send(r) \/ InsertRow(r) \/ DuplicateKey(r)
    \/ CollectCandidates(r)
    \/ \E f \in Findings : ReadFinding(r, f) \/ ResolveFinding(r, f)
    \/ UpsertCandidate(r) \/ DuplicateFinding(r)
    \/ ListOpen(r)
    \/ CommitRun(r) \/ Deadlock(r)

Next ==
    \/ Tick
    \/ \E a \in Approvals : OpenApproval(a) \/ DecideApproval(a)
    \/ \E d \in Conditions : ChangeCondition(d)
    \/ TimeOut
    \/ \E r \in Runs : StartRun(r) \/ RunStep(r) \/ Raise(r)

Spec == Init /\ [][Next]_vars

\* Time passes, the worker's loop starts a run after the last one, the event
\* loop lets every run go on, and Postgres gives a lock to who waits for it, so
\* that a run which can go on again and again does.
Fairness ==
    /\ WF_vars(Tick) /\ WF_vars(\E r \in Runs : StartRun(r))
    /\ \A r \in Runs : SF_vars(RunStep(r))

FairSpec == Spec /\ Fairness

-----------------------------------------------------------------------------
(* Properties.                                                             *)

RunType ==
    [pc : {"idle", "scan", "count", "due", "dedupe", "send", "insert",
           "findings", "upsert", "resolve"},
     now : 0..MaxTime, todo : SUBSET Approvals, key : Keys \cup {<<>>},
     count : Slots, texted : BOOLEAN, rows : SUBSET Row, keys : SUBSET Findings,
     left : SUBSET Findings, finding : Findings \cup {<<>>}, seen : FindingStatus,
     writes : SUBSET [finding : Findings, status : {"open", "kept", "resolved"}]]

\* The type of the state, with the bound on the slots.
TypeOK ==
    /\ clock \in 0..MaxTime /\ faults \in 0..MaxFaults /\ changes \in 0..MaxChanges
    /\ approval \in [Approvals -> [status : {"absent", "pending", "decided"},
                                   since : 0..MaxTime]]
    /\ holding \subseteq Conditions
    /\ reminders \subseteq Row
    /\ findings \in [Findings -> FindingStatus]
    /\ texts \in [Keys -> Nat] /\ lost \in [Keys -> Nat]
    /\ run \in [Runs -> RunType]
    /\ waiting \in Runs \cup {NoRun}

\* The committed reminders of an approval are numbered without gaps or repeats,
\* the first comes no earlier than FIRST after the approval and each next one
\* no earlier than REPEAT after the one before, although runs overlap and a run
\* decides with the time of its start on counts that may be out of date
\* (run_approval_reminder_cycle).
RemindersSpaced ==
    \A a \in Approvals :
        LET rows == {w \in Reminders(reminders) : w.approval = a} IN
        /\ {w.slot : w \in rows} = 1..Cardinality(rows)
        /\ \A w \in rows : w.slot = 1 => w.at >= approval[a].since + FIRST
        /\ \A v, w \in rows : w.slot = v.slot + 1 => w.at >= v.at + REPEAT

\* Of the texts with one dedupe_key, all are kept back by a run in progress or
\* were lost with a run that was rolled back, but for the one that is on record:
\* runs that overlap never both keep a text (unique dedupe_key).
TextsOnRecord ==
    \A k \in Keys :
        texts[k] = lost[k] + Cardinality({r \in Runs : k \in TextedBy(r)})
                     + Cardinality({w \in reminders : KeyOf(w) = k /\ w.texted})
                   /\ Cardinality({w \in reminders : KeyOf(w) = k}) =< 1

\* An approval that stays pending is escalated, whatever overlaps or is rolled
\* back on the way (run_approval_reminder_cycle).
PendingIsEscalated ==
    \A a \in Approvals :
        approval[a].status = "pending" ~>
            \/ approval[a].status = "decided"
            \/ \E w \in reminders : KeyOf(w) = <<a, Escalation>>

\* When nothing changes any more, the open findings are exactly what a check
\* finds, for good: no overlap leaves a finding open or resolved by mistake
\* (run_heartbeat_cycle).
FindingsConverge ==
    <>[](\A f \in Findings : (findings[f] = "open") <=> (f \in Candidates))
=============================================================================

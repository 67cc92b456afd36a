---------------------------- MODULE Supervision ----------------------------
(***************************************************************************)
(* What the heartbeat runs watch: the rows of the workers, missions that   *)
(* stand still or leave no receipt, the costs of their receipts, and       *)
(* probes of components and integrations.  Heartbeat's `holding` is what a *)
(* check of these finds, and changes with them and with the time.          *)
(***************************************************************************)
EXTENDS Heartbeat, Sequences

CONSTANTS
    Workers, STALE,                                  \* WorkerRegistry
    WINDOW, DIRECT, ESTIMATED, UNKNOWN,
    CONCENTRATION, MIN_EVENTS,                       \* CostLedger
    Missions,
    MIN_AGE, NO_ACTIVITY,                            \* HEARTBEAT_STALLED_*_HOURS
    GAP,                                             \* HEARTBEAT_RECEIPT_GAP_MINUTES
    Probes,                                          \* components and integrations
    Notes, Patches,                                  \* OperatorMemory
    MaxReceipts                                      \* bound of the model

VARIABLES
    up, beat, requests,      \* WorkerRegistry
    ledger,                  \* CostLedger
    mission,                 \* [status, since, active, receipts]
    memory, told, patch,     \* OperatorMemory
    refused                  \* history: candidates whose receipt was not recorded

INSTANCE WorkerRegistry
INSTANCE OperatorMemory
Costs == INSTANCE CostLedger

Watched ==
    ({"stale_worker"} \X Workers) \cup ({"stalled_mission", "receipt_gap"} \X Missions)
        \cup ({"cost_guardrail"} \X Costs!Guardrails) \cup Probes

ASSUME WatchedAssumption == Conditions = Watched

rememberedVars == <<memory, told, patch, refused>>
watchedVars == <<up, beat, requests, ledger, mission, rememberedVars>>
heartbeatVars == <<approval, reminders, findings, texts, lost, run, waiting>>

-----------------------------------------------------------------------------
(* _collect_candidates, but for the aging approvals.                       *)

Unfinished == {"pending", "active"}

Stalled(m) ==
    /\ mission[m].status \in Unfinished \cup {"awaiting_approval"}
    /\ mission[m].since < clock - MIN_AGE /\ mission[m].active < clock - NO_ACTIVITY

ReceiptGap(m) ==
    /\ mission[m].status \in Unfinished
    /\ mission[m].since < clock - GAP /\ mission[m].receipts = 0

Found ==
    ({"stale_worker"} \X {w \in Workers : Stale(w)})
        \cup ({"stalled_mission"} \X {m \in Missions : Stalled(m)})
        \cup ({"receipt_gap"} \X {m \in Missions : ReceiptGap(m)})
        \cup ({"cost_guardrail"} \X {g \in Costs!Guardrails : Costs!Breached(g)})

Noticed == holding' = Found' \cup (holding \cap Probes)

-----------------------------------------------------------------------------
Change == changes < MaxChanges /\ changes' = changes + 1

TimePasses ==
    /\ clock < MaxTime /\ clock' = clock + 1
    /\ UNCHANGED <<watchedVars, heartbeatVars, faults, changes>>
    /\ Noticed

WorkerStarts(w) == Register(w) /\ Change /\ UNCHANGED faults
WorkerStops(w) == StopWorker(w) /\ Change /\ UNCHANGED faults
BeatCommits(w) == \E now \in 0..clock : CommitBeat(w, now) /\ UNCHANGED <<changes, faults>>
BeatIsLost(w) ==
    \E now \in 0..clock :
        LoseBeat(w, now) /\ faults < MaxFaults /\ faults' = faults + 1 /\ UNCHANGED changes
WorkerBeats(w) == SendHeartbeat(w) /\ UNCHANGED <<changes, faults>>

RegistryNoticed == UNCHANGED <<clock, ledger, mission, rememberedVars, heartbeatVars>> /\ Noticed

WorkerSteps(w) ==
    /\ \/ WorkerStarts(w) \/ WorkerStops(w)
       \/ BeatCommits(w) \/ BeatIsLost(w) \/ WorkerBeats(w)
    /\ RegistryNoticed

\* The events of a mission are its activity.
MissionMoves(m) ==
    /\ Change
    /\ \E status \in {"pending", "active", "awaiting_approval", "complete"} :
        /\ mission[m].status # status
        /\ mission[m].status = "absent" => status = "pending"
        /\ mission' = [mission EXCEPT ![m].status = status, ![m].active = clock,
                            ![m].since = IF mission[m].status = "absent" THEN clock ELSE @]
    /\ UNCHANGED <<clock, up, beat, requests, ledger, rememberedVars, heartbeatVars, faults>>
    /\ Noticed

\* With the memory its payload proposes, if any, and its costs.
RecordReceipt(m) ==
    /\ mission[m].status # "absent" /\ Len(ledger) < MaxReceipts
    /\ mission' = [mission EXCEPT ![m].active = clock, ![m].receipts = 1]
    /\ UNCHANGED <<memory, told, patch>> \/ \E n \in Notes : PromoteFromReceipt(n)
    /\ \E receipt \in Costs!Receipts : Costs!RecordCost(receipt)
    /\ UNCHANGED <<clock, up, beat, requests, refused, heartbeatVars, faults, changes>>
    /\ Noticed

\* The failed INSERT of a known memory ends the session's transaction, which the
\* handler ignores: the next statement raises, and the receipt is rolled back.
RefuseReceipt(m) ==
    /\ mission[m].status # "absent"
    /\ \E n \in Notes : memory[n] # Absent /\ refused' = refused \cup {n}
    /\ UNCHANGED <<clock, up, beat, requests, ledger, mission, memory, told, patch, heartbeatVars,
                   faults, changes>>
    /\ Noticed

Remember ==
    /\ \/ \E n \in Notes : CreateManual(n, FALSE)
       \/ \E n \in Notes, m \in Missions :
            mission[m].status # "absent" /\ (CreateManual(n, TRUE) \/ PromoteFromMission(n))
       \/ \E p \in Patches, n \in Notes :
            told[n]["memory_archived"] < MaxChanges /\ ReadMemory(p, n)
       \/ \E p \in Patches : WriteMemory(p) \/ LosePatch(p)
    /\ UNCHANGED <<clock, up, beat, requests, ledger, mission, refused, heartbeatVars,
                   faults, changes>>
    /\ Noticed

SupervisionInit ==
    /\ Init
    /\ RegistryInit
    /\ ledger = <<>>
    /\ MemoryInit /\ refused = {}
    /\ mission = [m \in Missions |-> [status |-> "absent", since |-> 0, active |-> 0,
                                      receipts |-> 0]]

World ==
    \/ \E w \in Workers : WorkerSteps(w)
    \/ \E m \in Missions : MissionMoves(m) \/ RecordReceipt(m) \/ RefuseReceipt(m)
    \/ Remember

Watch ==
    /\ \/ \E a \in Approvals : OpenApproval(a) \/ DecideApproval(a)
       \/ \E d \in Probes : ChangeCondition(d)
       \/ TimeOut
       \/ \E r \in Runs : StartRun(r) \/ RunStep(r) \/ Raise(r)
    /\ UNCHANGED watchedVars

SupervisionNext == TimePasses \/ World \/ Watch

supervisionVars == <<vars, watchedVars>>

\* Heartbeat's fairness; a worker that is up sends its heartbeats, and a request
\* is answered or fails.
SupervisionFairness ==
    /\ WF_supervisionVars(TimePasses)
    /\ WF_supervisionVars(UNCHANGED watchedVars /\ \E r \in Runs : StartRun(r))
    /\ \A r \in Runs : SF_supervisionVars(UNCHANGED watchedVars /\ RunStep(r))
    /\ \A w \in Workers :
        /\ WF_supervisionVars(WorkerBeats(w) /\ RegistryNoticed)
        /\ WF_supervisionVars(BeatCommits(w) /\ RegistryNoticed)

SupervisionSpec ==
    SupervisionInit /\ [][SupervisionNext]_supervisionVars /\ SupervisionFairness

-----------------------------------------------------------------------------
(* Properties.                                                             *)

Open(condition) == findings[<<"condition", condition>>] = "open"

\* A worker that went silent long enough ago is not heard of again until it is up.
Silent(w) ==
    /\ w \notin up /\ beat[w] # Never /\ beat[w] < MaxTime - STALE
    /\ \A now \in 0..MaxTime : <<w, now>> \notin requests

\* In the end a worker that stopped for good after it registered is reported, one
\* that stays up is not, and GET /system/health counts as many stale workers as
\* there are findings; a mission that nobody carries on, because its command or its
\* resume was lost, is reported, one that is complete is not, and a guardrail is
\* exactly when what its window holds by then tips it
\* (worker_registry_service, _collect_candidates, collect_cost_guardrail_candidates).
ReportedInTheEnd ==
    /\ \A w \in Workers :
        /\ Silent(w) ~> Open(<<"stale_worker", w>>) \/ w \in up
        /\ <>[](w \in up) => <>[]~Open(<<"stale_worker", w>>)
    /\ <>[](Summary.stale = Cardinality({w \in Workers : Open(<<"stale_worker", w>>)}))
    /\ <>[](\A m \in Missions :
                /\ ReceiptGap(m) => Open(<<"receipt_gap", m>>)
                /\ Stalled(m) => Open(<<"stalled_mission", m>>)
                /\ mission[m].status = "complete" =>
                        ~Open(<<"stalled_mission", m>>) /\ ~Open(<<"receipt_gap", m>>))
    /\ <>[](\A g \in Costs!Guardrails :
                Open(<<"cost_guardrail", g>>) <=> Costs!Breached(g))

\* Refuted.  memory_service.py: "Idempotent promotion", a candidate that is known
\* is passed over and its receipt recorded.
PromotionIsIdempotent == refused = {}
=============================================================================

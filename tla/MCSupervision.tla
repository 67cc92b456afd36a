--------------------------- MODULE MCSupervision ---------------------------
(***************************************************************************)
(* Five settings, each with what it is about: workers, missions, the costs *)
(* of receipts, probes beside an aging approval, and the memory, whose     *)
(* receipts cost nothing and which no heartbeat run is about.              *)
(***************************************************************************)
EXTENDS Supervision

CONSTANTS a1, d1, w1, m1, n1, p1, p2, r1, r2
VARIABLE setting

Settings == {"workers", "missions", "costs", "probes", "memory"}

MCConditions == Watched

\* Runs overlap and time out beside the probes, where time passes once and the probe
\* recovers when the approval is decided and both are reported; they fail beside
\* the workers, which alone change more than twice.
Besides ==
    /\ up' # up => setting = "workers"
    /\ mission' # mission => setting \in {"missions", "costs", "memory"}
    /\ ledger' # ledger => setting \in {"costs", "memory"} \/ ledger = <<>>
    /\ setting = "costs" => \A m \in Missions : mission'[m].status \in {"absent", "pending"}
    /\ approval' # approval \/ holding' \cap Probes # holding \cap Probes => setting = "probes"
    /\ setting # "probes" => run'[r2] = Idle /\ (run' = run => waiting' = waiting)
    /\ setting = "probes" /\ changes < changes' =>
            changes = 0 \/ (Pending = {} /\ findings[<<"aging_approval", a1>>] = "open")
    /\ setting = "probes" => clock' =< 1
    /\ setting = "costs" => clock' =< 2
    /\ setting \notin {"workers", "memory"} => changes' =< 2
    /\ setting # "workers" => faults' = faults
    /\ rememberedVars' # rememberedVars => setting = "memory"
    /\ setting = "memory" =>
            /\ clock' = clock /\ run' = run
            /\ \A m \in Missions : mission'[m].status \in {"absent", "pending"}
            /\ \A i \in 1..Len(ledger') : ledger'[i].status = "not_applicable"
    /\ setting' = setting

MCInit == SupervisionInit /\ setting \in Settings
MCNext == SupervisionNext /\ Besides

\* Supervision's fairness, of the steps that the setting has.
MCFairness ==
    /\ WF_supervisionVars(TimePasses /\ Besides)
    /\ WF_supervisionVars(UNCHANGED watchedVars /\ (\E r \in Runs : StartRun(r)) /\ Besides)
    /\ \A r \in Runs : SF_supervisionVars(UNCHANGED watchedVars /\ RunStep(r) /\ Besides)
    /\ \A w \in Workers :
        /\ WF_supervisionVars(WorkerBeats(w) /\ RegistryNoticed /\ Besides)
        /\ WF_supervisionVars(BeatCommits(w) /\ RegistryNoticed /\ Besides)

MCSpec == MCInit /\ [][MCNext]_<<supervisionVars, setting>> /\ MCFairness
=============================================================================

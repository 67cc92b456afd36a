----------------------------- MODULE CostLedger -----------------------------
(***************************************************************************)
(* Costs.  Every receipt leaves one cost event, in its own transaction; an *)
(* amount is only there when the receipt says so.  The guardrails compare  *)
(* the events of a rolling window with thresholds, of which 0 means off.   *)
(***************************************************************************)
EXTENDS Integers, Sequences, FiniteSets

CONSTANTS
    WINDOW,                        \* HEARTBEAT_COST_WINDOW_HOURS
    DIRECT, ESTIMATED, UNKNOWN,    \* HEARTBEAT_COST_*_THRESHOLD
    CONCENTRATION, MIN_EVENTS      \* the share of one provider, in per cent

VARIABLES
    clock,
    ledger       \* cost_events: [status, provider, at]

\* What the payload of a receipt says; amounts are all the same.
Receipts == {"metered", "estimated", "unpriced", "github", "gmail", "other"}
Guardrails == {"direct_usd", "estimated_usd", "unknown_count", "provider_concentration"}

Derived(receipt) ==
    CASE receipt = "metered" -> [status |-> "direct", provider |-> "openclaw"]
      [] receipt = "estimated" -> [status |-> "estimated", provider |-> "openclaw"]
      [] receipt = "unpriced" -> [status |-> "unknown", provider |-> "openclaw"]
      [] receipt \in {"github", "gmail"} -> [status |-> "not_applicable", provider |-> receipt]
      [] receipt = "other" -> [status |-> "unknown", provider |-> "unset"]

RecordCost(receipt) ==
    ledger' = Append(ledger, [status |-> Derived(receipt).status,
                              provider |-> Derived(receipt).provider, at |-> clock])

InWindow(from) == {i \in 1..Len(ledger) : ledger[i].at >= from}

Events == InWindow(clock - (IF WINDOW > 1 THEN WINDOW ELSE 1))
Counted(statuses) == {i \in Events : ledger[i].status \in statuses}
Spent(provider) == {i \in Counted({"direct", "estimated"}) : ledger[i].provider = provider}

\* Each spend above its threshold, but the unknown ones at theirs.
Breached(guardrail) ==
    CASE guardrail = "direct_usd" -> DIRECT > 0 /\ Cardinality(Counted({"direct"})) > DIRECT
      [] guardrail = "estimated_usd" ->
            ESTIMATED > 0 /\ Cardinality(Counted({"estimated"})) > ESTIMATED
      [] guardrail = "unknown_count" ->
            UNKNOWN > 0 /\ Cardinality(Counted({"unknown"})) >= UNKNOWN
      [] guardrail = "provider_concentration" ->
            /\ CONCENTRATION \in 1..100 /\ Cardinality(Events) >= MIN_EVENTS
            /\ \E p \in {ledger[i].provider : i \in Counted({"direct", "estimated"})} :
                100 * Cardinality(Spent(p)) >=
                    CONCENTRATION * Cardinality(Counted({"direct", "estimated"}))
=============================================================================

-------------------------- MODULE IntegrationCall --------------------------
(***************************************************************************)
(* What the governance of approvals assumes of a governed integration (the *)
(* atomic CallIntegration of Approvals): a run that was begun calls once.  *)
(* The call takes effect or not; it may take effect and be reported as     *)
(* failed, but success is never reported without an effect.                *)
(***************************************************************************)
CONSTANT Sessions

VARIABLES
    phase,     \* where a run is
    effect,    \* runs whose call took effect
    reported   \* what the call returned to the run

callVars == <<phase, effect, reported>>

CallInit ==
    /\ phase = [s \in Sessions |-> "idle"]
    /\ effect = {}
    /\ reported = [s \in Sessions |-> "none"]

Begin(s) ==
    /\ phase[s] = "idle"
    /\ phase' = [phase EXCEPT ![s] = "call"]
    /\ UNCHANGED <<effect, reported>>

Call(s) ==
    /\ phase[s] = "call"
    /\ phase' = [phase EXCEPT ![s] = "record"]
    /\ \E result \in {"complete", "failed"} :
         reported' = [reported EXCEPT ![s] = result]
    /\ \/ effect' = effect \cup {s}
       \/ reported'[s] = "failed" /\ UNCHANGED effect

\* The receipt is committed, or the run is cut off before or after its call.
End(s) ==
    /\ phase[s] \in {"call", "record"}
    /\ phase' = [phase EXCEPT ![s] = "done"]
    /\ UNCHANGED <<effect, reported>>

CallNext == \E s \in Sessions : Begin(s) \/ Call(s) \/ End(s)

CallSpec == CallInit /\ [][CallNext]_callVars
=============================================================================

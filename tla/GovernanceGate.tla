--------------------------- MODULE GovernanceGate ---------------------------
(***************************************************************************)
(* What the control plane promises about governed work, without sessions,  *)
(* row locks or streams: work is carried out under a grant, a grant is an  *)
(* operator's recorded "approved", and no grant is carried out twice.  A   *)
(* grant may never be carried out: the process can stop in between.        *)
(***************************************************************************)
CONSTANT Grants

VARIABLES
    granted,    \* grants recorded in the approval timeline
    acted       \* grants whose work left the control plane

gateVars == <<granted, acted>>

GateInit == granted = {} /\ acted = {}

Grant(g) ==
    /\ g \notin granted
    /\ granted' = granted \cup {g}
    /\ UNCHANGED acted

Act(g) ==
    /\ g \in granted \ acted
    /\ acted' = acted \cup {g}
    /\ UNCHANGED granted

GateNext == \E g \in Grants : Grant(g) \/ Act(g)

GateSpec == GateInit /\ [][GateNext]_gateVars
=============================================================================

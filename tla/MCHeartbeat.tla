---------------------------- MODULE MCHeartbeat ----------------------------
(***************************************************************************)
(* Small instances of Heartbeat: two runs that can overlap.  The settings  *)
(* keep the code's order, FIRST < REPEAT < ESCALATION, in units of time    *)
(* so small that everything falls due within the bound.                    *)
(*                                                                         *)
(* There are two ways to begin, so that each part of a run meets the other *)
(* run without the states of both multiplying: with an approval still to   *)
(* come and nothing else to find, or with two conditions, of which one can *)
(* change and a run can fail, and no time left for an approval.            *)
(***************************************************************************)
EXTENDS Heartbeat

CONSTANTS a1, d1, d2, r1, r2

MCInit ==
    /\ Fresh
    /\ \/ clock = 0 /\ holding = {} /\ faults = MaxFaults /\ changes = MaxChanges
       \/ clock = MaxTime /\ holding = Conditions /\ faults = 0 /\ changes = 0

MCSpec == MCInit /\ [][Next]_vars /\ Fairness
=============================================================================

--------------------------- MODULE MCMissionLoop ---------------------------
(***************************************************************************)
(* A small instance of MissionLoop: one mission that everything can happen *)
(* to, or one that is left in peace next to a stray entry that everything  *)
(* can happen to.                                                          *)
(***************************************************************************)
EXTENDS MissionLoop

CONSTANTS m1, m2

OneDisturbance ==
    \/ stray = 0
    \/ faults \subseteq {Poison} /\ \A i \in hit : execution.log[i].mission = Poison

MCSpec == Init /\ [][Next /\ OneDisturbance']_vars /\ Fairness
=============================================================================

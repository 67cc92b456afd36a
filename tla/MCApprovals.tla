---------------------------- MODULE MCApprovals ----------------------------
(***************************************************************************)
(* Small instances of Approvals: two approvals of one mission (one resumes *)
(* execution, one calls an integration), so that decisions on different    *)
(* rows meet on the same mission.                                          *)
(***************************************************************************)
EXTENDS Approvals

CONSTANTS m1, a1, a2, r1, r2, r3, r4

MCMissionOf == [a \in Approvals |-> m1]
MCGoverned == {a2}
=============================================================================

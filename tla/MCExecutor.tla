---------------------------- MODULE MCExecutor ----------------------------
(***************************************************************************)
(* A small instance of Executor: entries of one or two missions, among     *)
(* them one without a mission, plans of up to two runnable stages.         *)
(***************************************************************************)
EXTENDS Executor

CONSTANTS m1, m2
=============================================================================

--------------------------- MODULE MCLiveUpdates ---------------------------
(***************************************************************************)
(* Small instances of LiveUpdates: the queue holds the messages of one     *)
(* commit, so that a second one overflows it.                              *)
(***************************************************************************)
EXTENDS LiveUpdates
=============================================================================

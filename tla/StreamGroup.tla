---------------------------- MODULE StreamGroup ----------------------------
(***************************************************************************)
(* A Redis stream with one consumer group, as the workers use it: XADD     *)
(* appends, XREADGROUP with ">" hands out entries nobody was given before  *)
(* and puts them on the group's pending list, XACK takes one off that      *)
(* list.  No worker reads its pending list again (XREADGROUP with an id),  *)
(* claims from it (XCLAIM, XAUTOCLAIM) or trims the stream, so those are   *)
(* not here: an entry that is delivered and not acknowledged stays pending.*)
(***************************************************************************)
EXTENDS Naturals, Sequences

EmptyStream == [log |-> <<>>, read |-> 0, pending |-> {}]

StreamType(Entries) ==
    [log : Seq(Entries), read : Nat, pending : SUBSET (Nat \ {0})]

XAdd(s, e) == [s EXCEPT !.log = Append(@, e)]

\* XREADGROUP ... COUNT n: positions of the entries handed out.
Batch(s, n) ==
    s.read + 1 .. (IF s.read + n <= Len(s.log) THEN s.read + n ELSE Len(s.log))

XReadGroup(s, n) ==
    [s EXCEPT !.read = IF @ + n <= Len(s.log) THEN @ + n ELSE Len(s.log),
              !.pending = @ \cup Batch(s, n)]

XAck(s, i) == [s EXCEPT !.pending = @ \ {i}]

Positions(s) == 1..Len(s.log)
Delivered(s) == 1..s.read
Acked(s) == Delivered(s) \ s.pending
=============================================================================

------------------------------ MODULE ReadLoop ------------------------------
(***************************************************************************)
(* The loop every worker runs on a stream: XREADGROUP a batch, hand its    *)
(* entries to the handler one after the other, read again.  A loop is      *)
(* [batch, cur, pc]: the entries (positions) still to be handled, the one  *)
(* in the handler, and where the handler is.                               *)
(***************************************************************************)
EXTENDS StreamGroup, FiniteSets

NoEntry == 0

IdleLoop == [batch |-> <<>>, cur |-> NoEntry, pc |-> "idle"]

LoopType(labels) == [batch : Seq(Nat), cur : Nat, pc : labels \cup {"idle"}]

Idle(loop) == loop.cur = NoEntry /\ loop.batch = <<>>

\* XREADGROUP has something to return.
CanRead(loop, s) == Idle(loop) /\ s.read < Len(s.log)

\* The loop with the next batch of s in its hands.
Handed(loop, s, n) ==
    [loop EXCEPT !.batch = [k \in 1..Cardinality(Batch(s, n)) |-> s.read + k]]

CanTake(loop) == loop.cur = NoEntry /\ loop.batch # <<>>

Taken(loop, label) ==
    [batch |-> Tail(loop.batch), cur |-> Head(loop.batch), pc |-> label]

Goto(loop, label) == [loop EXCEPT !.pc = label]

\* The handler returned or raised, with or without XACK.
Finished(loop) == [loop EXCEPT !.cur = NoEntry, !.pc = "idle"]

InHand(loop) ==
    ({loop.cur} \ {NoEntry}) \cup {loop.batch[k] : k \in DOMAIN loop.batch}
=============================================================================

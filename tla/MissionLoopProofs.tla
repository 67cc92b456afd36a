-------------------------- MODULE MissionLoopProofs --------------------------
(***************************************************************************)
(* Proofs about MissionLoop, for any missions, batch size, stray entries   *)
(* and decisions: that the whole loop is a governance gate, counted; that  *)
(* an undisturbed mission is in one place at a time, so that it is not     *)
(* forgotten, stays as it finished, and has a receipt when it completed.   *)
(***************************************************************************)
EXTENDS MissionLoop, TLAPS, FiniteSetTheorems

(* A stream and a loop on it.  A loop holds different entries, all of them  *)
(* delivered; what is waiting has been given to nobody.                     *)

StreamOK(s, entries) ==
    /\ s \in StreamType(entries)
    /\ s.read <= Len(s.log)

LoopOK(loop, s, labels) ==
    /\ loop \in LoopType(labels)
    /\ loop.cur = NoEntry <=> loop.pc = "idle"
    /\ loop.cur <= s.read
    /\ \A k \in DOMAIN loop.batch : loop.batch[k] \in 1..s.read /\ loop.batch[k] # loop.cur
    /\ \A k, l \in DOMAIN loop.batch : loop.batch[k] = loop.batch[l] => k = l

Waiting(loop) == {loop.batch[k] : k \in DOMAIN loop.batch}

LEMMA EmptyOK ==
    ASSUME NEW entries, NEW labels
    PROVE  StreamOK(EmptyStream, entries) /\ LoopOK(IdleLoop, EmptyStream, labels)
  BY DEF StreamOK, StreamType, LoopOK, EmptyStream, IdleLoop, LoopType, NoEntry

LEMMA AddOK ==
    ASSUME NEW entries, NEW e \in entries, NEW s, StreamOK(s, entries)
    PROVE  /\ StreamOK(XAdd(s, e), entries)
           /\ XAdd(s, e).log = Append(s.log, e)
           /\ XAdd(s, e).read = s.read
  <1>1. s.log \in Seq(entries) /\ s.read \in Nat /\ Len(s.log) \in Nat
    BY DEF StreamOK, StreamType
  <1>2. Append(s.log, e) \in Seq(entries) /\ Len(Append(s.log, e)) = Len(s.log) + 1
    BY <1>1
  <1>3. XAdd(s, e) = [log |-> Append(s.log, e), read |-> s.read, pending |-> s.pending]
    BY DEF StreamOK, StreamType, XAdd
  <1>4. s.pending \in SUBSET (Nat \ {0})  BY DEF StreamOK, StreamType
  <1>5. s.read <= Len(s.log)  BY DEF StreamOK
  <1>6. XAdd(s, e) \in StreamType(entries)
    BY <1>1, <1>2, <1>3, <1>4 DEF StreamType
  <1>7. /\ XAdd(s, e).log = Append(s.log, e)
        /\ XAdd(s, e).read = s.read
    BY <1>3
  <1>. QED  BY <1>1, <1>2, <1>5, <1>6, <1>7 DEF StreamOK

LEMMA AckOK ==
    ASSUME NEW entries, NEW i, NEW s, StreamOK(s, entries)
    PROVE  /\ StreamOK(XAck(s, i), entries)
           /\ XAck(s, i).log = s.log /\ XAck(s, i).read = s.read
  BY DEF StreamOK, StreamType, XAck

LEMMA ReadOK ==
    ASSUME NEW entries, NEW s, StreamOK(s, entries), NEW n \in Nat
    PROVE  LET last == XReadGroup(s, n).read IN
           /\ StreamOK(XReadGroup(s, n), entries)
           /\ XReadGroup(s, n).log = s.log
           /\ last \in Nat /\ s.read <= last
           /\ Batch(s, n) = s.read + 1 .. last
           /\ IsFiniteSet(Batch(s, n))
           /\ Cardinality(Batch(s, n)) = last - s.read
  <1> DEFINE last == IF s.read + n <= Len(s.log) THEN s.read + n ELSE Len(s.log)
  <1>1. Len(s.log) \in Nat /\ s.read \in Nat /\ s.read <= Len(s.log)
    BY DEF StreamOK, StreamType
  <1>2. /\ last \in Nat /\ s.read <= last /\ last <= Len(s.log)
        /\ Batch(s, n) = s.read + 1 .. last
    BY <1>1 DEF Batch
  <1>3. /\ XReadGroup(s, n).log = s.log
        /\ XReadGroup(s, n).read = last
        /\ XReadGroup(s, n) = [s EXCEPT !.read = last, !.pending = @ \cup Batch(s, n)]
    BY DEF XReadGroup, StreamOK, StreamType
  <1>. HIDE DEF last
  <1>4. Cardinality(s.read + 1 .. last) = last - s.read /\ IsFiniteSet(s.read + 1 .. last)
    <2>1. s.read + 1 \in Int /\ last \in Int  BY <1>1, <1>2
    <2>2. /\ IsFiniteSet(s.read + 1 .. last)
          /\ Cardinality(s.read + 1 .. last) =
               IF s.read + 1 > last THEN 0 ELSE last - (s.read + 1) + 1
      BY <2>1, FS_Interval
    <2>. QED  BY <1>1, <1>2, <2>2
  <1>5. Batch(s, n) \subseteq Nat \ {0}  BY <1>1, <1>2
  <1>. QED  BY <1>1, <1>2, <1>3, <1>4, <1>5 DEF StreamOK, StreamType

\* Whoever else adds to, reads from or acknowledges in a stream.
LEMMA LoopStays ==
    ASSUME NEW loop, NEW s, NEW t, NEW labels, LoopOK(loop, s, labels),
           s.read \in Nat, t.read \in Nat, s.read <= t.read
    PROVE  LoopOK(loop, t, labels)
  BY DEF LoopOK, LoopType

LEMMA LoopReads ==
    ASSUME NEW entries, NEW s, StreamOK(s, entries), NEW n \in Nat,
           NEW labels, NEW loop, LoopOK(loop, s, labels), Idle(loop)
    PROVE  /\ LoopOK(Handed(loop, s, n), XReadGroup(s, n), labels)
           /\ Handed(loop, s, n).pc = "idle" /\ Handed(loop, s, n).cur = NoEntry
           /\ Waiting(Handed(loop, s, n)) = s.read + 1 .. XReadGroup(s, n).read
  <1> DEFINE last == XReadGroup(s, n).read
             c == Cardinality(Batch(s, n))
             batch == [k \in 1..c |-> s.read + k]
  <1>1. /\ last \in Nat /\ s.read <= last /\ s.read \in Nat
        /\ c = last - s.read
    BY ReadOK DEF StreamOK, StreamType
  <1>. HIDE DEF last, c
  <1>2. Handed(loop, s, n) = [loop EXCEPT !.batch = batch]  BY DEF Handed, c
  <1>3. c \in Nat /\ batch \in Seq(Nat) /\ DOMAIN batch = 1..c  BY <1>1
  <1>4. \A k \in 1..c : batch[k] = s.read + k  OBVIOUS
  <1>. HIDE DEF batch
  <1>5. /\ Handed(loop, s, n) \in LoopType(labels)
        /\ Handed(loop, s, n).batch = batch
        /\ Handed(loop, s, n).cur = loop.cur /\ Handed(loop, s, n).pc = loop.pc
    BY <1>2, <1>3 DEF LoopOK, LoopType
  <1>6. loop.cur = 0 /\ loop.pc = "idle"  BY DEF LoopOK, Idle, NoEntry
  <1>7. {batch[k] : k \in DOMAIN batch} = s.read + 1 .. last
    <2>1. ASSUME NEW i \in s.read + 1 .. last
          PROVE  \E k \in DOMAIN batch : i = batch[k]
      <3>1. i - s.read \in 1..c /\ i = s.read + (i - s.read)  BY <1>1, <2>1
      <3>. QED  BY <1>3, <1>4, <3>1
    <2>. QED  BY <1>1, <1>3, <1>4, <2>1
  <1>. QED  BY <1>1, <1>3, <1>4, <1>5, <1>6, <1>7 DEF LoopOK, Waiting, NoEntry, last

LEMMA LoopTakes ==
    ASSUME NEW s, s.read \in Nat, NEW labels, NEW loop, LoopOK(loop, s, labels),
           CanTake(loop), NEW label \in labels \ {"idle"}
    PROVE  /\ LoopOK(Taken(loop, label), s, labels)
           /\ Taken(loop, label).pc = label
           /\ Taken(loop, label).cur = Head(loop.batch)
           /\ Head(loop.batch) \in Waiting(loop)
           /\ Waiting(Taken(loop, label)) = Waiting(loop) \ {Head(loop.batch)}
  <1>1. loop.batch \in Seq(Nat) /\ loop.batch # <<>>  BY DEF CanTake, LoopOK, LoopType
  <1>2. /\ Head(loop.batch) = loop.batch[1] /\ 1 \in DOMAIN loop.batch
        /\ Tail(loop.batch) \in Seq(Nat)
        /\ DOMAIN Tail(loop.batch) = 1..Len(loop.batch) - 1
        /\ DOMAIN loop.batch = 1..Len(loop.batch)
        /\ Len(loop.batch) \in Nat \ {0}
        /\ \A k \in DOMAIN Tail(loop.batch) : Tail(loop.batch)[k] = loop.batch[k + 1]
    BY <1>1
  <1>3. /\ Taken(loop, label).batch = Tail(loop.batch)
        /\ Taken(loop, label).cur = Head(loop.batch)
        /\ Taken(loop, label).pc = label
    BY DEF Taken
  <1>4. Taken(loop, label) \in LoopType(labels)
    BY <1>1, <1>2 DEF Taken, LoopType
  <1>5. \A k \in DOMAIN Tail(loop.batch) :
          k \in Nat /\ k + 1 \in DOMAIN loop.batch /\ k + 1 # 1
    BY <1>2
  <1>6. Head(loop.batch) \in 1..s.read  BY <1>2 DEF LoopOK
  <1>7. LoopOK(Taken(loop, label), s, labels)
    <2> DEFINE tail == Tail(loop.batch)
    <2>1. \A k \in DOMAIN tail : tail[k] \in 1..s.read /\ tail[k] # Head(loop.batch)
      BY <1>2, <1>5 DEF LoopOK
    <2>2. \A k, l \in DOMAIN tail : tail[k] = tail[l] => k = l
      <3>. SUFFICES ASSUME NEW k \in DOMAIN tail, NEW l \in DOMAIN tail, tail[k] = tail[l]
                    PROVE  k = l
        OBVIOUS
      <3>1. loop.batch[k + 1] = loop.batch[l + 1]  BY <1>2
      <3>2. k + 1 = l + 1  BY <1>5, <3>1 DEF LoopOK
      <3>. QED  BY <1>5, <3>2
    <2>. HIDE DEF tail
    <2>3. Taken(loop, label).batch = tail  BY <1>3 DEF tail
    <2>4. Taken(loop, label).cur # 0 /\ Taken(loop, label).cur <= s.read
      BY <1>3, <1>6
    <2>. QED  BY <1>3, <1>4, <2>1, <2>2, <2>3, <2>4 DEF LoopOK, NoEntry
  <1>8. Waiting(Taken(loop, label)) = Waiting(loop) \ {Head(loop.batch)}
    <2>1. ASSUME NEW k \in DOMAIN loop.batch, k # 1
          PROVE  k - 1 \in DOMAIN Tail(loop.batch) /\ Tail(loop.batch)[k - 1] = loop.batch[k]
      BY <1>2, <2>1
    <2>2. \A k \in DOMAIN loop.batch : k # 1 => loop.batch[k] # loop.batch[1]
      BY <1>2 DEF LoopOK
    <2>3. ASSUME NEW k \in DOMAIN Tail(loop.batch)
          PROVE  Tail(loop.batch)[k] \in Waiting(loop) \ {Head(loop.batch)}
      <3>1. /\ Tail(loop.batch)[k] = loop.batch[k + 1]
            /\ k + 1 \in DOMAIN loop.batch /\ k + 1 # 1
        BY <1>2, <1>5
      <3>. QED  BY <1>2, <2>2, <3>1 DEF Waiting
    <2>4. ASSUME NEW i \in Waiting(loop) \ {Head(loop.batch)}
          PROVE  \E k \in DOMAIN Tail(loop.batch) : i = Tail(loop.batch)[k]
      <3>1. PICK k \in DOMAIN loop.batch : i = loop.batch[k]  BY DEF Waiting
      <3>2. k # 1  BY <1>2, <3>1
      <3>. QED  BY <2>1, <3>1, <3>2
    <2>5. Waiting(Taken(loop, label)) = {Tail(loop.batch)[k] : k \in DOMAIN Tail(loop.batch)}
      BY <1>3 DEF Waiting
    <2>. QED  BY <2>3, <2>4, <2>5
  <1>. QED  BY <1>2, <1>3, <1>7, <1>8 DEF Waiting

LEMMA LoopGoes ==
    ASSUME NEW s, NEW labels, NEW loop, LoopOK(loop, s, labels),
           loop.pc # "idle", NEW label \in labels \ {"idle"}
    PROVE  /\ LoopOK(Goto(loop, label), s, labels)
           /\ Goto(loop, label).pc = label /\ Goto(loop, label).cur = loop.cur
           /\ Waiting(Goto(loop, label)) = Waiting(loop)
  BY DEF LoopOK, LoopType, Goto, Waiting

LEMMA LoopFinishes ==
    ASSUME NEW s, s.read \in Nat, NEW labels, NEW loop, LoopOK(loop, s, labels)
    PROVE  /\ LoopOK(Finished(loop), s, labels)
           /\ Finished(loop).pc = "idle" /\ Finished(loop).cur = NoEntry
           /\ Waiting(Finished(loop)) = Waiting(loop)
  <1>1. /\ Finished(loop) \in LoopType(labels)
        /\ Finished(loop).batch = loop.batch
        /\ Finished(loop).pc = "idle" /\ Finished(loop).cur = 0
    BY DEF LoopOK, LoopType, Finished, NoEntry
  <1>. QED  BY <1>1 DEF LoopOK, Waiting, NoEntry

LEMMA LoopDies ==
    ASSUME NEW s, s.read \in Nat, NEW labels
    PROVE  /\ LoopOK(IdleLoop, s, labels)
           /\ IdleLoop.pc = "idle" /\ IdleLoop.cur = NoEntry
           /\ Waiting(IdleLoop) = {}
  BY DEF LoopOK, LoopType, IdleLoop, Waiting, NoEntry

-----------------------------------------------------------------------------
(* Type correctness.                                                       *)

CommandEntries == Missions \cup {Poison}
Reports == [mission : Missions \cup {Poison}, ok : BOOLEAN]

StreamsInv ==
    /\ StreamOK(commands, CommandEntries)
    /\ StreamOK(execution, Entries)
    /\ StreamOK(receiptStream, Reports)

\* A handler past its first step has a mission in hand.
LoopsInv ==
    /\ LoopOK(commandLoop, commands, C!CommandLabels)
    /\ LoopOK(receiptLoop, receiptStream, C!ReceiptLabels)
    /\ LoopOK(workerLoop, execution, W!WorkLabels)
    /\ commandLoop.pc \notin {"idle", "ack"} => C!Command \in Missions
    /\ receiptLoop.pc \notin {"idle", "ack"} => C!Report.mission \in Missions
    /\ workerLoop.pc \notin {"idle", "ack", "ackError"} => W!Work.mission \in Missions
    /\ workerLoop.pc = "classify" => ~W!Work.skip

RowsInv ==
    /\ mission \in [Missions -> {"none", "pending", "awaiting_approval", "active",
                                 "blocked", "complete", "failed"}]
    /\ approval \in [Missions -> {"none", "pending", "approved", "denied"}]
    /\ receipts \subseteq Missions
    /\ answer \in [Missions -> C!Answers \cup {"none"}]
    /\ faults \subseteq Missions \cup {Poison}

DecidingInv ==
    /\ intake \in [Missions -> {"new", "publish", "unpublished", "failed", "done"}]
    /\ deciding \in [Missions -> Nat]
    /\ decisions \in [Missions -> [approved : Nat, denied : Nat]]
    /\ resume \in [Missions -> Nat]
    /\ stray \in 0..MaxStray
    /\ \A m \in Missions :
         /\ deciding[m] + decisions[m].approved + decisions[m].denied <= MaxDecisions
         /\ resume[m] <= decisions[m].approved

HandInv ==
    /\ skipped \subseteq Positions(execution)
    /\ hand \subseteq Positions(execution) /\ accounted \subseteq Positions(execution)
    /\ hit \subseteq Positions(execution)
    /\ recorded \subseteq [msg : Nat, status : X!Final]

TypeInv == StreamsInv /\ LoopsInv /\ RowsInv /\ DecidingInv /\ HandInv

LEMMA InitType == Init => TypeInv
  <1>. SUFFICES ASSUME Init PROVE TypeInv  OBVIOUS
  <1>1. StreamsInv  BY EmptyOK DEF Init, StreamsInv
  <1>2. LoopsInv
    <2>1. \A labels : LoopOK(IdleLoop, EmptyStream, labels)  BY EmptyOK
    <2>. QED  BY <2>1 DEF Init, LoopsInv, IdleLoop
  <1>3. RowsInv  BY DEF Init, RowsInv
  <1>4. DecidingInv  BY MissionLoopAssumption DEF Init, DecidingInv
  <1>5. HandInv  BY DEF Init, HandInv
  <1>. QED  BY <1>1, <1>2, <1>3, <1>4, <1>5 DEF TypeInv

\* An entry that was read is there, and stays.
LEMMA Longer ==
    ASSUME NEW entries, NEW s, StreamOK(s, entries), NEW e \in entries
    PROVE  /\ Positions(XAdd(s, e)) = Positions(s) \cup {Len(s.log) + 1}
           /\ Len(s.log) + 1 \notin Positions(s)
           /\ \A i \in Positions(s) : XAdd(s, e).log[i] = s.log[i] /\ s.log[i] \in entries
           /\ XAdd(s, e).log[Len(s.log) + 1] = e
           /\ 1..s.read \subseteq Positions(s)
  <1>1. s.log \in Seq(entries) /\ s.read \in Nat /\ Len(s.log) \in Nat /\ s.read <= Len(s.log)
    BY DEF StreamOK, StreamType
  <1>2. XAdd(s, e).log = Append(s.log, e)  BY AddOK
  <1>. QED  BY <1>1, <1>2 DEF Positions

LEMMA TheirStreams ==
    /\ \A s, e : C!XAdd(s, e) = XAdd(s, e) /\ W!XAdd(s, e) = XAdd(s, e)
    /\ \A s, n : /\ C!XReadGroup(s, n) = XReadGroup(s, n)
                 /\ W!XReadGroup(s, n) = XReadGroup(s, n)
                 /\ X!XReadGroup(s, n) = XReadGroup(s, n)
                 /\ X!Batch(s, n) = Batch(s, n)
    /\ \A s, i : /\ C!XAck(s, i) = XAck(s, i) /\ W!XAck(s, i) = XAck(s, i)
                 /\ X!XAck(s, i) = XAck(s, i)
  BY DEF C!XAdd, W!XAdd, XAdd, C!XReadGroup, W!XReadGroup, X!XReadGroup, XReadGroup,
         C!XAck, W!XAck, X!XAck, XAck, C!Batch, W!Batch, X!Batch, Batch

LEMMA TheirLoops ==
    /\ \A loop, s : C!CanRead(loop, s) <=> CanRead(loop, s)
    /\ \A loop, s : W!CanRead(loop, s) <=> CanRead(loop, s)
    /\ \A loop : (C!CanTake(loop) <=> CanTake(loop)) /\ (W!CanTake(loop) <=> CanTake(loop))
    /\ \A loop, s, n : C!Handed(loop, s, n) = Handed(loop, s, n)
                       /\ W!Handed(loop, s, n) = Handed(loop, s, n)
    /\ \A loop, label : /\ C!Taken(loop, label) = Taken(loop, label)
                        /\ W!Taken(loop, label) = Taken(loop, label)
                        /\ C!Goto(loop, label) = Goto(loop, label)
                        /\ W!Goto(loop, label) = Goto(loop, label)
    /\ \A loop : C!Finished(loop) = Finished(loop) /\ W!Finished(loop) = Finished(loop)
    /\ C!IdleLoop = IdleLoop /\ W!IdleLoop = IdleLoop
  <1>1. \A loop, s : C!CanRead(loop, s) <=> CanRead(loop, s)
    BY DEF C!CanRead, CanRead, C!Idle, Idle, C!NoEntry, NoEntry
  <1>2. \A loop, s : W!CanRead(loop, s) <=> CanRead(loop, s)
    BY DEF W!CanRead, CanRead, W!Idle, Idle, W!NoEntry, NoEntry
  <1>3. \A loop : (C!CanTake(loop) <=> CanTake(loop)) /\ (W!CanTake(loop) <=> CanTake(loop))
    BY DEF C!CanTake, W!CanTake, CanTake, C!NoEntry, W!NoEntry, NoEntry
  <1>4. \A loop, s, n : C!Handed(loop, s, n) = Handed(loop, s, n)
                        /\ W!Handed(loop, s, n) = Handed(loop, s, n)
    <2>. SUFFICES ASSUME NEW loop, NEW s, NEW n
                  PROVE  C!Handed(loop, s, n) = Handed(loop, s, n)
                         /\ W!Handed(loop, s, n) = Handed(loop, s, n)
      OBVIOUS
    <2>1. C!Batch(s, n) = Batch(s, n) /\ W!Batch(s, n) = Batch(s, n)
      BY DEF C!Batch, W!Batch, Batch
    <2>2. \A S : C!Cardinality(S) = Cardinality(S) /\ W!Cardinality(S) = Cardinality(S)
      BY DEF C!Cardinality, W!Cardinality, Cardinality
    <2>. QED  BY <2>1, <2>2 DEF C!Handed, W!Handed, Handed
  <1>5. \A loop, label : /\ C!Taken(loop, label) = Taken(loop, label)
                         /\ W!Taken(loop, label) = Taken(loop, label)
                         /\ C!Goto(loop, label) = Goto(loop, label)
                         /\ W!Goto(loop, label) = Goto(loop, label)
    BY DEF C!Taken, W!Taken, Taken, C!Goto, W!Goto, Goto
  <1>6. \A loop : C!Finished(loop) = Finished(loop) /\ W!Finished(loop) = Finished(loop)
    BY DEF C!Finished, W!Finished, Finished, C!NoEntry, W!NoEntry, NoEntry
  <1>7. C!IdleLoop = IdleLoop /\ W!IdleLoop = IdleLoop
    BY DEF C!IdleLoop, W!IdleLoop, IdleLoop, C!NoEntry, W!NoEntry, NoEntry
  <1>. QED  BY <1>1, <1>2, <1>3, <1>4, <1>5, <1>6, <1>7

\* What the entries in the handlers are is not changed by entries added later,
\* nor by what is read or acknowledged.
Extends(t, s, entries) ==
    /\ StreamOK(t, entries)
    /\ s.read <= t.read
    /\ Positions(s) \subseteq Positions(t)
    /\ \A i \in Positions(s) : t.log[i] = s.log[i]

LEMMA StreamSteps ==
    ASSUME NEW entries, NEW s, StreamOK(s, entries)
    PROVE  /\ Extends(s, s, entries)
           /\ \A e \in entries : Extends(XAdd(s, e), s, entries)
           /\ \A i : Extends(XAck(s, i), s, entries)
           /\ \A n \in Nat : Extends(XReadGroup(s, n), s, entries)
  <1>1. s.read \in Nat  BY DEF StreamOK, StreamType
  <1>2. \A e \in entries : Extends(XAdd(s, e), s, entries)
    BY <1>1, AddOK, Longer DEF Extends
  <1>3. \A i : Extends(XAck(s, i), s, entries)
    <2>. SUFFICES ASSUME NEW i PROVE Extends(XAck(s, i), s, entries)  OBVIOUS
    <2>1. /\ StreamOK(XAck(s, i), entries)
          /\ XAck(s, i).log = s.log /\ XAck(s, i).read = s.read
      BY AckOK
    <2>. QED  BY <1>1, <2>1 DEF Extends, Positions
  <1>4. \A n \in Nat : Extends(XReadGroup(s, n), s, entries)
    <2>. SUFFICES ASSUME NEW n \in Nat PROVE Extends(XReadGroup(s, n), s, entries)
      OBVIOUS
    <2>1. /\ StreamOK(XReadGroup(s, n), entries)
          /\ XReadGroup(s, n).log = s.log /\ s.read <= XReadGroup(s, n).read
      BY ReadOK
    <2>. QED  BY <2>1 DEF Extends, Positions
  <1>. QED  BY <1>1, <1>2, <1>3, <1>4 DEF Extends

-----------------------------------------------------------------------------
(* What one step does with a loop and its stream.                          *)

LoopStep(loop, next, s, t, labels, entries) ==
    \/ next = loop /\ Extends(t, s, entries)
    \/ Idle(loop) /\ t = XReadGroup(s, BatchSize) /\ next = Handed(loop, s, BatchSize)
    \/ CanTake(loop) /\ t = s /\ \E label \in labels : next = Taken(loop, label)
    \/ /\ loop.pc # "idle" /\ Extends(t, s, entries)
       /\ \E label \in labels : next = Goto(loop, label)
    \/ next = Finished(loop) /\ Extends(t, s, entries)
    \/ next = IdleLoop /\ Extends(t, s, entries)

LEMMA LoopSteps ==
    ASSUME NEW labels, "idle" \notin labels, NEW entries, NEW loop, NEW next, NEW s, NEW t,
           StreamOK(s, entries), LoopOK(loop, s, labels),
           LoopStep(loop, next, s, t, labels, entries)
    PROVE  /\ StreamOK(t, entries) /\ LoopOK(next, t, labels)
           /\ Extends(t, s, entries)
  <1>1. s.read \in Nat  BY DEF StreamOK, StreamType
  <1>2. BatchSize \in Nat  BY MissionLoopAssumption
  <1>3. Extends(t, s, entries) => StreamOK(t, entries) /\ t.read \in Nat /\ s.read <= t.read
    BY DEF Extends, StreamOK, StreamType
  <1>4. CASE next = loop /\ Extends(t, s, entries)
    BY <1>1, <1>3, <1>4, LoopStays
  <1>5. CASE Idle(loop) /\ t = XReadGroup(s, BatchSize) /\ next = Handed(loop, s, BatchSize)
    BY <1>2, <1>5, LoopReads, ReadOK, StreamSteps
  <1>6. CASE CanTake(loop) /\ t = s /\ \E label \in labels : next = Taken(loop, label)
    BY <1>1, <1>6, LoopTakes, StreamSteps
  <1>7. CASE /\ loop.pc # "idle" /\ Extends(t, s, entries)
             /\ \E label \in labels : next = Goto(loop, label)
    <2>1. PICK label \in labels : next = Goto(loop, label)  BY <1>7
    <2>2. LoopOK(loop, t, labels)  BY <1>1, <1>3, <1>7, LoopStays
    <2>. QED  BY <1>3, <1>7, <2>1, <2>2, LoopGoes
  <1>8. CASE next = Finished(loop) /\ Extends(t, s, entries)
    <2>2. LoopOK(loop, t, labels)  BY <1>1, <1>3, <1>8, LoopStays
    <2>. QED  BY <1>3, <1>8, <2>2, LoopFinishes
  <1>9. CASE next = IdleLoop /\ Extends(t, s, entries)
    BY <1>3, <1>9, LoopDies
  <1>. QED  BY <1>4, <1>5, <1>6, <1>7, <1>8, <1>9 DEF LoopStep

\* The entry in a handler is one that was read, and stays what it is.
LEMMA InHandler ==
    ASSUME NEW labels, NEW entries, NEW loop, NEW s,
           StreamOK(s, entries), LoopOK(loop, s, labels), loop.pc # "idle"
    PROVE  /\ loop.cur \in 1..s.read /\ loop.cur \in Positions(s)
           /\ s.log[loop.cur] \in entries
           /\ \A t : Extends(t, s, entries) => t.log[loop.cur] = s.log[loop.cur]
  <1>1. /\ loop.cur \in Nat /\ loop.cur # 0 /\ loop.cur <= s.read
        /\ s.read \in Nat /\ s.log \in Seq(entries) /\ s.read <= Len(s.log)
    BY DEF LoopOK, LoopType, StreamOK, StreamType, NoEntry
  <1>2. loop.cur \in 1..Len(s.log)  BY <1>1
  <1>. QED  BY <1>1, <1>2 DEF Positions, Extends

\* So is the next one of the batch.
LEMMA InBatch ==
    ASSUME NEW labels, NEW entries, NEW loop, NEW s,
           StreamOK(s, entries), LoopOK(loop, s, labels), CanTake(loop)
    PROVE  Head(loop.batch) \in 1..s.read /\ s.log[Head(loop.batch)] \in entries
  <1>1. loop.batch \in Seq(Nat) /\ loop.batch # <<>>
    BY DEF CanTake, LoopOK, LoopType
  <1>2. Head(loop.batch) = loop.batch[1] /\ 1 \in DOMAIN loop.batch  BY <1>1
  <1>3. Head(loop.batch) \in 1..s.read  BY <1>2 DEF LoopOK
  <1>4. s.read \in Nat /\ s.log \in Seq(entries) /\ s.read <= Len(s.log)
    BY DEF StreamOK, StreamType
  <1>5. Head(loop.batch) \in 1..Len(s.log)  BY <1>3, <1>4
  <1>. QED  BY <1>3, <1>4, <1>5

-----------------------------------------------------------------------------
(* The coordinator's steps.                                                *)

CommandStep == LoopStep(commandLoop, commandLoop', commands, commands',
                        C!CommandLabels, CommandEntries)
ReceiptStep == LoopStep(receiptLoop, receiptLoop', receiptStream, receiptStream',
                        C!ReceiptLabels, Reports)
WorkStep == LoopStep(workerLoop, workerLoop', execution, execution',
                     W!WorkLabels, Entries)

\* A handler past its first step has a mission in hand.
CommandHasMission == commandLoop.pc \notin {"idle", "ack"} => C!Command \in Missions
ReceiptHasMission == receiptLoop.pc \notin {"idle", "ack"} => C!Report.mission \in Missions
WorkHasMission ==
    /\ workerLoop.pc \notin {"idle", "ack", "ackError"} => W!Work.mission \in Missions
    /\ workerLoop.pc = "classify" => ~W!Work.skip

LEMMA CommandSteps ==
    ASSUME TypeInv,
           C!HandleCommand \/ C!LeaveCommand
    PROVE  CommandStep /\ CommandHasMission' /\ Extends(execution', execution, Entries)
  <1>. USE DEF TypeInv, StreamsInv, LoopsInv
  <1>1. /\ Extends(commands, commands, CommandEntries)
        /\ Extends(XAck(commands, commandLoop.cur), commands, CommandEntries)
        /\ Extends(execution, execution, Entries)
        /\ commandLoop.pc \notin {"idle", "ack"} =>
             Extends(XAdd(execution, [mission |-> C!Command, skip |-> FALSE]), execution, Entries)
    BY StreamSteps DEF Entries
  <1>2. CASE C!ReadCommands
    <2>1. /\ CanRead(commandLoop, commands) /\ commands' = XReadGroup(commands, BatchSize)
          /\ commandLoop' = Handed(commandLoop, commands, BatchSize) /\ execution' = execution
      BY <1>2, TheirStreams, TheirLoops DEF C!ReadCommands
    <2>2. commandLoop'.pc = "idle"
      BY <2>1, LoopReads, MissionLoopAssumption DEF CanRead
    <2>. QED  BY <1>1, <2>1, <2>2 DEF CommandStep, LoopStep, CanRead, CommandHasMission
  <1>3. CASE C!TakeCommand
    <2> DEFINE label == IF commands.log[Head(commandLoop.batch)] = Poison THEN "ack" ELSE "guard"
    <2>1. /\ CanTake(commandLoop) /\ commandLoop' = Taken(commandLoop, label)
          /\ commands' = commands /\ execution' = execution
      BY <1>3, TheirStreams, TheirLoops DEF C!TakeCommand
    <2>2. label \in C!CommandLabels  BY DEF C!CommandLabels
    <2>3. commands.log[Head(commandLoop.batch)] \in CommandEntries  BY <2>1, InBatch
    <2>4. commandLoop'.pc = label /\ commandLoop'.cur = Head(commandLoop.batch)
      BY <2>1 DEF Taken
    <2>5. CommandHasMission'
      BY <2>1, <2>3, <2>4 DEF CommandHasMission, C!Command, CommandEntries
    <2>. HIDE DEF label
    <2>. QED  BY <1>1, <2>1, <2>2, <2>5 DEF CommandStep, LoopStep
  <1>4. ASSUME commandLoop.pc \notin {"idle", "ack"}, commands' = commands,
               NEW label \in C!CommandLabels, commandLoop' = Goto(commandLoop, label)
        PROVE  CommandStep /\ CommandHasMission'
    <2>1. commandLoop'.cur = commandLoop.cur
      BY <1>4, LoopGoes DEF C!CommandLabels
    <2>. QED  BY <1>1, <1>4, <2>1 DEF CommandStep, LoopStep, CommandHasMission, C!Command
  <1>5. CASE \E a \in C!Answers : C!AskGuard(a)
    <2>1. PICK a \in C!Answers : C!AskGuard(a)  BY <1>5
    <2>2. C!Decision(a) \in C!CommandLabels  BY DEF C!Decision, C!Answers, C!CommandLabels
    <2>. QED  BY <1>1, <1>4, <2>1, <2>2, TheirLoops DEF C!AskGuard
  <1>6. CASE C!PostActive \/ C!AddExecution \/ C!OpenApproval \/ C!NotifyApproval \/ C!PostDenied
    <2>1. /\ commandLoop.pc \notin {"idle", "ack"} /\ commands' = commands
          /\ \E label \in C!CommandLabels : commandLoop' = Goto(commandLoop, label)
      BY <1>6, TheirLoops DEF C!PostActive, C!AddExecution, C!OpenApproval, C!NotifyApproval,
            C!PostDenied, C!CommandLabels
    <2>2. \/ execution' = execution
          \/ execution' = XAdd(execution, [mission |-> C!Command, skip |-> FALSE])
      BY <1>6, TheirStreams DEF C!PostActive, C!AddExecution, C!OpenApproval, C!NotifyApproval,
            C!PostDenied
    <2>. QED  BY <1>1, <1>4, <2>1, <2>2
  <1>7. CASE C!AckCommand \/ C!LeaveCommand
    <2>1. /\ commandLoop' = Finished(commandLoop)
          /\ commands' \in {commands, XAck(commands, commandLoop.cur)}
      BY <1>7, TheirStreams, TheirLoops DEF C!AckCommand, C!LeaveCommand
    <2>2. \/ execution' = execution
          \/ /\ commandLoop.pc = "add"
             /\ execution' = XAdd(execution, [mission |-> C!Command, skip |-> FALSE])
      BY <1>7, TheirStreams DEF C!AckCommand, C!LeaveCommand
    <2>3. commandLoop'.pc = "idle"
      BY <2>1, LoopFinishes DEF StreamOK, StreamType
    <2>. QED  BY <1>1, <2>1, <2>2, <2>3 DEF CommandStep, LoopStep, CommandHasMission
  <1>. QED  BY <1>2, <1>3, <1>5, <1>6, <1>7 DEF C!HandleCommand

LEMMA ReceiptSteps ==
    ASSUME TypeInv,
           C!HandleReceipt \/ C!GiveUpReceipt
    PROVE  ReceiptStep /\ ReceiptHasMission'
  <1>. USE DEF TypeInv, StreamsInv, LoopsInv
  <1>1. /\ Extends(receiptStream, receiptStream, Reports)
        /\ Extends(XAck(receiptStream, receiptLoop.cur), receiptStream, Reports)
    BY StreamSteps
  <1>2. CASE C!ReadReceipts
    <2>1. /\ CanRead(receiptLoop, receiptStream)
          /\ receiptStream' = XReadGroup(receiptStream, BatchSize)
          /\ receiptLoop' = Handed(receiptLoop, receiptStream, BatchSize)
      BY <1>2, TheirStreams, TheirLoops DEF C!ReadReceipts
    <2>2. receiptLoop'.pc = "idle"
      BY <2>1, LoopReads, MissionLoopAssumption DEF CanRead
    <2>. QED  BY <2>1, <2>2 DEF ReceiptStep, LoopStep, CanRead, ReceiptHasMission
  <1>3. CASE C!TakeReceipt
    <2> DEFINE label == IF receiptStream.log[Head(receiptLoop.batch)].mission = Poison
                        THEN "ack" ELSE "status"
    <2>1. /\ CanTake(receiptLoop) /\ receiptLoop' = Taken(receiptLoop, label)
          /\ receiptStream' = receiptStream
      BY <1>3, TheirStreams, TheirLoops DEF C!TakeReceipt
    <2>2. label \in C!ReceiptLabels  BY DEF C!ReceiptLabels
    <2>3. receiptStream.log[Head(receiptLoop.batch)] \in Reports  BY <2>1, InBatch
    <2>4. receiptLoop'.pc = label /\ receiptLoop'.cur = Head(receiptLoop.batch)
      BY <2>1 DEF Taken
    <2>5. ReceiptHasMission'
      BY <2>1, <2>3, <2>4 DEF ReceiptHasMission, C!Report, Reports
    <2>. HIDE DEF label
    <2>. QED  BY <2>1, <2>2, <2>5 DEF ReceiptStep, LoopStep
  <1>4. CASE C!PostReportedStatus \/ C!NotifyReceipt \/ C!PostReportReceipt
    <2>1. /\ receiptLoop.pc \notin {"idle", "ack"} /\ receiptStream' = receiptStream
          /\ \E label \in C!ReceiptLabels : receiptLoop' = Goto(receiptLoop, label)
      BY <1>4, TheirLoops DEF C!PostReportedStatus, C!NotifyReceipt, C!PostReportReceipt,
            C!ReceiptLabels
    <2>2. receiptLoop'.cur = receiptLoop.cur
      BY <2>1, LoopGoes DEF C!ReceiptLabels
    <2>. QED  BY <1>1, <2>1, <2>2 DEF ReceiptStep, LoopStep, ReceiptHasMission, C!Report
  <1>5. CASE C!AckReceipt \/ C!GiveUpReceipt
    <2>1. /\ receiptLoop' = Finished(receiptLoop)
          /\ receiptStream' \in {receiptStream, XAck(receiptStream, receiptLoop.cur)}
      BY <1>5, TheirStreams, TheirLoops DEF C!AckReceipt, C!GiveUpReceipt
    <2>2. receiptLoop'.pc = "idle"
      BY <2>1, LoopFinishes DEF StreamOK, StreamType
    <2>. QED  BY <1>1, <2>1, <2>2 DEF ReceiptStep, LoopStep, ReceiptHasMission
  <1>. QED  BY <1>2, <1>3, <1>4, <1>5 DEF C!HandleReceipt

LEMMA WorkSteps ==
    ASSUME TypeInv, W!Next
    PROVE  /\ WorkStep /\ WorkHasMission'
           /\ Extends(receiptStream', receiptStream, Reports)
  <1>. USE DEF TypeInv, StreamsInv, LoopsInv
  <1>1. /\ Extends(execution, execution, Entries)
        /\ Extends(XAck(execution, workerLoop.cur), execution, Entries)
        /\ Extends(receiptStream, receiptStream, Reports)
    BY StreamSteps
  <1>2. workerLoop.pc \notin {"idle", "ack", "ackError"} =>
          /\ Extends(XAdd(execution, [mission |-> W!Work.mission, skip |-> TRUE]),
                     execution, Entries)
          /\ \A ok \in BOOLEAN : Extends(W!Reported(ok), receiptStream, Reports)
    BY StreamSteps, TheirStreams DEF Entries, Reports, W!Reported
  <1>3. CASE W!ReadWork
    <2>1. /\ CanRead(workerLoop, execution)
          /\ execution' = XReadGroup(execution, BatchSize)
          /\ workerLoop' = Handed(workerLoop, execution, BatchSize)
          /\ receiptStream' = receiptStream
      BY <1>3, TheirStreams, TheirLoops DEF W!ReadWork
    <2>2. workerLoop'.pc = "idle"
      BY <2>1, LoopReads, MissionLoopAssumption DEF CanRead
    <2>. QED  BY <1>1, <2>1, <2>2 DEF WorkStep, LoopStep, CanRead, WorkHasMission
  <1>4. CASE W!TakeWork
    <2> DEFINE e == execution.log[Head(workerLoop.batch)]
               label == IF e.skip \/ e.mission = Poison THEN "ack" ELSE "classify"
    <2>1. /\ CanTake(workerLoop) /\ workerLoop' = Taken(workerLoop, label)
          /\ execution' = execution /\ receiptStream' = receiptStream
      BY <1>4, TheirStreams, TheirLoops DEF W!TakeWork
    <2>2. label \in W!WorkLabels  BY DEF W!WorkLabels
    <2>3. e \in Entries  BY <2>1, InBatch
    <2>4. workerLoop'.pc = label /\ workerLoop'.cur = Head(workerLoop.batch)
      BY <2>1 DEF Taken
    <2>5. WorkHasMission'
      BY <2>1, <2>3, <2>4 DEF WorkHasMission, W!Work, Entries
    <2>. HIDE DEF label
    <2>. QED  BY <1>1, <2>1, <2>2, <2>5 DEF WorkStep, LoopStep
  <1>5. ASSUME workerLoop.pc # "idle", Extends(execution', execution, Entries),
               NEW label \in W!WorkLabels \ {"classify"},
               workerLoop' = Goto(workerLoop, label),
               label \in {"ack", "ackError"} \/ W!Work.mission \in Missions
        PROVE  WorkStep /\ WorkHasMission'
    <2>1. workerLoop'.cur = workerLoop.cur /\ workerLoop'.pc = label
      BY <1>5, LoopGoes DEF W!WorkLabels
    <2>2. execution'.log[workerLoop.cur] = execution.log[workerLoop.cur]
      <3>1. workerLoop.cur \in Positions(execution)  BY <1>5, InHandler
      <3>. QED  BY <1>5, <3>1 DEF Extends
    <2>3. W!Work' = W!Work  BY <2>1, <2>2 DEF W!Work
    <2>4. label # "classify" /\ label # "idle"  BY <1>5 DEF W!WorkLabels
    <2>5. workerLoop'.pc \notin {"idle", "ack", "ackError"} => W!Work'.mission \in Missions
      BY <1>5, <2>1, <2>3
    <2>6. WorkHasMission'
      BY <2>1, <2>4, <2>5 DEF WorkHasMission
    <2>. QED  BY <1>5, <2>6 DEF WorkStep, LoopStep
  <1>6. CASE W!ClassifyFailed \/ W!ActOnIntent \/ W!RouteToExecutor \/ W!ReportError
    <2>1. /\ workerLoop.pc \in {"classify", "report"}
          /\ \/ workerLoop' = Goto(workerLoop, "ack")
             \/ workerLoop' = Goto(workerLoop, "ackError")
          /\ \/ receiptStream' = receiptStream
             \/ \E ok \in BOOLEAN : receiptStream' = W!Reported(ok)
          /\ \/ execution' = execution
             \/ execution' = XAdd(execution, [mission |-> W!Work.mission, skip |-> TRUE])
      BY <1>6, TheirStreams, TheirLoops DEF W!ClassifyFailed, W!ActOnIntent, W!RouteToExecutor,
            W!ReportError
    <2>2. /\ Extends(execution', execution, Entries)
          /\ Extends(receiptStream', receiptStream, Reports)
      BY <1>1, <1>2, <2>1
    <2>3. {"ack", "ackError"} \subseteq W!WorkLabels \ {"classify"}  BY DEF W!WorkLabels
    <2>. QED  BY <1>5, <2>1, <2>2, <2>3
  <1>7. CASE W!AckWork \/ W!AckError
    <2>1. /\ workerLoop' = Finished(workerLoop) /\ receiptStream' = receiptStream
          /\ execution' \in {execution, XAck(execution, workerLoop.cur)}
      BY <1>7, TheirStreams, TheirLoops DEF W!AckWork, W!AckError
    <2>2. workerLoop'.pc = "idle"
      BY <2>1, LoopFinishes DEF StreamOK, StreamType
    <2>. QED  BY <1>1, <2>1, <2>2 DEF WorkStep, LoopStep, WorkHasMission
  <1>8. CASE W!RaiseWork
    <2>1. /\ workerLoop.pc \in {"classify", "ack"}
          /\ workerLoop' = Goto(workerLoop, IF W!Work.mission = Poison THEN "ackError" ELSE "report")
      BY <1>8, TheirLoops DEF W!RaiseWork
    <2>2. \/ execution' = execution
          \/ execution' = XAck(execution, workerLoop.cur)
          \/ /\ workerLoop.pc = "classify"
             /\ execution' = XAdd(execution, [mission |-> W!Work.mission, skip |-> TRUE])
      BY <1>8, TheirStreams DEF W!RaiseWork
    <2>3. \/ receiptStream' = receiptStream
          \/ workerLoop.pc = "classify" /\ \E ok \in BOOLEAN : receiptStream' = W!Reported(ok)
      BY <1>8 DEF W!RaiseWork
    <2>4. /\ Extends(execution', execution, Entries)
          /\ Extends(receiptStream', receiptStream, Reports)
      BY <1>1, <1>2, <2>1, <2>2, <2>3
    <2>5. W!Work \in Entries  BY <2>1, InHandler DEF W!Work
    <2>6. {"report", "ackError"} \subseteq W!WorkLabels \ {"classify"}  BY DEF W!WorkLabels
    <2>7. W!Work.mission = Poison \/ W!Work.mission \in Missions  BY <2>5 DEF Entries
    <2>. QED  BY <1>5, <2>1, <2>4, <2>6, <2>7
  <1>9. CASE W!CrashWorker
    <2>1. /\ workerLoop' = IdleLoop /\ execution' = execution
          /\ \/ receiptStream' = receiptStream
             \/ workerLoop.pc = "report" /\ receiptStream' = W!Reported(FALSE)
      BY <1>9, TheirLoops DEF W!CrashWorker
    <2>2. Extends(receiptStream', receiptStream, Reports)  BY <1>1, <1>2, <2>1
    <2>. QED  BY <1>1, <2>1, <2>2 DEF WorkStep, LoopStep, WorkHasMission, IdleLoop
  <1>. QED  BY <1>3, <1>4, <1>6, <1>7, <1>8, <1>9 DEF W!Next, W!HandleWork

-----------------------------------------------------------------------------
(* Every step.                                                             *)

OperatorStep ==
    \E m \in Missions :
        \/ CreateMission(m) \/ PublishCommand(m) \/ DispatchFailed(m)
        \/ ReadPending(m) \/ Approve(m) \/ Deny(m) \/ PublishResume(m)

LEMMA NextSteps ==
    Next <=> \/ OperatorStep \/ AddStray
             \/ Coordinate(C!HandleCommand \/ C!LeaveCommand)
             \/ Coordinate(C!HandleReceipt \/ C!GiveUpReceipt)
             \/ Coordinate(C!CrashCoordinator)
             \/ WorkOn(W!Next) \/ Execute(ExecutorStep)
  BY DEF Next, OperatorStep, Coordinate, C!Next

\* A loop that does nothing while others add to its stream.
LEMMA Untouched ==
    ASSUME TypeInv
    PROVE  /\ commandLoop' = commandLoop /\ Extends(commands', commands, CommandEntries)
                => CommandStep /\ CommandHasMission'
           /\ receiptLoop' = receiptLoop /\ Extends(receiptStream', receiptStream, Reports)
                => ReceiptStep /\ ReceiptHasMission'
           /\ workerLoop' = workerLoop /\ Extends(execution', execution, Entries)
                => WorkStep /\ WorkHasMission'
  <1>. USE DEF TypeInv, StreamsInv, LoopsInv
  <1>1. ASSUME commandLoop' = commandLoop, Extends(commands', commands, CommandEntries)
        PROVE  CommandStep /\ CommandHasMission'
    <2>1. commandLoop.pc # "idle" => commandLoop.cur \in Positions(commands)  BY InHandler
    <2>2. commandLoop.pc # "idle" => C!Command' = C!Command
      BY <1>1, <2>1 DEF Extends, C!Command
    <2>. QED  BY <1>1, <2>2 DEF CommandStep, LoopStep, CommandHasMission
  <1>2. ASSUME receiptLoop' = receiptLoop, Extends(receiptStream', receiptStream, Reports)
        PROVE  ReceiptStep /\ ReceiptHasMission'
    <2>1. receiptLoop.pc # "idle" => receiptLoop.cur \in Positions(receiptStream)
      BY InHandler
    <2>2. receiptLoop.pc # "idle" => C!Report' = C!Report
      BY <1>2, <2>1 DEF Extends, C!Report
    <2>. QED  BY <1>2, <2>2 DEF ReceiptStep, LoopStep, ReceiptHasMission
  <1>3. ASSUME workerLoop' = workerLoop, Extends(execution', execution, Entries)
        PROVE  WorkStep /\ WorkHasMission'
    <2>1. workerLoop.pc # "idle" => workerLoop.cur \in Positions(execution)  BY InHandler
    <2>2. workerLoop.pc # "idle" => W!Work' = W!Work
      BY <1>3, <2>1 DEF Extends, W!Work
    <2>. QED  BY <1>3, <2>2 DEF WorkStep, LoopStep, WorkHasMission
  <1>. QED  BY <1>1, <1>2, <1>3

LoopsStep ==
    /\ CommandStep /\ CommandHasMission'
    /\ ReceiptStep /\ ReceiptHasMission'
    /\ WorkStep /\ WorkHasMission'

LEMMA LoopsMove == TypeInv /\ [Next]_vars => LoopsStep
  <1>. SUFFICES ASSUME TypeInv, [Next]_vars PROVE LoopsStep  OBVIOUS
  <1>1. /\ Extends(commands, commands, CommandEntries)
        /\ Extends(execution, execution, Entries)
        /\ Extends(receiptStream, receiptStream, Reports)
    BY StreamSteps DEF TypeInv, StreamsInv
  <1>2. CASE UNCHANGED vars
    BY <1>1, <1>2, Untouched DEF vars, coordinatorOnly, workerOnly, LoopsStep
  <1>3. CASE OperatorStep
    <2>1. PICK m \in Missions :
             \/ CreateMission(m) \/ PublishCommand(m) \/ DispatchFailed(m)
             \/ ReadPending(m) \/ Approve(m) \/ Deny(m) \/ PublishResume(m)
      BY <1>3 DEF OperatorStep
    <2>2. /\ Extends(XAdd(commands, m), commands, CommandEntries)
          /\ Extends(XAdd(execution, [mission |-> m, skip |-> FALSE]), execution, Entries)
      BY StreamSteps DEF TypeInv, StreamsInv, CommandEntries, Entries
    <2>3. UNCHANGED <<commandLoop, receiptLoop, workerLoop, receiptStream>>
      BY <2>1 DEF CreateMission, PublishCommand, DispatchFailed, ReadPending, Approve, Deny,
            PublishResume, IntakeUnchanged, OperatorUnchanged, workerOnly
    <2>4. commands' \in {commands, XAdd(commands, m)}
      BY <2>1 DEF CreateMission, PublishCommand, DispatchFailed, ReadPending, Approve, Deny,
            PublishResume, IntakeUnchanged, OperatorUnchanged
    <2>5. execution' \in {execution, XAdd(execution, [mission |-> m, skip |-> FALSE])}
      BY <2>1 DEF CreateMission, PublishCommand, DispatchFailed, ReadPending, Approve, Deny,
            PublishResume, IntakeUnchanged, OperatorUnchanged
    <2>. QED  BY <1>1, <2>2, <2>3, <2>4, <2>5, Untouched DEF LoopsStep
  <1>4. CASE AddStray
    <2>1. /\ Extends(XAdd(commands, Poison), commands, CommandEntries)
          /\ Extends(XAdd(execution, [mission |-> Poison, skip |-> FALSE]), execution, Entries)
          /\ Extends(XAdd(receiptStream, [mission |-> Poison, ok |-> FALSE]),
                     receiptStream, Reports)
      BY StreamSteps DEF TypeInv, StreamsInv, CommandEntries, Entries, Reports
    <2>2. UNCHANGED <<commandLoop, receiptLoop, workerLoop>>
      BY <1>4 DEF AddStray, workerOnly
    <2>3. /\ Extends(commands', commands, CommandEntries)
          /\ Extends(execution', execution, Entries)
          /\ Extends(receiptStream', receiptStream, Reports)
      BY <1>1, <1>4, <2>1 DEF AddStray
    <2>. QED  BY <2>2, <2>3, Untouched DEF LoopsStep
  <1>5. CASE Coordinate(C!HandleCommand \/ C!LeaveCommand)
    <2>1. CommandStep /\ CommandHasMission' /\ Extends(execution', execution, Entries)
      BY <1>5, CommandSteps DEF Coordinate
    <2>2. UNCHANGED <<receiptLoop, receiptStream, workerLoop>>
      BY <1>5 DEF Coordinate, workerOnly, C!HandleCommand, C!LeaveCommand, C!ReadCommands,
            C!TakeCommand, C!AskGuard, C!PostActive, C!AddExecution, C!OpenApproval,
            C!NotifyApproval, C!PostDenied, C!AckCommand
    <2>. QED  BY <1>1, <2>1, <2>2, Untouched DEF LoopsStep
  <1>6. CASE Coordinate(C!HandleReceipt \/ C!GiveUpReceipt)
    <2>1. ReceiptStep /\ ReceiptHasMission'
      BY <1>6, ReceiptSteps DEF Coordinate
    <2>2. UNCHANGED <<commandLoop, commands, workerLoop, execution>>
      BY <1>6 DEF Coordinate, workerOnly, C!HandleReceipt, C!GiveUpReceipt, C!ReadReceipts,
            C!TakeReceipt, C!PostReportedStatus, C!NotifyReceipt, C!PostReportReceipt,
            C!AckReceipt
    <2>. QED  BY <1>1, <2>1, <2>2, Untouched DEF LoopsStep
  <1>7. CASE Coordinate(C!CrashCoordinator)
    <2>1. /\ commandLoop' = IdleLoop /\ receiptLoop' = IdleLoop
          /\ UNCHANGED <<commands, receiptStream, execution, workerLoop>>
      BY <1>7, TheirLoops DEF Coordinate, C!CrashCoordinator, workerOnly
    <2>2. CommandStep /\ ReceiptStep
      BY <1>1, <2>1 DEF CommandStep, ReceiptStep, LoopStep
    <2>3. CommandHasMission' /\ ReceiptHasMission'
      BY <2>1 DEF CommandHasMission, ReceiptHasMission, IdleLoop
    <2>. QED  BY <1>1, <2>1, <2>2, <2>3, Untouched DEF LoopsStep
  <1>8. CASE WorkOn(W!Next)
    <2>1. /\ WorkStep /\ WorkHasMission'
          /\ Extends(receiptStream', receiptStream, Reports)
      BY <1>8, WorkSteps DEF WorkOn
    <2>2. UNCHANGED <<commandLoop, commands, receiptLoop>>
      BY <1>8 DEF WorkOn, coordinatorOnly
    <2>. QED  BY <1>1, <2>1, <2>2, Untouched DEF LoopsStep
  <1>9. CASE Execute(ExecutorStep)
    <2>1. UNCHANGED <<commandLoop, commands, receiptLoop, receiptStream, workerLoop>>
      BY <1>9 DEF Execute, coordinatorOnly, workerOnly
    <2>2. \/ execution' = execution
          \/ execution' = XReadGroup(execution, BatchSize)
          \/ \E i \in hand : execution' = XAck(execution, i)
      BY <1>9, TheirStreams DEF Execute, ExecutorStep, X!Deliver, X!Handle, X!Settle, X!Die
    <2>3. Extends(execution', execution, Entries)
      BY <1>1, <2>2, StreamSteps, MissionLoopAssumption DEF TypeInv, StreamsInv
    <2>. QED  BY <1>1, <2>1, <2>3, Untouched DEF LoopsStep
  <1>. QED  BY <1>2, <1>3, <1>4, <1>5, <1>6, <1>7, <1>8, <1>9, NextSteps

\* The streams only grow, and the loops stay loops.
Grown ==
    /\ Extends(commands', commands, CommandEntries)
    /\ Extends(execution', execution, Entries)
    /\ Extends(receiptStream', receiptStream, Reports)

LEMMA LoopsKeep == TypeInv /\ [Next]_vars => StreamsInv' /\ LoopsInv' /\ Grown
  <1>. SUFFICES ASSUME TypeInv, [Next]_vars PROVE StreamsInv' /\ LoopsInv' /\ Grown
    OBVIOUS
  <1>. USE DEF TypeInv, StreamsInv, LoopsInv
  <1>1. LoopsStep  BY LoopsMove
  <1>2. "idle" \notin C!CommandLabels /\ "idle" \notin C!ReceiptLabels /\ "idle" \notin W!WorkLabels
    BY DEF C!CommandLabels, C!ReceiptLabels, W!WorkLabels
  <1>3. /\ StreamOK(commands', CommandEntries) /\ LoopOK(commandLoop', commands', C!CommandLabels)
        /\ Extends(commands', commands, CommandEntries)
    BY <1>1, <1>2, LoopSteps DEF LoopsStep, CommandStep
  <1>4. /\ StreamOK(receiptStream', Reports)
        /\ LoopOK(receiptLoop', receiptStream', C!ReceiptLabels)
        /\ Extends(receiptStream', receiptStream, Reports)
    BY <1>1, <1>2, LoopSteps DEF LoopsStep, ReceiptStep
  <1>5. /\ StreamOK(execution', Entries) /\ LoopOK(workerLoop', execution', W!WorkLabels)
        /\ Extends(execution', execution, Entries)
    BY <1>1, <1>2, LoopSteps DEF LoopsStep, WorkStep
  <1>6. StreamsInv'  BY <1>3, <1>4, <1>5
  <1>7. LoopsInv'
    BY <1>1, <1>3, <1>4, <1>5 DEF LoopsStep, CommandHasMission, ReceiptHasMission, WorkHasMission
  <1>. QED  BY <1>3, <1>4, <1>5, <1>6, <1>7 DEF Grown

\* Faults are of missions, or of entries without one.
LEMMA FaultsKeep ==
    ASSUME TypeInv, [Next]_vars
    PROVE  faults \subseteq faults' /\ faults' \subseteq Missions \cup {Poison}
  <1>. USE MissionLoopAssumption DEF TypeInv, RowsInv
  <1>1. CASE UNCHANGED vars  BY <1>1 DEF vars
  <1>2. CASE OperatorStep
    BY <1>2 DEF OperatorStep, CreateMission, PublishCommand, DispatchFailed, ReadPending, Approve,
          Deny, PublishResume
  <1>3. CASE AddStray  BY <1>3 DEF AddStray
  <1>4. CASE Coordinate(C!HandleCommand \/ C!LeaveCommand)
    BY <1>4 DEF Coordinate, C!HandleCommand, C!LeaveCommand, C!ReadCommands,
          C!TakeCommand, C!AskGuard, C!PostActive, C!AddExecution, C!OpenApproval,
          C!NotifyApproval, C!PostDenied, C!AckCommand, C!Hit
  <1>5. CASE Coordinate(C!HandleReceipt \/ C!GiveUpReceipt)
    BY <1>5 DEF Coordinate, C!HandleReceipt, C!GiveUpReceipt, C!ReadReceipts,
          C!TakeReceipt, C!PostReportedStatus, C!NotifyReceipt, C!PostReportReceipt,
          C!AckReceipt, C!Hit
  <1>6. CASE Coordinate(C!CrashCoordinator)
    BY <1>6 DEF Coordinate, C!CrashCoordinator
  <1>7. CASE WorkOn(W!Next)
    BY <1>7 DEF WorkOn, W!Next, W!HandleWork, W!ReadWork, W!TakeWork, W!ClassifyFailed,
          W!ActOnIntent, W!RouteToExecutor, W!AckWork, W!ReportError, W!AckError, W!RaiseWork,
          W!CrashWorker, W!Hit
  <1>8. CASE Execute(ExecutorStep)  BY <1>8 DEF Execute
  <1>. QED  BY <1>1, <1>2, <1>3, <1>4, <1>5, <1>6, <1>7, <1>8, NextSteps

LEMMA RowsKeep == ASSUME TypeInv, [Next]_vars PROVE RowsInv'
  <1>. USE DEF TypeInv, RowsInv
  <1>1. faults' \subseteq Missions \cup {Poison}  BY FaultsKeep
  <1>2. CASE UNCHANGED vars  BY <1>2 DEF vars, coordinatorOnly
  <1>3. CASE OperatorStep
    BY <1>1, <1>3 DEF OperatorStep, CreateMission, PublishCommand, DispatchFailed, ReadPending,
          Approve, Deny, PublishResume, IntakeUnchanged, OperatorUnchanged
  <1>4. CASE AddStray  BY <1>4 DEF AddStray
  <1>5. CASE Coordinate(C!HandleCommand \/ C!LeaveCommand)
    <2>1. commandLoop.pc \notin {"idle", "ack"} => C!Command \in Missions  BY DEF LoopsInv
    <2>2. mission' = mission \/ (C!Command \in Missions /\ \E st \in {"active", "awaiting_approval", "failed"} :
              mission' = [mission EXCEPT ![C!Command] = st])
      BY <1>5, <2>1 DEF Coordinate, C!HandleCommand, C!LeaveCommand, C!ReadCommands,
          C!TakeCommand, C!AskGuard, C!PostActive, C!AddExecution, C!OpenApproval,
          C!NotifyApproval, C!PostDenied, C!AckCommand, C!controlPlane
    <2>3. approval' = approval \/ approval' = [approval EXCEPT ![C!Command] = "pending"]
      BY <1>5 DEF Coordinate, C!HandleCommand, C!LeaveCommand, C!ReadCommands,
          C!TakeCommand, C!AskGuard, C!PostActive, C!AddExecution, C!OpenApproval,
          C!NotifyApproval, C!PostDenied, C!AckCommand, C!controlPlane
    <2>4. answer' = answer \/ \E a \in C!Answers : answer' = [answer EXCEPT ![C!Command] = a]
      BY <1>5 DEF Coordinate, C!HandleCommand, C!LeaveCommand, C!ReadCommands,
          C!TakeCommand, C!AskGuard, C!PostActive, C!AddExecution, C!OpenApproval,
          C!NotifyApproval, C!PostDenied, C!AckCommand
    <2>5. receipts' = receipts
      BY <1>5 DEF Coordinate, C!HandleCommand, C!LeaveCommand, C!ReadCommands,
          C!TakeCommand, C!AskGuard, C!PostActive, C!AddExecution, C!OpenApproval,
          C!NotifyApproval, C!PostDenied, C!AckCommand, C!controlPlane
    <2>. QED  BY <1>1, <2>2, <2>3, <2>4, <2>5
  <1>6. CASE Coordinate(C!HandleReceipt \/ C!GiveUpReceipt)
    <2>1. receiptLoop.pc \notin {"idle", "ack"} => C!Report.mission \in Missions  BY DEF LoopsInv
    <2>2. mission' = mission \/ \E st \in {"complete", "failed"} :
              mission' = [mission EXCEPT ![C!Report.mission] = st]
      BY <1>6 DEF Coordinate, C!HandleReceipt, C!GiveUpReceipt, C!ReadReceipts,
          C!TakeReceipt, C!PostReportedStatus, C!NotifyReceipt, C!PostReportReceipt,
          C!AckReceipt, C!controlPlane
    <2>3. receipts' = receipts
          \/ (C!Report.mission \in Missions /\ receipts' = receipts \cup {C!Report.mission})
      BY <1>6, <2>1 DEF Coordinate, C!HandleReceipt, C!GiveUpReceipt, C!ReadReceipts,
          C!TakeReceipt, C!PostReportedStatus, C!NotifyReceipt, C!PostReportReceipt,
          C!AckReceipt, C!controlPlane
    <2>4. UNCHANGED <<approval, answer>>
      BY <1>6 DEF Coordinate, C!HandleReceipt, C!GiveUpReceipt, C!ReadReceipts,
          C!TakeReceipt, C!PostReportedStatus, C!NotifyReceipt, C!PostReportReceipt,
          C!AckReceipt, C!controlPlane
    <2>. QED  BY <1>1, <2>2, <2>3, <2>4
  <1>7. CASE Coordinate(C!CrashCoordinator)
    BY <1>1, <1>7 DEF Coordinate, C!CrashCoordinator, C!controlPlane
  <1>8. CASE WorkOn(W!Next)  BY <1>1, <1>8 DEF WorkOn, coordinatorOnly
  <1>9. CASE Execute(ExecutorStep)
    <2>1. UNCHANGED <<approval, receipts, answer>>  BY <1>9 DEF Execute, coordinatorOnly
    <2>2. mission' = mission \/ \E m : \E st \in {"complete", "failed"} :
              mission' = [mission EXCEPT ![m] = st]
      BY <1>9 DEF Execute, ExecutorStep, X!Deliver, X!Handle, X!Settle, X!Die, X!Final
    <2>. QED  BY <1>1, <2>1, <2>2
  <1>. QED  BY <1>2, <1>3, <1>4, <1>5, <1>6, <1>7, <1>8, <1>9, NextSteps

LEMMA DecidingKeeps == ASSUME TypeInv, [Next]_vars PROVE DecidingInv'
  <1>. USE DEF TypeInv, DecidingInv
  <1>1. CASE UNCHANGED operator  BY <1>1 DEF operator
  <1>2. CASE OperatorStep
    <2>1. PICK m \in Missions :
             \/ CreateMission(m) \/ PublishCommand(m) \/ DispatchFailed(m)
             \/ ReadPending(m) \/ Approve(m) \/ Deny(m) \/ PublishResume(m)
      BY <1>2 DEF OperatorStep
    <2>2. CASE CreateMission(m) \/ PublishCommand(m) \/ DispatchFailed(m)
      <3>1. UNCHANGED <<deciding, decisions, resume, stray>>
        BY <2>2 DEF CreateMission, PublishCommand, DispatchFailed, IntakeUnchanged
      <3>2. \E st \in {"publish", "unpublished", "failed", "done"} :
               intake' = [intake EXCEPT ![m] = st]
        BY <2>2 DEF CreateMission, PublishCommand, DispatchFailed
      <3>. QED  BY <3>1, <3>2
    <2>3. CASE ReadPending(m)
      BY <2>3, MissionLoopAssumption DEF ReadPending, OperatorUnchanged
    <2>4. CASE Approve(m)  BY <2>4, MissionLoopAssumption DEF Approve, OperatorUnchanged
    <2>5. CASE Deny(m)  BY <2>5, MissionLoopAssumption DEF Deny, OperatorUnchanged
    <2>6. CASE PublishResume(m)
      BY <2>6, MissionLoopAssumption DEF PublishResume, OperatorUnchanged
    <2>. QED  BY <2>1, <2>2, <2>3, <2>4, <2>5, <2>6
  <1>3. CASE AddStray  BY <1>3, MissionLoopAssumption DEF AddStray
  <1>4. [Next]_vars => UNCHANGED operator \/ OperatorStep \/ AddStray
    BY NextSteps DEF vars, Coordinate, WorkOn, Execute
  <1>. QED  BY <1>1, <1>2, <1>3, <1>4

LEMMA HandKeeps == ASSUME TypeInv, [Next]_vars PROVE HandInv'
  <1>. USE DEF TypeInv, HandInv
  <1>1. /\ Extends(execution', execution, Entries) /\ StreamOK(execution', Entries)
        /\ StreamOK(execution, Entries)
    BY LoopsKeep DEF Grown, StreamsInv
  <1>2. Positions(execution) \subseteq Positions(execution')  BY <1>1 DEF Extends
  <1>3. CASE UNCHANGED <<executorOnly, skipped>>
    BY <1>2, <1>3 DEF executorOnly
  <1>4. CASE WorkOn(W!Next)
    <2>1. UNCHANGED executorOnly  BY <1>4 DEF WorkOn
    <2>2. skipped' = skipped \/ (W!TakeWork /\ skipped' \subseteq skipped \cup {Head(workerLoop.batch)})
      BY <1>4 DEF WorkOn, W!Next, W!HandleWork, W!ReadWork, W!TakeWork, W!ClassifyFailed,
          W!ActOnIntent, W!RouteToExecutor, W!AckWork, W!ReportError, W!AckError, W!RaiseWork,
          W!CrashWorker
    <2>3. W!TakeWork => Head(workerLoop.batch) \in Positions(execution)
      <3>. SUFFICES ASSUME W!TakeWork PROVE Head(workerLoop.batch) \in Positions(execution)
        OBVIOUS
      <3>1. CanTake(workerLoop)  BY TheirLoops DEF W!TakeWork
      <3>2. Head(workerLoop.batch) \in 1..execution.read
        BY <3>1, InBatch DEF StreamsInv, LoopsInv
      <3>3. 1..execution.read \subseteq Positions(execution)
        BY <1>1 DEF StreamOK, StreamType, Positions
      <3>. QED  BY <3>2, <3>3
    <2>. QED  BY <1>2, <2>1, <2>2, <2>3 DEF executorOnly
  <1>5. CASE Execute(ExecutorStep)
    <2>1. skipped' = skipped  BY <1>5 DEF Execute, workerOnly
    <2>2. hand \subseteq Nat
      BY <1>1 DEF Positions, StreamOK, StreamType
    <2>3. CASE X!Deliver
      <3>1. /\ execution' = XReadGroup(execution, BatchSize)
            /\ hand' \subseteq hand \cup Batch(execution, BatchSize)
            /\ hit' \subseteq hit \cup Batch(execution, BatchSize)
            /\ UNCHANGED <<accounted, recorded>>
        BY <2>3, TheirStreams DEF X!Deliver
      <3>2. Batch(execution, BatchSize) \subseteq Positions(execution')
        <4>1. /\ Batch(execution, BatchSize) = execution.read + 1 .. execution'.read
              /\ execution.read \in Nat
          BY <1>1, <3>1, ReadOK, MissionLoopAssumption DEF StreamOK, StreamType
        <4>2. execution'.read \in Nat /\ execution'.read <= Len(execution'.log)
              /\ Len(execution'.log) \in Nat
          BY <1>1 DEF StreamOK, StreamType
        <4>. QED  BY <4>1, <4>2 DEF Positions
      <3>. QED  BY <1>2, <2>1, <3>1, <3>2
    <2>4. CASE \E i \in hand : X!Handle(i)
      <3>1. PICK i \in hand : X!Handle(i)  BY <2>4
      <3>2. /\ hand' \subseteq hand /\ hit' \subseteq hit \cup {i}
            /\ accounted' \subseteq accounted \cup {i}
        BY <3>1 DEF X!Handle
      <3>3. recorded' \subseteq [msg : Nat, status : X!Final]
        BY <2>2, <3>1 DEF X!Handle
      <3>. QED  BY <1>2, <2>1, <3>1, <3>2, <3>3
    <2>5. CASE \E i \in hand : X!Settle(i)
      <3>1. PICK i \in hand : X!Settle(i)  BY <2>5
      <3>2. /\ hand' \subseteq hand /\ hit' \subseteq hit \cup {i}
            /\ UNCHANGED <<accounted, recorded>>
        BY <3>1 DEF X!Settle
      <3>. QED  BY <1>2, <2>1, <3>1, <3>2
    <2>6. CASE X!Die
      BY <1>2, <2>1, <2>6 DEF X!Die
    <2>. QED  BY <1>5, <2>3, <2>4, <2>5, <2>6 DEF Execute, ExecutorStep
  <1>6. [Next]_vars => UNCHANGED <<executorOnly, skipped>> \/ WorkOn(W!Next) \/ Execute(ExecutorStep)
    BY NextSteps DEF vars, workerOnly, OperatorStep, AddStray, Coordinate, CreateMission,
       PublishCommand, DispatchFailed, ReadPending, Approve, Deny, PublishResume,
       IntakeUnchanged, OperatorUnchanged
  <1>. QED  BY <1>3, <1>4, <1>5, <1>6

LEMMA TypeHolds == Spec => []TypeInv
  <1>1. TypeInv /\ [Next]_vars => TypeInv'
    <2>. SUFFICES ASSUME TypeInv, [Next]_vars PROVE TypeInv'  OBVIOUS
    <2>. QED  BY LoopsKeep, RowsKeep, DecidingKeeps, HandKeeps DEF TypeInv
  <1>. QED  BY <1>1, InitType, PTL DEF Spec

-----------------------------------------------------------------------------
(* A completed mission has its receipt.                                    *)

\* What is on record stays, and what was disturbed stays disturbed.
LEMMA RecordsStay ==
    ASSUME TypeInv, [Next]_vars
    PROVE  receipts \subseteq receipts' /\ accounted \subseteq accounted' /\ hit \subseteq hit'
  <1>1. receipts \subseteq receipts'
    <2>1. CASE Coordinate(C!HandleReceipt \/ C!GiveUpReceipt)
      BY <2>1 DEF Coordinate, C!HandleReceipt, C!GiveUpReceipt, C!ReadReceipts,
          C!TakeReceipt, C!PostReportedStatus, C!NotifyReceipt, C!PostReportReceipt,
          C!AckReceipt, C!controlPlane
    <2>2. CASE Coordinate(C!HandleCommand \/ C!LeaveCommand)
      BY <2>2 DEF Coordinate, C!HandleCommand, C!LeaveCommand, C!ReadCommands,
          C!TakeCommand, C!AskGuard, C!PostActive, C!AddExecution, C!OpenApproval,
          C!NotifyApproval, C!PostDenied, C!AckCommand, C!controlPlane
    <2>3. CASE Coordinate(C!CrashCoordinator)
      BY <2>3 DEF Coordinate, C!CrashCoordinator, C!controlPlane
    <2>4. CASE OperatorStep
      BY <2>4 DEF OperatorStep, CreateMission, PublishCommand, DispatchFailed, ReadPending,
         Approve, Deny, PublishResume, IntakeUnchanged, OperatorUnchanged
    <2>5. CASE AddStray  BY <2>5 DEF AddStray
    <2>6. CASE WorkOn(W!Next) \/ Execute(ExecutorStep) \/ UNCHANGED vars
      BY <2>6 DEF WorkOn, Execute, vars, coordinatorOnly
    <2>. QED  BY <2>1, <2>2, <2>3, <2>4, <2>5, <2>6, NextSteps
  <1>2. accounted \subseteq accounted' /\ hit \subseteq hit'
    <2>1. CASE UNCHANGED executorOnly  BY <2>1 DEF executorOnly
    <2>2. CASE Execute(ExecutorStep)
      BY <2>2 DEF Execute, ExecutorStep, X!Deliver, X!Handle, X!Settle, X!Die
    <2>3. [Next]_vars => UNCHANGED executorOnly \/ Execute(ExecutorStep)
      BY NextSteps DEF vars, OperatorStep, AddStray, Coordinate, WorkOn, CreateMission,
         PublishCommand, DispatchFailed, ReadPending, Approve, Deny, PublishResume,
         IntakeUnchanged, OperatorUnchanged
    <2>. QED  BY <2>1, <2>2, <2>3
  <1>. QED  BY <1>1, <1>2

\* Decisions are only ever added.
LEMMA DecisionsGrow ==
    ASSUME TypeInv, [Next]_vars, NEW m \in Missions
    PROVE  /\ decisions[m].approved \in Nat /\ decisions[m].denied \in Nat
           /\ decisions'[m].approved \in Nat /\ decisions'[m].denied \in Nat
           /\ decisions[m].approved <= decisions'[m].approved
           /\ decisions[m].denied <= decisions'[m].denied
  <1>1. decisions \in [Missions -> [approved : Nat, denied : Nat]]
    BY DEF TypeInv, DecidingInv
  <1>2. decisions' \in [Missions -> [approved : Nat, denied : Nat]]
    BY DecidingKeeps DEF DecidingInv
  <1>3. \/ decisions' = decisions
        \/ \E n \in Missions : decisions' = [decisions EXCEPT ![n].approved = @ + 1]
        \/ \E n \in Missions : decisions' = [decisions EXCEPT ![n].denied = @ + 1]
    BY NextSteps DEF vars, operator, OperatorStep, AddStray, Coordinate, WorkOn, Execute,
       CreateMission, PublishCommand, DispatchFailed, ReadPending, Approve, Deny, PublishResume,
       IntakeUnchanged
  <1>4. decisions[m].approved <= decisions'[m].approved /\ decisions[m].denied <= decisions'[m].denied
    BY <1>1, <1>3
  <1>. QED  BY <1>1, <1>2, <1>4

LEMMA OnceDisturbed ==
    ASSUME TypeInv, [Next]_vars, NEW m \in Missions, Undisturbed(m)'
    PROVE  Undisturbed(m)
  <1>1. m \notin faults  BY FaultsKeep DEF Undisturbed
  <1>2. ASSUME NEW i \in hit PROVE execution.log[i].mission # m
    <2>1. i \in hit' /\ i \in Positions(execution)
      BY RecordsStay DEF TypeInv, HandInv
    <2>2. execution'.log[i] = execution.log[i]
      BY <2>1, LoopsKeep DEF Grown, Extends
    <2>. QED  BY <2>1, <2>2 DEF Undisturbed
  <1>3. decisions[m].approved + decisions[m].denied <= 1
    BY DecisionsGrow DEF Undisturbed
  <1>. QED  BY <1>1, <1>2, <1>3 DEF Undisturbed

\* The mission of an entry that was read does not change.
LEMMA EntryStays ==
    ASSUME TypeInv, [Next]_vars, NEW i \in Positions(execution)
    PROVE  i \in Positions(execution') /\ execution'.log[i] = execution.log[i]
  BY LoopsKeep DEF Grown, Extends

Vouched(m) ==
    \/ m \in receipts
    \/ \E i \in accounted : execution.log[i].mission = m
    \/ /\ receiptLoop.pc \in {"notify", "receipt"}
       /\ receiptStream.log[receiptLoop.cur].mission = m

LEMMA VouchedStays ==
    ASSUME TypeInv, [Next]_vars, NEW m \in Missions, Undisturbed(m)', Vouched(m)
    PROVE  Vouched(m)'
  <1>1. CASE m \in receipts  BY <1>1, RecordsStay DEF Vouched
  <1>2. CASE \E i \in accounted : execution.log[i].mission = m
    <2>1. PICK i \in accounted : execution.log[i].mission = m  BY <1>2
    <2>2. i \in accounted' /\ execution'.log[i] = execution.log[i]
      BY RecordsStay, EntryStays DEF TypeInv, HandInv
    <2>. QED  BY <2>1, <2>2 DEF Vouched
  <1>3. CASE /\ receiptLoop.pc \in {"notify", "receipt"}
             /\ receiptStream.log[receiptLoop.cur].mission = m
    <2>1. receiptLoop.cur \in Positions(receiptStream)
      BY <1>3, InHandler DEF TypeInv, StreamsInv, LoopsInv
    <2>2. receiptStream'.log[receiptLoop.cur] = receiptStream.log[receiptLoop.cur]
      BY <2>1, LoopsKeep DEF Grown, Extends
    <2>3. m \notin faults'  BY DEF Undisturbed
    <2>4. CASE receiptLoop' = receiptLoop  BY <1>3, <2>2, <2>4 DEF Vouched
    <2>5. CASE C!ReadReceipts \/ C!TakeReceipt \/ C!PostReportedStatus \/ C!AckReceipt
      <3>1. C!ReadReceipts \/ C!TakeReceipt => receiptLoop.cur = NoEntry
        BY TheirLoops DEF C!ReadReceipts, C!TakeReceipt, CanRead, CanTake, Idle
      <3>2. receiptLoop.cur # NoEntry
        BY <1>3 DEF TypeInv, LoopsInv, LoopOK
      <3>. QED  BY <1>3, <2>5, <3>1, <3>2 DEF C!PostReportedStatus, C!AckReceipt
    <2>6. CASE C!NotifyReceipt
      <3>1. receiptLoop' = Goto(receiptLoop, "receipt")
        BY <2>6, TheirLoops DEF C!NotifyReceipt
      <3>2. receiptLoop'.pc = "receipt" /\ receiptLoop'.cur = receiptLoop.cur
        BY <3>1 DEF Goto, TypeInv, LoopsInv, LoopOK, LoopType
      <3>. QED  BY <1>3, <2>2, <3>2 DEF Vouched
    <2>7. CASE C!PostReportReceipt
      BY <1>3, <2>3, <2>7 DEF C!PostReportReceipt, C!Hit, C!Report, Vouched
    <2>8. CASE C!GiveUpReceipt
      BY <1>3, <2>3, <2>8 DEF C!GiveUpReceipt, C!Hit, C!Report
    <2>9. CASE C!CrashCoordinator
      <3>1. receiptLoop.cur \in C!InHand(receiptLoop)
        BY <1>3 DEF C!InHand, C!NoEntry, TypeInv, LoopsInv, LoopOK, NoEntry
      <3>2. receiptStream.log[receiptLoop.cur].mission \in faults'
        BY <2>9, <3>1 DEF C!CrashCoordinator
      <3>. QED  BY <1>3, <2>3, <3>2
    <2>10. [Next]_vars => \/ receiptLoop' = receiptLoop
                          \/ C!HandleReceipt \/ C!GiveUpReceipt \/ C!CrashCoordinator
      <3>1. C!HandleCommand \/ C!LeaveCommand => receiptLoop' = receiptLoop
        BY DEF C!HandleCommand, C!LeaveCommand, C!ReadCommands,
          C!TakeCommand, C!AskGuard, C!PostActive, C!AddExecution, C!OpenApproval,
          C!NotifyApproval, C!PostDenied, C!AckCommand
      <3>2. OperatorStep \/ AddStray => receiptLoop' = receiptLoop
        BY DEF OperatorStep, AddStray, CreateMission, PublishCommand, DispatchFailed,
           ReadPending, Approve, Deny, PublishResume, IntakeUnchanged, OperatorUnchanged
      <3>3. WorkOn(W!Next) \/ Execute(ExecutorStep) \/ UNCHANGED vars => receiptLoop' = receiptLoop
        BY DEF WorkOn, Execute, vars, coordinatorOnly
      <3>. QED  BY <3>1, <3>2, <3>3, NextSteps DEF Coordinate
    <2>. QED  BY <2>4, <2>5, <2>6, <2>7, <2>8, <2>9, <2>10 DEF C!HandleReceipt
  <1>. QED  BY <1>1, <1>2, <1>3 DEF Vouched

\* A status "complete" is written by the receipt loop, which goes on to write the
\* receipt, and by the executor, which has it accounted for.
LEMMA CompletedIsVouched ==
    ASSUME TypeInv, [Next]_vars, NEW m \in Missions, Undisturbed(m)',
           mission[m] # "complete", mission'[m] = "complete"
    PROVE  Vouched(m)'
  <1>1. CASE UNCHANGED vars  BY <1>1 DEF vars
  <1>2. CASE OperatorStep
    BY <1>2 DEF OperatorStep, CreateMission, PublishCommand, DispatchFailed, ReadPending, Approve,
       Deny, PublishResume, TypeInv, RowsInv
  <1>3. CASE AddStray  BY <1>3 DEF AddStray
  <1>4. CASE Coordinate(C!HandleCommand \/ C!LeaveCommand)
    BY <1>4 DEF Coordinate, C!HandleCommand, C!LeaveCommand, C!ReadCommands,
          C!TakeCommand, C!AskGuard, C!PostActive, C!AddExecution, C!OpenApproval,
          C!NotifyApproval, C!PostDenied, C!AckCommand, C!controlPlane, TypeInv, RowsInv
  <1>5. CASE Coordinate(C!HandleReceipt \/ C!GiveUpReceipt)
    <2>1. C!PostReportedStatus
      BY <1>5 DEF Coordinate, C!HandleReceipt, C!GiveUpReceipt, C!ReadReceipts,
          C!TakeReceipt, C!NotifyReceipt, C!PostReportReceipt, C!AckReceipt, C!controlPlane
    <2>2. C!Report.mission = m
      BY <2>1 DEF C!PostReportedStatus, TypeInv, RowsInv
    <2>3. receiptLoop' = Goto(receiptLoop, "notify") /\ receiptStream' = receiptStream
      BY <2>1, TheirLoops DEF C!PostReportedStatus
    <2>4. receiptLoop'.pc = "notify" /\ receiptLoop'.cur = receiptLoop.cur
      BY <2>3 DEF Goto, TypeInv, LoopsInv, LoopOK, LoopType
    <2>. QED  BY <2>2, <2>3, <2>4 DEF C!Report, Vouched
  <1>6. CASE Coordinate(C!CrashCoordinator)
    BY <1>6 DEF Coordinate, C!CrashCoordinator, C!controlPlane
  <1>7. CASE WorkOn(W!Next)  BY <1>7 DEF WorkOn
  <1>8. CASE Execute(ExecutorStep)
    <2>1. PICK i \in hand : X!Handle(i)
      BY <1>8 DEF Execute, ExecutorStep, X!Deliver, X!Settle, X!Die
    <2>2. X!MayRecord(i) /\ execution.log[i].mission = m /\ execution' = execution
      BY <2>1 DEF X!Handle, MissionIn, TypeInv, RowsInv
    <2>3. i \notin hit'  BY <2>2 DEF Undisturbed
    <2>4. i \in accounted'
      BY <2>1, <2>2, <2>3 DEF X!MayRecord, X!Handle
    <2>. QED  BY <2>2, <2>4 DEF Vouched
  <1>. QED  BY <1>1, <1>2, <1>3, <1>4, <1>5, <1>6, <1>7, <1>8, NextSteps

LEMMA CompleteHolds == Spec => []CompleteHasReceipt
  <1>1. Init => CompleteHasReceipt  BY DEF Init, CompleteHasReceipt
  <1>2. TypeInv /\ CompleteHasReceipt /\ [Next]_vars => CompleteHasReceipt'
    <2>. SUFFICES ASSUME TypeInv, CompleteHasReceipt, [Next]_vars, NEW m \in Missions,
                         mission'[m] = "complete", Undisturbed(m)'
                  PROVE  Vouched(m)'
      BY DEF CompleteHasReceipt, Vouched
    <2>1. CASE mission[m] = "complete"
      BY <2>1, OnceDisturbed, VouchedStays DEF CompleteHasReceipt, Vouched
    <2>2. CASE mission[m] # "complete"
      BY <2>2, CompletedIsVouched
    <2>. QED  BY <2>1, <2>2
  <1>. QED  BY <1>1, <1>2, TypeHolds, PTL DEF Spec

-----------------------------------------------------------------------------
(* The guard is asked about a mission once: a mission is published once.   *)

\* Commands about which the guard has not been asked.
Unasked ==
    {i \in Positions(commands) :
        \/ i > commands.read
        \/ i \in Waiting(commandLoop)
        \/ i = commandLoop.cur /\ commandLoop.pc = "guard"}

PublishInv ==
    /\ \A i, j \in Positions(commands) :
         commands.log[i] \in Missions /\ commands.log[i] = commands.log[j] => i = j
    /\ \A m \in Missions : intake[m] \in {"new", "publish"} =>
         answer[m] = "none" /\ \A i \in Positions(commands) : commands.log[i] # m

UnaskedInv ==
    \A i \in Unasked : commands.log[i] \in Missions => answer[commands.log[i]] = "none"

\* The intake and the coordinator, as far as these are concerned.
Asks == \E a \in C!Answers : C!AskGuard(a) /\ intake' = intake

Publishes == \E m \in Missions :
    /\ intake[m] = "publish" /\ commands' = XAdd(commands, m)
    /\ \E st \in {"failed", "done"} : intake' = [intake EXCEPT ![m] = st]
    /\ UNCHANGED <<commandLoop, answer>>

Strays == commands' = XAdd(commands, Poison) /\ UNCHANGED <<commandLoop, answer, intake>>

\* Nobody goes back to "new" or to "publish" with a new command.
Moves ==
    /\ commands'.log = commands.log /\ answer' = answer
    /\ \A m \in Missions : intake'[m] \in {"new", "publish"} => intake[m] \in {"new", "publish"}

LEMMA CommandsMove ==
    ASSUME TypeInv, [Next]_vars
    PROVE  Asks \/ Publishes \/ Strays \/ Moves
  <1>1. CASE UNCHANGED vars  BY <1>1 DEF vars, coordinatorOnly, operator, Moves
  <1>2. CASE OperatorStep
    <2>1. PICK m \in Missions :
             \/ CreateMission(m) \/ PublishCommand(m) \/ DispatchFailed(m)
             \/ ReadPending(m) \/ Approve(m) \/ Deny(m) \/ PublishResume(m)
      BY <1>2 DEF OperatorStep
    <2>2. intake \in [Missions -> {"new", "publish", "unpublished", "failed", "done"}]
      BY DEF TypeInv, DecidingInv
    <2>3. CASE CreateMission(m) \/ DispatchFailed(m)
      BY <2>2, <2>3 DEF CreateMission, DispatchFailed, IntakeUnchanged, Moves
    <2>4. CASE PublishCommand(m)
      <3>1. /\ intake[m] = "publish" /\ UNCHANGED <<commandLoop, answer>>
            /\ \E st \in {"failed", "done"} : intake' = [intake EXCEPT ![m] = st]
            /\ commands' = commands \/ commands' = XAdd(commands, m)
        BY <2>4 DEF PublishCommand, IntakeUnchanged
      <3>2. CASE commands' = commands  BY <2>2, <3>1, <3>2 DEF Moves
      <3>3. CASE commands' = XAdd(commands, m)  BY <3>1, <3>3 DEF Publishes
      <3>. QED  BY <3>1, <3>2, <3>3
    <2>5. CASE ReadPending(m) \/ Approve(m) \/ Deny(m) \/ PublishResume(m)
      BY <2>5 DEF ReadPending, Approve, Deny, PublishResume, OperatorUnchanged, Moves
    <2>. QED  BY <2>1, <2>3, <2>4, <2>5
  <1>3. CASE AddStray  BY <1>3 DEF AddStray, Strays, Moves
  <1>4. CASE Coordinate(C!HandleCommand \/ C!LeaveCommand)
    <2>1. intake' = intake  BY <1>4 DEF Coordinate, operator
    <2>2. CASE \E a \in C!Answers : C!AskGuard(a)  BY <2>1, <2>2 DEF Asks
    <2>3. CASE ~\E a \in C!Answers : C!AskGuard(a)
      <3>1. \/ commands' = commands
            \/ commands' = XReadGroup(commands, BatchSize)
            \/ commands' = XAck(commands, commandLoop.cur)
        BY <1>4, <2>3, TheirStreams DEF Coordinate, C!HandleCommand, C!LeaveCommand,
           C!ReadCommands, C!TakeCommand, C!PostActive, C!AddExecution, C!OpenApproval,
           C!NotifyApproval, C!PostDenied, C!AckCommand
      <3>2. commands'.log = commands.log
        <4>1. StreamOK(commands, CommandEntries) /\ BatchSize \in Nat
          BY MissionLoopAssumption DEF TypeInv, StreamsInv
        <4>2. XReadGroup(commands, BatchSize).log = commands.log  BY <4>1, ReadOK
        <4>3. XAck(commands, commandLoop.cur).log = commands.log  BY <4>1, AckOK
        <4>. QED  BY <3>1, <4>2, <4>3
      <3>3. answer' = answer
        BY <1>4, <2>3 DEF Coordinate, C!HandleCommand, C!LeaveCommand,
           C!ReadCommands, C!TakeCommand, C!PostActive, C!AddExecution, C!OpenApproval,
           C!NotifyApproval, C!PostDenied, C!AckCommand
      <3>. QED  BY <2>1, <3>2, <3>3 DEF Moves
    <2>. QED  BY <2>2, <2>3
  <1>5. CASE Coordinate(C!HandleReceipt \/ C!GiveUpReceipt)
    BY <1>5 DEF Coordinate, operator, Moves, C!HandleReceipt, C!GiveUpReceipt, C!ReadReceipts,
          C!TakeReceipt, C!PostReportedStatus, C!NotifyReceipt, C!PostReportReceipt,
          C!AckReceipt
  <1>6. CASE Coordinate(C!CrashCoordinator)
    BY <1>6 DEF Coordinate, operator, Moves, C!CrashCoordinator
  <1>7. CASE WorkOn(W!Next) \/ Execute(ExecutorStep)
    BY <1>7 DEF WorkOn, Execute, coordinatorOnly, operator, Moves
  <1>. QED  BY <1>1, <1>2, <1>3, <1>4, <1>5, <1>6, <1>7, NextSteps

\* The guard is asked right after a command was taken.
LEMMA AtGuard ==
    ASSUME TypeInv, [Next]_vars, commandLoop'.pc = "guard"
    PROVE  commandLoop' = commandLoop \/ C!TakeCommand
  <1>1. CASE C!HandleCommand \/ C!LeaveCommand
    <2>1. CASE C!TakeCommand  BY <2>1
    <2>2. CASE C!ReadCommands
      <3>1. commandLoop' = Handed(commandLoop, commands, BatchSize) /\ Idle(commandLoop)
        BY <2>2, TheirLoops DEF C!ReadCommands, CanRead
      <3>2. commandLoop'.pc = "idle"
        BY <3>1, LoopReads, MissionLoopAssumption DEF TypeInv, StreamsInv, LoopsInv
      <3>. QED  BY <3>2
    <2>3. CASE \E a \in C!Answers : C!AskGuard(a)
      <3>1. PICK a \in C!Answers : C!AskGuard(a)  BY <2>3
      <3>2. commandLoop' = Goto(commandLoop, C!Decision(a)) /\ C!Decision(a) # "guard"
        BY <3>1, TheirLoops DEF C!AskGuard, C!Decision, C!Answers
      <3>. QED  BY <3>2 DEF Goto, TypeInv, LoopsInv, LoopOK, LoopType
    <2>4. CASE C!PostActive \/ C!AddExecution \/ C!OpenApproval \/ C!NotifyApproval \/ C!PostDenied
      <3>1. \E label \in {"add", "ack", "notify"} : commandLoop' = Goto(commandLoop, label)
        BY <2>4, TheirLoops DEF C!PostActive, C!AddExecution, C!OpenApproval, C!NotifyApproval,
           C!PostDenied
      <3>. QED  BY <3>1 DEF Goto, TypeInv, LoopsInv, LoopOK, LoopType
    <2>5. CASE C!AckCommand \/ C!LeaveCommand
      <3>1. commandLoop' = Finished(commandLoop)
        BY <2>5, TheirLoops DEF C!AckCommand, C!LeaveCommand
      <3>. QED  BY <3>1 DEF Finished, TypeInv, LoopsInv, LoopOK, LoopType
    <2>. QED  BY <1>1, <2>1, <2>2, <2>3, <2>4, <2>5 DEF C!HandleCommand
  <1>2. CASE C!CrashCoordinator
    BY <1>2, TheirLoops DEF C!CrashCoordinator, IdleLoop
  <1>3. [Next]_vars => \/ commandLoop' = commandLoop
                      \/ C!HandleCommand \/ C!LeaveCommand \/ C!CrashCoordinator
    <2>1. C!HandleReceipt \/ C!GiveUpReceipt => commandLoop' = commandLoop
      BY DEF C!HandleReceipt, C!GiveUpReceipt, C!ReadReceipts,
          C!TakeReceipt, C!PostReportedStatus, C!NotifyReceipt, C!PostReportReceipt,
          C!AckReceipt
    <2>2. OperatorStep \/ AddStray => commandLoop' = commandLoop
      BY DEF OperatorStep, AddStray, CreateMission, PublishCommand, DispatchFailed,
           ReadPending, Approve, Deny, PublishResume, IntakeUnchanged, OperatorUnchanged
    <2>3. WorkOn(W!Next) \/ Execute(ExecutorStep) \/ UNCHANGED vars => commandLoop' = commandLoop
      BY DEF WorkOn, Execute, vars, coordinatorOnly
    <2>. QED  BY <2>1, <2>2, <2>3, NextSteps DEF Coordinate
  <1>. QED  BY <1>1, <1>2, <1>3

\* What a loop holds back after a step, it held back or had not read before.
LEMMA WaitingShrinks ==
    ASSUME NEW labels, "idle" \notin labels, NEW entries, NEW loop, NEW next, NEW s, NEW t,
           StreamOK(s, entries), LoopOK(loop, s, labels),
           LoopStep(loop, next, s, t, labels, entries), NEW i \in Waiting(next)
    PROVE  i \in Waiting(loop) \/ i > s.read
  <1>1. s.read \in Nat  BY DEF StreamOK, StreamType
  <1>2. CASE next = loop  BY <1>2
  <1>3. CASE Idle(loop) /\ t = XReadGroup(s, BatchSize) /\ next = Handed(loop, s, BatchSize)
    <2>1. Waiting(next) = s.read + 1 .. t.read
      BY <1>3, LoopReads, MissionLoopAssumption
    <2>2. t.read \in Nat  BY <1>3, ReadOK, MissionLoopAssumption
    <2>. QED  BY <1>1, <2>1, <2>2
  <1>4. CASE CanTake(loop) /\ \E label \in labels : next = Taken(loop, label)
    BY <1>1, <1>4, LoopTakes
  <1>5. CASE \E label \in labels : next = Goto(loop, label)
    BY <1>5 DEF Goto, Waiting, LoopOK, LoopType
  <1>6. CASE next = Finished(loop)  BY <1>1, <1>6, LoopFinishes
  <1>7. CASE next = IdleLoop  BY <1>7 DEF IdleLoop, Waiting
  <1>. QED  BY <1>2, <1>3, <1>4, <1>5, <1>6, <1>7 DEF LoopStep

LEMMA UnaskedShrinks ==
    ASSUME TypeInv, [Next]_vars, NEW i \in Unasked', i \in Positions(commands)
    PROVE  i \in Unasked
  <1>. USE DEF TypeInv, StreamsInv, LoopsInv
  <1>1. /\ CommandStep /\ "idle" \notin C!CommandLabels
        /\ commands.read \in Nat /\ commands'.read \in Nat /\ commands.read <= commands'.read
    BY LoopsMove, LoopsKeep DEF LoopsStep, C!CommandLabels, Grown, Extends, StreamOK, StreamType
  <1>2. i \in Nat  BY DEF Positions
  <1>3. CASE i > commands'.read  BY <1>1, <1>2, <1>3 DEF Unasked
  <1>4. CASE i \in Waiting(commandLoop')
    BY <1>1, <1>4, WaitingShrinks DEF CommandStep, Unasked
  <1>5. CASE i = commandLoop'.cur /\ commandLoop'.pc = "guard"
    <2>1. CASE commandLoop' = commandLoop  BY <1>5, <2>1 DEF Unasked
    <2>2. CASE C!TakeCommand
      <3>1. CanTake(commandLoop) /\ \E label : commandLoop' = Taken(commandLoop, label)
        BY <2>2, TheirLoops DEF C!TakeCommand
      <3>2. i = Head(commandLoop.batch)  BY <1>5, <3>1 DEF Taken
      <3>3. commandLoop.batch \in Seq(Nat) /\ commandLoop.batch # <<>>
        BY <3>1 DEF CanTake, LoopOK, LoopType
      <3>4. 1 \in DOMAIN commandLoop.batch /\ Head(commandLoop.batch) = commandLoop.batch[1]
        BY <3>3
      <3>. QED  BY <3>2, <3>4 DEF Unasked, Waiting
    <2>. QED  BY <1>5, <2>1, <2>2, AtGuard
  <1>. QED  BY <1>3, <1>4, <1>5 DEF Unasked

LEMMA PublishKeeps ==
    ASSUME TypeInv, PublishInv, UnaskedInv, [Next]_vars
    PROVE  PublishInv' /\ UnaskedInv'
  <1>. USE DEF TypeInv, StreamsInv
  <1>1. intake \in [Missions -> {"new", "publish", "unpublished", "failed", "done"}]
        /\ answer \in [Missions -> C!Answers \cup {"none"}]
    BY DEF DecidingInv, RowsInv
  <1>2. Unasked' \subseteq Positions(commands')  BY DEF Unasked
  <1>3. CASE Moves
    <2>1. Positions(commands') = Positions(commands)  BY <1>3 DEF Moves, Positions
    <2>2. PublishInv'  BY <1>3, <2>1 DEF Moves, PublishInv
    <2>3. UnaskedInv'  BY <1>2, <1>3, <2>1, UnaskedShrinks DEF Moves, UnaskedInv
    <2>. QED  BY <2>2, <2>3
  <1>4. ASSUME NEW e \in CommandEntries, commands' = XAdd(commands, e), answer' = answer,
               \A m \in Missions : intake'[m] \in {"new", "publish"} =>
                    intake[m] \in {"new", "publish"} /\ m # e,
               e \in Missions => intake[e] = "publish"
        PROVE  PublishInv' /\ UnaskedInv'
    <2> DEFINE n == Len(commands.log) + 1
    <2>1. /\ Positions(commands') = Positions(commands) \cup {n} /\ n \notin Positions(commands)
          /\ \A i \in Positions(commands) : commands'.log[i] = commands.log[i]
          /\ commands'.log[n] = e
      BY <1>4, Longer
    <2>2. e \in Missions => answer[e] = "none" /\ \A i \in Positions(commands) : commands.log[i] # e
      BY <1>4 DEF PublishInv
    <2>. HIDE DEF n
    <2>3. PublishInv'  BY <1>4, <2>1, <2>2 DEF PublishInv
    <2>4. UnaskedInv'
      <3>. SUFFICES ASSUME NEW i \in Unasked', commands'.log[i] \in Missions
                    PROVE  answer'[commands'.log[i]] = "none"
        BY DEF UnaskedInv
      <3>1. CASE i = n  BY <1>4, <2>1, <2>2, <3>1
      <3>2. CASE i # n
        <4>1. i \in Positions(commands)  BY <1>2, <2>1, <3>2
        <4>. QED  BY <1>4, <2>1, <4>1, UnaskedShrinks DEF UnaskedInv
      <3>. QED  BY <3>1, <3>2
    <2>. QED  BY <2>3, <2>4
  <1>5. CASE Publishes
    <2>1. PICK m \in Missions :
            /\ intake[m] = "publish" /\ commands' = XAdd(commands, m)
            /\ \E st \in {"failed", "done"} : intake' = [intake EXCEPT ![m] = st]
            /\ UNCHANGED <<commandLoop, answer>>
      BY <1>5 DEF Publishes
    <2>. QED  BY <1>1, <1>4, <2>1 DEF CommandEntries
  <1>6. CASE Strays
    BY <1>4, <1>6, MissionLoopAssumption DEF Strays, CommandEntries
  <1>7. CASE Asks
    <2>1. PICK a \in C!Answers : C!AskGuard(a) /\ intake' = intake  BY <1>7 DEF Asks
    <2>2. /\ commandLoop.pc = "guard" /\ commands' = commands
          /\ answer' = [answer EXCEPT ![C!Command] = a]
          /\ commandLoop' = Goto(commandLoop, C!Decision(a)) /\ C!Decision(a) # "guard"
      BY <2>1, TheirLoops DEF C!AskGuard, C!Decision, C!Answers
    <2>3. /\ C!Command \in Missions /\ commandLoop.cur \in Positions(commands)
          /\ commandLoop.cur \in 1..commands.read /\ commands.read \in Nat
      BY <2>2, InHandler DEF LoopsInv, StreamOK, StreamType
    <2>4. commandLoop.cur \notin Unasked'
      <3>1. commandLoop'.pc # "guard" /\ Waiting(commandLoop') = Waiting(commandLoop)
        BY <2>2 DEF Goto, Waiting, LoopsInv, LoopOK, LoopType
      <3>2. commandLoop.cur \notin Waiting(commandLoop)
        BY DEF LoopsInv, LoopOK, Waiting
      <3>. QED  BY <2>2, <2>3, <3>1, <3>2 DEF Unasked
    <2>5. UnaskedInv'
      <3>. SUFFICES ASSUME NEW i \in Unasked', commands.log[i] \in Missions
                    PROVE  answer'[commands.log[i]] = "none"
        BY <2>2 DEF UnaskedInv
      <3>1. i \in Positions(commands) /\ i # commandLoop.cur  BY <1>2, <2>2, <2>4
      <3>2. commands.log[i] # C!Command  BY <2>3, <3>1 DEF PublishInv, C!Command
      <3>3. answer[commands.log[i]] = "none"  BY <3>1, UnaskedShrinks DEF UnaskedInv
      <3>. QED  BY <1>1, <2>2, <3>2, <3>3
    <2>6. PublishInv'
      <3>1. \A m \in Missions : intake[m] \in {"new", "publish"} => m # C!Command
        BY <2>3 DEF PublishInv, C!Command
      <3>. QED  BY <1>1, <2>1, <2>2, <3>1 DEF PublishInv
    <2>. QED  BY <2>5, <2>6
  <1>. QED  BY <1>3, <1>5, <1>6, <1>7, CommandsMove

LEMMA AskedOnce == Spec => [](PublishInv /\ UnaskedInv)
  <1>1. Init => PublishInv /\ UnaskedInv
    BY DEF Init, PublishInv, UnaskedInv, Unasked, Positions, EmptyStream
  <1>2. TypeInv /\ PublishInv /\ UnaskedInv /\ [Next]_vars => PublishInv' /\ UnaskedInv'
    BY PublishKeeps
  <1>. QED  BY <1>1, <1>2, TypeHolds, PTL DEF Spec

-----------------------------------------------------------------------------
(* No more entries than grants.                                            *)

\* An entry the coordinator is about to add under the guard's "allow".
Owed(m) == IF commandLoop.pc \in {"allow", "add"} /\ C!Command = m THEN 1 ELSE 0

CountInv == \A m \in Missions : EntryCount(m) + resume[m] + Owed(m) <= GrantCount(m)

\* The kinds of steps, by what they do to grants and entries.
Answered == \E a \in C!Answers :
    C!AskGuard(a) /\ UNCHANGED <<execution, decisions, resume, workerLoop>>

Approves == \E m \in Missions :
    /\ decisions' = [decisions EXCEPT ![m].approved = @ + 1]
    /\ resume' = [resume EXCEPT ![m] = @ + 1]
    /\ UNCHANGED <<execution, answer, commandLoop, commands, workerLoop>>

Resumes == \E m \in Missions :
    /\ resume[m] > 0 /\ resume' = [resume EXCEPT ![m] = @ - 1]
    /\ execution' \in {execution, XAdd(execution, [mission |-> m, skip |-> FALSE])}
    /\ UNCHANGED <<answer, decisions, commandLoop, commands, workerLoop>>

Adds ==
    /\ commandLoop.pc = "add" /\ commandLoop'.pc \in {"ack", "idle"}
    /\ execution' = XAdd(execution, [mission |-> C!Command, skip |-> FALSE])
    /\ UNCHANGED <<answer, decisions, resume, workerLoop>>

Routes ==
    /\ workerLoop.pc = "classify"
    /\ execution' = XAdd(execution, [mission |-> W!Work.mission, skip |-> TRUE])
    /\ \E label \in {"ack", "report"} : workerLoop' = Goto(workerLoop, label)
    /\ UNCHANGED <<answer, decisions, resume, commandLoop, commands>>

Neither ==
    /\ UNCHANGED <<answer, resume>>
    /\ \A m \in Missions : decisions'[m].approved = decisions[m].approved
    /\ \/ execution'.log = execution.log
       \/ execution' = XAdd(execution, [mission |-> Poison, skip |-> FALSE])
    /\ commandLoop'.pc \in {"allow", "add"} =>
         commandLoop.pc \in {"allow", "add"} /\ commandLoop'.cur = commandLoop.cur

LEMMA GateMoves ==
    ASSUME TypeInv, [Next]_vars
    PROVE  Answered \/ Approves \/ Resumes \/ Adds \/ Routes \/ Neither
  <1>0. StreamOK(execution, Entries) /\ StreamOK(commands, CommandEntries) /\ BatchSize \in Nat
    BY MissionLoopAssumption DEF TypeInv, StreamsInv
  <1>1. CASE UNCHANGED vars
    BY <1>1 DEF vars, coordinatorOnly, operator, Neither
  <1>2. CASE OperatorStep
    <2>1. PICK m \in Missions :
             \/ CreateMission(m) \/ PublishCommand(m) \/ DispatchFailed(m)
             \/ ReadPending(m) \/ Approve(m) \/ Deny(m) \/ PublishResume(m)
      BY <1>2 DEF OperatorStep
    <2>2. CASE CreateMission(m) \/ DispatchFailed(m) \/ PublishCommand(m)
      BY <2>2 DEF CreateMission, DispatchFailed, PublishCommand, IntakeUnchanged, Neither
    <2>3. CASE ReadPending(m)  BY <2>3 DEF ReadPending, OperatorUnchanged, Neither
    <2>4. CASE Deny(m)
      <3>1. decisions \in [Missions -> [approved : Nat, denied : Nat]]
        BY DEF TypeInv, DecidingInv
      <3>2. \A n \in Missions : decisions'[n].approved = decisions[n].approved
        BY <2>4, <3>1 DEF Deny
      <3>. QED  BY <2>4, <3>2 DEF Deny, OperatorUnchanged, Neither
    <2>5. CASE Approve(m)
      BY <2>5 DEF Approve, OperatorUnchanged, Approves, workerOnly
    <2>6. CASE PublishResume(m)
      BY <2>6 DEF PublishResume, OperatorUnchanged, Resumes, workerOnly
    <2>. QED  BY <2>1, <2>2, <2>3, <2>4, <2>5, <2>6
  <1>3. CASE AddStray  BY <1>3 DEF AddStray, Neither
  <1>4. CASE Coordinate(C!HandleCommand \/ C!LeaveCommand)
    <2>1. UNCHANGED <<decisions, resume, workerLoop>>
      BY <1>4 DEF Coordinate, operator, workerOnly
    <2>2. CASE \E a \in C!Answers : C!AskGuard(a)
      BY <2>1, <2>2 DEF Answered, C!AskGuard
    <2>3. CASE C!ReadCommands
      <3>1. commandLoop' = Handed(commandLoop, commands, BatchSize) /\ Idle(commandLoop)
            /\ UNCHANGED <<execution, answer>>
        BY <2>3, TheirLoops DEF C!ReadCommands, CanRead
      <3>2. commandLoop'.pc = "idle"
        BY <3>1, LoopReads, MissionLoopAssumption DEF TypeInv, StreamsInv, LoopsInv
      <3>. QED  BY <2>1, <3>1, <3>2 DEF Neither
    <2>4. CASE C!TakeCommand
      BY <2>1, <2>4, TheirLoops DEF C!TakeCommand, Taken, Neither
    <2>5. CASE C!PostActive \/ C!OpenApproval \/ C!NotifyApproval \/ C!PostDenied
      <3>1. /\ \/ commandLoop.pc = "allow" /\ commandLoop' = Goto(commandLoop, "add")
               \/ \E label \in {"ack", "notify"} : commandLoop' = Goto(commandLoop, label)
            /\ UNCHANGED <<execution, answer>>
        BY <2>5, TheirLoops DEF C!PostActive, C!OpenApproval, C!NotifyApproval, C!PostDenied
      <3>2. \/ commandLoop.pc = "allow" /\ commandLoop'.cur = commandLoop.cur
            \/ commandLoop'.pc \in {"ack", "notify"}
        BY <3>1 DEF Goto, TypeInv, LoopsInv, LoopOK, LoopType
      <3>. QED  BY <2>1, <3>1, <3>2 DEF Neither
    <2>6. CASE C!AddExecution
      <3>1. commandLoop'.pc = "ack"
        BY <2>6, TheirLoops DEF C!AddExecution, Goto, TypeInv, LoopsInv, LoopOK, LoopType
      <3>. QED  BY <2>1, <2>6, <3>1, TheirStreams DEF C!AddExecution, Adds
    <2>7. CASE C!AckCommand \/ C!LeaveCommand
      <3>1. commandLoop' = Finished(commandLoop) /\ answer' = answer
        BY <2>7, TheirLoops DEF C!AckCommand, C!LeaveCommand
      <3>2. commandLoop'.pc = "idle"
        BY <3>1 DEF Finished, TypeInv, LoopsInv, LoopOK, LoopType
      <3>3. \/ execution' = execution
            \/ /\ commandLoop.pc = "add"
               /\ execution' = XAdd(execution, [mission |-> C!Command, skip |-> FALSE])
        BY <2>7, TheirStreams DEF C!AckCommand, C!LeaveCommand
      <3>. QED  BY <2>1, <3>1, <3>2, <3>3 DEF Neither, Adds
    <2>. QED  BY <1>4, <2>2, <2>3, <2>4, <2>5, <2>6, <2>7 DEF Coordinate, C!HandleCommand
  <1>5. CASE Coordinate(C!HandleReceipt \/ C!GiveUpReceipt)
    BY <1>5 DEF Coordinate, operator, Neither, C!HandleReceipt, C!GiveUpReceipt, C!ReadReceipts,
          C!TakeReceipt, C!PostReportedStatus, C!NotifyReceipt, C!PostReportReceipt,
          C!AckReceipt
  <1>6. CASE Coordinate(C!CrashCoordinator)
    BY <1>6, TheirLoops DEF Coordinate, operator, Neither, C!CrashCoordinator, IdleLoop
  <1>7. CASE WorkOn(W!Next)
    <2>1. UNCHANGED <<decisions, resume, answer, commandLoop, commands>>
      BY <1>7 DEF WorkOn, operator, coordinatorOnly
    <2>2. CASE /\ workerLoop.pc = "classify"
               /\ execution' = XAdd(execution, [mission |-> W!Work.mission, skip |-> TRUE])
               /\ \E label \in {"ack", "report"} : workerLoop' = Goto(workerLoop, label)
      BY <2>1, <2>2 DEF Routes
    <2>3. CASE W!RouteToExecutor
      BY <2>2, <2>3, TheirStreams, TheirLoops DEF W!RouteToExecutor
    <2>4. CASE W!RaiseWork
      <3>1. workerLoop.pc = "classify" => W!Work.mission # Poison
        BY MissionLoopAssumption DEF TypeInv, LoopsInv
      <3>2. \/ execution' = execution
            \/ execution' = XAck(execution, workerLoop.cur)
            \/ /\ workerLoop.pc = "classify"
               /\ execution' = XAdd(execution, [mission |-> W!Work.mission, skip |-> TRUE])
               /\ workerLoop' = Goto(workerLoop, "report")
        BY <2>4, <3>1, TheirStreams, TheirLoops DEF W!RaiseWork
      <3>3. XAck(execution, workerLoop.cur).log = execution.log  BY <1>0, AckOK
      <3>. QED  BY <2>1, <2>2, <3>2, <3>3 DEF Neither
    <2>5. CASE \/ W!ReadWork \/ W!TakeWork \/ W!ClassifyFailed \/ W!ActOnIntent
               \/ W!AckWork \/ W!ReportError \/ W!AckError \/ W!CrashWorker
      <3>1. \/ execution' = execution
            \/ execution' = XReadGroup(execution, BatchSize)
            \/ execution' = XAck(execution, workerLoop.cur)
        BY <2>5, TheirStreams DEF W!ReadWork, W!TakeWork, W!ClassifyFailed, W!ActOnIntent,
           W!AckWork, W!ReportError, W!AckError, W!CrashWorker
      <3>2. XAck(execution, workerLoop.cur).log = execution.log  BY <1>0, AckOK
      <3>3. XReadGroup(execution, BatchSize).log = execution.log  BY <1>0, ReadOK
      <3>. QED  BY <2>1, <3>1, <3>2, <3>3 DEF Neither
    <2>. QED  BY <1>7, <2>3, <2>4, <2>5 DEF WorkOn, W!Next, W!HandleWork
  <1>8. CASE Execute(ExecutorStep)
    <2>1. UNCHANGED <<decisions, resume, answer, commandLoop>>
      BY <1>8 DEF Execute, operator, coordinatorOnly
    <2>2. \/ execution' = execution
          \/ execution' = XReadGroup(execution, BatchSize)
          \/ \E i \in hand : execution' = XAck(execution, i)
      BY <1>8, TheirStreams DEF Execute, ExecutorStep, X!Deliver, X!Handle, X!Settle, X!Die
    <2>3. XReadGroup(execution, BatchSize).log = execution.log  BY <1>0, ReadOK
    <2>4. \A i : XAck(execution, i).log = execution.log  BY <1>0, AckOK
    <2>. QED  BY <2>1, <2>2, <2>3, <2>4 DEF Neither
  <1>. QED  BY <1>1, <1>2, <1>3, <1>4, <1>5, <1>6, <1>7, <1>8, NextSteps

-----------------------------------------------------------------------------
(* Counting entries.                                                       *)

LEMMA EntriesFinite ==
    ASSUME TypeInv, NEW m, NEW f
    PROVE  /\ IsFiniteSet(EntriesOf(m, f)) /\ Cardinality(EntriesOf(m, f)) \in Nat
           /\ EntriesOf(m, f) \subseteq Positions(execution)
  <1>1. Len(execution.log) \in Nat  BY DEF TypeInv, StreamsInv, StreamOK, StreamType
  <1>2. IsFiniteSet(1..Len(execution.log))  BY <1>1, FS_Interval
  <1>3. EntriesOf(m, f) \subseteq 1..Len(execution.log)  BY DEF EntriesOf, Positions
  <1>4. IsFiniteSet(EntriesOf(m, f))  BY <1>2, <1>3, FS_Subset
  <1>. QED  BY <1>3, <1>4, FS_CardinalityType DEF Positions

LEMMA EntriesSame ==
    ASSUME execution'.log = execution.log, NEW m, NEW f
    PROVE  EntriesOf(m, f)' = EntriesOf(m, f)
  BY DEF EntriesOf, Positions

LEMMA EntriesMore ==
    ASSUME TypeInv, NEW e \in Entries, execution' = XAdd(execution, e), NEW m, NEW f
    PROVE  IF e.mission = m /\ e.skip = f
           THEN Cardinality(EntriesOf(m, f)') = Cardinality(EntriesOf(m, f)) + 1
           ELSE EntriesOf(m, f)' = EntriesOf(m, f)
  <1> DEFINE n == Len(execution.log) + 1
  <1>1. /\ Positions(execution') = Positions(execution) \cup {n} /\ n \notin Positions(execution)
        /\ \A i \in Positions(execution) : execution'.log[i] = execution.log[i]
        /\ execution'.log[n] = e
    BY Longer DEF TypeInv, StreamsInv
  <1>2. EntriesOf(m, f)' = {i \in Positions(execution') :
            execution'.log[i].mission = m /\ execution'.log[i].skip = f}
    BY DEF EntriesOf
  <1>3. EntriesOf(m, f) = {i \in Positions(execution) :
            execution.log[i].mission = m /\ execution.log[i].skip = f}
    BY DEF EntriesOf
  <1>. HIDE DEF n
  <1>4. CASE e.mission = m /\ e.skip = f
    <2>1. EntriesOf(m, f)' = EntriesOf(m, f) \cup {n} /\ n \notin EntriesOf(m, f)
      BY <1>1, <1>2, <1>3, <1>4
    <2>2. IsFiniteSet(EntriesOf(m, f))  BY EntriesFinite
    <2>3. Cardinality(EntriesOf(m, f) \cup {n}) = Cardinality(EntriesOf(m, f)) + 1
      BY <2>1, <2>2, FS_AddElement
    <2>. QED  BY <1>4, <2>1, <2>3
  <1>5. CASE ~(e.mission = m /\ e.skip = f)
    <2>1. EntriesOf(m, f)' = EntriesOf(m, f)
      BY <1>1, <1>2, <1>3, <1>5
    <2>. QED  BY <1>5, <2>1
  <1>. QED  BY <1>4, <1>5

\* The counts before and after a step.
SameGrants == \A m \in Missions : GrantCount(m)' = GrantCount(m)
SameEntries == \A m \in Missions : EntryCount(m)' = EntryCount(m)
SameRouted == \A m \in Missions : RoutedCount(m)' = RoutedCount(m)
OneMoreGrant(m) ==
    \A n \in Missions : GrantCount(n)' = GrantCount(n) + (IF n = m THEN 1 ELSE 0)
OneMoreEntry(m) ==
    \A n \in Missions : EntryCount(n)' = EntryCount(n) + (IF n = m THEN 1 ELSE 0)
OneMoreRouted(m) ==
    \A n \in Missions : RoutedCount(n)' = RoutedCount(n) + (IF n = m THEN 1 ELSE 0)

LEMMA CountsAre ==
    ASSUME TypeInv, NEW m \in Missions
    PROVE  /\ EntryCount(m) \in Nat /\ RoutedCount(m) \in Nat /\ resume[m] \in Nat
           /\ GrantCount(m) \in Nat /\ GrantCount(m) <= MaxDecisions + 1
           /\ Owed(m) \in {0, 1}
  <1>1. EntryCount(m) \in Nat /\ RoutedCount(m) \in Nat
    BY EntriesFinite DEF EntryCount, RoutedCount
  <1>2. /\ resume[m] \in Nat /\ decisions[m].approved \in Nat /\ decisions[m].denied \in Nat
        /\ deciding[m] \in Nat
        /\ deciding[m] + decisions[m].approved + decisions[m].denied <= MaxDecisions
    BY DEF TypeInv, DecidingInv
  <1>3. GrantCount(m) \in Nat /\ GrantCount(m) <= MaxDecisions + 1
    BY <1>2, MissionLoopAssumption DEF GrantCount
  <1>. QED  BY <1>1, <1>2, <1>3 DEF Owed

LEMMA LogSame ==
    ASSUME execution'.log = execution.log
    PROVE  SameEntries /\ SameRouted
  BY EntriesSame DEF SameEntries, SameRouted, EntryCount, RoutedCount

LEMMA LogMore ==
    ASSUME TypeInv, NEW e \in Entries, execution' = XAdd(execution, e)
    PROVE  /\ IF e.skip THEN SameEntries ELSE OneMoreEntry(e.mission)
           /\ IF e.skip THEN OneMoreRouted(e.mission) ELSE SameRouted
  <1>1. e.skip \in BOOLEAN  BY DEF Entries
  <1>2. \A n \in Missions : EntryCount(n) \in Nat /\ RoutedCount(n) \in Nat  BY CountsAre
  <1>3. ASSUME NEW n \in Missions
        PROVE  /\ EntryCount(n)' = EntryCount(n) + (IF e.mission = n /\ ~e.skip THEN 1 ELSE 0)
               /\ RoutedCount(n)' = RoutedCount(n) + (IF e.mission = n /\ e.skip THEN 1 ELSE 0)
    <2>1. EntryCount(n)' = EntryCount(n) + (IF e.mission = n /\ ~e.skip THEN 1 ELSE 0)
      <3>1. CASE e.mission = n /\ e.skip = FALSE
        BY <3>1, EntriesMore DEF EntryCount
      <3>2. CASE ~(e.mission = n /\ e.skip = FALSE)
        <4>1. EntriesOf(n, FALSE)' = EntriesOf(n, FALSE)  BY <3>2, EntriesMore
        <4>2. EntryCount(n)' = EntryCount(n)  BY <4>1 DEF EntryCount
        <4>3. ~(e.mission = n /\ ~e.skip)  BY <1>1, <3>2
        <4>. QED  BY <1>2, <4>2, <4>3
      <3>. QED  BY <3>1, <3>2
    <2>2. RoutedCount(n)' = RoutedCount(n) + (IF e.mission = n /\ e.skip THEN 1 ELSE 0)
      <3>1. CASE e.mission = n /\ e.skip = TRUE
        BY <3>1, EntriesMore DEF RoutedCount
      <3>2. CASE ~(e.mission = n /\ e.skip = TRUE)
        <4>1. EntriesOf(n, TRUE)' = EntriesOf(n, TRUE)  BY <3>2, EntriesMore
        <4>2. RoutedCount(n)' = RoutedCount(n)  BY <4>1 DEF RoutedCount
        <4>3. ~(e.mission = n /\ e.skip)  BY <1>1, <3>2
        <4>. QED  BY <1>2, <4>2, <4>3
      <3>. QED  BY <3>1, <3>2
    <2>. QED  BY <2>1, <2>2
  <1>4. CASE e.skip
    <2>1. SameEntries  BY <1>2, <1>3, <1>4 DEF SameEntries
    <2>2. OneMoreRouted(e.mission)  BY <1>3, <1>4 DEF OneMoreRouted
    <2>. QED  BY <1>4, <2>1, <2>2
  <1>5. CASE ~e.skip
    <2>1. SameRouted  BY <1>2, <1>3, <1>5 DEF SameRouted
    <2>2. OneMoreEntry(e.mission)  BY <1>3, <1>5 DEF OneMoreEntry
    <2>. QED  BY <1>5, <2>1, <2>2
  <1>. QED  BY <1>4, <1>5

\* The command in the handler stays the same command.
LEMMA CommandStays ==
    ASSUME TypeInv, [Next]_vars, commandLoop.pc # "idle", commandLoop'.cur = commandLoop.cur
    PROVE  C!Command' = C!Command
  <1>1. commandLoop.cur \in Positions(commands)
    BY InHandler DEF TypeInv, StreamsInv, LoopsInv
  <1>2. commands'.log[commandLoop.cur] = commands.log[commandLoop.cur]
    BY <1>1, LoopsKeep DEF Grown, Extends
  <1>. QED  BY <1>2 DEF C!Command

\* What a step may do to the counts.
Counting ==
    \/ SameGrants /\ SameEntries /\ SameRouted
    \/ SameEntries /\ SameRouted /\ \E m \in Missions : OneMoreGrant(m)
    \/ SameGrants /\ SameRouted
       /\ \E m \in Missions : OneMoreEntry(m) /\ EntryCount(m) < GrantCount(m)
    \/ SameGrants /\ SameEntries /\ Routes /\ OneMoreRouted(W!Work.mission)

LEMMA CountKeeps ==
    ASSUME TypeInv, UnaskedInv, CountInv, [Next]_vars
    PROVE  CountInv' /\ Counting
  <1>1. /\ \A m \in Missions :
             /\ EntryCount(m) \in Nat /\ RoutedCount(m) \in Nat /\ resume[m] \in Nat
             /\ GrantCount(m) \in Nat /\ Owed(m) \in {0, 1}
             /\ EntryCount(m) + resume[m] + Owed(m) <= GrantCount(m)
        /\ \A m \in Missions : Owed(m)' \in {0, 1}
    <2>1. \A m \in Missions : Owed(m)' \in {0, 1}  BY DEF Owed
    <2>. QED  BY <2>1, CountsAre DEF CountInv
  <1>2. /\ resume \in [Missions -> Nat]
        /\ decisions \in [Missions -> [approved : Nat, denied : Nat]]
        /\ answer \in [Missions -> C!Answers \cup {"none"}]
    BY DEF TypeInv, DecidingInv, RowsInv
  <1>3. CASE Answered
    <2>1. PICK a \in C!Answers :
             C!AskGuard(a) /\ UNCHANGED <<execution, decisions, resume, workerLoop>>
      BY <1>3 DEF Answered
    <2>2. /\ commandLoop.pc = "guard" /\ commands' = commands
          /\ answer' = [answer EXCEPT ![C!Command] = a]
          /\ commandLoop' = Goto(commandLoop, C!Decision(a))
      BY <2>1, TheirLoops DEF C!AskGuard
    <2>3. commandLoop'.pc = C!Decision(a) /\ commandLoop'.cur = commandLoop.cur
      BY <2>2 DEF Goto, TypeInv, LoopsInv, LoopOK, LoopType
    <2>4. C!Command \in Missions /\ C!Command' = C!Command
      BY <2>2, <2>3 DEF C!Command, TypeInv, LoopsInv
    <2>5. answer[C!Command] = "none"
      <3>1. commandLoop.cur \in Unasked
        BY <2>2, InHandler DEF Unasked, TypeInv, StreamsInv, LoopsInv
      <3>. QED  BY <2>4, <3>1 DEF UnaskedInv, C!Command
    <2>6. SameEntries /\ SameRouted  BY <2>1, LogSame
    <2>7. \A m \in Missions : Owed(m) = 0  BY <2>2 DEF Owed
    <2>8. C!Decision(a) \in {"allow", "requires_approval", "deny"}
          /\ (C!Decision(a) = "allow" <=> a = "allow")
      BY DEF C!Decision, C!Answers
    <2>9. CASE a = "allow"
      <3>1. \A m \in Missions : Owed(m)' = IF m = C!Command THEN 1 ELSE 0
        BY <2>3, <2>4, <2>8, <2>9 DEF Owed
      <3>2. OneMoreGrant(C!Command)
        <4>. SUFFICES ASSUME NEW n \in Missions
                      PROVE  GrantCount(n)' = GrantCount(n) + (IF n = C!Command THEN 1 ELSE 0)
          BY DEF OneMoreGrant
        <4>1. decisions'[n].approved = decisions[n].approved /\ decisions[n].approved \in Nat
          BY <1>2, <2>1
        <4>2. answer'[n] = IF n = C!Command THEN "allow" ELSE answer[n]
          BY <1>2, <2>2, <2>4, <2>9
        <4>. QED  BY <2>5, <4>1, <4>2 DEF GrantCount
      <3>3. CountInv'
        <4>. SUFFICES ASSUME NEW m \in Missions
                      PROVE  EntryCount(m)' + resume'[m] + Owed(m)' <= GrantCount(m)'
          BY DEF CountInv
        <4>1. EntryCount(m)' = EntryCount(m) /\ resume'[m] = resume[m]
          BY <2>1, <2>6 DEF SameEntries
        <4>2. GrantCount(m)' = GrantCount(m) + (IF m = C!Command THEN 1 ELSE 0)
          BY <3>2 DEF OneMoreGrant
        <4>. QED  BY <1>1, <2>7, <3>1, <4>1, <4>2
      <3>. QED  BY <2>4, <2>6, <3>2, <3>3 DEF Counting
    <2>10. CASE a # "allow"
      <3>1. \A m \in Missions : Owed(m)' = 0  BY <2>3, <2>8, <2>10 DEF Owed
      <3>2. SameGrants
        <4>. SUFFICES ASSUME NEW n \in Missions PROVE GrantCount(n)' = GrantCount(n)
          BY DEF SameGrants
        <4>1. decisions'[n].approved = decisions[n].approved  BY <2>1
        <4>2. answer'[n] = "allow" <=> answer[n] = "allow"
          BY <1>2, <2>2, <2>4, <2>5, <2>10
        <4>. QED  BY <4>1, <4>2 DEF GrantCount
      <3>3. CountInv'
        <4>. SUFFICES ASSUME NEW m \in Missions
                      PROVE  EntryCount(m)' + resume'[m] + Owed(m)' <= GrantCount(m)'
          BY DEF CountInv
        <4>1. /\ EntryCount(m)' = EntryCount(m) /\ resume'[m] = resume[m]
              /\ GrantCount(m)' = GrantCount(m)
          BY <2>1, <2>6, <3>2 DEF SameEntries, SameGrants
        <4>. QED  BY <1>1, <2>7, <3>1, <4>1
      <3>. QED  BY <2>6, <3>2, <3>3 DEF Counting
    <2>. QED  BY <2>9, <2>10
  <1>4. CASE Approves
    <2>1. PICK m \in Missions :
             /\ decisions' = [decisions EXCEPT ![m].approved = @ + 1]
             /\ resume' = [resume EXCEPT ![m] = @ + 1]
             /\ UNCHANGED <<execution, answer, commandLoop, commands, workerLoop>>
      BY <1>4 DEF Approves
    <2>2. SameEntries /\ SameRouted  BY <2>1, LogSame
    <2>3. \A n \in Missions : Owed(n)' = Owed(n)  BY <2>1 DEF Owed, C!Command
    <2>4. OneMoreGrant(m)
      <3>. SUFFICES ASSUME NEW n \in Missions
                    PROVE  GrantCount(n)' = GrantCount(n) + (IF n = m THEN 1 ELSE 0)
        BY DEF OneMoreGrant
      <3>1. /\ decisions'[n].approved = decisions[n].approved + (IF n = m THEN 1 ELSE 0)
            /\ decisions[n].approved \in Nat
        BY <1>2, <2>1
      <3>. QED  BY <2>1, <3>1 DEF GrantCount
    <2>5. CountInv'
      <3>. SUFFICES ASSUME NEW n \in Missions
                    PROVE  EntryCount(n)' + resume'[n] + Owed(n)' <= GrantCount(n)'
        BY DEF CountInv
      <3>1. resume'[n] = resume[n] + (IF n = m THEN 1 ELSE 0)  BY <1>2, <2>1
      <3>2. GrantCount(n)' = GrantCount(n) + (IF n = m THEN 1 ELSE 0)  BY <2>4 DEF OneMoreGrant
      <3>3. EntryCount(n)' = EntryCount(n)  BY <2>2 DEF SameEntries
      <3>. QED  BY <1>1, <2>3, <3>1, <3>2, <3>3
    <2>. QED  BY <2>2, <2>4, <2>5 DEF Counting
  <1>5. CASE Resumes
    <2>1. PICK m \in Missions :
             /\ resume[m] > 0 /\ resume' = [resume EXCEPT ![m] = @ - 1]
             /\ execution' \in {execution, XAdd(execution, [mission |-> m, skip |-> FALSE])}
             /\ UNCHANGED <<answer, decisions, commandLoop, commands, workerLoop>>
      BY <1>5 DEF Resumes
    <2>2. \A n \in Missions : Owed(n)' = Owed(n)  BY <2>1 DEF Owed, C!Command
    <2>3. SameGrants  BY <2>1 DEF SameGrants, GrantCount
    <2>4. \A n \in Missions : resume'[n] = resume[n] - (IF n = m THEN 1 ELSE 0)
      BY <1>2, <2>1
    <2>5. CASE execution' = execution
      <3>1. SameEntries /\ SameRouted  BY <2>5, LogSame
      <3>2. CountInv'
        <4>. SUFFICES ASSUME NEW n \in Missions
                      PROVE  EntryCount(n)' + resume'[n] + Owed(n)' <= GrantCount(n)'
          BY DEF CountInv
        <4>1. EntryCount(n)' = EntryCount(n) /\ GrantCount(n)' = GrantCount(n)
          BY <2>3, <3>1 DEF SameEntries, SameGrants
        <4>. QED  BY <1>1, <2>2, <2>4, <4>1
      <3>. QED  BY <2>3, <3>1, <3>2 DEF Counting
    <2>6. CASE execution' = XAdd(execution, [mission |-> m, skip |-> FALSE])
      <3>1. [mission |-> m, skip |-> FALSE] \in Entries  BY DEF Entries
      <3>2. OneMoreEntry(m) /\ SameRouted  BY <2>6, <3>1, LogMore
      <3>3. CountInv'
        <4>. SUFFICES ASSUME NEW n \in Missions
                      PROVE  EntryCount(n)' + resume'[n] + Owed(n)' <= GrantCount(n)'
          BY DEF CountInv
        <4>1. /\ EntryCount(n)' = EntryCount(n) + (IF n = m THEN 1 ELSE 0)
              /\ GrantCount(n)' = GrantCount(n)
          BY <2>3, <3>2 DEF OneMoreEntry, SameGrants
        <4>. QED  BY <1>1, <2>2, <2>4, <4>1
      <3>4. EntryCount(m) < GrantCount(m)  BY <1>1, <2>1
      <3>. QED  BY <2>3, <3>2, <3>3, <3>4 DEF Counting
    <2>. QED  BY <2>1, <2>5, <2>6
  <1>6. CASE Adds
    <2>1. C!Command \in Missions  BY <1>6 DEF Adds, TypeInv, LoopsInv
    <2>2. [mission |-> C!Command, skip |-> FALSE] \in Entries  BY <2>1 DEF Entries
    <2>3. OneMoreEntry(C!Command) /\ SameRouted  BY <1>6, <2>2, LogMore DEF Adds
    <2>4. SameGrants  BY <1>6 DEF Adds, SameGrants, GrantCount
    <2>5. /\ \A n \in Missions : Owed(n) = IF n = C!Command THEN 1 ELSE 0
          /\ \A n \in Missions : Owed(n)' = 0
      BY <1>6 DEF Adds, Owed
    <2>6. CountInv'
      <3>. SUFFICES ASSUME NEW n \in Missions
                    PROVE  EntryCount(n)' + resume'[n] + Owed(n)' <= GrantCount(n)'
        BY DEF CountInv
      <3>1. /\ EntryCount(n)' = EntryCount(n) + (IF n = C!Command THEN 1 ELSE 0)
            /\ GrantCount(n)' = GrantCount(n) /\ resume'[n] = resume[n]
        BY <1>6, <2>3, <2>4 DEF OneMoreEntry, SameGrants, Adds
      <3>. QED  BY <1>1, <2>5, <3>1
    <2>7. EntryCount(C!Command) < GrantCount(C!Command)  BY <1>1, <2>1, <2>5
    <2>. QED  BY <2>1, <2>3, <2>4, <2>6, <2>7 DEF Counting
  <1>7. CASE Routes
    <2>1. W!Work.mission \in Missions  BY <1>7 DEF Routes, TypeInv, LoopsInv
    <2>2. [mission |-> W!Work.mission, skip |-> TRUE] \in Entries  BY <2>1 DEF Entries
    <2>3. SameEntries /\ OneMoreRouted(W!Work.mission)  BY <1>7, <2>2, LogMore DEF Routes
    <2>4. SameGrants  BY <1>7 DEF Routes, SameGrants, GrantCount
    <2>5. \A n \in Missions : Owed(n)' = Owed(n)  BY <1>7 DEF Routes, Owed, C!Command
    <2>6. CountInv'
      <3>. SUFFICES ASSUME NEW n \in Missions
                    PROVE  EntryCount(n)' + resume'[n] + Owed(n)' <= GrantCount(n)'
        BY DEF CountInv
      <3>1. /\ EntryCount(n)' = EntryCount(n) /\ GrantCount(n)' = GrantCount(n)
            /\ resume'[n] = resume[n]
        BY <1>7, <2>3, <2>4 DEF SameEntries, SameGrants, Routes
      <3>. QED  BY <1>1, <2>5, <3>1
    <2>. QED  BY <1>7, <2>3, <2>4, <2>6 DEF Counting
  <1>8. CASE Neither
    <2>1. SameGrants  BY <1>8 DEF Neither, SameGrants, GrantCount
    <2>2. SameEntries /\ SameRouted
      <3>1. CASE execution'.log = execution.log  BY <3>1, LogSame
      <3>2. CASE execution' = XAdd(execution, [mission |-> Poison, skip |-> FALSE])
        <4>1. [mission |-> Poison, skip |-> FALSE] \in Entries  BY DEF Entries
        <4>2. OneMoreEntry(Poison) /\ SameRouted  BY <3>2, <4>1, LogMore
        <4>. QED  BY <1>1, <4>2, MissionLoopAssumption DEF OneMoreEntry, SameEntries
      <3>. QED  BY <1>8, <3>1, <3>2 DEF Neither
    <2>3. \A n \in Missions : Owed(n)' <= Owed(n)
      <3>1. CASE commandLoop'.pc \in {"allow", "add"}
        <4>1. commandLoop.pc \in {"allow", "add"} /\ commandLoop'.cur = commandLoop.cur
          BY <1>8, <3>1 DEF Neither
        <4>2. C!Command' = C!Command  BY <4>1, CommandStays
        <4>. QED  BY <3>1, <4>1, <4>2 DEF Owed
      <3>2. CASE commandLoop'.pc \notin {"allow", "add"}
        <4>1. \A n \in Missions : Owed(n)' = 0  BY <3>2 DEF Owed
        <4>. QED  BY <1>1, <4>1
      <3>. QED  BY <3>1, <3>2
    <2>4. CountInv'
      <3>. SUFFICES ASSUME NEW n \in Missions
                    PROVE  EntryCount(n)' + resume'[n] + Owed(n)' <= GrantCount(n)'
        BY DEF CountInv
      <3>1. /\ EntryCount(n)' = EntryCount(n) /\ GrantCount(n)' = GrantCount(n)
            /\ resume'[n] = resume[n]
        BY <1>8, <2>1, <2>2 DEF SameEntries, SameGrants, Neither
      <3>. QED  BY <1>1, <2>3, <3>1
    <2>. QED  BY <2>1, <2>2, <2>4 DEF Counting
  <1>. QED  BY <1>3, <1>4, <1>5, <1>6, <1>7, <1>8, GateMoves

-----------------------------------------------------------------------------
(* No more re-routed entries than entries.                                 *)

\* Entries that are behind the point where the worker routes one.
Past(m) ==
    {i \in EntriesOf(m, FALSE) :
        /\ i <= execution.read /\ i \notin Waiting(workerLoop)
        /\ ~(i = workerLoop.cur /\ workerLoop.pc = "classify")}

RouteInv == \A m \in Missions : RoutedCount(m) <= Cardinality(Past(m))

LEMMA AtClassify ==
    ASSUME TypeInv, [Next]_vars, workerLoop'.pc = "classify"
    PROVE  workerLoop' = workerLoop \/ W!TakeWork
  <1>1. CASE W!Next
    <2>1. CASE W!TakeWork  BY <2>1
    <2>2. CASE W!ReadWork
      <3>1. workerLoop' = Handed(workerLoop, execution, BatchSize) /\ Idle(workerLoop)
        BY <2>2, TheirLoops DEF W!ReadWork, CanRead
      <3>2. workerLoop'.pc = "idle"
        BY <3>1, LoopReads, MissionLoopAssumption DEF TypeInv, StreamsInv, LoopsInv
      <3>. QED  BY <3>2
    <2>3. CASE W!ClassifyFailed \/ W!ActOnIntent \/ W!RouteToExecutor \/ W!ReportError \/ W!RaiseWork
      <3>1. \E label \in {"ack", "ackError", "report"} : workerLoop' = Goto(workerLoop, label)
        BY <2>3, TheirLoops DEF W!ClassifyFailed, W!ActOnIntent, W!RouteToExecutor,
           W!ReportError, W!RaiseWork
      <3>. QED  BY <3>1 DEF Goto, TypeInv, LoopsInv, LoopOK, LoopType
    <2>4. CASE W!AckWork \/ W!AckError
      <3>1. workerLoop' = Finished(workerLoop)
        BY <2>4, TheirLoops DEF W!AckWork, W!AckError
      <3>. QED  BY <3>1 DEF Finished, TypeInv, LoopsInv, LoopOK, LoopType
    <2>5. CASE W!CrashWorker  BY <2>5, TheirLoops DEF W!CrashWorker, IdleLoop
    <2>. QED  BY <1>1, <2>1, <2>2, <2>3, <2>4, <2>5 DEF W!Next, W!HandleWork
  <1>2. [Next]_vars => workerLoop' = workerLoop \/ W!Next
    BY NextSteps DEF Coordinate, WorkOn, Execute, vars, workerOnly, OperatorStep, AddStray,
       CreateMission, PublishCommand, DispatchFailed, ReadPending, Approve, Deny,
       PublishResume, IntakeUnchanged, OperatorUnchanged
  <1>. QED  BY <1>1, <1>2

LEMMA PastFinite ==
    TypeInv => \A m \in Missions :
        /\ IsFiniteSet(Past(m)) /\ Cardinality(Past(m)) \in Nat
        /\ Cardinality(Past(m)) <= EntryCount(m)
  <1>. SUFFICES ASSUME TypeInv, NEW m \in Missions
                PROVE  /\ IsFiniteSet(Past(m)) /\ Cardinality(Past(m)) \in Nat
                       /\ Cardinality(Past(m)) <= EntryCount(m)
    OBVIOUS
  <1>1. Past(m) \subseteq EntriesOf(m, FALSE)  BY DEF Past
  <1>2. IsFiniteSet(EntriesOf(m, FALSE))  BY EntriesFinite
  <1>3. IsFiniteSet(Past(m)) /\ Cardinality(Past(m)) <= Cardinality(EntriesOf(m, FALSE))
    BY <1>1, <1>2, FS_Subset
  <1>. QED  BY <1>3, FS_CardinalityType DEF EntryCount

LEMMA TypeKeeps == TypeInv /\ [Next]_vars => TypeInv'
  BY LoopsKeep, RowsKeep, DecidingKeeps, HandKeeps DEF TypeInv

\* The two lemmas on counts, before and after a step.
CountsInRange ==
    \A m \in Missions :
        /\ IsFiniteSet(Past(m)) /\ Cardinality(Past(m)) \in Nat
        /\ Cardinality(Past(m)) <= EntryCount(m)
        /\ EntryCount(m) \in Nat /\ RoutedCount(m) \in Nat
        /\ GrantCount(m) \in Nat /\ GrantCount(m) <= MaxDecisions + 1

LEMMA CountsAfter == TypeInv' => CountsInRange'
  <1>1. TypeInv => CountsInRange  BY PastFinite, CountsAre DEF CountsInRange
  <1>. QED  BY <1>1, PTL

LEMMA PastGrows == ASSUME TypeInv, [Next]_vars, NEW m PROVE Past(m) \subseteq Past(m)'
  <1>. SUFFICES ASSUME NEW i \in Past(m) PROVE i \in Past(m)'  OBVIOUS
  <1>. USE DEF TypeInv, StreamsInv, LoopsInv
  <1>1. /\ i \in Positions(execution) /\ execution.log[i].mission = m
        /\ execution.log[i].skip = FALSE
        /\ i <= execution.read /\ i \notin Waiting(workerLoop)
        /\ ~(i = workerLoop.cur /\ workerLoop.pc = "classify")
    BY DEF Past, EntriesOf
  <1>2. /\ WorkStep /\ "idle" \notin W!WorkLabels
        /\ execution.read \in Nat /\ execution'.read \in Nat
        /\ execution.read <= execution'.read /\ i \in Nat
    BY <1>1, LoopsMove, LoopsKeep
    DEF LoopsStep, W!WorkLabels, Grown, Extends, StreamOK, StreamType, Positions
  <1>3. i \in EntriesOf(m, FALSE)'
    BY <1>1, EntryStays DEF EntriesOf
  <1>4. i <= execution'.read  BY <1>1, <1>2
  <1>5. i \notin Waiting(workerLoop')
    BY <1>1, <1>2, WaitingShrinks DEF WorkStep
  <1>6. ~(i = workerLoop'.cur /\ workerLoop'.pc = "classify")
    <2>. SUFFICES ASSUME i = workerLoop'.cur, workerLoop'.pc = "classify" PROVE FALSE
      OBVIOUS
    <2>1. CASE workerLoop' = workerLoop  BY <1>1, <2>1
    <2>2. CASE W!TakeWork
      <3>1. CanTake(workerLoop) /\ \E label : workerLoop' = Taken(workerLoop, label)
        BY <2>2, TheirLoops DEF W!TakeWork
      <3>2. i = Head(workerLoop.batch)  BY <3>1 DEF Taken
      <3>3. workerLoop.batch \in Seq(Nat) /\ workerLoop.batch # <<>>
        BY <3>1 DEF CanTake, LoopOK, LoopType
      <3>4. 1 \in DOMAIN workerLoop.batch /\ Head(workerLoop.batch) = workerLoop.batch[1]
        BY <3>3
      <3>. QED  BY <1>1, <3>2, <3>4 DEF Waiting
    <2>. QED  BY <2>1, <2>2, AtClassify
  <1>. QED  BY <1>3, <1>4, <1>5, <1>6 DEF Past

\* The entry that is routed was not past this point, and is now.
LEMMA RoutedIsPast ==
    ASSUME TypeInv, [Next]_vars, Routes
    PROVE  \E m \in Missions :
             m = W!Work.mission /\ Cardinality(Past(m)) + 1 <= Cardinality(Past(m)')
  <1>. USE DEF TypeInv, StreamsInv, LoopsInv
  <1>1. PICK label \in {"ack", "report"} : workerLoop' = Goto(workerLoop, label)
    BY DEF Routes
  <1>2. PICK m \in Missions : m = W!Work.mission  BY DEF Routes
  <1>3. PICK i : i = workerLoop.cur  OBVIOUS
  <1>4. /\ workerLoop.pc = "classify" /\ ~W!Work.skip
        /\ i \in 1..execution.read /\ i \in Positions(execution)
        /\ execution.log[i] \in Entries /\ W!Work = execution.log[i]
    BY <1>3, InHandler DEF Routes, W!Work
  <1>5. i \notin Past(m)  BY <1>3, <1>4 DEF Past
  <1>6. i \in Past(m)'
    <2>1. workerLoop'.pc # "classify" /\ Waiting(workerLoop') = Waiting(workerLoop)
      BY <1>1 DEF Goto, Waiting, LoopOK, LoopType
    <2>2. i \notin Waiting(workerLoop)  BY <1>3 DEF LoopOK, Waiting
    <2>3. execution'.read \in Nat /\ execution.read <= execution'.read /\ execution.read \in Nat
      BY LoopsKeep DEF Grown, Extends, StreamOK, StreamType
    <2>4. i <= execution'.read  BY <1>4, <2>3
    <2>5. execution.log[i].skip = FALSE /\ execution.log[i].mission = m
      BY <1>2, <1>4 DEF Entries
    <2>6. i \in EntriesOf(m, FALSE)'  BY <1>4, <2>5, EntryStays DEF EntriesOf
    <2>. QED  BY <2>1, <2>2, <2>4, <2>6 DEF Past
  <1>7. Past(m) \cup {i} \subseteq Past(m)'  BY <1>6, PastGrows
  <1>8. IsFiniteSet(Past(m)) /\ Cardinality(Past(m)) \in Nat  BY PastFinite
  <1>9. IsFiniteSet(Past(m)')
    <2>1. TypeInv'  BY TypeKeeps
    <2>. QED  BY <2>1, CountsAfter DEF CountsInRange
  <1>10. Cardinality(Past(m) \cup {i}) = Cardinality(Past(m)) + 1
    BY <1>5, <1>8, FS_AddElement
  <1>11. Cardinality(Past(m) \cup {i}) <= Cardinality(Past(m)')
    <2>1. PICK S : S = Past(m)'  OBVIOUS
    <2>2. PICK T : T = Past(m) \cup {i}  OBVIOUS
    <2>3. IsFiniteSet(S) /\ T \subseteq S  BY <1>7, <1>9, <2>1, <2>2
    <2>4. Cardinality(T) <= Cardinality(S)  BY <2>3, FS_Subset
    <2>. QED  BY <2>1, <2>2, <2>4
  <1>12. Cardinality(Past(m)) + 1 <= Cardinality(Past(m)')  BY <1>10, <1>11
  <1>. QED  BY <1>2, <1>12

LEMMA RouteKeeps ==
    ASSUME TypeInv, [Next]_vars, RouteInv, Counting
    PROVE  /\ RouteInv'
           /\ Routes => RoutedCount(W!Work.mission) < EntryCount(W!Work.mission)
  <1>1. TypeInv'  BY TypeKeeps
  <1>2. \A m \in Missions :
          /\ IsFiniteSet(Past(m)') /\ Cardinality(Past(m)') \in Nat
          /\ Cardinality(Past(m)) \in Nat
          /\ Cardinality(Past(m)') <= EntryCount(m)'
          /\ RoutedCount(m) \in Nat /\ EntryCount(m) \in Nat /\ EntryCount(m)' \in Nat
    BY <1>1, CountsAfter, PastFinite, CountsAre DEF CountsInRange
  <1>3. ASSUME NEW m \in Missions PROVE Cardinality(Past(m)) <= Cardinality(Past(m)')
    <2>1. PICK S : S = Past(m)'  OBVIOUS
    <2>2. IsFiniteSet(S) /\ Past(m) \subseteq S  BY <1>2, <2>1, PastGrows
    <2>3. Cardinality(Past(m)) <= Cardinality(S)  BY <2>2, FS_Subset
    <2>. QED  BY <2>1, <2>3
  <1>4. \A m \in Missions : RoutedCount(m) <= Cardinality(Past(m))  BY DEF RouteInv
  <1>5. CASE SameRouted /\ ~Routes
    <2>1. \A m \in Missions : RoutedCount(m)' = RoutedCount(m)  BY <1>5 DEF SameRouted
    <2>2. \A m \in Missions : RoutedCount(m)' <= Cardinality(Past(m)')
      BY <1>2, <1>3, <1>4, <2>1
    <2>. QED  BY <1>5, <2>2 DEF RouteInv
  <1>6. CASE SameEntries /\ Routes /\ OneMoreRouted(W!Work.mission)
    <2>1. PICK m \in Missions :
             m = W!Work.mission /\ Cardinality(Past(m)) + 1 <= Cardinality(Past(m)')
      BY <1>6, RoutedIsPast
    <2>2. \A n \in Missions : RoutedCount(n)' = RoutedCount(n) + (IF n = m THEN 1 ELSE 0)
      BY <1>6, <2>1 DEF OneMoreRouted
    <2>3. \A n \in Missions : RoutedCount(n)' <= Cardinality(Past(n)')
      <3>. SUFFICES ASSUME NEW n \in Missions PROVE RoutedCount(n)' <= Cardinality(Past(n)')
        OBVIOUS
      <3>1. CASE n = m  BY <1>2, <1>4, <2>1, <2>2, <3>1
      <3>2. CASE n # m  BY <1>2, <1>3, <1>4, <2>2, <3>2
      <3>. QED  BY <3>1, <3>2
    <2>4. EntryCount(m)' = EntryCount(m)  BY <1>6 DEF SameEntries
    <2>5. RoutedCount(m) < EntryCount(m)  BY <1>2, <1>4, <2>1, <2>4
    <2>. QED  BY <2>1, <2>3, <2>5 DEF RouteInv
  <1>7. CASE SameRouted /\ Routes
    <2>1. PICK m \in Missions : m = W!Work.mission  BY <1>7 DEF Routes, TypeInv, LoopsInv
    <2>2. [mission |-> m, skip |-> TRUE] \in Entries  BY DEF Entries
    <2>3. OneMoreRouted(m)  BY <1>7, <2>1, <2>2, LogMore DEF Routes
    <2>4. RoutedCount(m)' = RoutedCount(m) + 1  BY <2>3 DEF OneMoreRouted
    <2>5. RoutedCount(m)' = RoutedCount(m)  BY <1>7 DEF SameRouted
    <2>. QED  BY <1>2, <2>4, <2>5
  <1>. QED  BY <1>5, <1>6, <1>7 DEF Counting

CountedInv == TypeInv /\ PublishInv /\ UnaskedInv /\ CountInv /\ RouteInv

LEMMA NothingCounted ==
    ASSUME Init, NEW m \in Missions
    PROVE  /\ GrantCount(m) = 0 /\ EntryCount(m) = 0 /\ RoutedCount(m) = 0
           /\ resume[m] = 0 /\ Owed(m) = 0 /\ Cardinality(Past(m)) = 0
  <1>1. Positions(execution) = {}  BY DEF Init, EmptyStream, Positions
  <1>2. EntriesOf(m, TRUE) = {} /\ EntriesOf(m, FALSE) = {}  BY <1>1 DEF EntriesOf
  <1>3. Past(m) = {}  BY <1>2 DEF Past
  <1>4. Cardinality({}) = 0  BY FS_EmptySet
  <1>5. GrantCount(m) = 0 /\ resume[m] = 0  BY DEF Init, GrantCount
  <1>6. Owed(m) = 0  BY DEF Init, Owed, IdleLoop
  <1>. QED  BY <1>2, <1>3, <1>4, <1>5, <1>6 DEF EntryCount, RoutedCount

LEMMA Counted == Spec => []CountedInv
  <1>1. Init => CountInv /\ RouteInv
    <2>. SUFFICES ASSUME Init PROVE CountInv /\ RouteInv  OBVIOUS
    <2>1. \A m \in Missions :
            /\ GrantCount(m) = 0 /\ EntryCount(m) = 0 /\ RoutedCount(m) = 0
            /\ resume[m] = 0 /\ Owed(m) = 0 /\ Cardinality(Past(m)) = 0
      BY NothingCounted
    <2>. QED  BY <2>1 DEF CountInv, RouteInv
  <1>2. TypeInv /\ UnaskedInv /\ CountInv /\ RouteInv /\ [Next]_vars => CountInv' /\ RouteInv'
    BY CountKeeps, RouteKeeps
  <1>. QED  BY <1>1, <1>2, TypeHolds, AskedOnce, PTL DEF Spec, CountedInv

-----------------------------------------------------------------------------
(* The steps of the two gates.                                             *)

AllGrants == Missions \X (1..MaxDecisions + 1)

LEMMA NumberedSame ==
    /\ SameGrants => Numbered(GrantCount)' = Numbered(GrantCount)
    /\ SameEntries => Numbered(EntryCount)' = Numbered(EntryCount)
    /\ SameRouted => Numbered(RoutedCount)' = Numbered(RoutedCount)
  <1>1. ASSUME NEW g \in AllGrants PROVE g[1] \in Missions  BY DEF AllGrants
  <1>2. SameGrants => Numbered(GrantCount)' = Numbered(GrantCount)
    <2>1. SameGrants => \A g \in AllGrants : GrantCount(g[1])' = GrantCount(g[1])
      BY <1>1 DEF SameGrants
    <2>. QED  BY <2>1 DEF Numbered, AllGrants
  <1>3. SameEntries => Numbered(EntryCount)' = Numbered(EntryCount)
    <2>1. SameEntries => \A g \in AllGrants : EntryCount(g[1])' = EntryCount(g[1])
      BY <1>1 DEF SameEntries
    <2>. QED  BY <2>1 DEF Numbered, AllGrants
  <1>4. SameRouted => Numbered(RoutedCount)' = Numbered(RoutedCount)
    <2>1. SameRouted => \A g \in AllGrants : RoutedCount(g[1])' = RoutedCount(g[1])
      BY <1>1 DEF SameRouted
    <2>. QED  BY <2>1 DEF Numbered, AllGrants
  <1>. QED  BY <1>2, <1>3, <1>4

\* The sets of grants up to two counts, the second one more for one mission.
LEMMA OneMore ==
    ASSUME NEW f, NEW h, NEW m \in Missions, NEW S, NEW T,
           \A n \in Missions : f[n] \in Nat /\ h[n] = f[n] + (IF n = m THEN 1 ELSE 0),
           S = {g \in AllGrants : g[2] <= f[g[1]]},
           T = {g \in AllGrants : g[2] <= h[g[1]]},
           h[m] <= MaxDecisions + 1
    PROVE  LET g == <<m, f[m] + 1>> IN g \in AllGrants /\ g \notin S /\ T = S \cup {g}
  <1>. DEFINE new == <<m, f[m] + 1>>
  <1>1. new \in AllGrants /\ new[1] = m /\ new[2] = f[m] + 1
    BY MissionLoopAssumption DEF AllGrants
  <1>2. new \notin S  BY <1>1
  <1>3. ASSUME NEW g \in AllGrants PROVE g \in T <=> g \in S \/ g = new
    <2>1. PICK n \in Missions, k \in 1..MaxDecisions + 1 : g = <<n, k>>  BY DEF AllGrants
    <2>2. g[1] = n /\ g[2] = k /\ k \in Nat
      BY <2>1, MissionLoopAssumption
    <2>3. g = new <=> n = m /\ k = f[m] + 1  BY <2>1
    <2>4. f[n] \in Nat /\ h[n] = f[n] + (IF n = m THEN 1 ELSE 0)  OBVIOUS
    <2>5. (g \in T <=> k <= h[n]) /\ (g \in S <=> k <= f[n])  BY <2>2
    <2>. HIDE DEF new
    <2>. QED  BY <2>2, <2>3, <2>4, <2>5
  <1>4. T \subseteq AllGrants /\ S \cup {new} \subseteq AllGrants  BY <1>1
  <1>5. T = S \cup {new}  BY <1>3, <1>4
  <1>. QED  BY <1>1, <1>2, <1>5

LEMMA GateStarts == Init => Gate!GateInit /\ Rerouting!GateInit
  <1>. SUFFICES ASSUME Init PROVE Gate!GateInit /\ Rerouting!GateInit  OBVIOUS
  <1>1. \A m \in Missions : GrantCount(m) = 0 /\ EntryCount(m) = 0 /\ RoutedCount(m) = 0
    BY NothingCounted
  <1>2. \A g \in AllGrants : g[1] \in Missions /\ ~(g[2] <= 0)
    BY MissionLoopAssumption DEF AllGrants
  <1>3. Numbered(GrantCount) = {}  BY <1>1, <1>2 DEF Numbered, AllGrants
  <1>4. Numbered(EntryCount) = {}  BY <1>1, <1>2 DEF Numbered, AllGrants
  <1>5. Numbered(RoutedCount) = {}  BY <1>1, <1>2 DEF Numbered, AllGrants
  <1>. QED  BY <1>3, <1>4, <1>5 DEF Gate!GateInit, Rerouting!GateInit

\* One more grant is recorded, one more entry is added under a grant, or one
\* more entry is re-routed.
LEMMA Granting ==
    ASSUME CountsInRange, CountsInRange', NEW m \in Missions, OneMoreGrant(m)
    PROVE  \E g \in AllGrants :
             /\ g \notin Numbered(GrantCount)
             /\ Numbered(GrantCount)' = Numbered(GrantCount) \cup {g}
  <1>1. PICK f : f = [n \in Missions |-> GrantCount(n)]  OBVIOUS
  <1>2. PICK h : h = [n \in Missions |-> GrantCount(n)']  OBVIOUS
  <1>3. \A n \in Missions : f[n] \in Nat /\ h[n] = f[n] + (IF n = m THEN 1 ELSE 0)
    BY <1>1, <1>2 DEF OneMoreGrant, CountsInRange
  <1>4. h[m] <= MaxDecisions + 1  BY <1>2 DEF CountsInRange
  <1>5. \A g \in AllGrants : g[1] \in Missions  BY DEF AllGrants
  <1>6. PICK S : S = Numbered(GrantCount)  OBVIOUS
  <1>7. PICK T : T = Numbered(GrantCount)'  OBVIOUS
  <1>8. S = {g \in AllGrants : g[2] <= f[g[1]]}
    BY <1>1, <1>5, <1>6 DEF Numbered, AllGrants
  <1>9. T = {g \in AllGrants : g[2] <= h[g[1]]}
    BY <1>2, <1>5, <1>7 DEF Numbered, AllGrants
  <1>10. PICK g : g = <<m, f[m] + 1>>  OBVIOUS
  <1>11. g \in AllGrants /\ g \notin S /\ T = S \cup {g}
    BY <1>3, <1>4, <1>8, <1>9, <1>10, OneMore
  <1>. QED  BY <1>6, <1>7, <1>11

LEMMA Adding ==
    ASSUME CountsInRange, CountsInRange', SameGrants, NEW m \in Missions, OneMoreEntry(m),
           EntryCount(m) < GrantCount(m)
    PROVE  \E g \in AllGrants :
             /\ g \in Numbered(GrantCount) \ Numbered(EntryCount)
             /\ Numbered(EntryCount)' = Numbered(EntryCount) \cup {g}
  <1>1. PICK f : f = [n \in Missions |-> EntryCount(n)]  OBVIOUS
  <1>2. PICK h : h = [n \in Missions |-> EntryCount(n)']  OBVIOUS
  <1>3. \A n \in Missions : f[n] \in Nat /\ h[n] = f[n] + (IF n = m THEN 1 ELSE 0)
    BY <1>1, <1>2 DEF OneMoreEntry, CountsInRange
  <1>4. h[m] <= MaxDecisions + 1 /\ f[m] + 1 <= GrantCount(m)
    BY <1>1, <1>3, MissionLoopAssumption DEF CountsInRange
  <1>5. \A g \in AllGrants : g[1] \in Missions  BY DEF AllGrants
  <1>6. PICK S : S = Numbered(EntryCount)  OBVIOUS
  <1>7. PICK T : T = Numbered(EntryCount)'  OBVIOUS
  <1>8. S = {g \in AllGrants : g[2] <= f[g[1]]}
    BY <1>1, <1>5, <1>6 DEF Numbered, AllGrants
  <1>9. T = {g \in AllGrants : g[2] <= h[g[1]]}
    BY <1>2, <1>5, <1>7 DEF Numbered, AllGrants
  <1>10. PICK g : g = <<m, f[m] + 1>>  OBVIOUS
  <1>11. g \in AllGrants /\ g \notin S /\ T = S \cup {g}
    BY <1>3, <1>4, <1>8, <1>9, <1>10, OneMore
  <1>12. g \in Numbered(GrantCount)  BY <1>4, <1>10, <1>11 DEF Numbered, AllGrants
  <1>. QED  BY <1>6, <1>7, <1>11, <1>12

LEMMA Rerouted ==
    ASSUME CountsInRange, CountsInRange', SameEntries, NEW m \in Missions, OneMoreRouted(m),
           RoutedCount(m) < EntryCount(m), EntryCount(m) <= GrantCount(m)
    PROVE  \E g \in AllGrants :
             /\ g \in Numbered(EntryCount) \ Numbered(RoutedCount)
             /\ Numbered(RoutedCount)' = Numbered(RoutedCount) \cup {g}
  <1>1. PICK f : f = [n \in Missions |-> RoutedCount(n)]  OBVIOUS
  <1>2. PICK h : h = [n \in Missions |-> RoutedCount(n)']  OBVIOUS
  <1>3. \A n \in Missions : f[n] \in Nat /\ h[n] = f[n] + (IF n = m THEN 1 ELSE 0)
    BY <1>1, <1>2 DEF OneMoreRouted, CountsInRange
  <1>4. h[m] <= MaxDecisions + 1 /\ f[m] + 1 <= EntryCount(m)
    BY <1>1, <1>3, MissionLoopAssumption DEF CountsInRange
  <1>5. \A g \in AllGrants : g[1] \in Missions  BY DEF AllGrants
  <1>6. PICK S : S = Numbered(RoutedCount)  OBVIOUS
  <1>7. PICK T : T = Numbered(RoutedCount)'  OBVIOUS
  <1>8. S = {g \in AllGrants : g[2] <= f[g[1]]}
    BY <1>1, <1>5, <1>6 DEF Numbered, AllGrants
  <1>9. T = {g \in AllGrants : g[2] <= h[g[1]]}
    BY <1>2, <1>5, <1>7 DEF Numbered, AllGrants
  <1>10. PICK g : g = <<m, f[m] + 1>>  OBVIOUS
  <1>11. g \in AllGrants /\ g \notin S /\ T = S \cup {g}
    BY <1>3, <1>4, <1>8, <1>9, <1>10, OneMore
  <1>12. g \in Numbered(EntryCount)  BY <1>4, <1>10, <1>11 DEF Numbered, AllGrants
  <1>. QED  BY <1>6, <1>7, <1>11, <1>12

LEMMA GateSteps ==
    ASSUME CountedInv, [Next]_vars
    PROVE  [Gate!GateNext]_(Gate!gateVars) /\ [Rerouting!GateNext]_(Rerouting!gateVars)
  <1>1. TypeInv /\ TypeInv' /\ Counting /\ RouteInv /\ CountInv
    BY TypeKeeps, CountKeeps DEF CountedInv
  <1>2. CountsInRange /\ CountsInRange'
    BY <1>1, CountsAfter, PastFinite, CountsAre DEF CountsInRange
  <1>3. CASE SameGrants /\ SameEntries /\ SameRouted
    BY <1>3, NumberedSame DEF Gate!gateVars, Rerouting!gateVars
  <1>4. CASE SameEntries /\ SameRouted /\ \E m \in Missions : OneMoreGrant(m)
    <2>1. Numbered(EntryCount)' = Numbered(EntryCount)
          /\ Numbered(RoutedCount)' = Numbered(RoutedCount)
      BY <1>4, NumberedSame
    <2>2. PICK g \in AllGrants :
             /\ g \notin Numbered(GrantCount)
             /\ Numbered(GrantCount)' = Numbered(GrantCount) \cup {g}
      BY <1>2, <1>4, Granting
    <2>3. Gate!GateNext  BY <2>1, <2>2 DEF AllGrants, Gate!GateNext, Gate!Grant
    <2>. QED  BY <2>1, <2>3 DEF Rerouting!gateVars
  <1>5. CASE SameGrants /\ SameRouted
             /\ \E m \in Missions : OneMoreEntry(m) /\ EntryCount(m) < GrantCount(m)
    <2>1. Numbered(GrantCount)' = Numbered(GrantCount)
          /\ Numbered(RoutedCount)' = Numbered(RoutedCount)
      BY <1>5, NumberedSame
    <2>2. PICK g \in AllGrants :
             /\ g \in Numbered(GrantCount) \ Numbered(EntryCount)
             /\ Numbered(EntryCount)' = Numbered(EntryCount) \cup {g}
      BY <1>2, <1>5, Adding
    <2>3. Gate!GateNext  BY <2>1, <2>2 DEF AllGrants, Gate!GateNext, Gate!Act
    <2>4. Rerouting!GateNext  BY <2>1, <2>2 DEF AllGrants, Rerouting!GateNext, Rerouting!Grant
    <2>. QED  BY <2>3, <2>4
  <1>6. CASE SameGrants /\ SameEntries /\ Routes /\ OneMoreRouted(W!Work.mission)
    <2>1. Numbered(GrantCount)' = Numbered(GrantCount)
          /\ Numbered(EntryCount)' = Numbered(EntryCount)
      BY <1>6, NumberedSame
    <2>2. PICK m \in Missions : m = W!Work.mission  BY <1>1, <1>6 DEF Routes, TypeInv, LoopsInv
    <2>3. OneMoreRouted(m) /\ RoutedCount(m) < EntryCount(m)
      BY <1>1, <1>6, <2>2, RouteKeeps
    <2>4. EntryCount(m) <= GrantCount(m)
      BY <1>1, <1>2, CountsAre DEF CountInv, CountsInRange
    <2>5. PICK g \in AllGrants :
             /\ g \in Numbered(EntryCount) \ Numbered(RoutedCount)
             /\ Numbered(RoutedCount)' = Numbered(RoutedCount) \cup {g}
      BY <1>2, <1>6, <2>3, <2>4, Rerouted
    <2>6. Rerouting!GateNext
      BY <2>1, <2>5 DEF AllGrants, Rerouting!GateNext, Rerouting!Act
    <2>. QED  BY <2>1, <2>6 DEF Gate!gateVars
  <1>. QED  BY <1>1, <1>3, <1>4, <1>5, <1>6 DEF Counting

-----------------------------------------------------------------------------
(* Nothing is forgotten, and what is finished stays.  What a mission waits *)
(* for is held by somebody: intake, an unhandled command, a pending        *)
(* approval, a resume message, an unhandled entry, an unhandled report.    *)

\* Entries nobody was given, that wait in the loop's batch, or that the handler
\* has and is not done with: it is at one of the labels.
Unhandled(loop, s, labels) ==
    {i \in Positions(s) : \/ i \notin Delivered(s)
                          \/ i \in Waiting(loop)
                          \/ i = loop.cur /\ loop.pc \in labels}

LEMMA UnhandledAdds ==
    ASSUME NEW entries, NEW e \in entries, NEW s, StreamOK(s, entries),
           NEW labels, NEW loop, LoopOK(loop, s, labels), NEW early
    PROVE  Unhandled(loop, XAdd(s, e), early) = Unhandled(loop, s, early) \cup {Len(s.log) + 1}
  <1>1. /\ Positions(XAdd(s, e)) = Positions(s) \cup {Len(s.log) + 1}
        /\ XAdd(s, e).read = s.read
    BY Longer, AddOK
  <1>2. s.read \in Nat /\ Len(s.log) \in Nat /\ s.read <= Len(s.log)
    BY DEF StreamOK, StreamType
  <1>3. Delivered(XAdd(s, e)) = Delivered(s) /\ Len(s.log) + 1 \notin Delivered(s)
    BY <1>1, <1>2 DEF Delivered
  <1>. QED  BY <1>1, <1>3 DEF Unhandled

LEMMA UnhandledAcks ==
    ASSUME NEW entries, NEW s, StreamOK(s, entries), NEW loop, NEW early, NEW i
    PROVE  Unhandled(loop, XAck(s, i), early) = Unhandled(loop, s, early)
  <1>1. XAck(s, i).log = s.log /\ XAck(s, i).read = s.read  BY AckOK
  <1>2. Positions(XAck(s, i)) = Positions(s) /\ Delivered(XAck(s, i)) = Delivered(s)
    BY <1>1 DEF Positions, Delivered
  <1>. QED  BY <1>2 DEF Unhandled

\* What another consumer of the group was handed is not unhandled any more.
LEMMA UnhandledGoesElsewhere ==
    ASSUME NEW entries, NEW s, StreamOK(s, entries), NEW n \in Nat,
           NEW labels, NEW loop, LoopOK(loop, s, labels), NEW early
    PROVE  Unhandled(loop, XReadGroup(s, n), early) = Unhandled(loop, s, early) \ Batch(s, n)
  <1> DEFINE last == XReadGroup(s, n).read
  <1>1. /\ XReadGroup(s, n).log = s.log
        /\ last \in Nat /\ s.read <= last /\ s.read \in Nat
        /\ Batch(s, n) = s.read + 1 .. last
    BY ReadOK DEF StreamOK, StreamType
  <1>2. Positions(XReadGroup(s, n)) = Positions(s) /\ Positions(s) \subseteq Nat \ {0}
    BY <1>1 DEF Positions, StreamOK, StreamType
  <1>. HIDE DEF last
  <1>3. \A i \in Positions(s) : i \notin 1..last <=> i \notin 1..s.read /\ i \notin Batch(s, n)
    BY <1>1, <1>2
  <1>4. Delivered(XReadGroup(s, n)) = 1..last /\ Delivered(s) = 1..s.read
    BY DEF Delivered, last
  <1>5. \A i \in Waiting(loop) \cup {loop.cur} : i \notin Batch(s, n)
    BY <1>1 DEF LoopOK, LoopType, Waiting
  <1>. QED  BY <1>2, <1>3, <1>4, <1>5 DEF Unhandled

LEMMA UnhandledReads ==
    ASSUME NEW entries, NEW s, StreamOK(s, entries), NEW n \in Nat,
           NEW labels, NEW loop, LoopOK(loop, s, labels), Idle(loop), NEW early, "idle" \notin early
    PROVE  Unhandled(Handed(loop, s, n), XReadGroup(s, n), early) = Unhandled(loop, s, early)
  <1> DEFINE last == XReadGroup(s, n).read
             handed == Handed(loop, s, n)
  <1>1. /\ XReadGroup(s, n).log = s.log
        /\ last \in Nat /\ s.read <= last /\ s.read \in Nat
    BY ReadOK DEF StreamOK, StreamType
  <1>2. Positions(XReadGroup(s, n)) = Positions(s) /\ Positions(s) \subseteq Nat \ {0}
    BY <1>1 DEF Positions, StreamOK, StreamType
  <1>3. handed.pc = "idle" /\ Waiting(handed) = s.read + 1 .. last  BY LoopReads
  <1>4. loop.pc = "idle" /\ Waiting(loop) = {}
    BY DEF Idle, LoopOK, Waiting
  <1>5. Delivered(XReadGroup(s, n)) = 1..last /\ Delivered(s) = 1..s.read
    BY DEF Delivered
  <1>. HIDE DEF last, handed
  <1>6. \A i \in Positions(s) : i \notin 1..last \/ i \in s.read + 1 .. last <=> i \notin 1..s.read
    BY <1>1, <1>2
  <1>7. Unhandled(handed, XReadGroup(s, n), early) = Unhandled(loop, s, early)
    BY <1>2, <1>3, <1>4, <1>5, <1>6 DEF Unhandled
  <1>. QED  BY <1>7 DEF handed

LEMMA UnhandledTakes ==
    ASSUME NEW entries, NEW s, StreamOK(s, entries), NEW labels, NEW loop, LoopOK(loop, s, labels),
           CanTake(loop), NEW label \in labels \ {"idle"}, NEW early
    PROVE  LET first == Head(loop.batch)
               next == Unhandled(Taken(loop, label), s, early)
           IN  /\ first \in Unhandled(loop, s, early)
               /\ label \in early => next = Unhandled(loop, s, early)
               /\ label \notin early => next = Unhandled(loop, s, early) \ {first}
  <1> DEFINE first == Head(loop.batch)
             taken == Taken(loop, label)
  <1>1. s.read \in Nat  BY DEF StreamOK, StreamType
  <1>2. /\ taken.pc = label /\ taken.cur = first
        /\ first \in Waiting(loop) /\ Waiting(taken) = Waiting(loop) \ {first}
    BY <1>1, LoopTakes
  <1>3. first \in Positions(s) /\ first \in Delivered(s)
    <2>1. first \in 1..s.read  BY InBatch
    <2>2. s.read \in Nat /\ s.log \in Seq(entries) /\ s.read <= Len(s.log)
      BY DEF StreamOK, StreamType
    <2>. HIDE DEF first
    <2>. QED  BY <2>1, <2>2 DEF Positions, Delivered
  <1>4. loop.cur = 0 /\ 0 \notin Positions(s)
    BY DEF CanTake, NoEntry, Positions, StreamOK, StreamType
  <1>. HIDE DEF first, taken
  <1>5. first \in Unhandled(loop, s, early)  BY <1>2, <1>3 DEF Unhandled
  <1>6. label \in early => Unhandled(taken, s, early) = Unhandled(loop, s, early)
    BY <1>2, <1>3, <1>4 DEF Unhandled
  <1>7. label \notin early => Unhandled(taken, s, early) = Unhandled(loop, s, early) \ {first}
    BY <1>2, <1>3, <1>4 DEF Unhandled
  <1>. QED  BY <1>5, <1>6, <1>7 DEF first, taken

LEMMA UnhandledGoes ==
    ASSUME NEW entries, NEW s, StreamOK(s, entries), NEW labels, NEW loop, LoopOK(loop, s, labels),
           loop.pc # "idle", NEW label \in labels \ {"idle"}, NEW early
    PROVE  LET next == Unhandled(Goto(loop, label), s, early)
           IN  /\ loop.pc \in early => loop.cur \in Unhandled(loop, s, early)
               /\ (loop.pc \in early <=> label \in early) => next = Unhandled(loop, s, early)
               /\ label \notin early => next = Unhandled(loop, s, early) \ {loop.cur}
  <1> DEFINE going == Goto(loop, label)
  <1>1. going.pc = label /\ going.cur = loop.cur /\ Waiting(going) = Waiting(loop)
    BY LoopGoes
  <1>2. loop.cur \in Positions(s) /\ loop.cur \in Delivered(s)
    BY InHandler DEF Delivered
  <1>3. loop.cur \notin Waiting(loop)  BY DEF LoopOK, Waiting
  <1>. HIDE DEF going
  <1>4. loop.pc \in early => loop.cur \in Unhandled(loop, s, early)  BY <1>2 DEF Unhandled
  <1>5. (loop.pc \in early <=> label \in early) => Unhandled(going, s, early) = Unhandled(loop, s, early)
    BY <1>1 DEF Unhandled
  <1>6. label \notin early => Unhandled(going, s, early) = Unhandled(loop, s, early) \ {loop.cur}
    BY <1>1, <1>2, <1>3 DEF Unhandled
  <1>. QED  BY <1>4, <1>5, <1>6 DEF going

LEMMA UnhandledFinishes ==
    ASSUME NEW entries, NEW s, StreamOK(s, entries), NEW labels, NEW loop, LoopOK(loop, s, labels),
           loop.pc # "idle", NEW early, "idle" \notin early
    PROVE  /\ Unhandled(Finished(loop), s, early) = Unhandled(loop, s, early) \ {loop.cur}
           /\ loop.pc \notin early => Unhandled(Finished(loop), s, early) = Unhandled(loop, s, early)
  <1> DEFINE finished == Finished(loop)
  <1>1. finished.pc = "idle" /\ Waiting(finished) = Waiting(loop)
    BY LoopFinishes DEF StreamOK, StreamType
  <1>2. loop.cur \in Positions(s) /\ loop.cur \in Delivered(s)
    BY InHandler DEF Delivered
  <1>3. loop.cur \notin Waiting(loop)  BY DEF LoopOK, Waiting
  <1>. HIDE DEF finished
  <1>4. Unhandled(finished, s, early) = Unhandled(loop, s, early) \ {loop.cur}
    BY <1>1, <1>2, <1>3 DEF Unhandled
  <1>5. loop.pc \notin early => Unhandled(finished, s, early) = Unhandled(loop, s, early)
    BY <1>1 DEF Unhandled
  <1>. QED  BY <1>4, <1>5 DEF finished

LEMMA UnhandledDies ==
    ASSUME NEW entries, NEW s, StreamOK(s, entries), NEW labels, NEW loop, LoopOK(loop, s, labels),
           NEW early, "idle" \notin early
    PROVE  Unhandled(IdleLoop, s, early) = Unhandled(loop, s, early) \ InHand(loop)
  <1>1. IdleLoop.pc = "idle" /\ Waiting(IdleLoop) = {}
    BY LoopDies DEF StreamOK, StreamType
  <1>2. InHand(loop) = ({loop.cur} \ {0}) \cup Waiting(loop)  BY DEF InHand, NoEntry, Waiting
  <1>3. InHand(loop) \subseteq Delivered(s)
    BY <1>2 DEF LoopOK, LoopType, Delivered, Waiting, StreamOK, StreamType
  <1>4. 0 \notin Positions(s)  BY DEF Positions, StreamOK, StreamType
  <1>. QED  BY <1>1, <1>2, <1>3, <1>4 DEF Unhandled

\* A command is handled once its answer is carried out, an entry once it is
\* reported or re-routed, a report once its status is posted.
EarlyLabels == {"guard", "allow", "add", "requires_approval", "deny"}
UnhandledCommands == Unhandled(commandLoop, commands, EarlyLabels)
UnhandledEntries == Unhandled(workerLoop, execution, {"classify"})
UnhandledReports == Unhandled(receiptLoop, receiptStream, {"status"})
OpenHand == {i \in hand : ~X!HasStatus(i)}

AtIntake(m) == {i \in {0} : intake[m] \in {"new", "publish"}}
AsCommand(m) == {i \in UnhandledCommands : commands.log[i] = m}
ForApproval(m) == {i \in {0} : approval[m] = "pending"}
ForResume(m) == 1..resume[m]
AsEntry(m) == {i \in UnhandledEntries \cup OpenHand : execution.log[i].mission = m}
AsReport(m) == {i \in UnhandledReports : receiptStream.log[i].mission = m}

Holders(m) ==
    ({"intake"} \X AtIntake(m)) \cup ({"command"} \X AsCommand(m))
      \cup ({"approval"} \X ForApproval(m)) \cup ({"resume"} \X ForResume(m))
      \cup ({"entry"} \X AsEntry(m)) \cup ({"report"} \X AsReport(m))

\* An undisturbed mission is in one place at a time, and finished when it is in none.
HeldInv ==
    \A m \in Missions : Undisturbed(m) =>
        /\ \A a, b \in Holders(m) : a = b
        /\ mission[m] \in Terminal => Holders(m) = {}
        /\ Holders(m) = {} =>
             mission[m] \in Terminal \/ RoutedBack(m) \/ intake[m] = "unpublished"
        /\ intake[m] = "new" => mission[m] = "none"

\* A failure is on record before its consequence; an approval that is being decided
\* is pending or was decided; worker and executor have no entry in common.
FailedKnown ==
    /\ \A m \in Missions : intake[m] = "failed" => m \in faults
    /\ workerLoop.pc = "report" => W!Work.mission \in faults
PendingDecided ==
    \A m \in Missions : deciding[m] > 0 =>
        approval[m] = "pending" \/ decisions[m].approved + decisions[m].denied > 0
HandsApart ==
    /\ hand \subseteq Delivered(execution)
    /\ hand \cap (Waiting(workerLoop) \cup {workerLoop.cur}) = {}
    /\ \A x \in recorded : x.msg \in Delivered(execution)

LEMMA CommandsMoved ==
    ASSUME TypeInv, NEW m, NEW gone, NEW new,
           Extends(commands', commands, CommandEntries),
           UnhandledCommands' = (UnhandledCommands \ gone) \cup new
    PROVE  AsCommand(m)' = (AsCommand(m) \ gone) \cup {i \in new : commands'.log[i] = m}
  <1>1. UnhandledCommands \subseteq Positions(commands)  BY DEF UnhandledCommands, Unhandled
  <1>2. \A i \in UnhandledCommands : commands'.log[i] = commands.log[i]
    BY <1>1 DEF Extends
  <1>. QED  BY <1>2 DEF AsCommand

LEMMA EntriesMoved ==
    ASSUME TypeInv, NEW m, NEW gone, NEW new,
           Extends(execution', execution, Entries),
           (UnhandledEntries \cup OpenHand)' = ((UnhandledEntries \cup OpenHand) \ gone) \cup new
    PROVE  AsEntry(m)' = (AsEntry(m) \ gone) \cup {i \in new : execution'.log[i].mission = m}
  <1>1. UnhandledEntries \subseteq Positions(execution)  BY DEF UnhandledEntries, Unhandled
  <1>2. OpenHand \subseteq Positions(execution)  BY DEF OpenHand, TypeInv, HandInv
  <1>3. \A i \in UnhandledEntries \cup OpenHand : execution'.log[i] = execution.log[i]
    BY <1>1, <1>2 DEF Extends
  <1>. QED  BY <1>3 DEF AsEntry

LEMMA ReportsMoved ==
    ASSUME TypeInv, NEW m, NEW gone, NEW new,
           Extends(receiptStream', receiptStream, Reports),
           UnhandledReports' = (UnhandledReports \ gone) \cup new
    PROVE  AsReport(m)' = (AsReport(m) \ gone) \cup {i \in new : receiptStream'.log[i].mission = m}
  <1>1. UnhandledReports \subseteq Positions(receiptStream)  BY DEF UnhandledReports, Unhandled
  <1>2. \A i \in UnhandledReports : receiptStream'.log[i] = receiptStream.log[i]
    BY <1>1 DEF Extends
  <1>. QED  BY <1>2 DEF AsReport

LEMMA Elsewhere ==
    ASSUME NEW m
    PROVE  /\ intake'[m] = intake[m] => AtIntake(m)' = AtIntake(m)
           /\ UNCHANGED <<commands, commandLoop>> => AsCommand(m)' = AsCommand(m)
           /\ approval'[m] = approval[m] => ForApproval(m)' = ForApproval(m)
           /\ resume'[m] = resume[m] => ForResume(m)' = ForResume(m)
           /\ UNCHANGED <<execution, workerLoop, hand, recorded>> => AsEntry(m)' = AsEntry(m)
           /\ UNCHANGED <<receiptStream, receiptLoop>> => AsReport(m)' = AsReport(m)
  <1>1. intake'[m] = intake[m] => AtIntake(m)' = AtIntake(m)  BY DEF AtIntake
  <1>2. UNCHANGED <<commands, commandLoop>> => AsCommand(m)' = AsCommand(m)
    BY DEF AsCommand, UnhandledCommands
  <1>3. approval'[m] = approval[m] => ForApproval(m)' = ForApproval(m)  BY DEF ForApproval
  <1>4. resume'[m] = resume[m] => ForResume(m)' = ForResume(m)  BY DEF ForResume
  <1>5. UNCHANGED <<execution, workerLoop, hand, recorded>> => AsEntry(m)' = AsEntry(m)
    BY DEF AsEntry, UnhandledEntries, OpenHand, X!HasStatus
  <1>6. UNCHANGED <<receiptStream, receiptLoop>> => AsReport(m)' = AsReport(m)
    BY DEF AsReport, UnhandledReports
  <1>. QED  BY <1>1, <1>2, <1>3, <1>4, <1>5, <1>6

\* What a step does to a mission: nothing, one holder hands it to the next, or
\* the one that has it is the last.
Kept(m) == Holders(m)' = Holders(m) /\ mission'[m] = mission[m] /\ intake'[m] = intake[m]
Passed(m) ==
    /\ \E a \in Holders(m), b \in Holders(m)' : Holders(m)' \subseteq (Holders(m) \ {a}) \cup {b}
    /\ mission'[m] = mission[m] \/ mission'[m] \notin Terminal
    /\ intake'[m] # "new"
Ended(m) ==
    /\ \E a \in Holders(m) : Holders(m)' \subseteq Holders(m) \ {a}
    /\ mission'[m] \in Terminal \/ RoutedBack(m)' \/ intake'[m] = "unpublished"

LEMMA AllKept ==
    ASSUME NEW m,
           AsCommand(m)' = AsCommand(m), ForApproval(m)' = ForApproval(m),
           ForResume(m)' = ForResume(m), AsEntry(m)' = AsEntry(m), AsReport(m)' = AsReport(m),
           mission'[m] = mission[m], intake'[m] = intake[m]
    PROVE  Kept(m)
  BY Elsewhere DEF Kept, Holders

Moved(m) == Kept(m) \/ Passed(m) \/ Ended(m)

\* What the invariants say of a mission that stays undisturbed.
Peaceful(m) ==
    /\ TypeInv /\ FailedKnown /\ PendingDecided /\ HandsApart
    /\ m \in Missions
    /\ m \notin faults' /\ \A i \in hit' : execution'.log[i].mission # m
    /\ decisions'[m].approved + decisions'[m].denied <= 1
    /\ \A a, b \in Holders(m) : a = b
    /\ mission[m] \in Terminal => Holders(m) = {}

LEMMA CommandAdded ==
    ASSUME TypeInv, NEW m, NEW e \in CommandEntries,
           commands' = XAdd(commands, e), commandLoop' = commandLoop
    PROVE  /\ e # m => AsCommand(m)' = AsCommand(m)
           /\ e = m => AsCommand(m)' = AsCommand(m) \cup {Len(commands.log) + 1}
  <1>1. StreamOK(commands, CommandEntries) /\ LoopOK(commandLoop, commands, C!CommandLabels)
    BY DEF TypeInv, StreamsInv, LoopsInv
  <1>2. UnhandledCommands' = (UnhandledCommands \ {}) \cup {Len(commands.log) + 1}
    BY <1>1, UnhandledAdds DEF UnhandledCommands
  <1>3. Extends(commands', commands, CommandEntries) /\ commands'.log[Len(commands.log) + 1] = e
    BY <1>1, StreamSteps, Longer
  <1>4. AsCommand(m)' = (AsCommand(m) \ {})
                          \cup {i \in {Len(commands.log) + 1} : commands'.log[i] = m}
    BY <1>2, <1>3, CommandsMoved
  <1>. QED  BY <1>3, <1>4

LEMMA EntryAdded ==
    ASSUME TypeInv, NEW m, NEW e \in Entries, NEW gone, gone \cap hand = {},
           execution' = XAdd(execution, e), UNCHANGED <<hand, recorded>>,
           LoopOK(workerLoop', execution, W!WorkLabels),
           Unhandled(workerLoop', execution, {"classify"}) = UnhandledEntries \ gone
    PROVE  /\ e.mission # m => AsEntry(m)' = AsEntry(m) \ gone
           /\ e.mission = m => AsEntry(m)' = (AsEntry(m) \ gone) \cup {Len(execution.log) + 1}
  <1>1. StreamOK(execution, Entries)  BY DEF TypeInv, StreamsInv
  <1>2. UnhandledEntries' = (UnhandledEntries \ gone) \cup {Len(execution.log) + 1}
    BY <1>1, UnhandledAdds DEF UnhandledEntries
  <1>3. /\ Extends(execution', execution, Entries)
        /\ execution'.log[Len(execution.log) + 1] = e
    BY <1>1, StreamSteps, Longer
  <1>4. OpenHand' = OpenHand /\ OpenHand \cap gone = {}  BY DEF OpenHand, X!HasStatus
  <1>5. (UnhandledEntries \cup OpenHand)'
           = ((UnhandledEntries \cup OpenHand) \ gone) \cup {Len(execution.log) + 1}
    BY <1>2, <1>4
  <1>6. AsEntry(m)' = (AsEntry(m) \ gone)
                        \cup {i \in {Len(execution.log) + 1} : execution'.log[i].mission = m}
    BY <1>3, <1>5, EntriesMoved
  <1>. QED  BY <1>3, <1>6

\* The same by a process other than the worker.
LEMMA EntryGiven ==
    ASSUME TypeInv, NEW m, NEW e \in Entries,
           execution' = XAdd(execution, e), UNCHANGED <<hand, recorded, workerLoop>>
    PROVE  /\ e.mission # m => AsEntry(m)' = AsEntry(m)
           /\ e.mission = m => AsEntry(m)' = AsEntry(m) \cup {Len(execution.log) + 1}
  <1>1. LoopOK(workerLoop', execution, W!WorkLabels)  BY DEF TypeInv, LoopsInv
  <1>2. Unhandled(workerLoop', execution, {"classify"}) = UnhandledEntries \ {}
    BY DEF UnhandledEntries
  <1>3. UNCHANGED <<hand, recorded>> /\ {} \cap hand = {}  OBVIOUS
  <1>4. /\ e.mission # m => AsEntry(m)' = AsEntry(m) \ {}
        /\ e.mission = m => AsEntry(m)' = (AsEntry(m) \ {}) \cup {Len(execution.log) + 1}
    BY <1>1, <1>2, <1>3, EntryAdded
  <1>. QED  BY <1>4

LEMMA ReportAdded ==
    ASSUME TypeInv, NEW m, NEW e \in Reports,
           receiptStream' = XAdd(receiptStream, e), receiptLoop' = receiptLoop
    PROVE  /\ e.mission # m => AsReport(m)' = AsReport(m)
           /\ e.mission = m => AsReport(m)' = AsReport(m) \cup {Len(receiptStream.log) + 1}
  <1>1. StreamOK(receiptStream, Reports) /\ LoopOK(receiptLoop, receiptStream, C!ReceiptLabels)
    BY DEF TypeInv, StreamsInv, LoopsInv
  <1>2. UnhandledReports' = (UnhandledReports \ {}) \cup {Len(receiptStream.log) + 1}
    BY <1>1, UnhandledAdds DEF UnhandledReports
  <1>3. /\ Extends(receiptStream', receiptStream, Reports)
        /\ receiptStream'.log[Len(receiptStream.log) + 1] = e
    BY <1>1, StreamSteps, Longer
  <1>4. AsReport(m)' = (AsReport(m) \ {})
                         \cup {i \in {Len(receiptStream.log) + 1} : receiptStream'.log[i].mission = m}
    BY <1>2, <1>3, ReportsMoved
  <1>. QED  BY <1>3, <1>4

\* A mission that something but intake holds is not new.
LEMMA NotNew ==
    ASSUME NEW m, Peaceful(m), NEW k, k # "intake", NEW i, <<k, i>> \in Holders(m)
    PROVE  intake[m] # "new"
  <1>1. intake[m] = "new" => <<"intake", 0>> \in Holders(m)  BY DEF Holders, AtIntake
  <1>. QED  BY <1>1 DEF Peaceful

LEMMA IntakeMoves ==
    ASSUME NEW m, Peaceful(m), NEW n \in Missions,
           CreateMission(n) \/ PublishCommand(n) \/ DispatchFailed(n)
    PROVE  Moved(m)
  <1>1. /\ intake \in [Missions -> {"new", "publish", "unpublished", "failed", "done"}]
        /\ mission \in [Missions -> {"none", "pending", "awaiting_approval", "active",
                                     "blocked", "complete", "failed"}]
        /\ m \in Missions /\ m \notin faults'
    BY DEF Peaceful, TypeInv, RowsInv, DecidingInv
  <1>2. /\ ForApproval(m)' = ForApproval(m) /\ ForResume(m)' = ForResume(m)
        /\ AsEntry(m)' = AsEntry(m) /\ AsReport(m)' = AsReport(m)
    <2>1. UNCHANGED <<execution, receiptStream, approval, receiptLoop, workerLoop, hand,
                      recorded, resume>>
      BY DEF CreateMission, PublishCommand, DispatchFailed, IntakeUnchanged, workerOnly,
             executorOnly
    <2>. QED  BY <2>1, Elsewhere
  <1>3. commandLoop' = commandLoop
    BY DEF CreateMission, PublishCommand, DispatchFailed, IntakeUnchanged
  <1>4. commands' = commands => AsCommand(m)' = AsCommand(m)  BY <1>3, Elsewhere
  <1>5. commands' = XAdd(commands, n)
           => /\ n # m => AsCommand(m)' = AsCommand(m)
              /\ n = m => AsCommand(m)' = AsCommand(m) \cup {Len(commands.log) + 1}
    BY <1>3, CommandAdded DEF Peaceful, CommandEntries
  <1>6. CASE n # m
    <2>1. mission'[m] = mission[m] /\ intake'[m] = intake[m]
      BY <1>1, <1>6 DEF CreateMission, PublishCommand, DispatchFailed
    <2>2. commands' \in {commands, XAdd(commands, n)}
      BY DEF CreateMission, PublishCommand, DispatchFailed
    <2>3. AsCommand(m)' = AsCommand(m)  BY <1>4, <1>5, <1>6, <2>2
    <2>. QED  BY <1>2, <2>1, <2>3, AllKept DEF Moved
  <1>7. CASE n = m /\ CreateMission(n)
    <2>1. /\ intake[m] = "new" /\ mission'[m] = "pending" /\ commands' = commands
          /\ intake'[m] \in {"publish", "unpublished"}
      BY <1>1, <1>7 DEF CreateMission
    <2>2. AtIntake(m) = {0} /\ AsCommand(m)' = AsCommand(m)
      BY <1>4, <2>1 DEF AtIntake
    <2>3. <<"intake", 0>> \in Holders(m)  BY <2>2 DEF Holders
    <2>4. CASE intake'[m] = "publish"
      <3>1. AtIntake(m)' = AtIntake(m)  BY <2>1, <2>4 DEF AtIntake
      <3>2. Holders(m)' = Holders(m)  BY <1>2, <2>2, <3>1 DEF Holders
      <3>3. mission'[m] \notin Terminal  BY <2>1 DEF Terminal
      <3>. QED  BY <2>3, <2>4, <3>2, <3>3 DEF Passed, Moved
    <2>5. CASE intake'[m] = "unpublished"
      <3>1. AtIntake(m)' = {}  BY <2>5 DEF AtIntake
      <3>2. Holders(m)' \subseteq Holders(m) \ {<<"intake", 0>>}
        BY <1>2, <2>2, <3>1 DEF Holders
      <3>. QED  BY <2>3, <2>5, <3>2 DEF Ended, Moved
    <2>. QED  BY <2>1, <2>4, <2>5
  <1>8. CASE n = m /\ PublishCommand(n)
    <2>1. /\ intake[m] = "publish" /\ mission'[m] = mission[m] /\ commands' = XAdd(commands, m)
          /\ intake'[m] = "done"
      BY <1>1, <1>8 DEF PublishCommand
    <2>2. AtIntake(m) = {0} /\ AtIntake(m)' = {}  BY <2>1 DEF AtIntake
    <2>3. AsCommand(m)' = AsCommand(m) \cup {Len(commands.log) + 1}  BY <1>5, <1>8, <2>1
    <2>4. <<"intake", 0>> \in Holders(m)  BY <2>2 DEF Holders
    <2>5. <<"command", Len(commands.log) + 1>> \in Holders(m)'  BY <2>3 DEF Holders
    <2>6. Holders(m)' \subseteq (Holders(m) \ {<<"intake", 0>>})
                                  \cup {<<"command", Len(commands.log) + 1>>}
      BY <1>2, <2>2, <2>3 DEF Holders
    <2>. QED  BY <2>1, <2>4, <2>5, <2>6 DEF Passed, Moved
  <1>9. CASE n = m /\ DispatchFailed(n)
    BY <1>1, <1>9 DEF DispatchFailed, Peaceful, FailedKnown
  <1>. QED  BY <1>6, <1>7, <1>8, <1>9

LEMMA DecisionMoves ==
    ASSUME NEW m, Peaceful(m), NEW n \in Missions,
           ReadPending(n) \/ Approve(n) \/ Deny(n) \/ PublishResume(n)
    PROVE  Moved(m)
  <1>1. /\ deciding \in [Missions -> Nat] /\ resume \in [Missions -> Nat]
        /\ decisions \in [Missions -> [approved : Nat, denied : Nat]]
        /\ approval \in [Missions -> {"none", "pending", "approved", "denied"}]
        /\ mission \in [Missions -> {"none", "pending", "awaiting_approval", "active",
                                     "blocked", "complete", "failed"}]
        /\ m \in Missions /\ m \notin faults'
        /\ resume[m] <= decisions[m].approved
    BY DEF Peaceful, TypeInv, RowsInv, DecidingInv
  <1>2. /\ AtIntake(m)' = AtIntake(m) /\ AsCommand(m)' = AsCommand(m)
        /\ AsReport(m)' = AsReport(m) /\ intake' = intake
    <2>1. UNCHANGED <<commands, receiptStream, commandLoop, receiptLoop, intake>>
      BY DEF ReadPending, Approve, Deny, PublishResume, OperatorUnchanged
    <2>. QED  BY <2>1, Elsewhere
  <1>3. UNCHANGED <<workerLoop, hand, recorded>>
    BY DEF ReadPending, Approve, Deny, PublishResume, OperatorUnchanged, workerOnly, executorOnly
  <1>4. execution' = execution => AsEntry(m)' = AsEntry(m)  BY <1>3, Elsewhere
  <1>5. execution' = XAdd(execution, [mission |-> n, skip |-> FALSE])
           => /\ n # m => AsEntry(m)' = AsEntry(m)
              /\ n = m => AsEntry(m)' = AsEntry(m) \cup {Len(execution.log) + 1}
    <2>1. [mission |-> n, skip |-> FALSE] \in Entries  BY DEF Entries
    <2>. QED  BY <1>3, <2>1, EntryGiven DEF Peaceful
  <1>6. CASE n # m \/ ReadPending(n)
    <2>1. mission'[m] = mission[m] /\ approval'[m] = approval[m] /\ resume'[m] = resume[m]
      BY <1>1, <1>6 DEF ReadPending, Approve, Deny, PublishResume
    <2>2. execution' = execution
          \/ (n # m /\ execution' = XAdd(execution, [mission |-> n, skip |-> FALSE]))
      BY <1>6 DEF ReadPending, Approve, Deny, PublishResume
    <2>3. AsEntry(m)' = AsEntry(m)  BY <1>4, <1>5, <2>2
    <2>. QED  BY <1>2, <2>1, <2>3, Elsewhere, AllKept DEF Moved
  <1>7. CASE n = m /\ (Approve(n) \/ Deny(n))
    <2>1. decisions[m].approved \in Nat /\ decisions[m].denied \in Nat /\ deciding[m] > 0
      BY <1>1, <1>7 DEF Approve, Deny
    <2>2. \/ /\ decisions'[m].approved = decisions[m].approved + 1
             /\ decisions'[m].denied = decisions[m].denied
          \/ /\ decisions'[m].denied = decisions[m].denied + 1
             /\ decisions'[m].approved = decisions[m].approved
      BY <1>1, <1>7 DEF Approve, Deny
    <2>3. decisions[m].approved = 0 /\ decisions[m].denied = 0
      BY <2>1, <2>2 DEF Peaceful
    <2>4. approval[m] = "pending" /\ resume[m] = 0
      BY <1>1, <2>1, <2>3 DEF Peaceful, PendingDecided
    <2>5. ForApproval(m) = {0} /\ ForResume(m) = {}
      BY <2>4 DEF ForApproval, ForResume
    <2>6. /\ approval'[m] # "pending" /\ execution' = execution
          /\ \/ mission'[m] = "active" /\ resume'[m] = 1
             \/ mission'[m] = "blocked" /\ resume'[m] = 0
      BY <1>1, <1>7, <2>4 DEF Approve, Deny
    <2>7. <<"approval", 0>> \in Holders(m)  BY <2>5 DEF Holders
    <2>8. ForApproval(m)' = {} /\ AsEntry(m)' = AsEntry(m)
      BY <1>4, <2>6 DEF ForApproval
    <2>9. CASE mission'[m] = "active" /\ resume'[m] = 1
      <3>1. ForResume(m)' = {1}  BY <2>9 DEF ForResume
      <3>2. <<"resume", 1>> \in Holders(m)'  BY <3>1 DEF Holders
      <3>3. Holders(m)' \subseteq (Holders(m) \ {<<"approval", 0>>}) \cup {<<"resume", 1>>}
        BY <1>2, <2>8, <3>1 DEF Holders
      <3>4. intake'[m] # "new"  BY <1>2, <2>7, NotNew
      <3>5. mission'[m] \notin Terminal  BY <2>9 DEF Terminal
      <3>. QED  BY <2>7, <3>2, <3>3, <3>4, <3>5 DEF Passed, Moved
    <2>10. CASE mission'[m] = "blocked" /\ resume'[m] = 0
      <3>1. ForResume(m)' = {}  BY <2>10 DEF ForResume
      <3>2. Holders(m)' \subseteq Holders(m) \ {<<"approval", 0>>}
        BY <1>2, <2>8, <3>1 DEF Holders
      <3>3. mission'[m] \in Terminal  BY <2>10 DEF Terminal
      <3>. QED  BY <2>7, <3>2, <3>3 DEF Ended, Moved
    <2>. QED  BY <2>6, <2>9, <2>10
  <1>8. CASE n = m /\ PublishResume(n)
    <2>1. /\ resume[m] \in Nat /\ resume[m] > 0 /\ resume'[m] = resume[m] - 1
          /\ mission'[m] = mission[m] /\ approval'[m] = approval[m]
          /\ execution' = XAdd(execution, [mission |-> n, skip |-> FALSE])
      BY <1>1, <1>8 DEF PublishResume
    <2>2. /\ ForResume(m)' = ForResume(m) \ {resume[m]} /\ resume[m] \in ForResume(m)
          /\ ForApproval(m)' = ForApproval(m)
      BY <2>1 DEF ForResume, ForApproval
    <2>3. AsEntry(m)' = AsEntry(m) \cup {Len(execution.log) + 1}  BY <1>5, <1>8, <2>1
    <2>4. <<"resume", resume[m]>> \in Holders(m)  BY <2>2 DEF Holders
    <2>5. <<"entry", Len(execution.log) + 1>> \in Holders(m)'  BY <2>3 DEF Holders
    <2>6. Holders(m)' \subseteq (Holders(m) \ {<<"resume", resume[m]>>})
                                  \cup {<<"entry", Len(execution.log) + 1>>}
      BY <1>2, <2>2, <2>3 DEF Holders
    <2>7. intake'[m] # "new"  BY <1>2, <2>4, NotNew
    <2>. QED  BY <2>1, <2>4, <2>5, <2>6, <2>7 DEF Passed, Moved
  <1>. QED  BY <1>6, <1>7, <1>8

LEMMA StrayMoves ==
    ASSUME NEW m, Peaceful(m), AddStray
    PROVE  Moved(m)
  <1>1. m \in Missions /\ Poison # m  BY MissionLoopAssumption DEF Peaceful
  <1>2. /\ UNCHANGED <<mission, approval, intake, resume, commandLoop, receiptLoop, workerLoop,
                       hand, recorded>>
        /\ \/ commands' = XAdd(commands, Poison) /\ UNCHANGED <<execution, receiptStream>>
           \/ /\ execution' = XAdd(execution, [mission |-> Poison, skip |-> FALSE])
              /\ UNCHANGED <<commands, receiptStream>>
           \/ /\ receiptStream' = XAdd(receiptStream, [mission |-> Poison, ok |-> FALSE])
              /\ UNCHANGED <<commands, execution>>
    BY DEF AddStray, workerOnly, executorOnly
  <1>3. /\ [mission |-> Poison, skip |-> FALSE] \in Entries
        /\ [mission |-> Poison, ok |-> FALSE] \in Reports /\ Poison \in CommandEntries
    BY DEF Entries, Reports, CommandEntries
  <1>4. AsCommand(m)' = AsCommand(m)
    BY <1>1, <1>2, <1>3, CommandAdded, Elsewhere DEF Peaceful
  <1>5. AsEntry(m)' = AsEntry(m)
    BY <1>1, <1>2, <1>3, EntryGiven, Elsewhere DEF Peaceful
  <1>6. AsReport(m)' = AsReport(m)
    BY <1>1, <1>2, <1>3, ReportAdded, Elsewhere DEF Peaceful
  <1>. QED  BY <1>2, <1>4, <1>5, <1>6, Elsewhere, AllKept DEF Moved

\* The coordinator leaves the rest to others.
LEMMA CommandsElsewhere ==
    ASSUME NEW m, Coordinate(C!HandleCommand \/ C!LeaveCommand)
    PROVE  /\ AtIntake(m)' = AtIntake(m) /\ ForResume(m)' = ForResume(m)
           /\ AsReport(m)' = AsReport(m)
           /\ UNCHANGED <<intake, workerLoop, hand, recorded>>
  <1>1. UNCHANGED <<intake, resume, workerLoop, hand, recorded>>
    BY DEF Coordinate, operator, workerOnly, executorOnly
  <1>2. UNCHANGED <<receiptStream, receiptLoop>>
    BY DEF Coordinate, C!HandleCommand, C!LeaveCommand, C!ReadCommands,
          C!TakeCommand, C!AskGuard, C!PostActive, C!AddExecution, C!OpenApproval,
          C!NotifyApproval, C!PostDenied, C!AckCommand
  <1>. QED  BY <1>1, <1>2, Elsewhere

\* A command that is put down, or that is not this mission's, is all that goes.
LEMMA CommandPut ==
    ASSUME NEW m, NEW gone, Extends(commands', commands, CommandEntries),
           UnhandledCommands' = UnhandledCommands \ gone
    PROVE  AsCommand(m)' = AsCommand(m) \ gone
  <1>1. UnhandledCommands \subseteq Positions(commands)  BY DEF UnhandledCommands, Unhandled
  <1>2. \A i \in UnhandledCommands : commands'.log[i] = commands.log[i]
    BY <1>1 DEF Extends
  <1>. QED  BY <1>2 DEF AsCommand

LEMMA CommandMoves ==
    ASSUME NEW m, Peaceful(m), Coordinate(C!HandleCommand \/ C!LeaveCommand)
    PROVE  Moved(m)
  <1>1. /\ StreamOK(commands, CommandEntries)
        /\ LoopOK(commandLoop, commands, C!CommandLabels)
        /\ Extends(commands, commands, CommandEntries)
        /\ Extends(XAck(commands, commandLoop.cur), commands, CommandEntries)
        /\ Extends(XReadGroup(commands, BatchSize), commands, CommandEntries)
        /\ BatchSize \in Nat
    <2>1. StreamOK(commands, CommandEntries) /\ LoopOK(commandLoop, commands, C!CommandLabels)
      BY DEF Peaceful, TypeInv, StreamsInv, LoopsInv
    <2>2. BatchSize \in Nat  BY MissionLoopAssumption
    <2>. QED  BY <2>1, <2>2, StreamSteps
  <1>2. /\ m \in Missions /\ m \notin faults' /\ m # Poison
        /\ mission \in [Missions -> {"none", "pending", "awaiting_approval", "active",
                                     "blocked", "complete", "failed"}]
        /\ approval \in [Missions -> {"none", "pending", "approved", "denied"}]
        /\ commandLoop.pc \notin {"idle", "ack"} => C!Command \in Missions
    BY MissionLoopAssumption DEF Peaceful, TypeInv, RowsInv, LoopsInv
  <1>3. /\ AtIntake(m)' = AtIntake(m) /\ ForResume(m)' = ForResume(m)
        /\ AsReport(m)' = AsReport(m)
        /\ UNCHANGED <<intake, workerLoop, hand, recorded>>
    BY CommandsElsewhere
  <1>4. execution' = execution => AsEntry(m)' = AsEntry(m)  BY <1>3, Elsewhere
  <1>5. /\ approval'[m] = approval[m] => ForApproval(m)' = ForApproval(m)
        /\ execution' = execution /\ mission' = mission /\ approval' = approval
             /\ AsCommand(m)' = AsCommand(m) => Kept(m)
    BY <1>3, <1>4, Elsewhere, AllKept
  <1>6. "idle" \notin EarlyLabels  BY DEF EarlyLabels
  <1>7. CASE C!ReadCommands
    <2>1. /\ Idle(commandLoop) /\ commands' = XReadGroup(commands, BatchSize)
          /\ commandLoop' = Handed(commandLoop, commands, BatchSize)
          /\ UNCHANGED <<execution, mission, approval>>
      BY <1>7, TheirStreams, TheirLoops DEF C!ReadCommands, CanRead, C!controlPlane
    <2>2. UnhandledCommands' = UnhandledCommands \ {}
      BY <1>1, <1>6, <2>1, UnhandledReads DEF UnhandledCommands
    <2>3. AsCommand(m)' = AsCommand(m) \ {}  BY <1>1, <2>1, <2>2, CommandPut
    <2>. QED  BY <1>5, <2>1, <2>3 DEF Moved
  <1>8. CASE C!TakeCommand
    <2> DEFINE label == IF commands.log[Head(commandLoop.batch)] = Poison THEN "ack" ELSE "guard"
               gone == IF label = "ack" THEN {Head(commandLoop.batch)} ELSE {}
    <2>1. /\ CanTake(commandLoop) /\ commandLoop' = Taken(commandLoop, label)
          /\ UNCHANGED <<commands, execution, mission, approval>>
      BY <1>8, TheirLoops DEF C!TakeCommand, C!controlPlane
    <2>2. /\ label \in C!CommandLabels \ {"idle"}
          /\ label = "guard" \/ (label = "ack" /\ label \notin EarlyLabels)
      BY DEF C!CommandLabels, EarlyLabels
    <2>3. \A i \in gone : commands.log[i] # m
      BY <1>2
    <2>. HIDE DEF label
    <2>4. UnhandledCommands' = UnhandledCommands \ gone
      <3>1. /\ label \in EarlyLabels => UnhandledCommands' = UnhandledCommands
            /\ label \notin EarlyLabels
                 => UnhandledCommands' = UnhandledCommands \ {Head(commandLoop.batch)}
        BY <1>1, <2>1, <2>2, UnhandledTakes DEF UnhandledCommands
      <3>2. label = "guard" => label \in EarlyLabels  BY DEF EarlyLabels
      <3>. QED  BY <2>2, <3>1, <3>2
    <2>. HIDE DEF gone
    <2>5. AsCommand(m)' = AsCommand(m) \ gone  BY <1>1, <2>1, <2>4, CommandPut
    <2>6. AsCommand(m)' = AsCommand(m)  BY <2>3, <2>5 DEF AsCommand
    <2>. QED  BY <1>5, <2>1, <2>6 DEF Moved
  \* A handler goes on: the command stays its, or is handled.
  <1>9. ASSUME NEW label \in C!CommandLabels, commands' = commands,
               commandLoop.pc \in EarlyLabels \/ commandLoop.pc = "notify",
               commandLoop' = Goto(commandLoop, label)
        PROVE  /\ (commandLoop.pc \in EarlyLabels <=> label \in EarlyLabels)
                     => AsCommand(m)' = AsCommand(m)
               /\ label \notin EarlyLabels => AsCommand(m)' = AsCommand(m) \ {commandLoop.cur}
               /\ commandLoop.pc \in EarlyLabels /\ C!Command = m
                     => commandLoop.cur \in AsCommand(m)
               /\ C!Command # m => commandLoop.cur \notin AsCommand(m)
    <2>1. commandLoop.pc # "idle" /\ label \in C!CommandLabels \ {"idle"}
      BY <1>9 DEF EarlyLabels, C!CommandLabels
    <2>2. /\ commandLoop.pc \in EarlyLabels => commandLoop.cur \in UnhandledCommands
          /\ (commandLoop.pc \in EarlyLabels <=> label \in EarlyLabels)
               => UnhandledCommands' = UnhandledCommands
          /\ label \notin EarlyLabels => UnhandledCommands' = UnhandledCommands \ {commandLoop.cur}
      BY <1>1, <1>9, <2>1, UnhandledGoes DEF UnhandledCommands
    <2>3. \A gone : UnhandledCommands' = UnhandledCommands \ gone
                      => AsCommand(m)' = AsCommand(m) \ gone
      BY <1>1, <1>9, CommandPut
    <2>4. UnhandledCommands' = UnhandledCommands => AsCommand(m)' = AsCommand(m)
      <3>1. UnhandledCommands' = UnhandledCommands => UnhandledCommands' = UnhandledCommands \ {}
        OBVIOUS
      <3>2. UnhandledCommands' = UnhandledCommands \ {} => AsCommand(m)' = AsCommand(m) \ {}
        BY <2>3
      <3>. QED  BY <3>1, <3>2
    <2>. QED  BY <2>2, <2>3, <2>4 DEF AsCommand, C!Command
  <1>10. CASE \E a \in C!Answers : C!AskGuard(a)
    <2>1. PICK a \in C!Answers : C!AskGuard(a)  BY <1>10
    <2>2. C!Decision(a) \in C!CommandLabels /\ C!Decision(a) \in EarlyLabels
      BY DEF C!Decision, C!Answers, C!CommandLabels, EarlyLabels
    <2>3. /\ commandLoop.pc \in EarlyLabels /\ commandLoop' = Goto(commandLoop, C!Decision(a))
          /\ UNCHANGED <<commands, execution, mission, approval>>
      BY <2>1, TheirLoops DEF C!AskGuard, EarlyLabels, C!controlPlane
    <2>. QED  BY <1>5, <1>9, <2>2, <2>3 DEF Moved
  <1>11. CASE C!PostActive
    <2>1. /\ commandLoop.pc \in EarlyLabels /\ commandLoop' = Goto(commandLoop, "add")
          /\ "add" \in EarlyLabels /\ "add" \in C!CommandLabels
          /\ UNCHANGED <<commands, execution, approval>>
          /\ C!Command \in Missions
          /\ \/ mission' = [mission EXCEPT ![C!Command] = "active"]
             \/ C!Command # m /\ mission' = mission
      BY <1>2, <1>11, TheirLoops DEF C!PostActive, C!Hit, EarlyLabels, C!CommandLabels
    <2>2. /\ AsCommand(m)' = AsCommand(m)
          /\ C!Command = m => commandLoop.cur \in AsCommand(m)
      BY <1>9, <2>1
    <2>3. AsEntry(m)' = AsEntry(m) /\ ForApproval(m)' = ForApproval(m)  BY <1>4, <1>5, <2>1
    <2>4. Holders(m)' = Holders(m)  BY <1>3, <2>2, <2>3 DEF Holders
    <2>5. CASE C!Command # m
      BY <1>2, <1>3, <2>1, <2>4, <2>5 DEF Kept, Moved
    <2>6. CASE C!Command = m
      <3>1. <<"command", commandLoop.cur>> \in Holders(m)  BY <2>2, <2>6 DEF Holders
      <3>2. intake'[m] # "new"  BY <1>3, <3>1, NotNew
      <3>3. mission'[m] \notin Terminal  BY <1>2, <2>1, <2>6 DEF Terminal
      <3>. QED  BY <2>4, <3>1, <3>2, <3>3 DEF Passed, Moved
    <2>. QED  BY <2>5, <2>6
  <1>12. CASE C!AddExecution
    <2> DEFINE e == [mission |-> C!Command, skip |-> FALSE]
    <2>1. /\ commandLoop.pc \in EarlyLabels /\ commandLoop' = Goto(commandLoop, "ack")
          /\ "ack" \notin EarlyLabels /\ "ack" \in C!CommandLabels
          /\ C!Command \in Missions
          /\ UNCHANGED <<commands, mission, approval>>
          /\ execution' = XAdd(execution, e)
      BY <1>2, <1>12, TheirLoops, TheirStreams
         DEF C!AddExecution, EarlyLabels, C!CommandLabels, C!controlPlane
    <2>2. /\ AsCommand(m)' = AsCommand(m) \ {commandLoop.cur}
          /\ C!Command = m => commandLoop.cur \in AsCommand(m)
          /\ C!Command # m => AsCommand(m)' = AsCommand(m)
      BY <1>9, <2>1
    <2>3. e \in Entries /\ e.mission = C!Command  BY <2>1 DEF Entries
    <2>. HIDE DEF e
    <2>4. /\ C!Command # m => AsEntry(m)' = AsEntry(m)
          /\ C!Command = m => AsEntry(m)' = AsEntry(m) \cup {Len(execution.log) + 1}
      BY <1>3, <2>1, <2>3, EntryGiven DEF Peaceful
    <2>5. ForApproval(m)' = ForApproval(m)  BY <1>5, <2>1
    <2>6. CASE C!Command # m
      BY <1>3, <2>1, <2>2, <2>4, <2>5, <2>6, AllKept DEF Moved
    <2>7. CASE C!Command = m
      <3>1. <<"command", commandLoop.cur>> \in Holders(m)  BY <2>2, <2>7 DEF Holders
      <3>2. <<"entry", Len(execution.log) + 1>> \in Holders(m)'  BY <2>4, <2>7 DEF Holders
      <3>3. Holders(m)' \subseteq (Holders(m) \ {<<"command", commandLoop.cur>>})
                                    \cup {<<"entry", Len(execution.log) + 1>>}
        BY <1>3, <2>2, <2>4, <2>5, <2>7 DEF Holders
      <3>4. intake'[m] # "new"  BY <1>3, <3>1, NotNew
      <3>. QED  BY <2>1, <3>1, <3>2, <3>3, <3>4 DEF Passed, Moved
    <2>. QED  BY <2>6, <2>7
  <1>13. CASE C!OpenApproval
    <2>1. /\ commandLoop.pc \in EarlyLabels /\ commandLoop' = Goto(commandLoop, "notify")
          /\ "notify" \notin EarlyLabels /\ "notify" \in C!CommandLabels
          /\ C!Command \in Missions
          /\ UNCHANGED <<commands, execution>>
          /\ \/ /\ mission' = [mission EXCEPT ![C!Command] = "awaiting_approval"]
                /\ approval' = [approval EXCEPT ![C!Command] = "pending"]
             \/ C!Command # m /\ mission' = mission /\ approval' = approval
      BY <1>2, <1>13, TheirLoops DEF C!OpenApproval, C!Hit, EarlyLabels, C!CommandLabels
    <2>2. /\ AsCommand(m)' = AsCommand(m) \ {commandLoop.cur}
          /\ C!Command = m => commandLoop.cur \in AsCommand(m)
          /\ C!Command # m => AsCommand(m)' = AsCommand(m)
      BY <1>9, <2>1
    <2>3. AsEntry(m)' = AsEntry(m)  BY <1>4, <2>1
    <2>4. CASE C!Command # m
      <3>1. mission'[m] = mission[m] /\ approval'[m] = approval[m]  BY <1>2, <2>1, <2>4
      <3>. QED  BY <1>3, <1>5, <2>2, <2>3, <2>4, <3>1, AllKept DEF Moved
    <2>5. CASE C!Command = m
      <3>1. mission'[m] = "awaiting_approval" /\ approval'[m] = "pending"
        BY <1>2, <2>1, <2>5
      <3>2. ForApproval(m)' = {0}  BY <3>1 DEF ForApproval
      <3>3. <<"command", commandLoop.cur>> \in Holders(m)  BY <2>2, <2>5 DEF Holders
      <3>4. <<"approval", 0>> \in Holders(m)'  BY <3>2 DEF Holders
      <3>5. Holders(m)' \subseteq (Holders(m) \ {<<"command", commandLoop.cur>>})
                                    \cup {<<"approval", 0>>}
        BY <1>3, <2>2, <2>3, <3>2 DEF Holders
      <3>6. intake'[m] # "new"  BY <1>3, <3>3, NotNew
      <3>7. mission'[m] \notin Terminal  BY <3>1 DEF Terminal
      <3>. QED  BY <3>3, <3>4, <3>5, <3>6, <3>7 DEF Passed, Moved
    <2>. QED  BY <2>4, <2>5
  <1>14. CASE C!NotifyApproval
    <2>1. /\ commandLoop.pc = "notify" /\ commandLoop.pc \notin EarlyLabels
          /\ commandLoop' = Goto(commandLoop, "ack")
          /\ "ack" \notin EarlyLabels /\ "ack" \in C!CommandLabels
          /\ UNCHANGED <<commands, execution, mission, approval>>
      BY <1>14, TheirLoops DEF C!NotifyApproval, EarlyLabels, C!CommandLabels, C!controlPlane
    <2>. QED  BY <1>5, <1>9, <2>1 DEF Moved
  <1>15. CASE C!PostDenied
    <2>1. /\ commandLoop.pc \in EarlyLabels /\ commandLoop' = Goto(commandLoop, "ack")
          /\ "ack" \notin EarlyLabels /\ "ack" \in C!CommandLabels
          /\ C!Command \in Missions
          /\ UNCHANGED <<commands, execution, approval>>
          /\ \/ mission' = [mission EXCEPT ![C!Command] = "failed"]
             \/ C!Command # m /\ mission' = mission
      BY <1>2, <1>15, TheirLoops DEF C!PostDenied, C!Hit, EarlyLabels, C!CommandLabels
    <2>2. /\ AsCommand(m)' = AsCommand(m) \ {commandLoop.cur}
          /\ C!Command = m => commandLoop.cur \in AsCommand(m)
          /\ C!Command # m => AsCommand(m)' = AsCommand(m)
      BY <1>9, <2>1
    <2>3. AsEntry(m)' = AsEntry(m) /\ ForApproval(m)' = ForApproval(m)  BY <1>4, <1>5, <2>1
    <2>4. CASE C!Command # m
      <3>1. mission'[m] = mission[m]  BY <1>2, <2>1, <2>4
      <3>. QED  BY <1>3, <2>2, <2>3, <2>4, <3>1, AllKept DEF Moved
    <2>5. CASE C!Command = m
      <3>1. mission'[m] \in Terminal  BY <1>2, <2>1, <2>5 DEF Terminal
      <3>2. <<"command", commandLoop.cur>> \in Holders(m)  BY <2>2, <2>5 DEF Holders
      <3>3. Holders(m)' \subseteq Holders(m) \ {<<"command", commandLoop.cur>>}
        BY <1>3, <2>2, <2>3 DEF Holders
      <3>. QED  BY <3>1, <3>2, <3>3 DEF Ended, Moved
    <2>. QED  BY <2>4, <2>5
  <1>16. CASE C!AckCommand \/ C!LeaveCommand
    <2>1. /\ commandLoop.pc # "idle" /\ commandLoop' = Finished(commandLoop)
          /\ commands' \in {commands, XAck(commands, commandLoop.cur)}
          /\ UNCHANGED <<mission, approval>>
          /\ commandLoop.pc \notin EarlyLabels \/ C!Command # m
      BY <1>2, <1>16, TheirLoops, TheirStreams DEF C!AckCommand, C!LeaveCommand, C!Hit,
         EarlyLabels, C!controlPlane
    <2>2. \/ execution' = execution
          \/ /\ C!Command \in Missions /\ C!Command # m
             /\ execution' = XAdd(execution, [mission |-> C!Command, skip |-> FALSE])
      BY <1>2, <1>16, TheirStreams DEF C!AckCommand, C!LeaveCommand, C!Hit
    <2>3. /\ Unhandled(commandLoop', commands, EarlyLabels) = UnhandledCommands \ {commandLoop.cur}
          /\ commandLoop.pc \notin EarlyLabels
               => Unhandled(commandLoop', commands, EarlyLabels) = UnhandledCommands \ {}
      BY <1>1, <1>6, <2>1, UnhandledFinishes DEF UnhandledCommands
    <2>4. UnhandledCommands' = Unhandled(commandLoop', commands, EarlyLabels)
      BY <1>1, <2>1, UnhandledAcks DEF UnhandledCommands
    <2>5. Extends(commands', commands, CommandEntries)  BY <1>1, <2>1
    <2>6. AsCommand(m)' = AsCommand(m)
      <3>1. CASE commandLoop.pc \notin EarlyLabels
        <4>1. UnhandledCommands' = UnhandledCommands \ {}  BY <2>3, <2>4, <3>1
        <4>2. AsCommand(m)' = AsCommand(m) \ {}  BY <2>5, <4>1, CommandPut
        <4>. QED  BY <4>2
      <3>2. CASE C!Command # m
        <4>1. UnhandledCommands' = UnhandledCommands \ {commandLoop.cur}  BY <2>3, <2>4
        <4>2. AsCommand(m)' = AsCommand(m) \ {commandLoop.cur}  BY <2>5, <4>1, CommandPut
        <4>. QED  BY <3>2, <4>2 DEF AsCommand, C!Command
      <3>. QED  BY <2>1, <3>1, <3>2
    <2>7. AsEntry(m)' = AsEntry(m)
      <3>1. C!Command \in Missions => [mission |-> C!Command, skip |-> FALSE] \in Entries
        BY DEF Entries
      <3>. QED  BY <1>3, <1>4, <2>2, <3>1, EntryGiven DEF Peaceful
    <2>. QED  BY <1>3, <1>5, <2>1, <2>6, <2>7, AllKept DEF Moved
  <1>. QED  BY <1>7, <1>8, <1>10, <1>11, <1>12, <1>13, <1>14, <1>15, <1>16
         DEF Coordinate, C!HandleCommand

LEMMA ReportPut ==
    ASSUME NEW m, NEW gone, Extends(receiptStream', receiptStream, Reports),
           UnhandledReports' = UnhandledReports \ gone
    PROVE  AsReport(m)' = AsReport(m) \ gone
  <1>1. UnhandledReports \subseteq Positions(receiptStream)  BY DEF UnhandledReports, Unhandled
  <1>2. \A i \in UnhandledReports : receiptStream'.log[i] = receiptStream.log[i]
    BY <1>1 DEF Extends
  <1>. QED  BY <1>2 DEF AsReport

LEMMA ReportMoves ==
    ASSUME NEW m, Peaceful(m), Coordinate(C!HandleReceipt \/ C!GiveUpReceipt)
    PROVE  Moved(m)
  <1>1. /\ StreamOK(receiptStream, Reports)
        /\ LoopOK(receiptLoop, receiptStream, C!ReceiptLabels)
        /\ Extends(receiptStream, receiptStream, Reports)
        /\ Extends(XAck(receiptStream, receiptLoop.cur), receiptStream, Reports)
        /\ Extends(XReadGroup(receiptStream, BatchSize), receiptStream, Reports)
        /\ BatchSize \in Nat
    <2>1. StreamOK(receiptStream, Reports) /\ LoopOK(receiptLoop, receiptStream, C!ReceiptLabels)
      BY DEF Peaceful, TypeInv, StreamsInv, LoopsInv
    <2>2. BatchSize \in Nat  BY MissionLoopAssumption
    <2>. QED  BY <2>1, <2>2, StreamSteps
  <1>2. /\ m \in Missions /\ m \notin faults' /\ m # Poison
        /\ mission \in [Missions -> {"none", "pending", "awaiting_approval", "active",
                                     "blocked", "complete", "failed"}]
        /\ receiptLoop.pc \notin {"idle", "ack"} => C!Report.mission \in Missions
    BY MissionLoopAssumption DEF Peaceful, TypeInv, RowsInv, LoopsInv
  <1>3. /\ UNCHANGED <<commands, commandLoop, approval, resume, intake, execution, workerLoop,
                       hand, recorded>>
        /\ mission' = mission \/ C!PostReportedStatus
    BY DEF Coordinate, operator, workerOnly, executorOnly, C!HandleReceipt, C!GiveUpReceipt,
           C!ReadReceipts, C!TakeReceipt, C!PostReportedStatus, C!NotifyReceipt,
           C!PostReportReceipt, C!AckReceipt, C!controlPlane
  <1>4. /\ AtIntake(m)' = AtIntake(m) /\ AsCommand(m)' = AsCommand(m)
        /\ ForApproval(m)' = ForApproval(m) /\ ForResume(m)' = ForResume(m)
        /\ AsEntry(m)' = AsEntry(m)
    BY <1>3, Elsewhere
  <1>5. mission' = mission /\ AsReport(m)' = AsReport(m) => Kept(m)
    BY <1>3, <1>4, AllKept
  <1>6. CASE C!ReadReceipts
    <2>1. /\ Idle(receiptLoop) /\ receiptStream' = XReadGroup(receiptStream, BatchSize)
          /\ receiptLoop' = Handed(receiptLoop, receiptStream, BatchSize)
          /\ mission' = mission
      BY <1>6, TheirStreams, TheirLoops DEF C!ReadReceipts, CanRead, C!controlPlane
    <2>2. UnhandledReports' = UnhandledReports \ {}
      BY <1>1, <2>1, UnhandledReads DEF UnhandledReports
    <2>3. AsReport(m)' = AsReport(m) \ {}  BY <1>1, <2>1, <2>2, ReportPut
    <2>. QED  BY <1>5, <2>1, <2>3 DEF Moved
  <1>7. CASE C!TakeReceipt
    <2> DEFINE first == Head(receiptLoop.batch)
               label == IF receiptStream.log[first].mission = Poison THEN "ack" ELSE "status"
    <2>1. /\ CanTake(receiptLoop) /\ receiptLoop' = Taken(receiptLoop, label)
          /\ UNCHANGED <<receiptStream, mission>>
      BY <1>7, TheirLoops DEF C!TakeReceipt, C!controlPlane
    <2>2. /\ label \in C!ReceiptLabels \ {"idle"}
          /\ label = "status" \/ (label = "ack" /\ receiptStream.log[first].mission # m)
      BY <1>2 DEF C!ReceiptLabels
    <2>. HIDE DEF label
    <2>3. /\ label = "status" => UnhandledReports' = UnhandledReports \ {}
          /\ label = "ack" => UnhandledReports' = UnhandledReports \ {first}
      <3>1. /\ label \in {"status"} => UnhandledReports' = UnhandledReports
            /\ label \notin {"status"} => UnhandledReports' = UnhandledReports \ {first}
        BY <1>1, <2>1, <2>2, UnhandledTakes DEF UnhandledReports
      <3>. QED  BY <3>1
    <2>. HIDE DEF first
    <2>4. /\ label = "status" => AsReport(m)' = AsReport(m) \ {}
          /\ label = "ack" => AsReport(m)' = AsReport(m) \ {first}
      BY <1>1, <2>1, <2>3, ReportPut
    <2>5. AsReport(m)' = AsReport(m)  BY <2>2, <2>4 DEF AsReport
    <2>. QED  BY <1>5, <2>1, <2>5 DEF Moved
  <1>8. CASE C!PostReportedStatus
    <2>1. /\ receiptLoop.pc = "status" /\ receiptLoop' = Goto(receiptLoop, "notify")
          /\ "notify" \in C!ReceiptLabels \ {"idle"}
          /\ receiptStream' = receiptStream
          /\ C!Report.mission \in Missions
          /\ \/ \E st \in {"complete", "failed"} :
                   mission' = [mission EXCEPT ![C!Report.mission] = st]
             \/ C!Report.mission # m /\ mission' = mission
      BY <1>2, <1>8, TheirLoops DEF C!PostReportedStatus, C!Hit, C!ReceiptLabels
    <2>2. /\ receiptLoop.cur \in UnhandledReports
          /\ UnhandledReports' = UnhandledReports \ {receiptLoop.cur}
      BY <1>1, <2>1, UnhandledGoes DEF UnhandledReports
    <2>3. AsReport(m)' = AsReport(m) \ {receiptLoop.cur}  BY <1>1, <2>1, <2>2, ReportPut
    <2>4. CASE C!Report.mission # m
      <3>1. AsReport(m)' = AsReport(m)  BY <2>3, <2>4 DEF AsReport, C!Report
      <3>2. mission'[m] = mission[m]  BY <1>2, <2>1, <2>4
      <3>. QED  BY <1>3, <1>4, <3>1, <3>2, AllKept DEF Moved
    <2>5. CASE C!Report.mission = m
      <3>1. mission'[m] \in Terminal  BY <1>2, <2>1, <2>5 DEF Terminal
      <3>2. receiptLoop.cur \in AsReport(m)  BY <2>2, <2>5 DEF AsReport, C!Report
      <3>3. <<"report", receiptLoop.cur>> \in Holders(m)  BY <3>2 DEF Holders
      <3>4. Holders(m)' \subseteq Holders(m) \ {<<"report", receiptLoop.cur>>}
        BY <1>4, <2>3 DEF Holders
      <3>. QED  BY <3>1, <3>3, <3>4 DEF Ended, Moved
    <2>. QED  BY <2>4, <2>5
  <1>9. CASE C!NotifyReceipt \/ C!PostReportReceipt
    <2>1. PICK label \in {"receipt", "ack"} :
             /\ receiptLoop.pc \in {"notify", "receipt"} /\ receiptLoop' = Goto(receiptLoop, label)
             /\ UNCHANGED <<receiptStream, mission>>
      BY <1>9, TheirLoops DEF C!NotifyReceipt, C!PostReportReceipt, C!controlPlane
    <2>2. label \in C!ReceiptLabels \ {"idle"} /\ receiptLoop.pc # "idle"
      BY <2>1 DEF C!ReceiptLabels
    <2>3. UnhandledReports' = UnhandledReports \ {}
      BY <1>1, <2>1, <2>2, UnhandledGoes DEF UnhandledReports
    <2>4. AsReport(m)' = AsReport(m) \ {}  BY <1>1, <2>1, <2>3, ReportPut
    <2>. QED  BY <1>5, <2>1, <2>4 DEF Moved
  <1>10. CASE C!AckReceipt \/ C!GiveUpReceipt
    <2>1. /\ receiptLoop.pc # "idle" /\ receiptLoop' = Finished(receiptLoop)
          /\ receiptStream' \in {receiptStream, XAck(receiptStream, receiptLoop.cur)}
          /\ mission' = mission
          /\ receiptLoop.pc = "ack" \/ C!Report.mission # m
      BY <1>2, <1>10, TheirLoops, TheirStreams DEF C!AckReceipt, C!GiveUpReceipt, C!Hit,
         C!controlPlane
    <2>2. /\ Unhandled(receiptLoop', receiptStream, {"status"})
               = UnhandledReports \ {receiptLoop.cur}
          /\ receiptLoop.pc = "ack"
               => Unhandled(receiptLoop', receiptStream, {"status"}) = UnhandledReports \ {}
      BY <1>1, <2>1, UnhandledFinishes DEF UnhandledReports
    <2>3. UnhandledReports' = Unhandled(receiptLoop', receiptStream, {"status"})
      BY <1>1, <2>1, UnhandledAcks DEF UnhandledReports
    <2>4. Extends(receiptStream', receiptStream, Reports)  BY <1>1, <2>1
    <2>5. AsReport(m)' = AsReport(m)
      <3>1. CASE receiptLoop.pc = "ack"
        <4>1. UnhandledReports' = UnhandledReports \ {}  BY <2>2, <2>3, <3>1
        <4>2. AsReport(m)' = AsReport(m) \ {}  BY <2>4, <4>1, ReportPut
        <4>. QED  BY <4>2
      <3>2. CASE C!Report.mission # m
        <4>1. UnhandledReports' = UnhandledReports \ {receiptLoop.cur}  BY <2>2, <2>3
        <4>2. AsReport(m)' = AsReport(m) \ {receiptLoop.cur}  BY <2>4, <4>1, ReportPut
        <4>. QED  BY <3>2, <4>2 DEF AsReport, C!Report
      <3>. QED  BY <2>1, <3>1, <3>2
    <2>. QED  BY <1>5, <2>1, <2>5 DEF Moved
  <1>. QED  BY <1>6, <1>7, <1>8, <1>9, <1>10 DEF Coordinate, C!HandleReceipt

\* What a crash of the coordinator takes with it is on record as faulty.
LEMMA CoordinatorCrashes ==
    ASSUME NEW m, Peaceful(m), Coordinate(C!CrashCoordinator)
    PROVE  Moved(m)
  <1>1. /\ StreamOK(commands, CommandEntries) /\ StreamOK(receiptStream, Reports)
        /\ LoopOK(commandLoop, commands, C!CommandLabels)
        /\ LoopOK(receiptLoop, receiptStream, C!ReceiptLabels)
        /\ m \notin faults'
    BY DEF Peaceful, TypeInv, StreamsInv, LoopsInv
  <1>2. /\ commandLoop' = IdleLoop /\ receiptLoop' = IdleLoop
        /\ UNCHANGED <<commands, receiptStream, execution, mission, approval, intake, resume,
                       workerLoop, hand, recorded>>
    BY TheirLoops DEF Coordinate, C!CrashCoordinator, operator, workerOnly, executorOnly,
       C!controlPlane
  <1>3. C!InHand(commandLoop) = InHand(commandLoop) /\ C!InHand(receiptLoop) = InHand(receiptLoop)
    BY DEF C!InHand, InHand, C!NoEntry, NoEntry
  <1>4. /\ \A i \in InHand(commandLoop) : commands.log[i] # m
        /\ \A i \in InHand(receiptLoop) : receiptStream.log[i].mission # m
    <2>1. /\ \A i \in C!InHand(commandLoop) : commands.log[i] \in faults'
          /\ \A i \in C!InHand(receiptLoop) : receiptStream.log[i].mission \in faults'
      BY DEF Coordinate, C!CrashCoordinator
    <2>. QED  BY <1>1, <1>3, <2>1
  <1>5. UnhandledCommands' = UnhandledCommands \ InHand(commandLoop)
    <2>1. "idle" \notin EarlyLabels  BY DEF EarlyLabels
    <2>. QED  BY <1>1, <1>2, <2>1, UnhandledDies DEF UnhandledCommands
  <1>6. UnhandledReports' = UnhandledReports \ InHand(receiptLoop)
    BY <1>1, <1>2, UnhandledDies DEF UnhandledReports
  <1>7. /\ Extends(commands', commands, CommandEntries)
        /\ Extends(receiptStream', receiptStream, Reports)
    BY <1>1, <1>2, StreamSteps
  <1>8. AsCommand(m)' = AsCommand(m)
    <2>1. AsCommand(m)' = AsCommand(m) \ InHand(commandLoop)  BY <1>5, <1>7, CommandPut
    <2>. QED  BY <1>4, <2>1 DEF AsCommand
  <1>9. AsReport(m)' = AsReport(m)
    <2>1. AsReport(m)' = AsReport(m) \ InHand(receiptLoop)  BY <1>6, <1>7, ReportPut
    <2>. QED  BY <1>4, <2>1 DEF AsReport
  <1>. QED  BY <1>2, <1>8, <1>9, Elsewhere, AllKept DEF Moved

LEMMA EntryPut ==
    ASSUME TypeInv, NEW m, NEW gone, gone \cap hand = {}, UNCHANGED <<hand, recorded>>,
           Extends(execution', execution, Entries),
           UnhandledEntries' = UnhandledEntries \ gone
    PROVE  AsEntry(m)' = AsEntry(m) \ gone
  <1>1. OpenHand' = OpenHand /\ OpenHand \cap gone = {}  BY DEF OpenHand, X!HasStatus
  <1>2. UnhandledEntries \subseteq Positions(execution) /\ OpenHand \subseteq Positions(execution)
    BY DEF UnhandledEntries, Unhandled, OpenHand, TypeInv, HandInv
  <1>3. \A i \in UnhandledEntries \cup OpenHand : execution'.log[i] = execution.log[i]
    BY <1>2 DEF Extends
  <1>. QED  BY <1>1, <1>3 DEF AsEntry

LEMMA WorkMoves ==
    ASSUME NEW m, Peaceful(m), WorkOn(W!Next)
    PROVE  Moved(m)
  <1>1. /\ StreamOK(execution, Entries) /\ StreamOK(receiptStream, Reports)
        /\ LoopOK(workerLoop, execution, W!WorkLabels)
        /\ Extends(execution, execution, Entries)
        /\ Extends(XAck(execution, workerLoop.cur), execution, Entries)
        /\ Extends(XReadGroup(execution, BatchSize), execution, Entries)
        /\ BatchSize \in Nat
    <2>1. /\ StreamOK(execution, Entries) /\ StreamOK(receiptStream, Reports)
          /\ LoopOK(workerLoop, execution, W!WorkLabels)
      BY DEF Peaceful, TypeInv, StreamsInv, LoopsInv
    <2>2. BatchSize \in Nat  BY MissionLoopAssumption
    <2>. QED  BY <2>1, <2>2, StreamSteps
  <1>2. /\ m \in Missions /\ m \notin faults' /\ m # Poison /\ TypeInv
        /\ workerLoop.pc \notin {"idle", "ack", "ackError"} => W!Work.mission \in Missions
        /\ workerLoop.cur \notin hand /\ Waiting(workerLoop) \cap hand = {}
    BY MissionLoopAssumption DEF Peaceful, TypeInv, LoopsInv, HandsApart
  <1>3. UNCHANGED <<commands, commandLoop, receiptLoop, approval, resume, intake, mission, hand,
                    recorded>>
    BY DEF WorkOn, coordinatorOnly, executorOnly, operator
  <1>4. /\ AtIntake(m)' = AtIntake(m) /\ AsCommand(m)' = AsCommand(m)
        /\ ForApproval(m)' = ForApproval(m) /\ ForResume(m)' = ForResume(m)
        /\ receiptStream' = receiptStream => AsReport(m)' = AsReport(m)
    BY <1>3, Elsewhere
  <1>5. AsReport(m)' = AsReport(m) /\ AsEntry(m)' = AsEntry(m) => Moved(m)
    BY <1>3, <1>4, AllKept DEF Moved
  <1>6. ASSUME NEW gone, gone \cap hand = {}, Extends(execution', execution, Entries),
               UnhandledEntries' = UnhandledEntries \ gone
        PROVE  AsEntry(m)' = AsEntry(m) \ gone
    BY <1>2, <1>3, <1>6, EntryPut
  <1>7. \A ok \in BOOLEAN :
          receiptStream' = W!Reported(ok) /\ W!Work.mission \in Missions
            => /\ W!Work.mission # m => AsReport(m)' = AsReport(m)
               /\ W!Work.mission = m
                    => AsReport(m)' = AsReport(m) \cup {Len(receiptStream.log) + 1}
    <2>. SUFFICES ASSUME NEW ok \in BOOLEAN, receiptStream' = W!Reported(ok),
                         W!Work.mission \in Missions
                  PROVE  /\ W!Work.mission # m => AsReport(m)' = AsReport(m)
                         /\ W!Work.mission = m
                              => AsReport(m)' = AsReport(m) \cup {Len(receiptStream.log) + 1}
      OBVIOUS
    <2> DEFINE e == [mission |-> W!Work.mission, ok |-> ok]
    <2>1. receiptStream' = XAdd(receiptStream, e)  BY TheirStreams DEF W!Reported
    <2>2. e \in Reports /\ e.mission = W!Work.mission  BY DEF Reports
    <2>. HIDE DEF e
    <2>. QED  BY <1>2, <1>3, <2>1, <2>2, ReportAdded
  \* A handler goes on: the entry stays its, or is handled.
  <1>8. ASSUME NEW label \in {"ack", "report", "ackError"}, workerLoop.pc # "idle",
               workerLoop' = Goto(workerLoop, label)
        PROVE  /\ LoopOK(workerLoop', execution, W!WorkLabels)
               /\ Unhandled(workerLoop', execution, {"classify"})
                    = UnhandledEntries \ {workerLoop.cur}
               /\ workerLoop.pc = "classify" => workerLoop.cur \in UnhandledEntries
               /\ workerLoop.pc # "classify" => workerLoop.cur \notin UnhandledEntries
    <2>1. label \in W!WorkLabels \ {"idle"} /\ label \notin {"classify"}
      BY DEF W!WorkLabels
    <2>2. /\ LoopOK(workerLoop', execution, W!WorkLabels)
          /\ Unhandled(workerLoop', execution, {"classify"}) = UnhandledEntries \ {workerLoop.cur}
          /\ workerLoop.pc \in {"classify"} => workerLoop.cur \in UnhandledEntries
      BY <1>1, <1>8, <2>1, UnhandledGoes, LoopGoes DEF UnhandledEntries
    <2>3. workerLoop.cur \in Delivered(execution) /\ workerLoop.cur \notin Waiting(workerLoop)
      BY <1>1, <1>8, InHandler DEF Delivered, LoopOK, Waiting
    <2>. QED  BY <2>2, <2>3 DEF UnhandledEntries, Unhandled
  <1>9. CASE W!ReadWork
    <2>1. /\ Idle(workerLoop) /\ execution' = XReadGroup(execution, BatchSize)
          /\ workerLoop' = Handed(workerLoop, execution, BatchSize)
          /\ receiptStream' = receiptStream
      BY <1>9, TheirStreams, TheirLoops DEF W!ReadWork, CanRead
    <2>2. UnhandledEntries' = UnhandledEntries \ {}
      BY <1>1, <2>1, UnhandledReads DEF UnhandledEntries
    <2>3. AsEntry(m)' = AsEntry(m) \ {}  BY <1>1, <1>6, <2>1, <2>2
    <2>. QED  BY <1>4, <1>5, <2>1, <2>3
  <1>10. CASE W!TakeWork
    <2> DEFINE first == Head(workerLoop.batch)
               e == execution.log[first]
               label == IF e.skip \/ e.mission = Poison THEN "ack" ELSE "classify"
    <2>1. /\ CanTake(workerLoop) /\ workerLoop' = Taken(workerLoop, label)
          /\ UNCHANGED <<execution, receiptStream>>
          /\ e.skip => first \in skipped'
      BY <1>10, TheirLoops DEF W!TakeWork
    <2>2. /\ label \in W!WorkLabels \ {"idle"}
          /\ label = "classify" \/ (label = "ack" /\ (e.skip \/ e.mission # m))
      BY <1>2 DEF W!WorkLabels
    <2>. HIDE DEF label
    <2>3. /\ label = "classify" => UnhandledEntries' = UnhandledEntries \ {}
          /\ label = "ack" => UnhandledEntries' = UnhandledEntries \ {first}
          /\ first \in UnhandledEntries /\ first \in Waiting(workerLoop)
      <3>1. /\ label \in {"classify"} => UnhandledEntries' = UnhandledEntries
            /\ label \notin {"classify"} => UnhandledEntries' = UnhandledEntries \ {first}
            /\ first \in UnhandledEntries
        BY <1>1, <2>1, <2>2, UnhandledTakes DEF UnhandledEntries
      <3>2. first \in Waiting(workerLoop)
        BY <1>1, <2>1, <2>2, LoopTakes DEF StreamOK, StreamType
      <3>. QED  BY <3>1, <3>2
    <2>. HIDE DEF first
    <2>4. {first} \cap hand = {} /\ {} \cap hand = {}  BY <1>2, <2>3
    <2>5. /\ label = "classify" => AsEntry(m)' = AsEntry(m) \ {}
          /\ label = "ack" => AsEntry(m)' = AsEntry(m) \ {first}
      BY <1>1, <1>6, <2>1, <2>3, <2>4
    <2>6. CASE label = "classify" \/ e.mission # m
      <3>1. AsEntry(m)' = AsEntry(m)  BY <2>2, <2>5, <2>6 DEF AsEntry
      <3>. QED  BY <1>4, <1>5, <2>1, <3>1
    <2>7. CASE label = "ack" /\ e.skip /\ e.mission = m
      <3>1. first \in AsEntry(m)  BY <2>3, <2>7 DEF AsEntry
      <3>2. <<"entry", first>> \in Holders(m)  BY <3>1 DEF Holders
      <3>3. Holders(m)' \subseteq Holders(m) \ {<<"entry", first>>}
        BY <1>4, <2>1, <2>5, <2>7 DEF Holders
      <3>4. RoutedBack(m)'  BY <2>1, <2>7 DEF RoutedBack
      <3>. QED  BY <3>2, <3>3, <3>4 DEF Ended, Moved
    <2>. QED  BY <2>2, <2>6, <2>7
  <1>11. CASE W!ClassifyFailed \/ W!ActOnIntent
    <2>1. /\ workerLoop.pc = "classify" /\ workerLoop' = Goto(workerLoop, "ack")
          /\ execution' = execution /\ W!Work.mission \in Missions
      BY <1>2, <1>11, TheirLoops DEF W!ClassifyFailed, W!ActOnIntent
    <2>2. \E ok \in BOOLEAN : receiptStream' = W!Reported(ok)
      BY <1>11 DEF W!ClassifyFailed, W!ActOnIntent
    <2>3. /\ UnhandledEntries' = UnhandledEntries \ {workerLoop.cur}
          /\ workerLoop.cur \in UnhandledEntries
      BY <1>8, <2>1 DEF UnhandledEntries
    <2>4. {workerLoop.cur} \cap hand = {}  BY <1>2
    <2>5. AsEntry(m)' = AsEntry(m) \ {workerLoop.cur}  BY <1>1, <1>6, <2>1, <2>3, <2>4
    <2>6. CASE W!Work.mission # m
      <3>1. AsEntry(m)' = AsEntry(m)  BY <2>5, <2>6 DEF AsEntry, W!Work
      <3>. QED  BY <1>5, <1>7, <2>1, <2>2, <2>6, <3>1
    <2>7. CASE W!Work.mission = m
      <3>1. AsReport(m)' = AsReport(m) \cup {Len(receiptStream.log) + 1}
        BY <1>7, <2>1, <2>2, <2>7
      <3>2. workerLoop.cur \in AsEntry(m)  BY <2>3, <2>7 DEF AsEntry, W!Work
      <3>3. <<"entry", workerLoop.cur>> \in Holders(m)  BY <3>2 DEF Holders
      <3>4. <<"report", Len(receiptStream.log) + 1>> \in Holders(m)'  BY <3>1 DEF Holders
      <3>5. Holders(m)' \subseteq (Holders(m) \ {<<"entry", workerLoop.cur>>})
                                    \cup {<<"report", Len(receiptStream.log) + 1>>}
        BY <1>4, <2>5, <3>1 DEF Holders
      <3>6. intake'[m] # "new"  BY <1>3, <3>3, NotNew
      <3>. QED  BY <1>3, <3>3, <3>4, <3>5, <3>6 DEF Passed, Moved
    <2>. QED  BY <2>6, <2>7
  <1>12. CASE W!RouteToExecutor
    <2> DEFINE e == [mission |-> W!Work.mission, skip |-> TRUE]
    <2>1. /\ workerLoop.pc = "classify" /\ workerLoop' = Goto(workerLoop, "ack")
          /\ execution' = XAdd(execution, e) /\ receiptStream' = receiptStream
          /\ W!Work.mission \in Missions
      BY <1>2, <1>12, TheirLoops, TheirStreams DEF W!RouteToExecutor
    <2>2. e \in Entries /\ e.mission = W!Work.mission  BY <2>1 DEF Entries
    <2>. HIDE DEF e
    <2>3. /\ LoopOK(workerLoop', execution, W!WorkLabels)
          /\ Unhandled(workerLoop', execution, {"classify"}) = UnhandledEntries \ {workerLoop.cur}
          /\ workerLoop.cur \in UnhandledEntries
      BY <1>8, <2>1
    <2>4. {workerLoop.cur} \cap hand = {}  BY <1>2
    <2>5. /\ e.mission # m => AsEntry(m)' = AsEntry(m) \ {workerLoop.cur}
          /\ e.mission = m
               => AsEntry(m)' = (AsEntry(m) \ {workerLoop.cur}) \cup {Len(execution.log) + 1}
      BY <1>2, <1>3, <2>1, <2>2, <2>3, <2>4, EntryAdded
    <2>6. CASE W!Work.mission # m
      <3>1. AsEntry(m)' = AsEntry(m)  BY <2>2, <2>5, <2>6 DEF AsEntry, W!Work
      <3>. QED  BY <1>4, <1>5, <2>1, <3>1
    <2>7. CASE W!Work.mission = m
      <3>1. workerLoop.cur \in AsEntry(m)  BY <2>3, <2>7 DEF AsEntry, W!Work
      <3>2. <<"entry", workerLoop.cur>> \in Holders(m)  BY <3>1 DEF Holders
      <3>3. <<"entry", Len(execution.log) + 1>> \in Holders(m)'  BY <2>2, <2>5, <2>7 DEF Holders
      <3>4. Holders(m)' \subseteq (Holders(m) \ {<<"entry", workerLoop.cur>>})
                                    \cup {<<"entry", Len(execution.log) + 1>>}
        BY <1>4, <2>1, <2>2, <2>5, <2>7 DEF Holders
      <3>5. intake'[m] # "new"  BY <1>3, <3>2, NotNew
      <3>. QED  BY <1>3, <3>2, <3>3, <3>4, <3>5 DEF Passed, Moved
    <2>. QED  BY <2>6, <2>7
  <1>13. CASE W!AckWork \/ W!AckError
    <2>1. /\ workerLoop.pc \in {"ack", "ackError"} /\ workerLoop' = Finished(workerLoop)
          /\ execution' \in {execution, XAck(execution, workerLoop.cur)}
          /\ receiptStream' = receiptStream
      BY <1>13, TheirLoops, TheirStreams DEF W!AckWork, W!AckError
    <2>2. Unhandled(workerLoop', execution, {"classify"}) = UnhandledEntries
      <3>1. workerLoop.pc # "idle" /\ workerLoop.pc \notin {"classify"} /\ "idle" \notin {"classify"}
        BY <2>1
      <3>. QED  BY <1>1, <2>1, <3>1, UnhandledFinishes DEF UnhandledEntries
    <2>3. UnhandledEntries' = UnhandledEntries \ {}
      BY <1>1, <2>1, <2>2, UnhandledAcks DEF UnhandledEntries
    <2>4. AsEntry(m)' = AsEntry(m) \ {}
      <3>1. Extends(execution', execution, Entries) /\ {} \cap hand = {}  BY <1>1, <2>1
      <3>. QED  BY <1>6, <2>3, <3>1
    <2>. QED  BY <1>4, <1>5, <2>1, <2>4
  <1>14. CASE W!ReportError
    <2>1. /\ workerLoop.pc = "report" /\ workerLoop' = Goto(workerLoop, "ackError")
          /\ execution' = execution /\ receiptStream' = W!Reported(FALSE)
          /\ W!Work.mission \in Missions /\ W!Work.mission # m
      BY <1>2, <1>14, TheirLoops DEF W!ReportError, Peaceful, FailedKnown
    <2>2. UnhandledEntries' = UnhandledEntries \ {workerLoop.cur}
      BY <1>8, <2>1 DEF UnhandledEntries
    <2>3. {workerLoop.cur} \cap hand = {}  BY <1>2
    <2>4. AsEntry(m)' = AsEntry(m) \ {workerLoop.cur}  BY <1>1, <1>6, <2>1, <2>2, <2>3
    <2>5. AsEntry(m)' = AsEntry(m)  BY <2>1, <2>4 DEF AsEntry, W!Work
    <2>. QED  BY <1>5, <1>7, <2>1, <2>5
  <1>15. CASE W!RaiseWork
    <2>1. PICK label \in {"report", "ackError"} :
             workerLoop.pc \in {"classify", "ack"} /\ workerLoop' = Goto(workerLoop, label)
      BY <1>15, TheirLoops DEF W!RaiseWork
    <2>2. W!Work.mission # m  BY <1>2, <1>15 DEF W!RaiseWork, W!Hit
    <2>3. \/ receiptStream' = receiptStream
          \/ /\ W!Work.mission \in Missions
             /\ \E ok \in BOOLEAN : receiptStream' = W!Reported(ok)
      BY <1>2, <1>15 DEF W!RaiseWork
    <2>4. AsReport(m)' = AsReport(m)  BY <1>4, <1>7, <2>2, <2>3
    <2>5. \/ execution' \in {execution, XAck(execution, workerLoop.cur)}
          \/ /\ W!Work.mission \in Missions
             /\ execution' = XAdd(execution, [mission |-> W!Work.mission, skip |-> TRUE])
      BY <1>2, <1>15, TheirStreams DEF W!RaiseWork
    <2>6. /\ LoopOK(workerLoop', execution, W!WorkLabels)
          /\ Unhandled(workerLoop', execution, {"classify"}) = UnhandledEntries \ {workerLoop.cur}
      BY <1>8, <2>1
    <2>7. {workerLoop.cur} \cap hand = {}  BY <1>2
    <2>8. AsEntry(m)' = AsEntry(m) \ {workerLoop.cur}
      <3>1. CASE execution' \in {execution, XAck(execution, workerLoop.cur)}
        <4>1. UnhandledEntries' = UnhandledEntries \ {workerLoop.cur}
          BY <1>1, <2>6, <3>1, UnhandledAcks DEF UnhandledEntries
        <4>2. Extends(execution', execution, Entries)  BY <1>1, <3>1
        <4>. QED  BY <1>6, <2>7, <4>1, <4>2
      <3>2. CASE /\ W!Work.mission \in Missions
                 /\ execution' = XAdd(execution, [mission |-> W!Work.mission, skip |-> TRUE])
        <4> DEFINE e == [mission |-> W!Work.mission, skip |-> TRUE]
        <4>1. e \in Entries /\ e.mission # m /\ execution' = XAdd(execution, e)
          BY <2>2, <3>2 DEF Entries
        <4>. HIDE DEF e
        <4>. QED  BY <1>2, <1>3, <2>6, <2>7, <4>1, EntryAdded
      <3>. QED  BY <2>5, <3>1, <3>2
    <2>9. AsEntry(m)' = AsEntry(m)  BY <2>2, <2>8 DEF AsEntry, W!Work
    <2>. QED  BY <1>5, <2>4, <2>9
  <1>16. CASE W!CrashWorker
    <2>1. /\ workerLoop' = IdleLoop /\ execution' = execution
          /\ \/ receiptStream' = receiptStream
             \/ workerLoop.pc = "report" /\ receiptStream' = W!Reported(FALSE)
      BY <1>16, TheirLoops DEF W!CrashWorker
    <2>2. \A i \in InHand(workerLoop) : execution.log[i].mission # m
      <3>1. W!InHand(workerLoop) = InHand(workerLoop)  BY DEF W!InHand, InHand, W!NoEntry, NoEntry
      <3>2. \A i \in W!InHand(workerLoop) : execution.log[i].mission \in faults'
        BY <1>16 DEF W!CrashWorker
      <3>. QED  BY <1>2, <3>1, <3>2
    <2>3. workerLoop.pc = "report" => W!Work.mission \in Missions /\ W!Work.mission # m
      <3>1. workerLoop.pc = "report" => workerLoop.cur \in InHand(workerLoop)
        BY <1>1 DEF LoopOK, InHand
      <3>. QED  BY <1>2, <2>2, <3>1 DEF W!Work
    <2>4. AsReport(m)' = AsReport(m)  BY <1>4, <1>7, <2>1, <2>3
    <2>5. UnhandledEntries' = UnhandledEntries \ InHand(workerLoop)
      BY <1>1, <2>1, UnhandledDies DEF UnhandledEntries
    <2>6. InHand(workerLoop) \cap hand = {}
      BY <1>2 DEF InHand, Waiting
    <2>7. AsEntry(m)' = AsEntry(m) \ InHand(workerLoop)  BY <1>1, <1>6, <2>1, <2>5, <2>6
    <2>8. AsEntry(m)' = AsEntry(m)  BY <2>2, <2>7 DEF AsEntry
    <2>. QED  BY <1>5, <2>4, <2>8
  <1>. QED  BY <1>9, <1>10, <1>11, <1>12, <1>13, <1>14, <1>15, <1>16
         DEF WorkOn, W!Next, W!HandleWork

LEMMA ExecutorMoves ==
    ASSUME NEW m, Peaceful(m), Execute(ExecutorStep)
    PROVE  Moved(m)
  <1>1. /\ StreamOK(execution, Entries) /\ LoopOK(workerLoop, execution, W!WorkLabels)
        /\ Extends(execution, execution, Entries)
        /\ Extends(XReadGroup(execution, BatchSize), execution, Entries)
        /\ \A i : Extends(XAck(execution, i), execution, Entries)
        /\ BatchSize \in Nat
    <2>1. StreamOK(execution, Entries) /\ LoopOK(workerLoop, execution, W!WorkLabels)
      BY DEF Peaceful, TypeInv, StreamsInv, LoopsInv
    <2>2. BatchSize \in Nat  BY MissionLoopAssumption
    <2>. QED  BY <2>1, <2>2, StreamSteps
  <1>2. /\ m \in Missions /\ m # Poison /\ TypeInv
        /\ \A i \in hit' : execution'.log[i].mission # m
        /\ mission \in [Missions -> {"none", "pending", "awaiting_approval", "active",
                                     "blocked", "complete", "failed"}]
        /\ hand \subseteq Positions(execution) /\ hand \subseteq Delivered(execution)
        /\ hand \cap (Waiting(workerLoop) \cup {workerLoop.cur}) = {}
        /\ \A x \in recorded : x.msg \in Delivered(execution)
    BY MissionLoopAssumption DEF Peaceful, TypeInv, RowsInv, HandInv, HandsApart
  <1>3. UNCHANGED <<commands, commandLoop, receiptStream, receiptLoop, approval, resume, intake,
                    workerLoop>>
    BY DEF Execute, coordinatorOnly, workerOnly, operator
  <1>4. /\ AtIntake(m)' = AtIntake(m) /\ AsCommand(m)' = AsCommand(m)
        /\ ForApproval(m)' = ForApproval(m) /\ ForResume(m)' = ForResume(m)
        /\ AsReport(m)' = AsReport(m)
    BY <1>3, Elsewhere
  <1>5. mission'[m] = mission[m] /\ AsEntry(m)' = AsEntry(m) => Moved(m)
    BY <1>3, <1>4, AllKept DEF Moved
  <1>6. hand \cap UnhandledEntries = {}  BY <1>2 DEF UnhandledEntries, Unhandled
  <1>7. /\ \A i \in UnhandledEntries : i \in Positions(execution)
        /\ \A i \in hand : i \in Positions(execution)
    BY <1>2 DEF UnhandledEntries, Unhandled
  <1>8. CASE X!Deliver
    <2> DEFINE given == Batch(execution, BatchSize)
    <2>1. /\ execution' = XReadGroup(execution, BatchSize)
          /\ UNCHANGED <<recorded, mission>>
          /\ \/ hand' = hand \cup given
             \/ hand' = hand /\ given \subseteq hit'
      BY <1>8, TheirStreams DEF X!Deliver
    <2>2. UnhandledEntries' = UnhandledEntries \ given
      BY <1>1, <1>3, <2>1, UnhandledGoesElsewhere DEF UnhandledEntries
    <2>3. /\ given \subseteq Positions(execution)
          /\ given \cap Delivered(execution) = {}
      <3>1. /\ given = execution.read + 1 .. XReadGroup(execution, BatchSize).read
            /\ XReadGroup(execution, BatchSize).log = execution.log
            /\ StreamOK(XReadGroup(execution, BatchSize), Entries)
        BY <1>1, ReadOK
      <3>2. /\ execution.read \in Nat /\ Len(execution.log) \in Nat
            /\ XReadGroup(execution, BatchSize).read \in Nat
            /\ XReadGroup(execution, BatchSize).read <= Len(execution.log)
        BY <1>1, <3>1 DEF StreamOK, StreamType
      <3>. HIDE DEF given
      <3>. QED  BY <3>1, <3>2 DEF Positions, Delivered
    <2>. HIDE DEF given
    <2>4. given \subseteq UnhandledEntries  BY <2>3 DEF UnhandledEntries, Unhandled
    <2>5. /\ \A i \in given : ~X!HasStatus(i)
          /\ \A i : X!HasStatus(i)' <=> X!HasStatus(i)
      BY <1>2, <2>1, <2>3 DEF X!HasStatus
    <2>6. Extends(execution', execution, Entries)  BY <1>1, <2>1
    <2>7. \A i \in UnhandledEntries \cup hand : execution'.log[i] = execution.log[i]
      BY <1>7, <2>6 DEF Extends
    <2>8. CASE hand' = hand \cup given
      <3>1. OpenHand' = OpenHand \cup given  BY <2>5, <2>8 DEF OpenHand
      <3>2. (UnhandledEntries \cup OpenHand)' = UnhandledEntries \cup OpenHand
        BY <2>2, <2>4, <3>1
      <3>3. OpenHand \subseteq hand  BY DEF OpenHand
      <3>4. AsEntry(m)' = AsEntry(m)  BY <2>7, <3>2, <3>3 DEF AsEntry
      <3>. QED  BY <1>5, <2>1, <3>4
    <2>9. CASE hand' = hand /\ given \subseteq hit'
      <3>1. OpenHand' = OpenHand  BY <2>5, <2>9 DEF OpenHand
      <3>2. \A i \in given : execution.log[i].mission # m  BY <1>2, <2>4, <2>7, <2>9
      <3>3. OpenHand \subseteq hand  BY DEF OpenHand
      <3>4. AsEntry(m)' = AsEntry(m)  BY <2>2, <2>7, <3>1, <3>2, <3>3 DEF AsEntry
      <3>. QED  BY <1>5, <2>1, <3>4
    <2>. QED  BY <2>1, <2>8, <2>9
  \* In the other steps what the worker has or nobody has stays so.
  <1>9. ASSUME Extends(execution', execution, Entries),
               Positions(execution') = Positions(execution),
               Delivered(execution') = Delivered(execution),
               NEW gone,
               \A k \in hand \cup hand' : execution.log[k].mission = m =>
                   (k \in OpenHand' <=> k \in OpenHand /\ k \notin gone),
               gone \subseteq hand, hand' \subseteq hand
        PROVE  AsEntry(m)' = AsEntry(m) \ gone
    <2>1. UnhandledEntries' = UnhandledEntries
      BY <1>3, <1>9 DEF UnhandledEntries, Unhandled
    <2>2. OpenHand \subseteq hand /\ OpenHand' \subseteq hand'  BY DEF OpenHand
    <2>3. \A i \in UnhandledEntries \cup hand : execution'.log[i] = execution.log[i]
      BY <1>7, <1>9 DEF Extends
    <2>4. gone \cap UnhandledEntries = {}  BY <1>6, <1>9
    <2>. QED  BY <1>9, <2>1, <2>2, <2>3, <2>4 DEF AsEntry
  <1>10. ASSUME NEW i \in hand, X!Handle(i)
         PROVE  Moved(m)
    <2>1. /\ execution' = execution /\ hand' \in {hand, IF i \in hit' THEN hand \ {i} ELSE hand}
          /\ \/ UNCHANGED <<recorded, mission>>
             \/ /\ X!MayRecord(i)
                /\ \E s \in X!Final :
                     /\ recorded' = recorded \cup {[msg |-> i, status |-> s]}
                     /\ mission' = [mission EXCEPT ![execution.log[i].mission] = s]
      BY <1>10 DEF X!Handle, MissionIn
    <2>2. /\ Extends(execution', execution, Entries)
          /\ Positions(execution') = Positions(execution)
          /\ Delivered(execution') = Delivered(execution)
      BY <1>1, <2>1
    <2>3. \A k : k # i => (X!HasStatus(k)' <=> X!HasStatus(k))
      BY <2>1 DEF X!HasStatus
    <2>4. hand \ {i} \subseteq hand' /\ hand' \subseteq hand  BY <2>1
    <2>5. CASE execution.log[i].mission # m
      <3>1. \A k \in hand \cup hand' : execution.log[k].mission = m =>
               (k \in OpenHand' <=> k \in OpenHand /\ k \notin {})
        BY <2>3, <2>4, <2>5 DEF OpenHand
      <3>2. AsEntry(m)' = AsEntry(m) \ {}  BY <1>9, <2>2, <2>4, <3>1
      <3>3. mission'[m] = mission[m]  BY <1>2, <2>1, <2>5
      <3>. QED  BY <1>5, <3>2, <3>3
    <2>6. CASE execution.log[i].mission = m
      <3>1. i \notin hit' /\ hand' = hand  BY <1>2, <2>1, <2>6
      <3>2. CASE UNCHANGED <<recorded, mission>>
        <4>1. OpenHand' = OpenHand  BY <3>1, <3>2 DEF OpenHand, X!HasStatus
        <4>2. AsEntry(m)' = AsEntry(m) \ {}  BY <1>9, <2>2, <2>4, <4>1
        <4>. QED  BY <1>5, <3>2, <4>2
      <3>3. CASE /\ X!MayRecord(i)
                 /\ \E s \in X!Final :
                     /\ recorded' = recorded \cup {[msg |-> i, status |-> s]}
                     /\ mission' = [mission EXCEPT ![execution.log[i].mission] = s]
        <4>1. ~X!HasStatus(i)  BY <3>1, <3>3 DEF X!MayRecord
        <4>2. X!HasStatus(i)'
          <5>1. PICK s \in X!Final : recorded' = recorded \cup {[msg |-> i, status |-> s]}
            BY <3>3
          <5>2. [msg |-> i, status |-> s] \in recorded' /\ [msg |-> i, status |-> s].msg = i
            BY <5>1
          <5>. QED  BY <5>2 DEF X!HasStatus
        <4>3. OpenHand' = OpenHand \ {i} /\ i \in OpenHand
          BY <2>3, <3>1, <4>1, <4>2, <1>10 DEF OpenHand
        <4>4. AsEntry(m)' = AsEntry(m) \ {i}
          <5>1. \A k \in hand \cup hand' : execution.log[k].mission = m =>
                   (k \in OpenHand' <=> k \in OpenHand /\ k \notin {i})
            BY <4>3
          <5>2. {i} \subseteq hand  BY <1>10
          <5>. QED  BY <1>9, <2>2, <2>4, <5>1, <5>2
        <4>5. i \in AsEntry(m)  BY <2>6, <4>3 DEF AsEntry
        <4>6. <<"entry", i>> \in Holders(m)  BY <4>5 DEF Holders
        <4>7. Holders(m)' \subseteq Holders(m) \ {<<"entry", i>>}
          BY <1>4, <4>4 DEF Holders
        <4>8. mission'[m] \in Terminal  BY <1>2, <2>6, <3>3 DEF X!Final, Terminal
        <4>. QED  BY <4>6, <4>7, <4>8 DEF Ended, Moved
      <3>. QED  BY <2>1, <3>2, <3>3
    <2>. QED  BY <2>5, <2>6
  <1>11. ASSUME NEW i \in hand, X!Settle(i)
         PROVE  Moved(m)
    <2>1. /\ execution' = XAck(execution, i) /\ UNCHANGED <<recorded, mission>>
          /\ hand \ {i} \subseteq hand' /\ hand' \subseteq hand
          /\ execution.log[i].mission = Poison \/ X!HasStatus(i)
      BY <1>11, TheirStreams DEF X!Settle, MissionIn
    <2>2. /\ Extends(execution', execution, Entries)
          /\ Positions(execution') = Positions(execution)
          /\ Delivered(execution') = Delivered(execution)
      <3>1. execution'.log = execution.log /\ execution'.read = execution.read
        BY <1>1, <2>1, AckOK
      <3>. QED  BY <1>1, <2>1, <3>1 DEF Positions, Delivered
    <2>3. \A k : X!HasStatus(k)' <=> X!HasStatus(k)  BY <2>1 DEF X!HasStatus
    <2>4. \A k \in hand \cup hand' : execution.log[k].mission = m =>
             (k \in OpenHand' <=> k \in OpenHand /\ k \notin {})
      BY <1>2, <2>1, <2>3 DEF OpenHand
    <2>5. AsEntry(m)' = AsEntry(m) \ {}  BY <1>9, <2>1, <2>2, <2>4
    <2>. QED  BY <1>5, <2>1, <2>5
  <1>12. CASE X!Die
    <2>1. hit' = hit \cup hand /\ hand' = {} /\ UNCHANGED <<execution, recorded, mission>>
      BY <1>12 DEF X!Die
    <2>2. \A k \in hand : execution.log[k].mission # m  BY <1>2, <2>1
    <2>3. \A k \in hand \cup hand' : execution.log[k].mission = m =>
             (k \in OpenHand' <=> k \in OpenHand /\ k \notin {})
      BY <2>1, <2>2
    <2>4. AsEntry(m)' = AsEntry(m) \ {}  BY <1>1, <1>9, <2>1, <2>3
    <2>. QED  BY <1>5, <2>1, <2>4
  <1>. QED  BY <1>8, <1>10, <1>11, <1>12 DEF Execute, ExecutorStep

LEMMA EveryMove ==
    ASSUME NEW m, Peaceful(m), [Next]_vars
    PROVE  Moved(m)
  <1>1. CASE UNCHANGED vars
    BY <1>1, Elsewhere, AllKept DEF vars, coordinatorOnly, workerOnly, executorOnly, operator, Moved
  <1>2. CASE OperatorStep  BY <1>2, IntakeMoves, DecisionMoves DEF OperatorStep
  <1>. QED  BY <1>1, <1>2, StrayMoves, CommandMoves, ReportMoves, CoordinatorCrashes,
              WorkMoves, ExecutorMoves, NextSteps

LEMMA FailedKeeps ==
    ASSUME TypeInv, FailedKnown, [Next]_vars
    PROVE  FailedKnown'
  <1>1. faults \subseteq faults'  BY FaultsKeep
  <1>2. ASSUME NEW m \in Missions, intake'[m] = "failed"
        PROVE  m \in faults'
    <2>1. intake \in [Missions -> {"new", "publish", "unpublished", "failed", "done"}]
      BY DEF TypeInv, DecidingInv
    <2>2. CASE intake' = intake  BY <1>1, <1>2, <2>2 DEF FailedKnown
    <2>3. CASE OperatorStep /\ intake' # intake
      <3>1. PICK n \in Missions : CreateMission(n) \/ PublishCommand(n) \/ DispatchFailed(n)
        BY <2>3 DEF OperatorStep, ReadPending, Approve, Deny, PublishResume, OperatorUnchanged
      <3>. QED  BY <1>1, <1>2, <2>1, <3>1
             DEF FailedKnown, CreateMission, PublishCommand, DispatchFailed
    <2>4. [Next]_vars => intake' = intake \/ OperatorStep
      BY NextSteps DEF vars, operator, AddStray, Coordinate, WorkOn, Execute
    <2>. QED  BY <2>2, <2>3, <2>4
  <1>3. ASSUME workerLoop'.pc = "report" PROVE W!Work'.mission \in faults'
    <2>1. LoopOK(workerLoop, execution, W!WorkLabels) /\ StreamOK(execution, Entries)
      BY DEF TypeInv, LoopsInv, StreamsInv
    <2>2. ASSUME workerLoop.pc # "idle", workerLoop'.cur = workerLoop.cur
          PROVE  W!Work' = W!Work
      <3>1. workerLoop.cur \in Positions(execution)  BY <2>1, <2>2, InHandler
      <3>. QED  BY <2>2, <3>1, EntryStays DEF W!Work
    <2>3. CASE workerLoop' = workerLoop
      <3>1. workerLoop.pc = "report" /\ workerLoop'.cur = workerLoop.cur  BY <1>3, <2>3
      <3>2. W!Work' = W!Work  BY <2>2, <3>1
      <3>. QED  BY <1>1, <3>1, <3>2 DEF FailedKnown
    <2>4. CASE W!RaiseWork
      <3>1. PICK label \in W!WorkLabels \ {"idle"} :
               workerLoop.pc # "idle" /\ workerLoop' = Goto(workerLoop, label)
        BY <2>4, TheirLoops DEF W!RaiseWork, W!WorkLabels
      <3>2. workerLoop'.cur = workerLoop.cur  BY <2>1, <3>1, LoopGoes
      <3>3. W!Work' = W!Work  BY <2>2, <3>1, <3>2
      <3>4. W!Work.mission \in faults'  BY <2>4 DEF W!RaiseWork, W!Hit
      <3>. QED  BY <3>3, <3>4
    <2>5. CASE W!ReadWork
      <3>1. workerLoop' = Handed(workerLoop, execution, BatchSize) /\ Idle(workerLoop)
        BY <2>5, TheirLoops DEF W!ReadWork, CanRead
      <3>2. workerLoop'.pc = "idle"  BY <2>1, <3>1, LoopReads, MissionLoopAssumption
      <3>. QED  BY <1>3, <3>2
    <2>6. CASE W!TakeWork
      <3>1. \E label \in {"ack", "classify"} : workerLoop' = Taken(workerLoop, label)
        BY <2>6, TheirLoops DEF W!TakeWork
      <3>. QED  BY <1>3, <3>1 DEF Taken
    <2>7. CASE W!ClassifyFailed \/ W!ActOnIntent \/ W!RouteToExecutor \/ W!ReportError
      <3>1. PICK label \in {"ack", "ackError"} :
               workerLoop.pc # "idle" /\ workerLoop' = Goto(workerLoop, label)
        BY <2>7, TheirLoops DEF W!ClassifyFailed, W!ActOnIntent, W!RouteToExecutor, W!ReportError
      <3>2. label \in W!WorkLabels \ {"idle"}  BY DEF W!WorkLabels
      <3>3. workerLoop'.pc = label  BY <2>1, <3>1, <3>2, LoopGoes
      <3>. QED  BY <1>3, <3>3
    <2>8. CASE W!AckWork \/ W!AckError \/ W!CrashWorker
      <3>1. workerLoop' = Finished(workerLoop) \/ workerLoop' = IdleLoop
        BY <2>8, TheirLoops DEF W!AckWork, W!AckError, W!CrashWorker
      <3>2. workerLoop'.pc = "idle"
        BY <2>1, <3>1, LoopFinishes DEF IdleLoop, StreamOK, StreamType
      <3>. QED  BY <1>3, <3>2
    <2>9. [Next]_vars => workerLoop' = workerLoop \/ W!Next
      BY NextSteps DEF vars, workerOnly, OperatorStep, AddStray, Coordinate, WorkOn, Execute,
         CreateMission, PublishCommand, DispatchFailed, ReadPending, Approve, Deny,
         PublishResume, IntakeUnchanged, OperatorUnchanged
    <2>. QED  BY <2>3, <2>4, <2>5, <2>6, <2>7, <2>8, <2>9 DEF W!Next, W!HandleWork
  <1>. QED  BY <1>2, <1>3 DEF FailedKnown

LEMMA DecidedKeeps ==
    ASSUME TypeInv, PendingDecided, [Next]_vars
    PROVE  PendingDecided'
  <1>. SUFFICES ASSUME NEW m \in Missions, deciding'[m] > 0
                PROVE  approval'[m] = "pending"
                         \/ decisions'[m].approved + decisions'[m].denied > 0
    BY DEF PendingDecided
  <1>1. /\ deciding \in [Missions -> Nat] /\ decisions \in [Missions -> [approved : Nat, denied : Nat]]
        /\ approval \in [Missions -> {"none", "pending", "approved", "denied"}]
    BY DEF TypeInv, RowsInv, DecidingInv
  <1>2. /\ decisions[m].approved \in Nat /\ decisions[m].denied \in Nat
        /\ decisions'[m].approved \in Nat /\ decisions'[m].denied \in Nat
        /\ decisions[m].approved <= decisions'[m].approved
        /\ decisions[m].denied <= decisions'[m].denied
    BY DecisionsGrow
  <1>3. CASE approval'[m] = "pending"  BY <1>3
  <1>4. CASE OperatorStep
    <2>1. PICK n \in Missions :
             \/ CreateMission(n) \/ PublishCommand(n) \/ DispatchFailed(n)
             \/ ReadPending(n) \/ Approve(n) \/ Deny(n) \/ PublishResume(n)
      BY <1>4 DEF OperatorStep
    <2>2. CASE (Approve(n) \/ Deny(n)) /\ n = m
      <3>1. decisions'[m].approved = decisions[m].approved + 1
            \/ decisions'[m].denied = decisions[m].denied + 1
        BY <1>1, <2>2 DEF Approve, Deny
      <3>. QED  BY <1>2, <3>1
    <2>3. CASE ReadPending(n) /\ n = m
      BY <2>3 DEF ReadPending
    <2>4. CASE n # m \/ ~(Approve(n) \/ Deny(n) \/ ReadPending(n))
      <3>1. deciding'[m] = deciding[m] /\ approval'[m] = approval[m]
        BY <1>1, <2>1, <2>4 DEF CreateMission, PublishCommand, DispatchFailed, ReadPending,
           Approve, Deny, PublishResume, IntakeUnchanged
      <3>. QED  BY <1>2, <3>1 DEF PendingDecided
    <2>. QED  BY <2>1, <2>2, <2>3, <2>4
  <1>5. CASE ~OperatorStep /\ approval'[m] # "pending"
    <2>1. deciding' = deciding
      BY <1>5, NextSteps DEF vars, operator, AddStray, Coordinate, WorkOn, Execute
    <2>2. approval'[m] = approval[m]
      <3>1. CASE Coordinate(C!HandleCommand \/ C!LeaveCommand)
        <4>1. approval' = approval \/ approval' = [approval EXCEPT ![C!Command] = "pending"]
          BY <3>1 DEF Coordinate, C!HandleCommand, C!LeaveCommand, C!ReadCommands,
            C!TakeCommand, C!AskGuard, C!PostActive, C!AddExecution, C!OpenApproval,
            C!NotifyApproval, C!PostDenied, C!AckCommand, C!controlPlane
        <4>. QED  BY <1>1, <1>5, <4>1
      <3>2. CASE Coordinate(C!HandleReceipt \/ C!GiveUpReceipt)
        BY <3>2 DEF Coordinate, C!HandleReceipt, C!GiveUpReceipt, C!ReadReceipts,
          C!TakeReceipt, C!PostReportedStatus, C!NotifyReceipt, C!PostReportReceipt,
          C!AckReceipt, C!controlPlane
      <3>3. CASE Coordinate(C!CrashCoordinator)
        BY <3>3 DEF Coordinate, C!CrashCoordinator, C!controlPlane
      <3>4. CASE AddStray \/ WorkOn(W!Next) \/ Execute(ExecutorStep) \/ UNCHANGED vars
        BY <3>4 DEF AddStray, WorkOn, Execute, vars, coordinatorOnly
      <3>. QED  BY <1>5, <3>1, <3>2, <3>3, <3>4, NextSteps
    <2>. QED  BY <1>2, <1>5, <2>1, <2>2 DEF PendingDecided
  <1>. QED  BY <1>3, <1>4, <1>5

\* What a loop has after a step it had before, or it was nobody's.
LEMMA HandsApartKeeps ==
    ASSUME TypeInv, HandsApart, [Next]_vars
    PROVE  HandsApart'
  <1>1. /\ StreamOK(execution, Entries) /\ LoopOK(workerLoop, execution, W!WorkLabels)
        /\ StreamOK(execution', Entries) /\ execution.read <= execution'.read
        /\ execution.read \in Nat /\ execution'.read \in Nat
    BY LoopsKeep DEF TypeInv, StreamsInv, LoopsInv, Grown, Extends, StreamOK, StreamType
  <1>2. Delivered(execution) \subseteq Delivered(execution')  BY <1>1 DEF Delivered
  <1>3. /\ hand \subseteq Delivered(execution)
        /\ hand \cap (Waiting(workerLoop) \cup {workerLoop.cur}) = {}
        /\ \A x \in recorded : x.msg \in Delivered(execution)
    BY DEF HandsApart
  <1>4. CASE UNCHANGED <<hand, recorded, workerLoop>>
    BY <1>2, <1>3, <1>4 DEF HandsApart
  <1>5. CASE WorkOn(W!Next)
    <2>1. UNCHANGED <<hand, recorded>>  BY <1>5 DEF WorkOn, executorOnly
    <2>2. hand \cap (Waiting(workerLoop') \cup {workerLoop'.cur}) = {}
      <3>1. 0 \notin hand /\ \A i \in hand : i <= execution.read /\ i \in Nat
        BY <1>1, <1>3 DEF Delivered
      <3>2. WorkStep  BY <1>5, WorkSteps DEF WorkOn
      <3>3. CASE workerLoop' = workerLoop  BY <1>3, <3>3
      <3>4. CASE Idle(workerLoop) /\ workerLoop' = Handed(workerLoop, execution, BatchSize)
        <4>1. /\ workerLoop'.cur = 0
              /\ Waiting(workerLoop') = execution.read + 1 .. XReadGroup(execution, BatchSize).read
          BY <1>1, <3>4, LoopReads, MissionLoopAssumption DEF NoEntry
        <4>2. \A i \in Waiting(workerLoop') : i > execution.read
          <5>1. XReadGroup(execution, BatchSize).read \in Nat
            BY <1>1, ReadOK, MissionLoopAssumption DEF StreamOK, StreamType
          <5>. QED  BY <1>1, <4>1, <5>1
        <4>3. \A i \in hand : i \notin Waiting(workerLoop') /\ i # workerLoop'.cur
          BY <1>1, <3>1, <4>1, <4>2
        <4>. QED  BY <4>3
      <3>5. CASE CanTake(workerLoop) /\ \E label \in W!WorkLabels : workerLoop' = Taken(workerLoop, label)
        <4>1. PICK label \in W!WorkLabels : workerLoop' = Taken(workerLoop, label)  BY <3>5
        <4>2. label \in W!WorkLabels \ {"idle"}  BY DEF W!WorkLabels
        <4>3. Waiting(workerLoop') \cup {workerLoop'.cur} \subseteq Waiting(workerLoop)
          BY <1>1, <3>5, <4>1, <4>2, LoopTakes
        <4>. QED  BY <1>3, <4>3
      <3>6. CASE workerLoop.pc # "idle" /\ \E label \in W!WorkLabels : workerLoop' = Goto(workerLoop, label)
        <4>1. PICK label \in W!WorkLabels : workerLoop' = Goto(workerLoop, label)  BY <3>6
        <4>2. label \in W!WorkLabels \ {"idle"}  BY DEF W!WorkLabels
        <4>3. Waiting(workerLoop') = Waiting(workerLoop) /\ workerLoop'.cur = workerLoop.cur
          BY <1>1, <3>6, <4>1, <4>2, LoopGoes
        <4>. QED  BY <1>3, <4>3
      <3>7. CASE workerLoop' = Finished(workerLoop) \/ workerLoop' = IdleLoop
        <4>1. Waiting(workerLoop') \subseteq Waiting(workerLoop) /\ workerLoop'.cur = 0
          BY <1>1, <3>7, LoopFinishes, LoopDies DEF NoEntry
        <4>. QED  BY <1>3, <3>1, <4>1
      <3>. QED  BY <3>2, <3>3, <3>4, <3>5, <3>6, <3>7 DEF WorkStep, LoopStep
    <2>. QED  BY <1>2, <1>3, <2>1, <2>2 DEF HandsApart
  <1>6. CASE Execute(ExecutorStep)
    <2>1. workerLoop' = workerLoop  BY <1>6 DEF Execute, workerOnly
    <2>2. CASE X!Deliver
      <3>1. /\ execution' = XReadGroup(execution, BatchSize)
            /\ hand' \subseteq hand \cup Batch(execution, BatchSize) /\ recorded' = recorded
        BY <2>2, TheirStreams DEF X!Deliver
      <3>2. Batch(execution, BatchSize) = execution.read + 1 .. execution'.read
        BY <1>1, <3>1, ReadOK, MissionLoopAssumption
      <3>3. Batch(execution, BatchSize) \subseteq Delivered(execution')
        BY <1>1, <3>2 DEF Delivered
      <3>4. \A i \in Waiting(workerLoop) \cup {workerLoop.cur} : i \notin Batch(execution, BatchSize)
        BY <1>1, <3>2 DEF LoopOK, LoopType, Waiting
      <3>. QED  BY <1>2, <1>3, <2>1, <3>1, <3>3, <3>4 DEF HandsApart
    <2>3. CASE \E i \in hand : X!Handle(i) \/ X!Settle(i)
      <3>1. PICK i \in hand : X!Handle(i) \/ X!Settle(i)  BY <2>3
      <3>2. hand' \subseteq hand  BY <3>1 DEF X!Handle, X!Settle
      <3>3. recorded' = recorded \/ \E s \in X!Final : recorded' = recorded \cup {[msg |-> i, status |-> s]}
        BY <3>1 DEF X!Handle, X!Settle
      <3>4. \A x \in recorded' : x.msg \in Delivered(execution)  BY <1>3, <3>3
      <3>. QED  BY <1>2, <1>3, <2>1, <3>2, <3>4 DEF HandsApart
    <2>4. CASE X!Die
      BY <1>2, <1>3, <2>1, <2>4 DEF X!Die, HandsApart
    <2>. QED  BY <1>6, <2>2, <2>3, <2>4 DEF Execute, ExecutorStep
  <1>7. [Next]_vars => \/ UNCHANGED <<hand, recorded, workerLoop>>
                       \/ WorkOn(W!Next) \/ Execute(ExecutorStep)
    BY NextSteps DEF vars, workerOnly, executorOnly, OperatorStep, AddStray, Coordinate,
       CreateMission, PublishCommand, DispatchFailed, ReadPending, Approve, Deny, PublishResume,
       IntakeUnchanged, OperatorUnchanged
  <1>. QED  BY <1>4, <1>5, <1>6, <1>7

-----------------------------------------------------------------------------
(* The way of an undisturbed mission.                                      *)

PlaceInv == TypeInv /\ FailedKnown /\ PendingDecided /\ HandsApart /\ HeldInv

\* The excuse of a re-routed entry stays.
LEMMA RoutedBackStays ==
    ASSUME TypeInv, [Next]_vars, NEW m, RoutedBack(m)
    PROVE  RoutedBack(m)'
  <1>1. skipped \subseteq skipped'
    <2>1. [Next]_vars => skipped' = skipped \/ W!Next
      BY NextSteps DEF vars, workerOnly, OperatorStep, AddStray, Coordinate, WorkOn, Execute,
         CreateMission, PublishCommand, DispatchFailed, ReadPending, Approve, Deny,
         PublishResume, IntakeUnchanged, OperatorUnchanged
    <2>2. W!Next => skipped \subseteq skipped'
      BY DEF W!Next, W!HandleWork, W!ReadWork, W!TakeWork, W!ClassifyFailed,
         W!ActOnIntent, W!RouteToExecutor, W!AckWork, W!ReportError, W!AckError, W!RaiseWork,
         W!CrashWorker
    <2>. QED  BY <2>1, <2>2
  <1>2. PICK i \in skipped : execution.log[i].mission = m  BY DEF RoutedBack
  <1>3. i \in Positions(execution)  BY <1>2 DEF TypeInv, HandInv
  <1>4. i \in skipped' /\ execution'.log[i] = execution.log[i]  BY <1>1, <1>2, <1>3, EntryStays
  <1>. QED  BY <1>2, <1>4 DEF RoutedBack

LEMMA InPeace ==
    ASSUME PlaceInv, [Next]_vars, NEW m \in Missions, Undisturbed(m)'
    PROVE  Peaceful(m) /\ Undisturbed(m)
  <1>1. Undisturbed(m)  BY OnceDisturbed DEF PlaceInv
  <1>. QED  BY <1>1 DEF PlaceInv, HeldInv, Peaceful, Undisturbed

LEMMA FinishedStay ==
    ASSUME PlaceInv, [Next]_vars, NEW m \in Missions, mission[m] \in Terminal, Undisturbed(m)'
    PROVE  mission'[m] = mission[m]
  <1>1. Holders(m) = {}  BY InPeace DEF Peaceful
  <1>2. Moved(m)  BY InPeace, EveryMove
  <1>. QED  BY <1>1, <1>2 DEF Moved, Kept, Passed, Ended

LEMMA HeldKeeps ==
    ASSUME PlaceInv, [Next]_vars
    PROVE  HeldInv'
  <1>. SUFFICES ASSUME NEW m \in Missions, Undisturbed(m)'
                PROVE  /\ \A a, b \in Holders(m)' : a = b
                       /\ mission'[m] \in Terminal => Holders(m)' = {}
                       /\ Holders(m)' = {} =>
                            mission'[m] \in Terminal \/ RoutedBack(m)' \/ intake'[m] = "unpublished"
                       /\ intake'[m] = "new" => mission'[m] = "none"
    BY DEF HeldInv
  <1>1. Peaceful(m) /\ Undisturbed(m)  BY InPeace
  <1>2. /\ \A a, b \in Holders(m) : a = b
        /\ mission[m] \in Terminal => Holders(m) = {}
        /\ Holders(m) = {} =>
             mission[m] \in Terminal \/ RoutedBack(m) \/ intake[m] = "unpublished"
        /\ intake[m] = "new" => mission[m] = "none"
    BY <1>1 DEF PlaceInv, HeldInv
  <1>3. Moved(m)  BY <1>1, EveryMove
  <1>4. CASE Kept(m)
    <2>1. RoutedBack(m) => RoutedBack(m)'  BY RoutedBackStays DEF PlaceInv
    <2>2. Holders(m)' = Holders(m) /\ mission'[m] = mission[m] /\ intake'[m] = intake[m]
      BY <1>4 DEF Kept
    <2>. QED  BY <1>2, <2>1, <2>2
  <1>5. CASE Passed(m)
    <2>1. PICK a \in Holders(m), b \in Holders(m)' : Holders(m)' \subseteq (Holders(m) \ {a}) \cup {b}
      BY <1>5 DEF Passed
    <2>2. Holders(m)' = {b}  BY <1>2, <2>1
    <2>3. mission'[m] \notin Terminal /\ intake'[m] # "new"  BY <1>2, <1>5, <2>1 DEF Passed
    <2>. QED  BY <2>2, <2>3
  <1>6. CASE Ended(m)
    <2>1. PICK a \in Holders(m) : Holders(m)' \subseteq Holders(m) \ {a}  BY <1>6 DEF Ended
    <2>2. Holders(m)' = {}  BY <1>2, <2>1
    <2>3. intake'[m] # "new"
      <3>1. intake'[m] = "new" => <<"intake", 0>> \in Holders(m)'  BY DEF Holders, AtIntake
      <3>. QED  BY <2>2, <3>1
    <2>. QED  BY <1>6, <2>2, <2>3 DEF Ended
  <1>. QED  BY <1>3, <1>4, <1>5, <1>6 DEF Moved

LEMMA PlaceStarts ==
    ASSUME Init
    PROVE  PlaceInv
  <1>1. TypeInv  BY InitType
  <1>2. FailedKnown  BY DEF Init, FailedKnown, IdleLoop
  <1>3. PendingDecided  BY DEF Init, PendingDecided
  <1>4. HandsApart  BY DEF Init, HandsApart
  <1>5. ASSUME NEW m \in Missions
        PROVE  Holders(m) = {<<"intake", 0>>}
    <2>1. Positions(commands) = {} /\ Positions(execution) = {} /\ Positions(receiptStream) = {}
      BY DEF Init, EmptyStream, Positions
    <2>2. UnhandledCommands = {} /\ UnhandledEntries = {} /\ UnhandledReports = {} /\ OpenHand = {}
      BY <2>1 DEF Init, UnhandledCommands, UnhandledEntries, UnhandledReports, Unhandled, OpenHand
    <2>3. AsCommand(m) = {} /\ AsEntry(m) = {} /\ AsReport(m) = {}
      BY <2>2 DEF AsCommand, AsEntry, AsReport
    <2>4. AtIntake(m) = {0} /\ ForApproval(m) = {}  BY DEF Init, AtIntake, ForApproval
    <2>5. ForResume(m) = {}  BY DEF Init, ForResume
    <2>. QED  BY <2>3, <2>4, <2>5 DEF Holders
  <1>6. HeldInv  BY <1>5 DEF Init, HeldInv, Terminal
  <1>. QED  BY <1>1, <1>2, <1>3, <1>4, <1>6 DEF PlaceInv

LEMMA PlaceHolds == Spec => []PlaceInv
  <1>1. Init => PlaceInv  BY PlaceStarts
  <1>2. PlaceInv /\ [Next]_vars => PlaceInv'
    <2>. SUFFICES ASSUME PlaceInv, [Next]_vars PROVE PlaceInv'  OBVIOUS
    <2>1. TypeInv' /\ FailedKnown' /\ PendingDecided' /\ HandsApart'
      BY TypeKeeps, FailedKeeps, DecidedKeeps, HandsApartKeeps DEF PlaceInv
    <2>. QED  BY <2>1, HeldKeeps DEF PlaceInv
  <1>. QED  BY <1>1, <1>2, PTL DEF Spec

\* Who is not done with an entry has it in hand.
LEMMA UnhandledInHand ==
    ASSUME NEW loop, NEW s, NEW labels, NEW early, "idle" \notin early,
           LoopOK(loop, s, labels), NEW i \in Unhandled(loop, s, early)
    PROVE  s.log[i] \in InHandOf(loop, s)
  <1>1. i = loop.cur /\ loop.pc \in early => loop.cur # NoEntry  BY DEF LoopOK
  <1>2. i \in InHand(loop) \cup (Positions(s) \ Delivered(s))
    BY <1>1 DEF Unhandled, Waiting, InHand
  <1>. QED  BY <1>2 DEF InHandOf

LEMMA HeldIsInFlight ==
    ASSUME TypeInv, NEW m \in Missions, Holders(m) # {}
    PROVE  intake[m] = "new" \/ approval[m] = "pending" \/ InFlight(m)
  <1>. USE DEF InFlight
  <1>1. /\ LoopOK(commandLoop, commands, C!CommandLabels)
        /\ LoopOK(workerLoop, execution, W!WorkLabels)
        /\ LoopOK(receiptLoop, receiptStream, C!ReceiptLabels)
    BY DEF TypeInv, LoopsInv
  <1>2. CASE AtIntake(m) # {}  BY <1>2 DEF AtIntake
  <1>3. ASSUME NEW i \in AsCommand(m) PROVE InFlight(m)
    <2>1. i \in UnhandledCommands /\ commands.log[i] = m  BY DEF AsCommand
    <2>2. commands.log[i] \in InHandOf(commandLoop, commands)
      BY <1>1, <2>1, UnhandledInHand DEF UnhandledCommands, EarlyLabels
    <2>. QED  BY <2>1, <2>2
  <1>4. CASE ForApproval(m) # {}  BY <1>4 DEF ForApproval
  <1>5. ASSUME ForResume(m) # {} PROVE InFlight(m)
    <2>1. PICK i \in 1..resume[m] : TRUE  BY <1>5 DEF ForResume
    <2>2. resume[m] \in Nat  BY DEF TypeInv, DecidingInv
    <2>. QED  BY <2>1, <2>2
  <1>6. ASSUME NEW i \in AsEntry(m) PROVE InFlight(m)
    <2>1. execution.log[i].mission = m  BY DEF AsEntry
    <2>2. CASE i \in UnhandledEntries
      <3>1. execution.log[i] \in InHandOf(workerLoop, execution)
        BY <1>1, <2>2, UnhandledInHand DEF UnhandledEntries
      <3>. QED  BY <2>1, <3>1
    <2>3. CASE i \in OpenHand  BY <2>1, <2>3 DEF OpenHand
    <2>. QED  BY <2>2, <2>3 DEF AsEntry
  <1>7. ASSUME NEW i \in AsReport(m) PROVE InFlight(m)
    <2>1. i \in UnhandledReports /\ receiptStream.log[i].mission = m  BY DEF AsReport
    <2>2. receiptStream.log[i] \in InHandOf(receiptLoop, receiptStream)
      BY <1>1, <2>1, UnhandledInHand DEF UnhandledReports
    <2>. QED  BY <2>1, <2>2
  <1>8. \/ AtIntake(m) # {} \/ AsCommand(m) # {} \/ ForApproval(m) # {}
        \/ ForResume(m) # {} \/ AsEntry(m) # {} \/ AsReport(m) # {}
    BY DEF Holders
  <1>. QED  BY <1>2, <1>3, <1>4, <1>5, <1>6, <1>7, <1>8

LEMMA PlaceIsKnown ==
    ASSUME PlaceInv
    PROVE  NeverForgotten
  <1>. SUFFICES ASSUME NEW m \in Missions, Undisturbed(m)
                PROVE  \/ mission[m] \in Terminal \cup {"none"}
                       \/ intake[m] = "unpublished" \/ approval[m] = "pending"
                       \/ InFlight(m) \/ RoutedBack(m)
    BY DEF NeverForgotten
  <1>1. CASE Holders(m) = {}  BY <1>1 DEF PlaceInv, HeldInv
  <1>2. CASE Holders(m) # {}
    <2>1. intake[m] = "new" => mission[m] = "none"  BY DEF PlaceInv, HeldInv
    <2>. QED  BY <1>2, <2>1, HeldIsInFlight DEF PlaceInv
  <1>. QED  BY <1>1, <1>2

-----------------------------------------------------------------------------
(* The theorems.                                                           *)

\* Every variable stays in its type, in every interleaving of intake, coordinator,
\* operator, worker and executor.
THEOREM TypeCorrect == Spec => []TypeOK
  <1>1. TypeInv => TypeOK
    <2>. SUFFICES ASSUME TypeInv PROVE TypeOK  OBVIOUS
    <2>1. /\ commands \in StreamType(Missions \cup {Poison})
          /\ execution \in StreamType(Entries)
          /\ receiptStream \in StreamType([mission : Missions \cup {Poison}, ok : BOOLEAN])
      BY DEF TypeInv, StreamsInv, StreamOK, CommandEntries, Reports
    <2>2. /\ commandLoop \in LoopType(C!CommandLabels)
          /\ receiptLoop \in LoopType(C!ReceiptLabels)
          /\ workerLoop \in LoopType(W!WorkLabels)
      BY DEF TypeInv, LoopsInv, LoopOK
    <2>3. Positions(execution) \subseteq Nat  BY DEF Positions
    <2>4. skipped \subseteq Nat /\ hand \subseteq Nat /\ accounted \subseteq Nat /\ hit \subseteq Nat
      BY <2>3 DEF TypeInv, HandInv
    <2>5. /\ deciding \in [Missions -> 0..MaxDecisions]
          /\ decisions \in [Missions -> [approved : 0..MaxDecisions, denied : 0..MaxDecisions]]
          /\ resume \in [Missions -> 0..MaxDecisions]
      <3>1. /\ deciding \in [Missions -> Nat]
            /\ decisions \in [Missions -> [approved : Nat, denied : Nat]]
            /\ resume \in [Missions -> Nat]
            /\ \A m \in Missions :
                 /\ deciding[m] + decisions[m].approved + decisions[m].denied <= MaxDecisions
                 /\ resume[m] <= decisions[m].approved
        BY DEF TypeInv, DecidingInv
      <3>2. \A m \in Missions :
              /\ deciding[m] \in 0..MaxDecisions /\ resume[m] \in 0..MaxDecisions
              /\ decisions[m].approved \in 0..MaxDecisions
              /\ decisions[m].denied \in 0..MaxDecisions
        BY <3>1, MissionLoopAssumption
      <3>. QED  BY <3>1, <3>2
    <2>. QED  BY <2>1, <2>2, <2>4, <2>5 DEF TypeInv, RowsInv, DecidingInv, HandInv, TypeOK
  <1>. QED  BY <1>1, TypeHolds, PTL

\* A mission completed in an undisturbed run has a receipt, or the coordinator is about
\* to write it: the worker's report and the executor's are accounted for before
\* the status they carry is posted.
THEOREM CompletedHasReceipt == Spec => []CompleteHasReceipt
  BY CompleteHolds

\* A published mission is never forgotten: it is finished, an operator can decide it, or
\* somebody has it in hand, if its calls went through and it was decided once;
\* or the worker was handed the entry it had re-routed itself.
THEOREM NothingForgotten == Spec => []NeverForgotten
  BY PlaceHolds, PlaceIsKnown, PTL

\* The status of an undisturbed finished mission is its last: no POST of an earlier
\* step, "active" or the worker's report, comes after it.
THEOREM FinishedIsFinal == Spec => FinishedStays
  <1>1. PlaceInv /\ [Next]_vars
          => [\A m \in Missions :
                mission[m] \in Terminal /\ Undisturbed(m)' => mission'[m] = mission[m]]_vars
    BY FinishedStay
  <1>. QED  BY <1>1, PlaceHolds, PTL DEF Spec, FinishedStays

\* From the guard's answer to the executor Jarvis is a governance gate: an entry of
\* jarvis.execution for each "allow" and each approval at most, a re-routed one
\* for each entry at most, whatever is lost, raised, crashed or decided twice.
THEOREM GateHolds == Spec => GateSpec
  <1>1. Init => Gate!GateInit /\ Rerouting!GateInit  BY GateStarts
  <1>2. CountedInv /\ [Next]_vars
          => [Gate!GateNext]_(Gate!gateVars) /\ [Rerouting!GateNext]_(Rerouting!gateVars)
    BY GateSteps
  <1>. QED  BY <1>1, <1>2, Counted, PTL
       DEF Spec, GateSpec, Gate!GateSpec, Rerouting!GateSpec
=============================================================================

--------------------------- MODULE ExecutorProofs ---------------------------
(***************************************************************************)
(* Proofs about Executor, for any missions, batch size, number of stages   *)
(* and entries: type correctness, the record behind every acknowledged     *)
(* entry, the order of the stages, and that the executor implements        *)
(* ExecutionContract.                                                      *)
(***************************************************************************)
EXTENDS Executor, TLAPS, FiniteSetTheorems

\* What is read, pending and in hand.  Entries in hand are different ones.
StreamInv ==
    /\ execution.read <= Len(execution.log)
    /\ execution.pending \subseteq Delivered(execution)
    /\ Waiting \subseteq execution.pending
    /\ cur = NoMessage \/ cur \in Delivered(execution)
    /\ cur = NoMessage <=> pc = "read"
    /\ cur \notin Waiting
    /\ \A k, l \in DOMAIN batch : batch[k] = batch[l] => k = l

\* The attempts counted in the handler are those the CLI saw.
CallInv ==
    /\ pc \notin {"read", "start", "ack", "ackFailure"} => MissionOf(cur) # Poison
    /\ pc \in {"read", "start", "plan"} => run = 1 /\ attempt = 0
    /\ pc \in {"openclaw", "receipt", "status"} => plan[cur] \in Plans
    /\ pc \in {"openclaw", "receipt"} =>
         run <= plan[cur].runs /\ \A k \in Runs : k > run => calls[cur][k] = 0
    /\ pc = "openclaw" => attempt < OPENCLAW_MAX_ATTEMPTS /\ calls[cur][run] = attempt

\* Nothing was done for the entry yet.
Untouched(i) ==
    /\ plan[i] = NoPlan
    /\ \A k \in Runs : calls[i][k] = 0
    /\ ~HasStatus(i)

FreshInv ==
    /\ \A i \in Ids : i \notin Delivered(execution) => Untouched(i)
    /\ \A i \in Waiting : Untouched(i)
    /\ pc \in {"start", "plan"} => Untouched(cur)

\* What is on record wherever the handler is.
RecordInv ==
    /\ pc \in {"read", "start", "plan", "openclaw", "receipt"} => written = TRUE
    /\ pc \in {"openclaw", "receipt", "status"} => ~HasStatus(cur)
    /\ pc \in {"openclaw", "receipt"} /\ plan[cur].staged =>
         \A k \in 1..run-1 : Succeeded(cur, k)
    /\ pc = "status" /\ plan[cur].staged /\ FinalStatus = "complete" =>
         \A k \in 1..plan[cur].runs : Succeeded(cur, k)
    /\ pc = "status" => IF written THEN Accounted(cur) ELSE cur \in faults
    /\ pc = "ack" /\ MissionOf(cur) # Poison => HasStatus(cur) /\ Accounted(cur)
    /\ pc \in {"internalReceipt", "internalStatus", "ackFailure"} => cur \in faults
    /\ pc = "internalStatus" /\ written => Accounted(cur)
    /\ pc = "ackFailure" /\ MissionOf(cur) # Poison => HasStatus(cur) /\ Accounted(cur)

TypeInv == TypeOK /\ StreamInv /\ CallInv /\ FreshInv
Inv == TypeInv /\ RecordInv /\ AckedIsRecorded /\ StagesProven /\ LeftOnlyByFault
-----------------------------------------------------------------------------
\* The stream and what the loop has in hand.
StreamOK ==
    /\ execution \in StreamType(Missions \cup {Poison})
    /\ Len(execution.log) <= MaxMessages
    /\ batch \in Seq(Ids)
    /\ cur \in Ids \cup {NoMessage}
    /\ pc \in PCs

LEMMA BatchOfRead ==
    ASSUME StreamOK, StreamInv
    PROVE  LET given == Batch(execution, BatchSize)
           IN  /\ given \subseteq Ids
               /\ given \cap Delivered(execution) = {}
               /\ Cardinality(given) \in Nat
               /\ \A k \in 1..Cardinality(given) : execution.read + k \in given
               /\ XReadGroup(execution, BatchSize).read \in Nat
               /\ XReadGroup(execution, BatchSize).read <= Len(execution.log)
               /\ execution.read <= XReadGroup(execution, BatchSize).read
               /\ given = execution.read + 1 .. XReadGroup(execution, BatchSize).read
  <1> DEFINE last == XReadGroup(execution, BatchSize).read
             given == Batch(execution, BatchSize)
  <1>1. /\ execution.read \in Nat /\ Len(execution.log) \in Nat
        /\ execution.read <= Len(execution.log)
        /\ Len(execution.log) <= MaxMessages /\ MaxMessages \in Nat
        /\ BatchSize \in Nat \ {0}
    BY ExecutorAssumption DEF StreamOK, StreamInv, StreamType
  <1>2. last = IF execution.read + BatchSize <= Len(execution.log)
                  THEN execution.read + BatchSize ELSE Len(execution.log)
    BY DEF StreamOK, StreamType, XReadGroup
  <1>3. /\ last \in Nat /\ last <= Len(execution.log) /\ execution.read <= last
    BY <1>1, <1>2
  <1>4. given = execution.read + 1 .. last
    BY <1>2 DEF Batch
  <1>5. Cardinality(given) = last - execution.read
    <2> HIDE DEF last
    <2>1. execution.read + 1 \in Int /\ last \in Int  BY <1>1, <1>3
    <2>2. Cardinality(execution.read + 1 .. last) =
            IF execution.read + 1 > last THEN 0 ELSE last - (execution.read + 1) + 1
      BY <2>1, FS_Interval
    <2>. QED  BY <1>1, <1>3, <1>4, <2>2
  <1>6. /\ given \subseteq Ids
        /\ given \cap Delivered(execution) = {}
        /\ Cardinality(given) \in Nat
        /\ \A k \in 1..Cardinality(given) : execution.read + k \in given
    BY <1>1, <1>3, <1>4, <1>5 DEF Ids, Delivered
  <1>. QED  BY <1>3, <1>4, <1>6

LEMMA ReadStep ==
    ASSUME StreamOK, StreamInv, Read
    PROVE  LET given == Batch(execution, BatchSize)
           IN  /\ StreamOK' /\ StreamInv'
               /\ \/ Waiting' = given /\ faults' = faults
                  \/ Waiting' = {} /\ faults' = faults \cup given
               /\ Acked(execution)' = Acked(execution)
               /\ Waiting = {}
               /\ Delivered(execution)' = Delivered(execution) \cup given
               /\ execution.pending' = execution.pending \cup given
               /\ execution.log' = execution.log
  <1> DEFINE given == Batch(execution, BatchSize)
             last == XReadGroup(execution, BatchSize).read
             n == Cardinality(given)
  <1>1. /\ given \subseteq Ids
        /\ given \cap Delivered(execution) = {}
        /\ n \in Nat
        /\ \A k \in 1..n : execution.read + k \in given
        /\ last \in Nat /\ last <= Len(execution.log) /\ execution.read <= last
        /\ given = execution.read + 1 .. last
    BY BatchOfRead
  <1>2. /\ execution.read \in Nat /\ Len(execution.log) \in Nat
        /\ execution.pending \subseteq Delivered(execution)
        /\ batch = <<>> /\ cur = NoMessage /\ pc = "read"
        /\ UNCHANGED <<cur, pc>>
        /\ \/ batch' = [k \in 1..n |-> execution.read + k] /\ faults' = faults
           \/ batch' = <<>> /\ faults' = faults \cup given
    BY DEF StreamOK, StreamInv, StreamType, Read
  <1>3. /\ execution'.log = execution.log /\ execution'.read = last
        /\ execution'.pending = execution.pending \cup given
        /\ execution' \in StreamType(Missions \cup {Poison})
    <2>1. execution' = XReadGroup(execution, BatchSize)  BY DEF Read
    <2>2. given \subseteq Nat \ {0}  BY <1>1 DEF Ids
    <2>. QED  BY <1>1, <2>1, <2>2 DEF XReadGroup, StreamType, StreamOK
  <1> HIDE DEF last, n
  <1>4. Delivered(execution)' = Delivered(execution) \cup given
    BY <1>1, <1>2, <1>3 DEF Delivered
  <1>5. Acked(execution)' = Acked(execution)
    BY <1>1, <1>2, <1>3, <1>4 DEF Acked
  <1>6. Waiting = {}  BY <1>2 DEF Waiting
  <1>7. CASE batch' = <<>> /\ faults' = faults \cup given
    <2>1. Waiting' = {}  BY <1>7 DEF Waiting
    <2>2. StreamOK'  BY <1>2, <1>3, <1>7 DEF StreamOK
    <2>3. StreamInv'
      BY <1>1, <1>2, <1>3, <1>4, <1>7, <2>1 DEF StreamInv
    <2>. QED  BY <1>3, <1>4, <1>5, <1>6, <1>7, <2>1, <2>2, <2>3
  <1>8. CASE batch' = [k \in 1..n |-> execution.read + k] /\ faults' = faults
    <2>1. /\ batch' \in Seq(Ids) /\ DOMAIN batch' = 1..n
          /\ \A k \in 1..n : batch'[k] = execution.read + k
      BY <1>1, <1>8
    <2>2. last = execution.read + n
      <3>1. IsFiniteSet(given) /\ n = last - execution.read
        <4>1. execution.read + 1 \in Int /\ last \in Int  BY <1>1, <1>2
        <4>2. Cardinality(execution.read + 1 .. last) =
                IF execution.read + 1 > last THEN 0 ELSE last - (execution.read + 1) + 1
          BY <4>1, FS_Interval
        <4>3. n = last - execution.read  BY <1>1, <1>2, <4>2 DEF n
        <4>. QED  BY <1>1, <4>1, <4>3, FS_Interval
      <3>. QED  BY <1>1, <1>2, <3>1
    <2>3. Waiting' = given
      <3>1. \A i \in given : i - execution.read \in 1..n /\ batch'[i - execution.read] = i
        BY <1>1, <1>2, <2>1, <2>2
      <3>2. \A k \in 1..n : batch'[k] \in given  BY <1>1, <2>1
      <3>. QED  BY <2>1, <3>1, <3>2 DEF Waiting
    <2>4. StreamOK'  BY <1>2, <1>3, <2>1 DEF StreamOK
    <2>5. \A k, l \in DOMAIN batch' : batch'[k] = batch'[l] => k = l
      BY <1>2, <2>1
    <2>6. NoMessage \notin given  BY <1>1 DEF Ids, NoMessage
    <2>7. StreamInv'
      BY <1>1, <1>2, <1>3, <1>4, <2>3, <2>5, <2>6 DEF StreamInv
    <2>. QED  BY <1>3, <1>4, <1>5, <1>6, <1>8, <2>3, <2>4, <2>7
  <1>. QED  BY <1>2, <1>7, <1>8

LEMMA TakeStep ==
    ASSUME StreamOK, StreamInv, Take
    PROVE  /\ StreamOK' /\ StreamInv'
           /\ cur' \in Waiting
           /\ Waiting = Waiting' \cup {cur'}
  <1>1. /\ batch \in Seq(Ids) /\ batch # <<>> /\ cur = NoMessage
        /\ cur' = Head(batch) /\ batch' = Tail(batch) /\ pc' = "start"
        /\ UNCHANGED execution
    BY DEF StreamOK, Take, Goto
  <1>2. /\ Len(batch) \in Nat \ {0} /\ DOMAIN batch = 1..Len(batch)
        /\ batch' \in Seq(Ids) /\ Len(batch') = Len(batch) - 1
        /\ cur' = batch[1] /\ cur' \in Ids
        /\ \A k \in 1..Len(batch') : batch'[k] = batch[k + 1]
    BY <1>1
  <1>3. DOMAIN batch' = 1..Len(batch')  BY <1>2
  <1>4. \A k \in DOMAIN batch : k = 1 \/ (k - 1 \in DOMAIN batch' /\ batch[k] = batch'[k - 1])
    BY <1>2, <1>3
  <1>0. \A k \in DOMAIN batch' : k + 1 \in DOMAIN batch /\ batch'[k] = batch[k + 1] /\ k \in Nat
    BY <1>2, <1>3
  <1>5. Waiting = Waiting' \cup {cur'}
    <2>1. \A i \in Waiting : i \in Waiting' \cup {cur'}
      BY <1>2, <1>4 DEF Waiting
    <2>2. \A i \in Waiting' : i \in Waiting
      BY <1>0 DEF Waiting
    <2>3. cur' \in Waiting
      BY <1>2 DEF Waiting
    <2>. QED  BY <2>1, <2>2, <2>3
  <1>6. ASSUME NEW k \in DOMAIN batch', NEW l \in DOMAIN batch', batch'[k] = batch'[l]
        PROVE  k = l
    <2>1. k + 1 = l + 1  BY <1>6, <1>0 DEF StreamInv
    <2>. QED  BY <1>6, <1>0, <2>1
  <1>7. cur' \notin Waiting'
    BY <1>2, <1>3 DEF StreamInv, Waiting
  <1>8. /\ cur' # NoMessage
        /\ cur' \in Delivered(execution)
    BY <1>2, <1>5 DEF Ids, NoMessage, StreamInv
  <1>9. StreamOK'
    BY <1>1, <1>2 DEF StreamOK, PCs
  <1>10. StreamInv'
    BY <1>1, <1>5, <1>6, <1>7, <1>8 DEF StreamInv, Delivered
  <1>. QED  BY <1>5, <1>9, <1>10
LEMMA AckFacts ==
    ASSUME StreamOK, NEW i \in Nat
    PROVE  /\ XAck(execution, i).log = execution.log
           /\ XAck(execution, i).read = execution.read
           /\ XAck(execution, i).pending = execution.pending \ {i}
           /\ XAck(execution, i) \in StreamType(Missions \cup {Poison})
  BY DEF StreamOK, StreamType, XAck

\* A step of the handler on the entry it has.
InHandler ==
    /\ cur # NoMessage
    /\ UNCHANGED batch
    /\ execution' = execution \/ execution' = XAck(execution, cur)
    /\ \/ cur' = cur /\ pc' \in PCs \ {"read"}
       \/ cur' = NoMessage /\ pc' = "read"

LEMMA HandlerStep ==
    ASSUME StreamOK, StreamInv, InHandler
    PROVE  /\ StreamOK' /\ StreamInv'
           /\ Waiting' = Waiting
           /\ execution'.log = execution.log
           /\ Delivered(execution)' = Delivered(execution)
           /\ execution.pending' \subseteq execution.pending
           /\ execution.pending \ {cur} \subseteq execution.pending'
  <1>1. Waiting' = Waiting  BY DEF InHandler, Waiting
  <1>2. cur \in Nat  BY DEF StreamOK, Ids, NoMessage
  <1>3. /\ execution'.log = execution.log /\ execution'.read = execution.read
        /\ execution'.pending \in {execution.pending, execution.pending \ {cur}}
        /\ execution' \in StreamType(Missions \cup {Poison})
    BY <1>2, AckFacts DEF InHandler, StreamOK
  <1>4. Delivered(execution)' = Delivered(execution)
    BY <1>3 DEF Delivered
  <1>5. StreamOK'
    BY <1>3 DEF StreamOK, InHandler, PCs
  <1>6. StreamInv'
    <2>1. NoMessage \notin Delivered(execution)  BY DEF Delivered, NoMessage
    <2>2. Waiting' \subseteq execution'.pending /\ cur' \notin Waiting'
      BY <1>1, <1>3, <2>1 DEF StreamInv, InHandler
    <2>3. (cur' = NoMessage \/ cur' \in Delivered(execution)') /\ (cur' = NoMessage <=> pc' = "read")
      BY <1>4 DEF StreamInv, InHandler
    <2>4. batch' = batch  BY DEF InHandler
    <2>5. /\ execution'.read <= Len(execution'.log)
          /\ execution'.pending \subseteq Delivered(execution)'
          /\ \A k, l \in DOMAIN batch' : batch'[k] = batch'[l] => k = l
      BY <1>3, <1>4, <2>4 DEF StreamInv
    <2>. QED  BY <2>2, <2>3, <2>5 DEF StreamInv
  <1>. QED  BY <1>1, <1>3, <1>4, <1>5, <1>6

LEMMA HandlerSteps ==
    ASSUME StreamInv, pc # "read",
           \/ DropPoison \/ PostStarted \/ Plan \/ CallOpenClaw
           \/ PostStageReceipt \/ PostSingleReceipt \/ PostFinalStatus \/ Ack
           \/ Raise \/ PostInternalReceipt \/ PostInternalStatus \/ AckFailure
    PROVE  InHandler
  <1>. USE DEF StreamInv, InHandler, Goto, Return, PCs
  <1>1. CASE DropPoison  BY <1>1 DEF DropPoison
  <1>2. CASE PostStarted  BY <1>2 DEF PostStarted
  <1>3. CASE Plan  BY <1>3 DEF Plan
  <1>4. CASE CallOpenClaw  BY <1>4 DEF CallOpenClaw
  <1>5. CASE PostStageReceipt  BY <1>5 DEF PostStageReceipt
  <1>6. CASE PostSingleReceipt  BY <1>6 DEF PostSingleReceipt
  <1>7. CASE PostFinalStatus  BY <1>7 DEF PostFinalStatus
  <1>8. CASE Ack  BY <1>8 DEF Ack
  <1>9. CASE Raise  BY <1>9 DEF Raise
  <1>10. CASE PostInternalReceipt  BY <1>10 DEF PostInternalReceipt
  <1>11. CASE PostInternalStatus  BY <1>11 DEF PostInternalStatus
  <1>12. CASE AckFailure  BY <1>12 DEF AckFailure
  <1>. QED
    BY <1>1, <1>2, <1>3, <1>4, <1>5, <1>6, <1>7, <1>8, <1>9, <1>10, <1>11, <1>12

LEMMA PublishStep ==
    ASSUME StreamOK, StreamInv, NEW m \in Missions \cup {Poison}, Publish(m)
    PROVE  /\ StreamOK' /\ StreamInv'
           /\ Waiting' = Waiting
           /\ Delivered(execution)' = Delivered(execution)
           /\ execution.pending' = execution.pending
           /\ \A i \in Delivered(execution) : execution'.log[i] = execution.log[i]
           /\ Delivered(execution) \subseteq Ids
  <1>1. /\ execution.log \in Seq(Missions \cup {Poison})
        /\ execution.read \in Nat /\ execution.read <= Len(execution.log)
        /\ Len(execution.log) < MaxMessages /\ MaxMessages \in Nat
    BY ExecutorAssumption DEF StreamOK, StreamInv, StreamType, Publish
  <1>2. /\ execution'.log = Append(execution.log, m)
        /\ execution'.read = execution.read /\ execution'.pending = execution.pending
        /\ execution' \in StreamType(Missions \cup {Poison})
    <2>1. execution' = [execution EXCEPT !.log = Append(execution.log, m)]
      BY DEF Publish, XAdd
    <2>2. Append(execution.log, m) \in Seq(Missions \cup {Poison})
      BY <1>1
    <2>. QED  BY <2>1, <2>2 DEF StreamOK, StreamType
  <1>3. /\ Len(execution'.log) = Len(execution.log) + 1
        /\ \A i \in 1..Len(execution.log) : execution'.log[i] = execution.log[i]
    BY <1>1, <1>2
  <1>4. UNCHANGED <<batch, cur, pc>>  BY DEF Publish, local
  <1>5. Waiting' = Waiting  BY <1>4 DEF Waiting
  <1>6. Delivered(execution)' = Delivered(execution)  BY <1>2 DEF Delivered
  <1>7. StreamOK'  BY <1>1, <1>2, <1>3, <1>4 DEF StreamOK
  <1>8. StreamInv'
    BY <1>1, <1>2, <1>3, <1>4, <1>5, <1>6 DEF StreamInv
  <1>9. \A i \in Delivered(execution) : i \in 1..Len(execution.log) /\ i \in Ids
    BY <1>1 DEF Delivered, Ids
  <1>. QED  BY <1>2, <1>3, <1>5, <1>6, <1>7, <1>8, <1>9

LEMMA CrashStep ==
    ASSUME StreamOK, StreamInv, Crash
    PROVE  /\ StreamOK' /\ StreamInv'
           /\ Waiting' = {} /\ UNCHANGED execution
  <1>1. /\ batch' = <<>> /\ cur' = NoMessage /\ pc' = "read" /\ UNCHANGED execution
    BY DEF Crash, Return, Goto
  <1>2. Waiting' = {}  BY <1>1 DEF Waiting
  <1>3. StreamOK'  BY <1>1 DEF StreamOK, PCs
  <1>4. StreamInv'  BY <1>1, <1>2 DEF StreamInv, Delivered
  <1>. QED  BY <1>1, <1>2, <1>3, <1>4
-----------------------------------------------------------------------------
\* The rest of TypeOK.
DataOK ==
    /\ plan \in [Ids -> Plans \cup {NoPlan}]
    /\ run \in Runs
    /\ attempt \in 0..OPENCLAW_MAX_ATTEMPTS
    /\ result \in {"none", "ok", "failed"}
    /\ written \in BOOLEAN
    /\ calls \in [Ids -> [Runs -> 0..OPENCLAW_MAX_ATTEMPTS]]
    /\ receipts \subseteq Receipt
    /\ statuses \subseteq [msg : Ids, status : {"complete", "failed"}]
    /\ mission \in [Missions -> {"active", "complete", "failed"}]
    /\ faults \subseteq Ids

LEMMA TypeParts == TypeOK <=> StreamOK /\ DataOK
  BY DEF TypeOK, StreamOK, DataOK

LEMMA HandledMission ==
    ASSUME StreamOK, StreamInv, cur # NoMessage
    PROVE  /\ cur \in Ids
           /\ MissionOf(cur) # Poison => MissionOf(cur) \in Missions
  BY DEF StreamOK, StreamInv, StreamType, Delivered, MissionOf

LEMMA PlanFacts ==
    ASSUME NEW p \in Plans
    PROVE  /\ p.staged \in BOOLEAN /\ p.runs \in 0..MaxStages
           /\ p.runs = 0 => p.staged
           /\ ~p.staged => p.runs = 1
  <1>1. MaxStages \in Nat \ {0}  BY ExecutorAssumption
  <1>2. CASE p = [staged |-> FALSE, runs |-> 1]  BY <1>1, <1>2
  <1>3. CASE p \in [staged : {TRUE}, runs : 0..MaxStages]  BY <1>3
  <1>. QED  BY <1>2, <1>3 DEF Plans

LEMMA ReceiptTypes ==
    ASSUME NEW i \in Ids
    PROVE  /\ \A k \in Runs, ok \in BOOLEAN :
                [msg |-> i, run |-> k, type |-> "openclaw", ok |-> ok] \in Receipt
           /\ [msg |-> i, run |-> 0, type |-> "internal", ok |-> FALSE] \in Receipt
  BY DEF Receipt

LEMMA PostFacts ==
    ASSUME NEW post \in PostOutcomes
    PROVE  post.ok \in BOOLEAN /\ post.applied \in BOOLEAN /\ (post.ok => post.applied)
  <1>1. CASE post = [applied |-> TRUE, ok |-> TRUE]  BY <1>1
  <1>2. CASE post = [applied |-> TRUE, ok |-> FALSE]  BY <1>2
  <1>3. CASE post = [applied |-> FALSE, ok |-> FALSE]  BY <1>3
  <1>. QED  BY <1>1, <1>2, <1>3 DEF PostOutcomes

\* A receipt is added or not, and one that was reported as written is there.
LEMMA ReceiptPosted ==
    ASSUME DataOK, NEW post \in PostOutcomes, NEW r \in Receipt,
           PostReceipt(post, r)
    PROVE  /\ receipts' \subseteq Receipt
           /\ receipts' = receipts \/ receipts' = receipts \cup {r}
           /\ post.ok => r \in receipts'
  BY PostFacts DEF DataOK, PostReceipt

\* The same of a status.
LEMMA StatusPosted ==
    ASSUME DataOK, cur \in Ids, MissionOf(cur) \in Missions,
           NEW post \in PostOutcomes, NEW s \in {"complete", "failed"},
           PostStatus(post, s)
    PROVE  /\ statuses' \subseteq [msg : Ids, status : {"complete", "failed"}]
           /\ mission' \in [Missions -> {"active", "complete", "failed"}]
           /\ \/ UNCHANGED <<statuses, mission>>
              \/ /\ statuses' = statuses \cup {[msg |-> cur, status |-> s]}
                 /\ mission' = [mission EXCEPT ![MissionOf(cur)] = s]
           /\ post.ok => [msg |-> cur, status |-> s] \in statuses'
  BY PostFacts DEF DataOK, PostStatus

LEMMA FaultPosted ==
    ASSUME DataOK, cur \in Ids, NEW post \in PostOutcomes, Fault(post)
    PROVE  /\ faults' \subseteq Ids /\ faults \subseteq faults'
           /\ faults' \subseteq faults \cup {cur}
           /\ ~post.ok => cur \in faults'
  BY DEF DataOK, Fault

LEMMA CallStep ==
    ASSUME StreamOK, DataOK, StreamInv, CallInv, FreshInv, Next
    PROVE  DataOK' /\ CallInv'
  <1>0. 1 \in Runs /\ 0 \in 0..OPENCLAW_MAX_ATTEMPTS
    BY ExecutorAssumption DEF Runs, OPENCLAW_MAX_ATTEMPTS
  <1>. USE DEF DataOK, CallInv
  <1>1. ASSUME NEW m \in Missions \cup {Poison}, Publish(m) PROVE DataOK' /\ CallInv'
    <2>1. cur # NoMessage => MissionOf(cur)' = MissionOf(cur)
      BY <1>1, PublishStep DEF MissionOf, StreamInv, Publish, local
    <2>2. pc # "read" => cur # NoMessage  BY DEF StreamInv
    <2>. QED  BY <1>1, <2>1, <2>2 DEF Publish, local, durable
  <1>2. CASE Read
    <2>1. Batch(execution, BatchSize) \subseteq Ids  BY BatchOfRead
    <2>2. pc' = "read" /\ faults' \subseteq faults \cup Batch(execution, BatchSize)
      BY <1>2 DEF Read
    <2>. QED  BY <1>2, <2>1, <2>2 DEF Read, durable
  <1>3. CASE Take
    BY <1>3 DEF Take, Goto, durable
  <1>4. CASE Crash
    <2>1. Waiting \subseteq Ids /\ cur \in Ids \cup {NoMessage}
      BY DEF StreamInv, StreamOK, Waiting
    <2>. QED  BY <1>0, <1>4, <2>1 DEF Crash, Return, Goto, durable
  <1>5. ASSUME pc # "read", InHandler,
               \/ DropPoison \/ PostStarted \/ Plan \/ CallOpenClaw
               \/ PostStageReceipt \/ PostSingleReceipt \/ PostFinalStatus \/ Ack
               \/ Raise \/ PostInternalReceipt \/ PostInternalStatus \/ AckFailure
        PROVE  DataOK' /\ CallInv'
    <2>1. /\ cur \in Ids /\ MissionOf(cur)' = execution.log[cur']
          /\ MissionOf(cur) # Poison => MissionOf(cur) \in Missions
          /\ execution'.log = execution.log
      BY <1>5, HandlerStep, HandledMission DEF InHandler, MissionOf
    <2>2. cur' = cur => MissionOf(cur)' = MissionOf(cur)  BY <2>1 DEF MissionOf
    <2>. USE <2>1, <2>2
    <2>3. CASE DropPoison  BY <2>3 DEF DropPoison, Goto, durable
    <2>4. CASE PostStarted  BY <1>0, <2>4 DEF PostStarted, Goto, Return, durable
    <2>5. CASE Plan
      <3>1. PICK p \in Plans : /\ plan' = [plan EXCEPT ![cur] = p]
                               /\ Goto(IF p.runs = 0 THEN "status" ELSE "openclaw")
        BY <2>5 DEF Plan
      <3>2. /\ plan' \in [Ids -> Plans \cup {NoPlan}] /\ plan'[cur] = p
            /\ pc' \in {"status", "openclaw"} /\ (pc' = "openclaw" => p.runs >= 1)
        BY <3>1, PlanFacts DEF Goto
      <3>3. /\ UNCHANGED <<cur, run, attempt, calls>> /\ run = 1 /\ attempt = 0
            /\ MissionOf(cur) # Poison
        BY <2>5 DEF Plan
      <3>4. \A k \in Runs : calls[cur][k] = 0  BY <2>5 DEF Plan, FreshInv, Untouched
      <3>5. DataOK'  BY <2>5, <3>2 DEF Plan, durable
      <3>6. CallInv'  BY <1>0, <3>2, <3>3, <3>4 DEF OPENCLAW_MAX_ATTEMPTS
      <3>. QED  BY <3>5, <3>6
    <2>6. CASE CallOpenClaw
      <3>1. /\ calls' = [calls EXCEPT ![cur][run] = calls[cur][run] + 1]
            /\ attempt' = attempt + 1 /\ result' \in {"ok", "failed"}
            /\ pc' \in {"openclaw", "receipt"}
            /\ pc' = "openclaw" => attempt' < OPENCLAW_MAX_ATTEMPTS
            /\ pc = "openclaw"
            /\ UNCHANGED <<cur, plan, run, written, durable, faults>>
        BY <2>6 DEF CallOpenClaw, Goto, Retries
      <3>2. /\ calls[cur] \in [Runs -> 0..OPENCLAW_MAX_ATTEMPTS]
            /\ calls[cur][run] + 1 \in 0..OPENCLAW_MAX_ATTEMPTS
            /\ attempt' \in 0..OPENCLAW_MAX_ATTEMPTS
        BY <3>1 DEF OPENCLAW_MAX_ATTEMPTS
      <3>3. calls' = [calls EXCEPT ![cur] = [calls[cur] EXCEPT ![run] = calls[cur][run] + 1]]
        BY <3>1
      <3>4. /\ calls' \in [Ids -> [Runs -> 0..OPENCLAW_MAX_ATTEMPTS]]
            /\ calls'[cur][run] = calls[cur][run] + 1
            /\ \A k \in Runs : k # run => calls'[cur][k] = calls[cur][k]
        BY <3>2, <3>3
      <3>5. DataOK'  BY <3>1, <3>2, <3>4 DEF durable
      <3>6. run \in Nat  BY DEF Runs
      <3>7. CallInv'  BY <3>1, <3>4, <3>6 DEF Runs
      <3>. QED  BY <3>5, <3>7
    <2>7. CASE PostStageReceipt
      <3>1. PICK post \in PostOutcomes :
              /\ PostReceipt(post, TheReceipt) /\ Fault(post)
              /\ \/ Return
                 \/ /\ Continues /\ pc' = "openclaw"
                    /\ run' = run + 1 /\ attempt' = 0 /\ result' = "none"
                    /\ UNCHANGED <<cur, written>>
                 \/ pc' = "status" /\ UNCHANGED <<cur, run, attempt, result, written>>
        BY <2>7 DEF PostStageReceipt, Goto
      <3>2. TheReceipt \in Receipt  BY ReceiptTypes DEF TheReceipt
      <3>3. receipts' \subseteq Receipt /\ faults' \subseteq Ids
        BY <3>1, <3>2, ReceiptPosted, FaultPosted
      <3>4. /\ pc = "receipt"
            /\ UNCHANGED <<plan, calls, statuses, mission>>
        BY <2>7 DEF PostStageReceipt
      <3>5. plan[cur] \in Plans /\ plan[cur].runs \in 0..MaxStages
            /\ run \in Nat /\ MaxStages \in Nat
        BY <3>4, PlanFacts, ExecutorAssumption DEF Runs
      <3>6. CASE Return  BY <1>0, <3>3, <3>4, <3>6 DEF Return, Goto
      <3>7. CASE /\ Continues /\ pc' = "openclaw"
                 /\ run' = run + 1 /\ attempt' = 0 /\ result' = "none"
                 /\ UNCHANGED <<cur, written>>
        <4>1. run + 1 \in Runs /\ run + 1 <= plan[cur].runs
          BY <3>5, <3>7 DEF Continues, Runs
        <4>2. DataOK'  BY <1>0, <3>3, <3>4, <3>7, <4>1
        <4>3. calls'[cur][run + 1] = 0
          BY <3>4, <3>5, <4>1
        <4>4. CallInv'
          BY <3>4, <3>5, <3>7, <4>1, <4>3 DEF OPENCLAW_MAX_ATTEMPTS, Runs
        <4>. QED  BY <4>2, <4>4
      <3>8. CASE pc' = "status" /\ UNCHANGED <<cur, run, attempt, result, written>>
        BY <3>3, <3>4, <3>8
      <3>. QED  BY <3>1, <3>6, <3>7, <3>8
    <2>8. CASE PostSingleReceipt
      <3>1. PICK post \in PostOutcomes :
              PostReceipt(post, TheReceipt) /\ Fault(post) /\ written' = post.ok
        BY <2>8 DEF PostSingleReceipt
      <3>2. TheReceipt \in Receipt  BY ReceiptTypes DEF TheReceipt
      <3>3. receipts' \subseteq Receipt /\ faults' \subseteq Ids /\ written' \in BOOLEAN
        BY <3>1, <3>2, ReceiptPosted, FaultPosted, PostFacts
      <3>. QED  BY <2>8, <3>3 DEF PostSingleReceipt, Goto
    <2>9. CASE PostFinalStatus
      <3>1. PICK post \in PostOutcomes :
              /\ PostStatus(post, FinalStatus) /\ Fault(post)
              /\ \/ pc' = "ack" /\ UNCHANGED <<cur, run, attempt, result, written>>
                 \/ Return
        BY <2>9 DEF PostFinalStatus, Goto
      <3>2. FinalStatus \in {"complete", "failed"}  BY DEF FinalStatus
      <3>3. pc = "status" /\ UNCHANGED <<plan, calls, receipts>>
        BY <2>9 DEF PostFinalStatus
      <3>4. /\ statuses' \subseteq [msg : Ids, status : {"complete", "failed"}]
            /\ mission' \in [Missions -> {"active", "complete", "failed"}]
            /\ faults' \subseteq Ids
        BY <3>1, <3>2, <3>3, StatusPosted, FaultPosted
      <3>5. CASE Return  BY <1>0, <3>3, <3>4, <3>5 DEF Return, Goto
      <3>6. CASE pc' = "ack" /\ UNCHANGED <<cur, run, attempt, result, written>>
        BY <3>3, <3>4, <3>6
      <3>. QED  BY <3>1, <3>5, <3>6
    <2>10. CASE Ack  BY <1>0, <2>10 DEF Ack, Goto, Return, durable
    <2>11. CASE Raise  BY <2>11 DEF Raise, Goto, durable
    <2>12. CASE PostInternalReceipt
      <3>1. PICK post \in PostOutcomes :
              /\ PostReceipt(post, [msg |-> cur, run |-> 0, type |-> "internal", ok |-> FALSE])
              /\ Fault(post) /\ written' = post.ok
        BY <2>12 DEF PostInternalReceipt
      <3>2. receipts' \subseteq Receipt /\ faults' \subseteq Ids /\ written' \in BOOLEAN
        BY <3>1, ReceiptTypes, ReceiptPosted, FaultPosted, PostFacts
      <3>. QED  BY <2>12, <3>2 DEF PostInternalReceipt, Goto
    <2>13. CASE PostInternalStatus
      <3>1. PICK post \in PostOutcomes :
              /\ PostStatus(post, "failed") /\ Fault(post)
              /\ \/ pc' = "ackFailure" /\ UNCHANGED <<cur, run, attempt, result, written>>
                 \/ Return
        BY <2>13 DEF PostInternalStatus, Goto
      <3>2. pc = "internalStatus" /\ UNCHANGED <<plan, calls, receipts>>
        BY <2>13 DEF PostInternalStatus
      <3>3. /\ statuses' \subseteq [msg : Ids, status : {"complete", "failed"}]
            /\ mission' \in [Missions -> {"active", "complete", "failed"}]
            /\ faults' \subseteq Ids
        BY <3>1, <3>2, StatusPosted, FaultPosted
      <3>4. CASE Return  BY <1>0, <3>2, <3>3, <3>4 DEF Return, Goto
      <3>5. CASE pc' = "ackFailure" /\ UNCHANGED <<cur, run, attempt, result, written>>
        BY <3>2, <3>3, <3>5
      <3>. QED  BY <3>1, <3>4, <3>5
    <2>14. CASE AckFailure  BY <1>0, <2>14 DEF AckFailure, Goto, Return, durable
    <2>. QED
      BY <1>5, <2>3, <2>4, <2>5, <2>6, <2>7, <2>8, <2>9, <2>10, <2>11, <2>12, <2>13, <2>14
  <1>. QED
    BY <1>1, <1>2, <1>3, <1>4, <1>5, HandlerSteps
       DEF Next, Handle, StreamInv, DropPoison, PostStarted, Plan, CallOpenClaw,
           PostStageReceipt, PostSingleReceipt, PostFinalStatus, Ack, Raise,
           PostInternalReceipt, PostInternalStatus, AckFailure
-----------------------------------------------------------------------------
\* A step of the handler, whichever it is.
HandlerAction ==
    \/ DropPoison \/ PostStarted \/ Plan \/ CallOpenClaw
    \/ PostStageReceipt \/ PostSingleReceipt \/ PostFinalStatus \/ Ack
    \/ Raise \/ PostInternalReceipt \/ PostInternalStatus \/ AckFailure

\* It adds to what is on record, and only about its entry.
LEMMA OnlyAbout ==
    ASSUME StreamOK, DataOK, StreamInv, CallInv, HandlerAction, InHandler
    PROVE  /\ receipts \subseteq receipts' /\ statuses \subseteq statuses'
           /\ faults \subseteq faults'
           /\ faults' \subseteq faults \cup {cur}
           /\ \A x \in statuses' : x \in statuses \/ x.msg = cur
           /\ \A x \in receipts' : x \in receipts \/ x.msg = cur
           /\ \A i \in Ids : i # cur => plan'[i] = plan[i] /\ calls'[i] = calls[i]
           /\ pc # "plan" => plan' = plan
           /\ cur \in Ids /\ execution'.log = execution.log
           /\ pc' \in {"start", "plan"} => UNCHANGED <<plan, calls, statuses>>
  <1>0. /\ cur \in Ids /\ execution'.log = execution.log
        /\ MissionOf(cur) # Poison => MissionOf(cur) \in Missions
        /\ pc \notin {"read", "start", "ack", "ackFailure"} => MissionOf(cur) # Poison
    BY HandlerStep, HandledMission DEF InHandler, CallInv
  <1>1. CASE DropPoison  BY <1>0, <1>1 DEF DropPoison, durable, Goto
  <1>2. CASE PostStarted  BY <1>0, <1>2 DEF PostStarted, durable, Goto, Return
  <1>3. CASE Plan
    <2>1. pc = "plan" /\ pc' \in {"status", "openclaw"} /\ UNCHANGED <<calls, durable, faults>>
      BY <1>3 DEF Plan, Goto
    <2>2. \A i \in Ids : i # cur => plan'[i] = plan[i]
      BY <1>0, <1>3 DEF Plan, DataOK
    <2>. QED  BY <1>0, <2>1, <2>2 DEF durable
  <1>4. CASE CallOpenClaw
    <2>1. /\ pc = "openclaw" /\ pc' \in {"openclaw", "receipt"}
          /\ UNCHANGED <<plan, durable, faults>>
          /\ calls' = [calls EXCEPT ![cur][run] = @ + 1]
      BY <1>4 DEF CallOpenClaw, Goto
    <2>2. \A i \in Ids : i # cur => calls'[i] = calls[i]
      BY <1>0, <2>1 DEF DataOK
    <2>. QED  BY <1>0, <2>1, <2>2 DEF durable
  <1>5. CASE PostStageReceipt \/ PostSingleReceipt
    <2>1. TheReceipt \in Receipt /\ TheReceipt.msg = cur
      BY <1>0, ReceiptTypes DEF TheReceipt, DataOK
    <2>2. /\ receipts \subseteq receipts' /\ faults \subseteq faults'
          /\ faults' \subseteq faults \cup {cur}
          /\ \A x \in receipts' : x \in receipts \/ x.msg = cur
          /\ UNCHANGED <<plan, calls, statuses>> /\ pc' \notin {"start", "plan"}
      BY <1>0, <1>5, <2>1, ReceiptPosted, FaultPosted
         DEF PostStageReceipt, PostSingleReceipt, Goto, Return
    <2>. QED  BY <1>0, <2>2
  <1>6. CASE PostFinalStatus
    <2>1. PICK post \in PostOutcomes : PostStatus(post, FinalStatus) /\ Fault(post)
      BY <1>6 DEF PostFinalStatus
    <2>2. FinalStatus \in {"complete", "failed"} /\ pc = "status"
      BY <1>6 DEF FinalStatus, PostFinalStatus
    <2>3. /\ statuses \subseteq statuses' /\ faults \subseteq faults'
          /\ faults' \subseteq faults \cup {cur}
          /\ \A x \in statuses' : x \in statuses \/ x.msg = cur
      BY <1>0, <2>1, <2>2, StatusPosted, FaultPosted
    <2>. QED  BY <1>0, <1>6, <2>3 DEF PostFinalStatus, Goto, Return
  <1>7. CASE PostInternalReceipt
    <2>1. /\ receipts \subseteq receipts' /\ faults \subseteq faults'
          /\ faults' \subseteq faults \cup {cur}
          /\ \A x \in receipts' : x \in receipts \/ x.msg = cur
      BY <1>0, <1>7, ReceiptTypes, ReceiptPosted, FaultPosted DEF PostInternalReceipt
    <2>. QED  BY <1>0, <1>7, <2>1 DEF PostInternalReceipt, Goto
  <1>8. CASE PostInternalStatus
    <2>1. PICK post \in PostOutcomes : PostStatus(post, "failed") /\ Fault(post)
      BY <1>8 DEF PostInternalStatus
    <2>2. pc = "internalStatus"  BY <1>8 DEF PostInternalStatus
    <2>3. /\ statuses \subseteq statuses' /\ faults \subseteq faults'
          /\ faults' \subseteq faults \cup {cur}
          /\ \A x \in statuses' : x \in statuses \/ x.msg = cur
      BY <1>0, <2>1, <2>2, StatusPosted, FaultPosted
    <2>. QED  BY <1>0, <1>8, <2>3 DEF PostInternalStatus, Goto, Return
  <1>9. CASE Ack \/ Raise \/ AckFailure
    BY <1>0, <1>9 DEF Ack, Raise, AckFailure, durable, Goto, Return
  <1>. QED
    BY <1>1, <1>2, <1>3, <1>4, <1>5, <1>6, <1>7, <1>8, <1>9 DEF HandlerAction

\* Every step is one of these.
LEMMA StepKinds ==
    ASSUME StreamInv, [Next]_vars
    PROVE  \/ \E m \in Missions \cup {Poison} : Publish(m)
           \/ Read \/ Take \/ Crash
           \/ HandlerAction /\ InHandler /\ pc # "read"
           \/ UNCHANGED vars
  <1>1. HandlerAction => pc # "read"
    BY DEF HandlerAction, DropPoison, PostStarted, Plan, CallOpenClaw, PostStageReceipt,
           PostSingleReceipt, PostFinalStatus, Ack, Raise, PostInternalReceipt,
           PostInternalStatus, AckFailure
  <1>2. HandlerAction /\ pc # "read" => InHandler
    BY HandlerSteps DEF HandlerAction
  <1>. QED  BY <1>1, <1>2 DEF Next, Handle, HandlerAction

LEMMA TypeStep == TypeInv /\ [Next]_vars => TypeInv'
  <1> SUFFICES ASSUME TypeInv, [Next]_vars PROVE TypeInv'
    OBVIOUS
  <1>0. StreamOK /\ DataOK /\ StreamInv /\ CallInv /\ FreshInv
    BY TypeParts DEF TypeInv
  <1>1. CASE UNCHANGED vars
    BY <1>1 DEF vars, local, durable, TypeInv, TypeOK, StreamInv, CallInv, FreshInv,
               Untouched, HasStatus, MissionOf, Waiting
  <1>2. CASE Next
    <2>1. DataOK' /\ CallInv'  BY <1>0, <1>2, CallStep
    <2>2. ASSUME NEW m \in Missions \cup {Poison}, Publish(m)
          PROVE  StreamOK' /\ StreamInv' /\ FreshInv'
      BY <1>0, <2>2, PublishStep
         DEF Publish, local, durable, FreshInv, Untouched, HasStatus
    <2>3. ASSUME Read PROVE StreamOK' /\ StreamInv' /\ FreshInv'
      BY <1>0, <2>3, ReadStep, BatchOfRead DEF Read, durable, FreshInv, Untouched, HasStatus
    <2>4. ASSUME Take PROVE StreamOK' /\ StreamInv' /\ FreshInv'
      BY <1>0, <2>4, TakeStep
         DEF Take, Goto, durable, FreshInv, Untouched, HasStatus, Delivered
    <2>5. ASSUME Crash PROVE StreamOK' /\ StreamInv' /\ FreshInv'
      BY <1>0, <2>5, CrashStep
         DEF Crash, Return, Goto, durable, FreshInv, Untouched, HasStatus, Delivered
    <2>6. ASSUME HandlerAction, InHandler PROVE StreamOK' /\ StreamInv' /\ FreshInv'
      <3>1. StreamOK' /\ StreamInv' /\ Waiting' = Waiting
            /\ Delivered(execution)' = Delivered(execution)
        BY <1>0, <2>6, HandlerStep
      <3>2. \A i \in Ids : i # cur /\ Untouched(i) => Untouched(i)'
        BY <1>0, <2>6, OnlyAbout DEF Untouched, HasStatus
      <3>3. cur \in Delivered(execution) /\ cur \notin Waiting /\ Waiting \subseteq Ids
        BY <1>0, <2>6 DEF StreamInv, StreamOK, InHandler, Waiting
      <3>4. pc' \in {"start", "plan"} => Untouched(cur)'
        <4>1. pc' \in {"start", "plan"} => pc = "start" /\ UNCHANGED <<plan, calls, statuses, cur>>
          BY <1>0, <2>6, OnlyAbout
             DEF HandlerAction, InHandler, DropPoison, PostStarted, Plan, CallOpenClaw,
                 PostStageReceipt, PostSingleReceipt, PostFinalStatus, Ack, Raise,
                 PostInternalReceipt, PostInternalStatus, AckFailure, Goto, Return
        <4>. QED  BY <1>0, <4>1 DEF FreshInv, Untouched, HasStatus
      <3>. QED
        <4>1. pc' \in {"start", "plan"} => cur' = cur
          BY <2>6 DEF InHandler
        <4>. QED  BY <1>0, <3>1, <3>2, <3>3, <3>4, <4>1 DEF FreshInv, Untouched, HasStatus
    <2>. QED
      <3>1. (StreamOK' /\ StreamInv' /\ FreshInv') \/ UNCHANGED vars
        BY <1>0, <2>2, <2>3, <2>4, <2>5, <2>6, StepKinds
      <3>2. StreamOK' /\ DataOK' <=> TypeOK'  BY TypeParts, PTL
      <3>. QED  BY <1>1, <2>1, <3>1, <3>2 DEF TypeInv
  <1>. QED  BY <1>1, <1>2
-----------------------------------------------------------------------------
\* What is on record stays there.
LEMMA Monotone ==
    ASSUME TypeInv, HandlerAction, InHandler, NEW i \in Ids
    PROVE  /\ HasReceipt(i) => HasReceipt(i)'
           /\ HasStatus(i) => HasStatus(i)'
           /\ HasStatus(i) /\ Accounted(i) => Accounted(i)'
           /\ pc # "plan" /\ Accounted(i) => Accounted(i)'
           /\ \A k \in Runs : Succeeded(i, k) => Succeeded(i, k)'
           /\ i # cur /\ HasStatus(i)' => HasStatus(i)
  <1>1. StreamOK /\ DataOK /\ StreamInv /\ CallInv /\ FreshInv
    BY TypeParts DEF TypeInv
  <1>2. /\ receipts \subseteq receipts' /\ statuses \subseteq statuses'
        /\ \A x \in statuses' : x \in statuses \/ x.msg = cur
        /\ i # cur => plan'[i] = plan[i]
        /\ pc # "plan" => plan' = plan
    BY <1>1, OnlyAbout
  <1>3. HasReceipt(i) => HasReceipt(i)'  BY <1>2 DEF HasReceipt
  <1>4. HasStatus(i) => HasStatus(i)'  BY <1>2 DEF HasStatus
  <1>5. HasStatus(i) => plan'[i] = plan[i]
    BY <1>1, <1>2 DEF FreshInv, Untouched
  <1>6. \A k \in Runs : Succeeded(i, k) => Succeeded(i, k)'
    BY <1>2 DEF Succeeded
  <1>7. i # cur /\ HasStatus(i)' => HasStatus(i)  BY <1>2 DEF HasStatus
  <1>. QED  BY <1>2, <1>3, <1>4, <1>5, <1>6, <1>7 DEF Accounted

LEMMA RecordStep ==
    ASSUME TypeInv, RecordInv, HandlerAction, InHandler, NEW i \in Ids, i = cur
    PROVE  RecordInv'
  <1>1. StreamOK /\ DataOK /\ StreamInv /\ CallInv /\ FreshInv
    BY TypeParts DEF TypeInv
  <1>2. /\ cur \in Ids /\ execution'.log = execution.log
        /\ faults \subseteq faults'
        /\ pc # "plan" => plan' = plan
    BY <1>1, OnlyAbout
  <1>3. /\ HasReceipt(i) => HasReceipt(i)'
        /\ HasStatus(i) => HasStatus(i)'
        /\ HasStatus(i) /\ Accounted(i) => Accounted(i)'
        /\ pc # "plan" /\ Accounted(i) => Accounted(i)'
        /\ \A k \in Runs : Succeeded(i, k) => Succeeded(i, k)'
    BY Monotone
  <1>. USE i = cur
  <1>4. cur' = i => /\ MissionOf(cur)' = MissionOf(cur)
                    /\ HasStatus(cur)' <=> HasStatus(i)'
                    /\ HasReceipt(cur)' <=> HasReceipt(i)'
                    /\ Accounted(cur)' <=> Accounted(i)'
                    /\ \A k : Succeeded(cur, k)' <=> Succeeded(i, k)'
    BY <1>2 DEF MissionOf, HasStatus, HasReceipt, Accounted, Succeeded
  <1>5. ASSUME Return PROVE RecordInv'
    BY <1>5 DEF RecordInv, Return, Goto
  <1>6. \A s : [msg |-> cur, status |-> s] \in statuses' => HasStatus(i)'
    BY DEF HasStatus
  <1>7. CASE DropPoison
    <2>1. pc' = "ack" /\ cur' = i /\ MissionOf(cur) = Poison
      BY <1>7 DEF DropPoison, Goto
    <2>. QED  BY <1>4, <2>1 DEF RecordInv
  <1>8. CASE PostStarted
    <2>1. Return \/ (pc' = "plan" /\ written' = TRUE /\ pc = "start")
      BY <1>8 DEF PostStarted, Goto, RecordInv
    <2>. QED  BY <1>5, <2>1 DEF RecordInv
  <1>9. CASE Plan
    <2>1. PICK p \in Plans : /\ plan' = [plan EXCEPT ![cur] = p]
                             /\ pc' = IF p.runs = 0 THEN "status" ELSE "openclaw"
      BY <1>9 DEF Plan, Goto
    <2>2. plan'[cur] = p /\ (p.runs = 0 => p.staged)
      BY <1>1, <1>2, <2>1, PlanFacts DEF DataOK
    <2>3. /\ pc = "plan" /\ UNCHANGED <<cur, run, written, receipts, statuses>>
          /\ ~HasStatus(i) /\ run = 1 /\ written = TRUE
      BY <1>1, <1>9 DEF Plan, durable, FreshInv, Untouched, CallInv, RecordInv
    <2>4. ~HasStatus(i)'  BY <2>3 DEF HasStatus
    <2>5. pc' = "status" => Accounted(i)'
      BY <2>1, <2>2, <2>3 DEF Accounted
    <2>6. pc' = "openclaw" => \A k \in 1..run'-1 : Succeeded(cur, k)'
      BY <2>3
    <2>7. pc' = "status" => plan'[cur'].runs = 0
      BY <2>1, <2>2, <2>3
    <2>8. pc' = "status" => \A k \in 1..plan'[cur'].runs : Succeeded(cur, k)'
      BY <2>7
    <2>9. pc' \in {"status", "openclaw"} /\ written' = TRUE /\ cur' = i  BY <2>1, <2>3
    <2>10. ~HasStatus(cur)' /\ (pc' = "status" => Accounted(cur)')
      BY <1>4, <2>4, <2>5, <2>9
    <2>11. CASE pc' = "openclaw"  BY <2>6, <2>9, <2>10, <2>11 DEF RecordInv
    <2>12. CASE pc' = "status"
      <3>1. (IF written THEN Accounted(cur) ELSE cur \in faults)'
        BY <2>9, <2>10, <2>12, Zenon
      <3>2. FinalStatus' = "complete" => \A k \in 1..plan'[cur'].runs : Succeeded(cur, k)'
        BY <2>8, <2>12
      <3>. QED  BY <2>10, <2>12, <3>1, <3>2 DEF RecordInv
    <2>. QED  BY <2>9, <2>11, <2>12
  <1>10. CASE CallOpenClaw
    <2>1. /\ pc = "openclaw" /\ pc' \in {"openclaw", "receipt"}
          /\ UNCHANGED <<cur, run, written, plan, receipts, statuses>>
      BY <1>10 DEF CallOpenClaw, Goto, durable
    <2>. QED  BY <2>1 DEF RecordInv, HasStatus, Succeeded
  <1>11. CASE PostStageReceipt
    <2>1. PICK post \in PostOutcomes :
            /\ PostReceipt(post, TheReceipt)
            /\ \/ Return
               \/ /\ post.ok /\ Continues /\ pc' = "openclaw"
                  /\ run' = run + 1 /\ UNCHANGED <<cur, written>>
               \/ /\ post.ok /\ ~Continues /\ pc' = "status"
                  /\ UNCHANGED <<cur, run, result, written>>
      BY <1>11 DEF PostStageReceipt, Goto
    <2>2. /\ pc = "receipt" /\ plan[cur].staged /\ UNCHANGED <<plan, statuses>>
          /\ run <= plan[cur].runs /\ run \in Runs /\ run \in Nat
          /\ plan[cur].runs \in Nat
      BY <1>1, <1>11, PlanFacts DEF PostStageReceipt, CallInv, DataOK, Runs
    <2>3. ~HasStatus(i)'  BY <2>2 DEF RecordInv, HasStatus
    <2>4. TheReceipt \in Receipt  BY <1>1, <1>2, ReceiptTypes DEF TheReceipt, DataOK
    <2>5. /\ post.ok => HasReceipt(i)'
          /\ \A k : post.ok /\ k = run /\ result = "ok" => Succeeded(i, k)'
      BY <1>1, <2>1, <2>2, <2>4, ReceiptPosted DEF HasReceipt, Succeeded, TheReceipt
    <2>6. \A k \in 1..run-1 : Succeeded(i, k)'
      <3>1. \A k \in 1..run-1 : k \in Runs
        BY <2>2, ExecutorAssumption DEF Runs
      <3>2. \A k \in 1..run-1 : Succeeded(i, k)  BY <2>2 DEF RecordInv
      <3>. QED  BY <1>3, <3>1, <3>2
    <2>7. CASE Return  BY <1>5, <2>7
    <2>8. CASE /\ post.ok /\ Continues /\ pc' = "openclaw"
               /\ run' = run + 1 /\ UNCHANGED <<cur, written>>
      <3>1. \A k \in 1..run : Succeeded(i, k)'
        <4>1. \A k \in 1..run : k \in 1..run-1 \/ k = run  BY <2>2
        <4>. QED  BY <2>5, <2>6, <2>8, <4>1 DEF Continues
      <3>2. \A k \in 1..run'-1 : Succeeded(i, k)'
        BY <2>2, <2>8, <3>1
      <3>. QED  BY <2>2, <2>3, <2>8, <3>2 DEF RecordInv, HasStatus, Succeeded
    <2>9. CASE /\ post.ok /\ ~Continues /\ pc' = "status"
               /\ UNCHANGED <<cur, run, result, written>>
      <3>1. FinalStatus' = "complete" => result = "ok" /\ run = plan[cur].runs
        BY <2>2, <2>9 DEF FinalStatus, Continues, Runs
      <3>2. FinalStatus' = "complete" => \A k \in 1..plan[cur].runs : Succeeded(i, k)'
        BY <2>2, <2>5, <2>6, <2>9, <3>1
      <3>3. Accounted(i)'  BY <2>5, <2>9 DEF Accounted
      <3>4. written = TRUE  BY <2>2 DEF RecordInv
      <3>. QED  BY <2>2, <2>3, <2>9, <3>2, <3>3, <3>4 DEF RecordInv, HasStatus, Succeeded
    <2>. QED  BY <2>1, <2>7, <2>8, <2>9
  <1>12. CASE PostSingleReceipt
    <2>1. PICK post \in PostOutcomes :
            PostReceipt(post, TheReceipt) /\ Fault(post) /\ written' = post.ok
      BY <1>12 DEF PostSingleReceipt
    <2>2. /\ pc = "receipt" /\ pc' = "status" /\ ~plan[cur].staged
          /\ UNCHANGED <<cur, plan, statuses>>
      BY <1>12 DEF PostSingleReceipt, Goto
    <2>3. ~HasStatus(i)'  BY <2>2 DEF RecordInv, HasStatus
    <2>4. TheReceipt \in Receipt  BY <1>1, <1>2, ReceiptTypes DEF TheReceipt, DataOK
    <2>5. post.ok => HasReceipt(i)'
      BY <1>1, <2>1, <2>4, ReceiptPosted DEF HasReceipt, TheReceipt
    <2>6. IF written' THEN Accounted(i)' ELSE cur \in faults'
      BY <1>1, <1>2, <2>1, <2>5, FaultPosted, PostFacts DEF Accounted
    <2>. QED  BY <2>2, <2>3, <2>6 DEF RecordInv
  <1>13. CASE PostFinalStatus
    <2>1. PICK post \in PostOutcomes :
            /\ PostStatus(post, FinalStatus)
            /\ \/ Recorded(post) /\ pc' = "ack" /\ cur' = cur
               \/ Return
      BY <1>13 DEF PostFinalStatus, Goto
    <2>2. pc = "status" /\ MissionOf(cur) \in Missions
      BY <1>1, <1>13, HandledMission DEF PostFinalStatus, CallInv, InHandler
    <2>3. FinalStatus \in {"complete", "failed"}  BY DEF FinalStatus
    <2>4. CASE Return  BY <1>5, <2>4
    <2>5. CASE Recorded(post) /\ pc' = "ack" /\ cur' = cur
      <3>1. HasStatus(i)'
        BY <1>1, <1>2, <1>6, <2>1, <2>2, <2>3, <2>5, StatusPosted DEF Recorded
      <3>2. Accounted(i)'  BY <1>3, <2>2, <2>5 DEF RecordInv, Recorded
      <3>. QED  BY <2>5, <3>1, <3>2 DEF RecordInv
    <2>. QED  BY <2>1, <2>4, <2>5
  <1>14. CASE Ack
    BY <1>5, <1>14 DEF Ack, Return, Goto
  <1>15. CASE Raise
    <2>1. /\ pc' \in {"ackFailure", "internalReceipt"} /\ cur' = cur /\ cur \in faults'
          /\ pc' = "ackFailure" => MissionOf(cur) = Poison
      BY <1>2, <1>15 DEF Raise, Goto
    <2>. QED  BY <1>4, <2>1 DEF RecordInv
  <1>16. CASE PostInternalReceipt
    <2>1. PICK post \in PostOutcomes :
            /\ PostReceipt(post, [msg |-> cur, run |-> 0, type |-> "internal", ok |-> FALSE])
            /\ written' = post.ok
      BY <1>16 DEF PostInternalReceipt
    <2>2. /\ pc = "internalReceipt" /\ pc' = "internalStatus" /\ cur' = cur
      BY <1>16 DEF PostInternalReceipt, Goto
    <2>3. post.ok => HasReceipt(i)'
      BY <1>1, <1>2, <2>1, ReceiptTypes, ReceiptPosted DEF HasReceipt
    <2>4. written' => Accounted(i)'
      BY <2>1, <2>3 DEF Accounted
    <2>. QED  BY <1>2, <2>2, <2>4 DEF RecordInv
  <1>17. CASE PostInternalStatus
    <2>1. PICK post \in PostOutcomes :
            /\ PostStatus(post, "failed")
            /\ \/ Recorded(post) /\ pc' = "ackFailure" /\ cur' = cur
               \/ Return
      BY <1>17 DEF PostInternalStatus, Goto
    <2>2. pc = "internalStatus" /\ MissionOf(cur) \in Missions
      BY <1>1, <1>17, HandledMission DEF PostInternalStatus, CallInv, InHandler
    <2>3. CASE Return  BY <1>5, <2>3
    <2>4. CASE Recorded(post) /\ pc' = "ackFailure" /\ cur' = cur
      <3>1. HasStatus(i)'
        BY <1>1, <1>2, <1>6, <2>1, <2>2, <2>4, StatusPosted DEF Recorded
      <3>2. Accounted(i)'  BY <1>3, <2>2, <2>4 DEF RecordInv, Recorded
      <3>. QED  BY <1>2, <2>2, <2>4, <3>1, <3>2 DEF RecordInv
    <2>. QED  BY <2>1, <2>3, <2>4
  <1>18. CASE AckFailure
    BY <1>5, <1>18 DEF AckFailure, Return, Goto
  <1>. QED
    BY <1>7, <1>8, <1>9, <1>10, <1>11, <1>12, <1>13, <1>14, <1>15, <1>16, <1>17, <1>18
       DEF HandlerAction
-----------------------------------------------------------------------------
LEMMA AckedStep ==
    ASSUME TypeInv, RecordInv, AckedIsRecorded, HandlerAction, InHandler
    PROVE  AckedIsRecorded'
  <1>1. StreamOK /\ DataOK /\ StreamInv /\ CallInv /\ FreshInv
    BY TypeParts DEF TypeInv
  <1>2. /\ Delivered(execution)' = Delivered(execution)
        /\ execution.pending \ {cur} \subseteq execution.pending'
        /\ execution'.log = execution.log
        /\ Delivered(execution) \subseteq Ids
        /\ execution' = execution \/ execution' = XAck(execution, cur)
    <2>1. Delivered(execution) \subseteq Ids
      <3>1. /\ execution.read \in Nat /\ execution.read <= Len(execution.log)
            /\ Len(execution.log) \in Nat /\ Len(execution.log) <= MaxMessages
            /\ MaxMessages \in Nat
        BY <1>1, ExecutorAssumption DEF StreamOK, StreamInv, StreamType
      <3>. QED  BY <3>1 DEF Delivered, Ids
    <2>. QED  BY <1>1, <2>1, HandlerStep DEF InHandler
  <1>3. execution'.pending # execution.pending => pc \in {"ack", "ackFailure"}
    BY DEF HandlerAction, DropPoison, PostStarted, Plan, CallOpenClaw, PostStageReceipt,
           PostSingleReceipt, PostFinalStatus, Ack, Raise, PostInternalReceipt,
           PostInternalStatus, AckFailure
  <1>4. SUFFICES ASSUME NEW i \in Acked(execution)', MissionOf(i)' # Poison
                 PROVE  HasStatus(i)' /\ Accounted(i)'
    BY DEF AckedIsRecorded
  <1>5. i \in Ids /\ i \in Delivered(execution) /\ i \notin execution'.pending
        /\ MissionOf(i) # Poison
    BY <1>2, <1>4 DEF Acked, MissionOf
  <1>6. HasStatus(i) /\ Accounted(i)
    <2>1. CASE i \notin execution.pending
      BY <1>5, <2>1 DEF AckedIsRecorded, Acked
    <2>2. CASE i \in execution.pending
      <3>1. i = cur /\ pc \in {"ack", "ackFailure"}  BY <1>2, <1>3, <1>5, <2>2
      <3>. QED  BY <1>5, <3>1 DEF RecordInv
    <2>. QED  BY <2>1, <2>2
  <1>. QED  BY <1>5, <1>6, Monotone

LEMMA StagesStep ==
    ASSUME TypeInv, RecordInv, StagesProven, HandlerAction, InHandler
    PROVE  StagesProven'
  <1>1. StreamOK /\ DataOK /\ StreamInv /\ CallInv /\ FreshInv
    BY TypeParts DEF TypeInv
  <1>2. /\ \A x \in statuses' : x \in statuses \/ x.msg = cur
        /\ \A i \in Ids : i # cur => plan'[i] = plan[i] /\ calls'[i] = calls[i]
        /\ pc # "plan" => plan' = plan
        /\ cur \in Ids
    BY <1>1, OnlyAbout
  <1>3. SUFFICES ASSUME NEW i \in Ids, plan'[i].staged
                 PROVE  /\ [msg |-> i, status |-> "complete"] \in statuses' =>
                             \A k \in 1..plan'[i].runs : Succeeded(i, k)'
                        /\ \A k \in 2..MaxStages : calls'[i][k] > 0 => Succeeded(i, k - 1)'
    BY DEF StagesProven, Succeeded
  <1>4. /\ \A k \in Runs : Succeeded(i, k) => Succeeded(i, k)'
        /\ MaxStages \in Nat \ {0}
        /\ \A k \in 2..MaxStages : k \in Runs /\ k - 1 \in Runs
    BY Monotone, ExecutorAssumption DEF Runs
  <1>5. CASE i # cur
    <2>1. /\ plan'[i] = plan[i] /\ calls'[i] = calls[i] /\ plan[i] \in Plans \cup {NoPlan}
          /\ [msg |-> i, status |-> "complete"] \in statuses' =>
                [msg |-> i, status |-> "complete"] \in statuses
      BY <1>1, <1>2, <1>5 DEF DataOK
    <2>2. \A k \in 1..plan[i].runs : k \in Runs
      BY <1>3, <1>4, <2>1, PlanFacts DEF Runs, NoPlan
    <2>. QED  BY <1>3, <1>4, <2>1, <2>2 DEF StagesProven
  <1>6. CASE i = cur /\ pc = "plan"
    <2>1. Untouched(i)  BY <1>1, <1>6 DEF FreshInv
    <2>2. pc \in {"plan"} => UNCHANGED <<calls, statuses>>
      BY DEF HandlerAction, DropPoison, PostStarted, Plan, CallOpenClaw, PostStageReceipt,
             PostSingleReceipt, PostFinalStatus, Ack, Raise, PostInternalReceipt,
             PostInternalStatus, AckFailure, durable
    <2>3. [msg |-> i, status |-> "complete"] \notin statuses'
      BY <1>6, <2>1, <2>2 DEF Untouched, HasStatus
    <2>4. \A k \in 2..MaxStages : calls'[i][k] = 0
      BY <1>4, <1>6, <2>1, <2>2 DEF Untouched
    <2>. QED  BY <2>3, <2>4
  <1>7. CASE i = cur /\ pc # "plan"
    <2>1. plan' = plan /\ plan[i] \in Plans \cup {NoPlan}  BY <1>1, <1>2, <1>7 DEF DataOK
    <2>2. \A k \in 1..plan[i].runs : k \in Runs
      BY <1>3, <1>4, <2>1, PlanFacts DEF Runs, NoPlan
    <2>3. [msg |-> i, status |-> "complete"] \in statuses' =>
            \/ [msg |-> i, status |-> "complete"] \in statuses
            \/ pc = "status" /\ FinalStatus = "complete"
      BY DEF HandlerAction, DropPoison, PostStarted, Plan, CallOpenClaw, PostStageReceipt,
             PostSingleReceipt, PostFinalStatus, Ack, Raise, PostInternalReceipt,
             PostInternalStatus, AckFailure, PostStatus, durable
    <2>4. \A k \in Runs : calls'[i][k] = calls[i][k] \/ (pc = "openclaw" /\ k = run)
      <3>1. calls' = calls \/ CallOpenClaw
        BY DEF HandlerAction, DropPoison, PostStarted, Plan, PostStageReceipt,
             PostSingleReceipt, PostFinalStatus, Ack, Raise, PostInternalReceipt,
             PostInternalStatus, AckFailure
      <3>. QED  BY <1>1, <3>1 DEF CallOpenClaw, DataOK
    <2>5. [msg |-> i, status |-> "complete"] \in statuses' =>
            \A k \in 1..plan[i].runs : Succeeded(i, k)
      BY <1>3, <1>7, <2>1, <2>3 DEF StagesProven, RecordInv
    <2>6. ASSUME NEW k \in 2..MaxStages, calls'[i][k] > 0 PROVE Succeeded(i, k - 1)
      <3>1. CASE calls'[i][k] = calls[i][k]
        BY <1>3, <2>1, <2>6, <3>1 DEF StagesProven
      <3>2. CASE pc = "openclaw" /\ k = run
        <4>1. k - 1 \in 1..run-1  BY <3>2
        <4>. QED  BY <1>3, <1>7, <2>1, <3>2, <4>1 DEF RecordInv
      <3>. QED  BY <1>4, <2>4, <3>1, <3>2
    <2>7. \A k \in 2..MaxStages : calls'[i][k] > 0 => Succeeded(i, k - 1)'
      <3>1. \A l : l \in Runs /\ Succeeded(i, l) => Succeeded(i, l)'  BY <1>4
      <3>2. ASSUME NEW k \in 2..MaxStages, calls'[i][k] > 0 PROVE Succeeded(i, k - 1)'
        BY <1>4, <2>6, <3>1, <3>2
      <3>. QED  BY <3>2
    <2>. QED  BY <1>4, <2>1, <2>2, <2>5, <2>7
  <1>. QED  BY <1>5, <1>6, <1>7

\* The handler lets its entry go with XACK or after a fault.
LEMMA LetsGo ==
    ASSUME TypeInv, RecordInv, HandlerAction, InHandler
    PROVE  cur' = cur \/ cur \in faults' \/ execution' = XAck(execution, cur)
  <1>1. StreamOK /\ DataOK /\ StreamInv /\ CallInv /\ FreshInv
    BY TypeParts DEF TypeInv
  <1>2. faults \subseteq faults' /\ cur \in Ids
    BY <1>1, OnlyAbout
  <1>3. CASE DropPoison \/ Plan \/ CallOpenClaw \/ PostSingleReceipt \/ Raise
               \/ PostInternalReceipt
    BY <1>3 DEF DropPoison, Plan, CallOpenClaw, PostSingleReceipt, Raise, PostInternalReceipt
  <1>4. CASE PostStarted  BY <1>4 DEF PostStarted
  <1>5. CASE PostStageReceipt
    BY <1>1, <1>2, <1>5, FaultPosted DEF PostStageReceipt
  <1>6. CASE PostFinalStatus
    <2>1. PICK post \in PostOutcomes :
            Fault(post) /\ (cur' = cur \/ ~Recorded(post)) /\ pc = "status"
      BY <1>6 DEF PostFinalStatus
    <2>2. written = FALSE => cur \in faults
      BY <2>1 DEF RecordInv
    <2>. QED  BY <1>1, <1>2, <2>1, <2>2, FaultPosted DEF Recorded, DataOK
  <1>7. CASE PostInternalStatus \/ AckFailure
    <2>1. cur \in faults  BY <1>7 DEF PostInternalStatus, AckFailure, RecordInv
    <2>. QED  BY <1>2, <2>1
  <1>8. CASE Ack  BY <1>8 DEF Ack
  <1>. QED  BY <1>3, <1>4, <1>5, <1>6, <1>7, <1>8 DEF HandlerAction

LEMMA LeftStep ==
    ASSUME TypeInv, RecordInv, LeftOnlyByFault, HandlerAction, InHandler
    PROVE  LeftOnlyByFault'
  <1>1. StreamOK /\ DataOK /\ StreamInv /\ CallInv /\ FreshInv
    BY TypeParts DEF TypeInv
  <1>2. /\ faults \subseteq faults' /\ Waiting' = Waiting /\ cur \in Ids
        /\ execution'.pending \subseteq execution.pending
    BY <1>1, OnlyAbout, HandlerStep
  <1>3. cur' = cur \/ cur \in faults' \/ cur \notin execution'.pending
    BY <1>1, <1>2, LetsGo, AckFacts DEF Ids
  <1>. QED  BY <1>2, <1>3 DEF LeftOnlyByFault
-----------------------------------------------------------------------------
\* The steps that are not the handler's write nothing.
Outside ==
    \/ \E m \in Missions \cup {Poison} : Publish(m)
    \/ Read \/ Take \/ Crash \/ UNCHANGED vars

LEMMA OutsideWrites ==
    ASSUME Outside
    PROVE  UNCHANGED <<plan, calls, receipts, statuses, mission>>
  BY DEF Outside, Publish, Read, Take, Crash, durable, vars

LEMMA OutsideStream ==
    ASSUME TypeInv, Outside
    PROVE  /\ Acked(execution)' = Acked(execution)
           /\ \A i \in Delivered(execution) : MissionOf(i)' = MissionOf(i)
           /\ \A i \in execution'.pending :
                \/ i \in execution.pending
                \/ i \in Waiting' \/ i \in faults'
           /\ faults \subseteq faults'
  <1>1. StreamOK /\ StreamInv  BY TypeParts DEF TypeInv
  <1>2. ASSUME NEW m \in Missions \cup {Poison}, Publish(m)
        PROVE  /\ Delivered(execution)' = Delivered(execution)
               /\ execution'.pending = execution.pending
               /\ \A i \in Delivered(execution) : execution'.log[i] = execution.log[i]
               /\ UNCHANGED faults
    BY <1>1, <1>2, PublishStep DEF Publish
  <1>3. CASE Read
    BY <1>1, <1>3, ReadStep DEF MissionOf
  <1>4. CASE Take \/ Crash \/ UNCHANGED vars
    BY <1>4 DEF Take, Crash, vars, MissionOf, Acked, Delivered
  <1>. QED  BY <1>2, <1>3, <1>4 DEF Outside, MissionOf, Acked

LEMMA InvStep == Inv /\ [Next]_vars => Inv'
  <1> SUFFICES ASSUME Inv, [Next]_vars PROVE Inv'
    OBVIOUS
  <1>1. TypeInv /\ TypeInv'  BY TypeStep DEF Inv
  <1>2. StreamOK /\ DataOK /\ StreamInv /\ CallInv /\ FreshInv
    BY <1>1, TypeParts DEF TypeInv
  <1>3. Outside \/ (HandlerAction /\ InHandler)
    BY <1>2, StepKinds DEF Outside
  <1>4. CASE HandlerAction /\ InHandler
    <2>1. cur \in Ids  BY <1>2, <1>4, OnlyAbout
    <2>. QED
      BY <1>1, <1>4, <2>1, RecordStep, AckedStep, StagesStep, LeftStep DEF Inv
  <1>5. CASE Outside
    <2>1. UNCHANGED <<plan, calls, receipts, statuses, mission>>
      BY <1>5, OutsideWrites
    <2>2. RecordInv'
      <3>1. CASE Read
        BY <2>1, <3>1 DEF Read, Inv, RecordInv
      <3>2. CASE Take
        BY <2>1, <3>2 DEF Take, Goto, Inv, RecordInv
      <3>3. CASE Crash
        BY <3>3 DEF Crash, Return, Goto, RecordInv
      <3>4. CASE (\E m \in Missions \cup {Poison} : Publish(m)) \/ UNCHANGED vars
        <4>1. UNCHANGED <<cur, pc, run, result, written, faults>>
          BY <3>4 DEF Publish, local, vars
        <4>2. cur # NoMessage => MissionOf(cur)' = MissionOf(cur)
          BY <1>1, <1>2, <1>5, <4>1, OutsideStream DEF StreamInv, MissionOf
        <4>3. pc # "read" => cur # NoMessage  BY <1>2 DEF StreamInv
        <4>. QED
          BY <2>1, <4>1, <4>2, <4>3
             DEF Inv, RecordInv, HasStatus, HasReceipt, Accounted, Succeeded, FinalStatus
      <3>. QED  BY <1>5, <3>1, <3>2, <3>3, <3>4 DEF Outside
    <2>3. AckedIsRecorded'
      BY <1>1, <1>5, <2>1, OutsideStream
         DEF Inv, AckedIsRecorded, HasStatus, HasReceipt, Accounted, Acked
    <2>4. StagesProven'
      BY <2>1 DEF Inv, StagesProven, Succeeded
    <2>5. LeftOnlyByFault'
      <3>1. NoMessage \notin execution.pending
        BY <1>2 DEF StreamInv, Delivered, NoMessage
      <3>2. \A i \in execution.pending : i = cur \/ i \in Waiting =>
              i = cur' \/ i \in Waiting' \/ i \in faults'
        <4>1. CASE Read
          BY <1>2, <4>1, ReadStep DEF Read
        <4>2. CASE Take
          BY <1>2, <3>1, <4>2, TakeStep DEF Take
        <4>3. CASE Crash
          BY <3>1, <4>3 DEF Crash
        <4>4. CASE (\E m \in Missions \cup {Poison} : Publish(m)) \/ UNCHANGED vars
          BY <4>4 DEF Publish, local, vars, Waiting
        <4>. QED  BY <1>5, <4>1, <4>2, <4>3, <4>4 DEF Outside
      <3>. QED  BY <1>1, <1>5, <3>2, OutsideStream DEF Inv, LeftOnlyByFault
    <2>. QED  BY <1>1, <2>2, <2>3, <2>4, <2>5 DEF Inv
  <1>. QED  BY <1>3, <1>4, <1>5

LEMMA InvInit == Init => Inv
  <1> SUFFICES ASSUME Init PROVE Inv
    OBVIOUS
  <1>. USE DEF Init
  <1>0. /\ execution.log = <<>> /\ execution.read = 0 /\ execution.pending = {}
        /\ execution \in StreamType(Missions \cup {Poison})
        /\ Waiting = {} /\ Delivered(execution) = {}
        /\ MaxMessages \in Nat /\ MaxStages \in Nat \ {0}
    BY ExecutorAssumption DEF EmptyStream, StreamType, Waiting, Delivered
  <1>1. StreamOK  BY <1>0 DEF StreamOK, PCs, NoMessage
  <1>2. DataOK  BY <1>0 DEF DataOK, Runs, OPENCLAW_MAX_ATTEMPTS
  <1>3. StreamInv  BY <1>0 DEF StreamInv
  <1>4. CallInv  BY DEF CallInv
  <1>5. FreshInv  BY <1>0 DEF FreshInv, Untouched, HasStatus
  <1>6. RecordInv  BY DEF RecordInv
  <1>7. AckedIsRecorded  BY <1>0 DEF AckedIsRecorded, Acked
  <1>8. StagesProven  BY DEF StagesProven, NoPlan
  <1>9. LeftOnlyByFault  BY <1>0 DEF LeftOnlyByFault
  <1>. QED
    BY <1>1, <1>2, <1>3, <1>4, <1>5, <1>6, <1>7, <1>8, <1>9, TypeParts DEF Inv, TypeInv

LEMMA Invariance == Spec => []Inv
  BY InvInit, InvStep, PTL DEF Spec

-----------------------------------------------------------------------------
\* Every variable of the executor keeps its type: in particular no run is given
\* to OpenClaw more than OPENCLAW_MAX_ATTEMPTS times.
THEOREM TypeCorrect == Spec => []TypeOK
  BY Invariance, PTL DEF Inv, TypeInv

\* An acknowledged entry has a final status and its work is accounted for.
THEOREM AckedAreRecorded == Spec => []AckedIsRecorded
  BY Invariance, PTL DEF Inv

\* Stages start in order and a mission completes only with all their receipts.
THEOREM StagesAreProven == Spec => []StagesProven
  BY Invariance, PTL DEF Inv

\* The code walks away from no entry that met no fault.
THEOREM LeftByFaultOnly == Spec => []LeftOnlyByFault
  BY Invariance, PTL DEF Inv

-----------------------------------------------------------------------------
(* The executor implements ExecutionContract.                              *)

Hand == Waiting \cup ({cur} \ {NoMessage})
AccountedIds == {i \in Ids : Accounted(i)}

LEMMA HandlerContract ==
    ASSUME Inv, HandlerAction, InHandler, NEW i \in Ids, i = cur
    PROVE  /\ i \in Hand
           /\ Hand' = (IF cur' = cur THEN Hand ELSE Hand \ {i})
           /\ AccountedIds' \in {AccountedIds, AccountedIds \cup {i}}
           /\ faults' \in {faults, faults \cup {i}}
  <1>1. TypeInv /\ StreamOK /\ DataOK /\ StreamInv /\ CallInv /\ FreshInv
    BY TypeParts DEF Inv, TypeInv
  <1>2. /\ receipts \subseteq receipts' /\ faults \subseteq faults'
        /\ faults' \subseteq faults \cup {i}
        /\ \A x \in receipts' : x \in receipts \/ x.msg = i
        /\ \A j \in Ids : j # i => plan'[j] = plan[j]
        /\ pc # "plan" => plan' = plan
    BY <1>1, OnlyAbout
  <1>3. i \in Hand /\ Hand' = (IF cur' = cur THEN Hand ELSE Hand \ {i})
    <2>1. Waiting' = Waiting  BY <1>1, HandlerStep
    <2>2. cur' = cur \/ cur' = NoMessage  BY DEF InHandler
    <2>3. i # NoMessage /\ i \notin Waiting  BY <1>1 DEF StreamInv, InHandler
    <2>. QED  BY <2>1, <2>2, <2>3 DEF Hand
  <1>4. \A j \in Ids : j # i => (Accounted(j)' <=> Accounted(j))
    BY <1>2 DEF Accounted, HasReceipt
  <1>5. Accounted(i) => Accounted(i)'
    <2>1. CASE pc # "plan"  BY <1>1, <2>1, Monotone
    <2>2. CASE pc = "plan"
      <3>1. plan[i] = NoPlan  BY <1>1, <2>2 DEF FreshInv, Untouched
      <3>2. Accounted(i) => HasReceipt(i)  BY <3>1 DEF Accounted, NoPlan
      <3>. QED  BY <1>1, <3>2, Monotone DEF Accounted
    <2>. QED  BY <2>1, <2>2
  <1>6. AccountedIds' = {j \in Ids : Accounted(j)'}  BY DEF AccountedIds
  <1>7. AccountedIds' \in {AccountedIds, AccountedIds \cup {i}}
    BY <1>4, <1>5, <1>6 DEF AccountedIds
  <1>. QED  BY <1>2, <1>3, <1>7

\* A handler's step is one of the contract's steps on the entry in hand.
LEMMA HandlerImplements ==
    ASSUME Inv, HandlerAction, InHandler
    PROVE  Contract!ContractNext
  <1>1. TypeInv /\ StreamOK /\ DataOK /\ StreamInv /\ CallInv /\ RecordInv
    BY TypeParts DEF Inv, TypeInv
  <1>2. PICK i \in Ids : i = cur  BY <1>1, OnlyAbout
  <1>3. /\ i \in Hand
        /\ Hand' = (IF cur' = cur THEN Hand ELSE Hand \ {i})
        /\ AccountedIds' \in {AccountedIds, AccountedIds \cup {i}}
        /\ faults' \in {faults, faults \cup {i}}
    BY <1>2, HandlerContract
  <1>4. cur' = cur \/ i \in faults' \/ execution' = XAck(execution, i)
    BY <1>1, <1>2, LetsGo
  <1>5. ASSUME execution' = execution, cur' = cur \/ i \in faults',
               \/ UNCHANGED <<statuses, mission>>
               \/ /\ (Accounted(i) /\ ~HasStatus(i)) \/ i \in faults'
                  /\ MissionOf(i) # Poison
                  /\ \E s \in {"complete", "failed"} :
                       /\ statuses' = statuses \cup {[msg |-> i, status |-> s]}
                       /\ mission' = [mission EXCEPT ![MissionOf(i)] = s]
        PROVE  Contract!Handle(i)
    BY <1>2, <1>3, <1>5
       DEF Contract!Handle, Contract!MayRecord, Contract!HasStatus, Contract!Final,
           Hand, AccountedIds, HasStatus, MissionOf, Itself
  <1>6. ASSUME execution' = XAck(execution, i), UNCHANGED <<statuses, mission>>,
               AccountedIds' = AccountedIds,
               MissionOf(i) = Poison \/ (HasStatus(i) /\ Accounted(i)),
               cur' # cur \/ i \in faults'
        PROVE  Contract!Settle(i)
    BY <1>2, <1>3, <1>6
       DEF Contract!Settle, Contract!HasStatus, Contract!XAck, XAck,
           Hand, AccountedIds, HasStatus, MissionOf, Itself
  <1>7. Contract!Handle(i) \/ Contract!Settle(i) => Contract!ContractNext
    BY <1>3 DEF Contract!ContractNext, Hand
  <1>8. CASE DropPoison \/ PostStarted \/ Plan \/ CallOpenClaw \/ PostStageReceipt
               \/ PostSingleReceipt \/ PostInternalReceipt
    <2>1. execution' = execution /\ UNCHANGED <<statuses, mission>>
      BY <1>8 DEF DropPoison, PostStarted, Plan, CallOpenClaw, PostStageReceipt,
                  PostSingleReceipt, PostInternalReceipt, durable
    <2>2. cur' = cur \/ i \in faults'
      <3>1. CASE PostStageReceipt
        BY <1>1, <1>2, <3>1, FaultPosted DEF PostStageReceipt
      <3>2. CASE PostStarted  BY <1>2, <3>2 DEF PostStarted
      <3>. QED
        BY <1>8, <3>1, <3>2
           DEF DropPoison, Plan, CallOpenClaw, PostSingleReceipt, PostInternalReceipt
    <2>. QED  BY <1>5, <1>7, <2>1, <2>2
  <1>9. CASE PostFinalStatus
    <2>1. PICK post \in PostOutcomes :
            /\ PostStatus(post, FinalStatus) /\ Fault(post)
            /\ pc = "status" /\ UNCHANGED execution
            /\ cur' = cur \/ ~Recorded(post)
      BY <1>9 DEF PostFinalStatus
    <2>2. /\ ~HasStatus(i)
          /\ written = TRUE => Accounted(i)
          /\ written = FALSE => i \in faults
          /\ MissionOf(i) # Poison /\ MissionOf(i) \in Missions
      BY <1>1, <1>2, <2>1, HandledMission DEF RecordInv, CallInv, InHandler
    <2>3. FinalStatus \in {"complete", "failed"}  BY DEF FinalStatus
    <2>4. faults \subseteq faults' /\ (~post.ok => i \in faults')
      BY <1>1, <1>2, <2>1, FaultPosted
    <2>5. \/ UNCHANGED <<statuses, mission>>
          \/ /\ statuses' = statuses \cup {[msg |-> i, status |-> FinalStatus]}
             /\ mission' = [mission EXCEPT ![MissionOf(i)] = FinalStatus]
      BY <1>1, <1>2, <2>1, <2>2, <2>3, StatusPosted
    <2>6. cur' = cur \/ i \in faults'
      BY <1>1, <2>1, <2>2, <2>4 DEF Recorded, DataOK
    <2>7. (Accounted(i) /\ ~HasStatus(i)) \/ i \in faults'
      BY <1>1, <2>2, <2>4 DEF DataOK
    <2>. QED  BY <1>5, <1>7, <2>1, <2>2, <2>3, <2>5, <2>6, <2>7
  <1>10. CASE PostInternalStatus
    <2>1. PICK post \in PostOutcomes : PostStatus(post, "failed")
      BY <1>10 DEF PostInternalStatus
    <2>2. pc = "internalStatus" /\ UNCHANGED execution  BY <1>10 DEF PostInternalStatus
    <2>3. i \in faults'
      BY <1>1, <1>2, <2>2, OnlyAbout DEF RecordInv
    <2>4. MissionOf(i) # Poison /\ MissionOf(i) \in Missions
      BY <1>1, <1>2, <2>2, HandledMission DEF CallInv, InHandler
    <2>5. \/ UNCHANGED <<statuses, mission>>
          \/ /\ statuses' = statuses \cup {[msg |-> i, status |-> "failed"]}
             /\ mission' = [mission EXCEPT ![MissionOf(i)] = "failed"]
      BY <1>1, <1>2, <2>1, <2>4, StatusPosted
    <2>. QED  BY <1>5, <1>7, <2>2, <2>3, <2>4, <2>5
  <1>11. CASE Ack \/ Raise \/ AckFailure
    <2>1. UNCHANGED <<plan, receipts, statuses, mission>>
      BY <1>11 DEF Ack, Raise, AckFailure, durable
    <2>2. AccountedIds' = AccountedIds
      BY <2>1 DEF AccountedIds, Accounted, HasReceipt
    <2>3. CASE execution' = execution /\ (cur' = cur \/ i \in faults')
      BY <1>5, <1>7, <2>1, <2>3
    <2>4. CASE execution' = XAck(execution, i) /\ pc \in {"ack", "ackFailure"}
      <3>1. MissionOf(i) = Poison \/ (HasStatus(i) /\ Accounted(i))
        BY <1>1, <1>2, <2>4 DEF RecordInv
      <3>2. cur' # cur \/ i \in faults'
        BY <1>2, <1>11 DEF Ack, Raise, AckFailure, Return, InHandler
      <3>. QED  BY <1>6, <1>7, <2>1, <2>2, <2>4, <3>1, <3>2
    <2>5. \/ execution' = XAck(execution, i) /\ pc \in {"ack", "ackFailure"}
          \/ execution' = execution /\ (cur' = cur \/ i \in faults')
      <3>1. CASE Ack  BY <1>2, <3>1 DEF Ack
      <3>2. CASE Raise  BY <1>2, <3>2 DEF Raise
      <3>3. CASE AckFailure
        BY <1>1, <1>2, <3>3, OnlyAbout DEF AckFailure, RecordInv
      <3>. QED  BY <1>11, <3>1, <3>2, <3>3
    <2>. QED  BY <2>3, <2>4, <2>5
  <1>. QED  BY <1>8, <1>9, <1>10, <1>11 DEF HandlerAction

LEMMA ContractStep == Inv /\ [Next]_vars => [Contract!ContractNext]_(Contract!contractVars)
  <1> SUFFICES ASSUME Inv, [Next]_vars
               PROVE  [Contract!ContractNext]_(Contract!contractVars)
    OBVIOUS
  <1>1. TypeInv /\ StreamOK /\ DataOK /\ StreamInv
    BY TypeParts DEF Inv, TypeInv
  <1>2. Outside \/ (HandlerAction /\ InHandler)
    BY <1>1, StepKinds DEF Outside
  <1>3. CASE HandlerAction /\ InHandler
    BY <1>3, HandlerImplements
  <1>4. CASE Outside
    <2>1. UNCHANGED <<plan, calls, receipts, statuses, mission>>
      BY <1>4, OutsideWrites
    <2>2. AccountedIds' = AccountedIds
      BY <2>1 DEF AccountedIds, Accounted, HasReceipt
    <2>3. ASSUME NEW m \in Missions \cup {Poison}, Publish(m)
          PROVE  Contract!ContractNext
      <3>1. /\ execution' = XAdd(execution, m) /\ UNCHANGED <<batch, cur, faults>>
        BY <2>3 DEF Publish, local
      <3>2. Hand' = Hand  BY <3>1 DEF Hand, Waiting
      <3>3. Contract!Add(m)
        BY <2>1, <2>2, <3>1, <3>2
           DEF Contract!Add, Contract!XAdd, XAdd, Hand, AccountedIds
      <3>. QED  BY <3>3 DEF Contract!ContractNext
    <2>4. CASE Read
      <3>1. PICK given : given = Batch(execution, BatchSize)  OBVIOUS
      <3>2. /\ Waiting = {} /\ cur = NoMessage /\ cur' = NoMessage
            /\ execution' = XReadGroup(execution, BatchSize)
            /\ \/ Waiting' = given /\ faults' = faults
               \/ Waiting' = {} /\ faults' = faults \cup given
        BY <1>1, <2>4, <3>1, ReadStep DEF Read
      <3>3. given # {}
        <4>1. /\ execution.read < Len(execution.log) /\ execution.read \in Nat
              /\ Len(execution.log) \in Nat /\ BatchSize \in Nat \ {0}
          BY <1>1, <2>4, ExecutorAssumption DEF Read, StreamOK, StreamType
        <4>2. execution.read + 1 \in Batch(execution, BatchSize)
          BY <4>1 DEF Batch
        <4>. QED  BY <3>1, <4>2
      <3>4. Hand = {} /\ Hand' = Waiting'  BY <3>2 DEF Hand
      <3>5. Contract!Batch(execution, BatchSize) = given
        BY <3>1 DEF Contract!Batch, Batch
      <3>6. Contract!XReadGroup(execution, BatchSize) = execution'
        BY <3>1, <3>2, <3>5 DEF Contract!XReadGroup, XReadGroup
      <3>7. Contract!Deliver
        BY <2>1, <2>2, <3>2, <3>3, <3>4, <3>5, <3>6
           DEF Contract!Deliver, Hand, AccountedIds
      <3>. QED  BY <3>7 DEF Contract!ContractNext
    <2>5. CASE Take
      <3>1. /\ Waiting = Waiting' \cup {cur'} /\ cur = NoMessage /\ cur' # NoMessage
            /\ UNCHANGED <<execution, faults>>
        BY <1>1, <2>5, TakeStep DEF Take, StreamInv, StreamOK, Goto
      <3>2. NoMessage \notin Waiting
        BY <1>1 DEF StreamInv, Delivered, NoMessage
      <3>3. Hand' = Hand  BY <3>1, <3>2 DEF Hand
      <3>. QED
        BY <2>1, <2>2, <3>1, <3>3 DEF Contract!contractVars, Hand, AccountedIds
    <2>6. CASE Crash
      <3>1. /\ Waiting' = {} /\ cur' = NoMessage /\ UNCHANGED execution
            /\ faults' = faults \cup Hand
        BY <1>1, <2>6, CrashStep DEF Crash, Return, Hand
      <3>2. Hand' = {}  BY <3>1 DEF Hand
      <3>3. Contract!Die
        BY <2>1, <2>2, <3>1, <3>2 DEF Contract!Die, Hand, AccountedIds
      <3>. QED  BY <3>3 DEF Contract!ContractNext
    <2>7. CASE UNCHANGED vars
      <3>1. UNCHANGED <<execution, batch, cur, faults>>  BY <2>7 DEF vars, local
      <3>2. Hand' = Hand  BY <3>1 DEF Hand, Waiting
      <3>. QED
        BY <2>1, <2>2, <3>1, <3>2 DEF Contract!contractVars, Hand, AccountedIds
    <2>. QED  BY <1>4, <2>3, <2>4, <2>5, <2>6, <2>7 DEF Outside
  <1>. QED  BY <1>2, <1>3, <1>4

LEMMA ContractInits == Init => Contract!ContractInit
  <1> SUFFICES ASSUME Init PROVE Contract!ContractInit
    OBVIOUS
  <1>1. Waiting = {} /\ cur = NoMessage /\ execution = EmptyStream
        /\ statuses = {} /\ faults = {}
    BY DEF Init, Waiting
  <1>2. \A i \in Ids : ~Accounted(i)
    BY DEF Init, Accounted, HasReceipt, NoPlan
  <1>. QED
    BY <1>1, <1>2 DEF Contract!ContractInit, Contract!EmptyStream, EmptyStream

\* Through retries, raises, lost replies and crashes the executor keeps the
\* contract the rest of Jarvis is composed with.
THEOREM ImplementsContract == Spec => ContractSpec
  BY Invariance, ContractInits, ContractStep, PTL
     DEF Spec, ContractSpec, Contract!ContractSpec
=============================================================================

--------------------------- MODULE HeartbeatProofs ---------------------------
(***************************************************************************)
(* Proofs about Heartbeat, for any approvals, conditions, settings and     *)
(* number of overlapping runs: type correctness, the numbers and distances *)
(* of the reminders, and the record of every text.                         *)
(***************************************************************************)
EXTENDS Heartbeat, TLAPS, FiniteSetTheorems

Handling == {"count", "due", "dedupe", "send", "insert"}

\* A run has its approval in hand on its list, and those with a row no longer.
Placed(s) ==
    /\ s.pc \in Handling => s.key \in Keys /\ s.key[1] \in s.todo
    /\ s.pc = "due" => s.count < MAX_ATTEMPTS
    /\ s.pc = "upsert" => s.finding \in Findings
    /\ s.texted => s.pc = "insert"
    /\ s.pc = "idle" => s.rows = {}
    /\ \A w \in s.rows : w.approval \notin s.todo
    /\ \A v, w \in s.rows : v.approval = w.approval => v = w
    /\ \A a \in s.todo : approval[a].status # "absent"
    /\ \A w \in s.rows : approval[w.approval].status # "absent"
    /\ IsFiniteSet(s.rows)

TypeInv ==
    /\ TypeOK
    /\ IsFiniteSet(reminders)
    /\ \A w \in reminders : approval[w.approval].status # "absent"
    /\ \A r \in Runs : Placed(run[r])

-----------------------------------------------------------------------------
(* What the steps do to rows, texts and approvals.                         *)

\* Known approvals stay known, with their times; nothing else changes.
World ==
    /\ UNCHANGED <<reminders, texts, lost, run>>
    /\ \A a \in Approvals :
         approval[a].status # "absent" =>
            /\ approval'[a].status # "absent"
            /\ approval'[a].since = approval[a].since

\* A run goes on without a text or a row.
Quiet(r) ==
    /\ UNCHANGED <<approval, reminders, texts, lost>>
    /\ \E next \in RunType :
         /\ Step(r, next)
         /\ next.rows = run[r].rows
         /\ ~run[r].texted /\ ~next.texted

Discarded(r) ==
    /\ Step(r, Idle)
    /\ lost' = [k \in Keys |-> lost[k] + IF k \in TextedBy(r) THEN 1 ELSE 0]
    /\ UNCHANGED <<approval, reminders, texts>>

-----------------------------------------------------------------------------
(* Type correctness.                                                       *)

LEMMA IdleTyped == Idle \in RunType
  BY HeartbeatAssumption DEF Idle, RunType, Slots, FindingStatus

LEMMA InitType == Init => TypeInv
  <1>. SUFFICES ASSUME Init PROVE TypeInv  OBVIOUS
  <1>1. IsFiniteSet({})  BY FS_EmptySet
  <1>2. approval \in [Approvals -> [status : {"absent", "pending", "decided"},
                                    since : 0..MaxTime]]
    BY HeartbeatAssumption DEF Init, Fresh
  <1>3. TypeOK
    BY <1>2, IdleTyped, HeartbeatAssumption DEF Init, Fresh, TypeOK, FindingStatus
  <1>4. ASSUME NEW r \in Runs PROVE Placed(run[r])
    <2>1. run[r] = Idle  BY DEF Init, Fresh
    <2>2. /\ run[r].pc = "idle" /\ run[r].todo = {} /\ run[r].rows = {}
          /\ run[r].texted = FALSE
      BY <2>1 DEF Idle
    <2>. QED  BY <1>1, <2>2 DEF Placed, Handling
  <1>5. reminders = {}  BY DEF Init, Fresh
  <1>. QED  BY <1>1, <1>3, <1>4, <1>5 DEF TypeInv

\* One run takes a step, the others stay.
LEMMA StepTyped ==
    ASSUME TypeOK, NEW r \in Runs, NEW next \in RunType, Step(r, next)
    PROVE  /\ run' \in [Runs -> RunType]
           /\ run'[r] = next
           /\ \A o \in Runs \ {r} : run'[o] = run[o]
  BY DEF TypeOK, Step

LEMMA DoneTyped ==
    ASSUME TypeOK, NEW r \in Runs
    PROVE  /\ Done(r) \in RunType
           /\ Done(r).rows = run[r].rows
           /\ Done(r).pc = "scan" /\ ~Done(r).texted
           /\ Done(r).todo = run[r].todo \ {run[r].key[1]}
  <1>1. run[r] \in RunType  BY DEF TypeOK
  <1>2. 0 \in Slots  BY HeartbeatAssumption DEF Slots
  <1>. QED  BY <1>1, <1>2 DEF RunType, Done

LEMMA RowsFinite ==
    ASSUME TypeInv, NEW r \in Runs, NEW a \in Approvals
    PROVE  /\ IsFiniteSet(Reminders(RowsFor(r, a)))
           /\ Cardinality(Reminders(RowsFor(r, a))) \in Nat
  <1>1. IsFiniteSet(Visible(r))
    BY FS_Union DEF TypeInv, Placed, Visible
  <1>2. Reminders(RowsFor(r, a)) \subseteq Visible(r)  BY DEF Reminders, RowsFor
  <1>. QED  BY <1>1, <1>2, FS_Subset, FS_CardinalityType

\* A run takes a step from place to place.
LEMMA StepPlaced ==
    ASSUME TypeInv, NEW r \in Runs, NEW next \in RunType, Step(r, next),
           Placed(next), UNCHANGED approval
    PROVE  /\ run' \in [Runs -> RunType]
           /\ \A o \in Runs : Placed(run[o])'
  <1>1. /\ run' \in [Runs -> RunType]
        /\ run'[r] = next
        /\ \A o \in Runs \ {r} : run'[o] = run[o]
    BY StepTyped DEF TypeInv
  <1>. QED  BY <1>1 DEF TypeInv, Placed

LEMMA WorldType == TypeInv /\ World => \A r \in Runs : Placed(run[r])'
  <1>. SUFFICES ASSUME TypeInv, World, NEW r \in Runs PROVE Placed(run[r])'
    OBVIOUS
  <1>1. run[r] \in RunType /\ Placed(run[r]) /\ run' = run
    BY DEF TypeInv, TypeOK, World
  <1>2. run[r].todo \subseteq Approvals /\ \A w \in run[r].rows : w.approval \in Approvals
    BY <1>1 DEF RunType, Row
  <1>. QED  BY <1>1, <1>2 DEF Placed, World

LEMMA WorldSteps ==
    ASSUME TypeInv,
           \/ Tick \/ TimeOut
           \/ \E a \in Approvals : OpenApproval(a) \/ DecideApproval(a)
           \/ \E d \in Conditions : ChangeCondition(d)
    PROVE  World /\ TypeInv'
  <1>1. CASE Tick
    <2>1. World  BY <1>1 DEF Tick, World, TypeInv, TypeOK
    <2>2. TypeOK'  BY <1>1, HeartbeatAssumption DEF Tick, TypeInv, TypeOK
    <2>. QED  BY <1>1, <2>1, <2>2, WorldType DEF Tick, TypeInv
  <1>2. CASE TimeOut
    <2>1. World  BY <1>2 DEF TimeOut, untouched, World, TypeInv, TypeOK
    <2>2. TypeOK'  BY <1>2 DEF TimeOut, untouched, TypeInv, TypeOK
    <2>. QED  BY <1>2, <2>1, <2>2, WorldType DEF TimeOut, untouched, TypeInv
  <1>3. ASSUME NEW a \in Approvals, OpenApproval(a) PROVE World /\ TypeInv'
    <2>1. World  BY <1>3 DEF OpenApproval, World, TypeInv, TypeOK
    <2>2. TypeOK'  BY <1>3, HeartbeatAssumption DEF OpenApproval, TypeInv, TypeOK
    <2>3. \A w \in reminders : w.approval \in Approvals  BY DEF TypeInv, TypeOK, Row
    <2>. QED  BY <1>3, <2>1, <2>2, <2>3, WorldType DEF OpenApproval, World, TypeInv
  <1>4. ASSUME NEW a \in Approvals, DecideApproval(a) PROVE World /\ TypeInv'
    <2>1. World  BY <1>4 DEF DecideApproval, World, TypeInv, TypeOK
    <2>2. TypeOK'  BY <1>4, HeartbeatAssumption DEF DecideApproval, TypeInv, TypeOK
    <2>3. \A w \in reminders : w.approval \in Approvals  BY DEF TypeInv, TypeOK, Row
    <2>. QED  BY <1>4, <2>1, <2>2, <2>3, WorldType DEF DecideApproval, World, TypeInv
  <1>5. ASSUME NEW d \in Conditions, ChangeCondition(d) PROVE World /\ TypeInv'
    <2>1. World  BY <1>5 DEF ChangeCondition, World, TypeInv, TypeOK
    <2>2. TypeOK'  BY <1>5, HeartbeatAssumption DEF ChangeCondition, TypeInv, TypeOK
    <2>. QED  BY <1>5, <2>1, <2>2, WorldType DEF ChangeCondition, TypeInv
  <1>. QED  BY <1>1, <1>2, <1>3, <1>4, <1>5

\* A run takes a step and keeps its rows.
LEMMA QuietType ==
    ASSUME TypeInv, NEW r \in Runs, NEW next \in RunType, Step(r, next),
           UNCHANGED <<untouched, texts>>, waiting' \in Runs \cup {NoRun},
           next.rows = run[r].rows, next.todo \subseteq run[r].todo,
           ~run[r].texted, ~next.texted, next.pc # "idle",
           next.pc \in Handling => next.key \in Keys /\ next.key[1] \in next.todo,
           next.pc = "due" => next.count < MAX_ATTEMPTS,
           next.pc = "upsert" => next.finding \in Findings
    PROVE  Quiet(r) /\ TypeInv'
  <1>1. Placed(next)  BY DEF TypeInv, Placed
  <1>2. /\ run' \in [Runs -> RunType]
        /\ \A o \in Runs : Placed(run[o])'
    BY <1>1, StepPlaced DEF untouched
  <1>3. TypeOK'  BY <1>2 DEF TypeInv, TypeOK, untouched
  <1>4. Quiet(r)  BY DEF Quiet, untouched
  <1>. QED  BY <1>2, <1>3, <1>4 DEF TypeInv, untouched

LEMMA StartType ==
    ASSUME TypeInv, NEW r \in Runs, StartRun(r)
    PROVE  Quiet(r) /\ TypeInv'
  <1> DEFINE next == [Idle EXCEPT !.pc = "scan", !.now = clock,
                             !.todo = IF RemindersEnabled THEN Pending ELSE {}]
  <1>1. next \in RunType /\ Step(r, next)
    BY IdleTyped DEF StartRun, RunType, TypeInv, TypeOK, Pending
  <1>2. /\ next.pc = "scan" /\ next.todo \subseteq Pending /\ next.rows = {}
        /\ next.texted = FALSE
    BY DEF Idle
  <1>3. run[r].rows = {} /\ ~run[r].texted
    BY DEF StartRun, At, TypeInv, Placed
  <1>. HIDE DEF next
  <1>4. Placed(next)
    BY <1>2, FS_EmptySet DEF Placed, Handling, Pending
  <1>5. UNCHANGED <<untouched, texts>> /\ waiting' = r  BY DEF StartRun
  <1>6. /\ run' \in [Runs -> RunType]
        /\ \A o \in Runs : Placed(run[o])'
    BY <1>1, <1>4, <1>5, StepPlaced DEF untouched
  <1>7. TypeOK'  BY <1>5, <1>6 DEF TypeInv, TypeOK, untouched
  <1>8. Quiet(r)  BY <1>1, <1>2, <1>3, <1>5 DEF Quiet, untouched
  <1>. QED  BY <1>5, <1>6, <1>7, <1>8 DEF TypeInv, untouched

\* What is known of a run on its way through a step.
LEMMA Typed ==
    ASSUME TypeInv, NEW r \in Runs
    PROVE  /\ run[r] \in RunType
           /\ Placed(run[r])
           /\ run[r].pc # "insert" => ~run[r].texted
           /\ waiting \in Runs \cup {NoRun}
  BY DEF TypeInv, TypeOK, Placed

LEMMA CheckEscalationType ==
    ASSUME TypeInv, NEW r \in Runs, NEW a \in Approvals, CheckEscalation(r, a)
    PROVE  Quiet(r) /\ TypeInv'
  <1>1. PICK place \in {"dedupe", "count"} :
            Step(r, [run[r] EXCEPT !.key = <<a, Escalation>>, !.pc = place])
    BY DEF CheckEscalation
  <1> DEFINE next == [run[r] EXCEPT !.key = <<a, Escalation>>, !.pc = place]
  <1>2. <<a, Escalation>> \in Keys
    BY HeartbeatAssumption DEF Keys, Slots, Escalation
  <1>3. next \in RunType  BY <1>2, Typed DEF RunType
  <1>4. /\ next.rows = run[r].rows /\ next.todo = run[r].todo
        /\ next.key = <<a, Escalation>> /\ next.pc = place
        /\ next.texted = run[r].texted /\ next.key[1] = a
    BY Typed DEF RunType
  <1>5. /\ At(r, "scan") /\ a \in run[r].todo /\ Step(r, next)
        /\ UNCHANGED <<untouched, texts, waiting>>
    BY <1>1 DEF CheckEscalation
  <1>. HIDE DEF next
  <1>. QED  BY <1>2, <1>3, <1>4, <1>5, Typed, QuietType DEF At

LEMMA CountRemindersType ==
    ASSUME TypeInv, NEW r \in Runs, CountReminders(r)
    PROVE  Quiet(r) /\ TypeInv'
  <1> DEFINE n == Cardinality(Reminders(RowsFor(r, run[r].key[1])))
             next == IF Exhausted(n) THEN Done(r)
                     ELSE [run[r] EXCEPT !.pc = "due", !.count = n]
  <1>1. /\ At(r, "count") /\ Step(r, next)
        /\ UNCHANGED <<untouched, texts, waiting>>
    BY DEF CountReminders
  <1>2. run[r].key \in Keys /\ run[r].key[1] \in Approvals
    BY <1>1, Typed DEF At, Placed, Handling, Keys
  <1>3. n \in Nat  BY <1>2, RowsFinite
  <1>. HIDE DEF n
  <1>4. CASE Exhausted(n)
    <2>1. next = Done(r)  BY <1>4
    <2>. HIDE DEF next
    <2>2. next \in RunType /\ next.pc = "scan" /\ ~next.texted
          /\ next.rows = run[r].rows /\ next.todo \subseteq run[r].todo
      BY <2>1, DoneTyped DEF TypeInv
    <2>. QED  BY <1>1, <2>2, Typed, QuietType DEF At, Handling
  <1>5. CASE ~Exhausted(n)
    <2>1. next = [run[r] EXCEPT !.pc = "due", !.count = n]  BY <1>5
    <2>2. n \in Slots /\ n < MAX_ATTEMPTS
      BY <1>3, <1>5, HeartbeatAssumption DEF Exhausted, Slots
    <2>. HIDE DEF next
    <2>3. next \in RunType  BY <2>1, <2>2, Typed DEF RunType
    <2>4. /\ next.rows = run[r].rows /\ next.todo = run[r].todo
          /\ next.key = run[r].key /\ next.pc = "due" /\ next.count = n
          /\ next.texted = run[r].texted
      BY <2>1, Typed DEF RunType
    <2>. QED
      BY <1>1, <1>2, <2>2, <2>3, <2>4, Typed, QuietType DEF At, Placed, Handling
  <1>. QED  BY <1>4, <1>5

LEMMA CheckDueType ==
    ASSUME TypeInv, NEW r \in Runs, CheckDue(r)
    PROVE  Quiet(r) /\ TypeInv'
  <1> DEFINE a == run[r].key[1]
             next == IF Due(r, a)
                     THEN [run[r] EXCEPT !.pc = "dedupe", !.key = <<a, run[r].count + 1>>]
                     ELSE Done(r)
  <1>1. /\ At(r, "due") /\ Step(r, next)
        /\ UNCHANGED <<untouched, texts, waiting>>
    BY DEF CheckDue
  <1>2. run[r].key \in Keys /\ a \in Approvals /\ a \in run[r].todo
    BY <1>1, Typed DEF At, Placed, Handling, Keys
  <1>3. CASE ~Due(r, a)
    <2>1. next = Done(r)  BY <1>3
    <2>. HIDE DEF next
    <2>2. next \in RunType /\ next.pc = "scan" /\ ~next.texted
          /\ next.rows = run[r].rows /\ next.todo \subseteq run[r].todo
      BY <2>1, DoneTyped DEF TypeInv
    <2>. QED  BY <1>1, <2>2, Typed, QuietType DEF At, Handling
  <1>4. CASE Due(r, a)
    <2>1. next = [run[r] EXCEPT !.pc = "dedupe", !.key = <<a, run[r].count + 1>>]
      BY <1>4
    <2>2. <<a, run[r].count + 1>> \in Keys
      BY <1>1, <1>2, Typed, HeartbeatAssumption DEF At, Placed, RunType, Keys, Slots
    <2>. HIDE DEF next
    <2>3. next \in RunType  BY <2>1, <2>2, Typed DEF RunType
    <2>4. /\ next.rows = run[r].rows /\ next.todo = run[r].todo
          /\ next.key = <<a, run[r].count + 1>> /\ next.pc = "dedupe"
          /\ next.texted = run[r].texted
      BY <2>1, Typed DEF RunType
    <2>5. next.key[1] = a  BY <2>4
    <2>. QED
      BY <1>1, <1>2, <2>2, <2>3, <2>4, <2>5, Typed, QuietType DEF At
  <1>. QED  BY <1>3, <1>4

LEMMA CheckDedupeType ==
    ASSUME TypeInv, NEW r \in Runs, CheckDedupe(r)
    PROVE  Quiet(r) /\ TypeInv'
  <1>1. /\ At(r, "dedupe")
        /\ UNCHANGED <<untouched, texts, waiting>>
        /\ Step(r, Done(r)) \/ Step(r, [run[r] EXCEPT !.pc = "send"])
    BY DEF CheckDedupe
  <1>2. CASE Step(r, Done(r))
    <2>1. /\ Done(r) \in RunType /\ Done(r).pc = "scan" /\ ~Done(r).texted
          /\ Done(r).rows = run[r].rows /\ Done(r).todo \subseteq run[r].todo
      BY DoneTyped DEF TypeInv
    <2>. QED  BY <1>1, <1>2, <2>1, Typed, QuietType DEF At, Handling
  <1>3. CASE Step(r, [run[r] EXCEPT !.pc = "send"])
    <2> DEFINE next == [run[r] EXCEPT !.pc = "send"]
    <2>1. next \in RunType  BY Typed DEF RunType
    <2>2. /\ next.rows = run[r].rows /\ next.todo = run[r].todo
          /\ next.key = run[r].key /\ next.pc = "send"
          /\ next.texted = run[r].texted
      BY Typed DEF RunType
    <2>3. run[r].key \in Keys /\ run[r].key[1] \in run[r].todo
      BY <1>1, Typed DEF At, Placed, Handling
    <2>. HIDE DEF next
    <2>. QED  BY <1>1, <1>3, <2>1, <2>2, <2>3, Typed, QuietType DEF At, next
  <1>. QED  BY <1>1, <1>2, <1>3

LEMMA CollectCandidatesType ==
    ASSUME TypeInv, NEW r \in Runs, CollectCandidates(r)
    PROVE  Quiet(r) /\ TypeInv'
  <1> DEFINE next == [run[r] EXCEPT !.pc = "findings", !.keys = Candidates,
                                    !.left = Candidates]
  <1>1. /\ At(r, "scan") /\ Step(r, next)
        /\ UNCHANGED <<untouched, texts, waiting>>
    BY DEF CollectCandidates
  <1>2. Candidates \subseteq Findings
    BY DEF Candidates, Findings, Pending, TypeInv, TypeOK
  <1>3. next \in RunType  BY <1>2, Typed DEF RunType
  <1>4. /\ next.rows = run[r].rows /\ next.todo = run[r].todo
        /\ next.pc = "findings" /\ next.texted = run[r].texted
    BY Typed DEF RunType
  <1>. HIDE DEF next
  <1>. QED  BY <1>1, <1>3, <1>4, Typed, QuietType DEF At, Handling

LEMMA ReadFindingType ==
    ASSUME TypeInv, NEW r \in Runs, NEW f \in Findings, ReadFinding(r, f)
    PROVE  Quiet(r) /\ TypeInv'
  <1> DEFINE next == [run[r] EXCEPT !.pc = "upsert", !.finding = f,
                                    !.seen = findings[f], !.left = @ \ {f}]
  <1>1. /\ At(r, "findings") /\ Step(r, next)
        /\ UNCHANGED <<untouched, texts, waiting>>
    BY DEF ReadFinding
  <1>2. findings[f] \in FindingStatus  BY DEF TypeInv, TypeOK
  <1>3. next \in RunType  BY <1>2, Typed DEF RunType
  <1>4. /\ next.rows = run[r].rows /\ next.todo = run[r].todo /\ next.finding = f
        /\ next.pc = "upsert" /\ next.texted = run[r].texted
    BY Typed DEF RunType
  <1>. HIDE DEF next
  <1>. QED  BY <1>1, <1>3, <1>4, Typed, QuietType DEF At, Handling

LEMMA UpsertCandidateType ==
    ASSUME TypeInv, NEW r \in Runs, UpsertCandidate(r)
    PROVE  Quiet(r) /\ TypeInv'
  <1> DEFINE write == [finding |-> run[r].finding, status |-> Upserted(run[r].seen)]
             writes == run[r].writes \cup {write}
             next == [run[r] EXCEPT !.pc = "findings", !.finding = <<>>,
                                    !.seen = "absent", !.writes = writes]
  <1>1. /\ At(r, "upsert") /\ Step(r, next)
        /\ UNCHANGED <<untouched, texts, waiting>>
    BY DEF UpsertCandidate
  <1>2. write \in [finding : Findings, status : {"open", "kept", "resolved"}]
    BY <1>1, Typed DEF At, Placed, Upserted
  <1>. HIDE DEF write
  <1>3. writes \subseteq [finding : Findings, status : {"open", "kept", "resolved"}]
    BY <1>2, Typed DEF RunType
  <1>. HIDE DEF writes
  <1>4. "absent" \in FindingStatus  BY DEF FindingStatus
  <1>5. next \in RunType  BY <1>3, <1>4, Typed DEF RunType
  <1>6. /\ next.rows = run[r].rows /\ next.todo = run[r].todo
        /\ next.pc = "findings" /\ next.texted = run[r].texted
    BY Typed DEF RunType
  <1>. HIDE DEF next
  <1>. QED  BY <1>1, <1>5, <1>6, Typed, QuietType DEF At, Handling

LEMMA ListOpenType ==
    ASSUME TypeInv, NEW r \in Runs, ListOpen(r)
    PROVE  Quiet(r) /\ TypeInv'
  <1> DEFINE open == {f \in Findings : findings[f] = "open"} \ run[r].keys
             next == [run[r] EXCEPT !.pc = "resolve", !.left = open]
  <1>1. /\ At(r, "findings") /\ Step(r, next)
        /\ UNCHANGED <<untouched, texts, waiting>>
    BY DEF ListOpen
  <1>2. open \subseteq Findings  OBVIOUS
  <1>. HIDE DEF open
  <1>3. next \in RunType  BY <1>2, Typed DEF RunType
  <1>4. /\ next.rows = run[r].rows /\ next.todo = run[r].todo
        /\ next.pc = "resolve" /\ next.texted = run[r].texted
    BY Typed DEF RunType
  <1>. HIDE DEF next
  <1>. QED  BY <1>1, <1>3, <1>4, Typed, QuietType DEF At, Handling

LEMMA ResolveFindingType ==
    ASSUME TypeInv, NEW r \in Runs, NEW f \in Findings, ResolveFinding(r, f)
    PROVE  Quiet(r) /\ TypeInv'
  <1> DEFINE write == [finding |-> f, status |-> "resolved"]
             writes == run[r].writes \cup {write}
             next == [run[r] EXCEPT !.left = @ \ {f}, !.writes = writes]
  <1>1. /\ At(r, "resolve") /\ Step(r, next)
        /\ UNCHANGED <<untouched, texts, waiting>>
    BY DEF ResolveFinding, NextToResolve
  <1>2. writes \subseteq [finding : Findings, status : {"open", "kept", "resolved"}]
    BY Typed DEF RunType
  <1>. HIDE DEF writes
  <1>3. next \in RunType  BY <1>2, Typed DEF RunType
  <1>4. /\ next.rows = run[r].rows /\ next.todo = run[r].todo
        /\ next.pc = run[r].pc /\ next.texted = run[r].texted
    BY Typed DEF RunType
  <1>. HIDE DEF next
  <1>. QED  BY <1>1, <1>3, <1>4, Typed, QuietType DEF At, Handling

LEMMA SendType ==
    ASSUME TypeInv, NEW r \in Runs, Send(r)
    PROVE  TypeInv'
  <1>1. PICK texted \in BOOLEAN :
            /\ Step(r, [run[r] EXCEPT !.pc = "insert", !.texted = texted])
            /\ texts' = [texts EXCEPT ![run[r].key] = @ + IF texted THEN 1 ELSE 0]
    BY DEF Send
  <1> DEFINE next == [run[r] EXCEPT !.pc = "insert", !.texted = texted]
  <1>2. At(r, "send") /\ UNCHANGED <<untouched, waiting>>  BY DEF Send
  <1>3. next \in RunType /\ Step(r, next)  BY <1>1, Typed DEF RunType
  <1>4. /\ next.rows = run[r].rows /\ next.todo = run[r].todo /\ next.key = run[r].key
        /\ next.pc = "insert"
    BY Typed DEF RunType
  <1>. HIDE DEF next
  <1>5. Placed(next)  BY <1>2, <1>4, Typed DEF At, Placed, Handling
  <1>6. /\ run' \in [Runs -> RunType]
        /\ \A o \in Runs : Placed(run[o])'
    BY <1>2, <1>3, <1>5, StepPlaced DEF untouched
  <1>7. texts' \in [Keys -> Nat]
    BY <1>1, <1>2, Typed DEF TypeInv, TypeOK, At, Placed, Handling
  <1>8. TypeOK'  BY <1>2, <1>6, <1>7 DEF TypeInv, TypeOK, untouched
  <1>. QED  BY <1>2, <1>6, <1>8 DEF TypeInv, untouched

\* The row an INSERT adds.
RowOf(r) == [approval |-> run[r].key[1], slot |-> run[r].key[2], at |-> run[r].now,
             texted |-> run[r].texted]

LEMMA RowTyped ==
    ASSUME TypeInv, NEW r \in Runs, At(r, "insert")
    PROVE  /\ RowOf(r) \in Row
           /\ KeyOf(RowOf(r)) = run[r].key
           /\ RowOf(r).approval = run[r].key[1] /\ RowOf(r).slot = run[r].key[2]
           /\ RowOf(r).at = run[r].now /\ RowOf(r).texted = run[r].texted
  <1>1. run[r].key \in Keys /\ run[r] \in RunType
    BY Typed DEF At, Placed, Handling
  <1>. QED  BY <1>1 DEF RunType, RowOf, Row, Keys, KeyOf

LEMMA InsertType ==
    ASSUME TypeInv, NEW r \in Runs, InsertRow(r)
    PROVE  TypeInv'
  <1> DEFINE next == [Done(r) EXCEPT !.rows = @ \cup {RowOf(r)}]
  <1>1. /\ At(r, "insert") /\ Step(r, next)
        /\ UNCHANGED <<untouched, texts, waiting>>
    BY DEF InsertRow, RowOf
  <1>2. next \in RunType
    BY <1>1, RowTyped, DoneTyped DEF RunType, TypeInv
  <1>3. /\ next.rows = run[r].rows \cup {RowOf(r)}
        /\ next.todo = run[r].todo \ {run[r].key[1]}
        /\ next.pc = "scan" /\ ~next.texted
    BY DoneTyped DEF RunType, TypeInv
  <1>. HIDE DEF next
  <1>4. IsFiniteSet(next.rows)
    <2>1. IsFiniteSet(run[r].rows)  BY Typed DEF Placed
    <2>2. IsFiniteSet(run[r].rows \cup {RowOf(r)})  BY <2>1, FS_AddElement
    <2>. QED  BY <1>3, <2>2
  <1>5. RowOf(r).approval = run[r].key[1] /\ run[r].key[1] \in run[r].todo
    BY <1>1, RowTyped, Typed DEF At, Placed, Handling
  <1>6. Placed(next)
    BY <1>3, <1>4, <1>5, Typed DEF Placed, Handling
  <1>7. /\ run' \in [Runs -> RunType]
        /\ \A o \in Runs : Placed(run[o])'
    BY <1>1, <1>2, <1>6, StepPlaced DEF untouched
  <1>8. TypeOK'  BY <1>1, <1>7 DEF TypeInv, TypeOK, untouched
  <1>. QED  BY <1>1, <1>7, <1>8 DEF TypeInv, untouched

LEMMA IdlePlaced == Placed(Idle)
  BY FS_EmptySet DEF Idle, Placed, Handling

LEMMA RollBackType ==
    ASSUME TypeInv, NEW r \in Runs, RollBack(r), faults' \in 0..MaxFaults
    PROVE  Discarded(r) /\ TypeInv'
  <1>1. /\ Step(r, Idle)
        /\ waiting' \in Runs \cup {NoRun}
        /\ UNCHANGED <<clock, approval, holding, reminders, findings, texts, changes>>
    BY Typed DEF RollBack, Leave
  <1>2. /\ run' \in [Runs -> RunType]
        /\ \A o \in Runs : Placed(run[o])'
    BY <1>1, IdleTyped, IdlePlaced, StepPlaced
  <1>3. lost' \in [Keys -> Nat]  BY DEF RollBack, TypeInv, TypeOK
  <1>4. TypeOK'  BY <1>1, <1>2, <1>3 DEF TypeInv, TypeOK
  <1>5. Discarded(r)  BY <1>1 DEF Discarded, RollBack
  <1>. QED  BY <1>1, <1>2, <1>4, <1>5 DEF TypeInv

LEMMA RollBackSteps ==
    ASSUME TypeInv, NEW r \in Runs,
           DuplicateKey(r) \/ DuplicateFinding(r) \/ Raise(r) \/ Deadlock(r)
    PROVE  Discarded(r) /\ TypeInv'
  <1>1. RollBack(r) /\ (faults' = faults \/ (faults < MaxFaults /\ faults' = faults + 1))
    BY DEF DuplicateKey, DuplicateFinding, Raise, Deadlock
  <1>2. faults' \in 0..MaxFaults
    BY <1>1, HeartbeatAssumption DEF TypeInv, TypeOK
  <1>. QED  BY <1>1, <1>2, RollBackType

LEMMA CommitType ==
    ASSUME TypeInv, NEW r \in Runs, CommitRun(r)
    PROVE  TypeInv'
  <1>1. /\ Step(r, Idle)
        /\ waiting' \in Runs \cup {NoRun}
        /\ reminders' = reminders \cup run[r].rows
        /\ UNCHANGED <<clock, approval, holding, texts, lost, faults, changes>>
    BY Typed DEF CommitRun, Leave
  <1>2. /\ run' \in [Runs -> RunType]
        /\ \A o \in Runs : Placed(run[o])'
    BY <1>1, IdleTyped, IdlePlaced, StepPlaced
  <1> DEFINE written == {w \in run[r].writes : w.status # "kept"}
             Of(f) == CHOOSE w \in written : w.finding = f
  <1>3. findings' = [f \in Findings |-> IF \E w \in written : w.finding = f
                                        THEN Of(f).status ELSE findings[f]]
    BY DEF CommitRun
  <1>4. \A w \in written : w.status \in FindingStatus
    BY Typed DEF RunType, FindingStatus
  <1>5. ASSUME NEW f \in Findings, \E w \in written : w.finding = f
        PROVE  Of(f).status \in FindingStatus
    <2>1. Of(f) \in written  BY <1>5
    <2>. QED  BY <1>4, <2>1
  <1>. HIDE DEF Of, written
  <1>6. findings' \in [Findings -> FindingStatus]
    BY <1>3, <1>5 DEF TypeInv, TypeOK
  <1>7. reminders' \subseteq Row /\ IsFiniteSet(reminders')
    BY <1>1, Typed, FS_Union DEF TypeInv, TypeOK, RunType, Placed
  <1>8. \A w \in reminders' : approval'[w.approval].status # "absent"
    BY <1>1, Typed DEF TypeInv, Placed
  <1>9. TypeOK'  BY <1>1, <1>2, <1>6, <1>7 DEF TypeInv, TypeOK
  <1>. QED  BY <1>2, <1>7, <1>8, <1>9 DEF TypeInv

\* The steps of a run that neither text nor touch rows.
QuietStep(r) ==
    \/ StartRun(r)
    \/ \E a \in Approvals : CheckEscalation(r, a)
    \/ CountReminders(r) \/ CheckDue(r) \/ CheckDedupe(r)
    \/ CollectCandidates(r)
    \/ \E f \in Findings : ReadFinding(r, f) \/ ResolveFinding(r, f)
    \/ UpsertCandidate(r) \/ ListOpen(r)

LEMMA QuietSteps ==
    ASSUME TypeInv, NEW r \in Runs, QuietStep(r)
    PROVE  Quiet(r) /\ TypeInv'
  BY StartType, CheckEscalationType, CountRemindersType, CheckDueType,
     CheckDedupeType, CollectCandidatesType, ReadFindingType, UpsertCandidateType,
     ListOpenType, ResolveFindingType
  DEF QuietStep

LEMMA Steps ==
    ASSUME TypeInv, [Next]_vars
    PROVE  /\ TypeInv'
           /\ \/ World
              \/ \E r \in Runs : \/ Quiet(r) /\ QuietStep(r)
                                 \/ Send(r) \/ InsertRow(r)
                                 \/ Discarded(r) \/ CommitRun(r)
  <1>1. CASE UNCHANGED vars
    BY <1>1 DEF vars, TypeInv, TypeOK, Placed, World
  <1>2. CASE \/ Tick \/ TimeOut
             \/ \E a \in Approvals : OpenApproval(a) \/ DecideApproval(a)
             \/ \E d \in Conditions : ChangeCondition(d)
    BY <1>2, WorldSteps
  <1>3. ASSUME NEW r \in Runs, StartRun(r) \/ RunStep(r) \/ Raise(r)
        PROVE  /\ TypeInv'
               /\ \/ Quiet(r) /\ QuietStep(r)
                  \/ Send(r) \/ InsertRow(r)
                  \/ Discarded(r) \/ CommitRun(r)
    <2>1. CASE QuietStep(r)  BY <2>1, QuietSteps
    <2>2. CASE Send(r)  BY <2>2, SendType
    <2>3. CASE InsertRow(r)  BY <2>3, InsertType
    <2>4. CASE DuplicateKey(r) \/ DuplicateFinding(r) \/ Raise(r) \/ Deadlock(r)
      BY <2>4, RollBackSteps
    <2>5. CASE CommitRun(r)  BY <2>5, CommitType
    <2>. QED  BY <1>3, <2>1, <2>2, <2>3, <2>4, <2>5 DEF RunStep, QuietStep
  <1>. QED  BY <1>1, <1>2, <1>3 DEF Next

\* Every variable has its type in every reachable state, for any constants.
THEOREM TypeCorrect == Spec => []TypeOK
  <1>1. TypeInv /\ [Next]_vars => TypeInv'  BY Steps
  <1>2. TypeInv => TypeOK  BY DEF TypeInv
  <1>. QED  BY InitType, <1>1, <1>2, PTL DEF Spec

-----------------------------------------------------------------------------
(* A key is in one row, committed or not.                                  *)

KeyInv ==
    /\ \A v, w \in reminders : KeyOf(v) = KeyOf(w) => v = w
    /\ \A r \in Runs : \A w \in run[r].rows : ~KeyTaken(KeyOf(w))
    /\ \A r, o \in Runs : r # o =>
         \A v \in run[r].rows, w \in run[o].rows : KeyOf(v) # KeyOf(w)

LEMMA InsertedRow ==
    ASSUME TypeInv, NEW r \in Runs, InsertRow(r)
    PROVE  /\ run'[r].rows = run[r].rows \cup {RowOf(r)}
           /\ run'[r].pc = "scan" /\ ~run'[r].texted
           /\ \A o \in Runs \ {r} : run'[o] = run[o]
           /\ KeyOf(RowOf(r)) = run[r].key
           /\ UNCHANGED <<approval, reminders, texts, lost>>
  <1> DEFINE next == [Done(r) EXCEPT !.rows = @ \cup {RowOf(r)}]
  <1>1. At(r, "insert") /\ Step(r, next)
    BY DEF InsertRow, RowOf
  <1>2. next \in RunType
    BY <1>1, RowTyped, DoneTyped DEF RunType, TypeInv
  <1>3. /\ next.rows = run[r].rows \cup {RowOf(r)}
        /\ next.pc = "scan" /\ ~next.texted
    BY DoneTyped DEF RunType, TypeInv
  <1>. HIDE DEF next
  <1>. QED
    BY <1>1, <1>2, <1>3, StepTyped, RowTyped DEF TypeInv, InsertRow, untouched

LEMMA CommittedRun ==
    ASSUME TypeInv, NEW r \in Runs, CommitRun(r)
    PROVE  /\ run'[r] = Idle
           /\ \A o \in Runs \ {r} : run'[o] = run[o]
           /\ reminders' = reminders \cup run[r].rows
           /\ run[r].pc = "resolve" /\ ~run[r].texted
           /\ UNCHANGED <<approval, texts, lost>>
  BY IdleTyped, StepTyped, Typed DEF CommitRun, Leave, At, TypeInv

LEMMA DiscardedRun ==
    ASSUME TypeInv, NEW r \in Runs, Discarded(r)
    PROVE  /\ run'[r] = Idle
           /\ \A o \in Runs \ {r} : run'[o] = run[o]
           /\ UNCHANGED <<approval, reminders, texts>>
  BY IdleTyped, StepTyped DEF Discarded, TypeInv

LEMMA SentRun ==
    ASSUME TypeInv, NEW r \in Runs, Send(r)
    PROVE  /\ run'[r].rows = run[r].rows /\ run'[r].key = run[r].key
           /\ run'[r].pc = "insert" /\ run'[r].now = run[r].now
           /\ \A o \in Runs \ {r} : run'[o] = run[o]
           /\ run[r].pc = "send" /\ ~run[r].texted
           /\ texts' = [texts EXCEPT ![run[r].key] = @ + IF run'[r].texted THEN 1 ELSE 0]
           /\ UNCHANGED <<approval, reminders, lost>>
  <1>1. PICK texted \in BOOLEAN :
            /\ Step(r, [run[r] EXCEPT !.pc = "insert", !.texted = texted])
            /\ texts' = [texts EXCEPT ![run[r].key] = @ + IF texted THEN 1 ELSE 0]
    BY DEF Send
  <1> DEFINE next == [run[r] EXCEPT !.pc = "insert", !.texted = texted]
  <1>2. next \in RunType /\ Step(r, next)  BY <1>1, Typed DEF RunType
  <1>3. /\ next.rows = run[r].rows /\ next.key = run[r].key
        /\ next.pc = "insert" /\ next.now = run[r].now /\ next.texted = texted
    BY Typed DEF RunType
  <1>. HIDE DEF next
  <1>. QED  BY <1>1, <1>2, <1>3, StepTyped, Typed DEF TypeInv, Send, At, untouched

LEMMA QuietRun ==
    ASSUME TypeInv, NEW r \in Runs, Quiet(r)
    PROVE  /\ run'[r].rows = run[r].rows /\ ~run[r].texted /\ ~run'[r].texted
           /\ \A o \in Runs \ {r} : run'[o] = run[o]
           /\ UNCHANGED <<approval, reminders, texts, lost>>
  BY StepTyped DEF TypeInv, Quiet

LEMMA NoRows == Idle.rows = {} /\ ~Idle.texted /\ Idle.pc = "idle"
  BY DEF Idle

LEMMA InitKeys == Init => KeyInv
  <1>. SUFFICES ASSUME Init PROVE KeyInv  OBVIOUS
  <1>1. reminders = {} /\ \A r \in Runs : run[r] = Idle  BY DEF Init, Fresh
  <1>. QED  BY <1>1, NoRows DEF KeyInv

LEMMA KeyStep == TypeInv /\ KeyInv /\ [Next]_vars => KeyInv'
  <1>. SUFFICES ASSUME TypeInv, KeyInv, [Next]_vars PROVE KeyInv'
    OBVIOUS
  <1>1. CASE World  BY <1>1 DEF World, KeyInv, KeyTaken, KeyOf
  <1>2. ASSUME NEW r \in Runs, Quiet(r) \/ Send(r) PROVE KeyInv'
    BY <1>2, QuietRun, SentRun DEF KeyInv, KeyTaken, KeyOf
  <1>3. ASSUME NEW r \in Runs, InsertRow(r) PROVE KeyInv'
    BY <1>3, InsertedRow DEF InsertRow, KeyInv, KeyTaken, KeyHeld, KeyOf
  <1>4. ASSUME NEW r \in Runs, Discarded(r) PROVE KeyInv'
    BY <1>4, DiscardedRun, NoRows DEF KeyInv, KeyTaken, KeyOf
  <1>5. ASSUME NEW r \in Runs, CommitRun(r) PROVE KeyInv'
    <2>1. \A v, w \in run[r].rows : KeyOf(v) = KeyOf(w) => v = w
      BY Typed DEF Placed, KeyOf
    <2>2. \A v, w \in reminders' : KeyOf(v) = KeyOf(w) => v = w
      BY <1>5, <2>1, CommittedRun DEF KeyInv, KeyTaken
    <2>3. \A o \in Runs : \A w \in run'[o].rows : ~KeyTaken(KeyOf(w))'
      BY <1>5, CommittedRun, NoRows DEF KeyInv, KeyTaken, KeyOf
    <2>4. \A q, o \in Runs : q # o =>
            \A v \in run'[q].rows, w \in run'[o].rows : KeyOf(v) # KeyOf(w)
      BY <1>5, CommittedRun, NoRows DEF KeyInv
    <2>. QED  BY <2>2, <2>3, <2>4 DEF KeyInv, KeyOf
  <1>. QED  BY <1>1, <1>2, <1>3, <1>4, <1>5, Steps

-----------------------------------------------------------------------------
(* Every text is on record, kept back or lost.                             *)

Holders(k) == {r \in Runs : k \in TextedBy(r)}
Recorded(k) == {w \in reminders : KeyOf(w) = k /\ w.texted}

TextInv(k) == texts[k] = lost[k] + Cardinality(Holders(k)) + Cardinality(Recorded(k))

LEMMA InitTexts == Init => \A k \in Keys : TextInv(k)
  <1>. SUFFICES ASSUME Init, NEW k \in Keys PROVE TextInv(k)  OBVIOUS
  <1>1. Recorded(k) = {}  BY DEF Recorded, Init, Fresh
  <1>2. Holders(k) = {}
    <2>1. \A r \in Runs : run[r] = Idle  BY DEF Init, Fresh
    <2>. QED  BY <2>1, NoRows DEF Holders, TextedBy
  <1>3. texts[k] = 0 /\ lost[k] = 0  BY DEF Init, Fresh
  <1>. QED  BY <1>1, <1>2, <1>3, FS_EmptySet DEF TextInv

LEMMA HoldersFinite ==
    \A k \in Keys : IsFiniteSet(Holders(k)) /\ Cardinality(Holders(k)) \in Nat
  BY HeartbeatAssumption, FS_Subset, FS_CardinalityType DEF Holders

LEMMA RecordedFinite ==
    ASSUME TypeInv, NEW k \in Keys
    PROVE  IsFiniteSet(Recorded(k)) /\ Cardinality(Recorded(k)) \in Nat
  <1>1. Recorded(k) \subseteq reminders  BY DEF Recorded
  <1>. QED  BY <1>1, FS_Subset, FS_CardinalityType DEF TypeInv

\* A step that keeps what each run has texted keeps the sum.
LEMMA TextsKept ==
    ASSUME NEW k \in Keys, TextInv(k), UNCHANGED <<reminders, texts, lost>>,
           \A r \in Runs : k \in TextedBy(r)' <=> k \in TextedBy(r)
    PROVE  TextInv(k)'
  <1>1. Holders(k)' = Holders(k)  BY DEF Holders
  <1>2. Recorded(k)' = Recorded(k)  BY DEF Recorded, KeyOf
  <1>. QED  BY <1>1, <1>2 DEF TextInv

LEMMA OthersTexted ==
    ASSUME NEW o \in Runs, run'[o] = run[o]
    PROVE  TextedBy(o)' = TextedBy(o)
  BY DEF TextedBy, KeyOf

\* A run that ends gives back what it texted.
LEMMA HolderLeaves ==
    ASSUME NEW r \in Runs, run'[r] = Idle, \A o \in Runs \ {r} : run'[o] = run[o],
           NEW k \in Keys
    PROVE  Cardinality(Holders(k)') =
             Cardinality(Holders(k)) - IF k \in TextedBy(r) THEN 1 ELSE 0
  <1>1. TextedBy(r)' = {}  BY NoRows DEF TextedBy
  <1>2. Holders(k)' = Holders(k) \ {r}  BY <1>1, OthersTexted DEF Holders
  <1>3. IsFiniteSet(Holders(k)) /\ Cardinality(Holders(k)) \in Nat  BY HoldersFinite
  <1>4. CASE k \in TextedBy(r)
    <2>1. r \in Holders(k)  BY <1>4 DEF Holders
    <2>. QED  BY <1>2, <1>3, <1>4, <2>1, FS_RemoveElement
  <1>5. CASE k \notin TextedBy(r)
    <2>1. Holders(k) \ {r} = Holders(k)  BY <1>5 DEF Holders
    <2>. QED  BY <1>2, <1>3, <1>5, <2>1
  <1>. QED  BY <1>4, <1>5

LEMMA SendText ==
    ASSUME TypeInv, NEW r \in Runs, Send(r), NEW k \in Keys, TextInv(k)
    PROVE  TextInv(k)'
  <1>1. \A o \in Runs \ {r} : TextedBy(o)' = TextedBy(o)
    BY SentRun, OthersTexted
  <1>2. TextedBy(r)' = TextedBy(r) \cup IF run'[r].texted THEN {run[r].key} ELSE {}
    BY SentRun DEF TextedBy, KeyOf
  <1>3. Recorded(k)' = Recorded(k)  BY SentRun DEF Recorded, KeyOf
  <1>4. CASE run'[r].texted /\ run[r].key = k
    <2>1. run[r].key[1] \in run[r].todo
      BY SentRun, Typed DEF Placed, Handling
    <2>2. k \notin TextedBy(r)
      BY <1>4, <2>1, SentRun, Typed DEF TextedBy, KeyOf, Placed
    <2>3. Holders(k)' = Holders(k) \cup {r}
      BY <1>1, <1>2, <1>4 DEF Holders
    <2>4. Cardinality(Holders(k)') = Cardinality(Holders(k)) + 1
      BY <2>2, <2>3, HoldersFinite, FS_AddElement DEF Holders
    <2>5. texts'[k] = texts[k] + 1 /\ lost'[k] = lost[k]
      BY <1>4, SentRun DEF TypeInv, TypeOK
    <2>6. texts[k] \in Nat /\ lost[k] \in Nat  BY DEF TypeInv, TypeOK
    <2>. QED
      BY <1>3, <2>4, <2>5, <2>6, HoldersFinite, RecordedFinite DEF TextInv
  <1>5. CASE ~(run'[r].texted /\ run[r].key = k)
    <2>1. Holders(k)' = Holders(k)  BY <1>1, <1>2, <1>5 DEF Holders
    <2>2. texts'[k] = texts[k] /\ lost'[k] = lost[k]
      BY <1>5, SentRun DEF TypeInv, TypeOK
    <2>. QED  BY <1>3, <2>1, <2>2 DEF TextInv
  <1>. QED  BY <1>4, <1>5

LEMMA CommitText ==
    ASSUME TypeInv, KeyInv, NEW r \in Runs, CommitRun(r), NEW k \in Keys, TextInv(k)
    PROVE  TextInv(k)'
  <1>1. Cardinality(Holders(k)') =
          Cardinality(Holders(k)) - IF k \in TextedBy(r) THEN 1 ELSE 0
    BY CommittedRun, HolderLeaves
  <1>2. TextedBy(r) = {KeyOf(w) : w \in {x \in run[r].rows : x.texted}}
    BY CommittedRun DEF TextedBy
  <1>3. texts'[k] = texts[k] /\ lost'[k] = lost[k] /\ texts[k] \in Nat /\ lost[k] \in Nat
    BY CommittedRun DEF TypeInv, TypeOK
  <1>4. CASE k \in TextedBy(r)
    <2>1. PICK w \in run[r].rows : w.texted /\ KeyOf(w) = k  BY <1>2, <1>4
    <2>2. Recorded(k) = {}  BY <2>1 DEF Recorded, KeyInv, KeyTaken
    <2>3. Recorded(k)' = {w}
      <3>1. \A v \in run[r].rows : KeyOf(v) = k => v = w
        BY <2>1, Typed DEF Placed, KeyOf
      <3>2. Recorded(k)' = {v \in reminders' : KeyOf(v) = k /\ v.texted}
        BY DEF Recorded, KeyOf
      <3>3. \A v \in reminders : KeyOf(v) # k  BY <2>1 DEF KeyInv, KeyTaken
      <3>. QED  BY <2>1, <3>1, <3>2, <3>3, CommittedRun
    <2>4. Cardinality(Recorded(k)) = 0 /\ Cardinality(Recorded(k)') = 1
      BY <2>2, <2>3, FS_EmptySet, FS_Singleton
    <2>. QED  BY <1>1, <1>3, <1>4, <2>4, HoldersFinite DEF TextInv
  <1>5. CASE k \notin TextedBy(r)
    <2>1. Recorded(k)' = Recorded(k)
      BY <1>2, <1>5, CommittedRun DEF Recorded, KeyOf
    <2>. QED  BY <1>1, <1>3, <1>5, <2>1, HoldersFinite, RecordedFinite DEF TextInv
  <1>. QED  BY <1>4, <1>5

LEMMA DiscardText ==
    ASSUME TypeInv, NEW r \in Runs, Discarded(r), NEW k \in Keys, TextInv(k)
    PROVE  TextInv(k)'
  <1>1. Cardinality(Holders(k)') =
          Cardinality(Holders(k)) - IF k \in TextedBy(r) THEN 1 ELSE 0
    BY DiscardedRun, HolderLeaves
  <1>2. Recorded(k)' = Recorded(k)  BY DiscardedRun DEF Recorded, KeyOf
  <1>3. texts'[k] = texts[k] /\ texts[k] \in Nat /\ lost[k] \in Nat
    BY DiscardedRun DEF TypeInv, TypeOK
  <1>4. lost'[k] = lost[k] + IF k \in TextedBy(r) THEN 1 ELSE 0
    BY DEF Discarded
  <1>. QED  BY <1>1, <1>2, <1>3, <1>4, HoldersFinite, RecordedFinite DEF TextInv

LEMMA TextStep ==
    TypeInv /\ KeyInv /\ (\A k \in Keys : TextInv(k)) /\ [Next]_vars
        => \A k \in Keys : TextInv(k)'
  <1>. SUFFICES ASSUME TypeInv, KeyInv, [Next]_vars, NEW k \in Keys, TextInv(k)
                PROVE  TextInv(k)'
    OBVIOUS
  <1>1. CASE World  BY <1>1, TextsKept, OthersTexted DEF World
  <1>2. ASSUME NEW r \in Runs, Quiet(r) PROVE TextInv(k)'
    <2>1. TextedBy(r)' = TextedBy(r)  BY <1>2, QuietRun DEF TextedBy, KeyOf
    <2>. QED  BY <1>2, <2>1, QuietRun, TextsKept, OthersTexted
  <1>3. ASSUME NEW r \in Runs, InsertRow(r) PROVE TextInv(k)'
    <2>1. TextedBy(r)' = TextedBy(r)
      <3>1. RowOf(r).texted = run[r].texted
        BY <1>3, RowTyped DEF InsertRow
      <3>. QED  BY <1>3, <3>1, InsertedRow DEF TextedBy, KeyOf
    <2>. QED  BY <1>3, <2>1, InsertedRow, TextsKept, OthersTexted
  <1>4. ASSUME NEW r \in Runs, Send(r) PROVE TextInv(k)'
    BY <1>4, SendText
  <1>5. ASSUME NEW r \in Runs, Discarded(r) PROVE TextInv(k)'
    BY <1>5, DiscardText
  <1>6. ASSUME NEW r \in Runs, CommitRun(r) PROVE TextInv(k)'
    BY <1>6, CommitText
  <1>. QED  BY <1>1, <1>2, <1>3, <1>4, <1>5, <1>6, Steps

KeptInv == TypeInv /\ KeyInv /\ \A k \in Keys : TextInv(k)

\* Of the texts with one key one is on record, the others are lost or kept back
\* by runs in progress, for any number of runs that overlap: the row that is in
\* the way of a second one is never taken back.
THEOREM TextsAreKept == Spec => []TextsOnRecord
  <1>1. Init => KeptInv  BY InitType, InitKeys, InitTexts DEF KeptInv
  <1>2. KeptInv /\ [Next]_vars => KeptInv'
    <2>. SUFFICES ASSUME KeptInv, [Next]_vars PROVE KeptInv'  OBVIOUS
    <2>1. TypeInv' /\ KeyInv'  BY Steps, KeyStep DEF KeptInv
    <2>2. \A k \in Keys : TextInv(k)'  BY TextStep DEF KeptInv
    <2>. QED  BY <2>1, <2>2 DEF KeptInv, Keys, Slots
  <1>3. KeptInv => TextsOnRecord
    <2>. SUFFICES ASSUME KeptInv, NEW k \in Keys
                  PROVE  /\ texts[k] = lost[k] + Cardinality(Holders(k))
                                     + Cardinality(Recorded(k))
                         /\ Cardinality({w \in reminders : KeyOf(w) = k}) =< 1
      BY DEF TextsOnRecord, Holders, Recorded
    <2> DEFINE rows == {w \in reminders : KeyOf(w) = k}
    <2>1. CASE rows = {}  BY <2>1, FS_EmptySet DEF KeptInv, TextInv
    <2>2. ASSUME NEW w \in rows
          PROVE  Cardinality(rows) =< 1
      <3>1. rows = {w}  BY <2>2 DEF KeptInv, KeyInv
      <3>. QED  BY <3>1, FS_Singleton
    <2>. QED  BY <2>1, <2>2 DEF KeptInv, TextInv
  <1>. QED  BY <1>1, <1>2, <1>3, PTL DEF Spec

-----------------------------------------------------------------------------
(* The numbers and distances of the reminders.                             *)

Committed(a) == {w \in Reminders(reminders) : w.approval = a}
NumberOf(a) == Cardinality(Committed(a))

\* Reminder k of a may bear time t, as far as the committed ones are concerned.
MayFollow(a, k, t) ==
    /\ k =< NumberOf(a) + 1
    /\ k = 1 => t >= approval[a].since + FIRST
    /\ \A v \in Committed(a) : k = v.slot + 1 => t >= v.at + REPEAT

NumInv(a) ==
    /\ {w.slot : w \in Committed(a)} = 1..NumberOf(a)
    /\ \A w \in Committed(a) : w.slot = 1 => w.at >= approval[a].since + FIRST
    /\ \A v, w \in Committed(a) : w.slot = v.slot + 1 => w.at >= v.at + REPEAT

\* What a run has decided stays right while others commit.
Spaced(s) ==
    /\ s.pc = "due" => s.count =< NumberOf(s.key[1])
    /\ s.pc \in {"dedupe", "send", "insert"} /\ s.key[2] # Escalation =>
         MayFollow(s.key[1], s.key[2], s.now)
    /\ \A w \in s.rows : w.slot # Escalation => MayFollow(w.approval, w.slot, w.at)

SpaceInv ==
    /\ \A a \in Approvals : NumInv(a)
    /\ \A r \in Runs : Spaced(run[r])

LEMMA CommittedTyped ==
    ASSUME TypeInv, NEW a \in Approvals
    PROVE  /\ IsFiniteSet(Committed(a))
           /\ NumberOf(a) \in Nat
           /\ \A w \in Committed(a) : w \in Row /\ w \in reminders /\ w.approval = a
                                      /\ w.slot \in Nat \ {0} /\ w.at \in Nat
  <1>1. Committed(a) \subseteq reminders  BY DEF Committed, Reminders
  <1>2. IsFiniteSet(Committed(a))  BY <1>1, FS_Subset DEF TypeInv
  <1>3. NumberOf(a) \in Nat  BY <1>2, FS_CardinalityType DEF NumberOf
  <1>4. \A w \in Committed(a) :
            /\ w \in Row /\ w \in reminders /\ w.approval = a
            /\ w.slot # Escalation
    BY <1>1 DEF Committed, Reminders, TypeInv, TypeOK
  <1>5. \A w \in Row : w.slot \in Nat /\ w.at \in Nat
    BY HeartbeatAssumption DEF Row, Slots
  <1>. QED  BY <1>2, <1>3, <1>4, <1>5 DEF Escalation

LEMMA InitSpace == Init => SpaceInv
  <1>. SUFFICES ASSUME Init PROVE SpaceInv  OBVIOUS
  <1>1. reminders = {} /\ \A r \in Runs : run[r] = Idle  BY DEF Init, Fresh
  <1>2. \A a \in Approvals : Committed(a) = {} /\ NumberOf(a) = 0
    BY <1>1, FS_EmptySet DEF Committed, Reminders, NumberOf
  <1>. QED  BY <1>1, <1>2, NoRows DEF SpaceInv, NumInv, Spaced

\* What a run reads of an approval on its list is what is committed.
LEMMA ReadRows ==
    ASSUME TypeInv, NEW r \in Runs, NEW a \in run[r].todo
    PROVE  Reminders(RowsFor(r, a)) = Committed(a)
  <1>1. \A w \in run[r].rows : w.approval # a  BY Typed DEF Placed
  <1>. QED  BY <1>1 DEF Reminders, RowsFor, Visible, Committed

\* While the committed rows stay, so does what was decided.
LEMMA SpacedStays ==
    ASSUME TypeInv, World \/ UNCHANGED <<approval, reminders>>,
           NEW s \in RunType, Placed(s), Spaced(s)
    PROVE  Spaced(s)'
  <1>1. /\ \A a : Committed(a)' = Committed(a) /\ NumberOf(a)' = NumberOf(a)
        /\ \A a \in Approvals : approval[a].status # "absent" =>
                approval'[a].since = approval[a].since
    BY DEF World, Committed, Reminders, NumberOf
  <1>2. \A w \in s.rows : w.approval \in Approvals /\ approval[w.approval].status # "absent"
    BY DEF RunType, Row, Placed
  <1>3. s.pc \in {"dedupe", "send", "insert"} =>
          s.key[1] \in Approvals /\ approval[s.key[1]].status # "absent"
    BY DEF RunType, Placed, Handling
  <1>. QED  BY <1>1, <1>2, <1>3 DEF Spaced, MayFollow

LEMMA QuietSpaced ==
    ASSUME TypeInv, NEW r \in Runs, NEW next \in RunType, Step(r, next),
           UNCHANGED <<approval, reminders>>,
           Spaced(run[r]), next.rows = run[r].rows,
           next.pc = "due" => next.count =< NumberOf(next.key[1]),
           next.pc \in {"dedupe", "send", "insert"} /\ next.key[2] # Escalation =>
             MayFollow(next.key[1], next.key[2], next.now)
    PROVE  Spaced(run[r])'
  <1>1. run'[r] = next  BY StepTyped DEF TypeInv
  <1>2. Spaced(next)  BY DEF Spaced
  <1>3. \A a : Committed(a)' = Committed(a) /\ NumberOf(a)' = NumberOf(a)
    BY DEF Committed, Reminders, NumberOf
  <1>. QED  BY <1>1, <1>2, <1>3 DEF Spaced, MayFollow

LEMMA CountSpaced ==
    ASSUME TypeInv, NEW r \in Runs, CountReminders(r), Spaced(run[r])
    PROVE  Spaced(run[r])'
  <1> DEFINE a == run[r].key[1]
             n == Cardinality(Reminders(RowsFor(r, a)))
             next == IF Exhausted(n) THEN Done(r)
                     ELSE [run[r] EXCEPT !.pc = "due", !.count = n]
  <1>1. /\ At(r, "count") /\ Step(r, next)
        /\ UNCHANGED <<approval, reminders>>
    BY DEF CountReminders, untouched
  <1>2. a \in run[r].todo /\ a \in Approvals
    BY <1>1, Typed DEF At, Placed, Handling, RunType
  <1>3. n = NumberOf(a)  BY <1>2, ReadRows DEF NumberOf
  <1>. HIDE DEF n
  <1>4. CASE Exhausted(n)
    <2>1. next = Done(r)  BY <1>4
    <2>. HIDE DEF next
    <2>. QED  BY <1>1, <2>1, DoneTyped, QuietSpaced DEF TypeInv
  <1>5. CASE ~Exhausted(n)
    <2>1. next = [run[r] EXCEPT !.pc = "due", !.count = n]  BY <1>5
    <2>2. n \in Slots
      BY <1>2, <1>3, <1>5, CommittedTyped, HeartbeatAssumption DEF Exhausted, Slots
    <2>. HIDE DEF next
    <2>3. next \in RunType  BY <2>1, <2>2, Typed DEF RunType
    <2>4. /\ next.rows = run[r].rows /\ next.key = run[r].key
          /\ next.pc = "due" /\ next.count = n
      BY <2>1, Typed DEF RunType
    <2>5. next.count =< NumberOf(next.key[1])
      BY <1>2, <1>3, <2>4, CommittedTyped
    <2>. QED  BY <1>1, <2>3, <2>4, <2>5, QuietSpaced
  <1>. QED  BY <1>4, <1>5

LEMMA DueSpaced ==
    ASSUME TypeInv, NEW r \in Runs, CheckDue(r), Spaced(run[r])
    PROVE  Spaced(run[r])'
  <1> DEFINE a == run[r].key[1]
             k == run[r].count + 1
             next == IF Due(r, a) THEN [run[r] EXCEPT !.pc = "dedupe", !.key = <<a, k>>]
                     ELSE Done(r)
  <1>1. /\ At(r, "due") /\ Step(r, next)
        /\ UNCHANGED <<approval, reminders>>
    BY DEF CheckDue, untouched
  <1>2. a \in run[r].todo /\ a \in Approvals
    BY <1>1, Typed DEF At, Placed, Handling, RunType
  <1>3. CASE ~Due(r, a)
    <2>1. next = Done(r)  BY <1>3
    <2>. HIDE DEF next
    <2>. QED  BY <1>1, <2>1, DoneTyped, QuietSpaced DEF TypeInv
  <1>4. CASE Due(r, a)
    <2>1. next = [run[r] EXCEPT !.pc = "dedupe", !.key = <<a, k>>]
      BY <1>4
    <2>2. <<a, k>> \in Keys
      BY <1>1, <1>2, Typed, HeartbeatAssumption DEF At, Placed, RunType, Keys, Slots
    <2>. HIDE DEF next
    <2>3. next \in RunType  BY <2>1, <2>2, Typed DEF RunType
    <2>4. /\ next.rows = run[r].rows /\ next.key = <<a, k>>
          /\ next.pc = "dedupe" /\ next.now = run[r].now
      BY <2>1, Typed DEF RunType
    <2>5. /\ run[r].count \in Nat
          /\ run[r].count =< NumberOf(a)
      BY <1>1, Typed, HeartbeatAssumption DEF At, Spaced, RunType, Slots
    <2>6. k =< NumberOf(a) + 1  BY <1>2, <2>5, CommittedTyped
    <2>7. k = 1 => run[r].now >= approval[a].since + FIRST
      <3>1. run[r].now \in Int /\ approval[a].since \in Int /\ FIRST \in Int
        BY <1>2, Typed, HeartbeatAssumption DEF TypeInv, TypeOK, RunType
      <3>. QED  BY <1>4, <2>5, <3>1 DEF Due
    <2>8. ASSUME NEW v \in Committed(a), k = v.slot + 1
          PROVE  run[r].now >= v.at + REPEAT
      <3>1. run[r].count # 0  BY <1>2, <2>5, <2>8, CommittedTyped
      <3>. QED  BY <1>2, <1>4, <3>1, ReadRows DEF Due, RepeatDue
    <2>9. MayFollow(a, k, run[r].now)  BY <2>6, <2>7, <2>8 DEF MayFollow
    <2>10. next.key[1] = a /\ next.key[2] = k  BY <2>4
    <2>. HIDE DEF a, k
    <2>. QED  BY <1>1, <2>3, <2>4, <2>9, <2>10, QuietSpaced
  <1>. QED  BY <1>3, <1>4

LEMMA DedupeSpaced ==
    ASSUME TypeInv, NEW r \in Runs, CheckDedupe(r), Spaced(run[r])
    PROVE  Spaced(run[r])'
  <1>1. /\ At(r, "dedupe") /\ UNCHANGED <<approval, reminders>>
        /\ Step(r, Done(r)) \/ Step(r, [run[r] EXCEPT !.pc = "send"])
    BY DEF CheckDedupe, untouched
  <1>2. CASE Step(r, Done(r))
    BY <1>1, <1>2, DoneTyped, QuietSpaced DEF TypeInv
  <1>3. CASE Step(r, [run[r] EXCEPT !.pc = "send"])
    <2> DEFINE next == [run[r] EXCEPT !.pc = "send"]
    <2>1. next \in RunType  BY Typed DEF RunType
    <2>2. /\ next.rows = run[r].rows /\ next.key = run[r].key
          /\ next.now = run[r].now /\ next.pc = "send"
      BY Typed DEF RunType
    <2>3. next.key[2] # Escalation => MayFollow(next.key[1], next.key[2], next.now)
      BY <1>1, <2>2 DEF At, Spaced
    <2>4. Step(r, next)  BY <1>3
    <2>. HIDE DEF next
    <2>. QED  BY <1>1, <2>1, <2>2, <2>3, <2>4, QuietSpaced
  <1>. QED  BY <1>1, <1>2, <1>3

\* Steps that leave a run with no reminder under way.
LEMMA IdleSpaced ==
    ASSUME TypeInv, NEW r \in Runs, Quiet(r), Spaced(run[r]),
           \/ run'[r].pc \notin {"due", "dedupe", "send", "insert"}
           \/ run'[r].pc = "dedupe" /\ run'[r].key[2] = Escalation
    PROVE  Spaced(run[r])'
  <1>1. PICK next \in RunType : Step(r, next) /\ next.rows = run[r].rows
    BY DEF Quiet
  <1>2. run'[r] = next  BY <1>1, StepTyped DEF TypeInv
  <1>. QED  BY <1>1, <1>2, QuietSpaced DEF Quiet

LEMMA QuietStepSpaced ==
    ASSUME TypeInv, NEW r \in Runs, Quiet(r), QuietStep(r), Spaced(run[r])
    PROVE  Spaced(run[r])'
  <1>1. r \in DOMAIN run /\ run[r] \in RunType  BY Typed DEF TypeInv, TypeOK
  <1>2. CASE CountReminders(r)  BY <1>2, CountSpaced
  <1>3. CASE CheckDue(r)  BY <1>3, DueSpaced
  <1>4. CASE CheckDedupe(r)  BY <1>4, DedupeSpaced
  <1>5. CASE StartRun(r)
    <2>1. run'[r].pc = "scan"  BY <1>1, <1>5 DEF StartRun, Step, Idle
    <2>2. run'[r].pc \notin {"due", "dedupe", "send", "insert"}  BY <2>1
    <2>. QED  BY <2>2, IdleSpaced
  <1>6. ASSUME NEW a \in Approvals, CheckEscalation(r, a)
        PROVE  Spaced(run[r])'
    <2>1. PICK place \in {"dedupe", "count"} :
              run'[r] = [run[r] EXCEPT !.key = <<a, Escalation>>, !.pc = place]
      BY <1>1, <1>6 DEF CheckEscalation, Step
    <2>2. run'[r].pc = place /\ run'[r].key[2] = Escalation
      BY <2>1, Typed DEF RunType
    <2>. QED  BY <2>2, IdleSpaced
  <1>7. CASE CollectCandidates(r) \/ UpsertCandidate(r)
    <2>1. run'[r].pc = "findings"
      BY <1>1, <1>7 DEF CollectCandidates, UpsertCandidate, Step, RunType
    <2>2. run'[r].pc \notin {"due", "dedupe", "send", "insert"}  BY <2>1
    <2>. QED  BY <2>2, IdleSpaced
  <1>8. CASE ListOpen(r)
    <2>1. run'[r].pc = "resolve"
      BY <1>1, <1>8 DEF ListOpen, Step, RunType
    <2>2. run'[r].pc \notin {"due", "dedupe", "send", "insert"}  BY <2>1
    <2>. QED  BY <2>2, IdleSpaced
  <1>9. ASSUME NEW f \in Findings, ReadFinding(r, f) \/ ResolveFinding(r, f)
        PROVE  Spaced(run[r])'
    <2>1. run'[r].pc \in {"upsert", "resolve"}
      BY <1>1, <1>9 DEF ReadFinding, ResolveFinding, NextToResolve, At, Step, RunType
    <2>2. run'[r].pc \notin {"due", "dedupe", "send", "insert"}  BY <2>1
    <2>. QED  BY <2>2, IdleSpaced
  <1>. QED  BY <1>2, <1>3, <1>4, <1>5, <1>6, <1>7, <1>8, <1>9 DEF QuietStep

-----------------------------------------------------------------------------
LEMMA InsertSpaced ==
    ASSUME TypeInv, NEW r \in Runs, InsertRow(r), Spaced(run[r])
    PROVE  Spaced(run[r])'
  <1>1. /\ RowOf(r).approval = run[r].key[1] /\ RowOf(r).slot = run[r].key[2]
        /\ RowOf(r).at = run[r].now
    BY RowTyped DEF InsertRow
  <1>2. run[r].pc = "insert"  BY DEF InsertRow, At
  <1>3. \A w \in run[r].rows \cup {RowOf(r)} :
            w.slot # Escalation => MayFollow(w.approval, w.slot, w.at)
    BY <1>1, <1>2 DEF Spaced
  <1>4. \A a : Committed(a)' = Committed(a) /\ NumberOf(a)' = NumberOf(a)
    BY InsertedRow DEF Committed, Reminders, NumberOf
  <1>5. /\ run'[r].pc = "scan" /\ run'[r].rows = run[r].rows \cup {RowOf(r)}
        /\ approval' = approval
    BY InsertedRow
  <1>. HIDE DEF RowOf
  <1>. QED  BY <1>3, <1>4, <1>5 DEF Spaced, MayFollow

LEMMA SendSpaced ==
    ASSUME TypeInv, NEW r \in Runs, Send(r), Spaced(run[r])
    PROVE  Spaced(run[r])'
  <1>1. \A a : Committed(a)' = Committed(a) /\ NumberOf(a)' = NumberOf(a)
    BY SentRun DEF Committed, Reminders, NumberOf
  <1>. QED  BY <1>1, SentRun DEF Spaced, MayFollow

LEMMA EndSpaced ==
    ASSUME NEW r \in Runs, run'[r] = Idle
    PROVE  Spaced(run[r])'
  BY NoRows DEF Spaced

\* A reminder that is committed is the next one of its approval.
LEMMA NextReminder ==
    ASSUME TypeInv, KeyInv, NEW a \in Approvals, NumInv(a), NEW r \in Runs,
           NEW u \in run[r].rows, u.approval = a, u.slot # Escalation,
           MayFollow(a, u.slot, u.at)
    PROVE  u.slot = NumberOf(a) + 1
  <1>1. u.slot \in Nat \ {0}
    BY Typed, HeartbeatAssumption DEF RunType, Row, Slots, Escalation
  <1>2. \A v \in Committed(a) : v.slot # u.slot
    BY CommittedTyped DEF KeyInv, KeyTaken, KeyOf
  <1>3. u.slot \notin 1..NumberOf(a)  BY <1>2 DEF NumInv
  <1>4. u.slot =< NumberOf(a) + 1 /\ NumberOf(a) \in Nat
    BY CommittedTyped DEF MayFollow
  <1>. QED  BY <1>1, <1>3, <1>4

\* What a COMMIT does to the reminders of one approval.
LEMMA CommitAdds ==
    ASSUME TypeInv, KeyInv, SpaceInv, NEW r \in Runs, CommitRun(r), NEW a \in Approvals
    PROVE  \/ Committed(a)' = Committed(a)
           \/ \E u \in run[r].rows :
                /\ Committed(a)' = Committed(a) \cup {u} /\ u \notin Committed(a)
                /\ NumberOf(a)' = NumberOf(a) + 1
                /\ u.slot = NumberOf(a) + 1
                /\ MayFollow(a, u.slot, u.at)
  <1>1. Committed(a)' = Committed(a) \cup
            {w \in run[r].rows : w.slot # Escalation /\ w.approval = a}
    BY CommittedRun DEF Committed, Reminders
  <1>2. ASSUME NEW u \in run[r].rows, u.slot # Escalation, u.approval = a
        PROVE  /\ Committed(a)' = Committed(a) \cup {u} /\ u \notin Committed(a)
               /\ NumberOf(a)' = NumberOf(a) + 1
               /\ u.slot = NumberOf(a) + 1
               /\ MayFollow(a, u.slot, u.at)
    <2>1. MayFollow(a, u.slot, u.at)  BY <1>2 DEF SpaceInv, Spaced
    <2>2. u.slot = NumberOf(a) + 1
      BY <1>2, <2>1, NextReminder DEF SpaceInv
    <2>3. \A w \in run[r].rows : w.approval = a => w = u
      BY <1>2, Typed DEF Placed
    <2>4. Committed(a)' = Committed(a) \cup {u}  BY <1>1, <1>2, <2>3
    <2>5. u \notin Committed(a)
      BY CommittedTyped DEF KeyInv, KeyTaken
    <2>6. NumberOf(a)' = NumberOf(a) + 1
      BY <2>4, <2>5, CommittedTyped, FS_AddElement DEF NumberOf
    <2>. QED  BY <2>1, <2>2, <2>4, <2>5, <2>6
  <1>. QED  BY <1>1, <1>2

LEMMA CommitNumbers ==
    ASSUME TypeInv, KeyInv, SpaceInv, NEW r \in Runs, CommitRun(r), NEW a \in Approvals
    PROVE  NumInv(a)'
  <1>1. approval' = approval  BY CommittedRun
  <1>2. NumInv(a)  BY DEF SpaceInv
  <1>3. CASE Committed(a)' = Committed(a)
    <2>1. NumberOf(a)' = NumberOf(a)  BY <1>3 DEF NumberOf
    <2>. QED  BY <1>1, <1>2, <1>3, <2>1 DEF NumInv
  <1>4. ASSUME NEW u \in run[r].rows,
               Committed(a)' = Committed(a) \cup {u}, u \notin Committed(a),
               NumberOf(a)' = NumberOf(a) + 1, u.slot = NumberOf(a) + 1,
               MayFollow(a, u.slot, u.at)
        PROVE  NumInv(a)'
    <2>1. NumberOf(a) \in Nat  BY CommittedTyped
    <2>2. {w.slot : w \in Committed(a)'} = 1..NumberOf(a)'
      <3>1. {w.slot : w \in Committed(a)'} = {w.slot : w \in Committed(a)} \cup {u.slot}
        BY <1>4
      <3>2. 1..NumberOf(a)' = (1..NumberOf(a)) \cup {NumberOf(a) + 1}
        BY <1>4, <2>1
      <3>. QED  BY <1>2, <1>4, <3>1, <3>2 DEF NumInv
    <2>3. \A w \in Committed(a)' : w.slot = 1 => w.at >= approval'[a].since + FIRST
      BY <1>1, <1>2, <1>4 DEF NumInv, MayFollow
    <2>4. \A v \in Committed(a) : v.slot \in 1..NumberOf(a)  BY <1>2 DEF NumInv
    <2>5. \A v, w \in Committed(a)' : w.slot = v.slot + 1 => w.at >= v.at + REPEAT
      BY <1>2, <1>4, <2>1, <2>4 DEF NumInv, MayFollow
    <2>. QED  BY <2>2, <2>3, <2>5 DEF NumInv
  <1>. QED  BY <1>3, <1>4, CommitAdds

\* A reminder that others have decided on can still follow.
LEMMA MayStillFollow ==
    ASSUME TypeInv, KeyInv, SpaceInv, NEW r \in Runs, CommitRun(r), NEW a \in Approvals,
           NEW k \in Nat, NEW t \in Nat, MayFollow(a, k, t)
    PROVE  MayFollow(a, k, t)' /\ NumberOf(a) =< NumberOf(a)'
  <1>1. approval' = approval  BY CommittedRun
  <1>2. NumberOf(a) \in Nat  BY CommittedTyped
  <1>3. CASE Committed(a)' = Committed(a)
    <2>1. NumberOf(a)' = NumberOf(a)  BY <1>3 DEF NumberOf
    <2>. QED  BY <1>1, <1>2, <1>3, <2>1 DEF MayFollow
  <1>4. ASSUME NEW u \in run[r].rows,
               Committed(a)' = Committed(a) \cup {u},
               NumberOf(a)' = NumberOf(a) + 1, u.slot = NumberOf(a) + 1
        PROVE  MayFollow(a, k, t)' /\ NumberOf(a) =< NumberOf(a)'
    <2>1. k # u.slot + 1  BY <1>2, <1>4 DEF MayFollow
    <2>. QED  BY <1>1, <1>2, <1>4, <2>1 DEF MayFollow
  <1>. QED  BY <1>3, <1>4, CommitAdds

LEMMA CommitSpaced ==
    ASSUME TypeInv, KeyInv, SpaceInv, NEW r \in Runs, CommitRun(r), NEW o \in Runs
    PROVE  Spaced(run[o])'
  <1>1. CASE o = r  BY <1>1, CommittedRun, EndSpaced
  <1>2. CASE o # r
    <2>1. PICK s \in RunType : run[o] = s /\ run'[o] = s /\ Placed(s) /\ Spaced(s)
      BY <1>2, CommittedRun, Typed DEF SpaceInv
    <2>2. /\ s.now \in Nat /\ s.count \in Nat
          /\ \A w \in s.rows : w.approval \in Approvals /\ w.slot \in Nat /\ w.at \in Nat
      BY <2>1, HeartbeatAssumption DEF RunType, Row, Slots
    <2>3. s.pc \in Handling => s.key[1] \in Approvals /\ s.key[2] \in Nat
      BY <2>1, HeartbeatAssumption DEF Placed, Keys, Slots
    <2>4. s.pc = "due" => s.count =< NumberOf(s.key[1])'
      <3>. SUFFICES ASSUME s.pc = "due" PROVE s.count =< NumberOf(s.key[1])'
        OBVIOUS
      <3>1. PICK a \in Approvals : a = s.key[1] /\ s.count =< NumberOf(a)
        BY <2>1, <2>3 DEF Spaced, Handling
      <3>2. NumberOf(a)' = NumberOf(a) \/ NumberOf(a)' = NumberOf(a) + 1
        BY CommitAdds DEF NumberOf
      <3>3. NumberOf(a) \in Nat  BY CommittedTyped
      <3>4. s.count =< NumberOf(a)'  BY <2>2, <3>1, <3>2, <3>3
      <3>. QED  BY <3>1, <3>4
    <2>5. s.pc \in {"dedupe", "send", "insert"} /\ s.key[2] # Escalation =>
            MayFollow(s.key[1], s.key[2], s.now)'
      BY <2>1, <2>2, <2>3, MayStillFollow DEF Spaced, Handling
    <2>6. \A w \in s.rows : w.slot # Escalation => MayFollow(w.approval, w.slot, w.at)'
      BY <2>1, <2>2, MayStillFollow DEF Spaced
    <2>. QED  BY <2>1, <2>4, <2>5, <2>6 DEF Spaced
  <1>. QED  BY <1>1, <1>2

\* A step that commits nothing keeps the committed reminders as they are.
LEMMA NumbersStay ==
    ASSUME TypeInv, SpaceInv, World \/ UNCHANGED <<approval, reminders>>,
           NEW a \in Approvals
    PROVE  NumInv(a)'
  <1>1. /\ Committed(a)' = Committed(a) /\ NumberOf(a)' = NumberOf(a)
        /\ approval[a].status # "absent" => approval'[a].since = approval[a].since
    BY DEF World, Committed, Reminders, NumberOf
  <1>2. Committed(a) # {} => approval[a].status # "absent"
    BY CommittedTyped DEF TypeInv
  <1>. QED  BY <1>1, <1>2 DEF SpaceInv, NumInv

LEMMA SpaceStep == TypeInv /\ KeyInv /\ SpaceInv /\ [Next]_vars => SpaceInv'
  <1>. SUFFICES ASSUME TypeInv, KeyInv, SpaceInv, [Next]_vars PROVE SpaceInv'
    OBVIOUS
  <1>1. CASE World
    <2>1. \A r \in Runs : Spaced(run[r])'
      BY <1>1, SpacedStays, Typed DEF SpaceInv, World
    <2>. QED  BY <1>1, <2>1, NumbersStay DEF SpaceInv
  <1>2. ASSUME NEW r \in Runs, UNCHANGED <<approval, reminders>>,
               Spaced(run[r])', \A o \in Runs \ {r} : run'[o] = run[o]
        PROVE  SpaceInv'
    <2>1. ASSUME NEW o \in Runs \ {r} PROVE Spaced(run[o])'
      <3>1. Spaced(run[o]) /\ Placed(run[o]) /\ run[o] \in RunType /\ run'[o] = run[o]
        BY <1>2, Typed DEF SpaceInv
      <3>2. \A a : Committed(a)' = Committed(a) /\ NumberOf(a)' = NumberOf(a)
        BY <1>2 DEF Committed, Reminders, NumberOf
      <3>. QED  BY <1>2, <3>1, <3>2 DEF Spaced, MayFollow
    <2>. QED  BY <1>2, <2>1, NumbersStay DEF SpaceInv
  <1>3. ASSUME NEW r \in Runs, Quiet(r), QuietStep(r) PROVE SpaceInv'
    BY <1>2, <1>3, QuietRun, QuietStepSpaced DEF SpaceInv
  <1>4. ASSUME NEW r \in Runs, Send(r) PROVE SpaceInv'
    BY <1>2, <1>4, SentRun, SendSpaced DEF SpaceInv
  <1>5. ASSUME NEW r \in Runs, InsertRow(r) PROVE SpaceInv'
    BY <1>2, <1>5, InsertedRow, InsertSpaced DEF SpaceInv
  <1>6. ASSUME NEW r \in Runs, Discarded(r) PROVE SpaceInv'
    BY <1>2, <1>6, DiscardedRun, EndSpaced
  <1>7. ASSUME NEW r \in Runs, CommitRun(r) PROVE SpaceInv'
    BY <1>7, CommitNumbers, CommitSpaced DEF SpaceInv
  <1>. QED  BY <1>1, <1>3, <1>4, <1>5, <1>6, <1>7, Steps

\* The committed reminders of an approval are numbered without gaps or repeats
\* and keep their distances, for any number of overlapping runs: a count that is
\* out of date ends in a key that is taken.
THEOREM RemindersKeepDistance == Spec => []RemindersSpaced
  <1> DEFINE Inv == TypeInv /\ KeyInv /\ SpaceInv
  <1>1. Init => Inv  BY InitType, InitKeys, InitSpace
  <1>2. Inv /\ [Next]_vars => Inv'  BY Steps, KeyStep, SpaceStep
  <1>3. Inv => RemindersSpaced
    BY DEF SpaceInv, NumInv, RemindersSpaced, Committed, NumberOf
  <1>. QED  BY <1>1, <1>2, <1>3, PTL DEF Spec
=============================================================================

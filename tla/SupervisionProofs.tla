-------------------------- MODULE SupervisionProofs --------------------------
(***************************************************************************)
(* Proofs about Supervision, for any workers, missions, rows of memory and *)
(* PATCHes in progress: what becomes of the operator's memory, which is    *)
(* written beside everything that the heartbeat runs watch.                *)
(***************************************************************************)
EXTENDS Supervision, TLAPS

Rows == [status : {"absent", "active", "archived"}, tied : BOOLEAN]
PatchesSeen == [note : SUBSET Notes, seen : {"absent", "active", "archived"},
                status : {"absent", "active", "archived"}]

\* The events are counted by type, and a PATCH is of a row it has read.
MemoryInv ==
    /\ memory \in [Notes -> Rows]
    /\ told \in [Notes -> [EventTypes -> Nat]]
    /\ patch \in [Patches -> PatchesSeen]

\* What any step of the system does to the memory.
MemoryStep ==
    \/ UNCHANGED memoryVars
    \/ \E n \in Notes, type \in EventTypes \ {"memory_archived"}, tied \in BOOLEAN :
            Insert(n, type, tied)
    \/ \E p \in Patches, n \in Notes : ReadMemory(p, n)
    \/ \E p \in Patches : WriteMemory(p) \/ LosePatch(p)

LEMMA MemorySteps == [SupervisionNext]_supervisionVars => MemoryStep
<1> SUFFICES ASSUME [SupervisionNext]_supervisionVars PROVE MemoryStep
  OBVIOUS
<1> USE DEF memoryVars, watchedVars, rememberedVars
<1>1. CASE UNCHANGED supervisionVars
  BY <1>1 DEF supervisionVars, MemoryStep
<1>2. CASE TimePasses \/ Watch
  BY <1>2 DEF TimePasses, Watch, MemoryStep
<1>3. ASSUME NEW w \in Workers, WorkerSteps(w) PROVE MemoryStep
  BY <1>3 DEF WorkerSteps, RegistryNoticed, MemoryStep
<1>4. ASSUME NEW m \in Missions, MissionMoves(m) \/ RefuseReceipt(m) PROVE MemoryStep
  BY <1>4 DEF MissionMoves, RefuseReceipt, MemoryStep
<1>5. ASSUME NEW n \in Notes,
             \/ \E tied \in BOOLEAN : CreateManual(n, tied)
             \/ PromoteFromMission(n) \/ PromoteFromReceipt(n)
      PROVE  MemoryStep
  BY <1>5 DEF CreateManual, PromoteFromMission, PromoteFromReceipt, EventTypes, MemoryStep
<1>6. ASSUME NEW m \in Missions, RecordReceipt(m) PROVE MemoryStep
  <2>1. UNCHANGED <<memory, told, patch>> \/ \E n \in Notes : PromoteFromReceipt(n)
    BY <1>6 DEF RecordReceipt
  <2> QED BY <1>5, <2>1 DEF MemoryStep
<1>7. CASE Remember
  <2>1. \/ \E n \in Notes : (\E tied \in BOOLEAN : CreateManual(n, tied)) \/ PromoteFromMission(n)
        \/ \E p \in Patches, n \in Notes : ReadMemory(p, n)
        \/ \E p \in Patches : WriteMemory(p) \/ LosePatch(p)
    BY <1>7 DEF Remember
  <2> QED BY <1>5, <2>1 DEF MemoryStep
<1> QED BY <1>1, <1>2, <1>3, <1>4, <1>6, <1>7 DEF SupervisionNext, World

-----------------------------------------------------------------------------
\* What an INSERT and a written PATCH make of the rows and of their events.
LEMMA Emits ==
  ASSUME MemoryInv, NEW n \in Notes, NEW type \in EventTypes, Emit(n, type)
  PROVE  /\ told' \in [Notes -> [EventTypes -> Nat]]
         /\ \A m \in Notes, t \in EventTypes :
                told'[m][t] = IF m = n /\ t = type THEN told[m][t] + 1 ELSE told[m][t]
<1>1. told' = [told EXCEPT ![n] = [told[n] EXCEPT ![type] = told[n][type] + 1]]
  BY DEF Emit, MemoryInv
<1>2. told[n] \in [EventTypes -> Nat]
  BY DEF MemoryInv
<1>3. PICK counts : counts = [told[n] EXCEPT ![type] = told[n][type] + 1]
  OBVIOUS
<1>4. counts \in [EventTypes -> Nat]
      /\ \A t \in EventTypes : counts[t] = IF t = type THEN told[n][t] + 1 ELSE told[n][t]
  BY <1>2, <1>3
<1>5. told' = [told EXCEPT ![n] = counts]
  BY <1>1, <1>3
<1> QED BY <1>4, <1>5 DEF MemoryInv

LEMMA Inserts ==
  ASSUME MemoryInv, NEW n \in Notes, NEW type \in EventTypes \ {"memory_archived"},
         NEW tied \in BOOLEAN, Insert(n, type, tied)
  PROVE  /\ MemoryInv'
         /\ \A m \in Notes : memory'[m] = memory[m] \/ memory'[m].status = "active"
         /\ \A m \in Notes : told'[m]["memory_archived"] = told[m]["memory_archived"]
<1>1. PICK row : row = [status |-> "active", tied |-> tied]
  OBVIOUS
<1>2. row \in Rows /\ row.status = "active"
  BY <1>1 DEF Rows
<1>3. memory' = [memory EXCEPT ![n] = row] /\ patch' = patch
  BY <1>1 DEF Insert
<1>4. /\ told' \in [Notes -> [EventTypes -> Nat]]
      /\ \A m \in Notes : told'[m]["memory_archived"] = told[m]["memory_archived"]
  <2>1. CASE Emit(n, type)
    BY <2>1, Emits DEF EventTypes
  <2>2. CASE UNCHANGED told
    BY <2>2 DEF MemoryInv
  <2> QED BY <2>1, <2>2 DEF Insert
<1> QED BY <1>2, <1>3, <1>4 DEF MemoryInv

\* A row that is written is archived with the event, and the event with the row.
LEMMA Writes ==
  ASSUME MemoryInv, NEW p \in Patches, WriteMemory(p)
  PROVE  /\ MemoryInv'
         /\ \A m \in Notes :
              /\ memory'[m].status = "archived" /\ memory[m].status = "active" /\ memory[m].tied
                    => told'[m]["memory_archived"] > told[m]["memory_archived"]
              /\ told'[m]["memory_archived"] > told[m]["memory_archived"]
                    => memory'[m].status = "archived"
<1>1. PICK n \in patch[p].note :
        /\ memory' = [memory EXCEPT ![n].status = Flushed(p, n)]
        /\ IF memory[n].tied /\ patch[p].status = "archived" /\ patch[p].seen # "archived"
           THEN Emit(n, "memory_archived") ELSE UNCHANGED told
  BY DEF WriteMemory
<1>2. n \in Notes
  BY DEF MemoryInv, PatchesSeen
<1>3. PICK status : status = Flushed(p, n)
  OBVIOUS
<1>4. /\ status \in {"absent", "active", "archived"}
      /\ patch[p].status = "archived" /\ patch[p].seen # "archived" => status = "archived"
      /\ status = "archived" /\ memory[n].status = "active" =>
            patch[p].status = "archived" /\ patch[p].seen # "archived"
  BY <1>2, <1>3 DEF Flushed, MemoryInv, PatchesSeen, Rows
<1>5. /\ memory' \in [Notes -> Rows]
      /\ memory'[n].status = status
      /\ \A m \in Notes : m # n => memory'[m] = memory[m]
  <2>1. memory[n] = [status |-> memory[n].status, tied |-> memory[n].tied]
        /\ memory[n].tied \in BOOLEAN
    BY <1>2 DEF MemoryInv, Rows
  <2>2. PICK row : row = [memory[n] EXCEPT !.status = status]
    OBVIOUS
  <2>3. row \in Rows /\ row.status = status
    BY <1>4, <2>1, <2>2 DEF Rows
  <2>4. memory' = [memory EXCEPT ![n] = row]
    BY <1>1, <1>2, <1>3, <2>2 DEF MemoryInv
  <2> QED BY <1>2, <2>3, <2>4 DEF MemoryInv
<1>6. /\ told' \in [Notes -> [EventTypes -> Nat]]
      /\ \A m \in Notes : m # n => told'[m]["memory_archived"] = told[m]["memory_archived"]
      /\ told[n]["memory_archived"] \in Nat
      /\ told'[n]["memory_archived"] =
            IF memory[n].tied /\ patch[p].status = "archived" /\ patch[p].seen # "archived"
            THEN told[n]["memory_archived"] + 1 ELSE told[n]["memory_archived"]
  <2>1. "memory_archived" \in EventTypes
    BY DEF EventTypes
  <2>2. told[n]["memory_archived"] \in Nat
    BY <1>2, <2>1 DEF MemoryInv
  <2>3. CASE memory[n].tied /\ patch[p].status = "archived" /\ patch[p].seen # "archived"
    BY <1>1, <1>2, <2>1, <2>2, <2>3, Emits
  <2>4. CASE ~(memory[n].tied /\ patch[p].status = "archived" /\ patch[p].seen # "archived")
    BY <1>1, <1>2, <2>2, <2>4 DEF MemoryInv
  <2> QED BY <2>3, <2>4
<1>7. \A m \in Notes : told[m]["memory_archived"] \in Nat
  BY DEF MemoryInv, EventTypes
<1>8. patch' \in [Patches -> PatchesSeen]
  BY DEF WriteMemory, MemoryInv, PatchesSeen, NoPatch
<1>9. MemoryInv'
  BY <1>5, <1>6, <1>8 DEF MemoryInv
<1>10. ASSUME NEW m \in Notes, m # n
       PROVE  memory'[m] = memory[m]
              /\ ~(told'[m]["memory_archived"] > told[m]["memory_archived"])
  BY <1>5, <1>6, <1>7, <1>10
<1>11. /\ status = "archived" /\ memory[n].status = "active" /\ memory[n].tied
            => told'[n]["memory_archived"] > told[n]["memory_archived"]
       /\ told'[n]["memory_archived"] > told[n]["memory_archived"] => status = "archived"
  BY <1>4, <1>6
<1> QED BY <1>5, <1>9, <1>10, <1>11

LEMMA InitMemory == SupervisionInit => MemoryInv
  BY DEF SupervisionInit, MemoryInit, MemoryInv, Absent, NoPatch, Rows, PatchesSeen

\* What a step may do to the rows, whatever else it does.
Told ==
    \A n \in Notes :
        /\ memory'[n].status = "archived" /\ memory[n].status = "active" /\ memory[n].tied
                => told'[n]["memory_archived"] > told[n]["memory_archived"]
        /\ told'[n]["memory_archived"] > told[n]["memory_archived"]
                => memory'[n].status = "archived"

LEMMA StepMemory == MemoryInv /\ MemoryStep => MemoryInv' /\ Told
<1> SUFFICES ASSUME MemoryInv, MemoryStep PROVE MemoryInv' /\ Told
  OBVIOUS
<1>1. \A n \in Notes : told[n]["memory_archived"] \in Nat
  BY DEF MemoryInv, EventTypes
<1>2. ASSUME MemoryInv', UNCHANGED <<memory, told>> PROVE MemoryInv' /\ Told
  BY <1>1, <1>2 DEF Told
<1>3. CASE UNCHANGED memoryVars
  BY <1>2, <1>3 DEF memoryVars, MemoryInv
<1>4. ASSUME NEW n \in Notes, NEW type \in EventTypes \ {"memory_archived"},
             NEW tied \in BOOLEAN, Insert(n, type, tied)
      PROVE  MemoryInv' /\ Told
  <2>1. /\ MemoryInv'
        /\ \A m \in Notes : memory'[m] = memory[m] \/ memory'[m].status = "active"
        /\ \A m \in Notes : told'[m]["memory_archived"] = told[m]["memory_archived"]
    BY <1>4, Inserts
  <2> QED BY <1>1, <2>1 DEF Told
<1>5. ASSUME NEW p \in Patches, NEW n \in Notes, ReadMemory(p, n) PROVE MemoryInv' /\ Told
  <2>1. PICK status \in {"active", "archived"} :
            patch' = [patch EXCEPT ![p] = [note |-> {n}, seen |-> memory[n].status,
                                           status |-> status]]
    BY <1>5 DEF ReadMemory
  <2>2. memory[n].status \in {"absent", "active", "archived"}
    BY DEF MemoryInv, Rows
  <2>3. [note |-> {n}, seen |-> memory[n].status, status |-> status] \in PatchesSeen
    BY <2>2 DEF PatchesSeen
  <2>4. patch' \in [Patches -> PatchesSeen]
    BY <2>1, <2>3 DEF MemoryInv
  <2>5. UNCHANGED <<memory, told>>
    BY <1>5 DEF ReadMemory
  <2> QED BY <1>2, <2>4, <2>5 DEF MemoryInv
<1>6. ASSUME NEW p \in Patches, LosePatch(p) PROVE MemoryInv' /\ Told
  <2>1. NoPatch \in PatchesSeen
    BY DEF NoPatch, PatchesSeen
  <2> QED BY <1>2, <1>6, <2>1 DEF LosePatch, MemoryInv
<1>7. ASSUME NEW p \in Patches, WriteMemory(p) PROVE MemoryInv' /\ Told
  BY <1>7, Writes DEF Told
<1> QED BY <1>3, <1>4, <1>5, <1>6, <1>7 DEF MemoryStep

\* No row that belongs to a mission is archived without an event that says so, and
\* no event says so of a row that is not, however many PATCHes have read the row
\* before others wrote it (MemoryService.patch).
THEOREM ArchivingIsTold == SupervisionSpec => ArchivesTold
<1>1. MemoryInv /\ [SupervisionNext]_supervisionVars => MemoryInv'
  BY MemorySteps, StepMemory
<1>2. MemoryInv /\ [SupervisionNext]_supervisionVars =>
        [ \A n \in Notes :
            /\ memory'[n].status = "archived" /\ memory[n].status = "active" /\ memory[n].tied
                    => told'[n]["memory_archived"] > told[n]["memory_archived"]
            /\ told'[n]["memory_archived"] > told[n]["memory_archived"]
                    => memory'[n].status = "archived" ]_memoryVars
  BY MemorySteps, StepMemory DEF Told
<1> QED BY <1>1, <1>2, InitMemory, PTL DEF SupervisionSpec, ArchivesTold
=============================================================================

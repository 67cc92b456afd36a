--------------------------- MODULE OperatorMemory ---------------------------
(***************************************************************************)
(* The operator's memory: rows that are written by hand or promoted from a *)
(* mission or a receipt, found again by a dedupe_key that is unique, and   *)
(* archived.  What becomes of a row that belongs to a mission is told on   *)
(* the mission's timeline, in the same transaction.                        *)
(*                                                                         *)
(* An INSERT of a key that another session holds waits for its COMMIT, so  *)
(* the sessions that insert are single steps; a PATCH reads its row, and   *)
(* writes it later by what it read.                                        *)
(***************************************************************************)
EXTENDS Naturals

CONSTANTS
    Notes,      \* memory_items by dedupe_key; one without is the only one of its key
    Patches     \* PATCH requests in progress at once

VARIABLES
    memory,     \* [status, tied]: whether a row belongs to a mission
    told,       \* timeline events about a row, by type
    patch       \* [note, seen, status]: what a PATCH read and what it is to write

memoryVars == <<memory, told, patch>>

Absent == [status |-> "absent", tied |-> FALSE]
NoPatch == [note |-> {}, seen |-> "absent", status |-> "absent"]
EventTypes == {"memory_saved", "memory_promoted", "memory_archived"}

MemoryInit ==
    /\ memory = [n \in Notes |-> Absent]
    /\ told = [n \in Notes |-> [type \in EventTypes |-> 0]]
    /\ patch = [p \in Patches |-> NoPatch]

Emit(n, type) == told' = [told EXCEPT ![n][type] = @ + 1]

Insert(n, type, tied) ==
    /\ memory[n] = Absent
    /\ memory' = [memory EXCEPT ![n] = [status |-> "active", tied |-> tied]]
    /\ IF tied THEN Emit(n, type) ELSE UNCHANGED told
    /\ UNCHANGED patch

\* A key that is taken is answered with 409.
CreateManual(n, tied) == Insert(n, "memory_saved", tied)
PromoteFromMission(n) == Insert(n, "memory_promoted", TRUE)
PromoteFromReceipt(n) == Insert(n, "memory_promoted", TRUE)

ReadMemory(p, n) ==
    /\ patch[p] = NoPatch /\ memory[n] # Absent
    /\ \E status \in {"active", "archived"} :
            patch' = [patch EXCEPT ![p] = [note |-> {n}, seen |-> memory[n].status,
                                           status |-> status]]
    /\ UNCHANGED <<memory, told>>

\* Mutant: the UPDATE sets the status whatever was read.
FlushedAlways(p, n) == patch[p].status

\* The UPDATE sets what differs from what was read, and nothing else.
Flushed(p, n) == IF patch[p].status # patch[p].seen THEN patch[p].status ELSE memory[n].status

WriteMemory(p) ==
    /\ \E n \in patch[p].note :
        /\ memory' = [memory EXCEPT ![n].status = Flushed(p, n)]
        /\ IF memory[n].tied /\ patch[p].status = "archived" /\ patch[p].seen # "archived"
           THEN Emit(n, "memory_archived") ELSE UNCHANGED told
    /\ patch' = [patch EXCEPT ![p] = NoPatch]

LosePatch(p) ==
    /\ patch[p] # NoPatch /\ patch' = [patch EXCEPT ![p] = NoPatch]
    /\ UNCHANGED <<memory, told>>

-----------------------------------------------------------------------------
\* No row of a mission is archived but with an event that says so, and every
\* event of the kind is of a PATCH that archived its row, however many PATCHes
\* read the row before others wrote it (MemoryService.patch).
ArchivesTold ==
    [][ \A n \in Notes :
            /\ memory'[n].status = "archived" /\ memory[n].status = "active" /\ memory[n].tied
                    => told'[n]["memory_archived"] > told[n]["memory_archived"]
            /\ told'[n]["memory_archived"] > told[n]["memory_archived"]
                    => memory'[n].status = "archived" ]_memoryVars
=============================================================================

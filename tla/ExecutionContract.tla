------------------------- MODULE ExecutionContract -------------------------
(***************************************************************************)
(* What the rest of Jarvis may rely on of the process behind               *)
(* jarvis.execution: an entry it was handed is acknowledged only when its  *)
(* mission has a final status and its work is accounted for; in an         *)
(* undisturbed run the account comes first and there is one final status;  *)
(* it lets an entry go only when something failed.                         *)
(***************************************************************************)
EXTENDS StreamGroup

CONSTANTS
    Entries,       \* what the stream carries
    BatchSize,     \* COUNT of XREADGROUP
    Bare,          \* what an entry without mission carries
    MissionIn(_)   \* the mission of an entry

VARIABLES
    execution,  \* the stream and its group
    hand,       \* positions handed over and not finished
    accounted,  \* positions with a receipt, or with nothing to run
    recorded,   \* final statuses written: [msg, status]
    mission,    \* mission statuses in the control plane
    hit         \* positions at which something failed

contractVars == <<execution, hand, accounted, recorded, mission, hit>>

Final == {"complete", "failed"}

ContractInit ==
    /\ execution = EmptyStream
    /\ hand = {} /\ accounted = {} /\ recorded = {} /\ hit = {}

\* Somebody adds an entry, or another consumer of the group moves on.
Add(e) ==
    /\ execution' = XAdd(execution, e)
    /\ UNCHANGED <<hand, accounted, recorded, mission, hit>>

Deliver ==
    LET given == Batch(execution, BatchSize)
    IN  /\ given # {}
        /\ execution' = XReadGroup(execution, BatchSize)
        /\ \/ hand' = hand \cup given /\ UNCHANGED hit
           \/ hit' = hit \cup given /\ UNCHANGED hand
        /\ UNCHANGED <<accounted, recorded, mission>>

HasStatus(i) == \E x \in recorded : x.msg = i

\* Mutant: the status may come before the account.
MayRecordUnaccounted(i) == ~HasStatus(i) \/ i \in hit'

MayRecord(i) == (i \in accounted /\ ~HasStatus(i)) \/ i \in hit'

\* Work on an entry in hand: its account, its final status, a failure.
Handle(i) ==
    /\ i \in hand
    /\ hit' \in {hit, hit \cup {i}}
    /\ accounted' \in {accounted, accounted \cup {i}}
    /\ \/ UNCHANGED <<recorded, mission>>
       \/ /\ MayRecord(i) /\ MissionIn(execution.log[i]) # Bare
          /\ \E s \in Final :
               /\ recorded' = recorded \cup {[msg |-> i, status |-> s]}
               /\ mission' = [mission EXCEPT ![MissionIn(execution.log[i])] = s]
    /\ hand' \in {hand, IF i \in hit' THEN hand \ {i} ELSE hand}
    /\ UNCHANGED execution

Settle(i) ==
    /\ i \in hand
    /\ MissionIn(execution.log[i]) = Bare \/ (HasStatus(i) /\ i \in accounted)
    /\ execution' = XAck(execution, i)
    /\ hit' \in {hit, hit \cup {i}}
    /\ hand' \in {hand \ {i}, IF i \in hit' THEN hand ELSE hand \ {i}}
    /\ UNCHANGED <<accounted, recorded, mission>>

\* The process dies with what it had in hand.
Die ==
    /\ hit' = hit \cup hand
    /\ hand' = {}
    /\ UNCHANGED <<execution, accounted, recorded, mission>>

ContractNext ==
    \/ \E e \in Entries : Add(e)
    \/ Deliver
    \/ \E i \in hand : Handle(i) \/ Settle(i)
    \/ Die

ContractSpec == ContractInit /\ [][ContractNext]_contractVars
=============================================================================

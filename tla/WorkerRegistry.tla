--------------------------- MODULE WorkerRegistry ---------------------------
(***************************************************************************)
(* The registry of workers.  A worker process registers when it starts and *)
(* then sends a heartbeat now and again; both upsert the row of its type   *)
(* and instance with the time at which the request came in.  The client    *)
(* gives a request up and ignores its failure, so that an old one may be   *)
(* committed after a newer.                                                *)
(***************************************************************************)
EXTENDS Integers, FiniteSets

CONSTANTS
    Workers,     \* by type and instance
    STALE        \* HEARTBEAT_WORKER_STALE_MINUTES

VARIABLES
    clock,
    up,          \* workers whose process runs
    beat,        \* last_heartbeat_at of their rows, or Never without a row
    requests     \* requests in progress: the worker and when they came in

registryVars == <<up, beat, requests>>

Never == -1

RegistryInit == up = {} /\ beat = [w \in Workers |-> Never] /\ requests = {}

Register(w) ==
    /\ w \notin up /\ up' = up \cup {w}
    /\ requests' = requests \cup {<<w, clock>>}
    /\ UNCHANGED beat

SendHeartbeat(w) ==
    /\ w \in up /\ beat[w] # clock /\ <<w, clock>> \notin requests
    /\ requests' = requests \cup {<<w, clock>>}
    /\ UNCHANGED <<up, beat>>

\* Mutant: a row that is there is only looked up.
UpsertNew(w, now) == IF beat[w] = Never THEN [beat EXCEPT ![w] = now] ELSE beat

\* The last to be committed wins.
Upsert(w, now) == [beat EXCEPT ![w] = now]

CommitBeat(w, now) ==
    /\ <<w, now>> \in requests
    /\ beat' = Upsert(w, now)
    /\ requests' = requests \ {<<w, now>>}
    /\ UNCHANGED up

\* The control plane is not there, or two inserts of the same row collide.
LoseBeat(w, now) ==
    /\ <<w, now>> \in requests
    /\ requests' = requests \ {<<w, now>>}
    /\ UNCHANGED <<up, beat>>

StopWorker(w) ==
    /\ w \in up /\ up' = up \ {w}
    /\ UNCHANGED <<beat, requests>>

-----------------------------------------------------------------------------
\* What the heartbeat run and GET /system/health make of the rows.
Stale(w) == beat[w] # Never /\ beat[w] < clock - STALE
Healthy(w) == beat[w] # Never /\ beat[w] >= clock - STALE

Summary == [registered |-> Cardinality({w \in Workers : beat[w] # Never}),
            healthy |-> Cardinality({w \in Workers : Healthy(w)}),
            stale |-> Cardinality({w \in Workers : beat[w] # Never /\ ~Healthy(w)})]
=============================================================================

---------------------------- MODULE LiveUpdates ----------------------------
(***************************************************************************)
(* From a committed change to the browser: the hub's bounded queue, the    *)
(* stream, and the command center, which merges the stream with what it    *)
(* fetches.  One client looks at one mission.  The n-th commit is the      *)
(* mission's n-th version and adds its n-th event; it may change the       *)
(* pending approvals too.  What a fetch reads is the number of commits     *)
(* it saw, the queries behind one answer being taken as one read.          *)
(***************************************************************************)
EXTENDS Naturals, Sequences, FiniteSets, SequencesExt

CONSTANTS
    QueueSize, BridgeSize,          \* 512 in the code
    MaxCommits, MaxFetches, MaxFaults

ASSUME LiveUpdatesAssumption ==
    /\ {QueueSize, BridgeSize, MaxCommits, MaxFetches} \subseteq Nat \ {0}
    /\ MaxFaults \in Nat

VARIABLES
    commits,     \* commits so far; the first created the mission
    unsent,      \* commits whose session has not broadcast yet
    subscribed,  \* the hub knows the client's queue
    queue,       \* the hub's queue for the client
    bridge,      \* on from there to the client, in order
    phase,       \* streamPhase
    connecting,  \* a GET of the stream is on its way or open
    timeline, mission, pending,     \* what the client shows; 0 is nothing yet
    fetches,     \* GETs under way
    owed,        \* history: events given to the stream, see TimelineComplete
    faults

vars == <<commits, unsent, subscribed, queue, bridge, phase, connecting,
          timeline, mission, pending, fetches, owed, faults>>

shown == <<timeline, mission, pending>>
stream == <<subscribed, queue, bridge, phase, connecting>>

Commits == 1..MaxCommits
Message == [type : {"mission_event", "mission"}, version : Commits]

\* Nothing has been read yet for a request that was just made.  The list of
\* missions is no kind of its own: of one mission it tells what the bundle tells.
Asked == 0
Kinds == {"pending", "bundle", "separate"}
Fetch == [kind : Kinds, read : 0..MaxCommits]
Ask(k) == [kind |-> k, read |-> Asked]

\* The page of a mission is opened, maybe before its creation was broadcast: the
\* provider hydrates, the page fetches its bundle, the stream is asked for.
Init ==
    /\ commits = 1 /\ unsent \in SUBSET {1}
    /\ subscribed = FALSE /\ queue = <<>> /\ bridge = <<>>
    /\ phase = "offline" /\ connecting = TRUE
    /\ timeline = {} /\ mission = 0 /\ pending = 0
    /\ fetches = {Ask("pending"), Ask("bundle")}
    /\ owed = {} /\ faults = 0

-----------------------------------------------------------------------------
(* Control plane: get_db, the hub and the stream.                          *)

Commit ==
    /\ commits < MaxCommits
    /\ commits' = commits + 1
    /\ unsent' = unsent \cup {commits + 1}
    /\ UNCHANGED <<stream, shown, fetches, owed, faults>>

MessagesOf(n) == << [type |-> "mission_event", version |-> n],
                    [type |-> "mission", version |-> n] >>

EventsIn(s) == {m.version : m \in {x \in ToSet(s) : x.type = "mission_event"}}

\* A full queue gives up its oldest message.
Within(s) == IF Len(s) =< QueueSize THEN s
             ELSE SubSeq(s, Len(s) - QueueSize + 1, Len(s))

\* After COMMIT and the texts; sessions can overtake each other here.
\* broadcast_all has no await that another task could use.
Broadcast(n) ==
    /\ n \in unsent
    /\ unsent' = unsent \ {n}
    /\ IF subscribed
       THEN LET all == queue \o MessagesOf(n) IN
            /\ queue' = Within(all)
            /\ owed' = (owed \cup {n}) \ (EventsIn(all) \ EventsIn(Within(all)))
       ELSE UNCHANGED <<queue, owed>>
    /\ UNCHANGED <<commits, subscribed, bridge, phase, connecting, shown, fetches, faults>>

\* The body of the response starts after its headers.
Subscribe ==
    /\ connecting /\ ~subscribed
    /\ subscribed' = TRUE
    /\ UNCHANGED <<commits, unsent, queue, bridge, phase, connecting, shown, fetches,
                   owed, faults>>

\* The pump holds one message more while the bridge is full.
Pump ==
    /\ queue # <<>> /\ Len(bridge) =< BridgeSize
    /\ bridge' = Append(bridge, Head(queue))
    /\ queue' = Tail(queue)
    /\ UNCHANGED <<commits, unsent, subscribed, phase, connecting, shown, fetches,
                   owed, faults>>

-----------------------------------------------------------------------------
(* Command center: the stream.                                             *)

Connect ==
    /\ phase = "reconnecting" /\ ~connecting
    /\ connecting' = TRUE
    /\ UNCHANGED <<commits, unsent, subscribed, queue, bridge, phase, shown, fetches,
                   owed, faults>>

\* The headers have come.
Open ==
    /\ connecting /\ phase # "live"
    /\ phase' = "live"
    /\ UNCHANGED <<commits, unsent, subscribed, queue, bridge, connecting, shown,
                   fetches, owed, faults>>

\* An HTTP failure, the end of the stream or a read error.  What is on the way
\* is lost, and the next attempt is scheduled.
Disconnect ==
    /\ connecting
    /\ phase = "live" => faults < MaxFaults
    /\ faults' = IF phase = "live" THEN faults + 1 ELSE faults
    /\ phase' = "reconnecting" /\ connecting' = FALSE
    /\ subscribed' = FALSE /\ queue' = <<>> /\ bridge' = <<>> /\ owed' = {}
    /\ UNCHANGED <<commits, unsent, shown, fetches>>

\* Mutant: an event is appended only at the end.
AppendedLast(events, n) == IF \A e \in events : e < n THEN events \cup {n} ELSE events

Appended(events, n) == events \cup {n}

\* Every event of this model is one after which pending approvals are fetched.
ReceiveEvent ==
    /\ phase = "live" /\ bridge # <<>> /\ Head(bridge).type = "mission_event"
    /\ timeline' = Appended(timeline, Head(bridge).version)
    /\ bridge' = Tail(bridge)
    /\ fetches' = fetches \cup {Ask("pending")}
    /\ UNCHANGED <<commits, unsent, subscribed, queue, phase, connecting, mission,
                   pending, owed, faults>>

\* Mutant: a snapshot that is not newer is left where it is.
ReceiveMissionIfNewer ==
    /\ phase = "live" /\ bridge # <<>> /\ Head(bridge).type = "mission"
    /\ Head(bridge).version > mission
    /\ mission' = Head(bridge).version
    /\ bridge' = Tail(bridge)
    /\ UNCHANGED <<commits, unsent, subscribed, queue, phase, connecting, timeline,
                   pending, fetches, owed, faults>>

\* The snapshot is taken over whatever is shown.
ReceiveMission ==
    /\ phase = "live" /\ bridge # <<>> /\ Head(bridge).type = "mission"
    /\ mission' = Head(bridge).version
    /\ bridge' = Tail(bridge)
    /\ UNCHANGED <<commits, unsent, subscribed, queue, phase, connecting, timeline,
                   pending, fetches, owed, faults>>

-----------------------------------------------------------------------------
(* Command center: fetches.                                                *)

\* Mutant: nothing is polled between two attempts to connect.
OfflineOnly == phase = "offline"

NotLive == phase # "live"

Poll(k) ==
    /\ NotLive /\ k # "separate"
    /\ Cardinality({f \in fetches : f.kind = k}) < MaxFetches
    /\ fetches' = fetches \cup {Ask(k)}
    /\ UNCHANGED <<commits, unsent, stream, shown, owed, faults>>

Read(f) ==
    /\ f \in fetches /\ f.read = Asked
    /\ fetches' = (fetches \ {f}) \cup {[f EXCEPT !.read = commits]}
    /\ UNCHANGED <<commits, unsent, stream, shown, owed, faults>>

\* Mutant: the bundle's events replace the ones that are shown.
MergedReplaces(events, incoming) == incoming

Merged(events, incoming) == events \cup incoming

Answered(f) == f \in fetches /\ f.read # Asked /\ fetches' = fetches \ {f}

ApplyPending(f) ==
    /\ Answered(f) /\ f.kind = "pending"
    /\ pending' = f.read
    /\ UNCHANGED <<commits, unsent, stream, timeline, mission, owed, faults>>

ApplyBundle(f) ==
    /\ Answered(f) /\ f.kind = "bundle"
    /\ mission' = f.read
    /\ timeline' = Merged(timeline, 1..f.read)
    /\ UNCHANGED <<commits, unsent, stream, pending, owed, faults>>

\* The two GETs instead of a bundle that failed replace the list of events.
ApplySeparate(f) ==
    /\ Answered(f) /\ f.kind = "separate"
    /\ mission' = f.read
    /\ timeline' = 1..f.read
    /\ owed' = owed \ (timeline \ timeline')
    /\ UNCHANGED <<commits, unsent, stream, pending, faults>>

FailFetch(f) ==
    /\ f \in fetches /\ faults < MaxFaults
    /\ faults' = faults + 1
    /\ fetches' = (fetches \ {f}) \cup IF f.kind = "bundle" THEN {Ask("separate")} ELSE {}
    /\ UNCHANGED <<commits, unsent, stream, shown, owed>>

-----------------------------------------------------------------------------
Apply(f) == ApplyPending(f) \/ ApplyBundle(f) \/ ApplySeparate(f)
Receive == ReceiveEvent \/ ReceiveMission

Next ==
    \/ Commit \/ \E n \in Commits : Broadcast(n)
    \/ Subscribe \/ Pump
    \/ Connect \/ Open \/ Disconnect \/ Receive
    \/ \E k \in Kinds : Poll(k)
    \/ \E f \in Fetch : Read(f) \/ Apply(f) \/ FailFetch(f)

Spec == Init /\ [][Next]_vars

ReadOf(k) == Read(Ask(k))
ApplyOf(k) == \E n \in Commits : Apply([kind |-> k, read |-> n])

\* The event loops go on: sessions broadcast, the pump and the reader run,
\* timers fire, requests that do not fail are answered.  MaxFetches can keep a
\* timer from its turn now and then, hence the strong fairness.  Nothing makes
\* an attempt to connect succeed.
FairSpec ==
    /\ Spec
    /\ \A n \in Commits : WF_vars(Broadcast(n))
    /\ WF_vars(Pump) /\ WF_vars(Receive)
    /\ \A k \in {"pending", "bundle"} :
            SF_vars(Poll(k)) /\ WF_vars(ReadOf(k)) /\ WF_vars(ApplyOf(k))

-----------------------------------------------------------------------------
(* Properties.                                                             *)

\* The type of the state, with the bounds of the queues.
TypeOK ==
    /\ commits \in Commits /\ unsent \subseteq Commits /\ owed \subseteq Commits
    /\ queue \in Seq(Message) /\ Len(queue) =< QueueSize
    /\ bridge \in Seq(Message) /\ Len(bridge) =< BridgeSize + 1
    /\ subscribed \in BOOLEAN /\ connecting \in BOOLEAN
    /\ phase \in {"offline", "reconnecting", "live"}
    /\ timeline \subseteq Commits /\ mission \in 0..MaxCommits /\ pending \in 0..MaxCommits
    /\ fetches \subseteq Fetch /\ faults \in 0..MaxFaults

\* An event that was given to the open stream is shown or still on its way,
\* whatever is fetched in between, unless the full queue dropped it or the
\* answer that stands in for a failed bundle put an older list over it
\* (hydrateMissionBundle merges; RealtimeHub.broadcast, appendEvent).
TimelineComplete == owed \subseteq timeline \cup EventsIn(queue \o bridge)

\* An event on its way is shown in the end, or the stream breaks off, however
\* sessions overtake each other and fetches are answered late.
EventShown ==
    \A n \in Commits : n \in owed ~> n \in timeline \/ n \notin owed

Aligned == timeline = 1..commits /\ mission = commits /\ pending = commits

\* While the stream stays down, polling brings the page to the committed state
\* for good, although answers come late and out of order
\* (docs/REALTIME_UPDATES.md:71).
OfflineConverges == <>[](phase # "live") => <>[]Aligned

\* Nothing is on the way to a client whose stream is live.
Quiet ==
    /\ phase = "live" /\ subscribed
    /\ queue = <<>> /\ bridge = <<>> /\ fetches = {} /\ unsent = {}

\* Refuted.  docs/REALTIME_UPDATES.md:33: the page takes one bundle, "then
\* relies on SSE + targeted approval/receipt refresh (debounced) so the UI
\* stays aligned".
StaysAligned == Quiet => timeline = 1..commits
=============================================================================

------------------------- MODULE LiveUpdatesProofs -------------------------
(***************************************************************************)
(* What the stream and the fetches of LiveUpdates keep, for every size of  *)
(* the queue and the bridge and any number of commits and failures.        *)
(***************************************************************************)
EXTENDS LiveUpdates, TLAPS

\* The events in a sequence of messages, by position.
LEMMA EventsAt ==
    ASSUME NEW s \in Seq(Message), NEW n
    PROVE  n \in EventsIn(s) <=>
               \E i \in 1..Len(s) : s[i].type = "mission_event" /\ s[i].version = n
BY DEF EventsIn, ToSet

\* Nothing is in an empty sequence.
LEMMA EventsNone == EventsIn(<<>>) = {}
BY DEF EventsIn, ToSet

\* Taking the first message out takes at most its event out.
LEMMA EventsTaken ==
    ASSUME NEW s \in Seq(Message), s # <<>>
    PROVE  /\ Head(s) \in Message /\ Tail(s) \in Seq(Message)
           /\ Len(Tail(s)) = Len(s) - 1
           /\ \A n \in EventsIn(s) :
                  \/ n \in EventsIn(Tail(s))
                  \/ Head(s).type = "mission_event" /\ n = Head(s).version
<1>1. /\ Head(s) \in Message /\ Tail(s) \in Seq(Message)
      /\ Len(Tail(s)) = Len(s) - 1 /\ Len(s) \in Nat /\ Len(s) > 0
  OBVIOUS
<1>2. ASSUME NEW n \in EventsIn(s), ~(Head(s).type = "mission_event" /\ n = Head(s).version)
      PROVE  n \in EventsIn(Tail(s))
  <2>1. PICK i \in 1..Len(s) : s[i].type = "mission_event" /\ s[i].version = n
    BY <1>2, EventsAt
  <2>2. i # 1
    BY <2>1, <1>2
  <2>3. i - 1 \in 1..Len(Tail(s)) /\ Tail(s)[i - 1] = s[i]
    BY <2>2, <1>1
  <2> QED BY <2>1, <2>3, <1>1, EventsAt
<1> QED BY <1>1, <1>2

\* What keeps every message of a sequence, at some place, keeps its events.
LEMMA EventsCarried ==
    ASSUME NEW s \in Seq(Message), NEW t \in Seq(Message),
           \A i \in 1..Len(s) : \E j \in 1..Len(t) : t[j] = s[i]
    PROVE  EventsIn(s) \subseteq EventsIn(t)
<1> SUFFICES ASSUME NEW n \in EventsIn(s) PROVE n \in EventsIn(t)
  OBVIOUS
<1>1. PICK i \in 1..Len(s) : s[i].type = "mission_event" /\ s[i].version = n
  BY EventsAt
<1>2. PICK j \in 1..Len(t) : t[j] = s[i]
  OBVIOUS
<1> QED BY <1>1, <1>2, EventsAt

\* Appending adds the message's event and keeps the others.
LEMMA EventsAppended ==
    ASSUME NEW s \in Seq(Message), NEW m \in Message
    PROVE  /\ Append(s, m) \in Seq(Message) /\ Len(Append(s, m)) = Len(s) + 1
           /\ EventsIn(s) \subseteq EventsIn(Append(s, m))
           /\ m.type = "mission_event" => m.version \in EventsIn(Append(s, m))
<1>1. PICK t : t = Append(s, m)
  OBVIOUS
<1>2. /\ t \in Seq(Message) /\ Len(t) = Len(s) + 1
      /\ Len(s) \in Nat /\ t[Len(s) + 1] = m
      /\ \A i \in 1..Len(s) : t[i] = s[i]
  BY <1>1
<1>3. EventsIn(s) \subseteq EventsIn(t)
  <2>1. \A i \in 1..Len(s) : i \in 1..Len(t)
    BY <1>2
  <2> QED BY <1>2, <2>1, EventsCarried
<1>4. ASSUME m.type = "mission_event" PROVE m.version \in EventsIn(t)
  <2>1. Len(s) + 1 \in 1..Len(t)
    BY <1>2
  <2> QED BY <1>2, <1>4, <2>1, EventsAt
<1> QED BY <1>1, <1>2, <1>3, <1>4

\* Two sequences one behind the other hold the events of both.
LEMMA EventsJoined ==
    ASSUME NEW s \in Seq(Message), NEW t \in Seq(Message)
    PROVE  /\ s \o t \in Seq(Message)
           /\ EventsIn(s \o t) = EventsIn(s) \cup EventsIn(t)
<1>1. PICK u : u = s \o t
  OBVIOUS
<1>2. /\ u \in Seq(Message) /\ Len(u) = Len(s) + Len(t)
      /\ Len(s) \in Nat /\ Len(t) \in Nat
      /\ \A i \in 1..Len(s) : u[i] = s[i]
      /\ \A i \in 1..Len(t) : u[Len(s) + i] = t[i]
  BY <1>1
<1>3. EventsIn(s) \subseteq EventsIn(u)
  <2>1. \A i \in 1..Len(s) : i \in 1..Len(u)
    BY <1>2
  <2> QED BY <1>2, <2>1, EventsCarried
<1>4. EventsIn(t) \subseteq EventsIn(u)
  <2>1. \A i \in 1..Len(t) : Len(s) + i \in 1..Len(u)
    BY <1>2
  <2> QED BY <1>2, <2>1, EventsCarried
<1>5. ASSUME NEW n \in EventsIn(u) PROVE n \in EventsIn(s) \cup EventsIn(t)
  <2>1. PICK i \in 1..Len(u) : u[i].type = "mission_event" /\ u[i].version = n
    BY <1>2, EventsAt
  <2>2. CASE i =< Len(s)
    <3>1. i \in 1..Len(s) /\ u[i] = s[i]
      BY <2>2, <1>2
    <3> QED BY <3>1, <2>1, EventsAt
  <2>3. CASE i > Len(s)
    <3>1. i - Len(s) \in 1..Len(t) /\ u[i] = t[i - Len(s)]
      BY <2>3, <1>2
    <3> QED BY <3>1, <2>1, EventsAt
  <2> QED BY <2>2, <2>3, <1>2
<1> QED BY <1>1, <1>2, <1>3, <1>4, <1>5

\* A queue that gave up its oldest messages is a queue within its bound.
LEMMA WithinBound ==
    ASSUME NEW s \in Seq(Message)
    PROVE  Within(s) \in Seq(Message) /\ Len(Within(s)) =< QueueSize
<1> USE LiveUpdatesAssumption
<1>1. Len(s) \in Nat /\ QueueSize \in Nat \ {0}
  OBVIOUS
<1>2. CASE Len(s) =< QueueSize
  BY <1>2 DEF Within
<1>3. CASE ~(Len(s) =< QueueSize)
  <2>1. Within(s) = SubSeq(s, Len(s) - QueueSize + 1, Len(s))
    BY <1>3 DEF Within
  <2>2. Len(s) - QueueSize + 1 \in 1..Len(s)
    BY <1>1, <1>3
  <2>3. Len(SubSeq(s, Len(s) - QueueSize + 1, Len(s))) = QueueSize
    BY <1>1, <2>2
  <2>4. SubSeq(s, Len(s) - QueueSize + 1, Len(s)) \in Seq(Message)
    BY <1>1, <2>2
  <2> QED BY <2>1, <2>3, <2>4, <1>1
<1> QED BY <1>2, <1>3

\* The two messages of a commit.
LEMMA MessagesFit ==
    ASSUME NEW n \in Commits
    PROVE  MessagesOf(n) \in Seq(Message) /\ n \in EventsIn(MessagesOf(n))
<1>1. MessagesOf(n) \in Seq(Message)
  BY DEF MessagesOf, Message
<1>2. /\ 1 \in 1..Len(MessagesOf(n))
      /\ MessagesOf(n)[1].type = "mission_event" /\ MessagesOf(n)[1].version = n
  BY DEF MessagesOf
<1> QED BY <1>1, <1>2, EventsAt

-----------------------------------------------------------------------------
(* What is shown, or on its way.                                           *)

\* The same in one place: in the two sequences, without joining them.
OnTheWay == EventsIn(queue) \cup EventsIn(bridge)
CompleteInv == owed \subseteq timeline \cup OnTheWay

Inv == TypeOK /\ CompleteInv

LEMMA Initially == Init => Inv
<1> SUFFICES ASSUME Init PROVE Inv
  OBVIOUS
<1> USE LiveUpdatesAssumption DEF Init
<1>1. 1 \in Commits /\ 0 \in 0..MaxCommits /\ 0 \in 0..MaxFaults
  BY DEF Commits
<1>2. {Ask("pending"), Ask("bundle")} \subseteq Fetch
  BY DEF Ask, Asked, Fetch, Kinds
<1>3. queue \in Seq(Message) /\ Len(queue) = 0 /\ bridge \in Seq(Message) /\ Len(bridge) = 0
  OBVIOUS
<1>4. /\ 0 =< QueueSize /\ 0 =< BridgeSize + 1
      /\ subscribed \in BOOLEAN /\ connecting \in BOOLEAN
  <2>1. QueueSize \in Nat /\ BridgeSize \in Nat
    OBVIOUS
  <2>2. 0 =< QueueSize /\ 0 =< BridgeSize + 1
    BY <2>1, SMT
  <2>3. subscribed \in BOOLEAN /\ connecting \in BOOLEAN
    OBVIOUS
  <2> QED BY <2>2, <2>3
<1>5. commits \in Commits /\ unsent \subseteq Commits /\ owed \subseteq Commits /\ timeline \subseteq Commits
  BY <1>1
<1>6. mission \in 0..MaxCommits /\ pending \in 0..MaxCommits /\ faults \in 0..MaxFaults
  BY <1>1
<1>7. fetches \subseteq Fetch /\ phase \in {"offline", "reconnecting", "live"}
  BY <1>2
<1> HIDE DEF Init
<1>8. TypeOK
  BY <1>3, <1>4, <1>5, <1>6, <1>7 DEF TypeOK
<1>9. CompleteInv
  BY DEF CompleteInv, Init
<1> QED BY <1>8, <1>9 DEF Inv

\* A commit adds a version; its session has yet to tell.
LEMMA CommitKeeps == Inv /\ Commit => Inv'
<1> SUFFICES ASSUME Inv, Commit PROVE Inv'
  OBVIOUS
<1> USE LiveUpdatesAssumption DEF Inv, Commit
<1>1. commits' \in Commits
  BY DEF TypeOK, Commits
<1>2. TypeOK'
  BY <1>1 DEF TypeOK, stream, shown
<1>3. CompleteInv'
  BY DEF CompleteInv, OnTheWay, stream, shown
<1> QED BY <1>2, <1>3

\* What a broadcast pushes out of the queue is owed no more.
LEMMA BroadcastKeeps == ASSUME NEW n \in Commits PROVE Inv /\ Broadcast(n) => Inv'
<1> SUFFICES ASSUME Inv, Broadcast(n) PROVE Inv'
  OBVIOUS
<1> USE LiveUpdatesAssumption DEF Inv, Broadcast
<1>1. CASE ~subscribed
  <2>1. TypeOK'
    BY <1>1 DEF TypeOK, shown
  <2>2. CompleteInv'
    BY <1>1 DEF CompleteInv, OnTheWay, shown
  <2> QED BY <2>1, <2>2
<1>2. CASE subscribed
  <2>1. PICK all : all = queue \o MessagesOf(n)
    OBVIOUS
  <2>2. /\ queue' = Within(all)
        /\ owed' = (owed \cup {n}) \ (EventsIn(all) \ EventsIn(Within(all)))
    BY <1>2, <2>1
  <2>3. all \in Seq(Message) /\ EventsIn(queue) \subseteq EventsIn(all) /\ n \in EventsIn(all)
    BY <2>1, MessagesFit, EventsJoined DEF TypeOK
  <2>4. queue' \in Seq(Message) /\ Len(queue') =< QueueSize
    BY <2>2, <2>3, WithinBound
  <2>5. owed' \subseteq Commits
    BY <2>2 DEF TypeOK
  <2>6. TypeOK'
    BY <2>4, <2>5 DEF TypeOK, shown
  <2>7. EventsIn(queue') = EventsIn(Within(all)) /\ EventsIn(bridge') = EventsIn(bridge)
        /\ timeline' = timeline
    BY <2>2 DEF shown
  <2>8. CompleteInv'
    BY <2>2, <2>3, <2>7 DEF CompleteInv, OnTheWay
  <2> QED BY <2>6, <2>8
<1> QED BY <1>1, <1>2

\* The pump takes a message from one sequence to the other.
LEMMA PumpKeeps == Inv /\ Pump => Inv'
<1> SUFFICES ASSUME Inv, Pump PROVE Inv'
  OBVIOUS
<1> USE LiveUpdatesAssumption DEF Inv, Pump
<1>1. /\ Head(queue) \in Message /\ queue' \in Seq(Message) /\ Len(queue') = Len(queue) - 1
      /\ \A e \in EventsIn(queue) :
             \/ e \in EventsIn(queue')
             \/ Head(queue).type = "mission_event" /\ e = Head(queue).version
  BY EventsTaken DEF TypeOK
<1>2. /\ bridge' \in Seq(Message) /\ Len(bridge') = Len(bridge) + 1
      /\ EventsIn(bridge) \subseteq EventsIn(bridge')
      /\ Head(queue).type = "mission_event" => Head(queue).version \in EventsIn(bridge')
  BY <1>1, EventsAppended DEF TypeOK
<1>3. Len(queue') =< QueueSize /\ Len(bridge') =< BridgeSize + 1
  BY <1>1, <1>2 DEF TypeOK
<1>4. TypeOK'
  BY <1>1, <1>2, <1>3 DEF TypeOK, shown
<1>5. CompleteInv'
  BY <1>1, <1>2 DEF CompleteInv, OnTheWay, shown
<1> QED BY <1>4, <1>5

\* The page appends an event it receives, and takes a snapshot over.
LEMMA ReceiveKeeps == Inv /\ Receive => Inv'
<1> SUFFICES ASSUME Inv, Receive PROVE Inv'
  OBVIOUS
<1> USE LiveUpdatesAssumption DEF Inv
<1>1. bridge # <<>> /\ bridge' = Tail(bridge)
  BY DEF Receive, ReceiveEvent, ReceiveMission
<1>2. /\ Head(bridge) \in Message /\ bridge' \in Seq(Message) /\ Len(bridge') = Len(bridge) - 1
      /\ \A e \in EventsIn(bridge) :
             \/ e \in EventsIn(bridge')
             \/ Head(bridge).type = "mission_event" /\ e = Head(bridge).version
  BY <1>1, EventsTaken DEF TypeOK
<1>3. Len(bridge') =< BridgeSize + 1 /\ Head(bridge).version \in Commits
  BY <1>2 DEF TypeOK, Message
<1>4. CASE ReceiveEvent
  <2>1. Ask("pending") \in Fetch
    BY DEF Ask, Asked, Fetch, Kinds
  <2>2. timeline' = timeline \cup {Head(bridge).version}
    BY <1>4 DEF ReceiveEvent, Appended
  <2>3. fetches' \subseteq Fetch
    BY <1>4, <2>1 DEF ReceiveEvent, TypeOK
  <2>4. TypeOK'
    BY <1>2, <1>3, <1>4, <2>2, <2>3 DEF TypeOK, ReceiveEvent
  <2>5. CompleteInv'
    BY <1>2, <1>4, <2>2 DEF CompleteInv, OnTheWay, ReceiveEvent
  <2> QED BY <2>4, <2>5
<1>5. CASE ReceiveMission
  <2>1. mission' \in 0..MaxCommits
    BY <1>3, <1>5 DEF ReceiveMission, Commits
  <2>2. TypeOK'
    BY <1>2, <1>3, <1>5, <2>1 DEF TypeOK, ReceiveMission
  <2>3. Head(bridge).type # "mission_event"
    BY <1>5 DEF ReceiveMission
  <2>4. CompleteInv'
    BY <1>2, <1>5, <2>3 DEF CompleteInv, OnTheWay, ReceiveMission
  <2> QED BY <2>2, <2>4
<1> QED BY <1>4, <1>5 DEF Receive

\* Subscribing, connecting and breaking off: what was owed goes with the stream.
LEMMA StreamKeeps == Inv /\ (Subscribe \/ Connect \/ Open \/ Disconnect) => Inv'
<1> SUFFICES ASSUME Inv, Subscribe \/ Connect \/ Open \/ Disconnect PROVE Inv'
  OBVIOUS
<1> USE LiveUpdatesAssumption DEF Inv
<1>1. CASE Subscribe \/ Connect \/ Open
  <2>1. TypeOK'
    BY <1>1 DEF TypeOK, Subscribe, Connect, Open, shown
  <2>2. CompleteInv'
    BY <1>1 DEF CompleteInv, OnTheWay, Subscribe, Connect, Open, shown
  <2> QED BY <2>1, <2>2
<1>2. CASE Disconnect
  <2>1. queue' = <<>> /\ bridge' = <<>> /\ owed' = {}
    BY <1>2 DEF Disconnect
  <2>2. queue' \in Seq(Message) /\ Len(queue') = 0 /\ bridge' \in Seq(Message) /\ Len(bridge') = 0
    BY <2>1
  <2>3. faults' \in 0..MaxFaults
    BY <1>2 DEF Disconnect, TypeOK
  <2>4. Len(queue') =< QueueSize /\ Len(bridge') =< BridgeSize + 1
    BY <2>2
  <2>5. subscribed' = FALSE /\ connecting' = FALSE /\ phase' = "reconnecting"
    BY <1>2 DEF Disconnect
  <2>6. /\ commits' \in Commits /\ unsent' \subseteq Commits /\ owed' \subseteq Commits
        /\ timeline' \subseteq Commits /\ mission' \in 0..MaxCommits /\ pending' \in 0..MaxCommits
        /\ fetches' \subseteq Fetch
    BY <1>2, <2>1 DEF Disconnect, shown, TypeOK
  <2>7. TypeOK'
    BY <2>2, <2>3, <2>4, <2>5, <2>6 DEF TypeOK
  <2>8. CompleteInv'
    BY <2>1 DEF CompleteInv
  <2> QED BY <2>7, <2>8
<1> QED BY <1>1, <1>2

\* Asking and reading show nothing.
LEMMA FetchKeeps ==
    ASSUME NEW k \in Kinds, NEW f \in Fetch
    PROVE  Inv /\ (Poll(k) \/ Read(f) \/ FailFetch(f)) => Inv'
<1> SUFFICES ASSUME Inv, Poll(k) \/ Read(f) \/ FailFetch(f) PROVE Inv'
  OBVIOUS
<1> USE LiveUpdatesAssumption DEF Inv
<1>1. Ask(k) \in Fetch /\ Ask("separate") \in Fetch
  BY DEF Ask, Asked, Fetch, Kinds
<1>2. [f EXCEPT !.read = commits] \in Fetch
  BY DEF Fetch, TypeOK, Commits
<1>3. fetches' \subseteq Fetch
  BY <1>1, <1>2 DEF TypeOK, Poll, Read, FailFetch
<1>4. faults' \in 0..MaxFaults
  BY DEF TypeOK, Poll, Read, FailFetch
<1>5. UNCHANGED <<commits, unsent, stream, shown, owed>>
  BY DEF Poll, Read, FailFetch
<1>6. TypeOK'
  BY <1>3, <1>4, <1>5 DEF TypeOK, stream, shown
<1>7. CompleteInv'
  BY <1>5 DEF CompleteInv, OnTheWay, stream, shown
<1> QED BY <1>6, <1>7

\* A bundle is merged into what is shown; the list that stands in for one is put
\* over it, which takes what it lacks from what is owed.
LEMMA ApplyKeeps == ASSUME NEW f \in Fetch PROVE Inv /\ Apply(f) => Inv'
<1> SUFFICES ASSUME Inv, Apply(f) PROVE Inv'
  OBVIOUS
<1> USE LiveUpdatesAssumption DEF Inv
<1>1. f.read \in 0..MaxCommits /\ 1..f.read \subseteq Commits
  BY DEF Fetch, Commits
<1>2. fetches' \subseteq Fetch
  BY DEF Apply, ApplyPending, ApplyBundle, ApplySeparate, Answered, TypeOK
<1>3. /\ timeline' \subseteq Commits /\ mission' \in 0..MaxCommits /\ pending' \in 0..MaxCommits
      /\ owed' \subseteq Commits
  BY <1>1 DEF Apply, ApplyPending, ApplyBundle, ApplySeparate, Merged, TypeOK
<1>4. UNCHANGED <<commits, unsent, stream, faults>>
  BY DEF Apply, ApplyPending, ApplyBundle, ApplySeparate
<1>5. TypeOK'
  BY <1>2, <1>3, <1>4 DEF TypeOK, stream
<1>6. owed' \subseteq owed /\ \A e \in owed' : e \in timeline => e \in timeline'
  BY DEF Apply, ApplyPending, ApplyBundle, ApplySeparate, Merged
<1>7. CompleteInv'
  BY <1>4, <1>6 DEF CompleteInv, OnTheWay, stream
<1> QED BY <1>5, <1>7

LEMMA InvHolds == Spec => []Inv
<1>1. Inv /\ [Next]_vars => Inv'
  <2> SUFFICES ASSUME Inv, [Next]_vars PROVE Inv'
    OBVIOUS
  <2>1. CASE UNCHANGED vars
    <3>1. TypeOK'
      BY <2>1 DEF Inv, TypeOK, vars
    <3>2. CompleteInv'
      BY <2>1 DEF Inv, CompleteInv, OnTheWay, vars
    <3> QED BY <3>1, <3>2 DEF Inv
  <2>2. CASE Commit
    BY <2>2, CommitKeeps
  <2>3. CASE \E n \in Commits : Broadcast(n)
    BY <2>3, BroadcastKeeps
  <2>4. CASE Pump
    BY <2>4, PumpKeeps
  <2>5. CASE Subscribe \/ Connect \/ Open \/ Disconnect
    BY <2>5, StreamKeeps
  <2>6. CASE Receive
    BY <2>6, ReceiveKeeps
  <2>7. CASE \E k \in Kinds : Poll(k)
    <3>1. Ask("pending") \in Fetch
      BY LiveUpdatesAssumption DEF Ask, Asked, Fetch, Kinds
    <3> QED BY <2>7, <3>1, FetchKeeps
  <2>8. CASE \E f \in Fetch : Read(f) \/ FailFetch(f)
    <3>1. "pending" \in Kinds
      BY DEF Kinds
    <3> QED BY <2>8, <3>1, FetchKeeps
  <2>9. CASE \E f \in Fetch : Apply(f)
    BY <2>9, ApplyKeeps
  <2> QED BY <2>1, <2>2, <2>3, <2>4, <2>5, <2>6, <2>7, <2>8, <2>9 DEF Next
<1> QED BY <1>1, Initially, PTL DEF Spec

-----------------------------------------------------------------------------
(* The results.                                                            *)

\* The state keeps its type; the hub's queue and the bridge keep their bounds,
\* however much is committed and however slowly it is read (RealtimeHub.broadcast,
\* sse_mission_updates_stream).
THEOREM TypeCorrect == Spec => []TypeOK
<1>1. Inv => TypeOK
  BY DEF Inv
<1> QED BY <1>1, InvHolds, PTL

\* An event given to the open stream is shown or on its way, for every size of the
\* queue, unless the full queue dropped it or an older list was put over it
\* (appendEvent, hydrateMissionBundle, bootstrapMission).
THEOREM NothingMissed == Spec => []TimelineComplete
<1>1. Inv => TimelineComplete
  BY EventsJoined DEF Inv, TypeOK, CompleteInv, OnTheWay, TimelineComplete
<1> QED BY <1>1, InvHolds, PTL
=============================================================================

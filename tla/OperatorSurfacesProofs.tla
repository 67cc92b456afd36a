------------------------ MODULE OperatorSurfacesProofs ------------------------
(***************************************************************************)
(* Proofs about OperatorSurfaces, for any approvals, findings, missions,   *)
(* webhooks and kinds of draft: type correctness, that the answers of the  *)
(* voice and of the text messages are true, that what is decided or        *)
(* triaged by voice is what was told last unless the focus went astray,    *)
(* and that what is requested by voice is as it was read back.             *)
(***************************************************************************)
EXTENDS OperatorSurfaces, TLAPS, FiniteSetTheorems, WellFoundedInduction

\* The statuses of an approval that has been decided.
Settled == {"approved", "denied"}

Labels ==
    {"closed", "listening", "heard", "inbox", "triage", "reload", "briefing", "detail",
     "draft", "dictation", "submit", "approvals-or-intake", "approvals", "pending",
     "bundle", "decide", "refresh", "answer"}

\* The labels of the approval dialogue, and where it is chosen.
OfApprovals ==
    {"approvals-or-intake", "approvals", "pending", "bundle", "decide", "refresh"}

KindNames == {"gh_issue", "gh_pr", "gh_merge", "gm_draft", "gm_send", "gm_reply"}
FieldsOf(kind) == Range(GD!CatalogFields[kind]) \cup Range(GD!LegacyFields[kind])

-----------------------------------------------------------------------------
(* The inductive invariant, by what it is about.                           *)

\* A decision on record and the status of its approval go together.
ControlInv ==
    /\ approval \in [Approvals -> {"absent", "pending"} \cup Settled]
    /\ \A event \in decided :
            event.approval \in Approvals /\ approval[event.approval] \in Settled
    /\ \A a \in Approvals : approval[a] \in Settled => Sms!Decided(a)

ArrivalInv == arrival \in Seq(Inbox!Keys)

TurnShape ==
    /\ turn = [at |-> turn.at, said |-> turn.said, target |-> turn.target,
               list |-> turn.list, answer |-> turn.answer]
    /\ turn.said = [phrase |-> turn.said.phrase, of |-> turn.said.of]
    /\ turn.answer = [kind |-> turn.answer.kind, of |-> turn.answer.of]

\* An utterance names something of its kind, and a dialogue hears only its phrases.
TurnInv ==
    /\ TurnShape /\ turn.at \in Labels
    /\ Saying(VA!ById) => turn.said.of \in Approvals
    /\ Saying(GD!Starts) => turn.said.of \in Kinds
    /\ turn.at \in {"inbox", "triage", "reload"} => Saying(VI!InboxPhrases)
    /\ At("detail") => Saying(VB!BriefingPhrases)
    /\ turn.at \in OfApprovals \ {"approvals-or-intake"} => Saying(VA!ApprovalPhrases)
    /\ At("pending") => ~Saying(VA!It \cup VA!Bare)
    /\ At("refresh") => Saying(VA!It)

QueueInv ==
    /\ queue \in Seq(Approvals) /\ cursor \in Nat
    /\ queue # <<>> => cursor < Len(queue)

ItemsInv ==
    /\ items \in Seq(Inbox!Keys) /\ spot \in Nat
    /\ items # <<>> => spot < Len(items)

RankedInv ==
    /\ ranked \in Seq(Missions) /\ place \in Nat
    /\ ranked # <<>> => place < Len(ranked)
    /\ ranked = <<>> => place = 0

\* What is read or decided is an approval; by id, one of the list it was found in,
\* which is in the order of the requests.
Rising(list) == \A i, j \in DOMAIN list : i < j => list[i] < list[j]

TargetInv ==
    turn.at \in {"bundle", "decide", "refresh"} =>
        /\ \E a \in Approvals : turn.target = <<a>>
        /\ Saying(VA!ById) => turn.list \in Seq(Approvals) /\ Rising(turn.list)
                              /\ turn.target[1] \in Range(turn.list)

DraftInv ==
    /\ draft = [kind |-> draft.kind, fields |-> draft.fields, step |-> draft.step]
    /\ draft.step \in {"none", "collect", "confirm"}
    /\ draft.step = "none" <=> draft = GD!NoDraft
    /\ draft # GD!NoDraft => draft.kind \in KindNames
                             /\ DOMAIN draft.fields \subseteq FieldsOf(draft.kind)
    /\ At("submit") => draft.step = "confirm" /\ Saying(GD!Confirming)
    /\ turn.at \in OfApprovals => draft = GD!NoDraft

StreamInv ==
    /\ updates \in Seq(Missions) /\ loop.last \in Nat /\ loop.last =< Len(updates)
    /\ loop = [at |-> loop.at, met |-> loop.met, last |-> loop.last]
    /\ owed \subseteq 1..Len(updates)

\* While a decision of the voice is on its way to the answer it is on record.
ClaimInv ==
    /\ At("refresh") => [approval |-> turn.target[1], decision |-> VA!Verdict(turn.said.phrase),
                         by |-> "voice"] \in decided
    /\ VA!VoiceDecisionClaimed

\* The reading of a draft, which is of every field of its summary.
Reading(d) == [spoken |-> GD!Spoken(d), posted |-> GD!Posted(d)]
Complete(d) == GD!Summarized[d.kind] \ {"merge_method"} \subseteq DOMAIN d.fields

\* A draft that waits to be confirmed has been read, unless its reading is the answer.
ReadbackInv ==
    draft.step = "confirm" =>
        /\ Complete(draft)
        /\ \/ /\ At("answer") /\ turn.answer.kind = "ready"
              /\ turn.answer.of = GD!Spoken(draft)
           \/ /\ Reading(draft) \in readback
              /\ At("answer") => turn.answer.kind \notin {"ready", "cancelled"}
                                 /\ ~Saying(GD!Confirming)

FirstOf(list) == IF list = <<>> THEN <<>> ELSE <<list[1]>>

\* The approval told last is in focus, if any is, unless the answer is to tell of
\* another or the focus went astray.
FocusInv ==
    /\ offered = [approval |-> offered.approval, item |-> offered.item,
                  inbox |-> offered.inbox, astray |-> offered.astray]
    /\ At("bundle") /\ ~Saying(VA!ById) => turn.target = VA!Focused
    /\ At("decide") /\ Saying(VA!It) => turn.target = VA!Focused
    /\ At("answer") /\ FocusTold(turn.answer) => FirstOf(turn.answer.of) = VA!Focused
    /\ \/ "approvals" \in offered.astray
       \/ offered.approval = VA!Focused
       \/ VA!Focused = <<>>
       \/ At("bundle") /\ Saying(VA!Readings)
       \/ At("answer") /\ (FocusTold(turn.answer) \/ FocusLost(turn.answer))

\* The inbox item told last is at the place, now as it was then, unless the answer
\* tells of another or the inbox went astray.
InPlace(item, inbox, list, at) ==
    /\ at + 1 \in DOMAIN inbox /\ inbox[at + 1] = item
    /\ at + 1 \in DOMAIN list /\ list[at + 1] = item

PlaceInv ==
    /\ At("triage") => turn.target = items[spot + 1]
    /\ At("answer") /\ turn.answer.kind = "item" =>
            items # <<>> /\ turn.answer.of = items[spot + 1]
    /\ At("answer") /\ turn.answer.kind = "items" =>
            items # <<>> /\ turn.answer.of[1] = items[spot + 1]
    /\ \/ "inbox" \in offered.astray
       \/ At("answer") /\ ItemTold(turn.answer)
       \/ InPlace(offered.item, offered.inbox, items, spot)

HookLabels ==
    {"idle", "token", "approval", "mark", "decide", "commit", "use", "done"}

Replies == {"none", "unknown", "not-pending", "details", "recorded", "error"}
Seen == {"none", "absent", "pending"} \cup Settled
Hooks ==
    [at : HookLabels, approval : Approvals \cup {0},
     verb : {"none", "APPROVE", "DENY", "READ"}, seen : Seen, late : BOOLEAN, answer : Replies]

\* What a webhook's decision is on record as.
Own(w, h) == [approval |-> h.approval, decision |-> Sms!Decision(h.verb), by |-> w]
DecidedIn(events, a) == \E event \in events : event.approval = a

\* A webhook that may still decide was early, and has read a pending approval;
\* what it has answered was so.
GoodHook(w, h, sent, events) ==
    /\ h \in Hooks
    /\ h.at # "idle" => h.approval \in sent /\ h.verb # "none"
    /\ h.at \in {"idle", "token", "approval", "mark", "decide", "commit"} =>
            h.answer = "none" /\ \A event \in events : event.by # w
    /\ h.late => DecidedIn(events, h.approval)
    /\ h.at = "mark" /\ h.seen # "pending" => DecidedIn(events, h.approval)
    /\ h.at = "mark" /\ h.late => h.seen # "pending"
    /\ h.at \in {"decide", "commit"} => ~h.late /\ h.verb \in {"APPROVE", "DENY"}
    /\ h.at = "use" => Own(w, h) \in events
    /\ h.answer = "recorded" => Own(w, h) \in events
    /\ h.answer = "not-pending" => DecidedIn(events, h.approval)
    /\ Own(w, h) \in events => ~h.late /\ h.verb # "READ"

SmsInv ==
    /\ notice \in [Approvals -> {"none", "queued", "send", "commit", "done"}]
    /\ texted \subseteq Approvals
    /\ \A a \in Approvals : notice[a] # "none" \/ a \in texted => approval[a] # "absent"
    /\ hook \in [Webhooks -> {hook[w] : w \in Webhooks}]
    /\ \A w \in Webhooks : GoodHook(w, hook[w], texted, decided)

IInv ==
    /\ ControlInv /\ ArrivalInv /\ TurnInv /\ QueueInv /\ ItemsInv /\ RankedInv
    /\ TargetInv /\ DraftInv /\ StreamInv /\ ClaimInv /\ ReadbackInv /\ FocusInv
    /\ PlaceInv /\ SmsInv

-----------------------------------------------------------------------------
(* What Kept keeps; by the least list for which it would be otherwise.     *)

\* The recursion of Kept, as far as n.
KeptEquation(f, list, set, n) ==
    f = [i \in 0..n |-> IF i = 0 THEN <<>>
                        ELSE IF list[i] \in set THEN Append(f[i - 1], list[i])
                        ELSE f[i - 1]]

LessThan == {p \in Nat \X Nat : p[1] < p[2]}

LEMMA LeastOf ==
  ASSUME NEW N, N \subseteq Nat, N # {}
  PROVE  \E n \in N : \A m \in N : n =< m
<1>1. IsWellFoundedOn(LessThan, Nat)
  BY NatLessThanWellFounded DEF OpToRel, LessThan
<1>2. \E n \in N : \A m \in N : <<m, n>> \notin LessThan
  BY <1>1, WFMin
<1>3. PICK n \in N : \A m \in N : <<m, n>> \notin LessThan
  BY <1>2
<1>4. \A m \in N : m \in Nat /\ n \in Nat /\ ~(m < n)
  BY <1>3 DEF LessThan
<1> QED BY <1>4

LEMMA KeptIsDefined ==
  ASSUME NEW list, NEW set, NEW n \in Nat
  PROVE  \E f : KeptEquation(f, list, set, n)
<1> DEFINE Undefined == {k \in Nat : ~\E f : KeptEquation(f, list, set, k)}
<1> SUFFICES ASSUME Undefined # {} PROVE FALSE
  OBVIOUS
<1>1. PICK k \in Undefined : \A m \in Undefined : k =< m
  BY LeastOf
<1>2. CASE k = 0
  <2> DEFINE f == [i \in 0..0 |-> <<>>]
  <2>1. KeptEquation(f, list, set, 0)
    BY DEF KeptEquation
  <2> QED BY <1>2, <2>1
<1>3. CASE k # 0
  <2>1. k - 1 \in Nat /\ k - 1 \notin Undefined
    BY <1>1, <1>3
  <2>2. PICK f : KeptEquation(f, list, set, k - 1)
    BY <2>1
  <2> DEFINE last == IF list[k] \in set THEN Append(f[k - 1], list[k]) ELSE f[k - 1]
             g == [i \in 0..k |-> IF i = k THEN last ELSE f[i]]
  <2>3. \A i \in 0..k : i # k => i \in 0..(k - 1) /\ g[i] = f[i]
    BY <2>1
  <2>4. \A i \in 0..k : i # 0 => i - 1 \in 0..k /\ i - 1 # k /\ g[i - 1] = f[i - 1]
    BY <2>1, <2>3
  <2>5. \A i \in 0..k : g[i] = IF i = 0 THEN <<>>
                               ELSE IF list[i] \in set THEN Append(g[i - 1], list[i])
                               ELSE g[i - 1]
    <3> SUFFICES ASSUME NEW i \in 0..k
                 PROVE g[i] = IF i = 0 THEN <<>>
                               ELSE IF list[i] \in set THEN Append(g[i - 1], list[i])
                               ELSE g[i - 1]
      OBVIOUS
    <3>1. CASE i = k
      <4>1. g[i] = last
        BY <3>1
      <4> HIDE DEF g
      <4> QED BY <3>1, <4>1, <2>4, <1>3
    <3>2. CASE i # k
      <4>1. i \in 0..(k - 1) /\ g[i] = f[i]
        BY <3>2, <2>3
      <4>2. i # 0 => g[i - 1] = f[i - 1]
        BY <2>4
      <4> HIDE DEF g
      <4> QED BY <4>1, <4>2, <2>2 DEF KeptEquation
    <3> QED BY <3>1, <3>2
  <2>6. g = [i \in 0..k |-> g[i]]
    OBVIOUS
  <2> HIDE DEF g
  <2>7. KeptEquation(g, list, set, k)
    BY <2>5, <2>6 DEF KeptEquation
  <2> QED BY <2>7
<1> QED BY <1>2, <1>3

\* What a solution has kept of the first i of the list.
KeptSoFar(f, list, set, S) ==
    \A i \in 0..Len(list) :
        /\ f[i] \in Seq(S \cap set)
        /\ Range(f[i]) = {list[j] : j \in 1..i} \cap set

LEMMA KeptOfPrefix ==
  ASSUME NEW S, NEW list \in Seq(S), NEW set, NEW f,
         KeptEquation(f, list, set, Len(list))
  PROVE  KeptSoFar(f, list, set, S)
<1> DEFINE Good(i) == /\ f[i] \in Seq(S \cap set)
                      /\ Range(f[i]) = {list[j] : j \in 1..i} \cap set
           Bad == {i \in 0..Len(list) : ~Good(i)}
<1> SUFFICES ASSUME Bad # {} PROVE FALSE
  BY DEF KeptSoFar
<1>0. Len(list) \in Nat /\ Bad \subseteq Nat
  OBVIOUS
<1>1. PICK k \in Bad : \A m \in Bad : k =< m
  <2> HIDE DEF Bad
  <2> QED BY <1>0, LeastOf
<1>2. CASE k = 0
  <2>1. f[0] = <<>>
    BY <1>0 DEF KeptEquation
  <2>2. f[0] \in Seq(S \cap set) /\ Range(f[0]) = {} /\ {list[j] : j \in 1..0} = {}
    BY <2>1 DEF Range
  <2> QED BY <1>1, <1>2, <2>2
<1>3. CASE k # 0
  <2>0. k \in 0..Len(list)
    BY <1>1
  <2>1. k - 1 \in 0..Len(list) /\ k \in 1..Len(list) /\ k - 1 \notin Bad
    <3>1. k - 1 \in 0..Len(list) /\ k \in 1..Len(list) /\ ~(k =< k - 1)
      BY <1>0, <1>3, <2>0
    <3> HIDE DEF Bad
    <3> QED BY <1>1, <3>1
  <2>2. Good(k - 1)
    BY <2>1, Zenon
  <2>3. list[k] \in S /\ (1..k) = (1..(k - 1)) \cup {k}
    BY <2>1
  <2>4. f[k] = IF list[k] \in set THEN Append(f[k - 1], list[k]) ELSE f[k - 1]
    BY <1>3, <2>1 DEF KeptEquation
  <2>5. CASE list[k] \in set
    <3>1. PICK t : t = f[k - 1]
      OBVIOUS
    <3>2. t \in Seq(S \cap set) /\ Range(t) = {list[j] : j \in 1..(k - 1)} \cap set
      BY <3>1, <2>2
    <3>3. PICK u : u = Append(t, list[k])
      OBVIOUS
    <3>4. u \in Seq(S \cap set)
      BY <3>2, <3>3, <2>3, <2>5
    <3>5. Range(u) = Range(t) \cup {list[k]}
      <4>1. PICK e : e = list[k]
        OBVIOUS
      <4>2. /\ Len(t) \in Nat /\ DOMAIN u = 1..(Len(t) + 1) /\ DOMAIN t = 1..Len(t)
            /\ u[Len(t) + 1] = e
            /\ \A i \in 1..Len(t) : u[i] = t[i]
        BY <3>2, <3>3, <2>3, <2>5, <4>1
      <4>3. Range(u) \subseteq Range(t) \cup {e}
        BY <4>2 DEF Range
      <4>4. Range(t) \subseteq Range(u) /\ e \in Range(u)
        BY <4>2 DEF Range
      <4> QED BY <4>1, <4>3, <4>4
    <3>6. f[k] = u
      BY <2>4, <2>5, <3>1, <3>3
    <3> QED BY <3>2, <3>4, <3>5, <3>6, <2>3, <2>5
  <2>6. CASE list[k] \notin set
    BY <2>2, <2>3, <2>4, <2>6
  <2> QED BY <2>5, <2>6
<1> QED BY <1>2, <1>3

LEMMA KeptIsAPart ==
  ASSUME NEW S, NEW list \in Seq(S), NEW set
  PROVE  /\ Kept(list, set) \in Seq(S \cap set)
         /\ Range(Kept(list, set)) = Range(list) \cap set
<1>0. Len(list) \in Nat /\ DOMAIN list = 1..Len(list)
  OBVIOUS
<1>1. PICK f : /\ KeptEquation(f, list, set, Len(list))
               /\ Kept(list, set) = f[Len(list)]
  <2>1. \E f : KeptEquation(f, list, set, Len(list))
    BY <1>0, KeptIsDefined
  <2> QED BY <2>1, Zenon DEF Kept, KeptEquation
<1>2. /\ f[Len(list)] \in Seq(S \cap set)
      /\ Range(f[Len(list)]) = {list[j] : j \in 1..Len(list)} \cap set
  <2>1. KeptSoFar(f, list, set, S)
    BY <1>1, KeptOfPrefix
  <2>2. Len(list) \in 0..Len(list)
    BY <1>0
  <2> QED BY <2>1, <2>2, Zenon DEF KeptSoFar
<1>3. Range(list) = {list[j] : j \in 1..Len(list)}
  BY <1>0 DEF Range
<1> QED BY <1>1, <1>2, <1>3, Zenon

\* What is kept of a rising list of numbers rises.
LEMMA KeptRises ==
  ASSUME NEW list \in Seq(Nat), NEW set, Rising(list)
  PROVE  Rising(Kept(list, set))
<1>0. Len(list) \in Nat /\ DOMAIN list = 1..Len(list)
  OBVIOUS
<1>1. PICK f : /\ KeptEquation(f, list, set, Len(list))
               /\ Kept(list, set) = f[Len(list)]
  <2>1. \E f : KeptEquation(f, list, set, Len(list))
    BY <1>0, KeptIsDefined
  <2> QED BY <2>1, Zenon DEF Kept, KeptEquation
<1>2. KeptSoFar(f, list, set, Nat)
  BY <1>1, KeptOfPrefix
<1> DEFINE Bad == {i \in 0..Len(list) : ~Rising(f[i])}
<1>3. CASE Bad = {}
  <2>1. Len(list) \in 0..Len(list)
    BY <1>0
  <2> QED BY <1>1, <1>3, <2>1
<1>4. CASE Bad # {}
  <2>1. PICK k \in Bad : \A m \in Bad : k =< m
    <3>1. Bad \subseteq Nat
      BY <1>0
    <3> HIDE DEF Bad
    <3> QED BY <1>4, <3>1, LeastOf
  <2>2. k \in 0..Len(list) /\ ~Rising(f[k])
    BY <2>1
  <2>3. k # 0
    <3>1. f[0] = <<>>
      BY <1>0, <1>1 DEF KeptEquation
    <3>2. Rising(f[0])
      BY <3>1 DEF Rising
    <3> QED BY <2>2, <3>2
  <2>4. k - 1 \in 0..Len(list) /\ k \in 1..Len(list) /\ ~(k =< k - 1)
    BY <1>0, <2>2, <2>3
  <2>5. Rising(f[k - 1])
    <3>1. k - 1 \notin Bad
      <4> HIDE DEF Bad
      <4> QED BY <2>1, <2>4
    <3> QED BY <2>4, <3>1
  <2>6. f[k] = IF list[k] \in set THEN Append(f[k - 1], list[k]) ELSE f[k - 1]
    BY <1>1, <2>2, <2>3 DEF KeptEquation
  <2>7. list[k] \in set /\ f[k] = Append(f[k - 1], list[k])
    BY <2>2, <2>5, <2>6
  <2>8. PICK t, e : t = f[k - 1] /\ e = list[k]
    OBVIOUS
  <2>9. /\ t \in Seq(Nat \cap set) /\ e \in Nat
        /\ Range(t) = {list[j] : j \in 1..(k - 1)} \cap set
    <3>1. /\ f[k - 1] \in Seq(Nat \cap set)
          /\ Range(f[k - 1]) = {list[j] : j \in 1..(k - 1)} \cap set
      BY <1>2, <2>4, Zenon DEF KeptSoFar
    <3>2. list[k] \in Nat
      BY <2>4
    <3> QED BY <2>8, <3>1, <3>2
  <2>10. \A x \in Range(t) : x \in Nat /\ x < e
    <3>1. \A j \in 1..(k - 1) : j \in DOMAIN list /\ k \in DOMAIN list /\ j < k
      BY <1>0, <2>4
    <3>2. \A j \in 1..(k - 1) : list[j] \in Nat /\ list[j] < e
      BY <1>0, <2>8, <3>1 DEF Rising
    <3> QED BY <2>9, <3>2
  <2>11. /\ Len(t) \in Nat /\ DOMAIN t = 1..Len(t)
         /\ \A i \in 1..Len(t) : t[i] \in Range(t)
    BY <2>9 DEF Range
  <2>12. PICK u : u = Append(t, e)
    OBVIOUS
  <2>13. /\ DOMAIN u = 1..(Len(t) + 1) /\ u[Len(t) + 1] = e
         /\ \A i \in 1..Len(t) : u[i] = t[i]
    BY <2>9, <2>12
  <2>14. Rising(u)
    <3> SUFFICES ASSUME NEW i \in DOMAIN u, NEW j \in DOMAIN u, i < j
                 PROVE  u[i] < u[j]
      BY DEF Rising
    <3>1. i \in 1..Len(t)
      BY <2>11, <2>13
    <3>2. CASE j = Len(t) + 1
      BY <2>10, <2>11, <2>13, <3>1, <3>2
    <3>3. CASE j # Len(t) + 1
      <4>1. j \in 1..Len(t)
        BY <2>11, <2>13, <3>3
      <4>2. t[i] < t[j]
        BY <2>5, <2>8, <2>11, <3>1, <4>1 DEF Rising
      <4> QED BY <2>13, <3>1, <4>1, <4>2
    <3> QED BY <3>2, <3>3
  <2> QED BY <2>2, <2>7, <2>8, <2>12, <2>14
<1> QED BY <1>3, <1>4
-----------------------------------------------------------------------------
(* The lists of the dialogues.                                             *)

\* The list of pending approvals is of them all and of nothing else.
LEMMA PendingList ==
  /\ VA!Pending \in Seq(Approvals)
  /\ Range(VA!Pending) = {a \in Approvals : approval[a] = "pending"}
<1> DEFINE order == [a \in Approvals |-> a]
           pending == {a \in Approvals : approval[a] = "pending"}
<1>1. order \in Seq(Approvals) /\ Range(order) = Approvals
  <2>1. PICK n \in Nat : Approvals = 1..n
    BY CountedAssumption, FS_CardinalityType
  <2>2. order = [i \in 1..n |-> i]
    BY <2>1
  <2> QED BY <2>1, <2>2 DEF Range
<1>2. VA!Pending = Kept(order, pending)
  BY Zenon DEF VA!Pending, VA!Kept, Kept
<1> HIDE DEF order, pending
<1>3. /\ Kept(order, pending) \in Seq(Approvals \cap pending)
      /\ Range(Kept(order, pending)) = Range(order) \cap pending
  BY <1>1, KeptIsAPart
<1>4. Approvals \cap pending = pending /\ pending \subseteq Approvals
  BY DEF pending
<1>5. PICK t : t = Kept(order, pending)
  OBVIOUS
<1>6. t \in Seq(pending) /\ Range(t) = pending
  BY <1>1, <1>3, <1>4, <1>5
<1>7. t \in Seq(Approvals)
  BY <1>4, <1>6
<1> QED BY <1>2, <1>5, <1>6, <1>7 DEF pending

\* It is in the order of the requests.
LEMMA PendingRises == Rising(VA!Pending)
<1> DEFINE order == [a \in Approvals |-> a]
           pending == {a \in Approvals : approval[a] = "pending"}
<1>1. order \in Seq(Nat) /\ Rising(order)
  <2>1. PICK n \in Nat : Approvals = 1..n
    BY CountedAssumption, FS_CardinalityType
  <2>2. order = [i \in 1..n |-> i]
    BY <2>1
  <2> QED BY <2>1, <2>2 DEF Rising
<1>2. VA!Pending = Kept(order, pending)
  BY Zenon DEF VA!Pending, VA!Kept, Kept
<1> HIDE DEF order, pending
<1> QED BY <1>1, <1>2, KeptRises

\* The open items are of the keys that ever had a cause.
LEMMA OpenList ==
  ASSUME ArrivalInv
  PROVE  VI!Inbox!OpenItems \in Seq(Inbox!Keys)
<1> DEFINE of(severity) == {k \in Inbox!Keys :
                                VI!Inbox!Open(k) /\ VI!Inbox!Severity(k) = severity}
<1>1. ASSUME NEW severity
      PROVE  Kept(arrival, of(severity)) \in Seq(Inbox!Keys)
  <2>1. PICK open : open = of(severity)
    OBVIOUS
  <2>2. Kept(arrival, open) \in Seq(Inbox!Keys \cap open)
    BY KeptIsAPart DEF ArrivalInv
  <2>3. PICK t : t = Kept(arrival, open)
    OBVIOUS
  <2>4. t \in Seq(Inbox!Keys)
    BY <2>2, <2>3
  <2> QED BY <2>1, <2>3, <2>4
<1>2. VI!Inbox!OpenItems = Kept(arrival, of("urgent")) \o Kept(arrival, of("attention"))
                               \o Kept(arrival, of("info"))
  BY Zenon DEF VI!Inbox!OpenItems, VI!Inbox!Kept, Kept, VI!Inbox!Keys, Inbox!Keys
<1> HIDE DEF of
<1> QED BY <1>1, <1>2

\* A member of a list has a place in it.
LEMMA PlaceInList ==
  ASSUME NEW list \in Seq(Approvals), NEW a \in Range(list)
  PROVE  VA!PlaceOf(list, a) \in Nat /\ VA!PlaceOf(list, a) < Len(list)
<1> DEFINE all == Range(list)
           before == {b \in all : b < a}
<1>1. Len(list) \in Nat /\ DOMAIN list = 1..Len(list)
  OBVIOUS
<1>2. IsFiniteSet(1..Len(list)) /\ Cardinality(1..Len(list)) = Len(list)
  BY <1>1, FS_Interval
<1>3. all = {list[i] : i \in 1..Len(list)} /\ all \subseteq Approvals
  BY <1>1 DEF Range
<1>4. IsFiniteSet(all) /\ Cardinality(all) =< Len(list)
  <2> DEFINE f == [i \in 1..Len(list) |-> list[i]]
  <2>1. f \in Surjection(1..Len(list), all)
    BY <1>3 DEF Surjection
  <2> HIDE DEF f, all
  <2> QED BY <1>2, <2>1, FS_Surjection
<1>5. a \in Nat
  <2>1. PICK n \in Nat : Approvals = 1..n
    BY CountedAssumption, FS_CardinalityType
  <2> QED BY <1>3, <2>1
<1>6. a \in all /\ a \notin before /\ before \subseteq all
  BY <1>5
<1>7. VA!PlaceOf(list, a) = Cardinality(before)
  <2>1. {b \in VA!Range(list) : b < a} = before
    BY DEF VA!Range, Range
  <2>2. VA!Cardinality(before) = Cardinality(before)
    BY Zenon DEF VA!Cardinality, Cardinality
  <2> QED BY <2>1, <2>2, Zenon DEF VA!PlaceOf
<1> HIDE DEF all, before
<1>8. before \in SUBSET all /\ before # all
  BY <1>6
<1>9. IsFiniteSet(before) /\ Cardinality(before) =< Cardinality(all)
      /\ Cardinality(before) # Cardinality(all)
  BY <1>4, <1>8, FS_Subset
<1>10. Cardinality(before) \in Nat /\ Cardinality(all) \in Nat
  BY <1>4, <1>9, FS_CardinalityType
<1> QED BY <1>1, <1>4, <1>7, <1>9, <1>10

\* In a rising list the place is that of the member.
LEMMA PlaceIsOf ==
  ASSUME NEW list \in Seq(Approvals), NEW a \in Range(list), Rising(list)
  PROVE  list[VA!PlaceOf(list, a) + 1] = a
<1> DEFINE before == {b \in Range(list) : b < a}
<1>1. Len(list) \in Nat /\ DOMAIN list = 1..Len(list)
  OBVIOUS
<1>2. PICK k \in 1..Len(list) : list[k] = a
  BY <1>1 DEF Range
<1>3. \A i \in 1..Len(list) : list[i] \in Nat
  <2>1. PICK n \in Nat : Approvals = 1..n
    BY CountedAssumption, FS_CardinalityType
  <2> QED BY <1>1, <2>1
<1>4. \A i \in 1..Len(list) : list[i] < a <=> i < k
  <2> SUFFICES ASSUME NEW i \in 1..Len(list) PROVE list[i] < a <=> i < k
    OBVIOUS
  <2>1. CASE i < k
    BY <1>1, <1>2, <2>1 DEF Rising
  <2>2. CASE i = k
    BY <1>2, <1>3, <2>2
  <2>3. CASE k < i
    <3>1. list[k] < list[i]
      BY <1>1, <2>3 DEF Rising
    <3> QED BY <1>2, <1>3, <2>3, <3>1
  <2> QED BY <1>1, <2>1, <2>2, <2>3
<1>5. k - 1 \in Nat /\ \A i \in 1..(k - 1) : i \in 1..Len(list) /\ i < k
  BY <1>1
<1>6. before = {list[i] : i \in 1..(k - 1)}
  <2>1. \A b \in before : \E i \in 1..(k - 1) : b = list[i]
    <3> SUFFICES ASSUME NEW b \in before PROVE \E i \in 1..(k - 1) : b = list[i]
      OBVIOUS
    <3>1. PICK i \in 1..Len(list) : b = list[i]
      BY <1>1 DEF Range
    <3>2. i < k
      BY <1>4, <3>1
    <3>3. i \in 1..(k - 1)
      BY <1>1, <3>1, <3>2
    <3> QED BY <3>1, <3>3
  <2>2. \A i \in 1..(k - 1) : list[i] \in before
    <3> SUFFICES ASSUME NEW i \in 1..(k - 1) PROVE list[i] \in before
      OBVIOUS
    <3>1. i \in 1..Len(list) /\ list[i] < a
      BY <1>4, <1>5
    <3> QED BY <1>1, <3>1 DEF Range
  <2> HIDE DEF before
  <2> QED BY <2>1, <2>2
<1>7. VA!PlaceOf(list, a) = Cardinality(before)
  <2>1. {b \in VA!Range(list) : b < a} = before
    BY DEF VA!Range, Range
  <2>2. VA!Cardinality(before) = Cardinality(before)
    BY Zenon DEF VA!Cardinality, Cardinality
  <2> QED BY <2>1, <2>2, Zenon DEF VA!PlaceOf
<1>8. IsFiniteSet(1..(k - 1)) /\ Cardinality(1..(k - 1)) = k - 1
  BY <1>5, FS_Interval
<1> HIDE DEF before
<1>9. Cardinality(before) = k - 1
  <2> DEFINE f == [i \in 1..(k - 1) |-> list[i]]
  <2>1. \A i, j \in 1..(k - 1) : list[i] = list[j] => i = j
    <3> SUFFICES ASSUME NEW i \in 1..(k - 1), NEW j \in 1..(k - 1), list[i] = list[j], i < j
                 PROVE  FALSE
      BY <1>5
    <3>1. list[i] < list[j]
      BY <1>1, <1>5 DEF Rising
    <3> QED BY <1>3, <1>5, <3>1
  <2>2. f \in [1..(k - 1) -> before]
    BY <1>6
  <2>3. f \in Bijection(1..(k - 1), before)
    <3>1. \A i \in 1..(k - 1) : f[i] = list[i]
      OBVIOUS
    <3> HIDE DEF f
    <3>2. f \in Surjection(1..(k - 1), before)
      BY <1>6, <2>2, <3>1 DEF Surjection
    <3>3. f \in Injection(1..(k - 1), before)
      BY <2>1, <2>2, <3>1 DEF Injection, IsInjective
    <3> QED BY <3>2, <3>3 DEF Bijection
  <2> HIDE DEF f
  <2>4. ExistsBijection(1..(k - 1), before)
    BY <2>3 DEF ExistsBijection
  <2>5. Cardinality(1..(k - 1)) = Cardinality(before)
    BY <1>8, <2>4, FS_Bijection
  <2> QED BY <1>8, <2>5
<1> QED BY <1>1, <1>2, <1>7, <1>9

\* A ranking is a list of missions.
LEMMA RankedList ==
  ASSUME NEW list \in VB!Rankings
  PROVE  list \in Seq(Missions)
<1> DEFINE known == {m \in Missions : mission[m] # "none"}
<1>1. list \in VB!Bijection(1..VB!Cardinality(known), known)
  BY Zenon DEF VB!Rankings
<1>2. list \in [1..Cardinality(known) -> known]
  <2>1. VB!Cardinality(known) = Cardinality(known)
    BY Zenon DEF VB!Cardinality, Cardinality
  <2> HIDE DEF known
  <2>2. list \in VB!Injection(1..VB!Cardinality(known), known)
    BY <1>1, Zenon DEF VB!Bijection
  <2> QED BY <2>1, <2>2, Zenon DEF VB!Injection
<1>3. known \subseteq Missions
  OBVIOUS
<1> HIDE DEF known
<1>4. Cardinality(known) \in Nat
  BY <1>3, CountedAssumption, FS_Subset, FS_CardinalityType
<1> QED BY <1>2, <1>3, <1>4

\* The fields of a kind are a list, with the catalogue as without it.
LEMMA FieldList ==
  ASSUME NEW kind \in KindNames
  PROVE  GD!FieldOrder(kind) \in Seq(Range(GD!FieldOrder(kind)))
<1> DEFINE order == GD!FieldOrder(kind)
           names == {"mission_id", "repo", "title", "body", "labels", "base", "head",
                     "pull_number", "merge_method", "expected_head_sha", "to", "subject",
                     "cc", "bcc", "draft_id", "reply_to_message_id", "thread_id"}
<1>1. order \in {GD!CatalogFields[kind], GD!LegacyFields[kind]}
  BY DEF GD!FieldOrder
<1>2. GD!CatalogFields[kind] \in Seq(names) /\ GD!LegacyFields[kind] \in Seq(names)
  <2>1. CASE kind = "gh_issue"
    BY <2>1 DEF GD!CatalogFields, GD!LegacyFields
  <2>2. CASE kind = "gh_pr"
    BY <2>2 DEF GD!CatalogFields, GD!LegacyFields
  <2>3. CASE kind = "gh_merge"
    BY <2>3 DEF GD!CatalogFields, GD!LegacyFields
  <2>4. CASE kind = "gm_draft"
    BY <2>4 DEF GD!CatalogFields, GD!LegacyFields
  <2>5. CASE kind = "gm_send"
    BY <2>5 DEF GD!CatalogFields, GD!LegacyFields
  <2>6. CASE kind = "gm_reply"
    BY <2>6 DEF GD!CatalogFields, GD!LegacyFields
  <2> QED BY <2>1, <2>2, <2>3, <2>4, <2>5, <2>6 DEF KindNames
<1>3. order \in Seq(names)
  BY <1>1, <1>2
<1> HIDE DEF order, names
<1>4. PICK R : R = Range(order)
  OBVIOUS
<1>5. \A i \in 1..Len(order) : order[i] \in R
  BY <1>3, <1>4 DEF Range
<1>7. order \in Seq(R)
  BY <1>3, <1>5
<1> QED BY <1>4, <1>7 DEF order

\* The next field that is asked for is one of the kind's.
LEMMA AskedField ==
  ASSUME NEW d, d.kind \in KindNames, GD!Missing(d) # <<>>
  PROVE  GD!Missing(d)[1] \in FieldsOf(d.kind)
<1> DEFINE order == GD!FieldOrder(d.kind)
           members == Range(order)
<1>1. order \in Seq(members)
  BY FieldList
<1>2. members \subseteq FieldsOf(d.kind)
  BY DEF FieldsOf, GD!FieldOrder
<1>3. GD!Missing(d) = Kept(order, members \ DOMAIN d.fields)
  BY Zenon DEF GD!Missing, GD!Kept, Kept, GD!Range, Range
<1> HIDE DEF order, members
<1>4. Kept(order, members \ DOMAIN d.fields) \in Seq(members \cap (members \ DOMAIN d.fields))
  BY <1>1, KeptIsAPart
<1>5. PICK t : t = Kept(order, members \ DOMAIN d.fields)
  OBVIOUS
<1>6. t \in Seq(members)
  BY <1>4, <1>5
<1>7. t # <<>> => t[1] \in members
  BY <1>6
<1> QED BY <1>2, <1>3, <1>5, <1>7

\* A summary names only fields that are asked for, but for a merge's method.
LEMMA SummaryIsAsked ==
  ASSUME NEW kind \in KindNames
  PROVE  GD!Summarized[kind] \ {"merge_method"} \subseteq Range(GD!FieldOrder(kind))
<1>1. PICK order : order = GD!FieldOrder(kind)
  OBVIOUS
<1>2. order \in {GD!CatalogFields[kind], GD!LegacyFields[kind]}
  BY <1>1 DEF GD!FieldOrder
<1>3. CASE kind = "gh_issue"
  <2>1. /\ 2 \in DOMAIN order /\ order[2] = "repo"
        /\ 3 \in DOMAIN order /\ order[3] = "title"
        /\ 4 \in DOMAIN order /\ order[4] = "body"
    BY <1>2, <1>3 DEF GD!CatalogFields, GD!LegacyFields
  <2>2. GD!Summarized[kind] = {"repo", "title", "body"}
    BY <1>3 DEF GD!Summarized
  <2> QED BY <1>1, <2>1, <2>2 DEF Range
<1>4. CASE kind = "gh_pr"
  <2>1. /\ 2 \in DOMAIN order /\ order[2] = "repo"
        /\ 3 \in DOMAIN order /\ order[3] = "base"
        /\ 4 \in DOMAIN order /\ order[4] = "head"
        /\ 5 \in DOMAIN order /\ order[5] = "title"
    BY <1>2, <1>4 DEF GD!CatalogFields, GD!LegacyFields
  <2>2. GD!Summarized[kind] = {"repo", "base", "head", "title"}
    BY <1>4 DEF GD!Summarized
  <2> QED BY <1>1, <2>1, <2>2 DEF Range
<1>5. CASE kind = "gh_merge"
  <2>1. /\ 2 \in DOMAIN order /\ order[2] = "repo"
        /\ 3 \in DOMAIN order /\ order[3] = "pull_number"
    BY <1>2, <1>5 DEF GD!CatalogFields, GD!LegacyFields
  <2>2. GD!Summarized[kind] = {"repo", "pull_number", "merge_method"}
    BY <1>5 DEF GD!Summarized
  <2> QED BY <1>1, <2>1, <2>2 DEF Range
<1>6. CASE kind = "gm_draft"
  <2>1. /\ 2 \in DOMAIN order /\ order[2] = "to"
        /\ 3 \in DOMAIN order /\ order[3] = "subject"
    BY <1>2, <1>6 DEF GD!CatalogFields, GD!LegacyFields
  <2>2. GD!Summarized[kind] = {"to", "subject"}
    BY <1>6 DEF GD!Summarized
  <2> QED BY <1>1, <2>1, <2>2 DEF Range
<1>7. CASE kind = "gm_send"
  <2>1. /\ 2 \in DOMAIN order /\ order[2] = "draft_id"
    BY <1>2, <1>7 DEF GD!CatalogFields, GD!LegacyFields
  <2>2. GD!Summarized[kind] = {"draft_id"}
    BY <1>7 DEF GD!Summarized
  <2> QED BY <1>1, <2>1, <2>2 DEF Range
<1>8. CASE kind = "gm_reply"
  <2>1. /\ 2 \in DOMAIN order /\ order[2] = "reply_to_message_id"
    BY <1>2, <1>8 DEF GD!CatalogFields, GD!LegacyFields
  <2>2. GD!Summarized[kind] = {"reply_to_message_id"}
    BY <1>8 DEF GD!Summarized
  <2> QED BY <1>1, <2>1, <2>2 DEF Range
<1> QED BY <1>3, <1>4, <1>5, <1>6, <1>7, <1>8 DEF KindNames

\* A draft that misses nothing has every field of its summary.
LEMMA NothingMissing ==
  ASSUME NEW d, d.kind \in KindNames, GD!Missing(d) = <<>>
  PROVE  Complete(d)
<1> DEFINE order == GD!FieldOrder(d.kind)
           members == Range(order)
<1>1. order \in Seq(members)
  BY FieldList
<1>2. GD!Summarized[d.kind] \ {"merge_method"} \subseteq members
  BY SummaryIsAsked
<1>3. GD!Missing(d) = Kept(order, members \ DOMAIN d.fields)
  BY Zenon DEF GD!Missing, GD!Kept, Kept, GD!Range, Range
<1>4. Range(Kept(order, members \ DOMAIN d.fields)) = members \cap (members \ DOMAIN d.fields)
  <2> HIDE DEF order
  <2> QED BY <1>1, KeptIsAPart
<1>5. Range(<<>>) = {}
  BY DEF Range
<1> HIDE DEF order, members
<1>6. members \subseteq DOMAIN d.fields
  BY <1>3, <1>4, <1>5
<1> QED BY <1>2, <1>6 DEF Complete
-----------------------------------------------------------------------------
(* Which steps change what.                                                *)

Submitting == \E a \in Approvals : SubmitDraft(a)
Hearing == \E u \in Utterances \cup Starting : Hear(u)
Requested == \E a \in Approvals : Opened(a) /\ approval[a] = "absent"
                                     /\ approval' = [approval EXCEPT ![a] = "pending"]

\* The dialogues and the updates loop leave the rest of the connection alone.
Frames ==
    /\ \/ UNCHANGED <<queue, cursor>> \/ TalkOfApprovals \/ ForgetConnection
    /\ \/ UNCHANGED <<items, spot>> \/ TalkOfInbox \/ ForgetConnection
    /\ \/ UNCHANGED <<ranked, place>> \/ TalkOfMissions \/ ForgetConnection
    /\ \/ UNCHANGED draft \/ TalkOfDraft \/ Submitting \/ ForgetConnection
    /\ \/ UNCHANGED <<updates, loop, owed>> \/ Streaming \/ Disconnect \/ Restart
    /\ \/ UNCHANGED offered \/ Speak \/ TalkOfInbox \/ ForgetConnection
    /\ \/ UNCHANGED readback \/ Speak \/ Submitting \/ ForgetConnection
    /\ \/ UNCHANGED arrival \/ Requested \/ InboxMoves
    /\ \/ UNCHANGED <<approval, decided>> \/ TalkOfApprovals \/ Elsewhere \/ Texting
       \/ Requested /\ UNCHANGED decided
    /\ \/ UNCHANGED smsVars \/ Requested \/ Texting
    /\ \/ UNCHANGED turn \/ Connect \/ MisHear \/ Route \/ Speak \/ ForgetConnection
       \/ TalkOfApprovals \/ TalkOfInbox \/ TalkOfMissions \/ TalkOfDraft
       \/ Submitting \/ Intake \/ Hearing

LEMMA InboxTalkFrame ==
  TalkOfInbox => UNCHANGED <<approval, decided, arrival>>
<1> SUFFICES ASSUME TalkOfInbox PROVE UNCHANGED <<approval, decided, arrival>>
  OBVIOUS
<1>1. UNCHANGED decided /\ VI!VoiceInboxStep
  BY DEF TalkOfInbox
<1>2. CASE VI!GetItems
  BY <1>1, <1>2 DEF VI!GetItems, VI!ControlPlane
<1>3. CASE VI!PostTriage
  BY <1>1, <1>3 DEF VI!PostTriage, VI!Inbox!Mark
<1>4. CASE VI!LoseMark
  BY <1>1, <1>4 DEF VI!LoseMark, VI!Inbox!Mark
<1>5. CASE VI!Reload
  BY <1>1, <1>5 DEF VI!Reload, VI!ControlPlane
<1>6. CASE VI!FailInbox
  BY <1>1, <1>6 DEF VI!FailInbox, VI!ControlPlane
<1> QED BY <1>1, <1>2, <1>3, <1>4, <1>5, <1>6 DEF VI!VoiceInboxStep

LEMMA DraftTalkFrame ==
  TalkOfDraft => UNCHANGED <<approval, catalog>> \/ UNCHANGED <<approval, draft>>
<1> SUFFICES ASSUME TalkOfDraft
             PROVE  UNCHANGED <<approval, catalog>> \/ UNCHANGED <<approval, draft>>
  OBVIOUS
<1>1. GD!GovernedDraftStep
  BY DEF TalkOfDraft
<1> QED BY <1>1 DEF GD!GovernedDraftStep, GD!Cancel, GD!RefuseSecond, GD!ReadCatalog, GD!PassOn,
                    GD!Start, GD!Dictate, GD!NameMission, GD!AskToConfirm, GD!SubmitFails,
                    GD!draftVars

LEMMA NextFrames == [Next]_vars => Frames
<1> SUFFICES ASSUME [Next]_vars PROVE Frames
  OBVIOUS
<1> USE DEF Frames, inboxVars, smsVars, dialogueVars, voiceApprovalVars, voiceInboxVars,
            voiceBriefingVars, draftVars, streamVars, connectionVars, historyVars
<1>1. CASE UNCHANGED vars
  BY <1>1 DEF vars
<1>2. CASE Connect
  BY <1>2 DEF Connect
<1>3. CASE MisHear
  BY <1>3 DEF MisHear
<1>4. CASE Disconnect
  BY <1>4 DEF Disconnect
<1>5. CASE Restart
  BY <1>5 DEF Restart
<1>6. CASE Route
  BY <1>6 DEF Route
<1>7. CASE Speak
  BY <1>7 DEF Speak
<1>8. CASE Intake
  BY <1>8 DEF Intake
<1>9. CASE TalkOfApprovals
  BY <1>9 DEF TalkOfApprovals
<1>10. CASE TalkOfInbox
  BY <1>10, InboxTalkFrame DEF TalkOfInbox
<1>11. CASE TalkOfMissions
  BY <1>11 DEF TalkOfMissions
<1>12. CASE TalkOfDraft
  BY <1>12, DraftTalkFrame DEF TalkOfDraft
<1>13. CASE Submitting
  <2>1. PICK a \in Approvals : SubmitDraft(a)
    BY <1>13 DEF Submitting
  <2>2. Requested
    BY <2>1 DEF SubmitDraft, GD!Submit, GD!SubmitLosesReply, GD!OpensApproval, Requested
  <2> QED BY <1>13, <2>1, <2>2 DEF SubmitDraft
<1>14. CASE CatalogLoads
  BY <1>14 DEF CatalogLoads, GD!LoadCatalogElsewhere
<1>15. CASE Streaming
  <2>1. CASE ReadUpdates
    BY <1>15, <2>1 DEF ReadUpdates
  <2>2. CASE ReadNothing
    BY <1>15, <2>2 DEF ReadNothing
  <2>3. CASE TellUpdate
    BY <1>15, <2>3 DEF TellUpdate
  <2>4. ASSUME NEW m \in Missions, Publish(m) PROVE Frames
    BY <1>15, <2>4 DEF Publish
  <2> QED BY <1>15, <2>1, <2>2, <2>3, <2>4 DEF Streaming
<1>16. CASE Elsewhere
  <2>1. ASSUME NEW a \in Approvals, RequestElsewhere(a) PROVE Frames
    <3>1. Requested
      BY <2>1 DEF RequestElsewhere, Requested
    <3> QED BY <2>1, <3>1 DEF RequestElsewhere
  <2>2. ASSUME NEW a \in Approvals, NEW decision \in {"approved", "denied"},
               DecideElsewhere(a, decision)
        PROVE  Frames
    BY <1>16, <2>2 DEF DecideElsewhere
  <2> QED BY <1>16, <2>1, <2>2 DEF Elsewhere
<1>17. CASE Texting
  BY <1>17 DEF Texting
<1>18. CASE InboxMoves
  <2>1. UNCHANGED approval
    BY <1>18 DEF InboxMoves, Inbox!InboxChanges, Inbox!FindingOpens, Inbox!FindingResolves,
                 Inbox!SnoozeEnds, Inbox!IntegrationFails, Inbox!MissionMoves,
                 Inbox!MarkElsewhere, Inbox!Mark
  <2> QED BY <1>18, <2>1 DEF InboxMoves
<1>19. CASE Hearing
  <2>1. PICK u \in Utterances \cup Starting : Hear(u)
    BY <1>19 DEF Hearing
  <2> QED BY <1>19, <2>1 DEF Hear
<1> QED
  <2>1. Next => \/ Connect \/ MisHear \/ Disconnect \/ Restart \/ Route \/ Speak \/ Intake
                \/ TalkOfApprovals \/ TalkOfInbox \/ TalkOfMissions \/ TalkOfDraft
                \/ Submitting \/ CatalogLoads \/ Streaming \/ Elsewhere \/ Texting
                \/ InboxMoves \/ Hearing
    BY DEF Next, Connection, Converse, Submitting, Hearing
  <2> HIDE DEF Frames
  <2> QED BY <1>1, <1>2, <1>3, <1>4, <1>5, <1>6, <1>7, <1>8, <1>9, <1>10, <1>11, <1>12,
             <1>13, <1>14, <1>15, <1>16, <1>17, <1>18, <1>19, <2>1
-----------------------------------------------------------------------------
(* The lists and their cursors.                                            *)

\* A cursor that is moved stays on the list.
LEMMA MovedCursor ==
  ASSUME NEW S, NEW list \in Seq(S), list # <<>>, NEW c \in Nat
  PROVE  /\ VA!After(c, list) \in Nat /\ VA!After(c, list) < Len(list)
         /\ VA!Within(c, list) \in Nat /\ VA!Within(c, list) < Len(list)
         /\ VI!After(c, list) \in Nat /\ VI!After(c, list) < Len(list)
         /\ VB!After(c, list) \in Nat /\ VB!After(c, list) < Len(list)
         /\ VA!Before(c) \in Nat /\ VA!Before(c) =< c
         /\ VI!Before(c) \in Nat /\ VI!Before(c) =< c
         /\ VB!Before(c) \in Nat /\ VB!Before(c) =< c
<1>1. Len(list) \in Nat /\ Len(list) # 0
  OBVIOUS
<1> QED BY <1>1 DEF VA!After, VA!Within, VI!After, VB!After, VA!Before, VI!Before, VB!Before

LEMMA QueueStays == QueueInv /\ TargetInv /\ [Next]_vars => QueueInv'
<1> SUFFICES ASSUME QueueInv, TargetInv, [Next]_vars PROVE QueueInv'
  OBVIOUS
<1>1. ASSUME UNCHANGED <<queue, cursor>> PROVE QueueInv'
  BY <1>1 DEF QueueInv
<1>2. CASE ForgetConnection
  BY <1>2 DEF ForgetConnection, QueueInv
<1>3. CASE VA!VoiceApprovalStep
  <2>1. CASE VA!Move
    <3>1. queue' = queue /\ queue # <<>> /\ cursor' \in {VA!After(cursor, queue), VA!Before(cursor)}
      BY <2>1 DEF VA!Move
    <3>2. Len(queue) \in Nat /\ cursor \in Nat /\ cursor < Len(queue)
      BY <3>1 DEF QueueInv
    <3>3. cursor' \in Nat /\ cursor' < Len(queue)
      <4>1. /\ VA!After(cursor, queue) \in Nat /\ VA!After(cursor, queue) < Len(queue)
            /\ VA!Before(cursor) \in Nat /\ VA!Before(cursor) =< cursor
        BY <3>1, <3>2, MovedCursor DEF QueueInv
      <4> QED BY <3>1, <3>2, <4>1
    <3> QED BY <3>1, <3>3 DEF QueueInv
  <2>2. CASE VA!TellPending
    <3>1. queue' = VA!Pending /\ cursor' = 0
      BY <2>2 DEF VA!TellPending
    <3> QED BY <3>1, PendingList DEF QueueInv
  <2>3. CASE VA!FocusPending
    <3>1. PICK q : q = VA!Pending
      OBVIOUS
    <3>2. q \in Seq(Approvals) /\ queue' = q
      BY <2>3, <3>1, PendingList DEF VA!FocusPending
    <3>3. CASE q = <<>>
      BY <2>3, <3>1, <3>2, <3>3 DEF VA!FocusPending, QueueInv
    <3>4. CASE q # <<>>
      <4>1. cursor' \in {VA!After(cursor, q), VA!Within(cursor, q)}
        BY <2>3, <3>1, <3>4 DEF VA!FocusPending
      <4>2. cursor' \in Nat /\ cursor' < Len(q)
        BY <3>2, <3>4, <4>1, MovedCursor DEF QueueInv
      <4> QED BY <3>2, <4>2 DEF QueueInv
    <3> QED BY <3>3, <3>4
  <2>4. CASE VA!PostDecision
    <3>1. CASE UNCHANGED <<queue, cursor>>
      BY <1>1, <3>1
    <3>2. CASE ~UNCHANGED <<queue, cursor>>
      <4>1. /\ At("decide") /\ Saying(VA!ById)
            /\ queue' = turn.list /\ cursor' = VA!PlaceOf(turn.list, turn.target[1])
        BY <2>4, <3>2 DEF VA!PostDecision, VA!Recorded, VA!Failed, VA!voiceApprovalVars, VA!At,
                          At, VA!Saying, Saying, VA!ById
      <4>2. PICK list, a : list = turn.list /\ a = turn.target[1]
        OBVIOUS
      <4>3. list \in Seq(Approvals) /\ a \in Range(list)
        BY <4>1, <4>2 DEF TargetInv, At
      <4>4. VA!PlaceOf(list, a) \in Nat /\ VA!PlaceOf(list, a) < Len(list)
        BY <4>3, PlaceInList
      <4> QED BY <4>1, <4>2, <4>3, <4>4 DEF QueueInv
    <3> QED BY <3>1, <3>2
  <2>5. CASE VA!Refresh
    <3>1. queue' = VA!Pending /\ cursor' = 0
      BY <2>5 DEF VA!Refresh
    <3> QED BY <3>1, PendingList DEF QueueInv
  <2>6. CASE UNCHANGED <<queue, cursor>>
    BY <1>1, <2>6
  <2>7. VA!VoiceApprovalStep =>
            \/ VA!Move \/ VA!TellPending \/ VA!FocusPending \/ VA!PostDecision \/ VA!Refresh
            \/ UNCHANGED <<queue, cursor>>
    BY DEF VA!VoiceApprovalStep, VA!GetPending, VA!Refuse, VA!LoadFirst, VA!MoveNowhere,
           VA!DecideIt, VA!FindById, VA!GetBundle, VA!LoseReply, VA!Failed, VA!FailRequest,
           VA!voiceApprovalVars
  <2> QED BY <1>3, <2>1, <2>2, <2>3, <2>4, <2>5, <2>6, <2>7
<1>4. TalkOfApprovals => UNCHANGED <<queue, cursor>> \/ VA!VoiceApprovalStep
  BY DEF TalkOfApprovals, voiceApprovalVars
<1> QED BY <1>1, <1>2, <1>3, <1>4, NextFrames DEF Frames

LEMMA ItemsStay == ItemsInv /\ ArrivalInv /\ [Next]_vars => ItemsInv'
<1> SUFFICES ASSUME ItemsInv, ArrivalInv, [Next]_vars PROVE ItemsInv'
  OBVIOUS
<1>1. ASSUME UNCHANGED <<items, spot>> PROVE ItemsInv'
  BY <1>1 DEF ItemsInv
<1>2. CASE ForgetConnection
  BY <1>2 DEF ForgetConnection, ItemsInv
<1>3. PICK list : list = VI!Inbox!OpenItems
  OBVIOUS
<1>4. list \in Seq(Inbox!Keys) /\ Len(list) \in Nat /\ (list # <<>> => Len(list) # 0)
  BY <1>3, OpenList
<1>5. /\ VI!Synced(list) \in Nat
      /\ list # <<>> => VI!Synced(list) < Len(list)
  BY <1>4 DEF VI!Synced, ItemsInv
<1>6. CASE VI!GetItems
  <2>1. items' = list /\ spot' = VI!Place(list)
    BY <1>3, <1>6 DEF VI!GetItems
  <2>2. CASE list = <<>>
    BY <2>1, <2>2 DEF VI!Place, ItemsInv
  <2>3. CASE list # <<>>
    <3>1. VI!Place(list) \in {0, VI!After(VI!Synced(list), list), VI!Before(VI!Synced(list)),
                              VI!Synced(list)}
      BY DEF VI!Place
    <3>2. PICK s \in Nat : s = VI!Synced(list) /\ s < Len(list)
      BY <1>5, <2>3
    <3>3. VI!Place(list) \in {0, VI!After(s, list), VI!Before(s), s}
      BY <3>1, <3>2
    <3>4. /\ VI!After(s, list) \in Nat /\ VI!After(s, list) < Len(list)
          /\ VI!Before(s) \in Nat /\ VI!Before(s) =< s
      BY <1>4, <2>3, MovedCursor
    <3>5. VI!Place(list) \in Nat /\ VI!Place(list) < Len(list)
      BY <1>4, <2>3, <3>2, <3>3, <3>4
    <3> QED BY <1>4, <2>1, <3>5 DEF ItemsInv
  <2> QED BY <2>2, <2>3
<1>7. CASE VI!Reload
  <2>1. items' = list /\ spot' = VI!Synced(list)
    BY <1>3, <1>7 DEF VI!Reload
  <2> QED BY <1>4, <1>5, <2>1 DEF ItemsInv
<1>8. TalkOfInbox => VI!GetItems \/ VI!Reload \/ UNCHANGED <<items, spot>>
  BY DEF TalkOfInbox, VI!VoiceInboxStep, VI!PostTriage, VI!LoseMark, VI!FailInbox,
         VI!voiceInboxVars
<1> QED BY <1>1, <1>2, <1>6, <1>7, <1>8, NextFrames DEF Frames

LEMMA RankedStays == RankedInv /\ [Next]_vars => RankedInv'
<1> SUFFICES ASSUME RankedInv, [Next]_vars PROVE RankedInv'
  OBVIOUS
<1>1. ASSUME UNCHANGED <<ranked, place>> PROVE RankedInv'
  BY <1>1 DEF RankedInv
<1>2. CASE ForgetConnection
  BY <1>2 DEF ForgetConnection, RankedInv
<1>3. ASSUME NEW list \in VB!Rankings \cup {<<>>} PROVE list \in Seq(Missions)
  <2>1. CASE list \in VB!Rankings
    BY <2>1, RankedList
  <2>2. CASE list = <<>>
    BY <2>2
  <2> QED BY <2>1, <2>2
<1>4. CASE VB!Overview
  <2>1. ranked' \in Seq(Missions) /\ place' = 0
    BY <1>3, <1>4 DEF VB!Overview
  <2> QED BY <2>1 DEF RankedInv
<1>5. CASE VB!Walk
  <2>1. PICK list \in VB!Rankings \cup {<<>>} : ranked' = VB!Known(list)
    BY <1>5 DEF VB!Walk
  <2>2. ranked' \in Seq(Missions) /\ (ranked = <<>> \/ ranked' = ranked)
    BY <1>3, <2>1 DEF VB!Known, RankedInv
  <2>3. PICK r : r = ranked'
    OBVIOUS
  <2>4. \/ place' = place
        \/ r # <<>> /\ place' \in {VB!After(place, r), VB!Before(place)}
    BY <1>5, <2>3 DEF VB!Walk
  <2>5. r # <<>> => place < Len(r) /\ Len(r) \in Nat
    BY <2>2, <2>3 DEF RankedInv
  <2>6. ASSUME r # <<>>
        PROVE  /\ VB!After(place, r) \in Nat /\ VB!After(place, r) < Len(r)
               /\ VB!Before(place) \in Nat /\ VB!Before(place) =< place
    BY <2>2, <2>3, <2>6, MovedCursor DEF RankedInv
  <2>7. place' \in Nat /\ (r # <<>> => place' < Len(r))
    BY <2>4, <2>5, <2>6 DEF RankedInv
  <2>8. r = <<>> => place' = 0
    BY <2>2, <2>3, <2>4 DEF RankedInv
  <2> QED BY <2>2, <2>3, <2>7, <2>8 DEF RankedInv
<1>6. TalkOfMissions => VB!Overview \/ VB!Walk \/ UNCHANGED <<ranked, place>>
  BY DEF TalkOfMissions, VB!VoiceBriefingStep, VB!Defer, VB!Unmeant, VB!TellChanges,
         VB!TellMission, VB!MissMission, VB!voiceBriefingVars
<1> QED BY <1>1, <1>2, <1>4, <1>5, <1>6, NextFrames DEF Frames

LEMMA ArrivalStays == ArrivalInv /\ [Next]_vars => ArrivalInv'
<1> SUFFICES ASSUME ArrivalInv, [Next]_vars PROVE ArrivalInv'
  OBVIOUS
<1>1. ASSUME NEW k \in Inbox!Keys, Inbox!Arrived(k) PROVE ArrivalInv'
  <2>1. PICK rest : rest = Kept(arrival, Inbox!Keys \ {k})
    OBVIOUS
  <2>2. rest \in Seq(Inbox!Keys \cap (Inbox!Keys \ {k}))
    BY <2>1, KeptIsAPart DEF ArrivalInv
  <2>3. arrival' = Append(rest, k)
    <3>1. Inbox!Kept(arrival, Inbox!Keys \ {k}) = Kept(arrival, Inbox!Keys \ {k})
      BY Zenon DEF Inbox!Kept, Kept
    <3> QED BY <1>1, <2>1, <3>1 DEF Inbox!Arrived
  <2>4. rest \in Seq(Inbox!Keys)
    BY <2>2
  <2>5. Append(rest, k) \in Seq(Inbox!Keys)
    BY <1>1, <2>4
  <2> QED BY <2>3, <2>5 DEF ArrivalInv
<1>2. CASE UNCHANGED arrival
  BY <1>2 DEF ArrivalInv
<1>3. CASE Requested
  <2>1. PICK a \in Approvals : Inbox!Arrived(<<"approval", a>>)
    BY <1>3 DEF Requested, Opened, Inbox!RequestArrives
  <2>2. <<"approval", a>> \in Inbox!Keys
    BY DEF Inbox!Keys
  <2> QED BY <1>1, <2>1, <2>2
<1>4. CASE InboxMoves
  <2>1. \/ UNCHANGED arrival
        \/ \E k \in Inbox!Keys : Inbox!Arrived(k)
        \/ \E m \in Missions : \/ Inbox!Arrived(<<"integration_failure", m>>)
                               \/ Inbox!Arrived(<<"mission_terminal", m>>)
    BY <1>4 DEF InboxMoves, Inbox!InboxChanges, Inbox!FindingOpens, Inbox!FindingResolves,
                Inbox!SnoozeEnds, Inbox!IntegrationFails, Inbox!MissionMoves,
                Inbox!MarkElsewhere, Inbox!Mark
  <2>2. \A m \in Missions : /\ <<"integration_failure", m>> \in Inbox!Keys
                            /\ <<"mission_terminal", m>> \in Inbox!Keys
    BY DEF Inbox!Keys
  <2> QED BY <1>1, <1>2, <2>1, <2>2
<1> QED BY <1>2, <1>3, <1>4, NextFrames DEF Frames

LEMMA StreamStays == StreamInv /\ [Next]_vars => StreamInv'
<1> SUFFICES ASSUME StreamInv, [Next]_vars PROVE StreamInv'
  OBVIOUS
<1>0. Len(updates) \in Nat /\ loop.last \in Nat /\ loop.last =< Len(updates)
      /\ owed \subseteq 1..Len(updates)
  BY DEF StreamInv
<1>1. CASE UNCHANGED <<updates, loop, owed>>
  BY <1>1 DEF StreamInv
<1>2. CASE Disconnect
  BY <1>2 DEF Disconnect, ForgetConnection, streamVars, StreamInv
<1>3. CASE Restart
  <2>1. /\ updates' = updates /\ owed' = {}
        /\ loop' = [at |-> "between", met |-> FALSE, last |-> 0]
    BY <1>3 DEF Restart, ForgetConnection
  <2>2. 0 \in Nat /\ 0 =< Len(updates)
    BY <1>0
  <2> QED BY <2>1, <2>2 DEF StreamInv
<1>4. CASE ReadUpdates
  <2>1. PICK n : n = IF loop.met THEN loop.last ELSE Len(updates)
    OBVIOUS
  <2>2. n \in Nat /\ n =< Len(updates)
    BY <1>0, <2>1
  <2>3. loop' = [loop EXCEPT !.at = "waiting", !.last = n]
    BY <1>4, <2>1, Zenon DEF ReadUpdates
  <2>4. loop' = [at |-> "waiting", met |-> loop.met, last |-> n]
    BY <2>3 DEF StreamInv
  <2>5. updates' = updates /\ owed' = owed
    BY <1>4 DEF ReadUpdates, connectionVars
  <2> QED BY <1>0, <2>2, <2>4, <2>5 DEF StreamInv
<1>5. CASE ReadNothing
  BY <1>0, <1>5 DEF ReadNothing, connectionVars, StreamInv
<1>6. CASE TellUpdate
  BY <1>0, <1>6 DEF TellUpdate, StreamInv
<1>7. ASSUME NEW m \in Missions, Publish(m) PROVE StreamInv'
  <2>1. PICK more : more = Append(updates, m)
    OBVIOUS
  <2>2. more \in Seq(Missions) /\ Len(more) = Len(updates) + 1
    BY <2>1 DEF StreamInv
  <2>3. updates' = more /\ loop' = loop /\ owed' \subseteq owed \cup {Len(updates) + 1}
    BY <1>7, <2>1 DEF Publish
  <2>4. owed' \subseteq 1..Len(more)
    BY <1>0, <2>2, <2>3
  <2> QED BY <1>0, <2>2, <2>3, <2>4 DEF StreamInv
<1> QED BY <1>1, <1>2, <1>3, <1>4, <1>5, <1>6, <1>7, NextFrames DEF Frames, Streaming
-----------------------------------------------------------------------------
(* How an utterance is passed on.                                          *)

\* What the dialogues go by stays as it is, and so does the utterance.
Still == UNCHANGED <<turn, queue, cursor, items, spot, draft, readback, offered>>

\* The utterance is passed on to a label, or answered by one of the kinds.
Passed(labels) ==
    /\ turn' = [at |-> turn'.at, said |-> turn.said, target |-> turn'.target,
                list |-> turn'.list, answer |-> turn'.answer]
    /\ turn'.answer = [kind |-> turn'.answer.kind, of |-> turn'.answer.of]
    /\ turn'.at \in labels
Answered(kinds) == Passed({"answer"}) /\ turn'.answer.kind \in kinds

\* What the operators of the dialogues do to the turn, whoever uses them.
LEMMA Passing ==
  ASSUME TurnShape, NEW label, NEW x,
         \/ Goto(label) \/ VA!Goto(label) \/ VI!Goto(label) \/ VB!Goto(label) \/ GD!Goto(label)
         \/ VA!With(label, x) \/ VI!With(label, x) \/ VB!With(label, x)
  PROVE  Passed({label})
BY DEF TurnShape, Passed, Goto, VA!Goto, VI!Goto, VB!Goto, GD!Goto, VA!With, VI!With, VB!With

LEMMA Answering ==
  ASSUME TurnShape, NEW kind, NEW x,
         \/ Answer(kind, x) \/ VA!Answer(kind, x) \/ VI!Answer(kind, x)
         \/ VB!Answer(kind, x) \/ GD!Answer(kind, x)
  PROVE  Answered({kind}) /\ turn'.answer.of = x
<1>1. turn' = [turn EXCEPT !.at = "answer", !.answer = [kind |-> kind, of |-> x]]
  BY Zenon DEF Answer, VA!Answer, VI!Answer, VB!Answer, GD!Answer
<1>2. turn' = [at |-> "answer", said |-> turn.said, target |-> turn.target, list |-> turn.list,
               answer |-> [kind |-> kind, of |-> x]]
  BY <1>1 DEF TurnShape
<1> QED BY <1>2 DEF Passed, Answered

LEMMA NextPasses ==
  [Next]_vars => \/ Still \/ ForgetConnection \/ Connect \/ MisHear \/ Hearing
                 \/ Route \/ Speak \/ Intake \/ Submitting
                 \/ TalkOfApprovals \/ TalkOfInbox \/ TalkOfMissions \/ TalkOfDraft
<1> SUFFICES ASSUME [Next]_vars,
                    ~(\/ Connect \/ MisHear \/ Hearing \/ Route \/ Speak \/ Intake
                      \/ Submitting \/ TalkOfApprovals \/ TalkOfInbox \/ TalkOfMissions
                      \/ TalkOfDraft)
             PROVE  Still \/ ForgetConnection
  OBVIOUS
<1> USE DEF Still, dialogueVars, voiceApprovalVars, voiceInboxVars, draftVars, connectionVars,
            historyVars
<1>1. CASE UNCHANGED vars
  BY <1>1 DEF vars
<1>2. CASE Disconnect \/ Restart
  BY <1>2 DEF Disconnect, Restart
<1>3. CASE CatalogLoads
  BY <1>3 DEF CatalogLoads, GD!LoadCatalogElsewhere
<1>4. CASE Streaming
  BY <1>4 DEF Streaming, ReadUpdates, ReadNothing, TellUpdate, Publish
<1>5. CASE Elsewhere
  BY <1>5 DEF Elsewhere, RequestElsewhere, DecideElsewhere
<1>6. CASE Texting \/ InboxMoves
  BY <1>6 DEF Texting, InboxMoves
<1>7. Next => \/ Connect \/ MisHear \/ Disconnect \/ Restart \/ Route \/ Speak \/ Intake
              \/ TalkOfApprovals \/ TalkOfInbox \/ TalkOfMissions \/ TalkOfDraft
              \/ Submitting \/ CatalogLoads \/ Streaming \/ Elsewhere \/ Texting
              \/ InboxMoves \/ Hearing
  BY DEF Next, Connection, Converse, Submitting, Hearing
<1> QED BY <1>1, <1>2, <1>3, <1>4, <1>5, <1>6, <1>7

LEMMA RoutePasses ==
  ASSUME TurnShape, Route
  PROVE  /\ At("heard") /\ UNCHANGED <<queue, cursor, items, spot, draft, readback, offered>>
         /\ \/ turn' = Listening
            \/ Passed({"inbox"}) /\ Saying(VI!InboxPhrases)
            \/ Passed({"briefing"})
            \/ Answered({"hint"}) /\ Saying({"read-that-again"})
<1>1. At("heard") /\ UNCHANGED <<queue, cursor, items, spot, draft, readback, offered>>
  BY DEF Route, dialogueVars, voiceApprovalVars, voiceInboxVars, draftVars, connectionVars,
         historyVars
<1>2. \/ turn' = Listening
      \/ Answer("hint", <<>>) /\ Saying({"read-that-again"})
      \/ Goto("inbox") /\ Saying(VI!InboxPhrases)
      \/ Goto("briefing")
  BY DEF Route
<1> QED BY <1>1, <1>2, Passing, Answering

LEMMA InboxPasses ==
  ASSUME TurnShape, TalkOfInbox
  PROVE  /\ turn.at \in {"inbox", "triage", "reload"}
         /\ UNCHANGED <<queue, cursor, draft, readback>>
         /\ \/ Passed({"triage"}) /\ VI!GetItems
            \/ Passed({"reload"})
            \/ Answered({"item", "items", "hand-off"}) /\ VI!GetItems
            \/ Answered({"hint", "triaged", "failed"})
<1>1. VI!VoiceInboxStep /\ UNCHANGED <<queue, cursor, draft, readback>>
  BY DEF TalkOfInbox, voiceApprovalVars, draftVars
<1>2. CASE VI!GetItems
  <2>1. At("inbox")
    BY <1>2 DEF VI!GetItems, VI!At, At
  <2>2. \/ \E it : VI!With("triage", it)
        \/ \E it : VI!Answer("items", it) \/ VI!Answer("item", it) \/ VI!Answer("hand-off", it)
        \/ VI!Answer("hint", <<>>)
    BY <1>2 DEF VI!GetItems
  <2>3. \/ Passed({"triage"}) \/ Answered({"items"}) \/ Answered({"item"})
        \/ Answered({"hand-off"}) \/ Answered({"hint"})
    BY <2>2, Passing, Answering
  <2>4. \/ Passed({"triage"}) \/ Answered({"item", "items", "hand-off"})
        \/ Answered({"hint", "triaged", "failed"})
    BY <2>3 DEF Answered
  <2> QED BY <1>1, <1>2, <2>1, <2>4 DEF At
<1>3. CASE VI!PostTriage
  <2>1. At("triage") /\ VI!Goto("reload")
    BY <1>3 DEF VI!PostTriage, VI!At, At
  <2> QED BY <1>1, <2>1, Passing DEF At
<1>4. CASE VI!LoseMark \/ VI!Reload \/ VI!FailInbox
  <2>1. /\ turn.at \in {"inbox", "triage", "reload"}
        /\ VI!Answer("failed", turn.target) \/ VI!Answer("triaged", turn.target)
    BY <1>4 DEF VI!LoseMark, VI!Reload, VI!FailInbox, VI!At
  <2>2. Answered({"failed"}) \/ Answered({"triaged"})
    BY <2>1, Answering
  <2>3. Answered({"hint", "triaged", "failed"})
    BY <2>2 DEF Answered
  <2> QED BY <1>1, <2>1, <2>3
<1> QED BY <1>1, <1>2, <1>3, <1>4 DEF VI!VoiceInboxStep

LEMMA MissionsPass ==
  ASSUME TurnInv, TalkOfMissions
  PROVE  /\ turn.at \in {"briefing", "detail"}
         /\ UNCHANGED <<queue, cursor, items, spot, draft, readback, offered>>
         /\ \/ Passed({"draft"})
            \/ Passed({"detail"}) /\ Saying(VB!BriefingPhrases)
            \/ /\ Answered({"overview", "changes", "mission", "hint", "failed"})
               /\ Saying(VB!BriefingPhrases)
<1>1. VB!VoiceBriefingStep /\ UNCHANGED <<queue, cursor, items, spot, draft, readback, offered>>
  BY DEF TalkOfMissions, voiceApprovalVars, voiceInboxVars, draftVars, connectionVars,
         historyVars
<1>0. TurnShape /\ (At("detail") => Saying(VB!BriefingPhrases))
  BY DEF TurnInv
<1>2. CASE VB!Defer \/ VB!Unmeant
  <2>1. At("briefing") /\ VB!Goto("draft")
    BY <1>2 DEF VB!Defer, VB!Unmeant, VB!At, At
  <2> QED BY <1>0, <1>1, <2>1, Passing DEF At
<1>3. CASE VB!Overview \/ VB!TellChanges \/ VB!Walk
  <2>1. At("briefing")
    BY <1>3 DEF VB!Overview, VB!TellChanges, VB!Walk, VB!At, At
  <2>2. Saying(VB!BriefingPhrases)
    BY <1>3 DEF VB!Overview, VB!TellChanges, VB!Walk, VB!BriefingPhrases, VB!Saying, Saying
  <2>3. \/ \E it : VB!With("detail", it)
        \/ \E list : VB!Answer("overview", list)
        \/ VB!Answer("changes", <<>>) \/ VB!Answer("hint", <<>>)
    BY <1>3 DEF VB!Overview, VB!TellChanges, VB!Walk
  <2>4. \/ Passed({"detail"}) \/ Answered({"overview"}) \/ Answered({"changes"})
        \/ Answered({"hint"})
    BY <1>0, <2>3, Passing, Answering
  <2>5. \/ Passed({"detail"}) \/ Answered({"overview", "changes", "mission", "hint", "failed"})
    BY <2>4 DEF Answered
  <2> QED BY <1>1, <2>1, <2>2, <2>5 DEF At
<1>4. CASE VB!TellMission \/ VB!MissMission
  <2>1. /\ At("detail")
        /\ VB!Answer("mission", turn.target) \/ VB!Answer("failed", <<>>)
    BY <1>4 DEF VB!TellMission, VB!MissMission, VB!At, At
  <2>2. Answered({"mission"}) \/ Answered({"failed"})
    BY <1>0, <2>1, Answering
  <2>3. Answered({"overview", "changes", "mission", "hint", "failed"})
    BY <2>2 DEF Answered
  <2> QED BY <1>0, <1>1, <2>1, <2>3 DEF At
<1> QED BY <1>1, <1>2, <1>3, <1>4 DEF VB!VoiceBriefingStep

\* A draft with the fields of its kind, as far as they are filled in.
GoodDraft(d) ==
    /\ d = [kind |-> d.kind, fields |-> d.fields, step |-> d.step]
    /\ d.kind \in KindNames /\ DOMAIN d.fields \subseteq FieldsOf(d.kind)

\* What a summary names is posted as it was spoken.
LEMMA SpokenIsPosted ==
  ASSUME NEW d, GoodDraft(d), Complete(d), NEW name \in DOMAIN GD!Spoken(d)
  PROVE  /\ name \in DOMAIN GD!Posted(d)
         /\ GD!Spoken(d)[name] = GD!Aloud(name, GD!Posted(d)[name])
<1>1. /\ name \in GD!Summarized[d.kind]
      /\ GD!Spoken(d)[name] = IF name \in DOMAIN d.fields THEN GD!Aloud(name, d.fields[name])
                              ELSE GD!Default
  BY DEF GD!Spoken
<1>2. name \in DOMAIN d.fields \/ name = "merge_method"
  BY <1>1 DEF Complete
<1>3. CASE d.kind = "gh_merge" /\ "merge_method" \notin DOMAIN d.fields
  <2> DEFINE f == [n \in DOMAIN d.fields \cup {"merge_method"} |->
                       IF n = "merge_method" THEN GD!Default ELSE d.fields[n]]
  <2>1. GD!Posted(d) = GD!Filled(d, "merge_method", GD!Default).fields
    BY <1>3 DEF GD!Posted
  <2>2. GD!Filled(d, "merge_method", GD!Default) = [d EXCEPT !.fields = f]
    BY DEF GD!Filled
  <2>3. /\ DOMAIN f = DOMAIN d.fields \cup {"merge_method"}
        /\ f["merge_method"] = GD!Default
        /\ name # "merge_method" /\ name \in DOMAIN d.fields => f[name] = d.fields[name]
    OBVIOUS
  <2> HIDE DEF f
  <2>4. GD!Posted(d) = f
    <3>1. [d EXCEPT !.fields = f] = [kind |-> d.kind, fields |-> f, step |-> d.step]
      BY DEF GoodDraft
    <3> QED BY <2>1, <2>2, <3>1
  <2>5. CASE name = "merge_method"
    <3>1. GD!Aloud("merge_method", GD!Default) = GD!Default
      BY DEF GD!Aloud
    <3> QED BY <1>1, <1>3, <2>3, <2>4, <2>5, <3>1
  <2>6. CASE name # "merge_method"
    BY <1>1, <1>2, <2>3, <2>4, <2>6
  <2> QED BY <2>5, <2>6
<1>4. CASE d.kind = "gm_reply"
  <2>1. GD!Posted(d) = GD!Restrict(d.fields, DOMAIN d.fields \ {"subject", "cc", "bcc"})
    BY <1>4 DEF GD!Posted
  <2>2. name = "reply_to_message_id"
    BY <1>1, <1>4 DEF GD!Summarized
  <2>3. name \in DOMAIN d.fields \ {"subject", "cc", "bcc"}
    BY <1>2, <2>2
  <2>4. name \in DOMAIN GD!Posted(d) /\ GD!Posted(d)[name] = d.fields[name]
    BY <2>1, <2>3 DEF GD!Restrict
  <2> QED BY <1>1, <2>3, <2>4
<1>5. CASE d.kind # "gm_reply" /\ ~(d.kind = "gh_merge" /\ "merge_method" \notin DOMAIN d.fields)
  <2>1. GD!Posted(d) = d.fields
    BY <1>5, Zenon DEF GD!Posted
  <2>2. name = "merge_method" => d.kind = "gh_merge"
    BY <1>1 DEF GD!Summarized, KindNames, GoodDraft
  <2>3. name \in DOMAIN d.fields
    BY <1>2, <1>5, <2>2
  <2> QED BY <1>1, <2>1, <2>3
<1> QED BY <1>3, <1>4, <1>5

\* A draft that is not full is asked for its next field; a full one is read back.
Proceeded(d) ==
    /\ GoodDraft(d) /\ draft' = d
    /\ \/ /\ d.step = "confirm" /\ Complete(d)
          /\ Answered({"ready"}) /\ turn'.answer.of = GD!Spoken(d)
       \/ d.step = "collect" /\ Answered({"prompt"})

LEMMA Proceeding ==
  ASSUME TurnShape, NEW d, GoodDraft(d), d.step = "collect", GD!Proceed(d)
  PROVE  Proceeded(draft')
<1>1. CASE draft' = d /\ GD!Answer("prompt", <<>>)
  <2>1. Answered({"prompt"})
    BY <1>1, Answering
  <2> QED BY <1>1, <2>1 DEF Proceeded
<1>2. CASE GD!Missing(d) = <<>> /\ draft' = [d EXCEPT !.step = "confirm"]
           /\ GD!Answer("ready", GD!Spoken(d))
  <2>1. Answered({"ready"}) /\ turn'.answer.of = GD!Spoken(d)
    BY <1>2, Answering
  <2>2. draft' = [kind |-> d.kind, fields |-> d.fields, step |-> "confirm"]
    BY <1>2 DEF GoodDraft
  <2>3. draft'.kind = d.kind /\ draft'.fields = d.fields /\ draft'.step = "confirm"
    BY <2>2
  <2>4. GoodDraft(draft')
    BY <2>2, <2>3 DEF GoodDraft
  <2>5. Complete(d)
    BY <1>2, NothingMissing DEF GoodDraft
  <2>6. Complete(draft') /\ GD!Spoken(draft') = GD!Spoken(d)
    BY <2>3, <2>5 DEF Complete, GD!Spoken
  <2> QED BY <2>1, <2>3, <2>4, <2>6 DEF Proceeded
<1> QED BY <1>1, <1>2 DEF GD!Proceed

LEMMA Filling ==
  ASSUME NEW d, GoodDraft(d), d.step = "collect", NEW name \in FieldsOf(d.kind), NEW value
  PROVE  GoodDraft(GD!Filled(d, name, value)) /\ GD!Filled(d, name, value).step = "collect"
<1> DEFINE f == [n \in DOMAIN d.fields \cup {name} |-> IF n = name THEN value ELSE d.fields[n]]
<1>1. GD!Filled(d, name, value) = [d EXCEPT !.fields = f]
  BY DEF GD!Filled
<1>2. DOMAIN f = DOMAIN d.fields \cup {name}
  OBVIOUS
<1> HIDE DEF f
<1>3. PICK g : g = GD!Filled(d, name, value)
  OBVIOUS
<1>4. g = [kind |-> d.kind, fields |-> f, step |-> "collect"]
  BY <1>1, <1>3 DEF GoodDraft
<1>5. g.kind = d.kind /\ g.fields = f /\ g.step = "collect"
  BY <1>4
<1> QED BY <1>2, <1>3, <1>4, <1>5 DEF GoodDraft

\* A start phrase may give fields in line, and they are of the kind.
LEMMA InLine ==
  /\ {"repo", "pull_number"} \subseteq FieldsOf("gh_merge")
  /\ {"draft_id"} \subseteq FieldsOf("gm_send")
<1>1. PICK merge, send : /\ merge = GD!LegacyFields["gh_merge"]
                         /\ send = GD!LegacyFields["gm_send"]
  OBVIOUS
<1>2. merge = <<"mission_id", "repo", "pull_number">> /\ send = <<"mission_id", "draft_id">>
  BY <1>1 DEF GD!LegacyFields
<1>3. /\ 2 \in DOMAIN merge /\ 3 \in DOMAIN merge /\ 2 \in DOMAIN send
      /\ merge[2] = "repo" /\ merge[3] = "pull_number" /\ send[2] = "draft_id"
  BY <1>2
<1> QED BY <1>1, <1>3 DEF FieldsOf, Range

LEMMA StartProceeds ==
  ASSUME TurnInv, GD!Start
  PROVE  Proceeded(draft')
<1> DEFINE kind == turn.said.of
           named == IF Saying({"start"}) THEN {}
                    ELSE IF kind = "gh_merge" THEN {"repo", "pull_number"}
                    ELSE IF kind = "gm_send" THEN {"draft_id"} ELSE {}
           d == [kind |-> kind, step |-> "collect",
                 fields |-> [n \in named |-> GD!Utter("inline", 1)]]
<1>1. GD!Proceed(d)
  BY Zenon DEF GD!Start, GD!Saying, Saying
<1>2. kind \in KindNames
  <2>1. Saying(GD!Starts)
    BY DEF GD!Start, GD!Saying, Saying
  <2> QED BY <2>1, KindsAssumption DEF TurnInv, KindNames
<1>3. named \subseteq FieldsOf(kind)
  BY InLine
<1>4. d.kind = kind /\ d.step = "collect" /\ DOMAIN d.fields = named
      /\ d = [kind |-> d.kind, fields |-> d.fields, step |-> d.step]
  BY DEF d
<1>5. TurnShape
  BY DEF TurnInv
<1> HIDE DEF d, named, kind
<1>6. GoodDraft(d)
  BY <1>2, <1>3, <1>4 DEF GoodDraft
<1> QED BY <1>1, <1>4, <1>5, <1>6, Proceeding

LEMMA DraftPasses ==
  ASSUME TurnInv, DraftInv, TalkOfDraft
  PROVE  /\ turn.at \in {"draft", "dictation", "submit"}
         /\ UNCHANGED <<queue, cursor, items, spot, readback, offered>>
         /\ \/ Passed({"dictation"}) /\ UNCHANGED draft
            \/ Passed({"approvals-or-intake"}) /\ UNCHANGED draft /\ draft = GD!NoDraft
            \/ Passed({"submit"}) /\ UNCHANGED draft /\ draft.step = "confirm"
                                  /\ Saying(GD!Confirming)
            \/ Proceeded(draft')
            \/ Answered({"hint"}) /\ UNCHANGED draft
                                  /\ (Saying(GD!Confirming) => draft.step = "collect")
            \/ Answered({"cancelled", "failed"}) /\ draft' = GD!NoDraft
<1>0. TurnShape
  BY DEF TurnInv
<1>1. GD!GovernedDraftStep /\ UNCHANGED <<queue, cursor, items, spot, readback, offered>>
  BY DEF TalkOfDraft, voiceApprovalVars, voiceInboxVars, connectionVars, historyVars
<1>2. CASE GD!Cancel
  <2>1. At("draft") /\ draft' = GD!NoDraft /\ GD!Answer("cancelled", <<>>)
    BY <1>2 DEF GD!Cancel, GD!At, At, GD!Forget
  <2>2. Answered({"cancelled"})
    BY <1>0, <2>1, Answering
  <2>3. Answered({"cancelled", "failed"})
    BY <2>2 DEF Answered
  <2> QED BY <1>1, <2>1, <2>3 DEF At
<1>3. CASE GD!RefuseSecond
  <2>1. At("draft") /\ draft' = draft /\ GD!Answer("hint", <<>>)
    BY <1>3 DEF GD!RefuseSecond, GD!At, At, GD!draftVars
  <2>2. ~Saying(GD!Confirming)
    BY <1>3 DEF GD!RefuseSecond, GD!Saying, Saying, GD!Starts, GD!Confirming
  <2>3. Answered({"hint"})
    BY <1>0, <2>1, Answering
  <2> QED BY <1>1, <2>1, <2>2, <2>3 DEF At
<1>4. CASE GD!ReadCatalog
  <2>1. At("draft") /\ draft' = draft /\ GD!Goto("dictation")
    BY <1>4 DEF GD!ReadCatalog, GD!At, At
  <2> QED BY <1>0, <1>1, <2>1, Passing DEF At
<1>5. CASE GD!PassOn
  <2>1. At("dictation") /\ draft' = draft /\ draft = GD!NoDraft
        /\ GD!Goto("approvals-or-intake")
    BY <1>5 DEF GD!PassOn, GD!At, At, GD!draftVars, GD!Drafting
  <2> QED BY <1>0, <1>1, <2>1, Passing DEF At
<1>6. CASE GD!Start
  <2>1. At("dictation")
    BY <1>6 DEF GD!Start, GD!At, At
  <2> QED BY <1>1, <1>6, <2>1, StartProceeds DEF At
<1>7. CASE GD!Dictate \/ GD!NameMission
  <2>1. At("dictation") /\ draft # GD!NoDraft /\ draft.step = "collect"
    BY <1>7 DEF GD!Dictate, GD!NameMission, GD!Collecting, GD!At, At, GD!Drafting
  <2>2. GoodDraft(draft)
    BY <2>1 DEF DraftInv, GoodDraft
  <2>3. \/ GD!Answer("hint", <<>>) /\ draft' = draft
        \/ GD!Proceed(draft)
        \/ GD!Missing(draft) # <<>> /\ \E value : GD!Proceed(GD!Filled(draft, GD!Asked, value))
    BY <1>7, Zenon DEF GD!Dictate, GD!NameMission
  <2>4. ASSUME GD!Answer("hint", <<>>) PROVE Answered({"hint"})
    BY <1>0, <2>4, Answering
  <2>5. ASSUME GD!Proceed(draft) PROVE Proceeded(draft')
    BY <1>0, <2>1, <2>2, <2>5, Proceeding
  <2>6. ASSUME GD!Missing(draft) # <<>>, NEW value,
               GD!Proceed(GD!Filled(draft, GD!Asked, value))
        PROVE  Proceeded(draft')
    <3>1. GD!Asked \in FieldsOf(draft.kind)
      BY <2>2, <2>6, AskedField DEF GD!Asked, GoodDraft
    <3>2. PICK d : d = GD!Filled(draft, GD!Asked, value)
      OBVIOUS
    <3>3. GoodDraft(d) /\ d.step = "collect"
      BY <2>1, <2>2, <3>1, <3>2, Filling
    <3> QED BY <1>0, <2>6, <3>2, <3>3, Proceeding
  <2> QED BY <1>1, <2>1, <2>3, <2>4, <2>5, <2>6 DEF At
<1>8. CASE GD!AskToConfirm
  <2>1. At("dictation") /\ draft' = draft /\ draft.step = "confirm"
    BY <1>8 DEF GD!AskToConfirm, GD!At, At, GD!draftVars
  <2>2. IF Saying(GD!Confirming) THEN GD!Goto("submit") ELSE GD!Answer("hint", <<>>)
    BY <1>8, Zenon DEF GD!AskToConfirm, GD!Saying, Saying
  <2>3. \/ Saying(GD!Confirming) /\ Passed({"submit"})
        \/ ~Saying(GD!Confirming) /\ Answered({"hint"})
    BY <1>0, <2>2, Passing, Answering
  <2> QED BY <1>1, <2>1, <2>3 DEF At
<1>9. CASE GD!SubmitFails
  <2>1. At("submit") /\ draft' = GD!NoDraft /\ GD!Answer("failed", <<>>)
    BY <1>9 DEF GD!SubmitFails, GD!At, At, GD!Forget
  <2>2. Answered({"failed"})
    BY <1>0, <2>1, Answering
  <2>3. Answered({"cancelled", "failed"})
    BY <2>2 DEF Answered
  <2> QED BY <1>1, <2>1, <2>3 DEF At
<1> QED BY <1>1, <1>2, <1>3, <1>4, <1>5, <1>6, <1>7, <1>8, <1>9 DEF GD!GovernedDraftStep

LEMMA SubmittingPasses ==
  ASSUME TurnShape, Submitting
  PROVE  /\ At("submit") /\ Answered({"requested", "failed"})
         /\ draft' = GD!NoDraft /\ readback' = {}
         /\ UNCHANGED <<queue, cursor, items, spot, offered>>
<1>1. PICK a \in Approvals : SubmitDraft(a)
  BY DEF Submitting
<1>2. /\ GD!At("submit") /\ draft' = GD!NoDraft /\ readback' = {}
      /\ UNCHANGED <<queue, cursor, items, spot, offered>>
  BY <1>1 DEF SubmitDraft, GD!Submit, GD!SubmitLosesReply, GD!OpensApproval, GD!Forget,
              voiceApprovalVars, voiceInboxVars
<1>3. GD!Answer("requested", <<a>>) \/ GD!Answer("failed", <<>>)
  BY <1>1 DEF SubmitDraft, GD!Submit, GD!SubmitLosesReply
<1>4. Answered({"requested"}) \/ Answered({"failed"})
  BY <1>3, Answering
<1> QED BY <1>2, <1>4 DEF Answered, GD!At, At

LEMMA IntakePasses ==
  ASSUME TurnShape, Intake
  PROVE  /\ At("approvals-or-intake") /\ Answered({"reply", "mission", "failed"})
         /\ UNCHANGED <<queue, cursor, items, spot, draft, readback, offered>>
<1>1. /\ At("approvals-or-intake")
      /\ UNCHANGED <<queue, cursor, items, spot, draft, readback, offered>>
  BY DEF Intake, voiceApprovalVars, voiceInboxVars, historyVars
<1>2. Answer("reply", <<>>) \/ (\E x : Answer("mission", x)) \/ Answer("failed", <<>>)
  BY DEF Intake
<1>3. Answered({"reply"}) \/ Answered({"mission"}) \/ Answered({"failed"})
  BY <1>2, Answering
<1> QED BY <1>1, <1>3 DEF Answered

LEMMA ApprovalsPass ==
  ASSUME TurnInv, TalkOfApprovals
  PROVE  /\ turn.at \in OfApprovals
         /\ UNCHANGED <<items, spot, draft, readback, offered>>
         /\ \/ At("approvals-or-intake") /\ Passed({"approvals"}) /\ Saying(VA!ApprovalPhrases)
                                         /\ UNCHANGED <<queue, cursor>>
            \/ VA!VoiceApprovalStep /\ Saying(VA!ApprovalPhrases) /\
               \/ Passed({"pending"}) /\ VA!LoadFirst
               \/ Passed({"bundle"}) /\ (VA!Move \/ VA!DecideIt \/ VA!FindById \/ VA!FocusPending)
               \/ Passed({"decide"}) /\ VA!GetBundle
               \/ Passed({"refresh"}) /\ VA!PostDecision
               \/ Answered({"approval"}) /\ VA!GetBundle
               \/ Answered({"decided"}) /\ (VA!PostDecision \/ VA!Refresh \/ VA!FailRequest)
               \/ Answered({"approvals"}) /\ VA!TellPending
               \/ Answered({"hint"}) /\ (VA!FocusPending \/ UNCHANGED <<queue, cursor>>)
               \/ Answered({"failed"}) /\ UNCHANGED <<queue, cursor>>
                                      /\ turn'.answer.of = turn.target
<1>0. TurnShape
  BY DEF TurnInv
<1>1. UNCHANGED <<items, spot, draft, readback, offered>>
  BY DEF TalkOfApprovals, voiceInboxVars, draftVars, connectionVars, historyVars
<1>2. CASE At("approvals-or-intake") /\ Saying(VA!ApprovalPhrases) /\ Goto("approvals")
           /\ UNCHANGED voiceApprovalVars
  <2>1. UNCHANGED <<queue, cursor>>
    BY <1>2 DEF voiceApprovalVars
  <2>2. Passed({"approvals"})
    BY <1>0, <1>2, Passing
  <2> QED BY <1>1, <1>2, <2>1, <2>2 DEF At, OfApprovals
<1>3. ASSUME turn.at \in OfApprovals \ {"approvals-or-intake"}
      PROVE  Saying(VA!ApprovalPhrases)
  BY <1>3 DEF TurnInv
<1>4. CASE VA!LoadFirst
  <2>1. At("approvals") /\ VA!Goto("pending")
    BY <1>4 DEF VA!LoadFirst, VA!At, At
  <2>2. VA!VoiceApprovalStep
    BY <1>4 DEF VA!VoiceApprovalStep
  <2> QED BY <1>0, <1>1, <1>3, <1>4, <2>1, <2>2, Passing DEF At, OfApprovals
<1>5. CASE VA!Move \/ VA!DecideIt \/ VA!FindById \/ VA!FocusPending
  <2>1. /\ turn.at \in {"approvals", "pending"}
        /\ \/ VA!Answer("hint", <<>>)
           \/ \E x : VA!With("bundle", x)
           \/ \E x : turn' = [turn EXCEPT !.at = "bundle", !.list = VA!Pending, !.target = x]
    BY <1>5 DEF VA!Move, VA!DecideIt, VA!FindById, VA!FocusPending, VA!At, At, VA!FocusOn
  <2>2. Answered({"hint"}) \/ Passed({"bundle"})
    <3>1. ASSUME NEW x, turn' = [turn EXCEPT !.at = "bundle", !.list = VA!Pending, !.target = x]
          PROVE  Passed({"bundle"})
      BY <1>0, <3>1 DEF Passed, TurnShape
    <3> QED BY <1>0, <2>1, <3>1, Passing, Answering
  <2>3. VA!VoiceApprovalStep
    BY <1>5 DEF VA!VoiceApprovalStep, VA!GetPending
  <2>4. VA!FocusPending \/ UNCHANGED <<queue, cursor>> \/ Passed({"bundle"})
    <3>1. VA!Move => \E x : VA!With("bundle", x)
      BY DEF VA!Move, VA!FocusOn
    <3>2. VA!Move => Passed({"bundle"})
      BY <1>0, <3>1, Passing
    <3> QED BY <1>5, <3>2 DEF VA!DecideIt, VA!FindById, VA!voiceApprovalVars
  <2> QED BY <1>1, <1>3, <1>5, <2>1, <2>2, <2>3, <2>4 DEF OfApprovals
<1>6. CASE VA!GetBundle
  <2>1. At("bundle") /\ (VA!Goto("decide") \/ VA!Answer("approval", turn.target))
    BY <1>6 DEF VA!GetBundle, VA!At, At
  <2>2. Passed({"decide"}) \/ Answered({"approval"})
    BY <1>0, <2>1, Passing, Answering
  <2>3. VA!VoiceApprovalStep
    BY <1>6 DEF VA!VoiceApprovalStep
  <2> QED BY <1>1, <1>3, <1>6, <2>1, <2>2, <2>3 DEF At, OfApprovals
<1>7. CASE VA!PostDecision \/ VA!Refresh \/ VA!FailRequest
  <2>1. /\ turn.at \in {"pending", "bundle", "decide", "refresh"}
        /\ \/ VA!PostDecision /\ VA!Goto("refresh")
           \/ VA!Answer("decided", turn.target)
           \/ VA!Answer("failed", turn.target) /\ UNCHANGED <<queue, cursor>>
    BY <1>7 DEF VA!PostDecision, VA!Recorded, VA!Failed, VA!Refresh, VA!FailRequest, VA!At,
                VA!voiceApprovalVars
  <2>2. \/ VA!PostDecision /\ Passed({"refresh"})
        \/ Answered({"decided"})
        \/ Answered({"failed"}) /\ turn'.answer.of = turn.target /\ UNCHANGED <<queue, cursor>>
    BY <1>0, <2>1, Passing, Answering
  <2>3. VA!VoiceApprovalStep
    BY <1>7 DEF VA!VoiceApprovalStep
  <2> QED BY <1>1, <1>3, <1>7, <2>1, <2>2, <2>3 DEF OfApprovals
<1>8. CASE VA!Refuse \/ VA!MoveNowhere \/ VA!TellPending \/ VA!LoseReply
  <2>1. /\ turn.at \in {"approvals", "pending", "decide"}
        /\ \/ VA!Answer("hint", <<>>) /\ UNCHANGED <<queue, cursor>>
           \/ VA!Answer("failed", turn.target) /\ UNCHANGED <<queue, cursor>>
           \/ VA!Answer("approvals", VA!Pending) /\ VA!TellPending
    BY <1>8 DEF VA!Refuse, VA!MoveNowhere, VA!TellPending, VA!LoseReply, VA!Failed, VA!At,
                VA!voiceApprovalVars
  <2>2. \/ Answered({"hint"}) /\ UNCHANGED <<queue, cursor>>
        \/ Answered({"failed"}) /\ turn'.answer.of = turn.target /\ UNCHANGED <<queue, cursor>>
        \/ Answered({"approvals"}) /\ VA!TellPending
    BY <1>0, <2>1, Answering
  <2>3. VA!VoiceApprovalStep
    BY <1>8 DEF VA!VoiceApprovalStep, VA!GetPending
  <2> QED BY <1>1, <1>3, <2>1, <2>2, <2>3 DEF OfApprovals
<1>9. \/ At("approvals-or-intake") /\ Saying(VA!ApprovalPhrases) /\ Goto("approvals")
         /\ UNCHANGED voiceApprovalVars
      \/ VA!VoiceApprovalStep
  BY DEF TalkOfApprovals
<1> QED BY <1>2, <1>4, <1>5, <1>6, <1>7, <1>8, <1>9 DEF VA!VoiceApprovalStep, VA!GetPending
-----------------------------------------------------------------------------
(* The utterance and what it is about.                                     *)

\* The turn begins anew.
Fresh == /\ turn' = [at |-> turn'.at, said |-> Utter("none", 0), target |-> <<>>, list |-> <<>>,
                     answer |-> NoAnswer]
         /\ turn'.at \in {"closed", "listening"}

LEMMA Freshening ==
  \/ Connect \/ MisHear \/ Speak \/ ForgetConnection \/ turn' = Listening => Fresh
<1>1. \/ Connect \/ MisHear \/ Speak \/ ForgetConnection \/ turn' = Listening =>
        \/ turn' = Listening
        \/ turn' = [Listening EXCEPT !.at = "closed"]
  BY DEF Connect, MisHear, Speak, ForgetConnection
<1>2. turn' = Listening => Fresh
  <2> SUFFICES ASSUME turn' = Listening PROVE Fresh
    OBVIOUS
  <2>1. turn'.at = "listening"
    BY DEF Listening
  <2> QED BY <2>1, Zenon DEF Listening, Fresh
<1>3. turn' = [Listening EXCEPT !.at = "closed"] => Fresh
  BY DEF Listening, Fresh
<1> QED BY <1>1, <1>2, <1>3

LEMMA FreshTurn ==
  ASSUME Fresh
  PROVE  /\ TurnInv' /\ turn'.answer.kind = "none" /\ turn'.said.phrase = "none"
         /\ turn'.at \in {"closed", "listening"}
<1>1. PICK said, answer : said = Utter("none", 0) /\ answer = NoAnswer
  OBVIOUS
<1>2. turn' = [at |-> turn'.at, said |-> said, target |-> <<>>, list |-> <<>>,
               answer |-> answer]
  BY <1>1 DEF Fresh
<1>3. said = [phrase |-> said.phrase, of |-> said.of] /\ said.phrase = "none"
  BY <1>1 DEF Utter
<1>4. answer = [kind |-> answer.kind, of |-> answer.of] /\ answer.kind = "none"
  BY <1>1 DEF NoAnswer
<1>5. turn'.said = said /\ turn'.answer = answer /\ turn'.target = <<>> /\ turn'.list = <<>>
  BY <1>2
<1>6. TurnShape'
  BY <1>2, <1>3, <1>4, <1>5 DEF TurnShape
<1>7. "none" \notin VA!ById \cup GD!Starts
  BY DEF VA!ById, GD!Starts
<1> QED BY <1>3, <1>4, <1>5, <1>6, <1>7 DEF TurnInv, Saying, At, Labels, OfApprovals, Fresh

\* An utterance that is passed on is the same one.
LEMMA PassedTurn ==
  ASSUME TurnShape, NEW L, Passed(L)
  PROVE  TurnShape' /\ turn'.said = turn.said /\ turn'.at \in L
<1>1. turn'.said = turn.said
  BY DEF Passed
<1> QED BY <1>1 DEF Passed, TurnShape

LEMMA UttersOneOf ==
  ASSUME NEW u \in Utterances
  PROVE  \/ \E p \in PlainPhrases : u = Utter(p, 0)
         \/ \E p \in VA!ById, a \in Approvals : u = Utter(p, a)
         \/ \E m \in Missions : u = Utter("mission-id", m)
         \/ u = Utter("words", 1)
BY DEF Utterances

LEMMA HeardTurn ==
  ASSUME Hearing
  PROVE  TurnInv' /\ turn'.at = "heard"
         /\ UNCHANGED <<queue, cursor, items, spot, draft, readback, offered>>
<1>1. PICK u \in Utterances \cup Starting : Hear(u)
  BY DEF Hearing
<1>2. PICK p, of :
        /\ u = [phrase |-> p, of |-> of]
        /\ \/ p \in PlainPhrases \cup {"mission-id", "words"}
           \/ p \in VA!ById /\ of \in Approvals
           \/ p \in GD!Starts /\ of \in Kinds
  <2>1. CASE u \in Starting
    <3>1. \E p \in GD!Starts, kind \in Kinds : u = Utter(p, kind)
      BY <2>1 DEF Starting
    <3> QED BY <3>1, Zenon DEF Utter
  <2>2. CASE u \in Utterances
    <3>1. \/ \E p \in PlainPhrases : u = Utter(p, 0)
          \/ \E p \in VA!ById, a \in Approvals : u = Utter(p, a)
          \/ \E m \in Missions : u = Utter("mission-id", m)
          \/ u = Utter("words", 1)
      BY <2>2, UttersOneOf
    <3> QED BY <3>1, Zenon DEF Utter
  <2> QED BY <1>1, <2>1, <2>2
<1>3. u = [phrase |-> u.phrase, of |-> u.of] /\ u.phrase = p /\ u.of = of
  BY <1>2
<1>4. p \in PlainPhrases \cup {"mission-id", "words"} => p \notin VA!ById /\ p \notin GD!Starts
  BY DEF PlainPhrases, VA!ById, VA!It, VA!Bare, VA!Readings, VA!ApprovalPhrases,
         VI!InboxPhrases, VI!Moves, VI!Questions, VI!TriagePhrases, VB!BriefingPhrases,
         VB!Overviews, VB!MissionMoves, GD!Vague, GD!Confirming, GD!Starts
<1>9. VA!ById \cap GD!Starts = {}
  BY DEF VA!ById, GD!Starts
<1>5. turn' = [at |-> "heard", said |-> u, target |-> <<>>, list |-> <<>>,
               answer |-> NoAnswer]
  BY <1>1 DEF Hear, Listening
<1>6. /\ turn'.at = "heard" /\ turn'.said = u
      /\ turn'.answer = [kind |-> turn'.answer.kind, of |-> turn'.answer.of]
  BY <1>5 DEF NoAnswer
<1>7. TurnShape'
  BY <1>3, <1>5, <1>6 DEF TurnShape
<1>8. UNCHANGED <<queue, cursor, items, spot, draft, readback, offered>>
  BY <1>1 DEF Hear, dialogueVars, voiceApprovalVars, voiceInboxVars, draftVars, connectionVars,
              historyVars
<1> QED BY <1>2, <1>3, <1>4, <1>6, <1>7, <1>8, <1>9 DEF TurnInv, Saying, At, Labels, OfApprovals

LEMMA TurnStays == TurnInv /\ DraftInv /\ [Next]_vars => TurnInv'
<1> SUFFICES ASSUME TurnInv, DraftInv, [Next]_vars PROVE TurnInv'
  OBVIOUS
<1>0. TurnShape
  BY DEF TurnInv
<1>1. CASE Still
  BY <1>1 DEF Still, TurnInv, TurnShape, Saying, At
<1>2. CASE Fresh
  BY <1>2, FreshTurn
<1>3. CASE Hearing
  BY <1>3, HeardTurn
<1>4. ASSUME NEW L, Passed(L), L \subseteq Labels \ OfApprovals,
             L \cap {"inbox", "triage", "reload"} # {} => Saying(VI!InboxPhrases),
             "detail" \in L => Saying(VB!BriefingPhrases)
      PROVE  TurnInv'
  <2>1. TurnShape' /\ turn'.said = turn.said /\ turn'.at \in L
    BY <1>0, <1>4, PassedTurn
  <2> QED BY <1>4, <2>1 DEF TurnInv, Saying, At, OfApprovals
<1>5. ASSUME NEW L, Passed(L), L \subseteq OfApprovals,
             L # {"approvals-or-intake"} => Saying(VA!ApprovalPhrases),
             "pending" \in L => ~Saying(VA!It \cup VA!Bare),
             "refresh" \in L => Saying(VA!It)
      PROVE  TurnInv'
  <2>1. TurnShape' /\ turn'.said = turn.said /\ turn'.at \in L
    BY <1>0, <1>5, PassedTurn
  <2> QED BY <1>5, <2>1 DEF TurnInv, Saying, At, OfApprovals, Labels
<1>6. ASSUME NEW K, Answered(K) PROVE TurnInv'
  <2>1. Passed({"answer"})
    BY <1>6 DEF Answered
  <2> QED BY <1>4, <2>1 DEF Labels, OfApprovals
<1>7. CASE Route
  BY <1>0, <1>2, <1>4, <1>6, <1>7, RoutePasses, Freshening DEF Labels, OfApprovals
<1>8. CASE TalkOfInbox
  <2>1. turn.at \in {"inbox", "triage", "reload"} /\ Saying(VI!InboxPhrases)
    BY <1>0, <1>8, InboxPasses DEF TurnInv
  <2>2. Passed({"triage"}) \/ Passed({"reload"}) \/ \E K : Answered(K)
    BY <1>0, <1>8, InboxPasses
  <2> QED BY <1>4, <1>6, <2>1, <2>2 DEF Labels, OfApprovals
<1>9. CASE TalkOfMissions
  <2>1. \/ Passed({"draft"}) \/ \E K : Answered(K)
        \/ Passed({"detail"}) /\ Saying(VB!BriefingPhrases)
    BY <1>9, MissionsPass
  <2> QED BY <1>4, <1>6, <2>1 DEF Labels, OfApprovals
<1>10. CASE TalkOfDraft
  <2>1. \/ Passed({"dictation"}) \/ Passed({"approvals-or-intake"}) \/ Passed({"submit"})
        \/ \E K : Answered(K)
    BY <1>10, DraftPasses DEF Proceeded
  <2> QED BY <1>4, <1>5, <1>6, <2>1 DEF Labels, OfApprovals
<1>11. CASE Submitting \/ Intake
  BY <1>0, <1>6, <1>11, SubmittingPasses, IntakePasses
<1>12. CASE TalkOfApprovals
  <2>1. \/ \E K : Answered(K)
        \/ Saying(VA!ApprovalPhrases) /\ Passed({"approvals"})
        \/ Saying(VA!ApprovalPhrases) /\ Passed({"bundle"})
        \/ Saying(VA!ApprovalPhrases) /\ Passed({"decide"})
        \/ Saying(VA!ApprovalPhrases) /\ Passed({"pending"}) /\ VA!LoadFirst
        \/ Saying(VA!ApprovalPhrases) /\ Passed({"refresh"}) /\ VA!PostDecision
    BY <1>12, ApprovalsPass
  <2>2. VA!LoadFirst => ~Saying(VA!It \cup VA!Bare)
    BY DEF VA!LoadFirst, VA!ById, VA!It, VA!Bare, VA!Saying, Saying
  <2>3. Passed({"refresh"}) /\ VA!PostDecision => Saying(VA!It)
    <3>1. VA!PostDecision => Saying(VA!It) \/ turn' = [turn EXCEPT !.at = "answer", !.answer = turn'.answer]
      BY <1>0 DEF VA!PostDecision, VA!Recorded, VA!Failed, VA!Saying, Saying, VA!Answer, TurnShape
    <3> QED BY <1>0, <3>1 DEF Passed, TurnShape
  <2>4. CASE Passed({"pending"}) /\ VA!LoadFirst /\ Saying(VA!ApprovalPhrases)
    BY <1>5, <2>2, <2>4 DEF OfApprovals
  <2>5. CASE Passed({"refresh"}) /\ VA!PostDecision /\ Saying(VA!ApprovalPhrases)
    BY <1>5, <2>3, <2>5 DEF OfApprovals
  <2>6. CASE Saying(VA!ApprovalPhrases) /\ (Passed({"approvals"}) \/ Passed({"bundle"}) \/ Passed({"decide"}))
    BY <1>5, <2>6 DEF OfApprovals
  <2> QED BY <1>6, <2>1, <2>4, <2>5, <2>6
<1> QED BY <1>1, <1>2, <1>3, <1>7, <1>8, <1>9, <1>10, <1>11, <1>12, NextPasses, Freshening

LEMMA TargetStays ==
  TargetInv /\ TurnInv /\ QueueInv /\ QueueInv' /\ DraftInv /\ [Next]_vars => TargetInv'
<1> SUFFICES ASSUME TargetInv, TurnInv, QueueInv, QueueInv', DraftInv, [Next]_vars,
                    turn'.at \in {"bundle", "decide", "refresh"}
             PROVE  /\ \E a \in Approvals : turn'.target = <<a>>
                    /\ turn'.said.phrase \in VA!ById =>
                          turn'.list \in Seq(Approvals) /\ Rising(turn'.list)
                          /\ turn'.target[1] \in Range(turn'.list)
  BY DEF TargetInv, Saying
<1>0. TurnShape
  BY DEF TurnInv
<1>1. CASE Still
  BY <1>1 DEF Still, TargetInv, Saying
<1>2. CASE Fresh
  BY <1>2, FreshTurn
<1>3. CASE Hearing
  BY <1>3, HeardTurn
<1>4. ASSUME NEW L, Passed(L), L \cap {"bundle", "decide", "refresh"} = {} PROVE FALSE
  BY <1>4 DEF Passed
<1>5. ASSUME NEW K, Answered(K) PROVE FALSE
  BY <1>5 DEF Answered, Passed
<1>6. CASE Route
  BY <1>0, <1>2, <1>4, <1>5, <1>6, RoutePasses, Freshening
<1>7. CASE TalkOfInbox
  BY <1>0, <1>4, <1>5, <1>7, InboxPasses
<1>8. CASE TalkOfMissions
  BY <1>4, <1>5, <1>8, MissionsPass
<1>9. CASE TalkOfDraft
  <2>1. \/ Passed({"dictation"}) \/ Passed({"approvals-or-intake"}) \/ Passed({"submit"})
        \/ \E K : Answered(K)
    BY <1>9, DraftPasses DEF Proceeded
  <2> QED BY <1>4, <1>5, <2>1
<1>10. CASE Submitting \/ Intake
  BY <1>0, <1>5, <1>10, SubmittingPasses, IntakePasses
<1>11. CASE TalkOfApprovals
  <2>1. \/ VA!Move \/ VA!DecideIt \/ VA!FindById \/ VA!FocusPending \/ VA!GetBundle
        \/ VA!PostDecision
    <3>1. ~Passed({"approvals"}) /\ ~Passed({"pending"})
      BY <1>4
    <3> QED BY <1>5, <1>11, <3>1, ApprovalsPass
  <2>2. CASE VA!Move
    <3>1. /\ turn' = [turn EXCEPT !.at = "bundle", !.target = <<queue[cursor' + 1]>>]
          /\ queue # <<>> /\ queue' = queue
          /\ ~Saying(VA!ById)
      BY <2>2 DEF VA!Move, VA!FocusOn, VA!With, VA!Saying, Saying, VA!ById
    <3>2. turn'.target = <<queue[cursor' + 1]>> /\ turn'.said = turn.said
      BY <1>0, <3>1 DEF TurnShape
    <3>3. queue[cursor' + 1] \in Approvals
      BY <3>1 DEF QueueInv
    <3> QED BY <3>1, <3>2, <3>3 DEF Saying
  <2>3. CASE VA!DecideIt
    <3>1. /\ turn' = [turn EXCEPT !.at = "bundle", !.target = VA!Focused] \/ VA!Answer("hint", <<>>)
          /\ VA!Focused # <<>> \/ VA!Answer("hint", <<>>)
          /\ ~Saying(VA!ById)
      BY <2>3 DEF VA!DecideIt, VA!With, VA!Saying, Saying, VA!ById, VA!It
    <3>2. ~VA!Answer("hint", <<>>)
      BY <1>0, <1>5, Answering
    <3>3. turn'.target = VA!Focused /\ turn'.said = turn.said
      BY <1>0, <3>1, <3>2 DEF TurnShape
    <3>4. VA!Focused = <<queue[cursor + 1]>> /\ cursor < Len(queue)
      BY <3>1, <3>2 DEF VA!Focused
    <3>5. queue[cursor + 1] \in Approvals
      BY <3>4 DEF QueueInv
    <3> QED BY <3>1, <3>3, <3>4, <3>5 DEF Saying
  <2>4. CASE VA!FindById
    <3>1. ~VA!Answer("hint", <<>>)
      BY <1>0, <1>5, Answering
    <3>2. PICK q : q = VA!Pending
      OBVIOUS
    <3>3. /\ turn' = [turn EXCEPT !.at = "bundle", !.list = q, !.target = <<turn.said.of>>]
          /\ approval[turn.said.of] = "pending" /\ Saying(VA!ById)
      BY <2>4, <3>1, <3>2 DEF VA!FindById, VA!Saying, Saying
    <3>4. turn'.target = <<turn.said.of>> /\ turn'.list = q
      BY <1>0, <3>3 DEF TurnShape
    <3>5. turn.said.of \in Approvals
      BY <3>3 DEF TurnInv
    <3>6. q \in Seq(Approvals) /\ Rising(q) /\ turn.said.of \in Range(q)
      BY <3>2, <3>3, <3>5, PendingList, PendingRises
    <3> QED BY <3>4, <3>5, <3>6
  <2>5. CASE VA!FocusPending
    <3>1. ~VA!Answer("hint", <<>>)
      BY <1>0, <1>5, Answering
    <3>2. PICK q : q = VA!Pending
      OBVIOUS
    <3>3. /\ turn' = [turn EXCEPT !.at = "bundle", !.target = <<q[cursor' + 1]>>]
          /\ queue' = q /\ q # <<>> /\ ~Saying(VA!ById)
      BY <2>5, <3>1, <3>2 DEF VA!FocusPending, VA!FocusOn, VA!With, VA!Saying, Saying
    <3>4. turn'.target = <<q[cursor' + 1]>> /\ turn'.said = turn.said
      BY <1>0, <3>3 DEF TurnShape
    <3>5. q[cursor' + 1] \in Approvals
      BY <3>3 DEF QueueInv
    <3> QED BY <3>3, <3>4, <3>5 DEF Saying
  <2>6. CASE VA!GetBundle \/ VA!PostDecision
    <3>1. /\ turn.at \in {"bundle", "decide"}
          /\ \/ \E label : VA!Goto(label)
             \/ \E kind, x : VA!Answer(kind, x)
      BY <2>6 DEF VA!GetBundle, VA!PostDecision, VA!Recorded, VA!Failed, VA!At
    <3>2. ASSUME NEW kind, NEW x, VA!Answer(kind, x) PROVE FALSE
      BY <1>0, <1>5, <3>2, Answering
    <3>3. PICK label : VA!Goto(label)
      BY <3>1, <3>2
    <3>4. turn'.said = turn.said /\ turn'.target = turn.target /\ turn'.list = turn.list
      BY <1>0, <3>3 DEF VA!Goto, TurnShape
    <3> QED BY <3>1, <3>4 DEF TargetInv, Saying
  <2> QED BY <2>1, <2>2, <2>3, <2>4, <2>5, <2>6
<1> QED BY <1>1, <1>2, <1>3, <1>6, <1>7, <1>8, <1>9, <1>10, <1>11, NextPasses, Freshening

LEMMA DraftStays == DraftInv /\ TurnInv /\ [Next]_vars => DraftInv'
<1> SUFFICES ASSUME DraftInv, TurnInv, [Next]_vars PROVE DraftInv'
  OBVIOUS
<1>0. TurnShape
  BY DEF TurnInv
<1>1. CASE Still
  BY <1>1 DEF Still, DraftInv, At, Saying
<1>2. ASSUME UNCHANGED draft, ~(turn'.at \in {"submit"} \cup OfApprovals) PROVE DraftInv'
  BY <1>2 DEF DraftInv, At
<1>3. ASSUME draft' = GD!NoDraft, turn'.at # "submit" PROVE DraftInv'
  BY <1>3 DEF DraftInv, GD!NoDraft, At
<1>4. CASE Hearing
  BY <1>2, <1>4, HeardTurn DEF OfApprovals
<1>5. CASE ForgetConnection
  BY <1>3, <1>5, FreshTurn, Freshening DEF ForgetConnection
<1>6. CASE Fresh /\ UNCHANGED draft
  BY <1>2, <1>6, FreshTurn DEF OfApprovals
<1>7. CASE Connect \/ MisHear \/ Speak
  <2>1. UNCHANGED draft
    BY <1>7 DEF Connect, MisHear, Speak, dialogueVars, draftVars
  <2> QED BY <1>6, <1>7, <2>1, Freshening
<1>8. ASSUME NEW L, Passed(L), L \cap ({"submit"} \cup OfApprovals) = {}, UNCHANGED draft
      PROVE  DraftInv'
  BY <1>2, <1>8 DEF Passed
<1>9. ASSUME NEW K, Answered(K), UNCHANGED draft
      PROVE  DraftInv'
  <2>1. Passed({"answer"})
    BY <1>9 DEF Answered
  <2> QED BY <1>8, <1>9, <2>1 DEF OfApprovals
<1>10. CASE Route
  BY <1>0, <1>6, <1>8, <1>9, <1>10, RoutePasses, Freshening DEF OfApprovals
<1>11. CASE TalkOfInbox
  BY <1>0, <1>8, <1>9, <1>11, InboxPasses DEF OfApprovals
<1>12. CASE TalkOfMissions
  BY <1>8, <1>9, <1>12, MissionsPass DEF OfApprovals
<1>13. CASE Submitting \/ Intake
  <2>1. CASE Submitting
    <3>1. draft' = GD!NoDraft /\ turn'.at = "answer"
      BY <1>0, <2>1, SubmittingPasses DEF Answered, Passed
    <3> QED BY <1>3, <3>1
  <2>2. CASE Intake
    BY <1>0, <1>9, <2>2, IntakePasses
  <2> QED BY <1>13, <2>1, <2>2
<1>14. CASE TalkOfApprovals
  <2>1. draft = GD!NoDraft /\ UNCHANGED draft
    BY <1>14, ApprovalsPass DEF DraftInv
  <2>2. turn'.at # "submit"
    <3>1. \/ \E K : Answered(K)
          \/ \E L : Passed(L) /\ "submit" \notin L
      <4>1. \A label : label # "submit" => "submit" \notin {label}
        OBVIOUS
      <4> QED BY <1>14, <4>1, ApprovalsPass
    <3> QED BY <3>1 DEF Answered, Passed
  <2> QED BY <1>3, <2>1, <2>2
<1>15. CASE TalkOfDraft
  <2>1. CASE Passed({"dictation"}) /\ UNCHANGED draft
    BY <1>8, <2>1 DEF OfApprovals
  <2>2. CASE Passed({"approvals-or-intake"}) /\ UNCHANGED draft /\ draft = GD!NoDraft
    <3>1. turn'.at # "submit" /\ draft' = GD!NoDraft
      BY <2>2 DEF Passed
    <3> QED BY <1>3, <3>1
  <2>3. CASE /\ Passed({"submit"}) /\ UNCHANGED draft /\ draft.step = "confirm"
             /\ Saying(GD!Confirming)
    <3>1. turn'.at = "submit" /\ turn'.said = turn.said
      BY <2>3 DEF Passed
    <3> QED BY <2>3, <3>1 DEF DraftInv, At, Saying, OfApprovals
  <2>4. CASE Proceeded(draft')
    <3>1. turn'.at = "answer"
      BY <2>4 DEF Proceeded, Answered, Passed
    <3>2. draft' # GD!NoDraft /\ draft'.step # "none"
      BY <2>4 DEF Proceeded, GD!NoDraft
    <3>3. /\ draft' = [kind |-> draft'.kind, fields |-> draft'.fields, step |-> draft'.step]
          /\ draft'.kind \in KindNames /\ DOMAIN draft'.fields \subseteq FieldsOf(draft'.kind)
          /\ draft'.step \in {"confirm", "collect"}
      BY <2>4 DEF Proceeded, GoodDraft
    <3> QED BY <3>1, <3>2, <3>3 DEF DraftInv, At, OfApprovals, GD!NoDraft
  <2>5. CASE Answered({"hint"}) /\ UNCHANGED draft
    BY <1>9, <2>5
  <2>6. CASE Answered({"cancelled", "failed"}) /\ draft' = GD!NoDraft
    <3>1. turn'.at # "submit" /\ draft' = GD!NoDraft
      BY <2>6 DEF Answered, Passed
    <3> QED BY <1>3, <3>1
  <2> QED BY <1>15, <2>1, <2>2, <2>3, <2>4, <2>5, <2>6, DraftPasses
<1> QED BY <1>1, <1>4, <1>5, <1>7, <1>10, <1>11, <1>12, <1>13, <1>14, <1>15, NextPasses
-----------------------------------------------------------------------------
(* What is claimed, and what was read out.                                 *)

\* A decision stays on record.
LEMMA DecidedGrows == [Next]_vars => decided \subseteq decided'
<1> SUFFICES ASSUME [Next]_vars PROVE decided \subseteq decided'
  OBVIOUS
<1>1. CASE TalkOfApprovals
  BY <1>1 DEF TalkOfApprovals, VA!VoiceApprovalStep, VA!Refuse, VA!LoadFirst, VA!Move,
              VA!MoveNowhere, VA!DecideIt, VA!GetPending, VA!FindById, VA!TellPending,
              VA!FocusPending, VA!GetBundle, VA!PostDecision, VA!LoseReply, VA!Apply,
              VA!Refresh, VA!FailRequest, VA!UntouchedByVoice
<1>2. CASE Elsewhere
  BY <1>2 DEF Elsewhere, RequestElsewhere, DecideElsewhere
<1>3. CASE Texting
  BY <1>3 DEF Texting, Sms!SmsStep, Sms!NoticeStep, Sms!WebhookStep, Sms!StartNotice,
              Sms!SendText, Sms!CommitToken, Sms!LoseNotice, Sms!Receive, Sms!ReadToken,
              Sms!ReadApproval, Sms!MarkInbound, Sms!UpdateDecision, Sms!CommitDecision,
              Sms!MarkUsed, Sms!FailWebhook, Sms!UntouchedBySms
<1> QED BY <1>1, <1>2, <1>3, NextFrames DEF Frames

LEMMA ClaimStays ==
  ClaimInv /\ TurnInv /\ TargetInv /\ DraftInv /\ [Next]_vars => ClaimInv'
<1> SUFFICES ASSUME ClaimInv, TurnInv, TargetInv, DraftInv, [Next]_vars PROVE ClaimInv'
  OBVIOUS
<1> DEFINE Event(a, phrase) == [approval |-> a, decision |-> VA!Verdict(phrase), by |-> "voice"]
<1>0. TurnShape
  BY DEF TurnInv
<1>1. decided \subseteq decided'
  BY DecidedGrows
<1>2. ASSUME turn'.at = "refresh" =>
                 Event(turn'.target[1], turn'.said.phrase) \in decided',
             turn'.at = "answer" /\ turn'.answer.kind = "decided" =>
                 Event(turn'.answer.of[1], turn'.said.phrase) \in decided'
      PROVE  ClaimInv'
  <2>1. (At("refresh") => [approval |-> turn.target[1],
                           decision |-> VA!Verdict(turn.said.phrase),
                           by |-> "voice"] \in decided)'
    BY <1>2 DEF At, VA!Verdict
  <2>2. (VA!VoiceDecisionClaimed)'
    BY <1>2 DEF VA!VoiceDecisionClaimed, VA!At, VA!Verdict
  <2> QED BY <2>1, <2>2 DEF ClaimInv
<1>3. At("refresh") => Event(turn.target[1], turn.said.phrase) \in decided
  BY DEF ClaimInv
<1>4. At("answer") /\ turn.answer.kind = "decided" =>
        Event(turn.answer.of[1], turn.said.phrase) \in decided
  BY DEF ClaimInv, VA!VoiceDecisionClaimed, VA!At, At
<1> HIDE DEF Event
<1>5. CASE Still
  <2>1. turn' = turn
    BY <1>5 DEF Still
  <2> QED BY <1>1, <1>2, <1>3, <1>4, <2>1 DEF At
<1>6. CASE Fresh \/ Hearing
  BY <1>2, <1>6, FreshTurn, HeardTurn
<1>7. ASSUME NEW L, Passed(L), L \cap {"refresh", "answer"} = {} PROVE ClaimInv'
  BY <1>2, <1>7 DEF Passed
<1>8. ASSUME NEW K, Answered(K), "decided" \notin K PROVE ClaimInv'
  BY <1>2, <1>8 DEF Answered, Passed
<1>9. CASE Route
  BY <1>0, <1>6, <1>7, <1>8, <1>9, RoutePasses, Freshening
<1>10. CASE TalkOfInbox
  BY <1>0, <1>7, <1>8, <1>10, InboxPasses
<1>11. CASE TalkOfMissions
  BY <1>7, <1>8, <1>11, MissionsPass
<1>12. CASE TalkOfDraft
  <2>1. \/ Passed({"dictation"}) \/ Passed({"approvals-or-intake"}) \/ Passed({"submit"})
        \/ Answered({"ready"}) \/ Answered({"prompt"}) \/ Answered({"hint"})
        \/ Answered({"cancelled", "failed"})
    BY <1>12, DraftPasses DEF Proceeded
  <2> QED BY <1>7, <1>8, <2>1
<1>13. CASE Submitting \/ Intake
  BY <1>0, <1>8, <1>13, SubmittingPasses, IntakePasses
<1>14. CASE TalkOfApprovals
  <2>1. CASE Passed({"refresh"}) /\ VA!PostDecision
    <3>1. ASSUME NEW kind, NEW x, VA!Answer(kind, x) PROVE FALSE
      BY <1>0, <2>1, <3>1, Answering DEF Answered, Passed
    <3>2. VA!Apply(turn.target[1]) /\ VA!Goto("refresh")
      BY <2>1, <3>1 DEF VA!PostDecision, VA!Recorded, VA!Failed
    <3>3. Event(turn.target[1], turn.said.phrase) \in decided'
      BY <3>2 DEF VA!Apply, Event
    <3>4. turn'.at = "refresh" /\ turn'.target = turn.target /\ turn'.said = turn.said
      BY <1>0, <3>2 DEF VA!Goto, TurnShape
    <3> QED BY <1>2, <3>3, <3>4
  <2>2. CASE VA!PostDecision /\ Answered({"decided"})
    <3>1. ASSUME NEW kind, NEW x, VA!Answer(kind, x) PROVE kind = "decided" /\ turn'.answer.of = x
      BY <1>0, <2>2, <3>1, Answering DEF Answered
    <3>2. ~VA!Goto("refresh")
      BY <1>0, <2>2, Passing DEF Answered, Passed
    <3>3. VA!Apply(turn.target[1]) /\ VA!Answer("decided", turn.target)
      BY <2>2, <3>1, <3>2 DEF VA!PostDecision, VA!Recorded, VA!Failed
    <3>4. Event(turn.target[1], turn.said.phrase) \in decided'
      BY <3>3 DEF VA!Apply, Event
    <3>5. turn'.at = "answer" /\ turn'.answer.of = turn.target /\ turn'.said = turn.said
      BY <2>2, <3>1, <3>3 DEF Answered, Passed
    <3> QED BY <1>2, <3>4, <3>5
  <2>3. CASE (VA!Refresh \/ VA!FailRequest) /\ Answered({"decided"})
    <3>1. ASSUME NEW kind, NEW x, VA!Answer(kind, x) PROVE kind = "decided" /\ turn'.answer.of = x
      BY <1>0, <2>3, <3>1, Answering DEF Answered
    <3>2. At("refresh") /\ VA!Answer("decided", turn.target)
      BY <2>3, <3>1 DEF VA!Refresh, VA!FailRequest, VA!At, At
    <3>3. turn'.at = "answer" /\ turn'.answer.of = turn.target /\ turn'.said = turn.said
      BY <2>3, <3>1, <3>2 DEF Answered, Passed
    <3> QED BY <1>1, <1>2, <1>3, <3>2, <3>3
  <2>4. \/ Passed({"approvals"}) \/ Passed({"pending"}) \/ Passed({"bundle"}) \/ Passed({"decide"})
        \/ Passed({"refresh"}) /\ VA!PostDecision
        \/ Answered({"approval"})
        \/ Answered({"decided"}) /\ (VA!PostDecision \/ VA!Refresh \/ VA!FailRequest)
        \/ Answered({"approvals"}) \/ Answered({"hint"}) \/ Answered({"failed"})
    BY <1>14, ApprovalsPass
  <2> QED BY <1>7, <1>8, <2>1, <2>2, <2>3, <2>4
<1> QED BY <1>5, <1>6, <1>9, <1>10, <1>11, <1>12, <1>13, <1>14, NextPasses, Freshening

LEMMA ReadbackStays ==
  ReadbackInv /\ TurnInv /\ DraftInv /\ [Next]_vars => ReadbackInv'
<1> SUFFICES ASSUME ReadbackInv, TurnInv, DraftInv, [Next]_vars, draft'.step = "confirm"
             PROVE  /\ Complete(draft')
                    /\ \/ /\ turn'.at = "answer" /\ turn'.answer.kind = "ready"
                          /\ turn'.answer.of = GD!Spoken(draft')
                       \/ /\ Reading(draft') \in readback'
                          /\ turn'.at = "answer" =>
                                turn'.answer.kind \notin {"ready", "cancelled"}
                                /\ turn'.said.phrase \notin GD!Confirming
  BY DEF ReadbackInv, At, Saying
<1>0. TurnShape /\ draft' # GD!NoDraft
  BY DEF TurnInv, GD!NoDraft
<1>1. CASE Still
  BY <1>1 DEF Still, ReadbackInv, At, Saying
<1>2. ASSUME UNCHANGED <<draft, readback>>, ~At("answer"),
             turn'.at = "answer" => turn'.answer.kind \notin {"ready", "cancelled"}
                                    /\ turn'.said.phrase \notin GD!Confirming
      PROVE  Complete(draft') /\ Reading(draft') \in readback'
  BY <1>2 DEF ReadbackInv, At
<1>3. CASE Hearing
  <2>1. ~At("answer")
    BY <1>3 DEF Hearing, Hear, At
  <2>2. UNCHANGED <<draft, readback>> /\ turn'.at = "heard"
    BY <1>3, HeardTurn
  <2> QED BY <1>2, <2>1, <2>2
<1>4. CASE ForgetConnection
  BY <1>0, <1>4 DEF ForgetConnection
<1>5. CASE Connect \/ MisHear
  <2>1. UNCHANGED <<draft, readback>> /\ ~At("answer")
    BY <1>5 DEF Connect, MisHear, dialogueVars, draftVars, connectionVars, historyVars, At
  <2>2. turn'.at # "answer"
    BY <1>5, FreshTurn, Freshening
  <2> QED BY <1>2, <2>1, <2>2
<1>6. CASE Speak
  <2>1. /\ At("answer") /\ draft' = draft
        /\ readback' = IF turn.answer.kind = "ready"
                       THEN {[spoken |-> turn.answer.of, posted |-> GD!Posted(draft)]}
                       ELSE IF turn.answer.kind = "cancelled" \/ Saying(GD!Confirming) THEN {}
                       ELSE readback
    BY <1>6 DEF Speak, dialogueVars, draftVars
  <2>2. Complete(draft) /\ Reading(draft) \in readback'
    BY <2>1 DEF ReadbackInv, Reading
  <2>3. turn'.at # "answer"
    BY <1>6, FreshTurn, Freshening
  <2> QED BY <2>1, <2>2, <2>3
<1>7. ASSUME NEW L, Passed(L), "answer" \notin L, ~At("answer"), UNCHANGED <<draft, readback>>
      PROVE  Complete(draft') /\ Reading(draft') \in readback' /\ turn'.at # "answer"
  BY <1>2, <1>7 DEF Passed
<1>8. ASSUME NEW K, Answered(K), ~At("answer"), UNCHANGED <<draft, readback>>,
             K \cap {"ready", "cancelled"} = {}, ~Saying(GD!Confirming)
      PROVE  Complete(draft') /\ Reading(draft') \in readback'
  BY <1>2, <1>8 DEF Answered, Passed, Saying
<1>9. ASSUME NEW K, Answered(K), ~At("answer"), UNCHANGED <<draft, readback>>,
             K \cap {"ready", "cancelled"} = {}, ~Saying(GD!Confirming)
      PROVE  turn'.answer.kind \notin {"ready", "cancelled"}
             /\ turn'.said.phrase \notin GD!Confirming
  BY <1>9 DEF Answered, Passed, Saying
<1>10. CASE Route
  <2>1. ~At("answer") /\ UNCHANGED <<draft, readback>>
    BY <1>0, <1>10, RoutePasses DEF At
  <2>2. CASE turn' = Listening
    <3>1. turn'.at # "answer"
      BY <2>2, FreshTurn, Freshening
    <3> QED BY <1>2, <2>1, <3>1
  <2>3. CASE Passed({"inbox"}) \/ Passed({"briefing"})
    BY <1>7, <2>1, <2>3
  <2>4. CASE Answered({"hint"}) /\ Saying({"read-that-again"})
    <3>1. ~Saying(GD!Confirming)
      BY <2>4 DEF Saying, GD!Confirming
    <3> QED BY <1>8, <1>9, <2>1, <2>4, <3>1
  <2> QED BY <1>0, <1>10, <2>2, <2>3, <2>4, RoutePasses
<1>11. CASE TalkOfInbox
  <2>1. ~At("answer") /\ UNCHANGED <<draft, readback>>
    BY <1>0, <1>11, InboxPasses DEF At
  <2>2. ~Saying(GD!Confirming)
    <3>1. Saying(VI!InboxPhrases)
      BY <1>0, <1>11, InboxPasses DEF TurnInv
    <3> QED BY <3>1 DEF Saying, GD!Confirming, VI!InboxPhrases, VI!Moves, VI!Questions,
                        VI!TriagePhrases
  <2>3. \/ Passed({"triage"}) \/ Passed({"reload"})
        \/ Answered({"item", "items", "hand-off"}) \/ Answered({"hint", "triaged", "failed"})
    BY <1>0, <1>11, InboxPasses
  <2> QED BY <1>7, <1>8, <1>9, <2>1, <2>2, <2>3
<1>12. CASE TalkOfMissions
  <2>1. ~At("answer") /\ UNCHANGED <<draft, readback>>
    BY <1>12, MissionsPass DEF At
  <2>2. Saying(VB!BriefingPhrases) => ~Saying(GD!Confirming)
    BY DEF Saying, GD!Confirming, VB!BriefingPhrases, VB!Overviews, VB!MissionMoves
  <2>3. \/ Passed({"draft"}) \/ Passed({"detail"})
        \/ /\ Answered({"overview", "changes", "mission", "hint", "failed"})
           /\ Saying(VB!BriefingPhrases)
    BY <1>12, MissionsPass
  <2> QED BY <1>7, <1>8, <1>9, <2>1, <2>2, <2>3
<1>13. CASE Submitting
  BY <1>0, <1>13, SubmittingPasses
<1>14. CASE TalkOfApprovals \/ Intake
  <2>1. turn.at \in OfApprovals /\ UNCHANGED draft
    BY <1>0, <1>14, ApprovalsPass, IntakePasses DEF At, OfApprovals
  <2> QED BY <1>0, <2>1 DEF DraftInv
<1>15. CASE TalkOfDraft
  <2>1. ~At("answer") /\ UNCHANGED readback
    BY <1>15, DraftPasses DEF At
  <2>2. \/ Passed({"dictation"}) /\ UNCHANGED draft
        \/ Passed({"approvals-or-intake"}) /\ UNCHANGED draft
        \/ Passed({"submit"}) /\ UNCHANGED draft
        \/ Proceeded(draft')
        \/ Answered({"hint"}) /\ UNCHANGED draft
                              /\ (Saying(GD!Confirming) => draft.step = "collect")
    BY <1>0, <1>15, DraftPasses
  <2>3. CASE Proceeded(draft')
    BY <2>3 DEF Proceeded, Answered, Passed
  <2>4. CASE Answered({"hint"}) /\ UNCHANGED draft
                              /\ (Saying(GD!Confirming) => draft.step = "collect")
    BY <1>8, <1>9, <2>1, <2>4
  <2> QED BY <1>7, <2>1, <2>2, <2>3, <2>4
<1> QED BY <1>1, <1>3, <1>4, <1>5, <1>6, <1>10, <1>11, <1>12, <1>13, <1>14, <1>15, NextPasses

\* What is read out is the answer's, and what else was read out stays so.
LEMMA SpeakOffers ==
  ASSUME Speak
  PROVE  /\ At("answer") /\ Fresh /\ UNCHANGED <<queue, cursor, items, spot>>
         /\ offered' = [approval |-> offered'.approval, item |-> offered'.item,
                        inbox |-> offered'.inbox, astray |-> offered'.astray]
         /\ offered'.approval = IF FocusTold(turn.answer) THEN FirstOf(turn.answer.of)
                                ELSE offered.approval
         /\ offered'.item = IF turn.answer.kind = "item" THEN turn.answer.of
                            ELSE IF turn.answer.kind = "items" THEN turn.answer.of[1]
                            ELSE offered.item
         /\ offered'.inbox = IF ItemTold(turn.answer) THEN items ELSE offered.inbox
         /\ "approvals" \in offered'.astray <=>
              /\ ~FocusTold(turn.answer)
              /\ "approvals" \in offered.astray \/ FocusLost(turn.answer)
         /\ "inbox" \in offered'.astray <=>
              ~ItemTold(turn.answer) /\ "inbox" \in offered.astray
<1>1. /\ At("answer") /\ offered' = Offered(turn.answer)
      /\ UNCHANGED <<queue, cursor, items, spot>>
  BY DEF Speak, dialogueVars, voiceApprovalVars, voiceInboxVars
<1>2. PICK a, i, n, s :
        /\ a = IF ~FocusTold(turn.answer) THEN offered.approval
               ELSE IF turn.answer.of = <<>> THEN <<>> ELSE <<turn.answer.of[1]>>
        /\ i = IF turn.answer.kind = "item" THEN turn.answer.of
               ELSE IF turn.answer.kind = "items" THEN turn.answer.of[1] ELSE offered.item
        /\ n = IF ItemTold(turn.answer) THEN items ELSE offered.inbox
        /\ s = (offered.astray \cup (IF FocusLost(turn.answer) THEN {"approvals"} ELSE {}))
                    \ ((IF FocusTold(turn.answer) THEN {"approvals"} ELSE {})
                            \cup (IF ItemTold(turn.answer) THEN {"inbox"} ELSE {}))
  OBVIOUS
<1>3. offered' = [approval |-> a, item |-> i, inbox |-> n, astray |-> s]
  BY <1>1, <1>2, Zenon DEF Offered
<1>4. offered'.approval = a /\ offered'.item = i /\ offered'.inbox = n /\ offered'.astray = s
  BY <1>3
<1>5. a = IF FocusTold(turn.answer) THEN FirstOf(turn.answer.of) ELSE offered.approval
  BY <1>2 DEF FirstOf
<1>6. /\ "approvals" \in s <=> /\ ~FocusTold(turn.answer)
                               /\ "approvals" \in offered.astray \/ FocusLost(turn.answer)
      /\ "inbox" \in s <=> ~ItemTold(turn.answer) /\ "inbox" \in offered.astray
  BY <1>2
<1> QED BY <1>1, <1>2, <1>3, <1>4, <1>5, <1>6, Freshening

\* The approval told last stays the one told last, and what is astray stays so.
Remembered ==
    /\ offered' = [approval |-> offered'.approval, item |-> offered'.item,
                   inbox |-> offered'.inbox, astray |-> offered'.astray]
    /\ offered'.approval = offered.approval
    /\ "approvals" \in offered.astray => "approvals" \in offered'.astray

LEMMA FocusStays ==
  FocusInv /\ TurnInv /\ TargetInv /\ QueueInv /\ DraftInv /\ QueueInv' /\ [Next]_vars => FocusInv'
<1> SUFFICES ASSUME FocusInv, TurnInv, TargetInv, QueueInv, DraftInv, QueueInv', [Next]_vars
             PROVE  FocusInv'
  OBVIOUS
<1>0. TurnShape
  BY DEF TurnInv
<1> DEFINE Focus == VA!Focused
           Told == FocusTold(turn.answer)
           Lost == FocusLost(turn.answer)
<1>1. ASSUME UNCHANGED <<queue, cursor>> PROVE Focus' = Focus
  BY <1>1 DEF VA!Focused
<1>20. /\ turn'.answer.kind \notin {"approval", "approvals", "decided"} => ~Told'
       /\ turn'.answer.kind \in {"approval", "approvals"} => Told'
       /\ turn'.answer.kind = "decided" => (Told' <=> turn'.said.phrase = "approve-id")
       /\ turn'.answer.kind = "failed" /\ turn'.answer.of # <<>>
          /\ turn'.said.phrase \in VA!Readings => Lost'
       /\ turn'.answer.kind = "decided" /\ turn'.said.phrase \in VA!It => Lost'
  BY DEF FocusTold, FocusLost, Saying
<1>21. UNCHANGED turn => Told' = Told /\ Lost' = Lost
  BY DEF FocusTold, FocusLost, Saying
<1>22. VA!It \cap VA!ById = {} /\ VA!Readings \cap (VA!It \cup VA!ById) = {}
  BY DEF VA!It, VA!ById, VA!Readings
<1> HIDE DEF Focus, Told, Lost
<1>2. ASSUME offered' = [approval |-> offered'.approval, item |-> offered'.item,
                         inbox |-> offered'.inbox, astray |-> offered'.astray],
             turn'.at = "bundle" /\ turn'.said.phrase \notin VA!ById => turn'.target = Focus',
             turn'.at = "decide" /\ turn'.said.phrase \in VA!It => turn'.target = Focus',
             turn'.at = "answer" /\ Told' => FirstOf(turn'.answer.of) = Focus',
             \/ "approvals" \in offered'.astray
             \/ offered'.approval = Focus'
             \/ Focus' = <<>>
             \/ turn'.at = "bundle" /\ turn'.said.phrase \in VA!Readings
             \/ turn'.at = "answer" /\ (Told' \/ Lost')
      PROVE  FocusInv'
  BY <1>2 DEF FocusInv, At, Saying, Focus, VA!Focused, Told, Lost
<1>3. /\ offered = [approval |-> offered.approval, item |-> offered.item,
                    inbox |-> offered.inbox, astray |-> offered.astray]
      /\ turn.at = "bundle" /\ turn.said.phrase \notin VA!ById => turn.target = Focus
      /\ turn.at = "decide" /\ turn.said.phrase \in VA!It => turn.target = Focus
      /\ turn.at = "answer" /\ Told => FirstOf(turn.answer.of) = Focus
      /\ \/ "approvals" \in offered.astray
         \/ offered.approval = Focus
         \/ Focus = <<>>
         \/ turn.at = "bundle" /\ turn.said.phrase \in VA!Readings
         \/ turn.at = "answer" /\ (Told \/ Lost)
  BY DEF FocusInv, At, Saying, Focus, Told, Lost
<1>19. UNCHANGED offered => Remembered
  BY <1>3 DEF Remembered
\* A turn that leaves the focus alone.
<1>4. ASSUME UNCHANGED <<queue, cursor>>, Remembered,
             turn.at # "answer", turn.at = "bundle" => turn.said.phrase \notin VA!Readings,
             turn'.at \notin {"bundle", "decide"},
             turn'.at = "answer" => ~Told'
      PROVE  FocusInv'
  BY <1>1, <1>2, <1>3, <1>4 DEF Remembered
<1>5. CASE Still
  <2>1. turn' = turn /\ offered' = offered /\ Focus' = Focus /\ Told' = Told /\ Lost' = Lost
    BY <1>1, <1>5, <1>21 DEF Still
  <2> QED BY <1>2, <1>3, <2>1
<1>6. CASE ForgetConnection
  <2>1. PICK o : o = NothingOffered
    OBVIOUS
  <2>2. o = [approval |-> o.approval, item |-> o.item, inbox |-> o.inbox, astray |-> o.astray]
    BY <2>1 DEF NothingOffered
  <2>3. offered' = o /\ Focus' = <<>>
    BY <1>6, <2>1 DEF ForgetConnection, Focus, VA!Focused
  <2>4. turn'.at \notin {"bundle", "decide", "answer"}
    BY <1>6, FreshTurn, Freshening
  <2> QED BY <1>2, <2>2, <2>3, <2>4
<1>7. CASE Connect \/ MisHear
  <2>1. UNCHANGED <<queue, cursor, offered>> /\ turn.at \in {"closed", "heard"}
    BY <1>7 DEF Connect, MisHear, dialogueVars, voiceApprovalVars, connectionVars, historyVars, At
  <2>2. turn'.at = "listening" \/ turn'.at = "closed"
    BY <1>7, FreshTurn, Freshening
  <2> QED BY <1>4, <1>19, <2>1, <2>2
<1>8. CASE Hearing
  <2>1. turn.at = "listening"
    BY <1>8 DEF Hearing, Hear, At
  <2> QED BY <1>4, <1>8, <1>19, <2>1, HeardTurn
<1>9. CASE Speak
  <2>1. Focus' = Focus
    BY <1>1, <1>9, SpeakOffers
  <2>2. turn'.at \in {"closed", "listening"}
    BY <1>9, SpeakOffers, FreshTurn
  <2>3. /\ turn.at = "answer"
        /\ offered' = [approval |-> offered'.approval, item |-> offered'.item,
                       inbox |-> offered'.inbox, astray |-> offered'.astray]
        /\ offered'.approval = IF Told THEN FirstOf(turn.answer.of) ELSE offered.approval
        /\ "approvals" \in offered'.astray <=>
              ~Told /\ ("approvals" \in offered.astray \/ Lost)
    BY <1>9, SpeakOffers DEF Told, Lost, At
  <2> QED BY <1>2, <1>3, <2>1, <2>2, <2>3
<1>10. ASSUME NEW L, Passed(L), UNCHANGED <<queue, cursor>>, Remembered,
              turn.at \notin {"bundle", "answer"}, L \cap {"bundle", "decide", "answer"} = {}
       PROVE  FocusInv'
  BY <1>4, <1>10 DEF Passed
<1>11. ASSUME NEW K, Answered(K), UNCHANGED <<queue, cursor>>, Remembered,
              turn.at \notin {"bundle", "answer"},
              K \cap {"approval", "approvals", "decided"} = {}
       PROVE  FocusInv'
  <2>1. turn'.at = "answer" /\ turn'.answer.kind \notin {"approval", "approvals", "decided"}
    BY <1>11 DEF Answered, Passed
  <2> QED BY <1>4, <1>11, <1>20, <2>1
<1>12. CASE Route
  <2>1. turn.at = "heard" /\ UNCHANGED <<queue, cursor, offered>>
    BY <1>0, <1>12, RoutePasses DEF At
  <2>2. CASE turn' = Listening
    <3>1. turn'.at \notin {"bundle", "decide", "answer"}
      BY <2>2, FreshTurn, Freshening
    <3> QED BY <1>4, <1>19, <2>1, <3>1
  <2>3. CASE Passed({"inbox"}) \/ Passed({"briefing"})
    BY <1>10, <1>19, <2>1, <2>3
  <2>4. CASE Answered({"hint"})
    BY <1>11, <1>19, <2>1, <2>4
  <2> QED BY <1>0, <1>12, <2>2, <2>3, <2>4, RoutePasses
<1>13. CASE TalkOfInbox
  <2>1. turn.at \in {"inbox", "triage", "reload"} /\ UNCHANGED <<queue, cursor>>
    BY <1>0, <1>13, InboxPasses
  <2>2. Remembered
    <3>1. PICK o : o = [offered EXCEPT !.astray = @ \cup {"inbox"}]
      OBVIOUS
    <3>2. offered' = offered \/ offered' = o
      BY <1>13, <3>1 DEF TalkOfInbox
    <3>3. o = [approval |-> offered.approval, item |-> offered.item, inbox |-> offered.inbox,
               astray |-> offered.astray \cup {"inbox"}]
      BY <1>3, <3>1
    <3>4. /\ o = [approval |-> o.approval, item |-> o.item, inbox |-> o.inbox, astray |-> o.astray]
          /\ o.approval = offered.approval /\ o.astray = offered.astray \cup {"inbox"}
      BY <3>3
    <3> QED BY <1>19, <3>2, <3>4 DEF Remembered
  <2>3. \/ Passed({"triage"}) \/ Passed({"reload"})
        \/ Answered({"item", "items", "hand-off"}) \/ Answered({"hint", "triaged", "failed"})
    BY <1>0, <1>13, InboxPasses
  <2> QED BY <1>10, <1>11, <2>1, <2>2, <2>3
<1>14. CASE TalkOfMissions
  <2>1. turn.at \in {"briefing", "detail"} /\ UNCHANGED <<queue, cursor, offered>>
    BY <1>14, MissionsPass
  <2>2. \/ Passed({"draft"}) \/ Passed({"detail"})
        \/ Answered({"overview", "changes", "mission", "hint", "failed"})
    BY <1>14, MissionsPass
  <2> QED BY <1>10, <1>11, <1>19, <2>1, <2>2
<1>15. CASE TalkOfDraft
  <2>1. turn.at \in {"draft", "dictation", "submit"} /\ UNCHANGED <<queue, cursor, offered>>
    BY <1>15, DraftPasses
  <2>2. \/ Passed({"dictation"}) \/ Passed({"approvals-or-intake"}) \/ Passed({"submit"})
        \/ Answered({"ready"}) \/ Answered({"prompt"}) \/ Answered({"hint"})
        \/ Answered({"cancelled", "failed"})
    BY <1>15, DraftPasses DEF Proceeded
  <2> QED BY <1>10, <1>11, <1>19, <2>1, <2>2
<1>16. CASE Submitting
  BY <1>0, <1>11, <1>16, <1>19, SubmittingPasses DEF At
<1>17. CASE Intake
  BY <1>0, <1>11, <1>17, <1>19, IntakePasses DEF At
<1>18. CASE TalkOfApprovals
  <2>1. UNCHANGED offered /\ Remembered
    BY <1>18, <1>19, ApprovalsPass
  <2>2. CASE At("approvals-or-intake") /\ Passed({"approvals"}) /\ UNCHANGED <<queue, cursor>>
    BY <1>10, <2>1, <2>2 DEF At
  <2>3. CASE Passed({"pending"}) /\ VA!LoadFirst
    <3>1. turn.at = "approvals" /\ UNCHANGED <<queue, cursor>>
      BY <2>3 DEF VA!LoadFirst, VA!At, VA!voiceApprovalVars
    <3> QED BY <1>10, <2>1, <2>3, <3>1
  \* A list is told with its first in focus.
  <2>4. CASE Answered({"approvals"}) /\ VA!TellPending
    <3>1. PICK q : q = VA!Pending
      OBVIOUS
    <3>2. VA!Answer("approvals", q) /\ queue' = q /\ cursor' = 0
      BY <2>4, <3>1 DEF VA!TellPending
    <3>3. /\ turn'.at = "answer" /\ turn'.answer.kind = "approvals"
          /\ turn'.answer.of = q
      BY <1>0, <2>4, <3>2, Answering DEF Answered, Passed
    <3>4. q \in Seq(Approvals)
      BY <3>1, PendingList
    <3>5. Focus' = FirstOf(q)
      BY <3>2, <3>4 DEF Focus, VA!Focused, FirstOf
    <3> QED BY <1>2, <1>3, <1>20, <2>1, <3>3, <3>5
  <2>12. ASSUME turn'.at = "answer", turn'.answer.kind \in {"hint", "failed"},
                UNCHANGED <<queue, cursor>>, turn.at \in OfApprovals,
                turn.at = "bundle" => turn.said.phrase \notin VA!Readings
         PROVE  FocusInv'
    BY <1>4, <1>20, <2>1, <2>12 DEF OfApprovals
  \* There is nothing in focus, or it is what it was.
  <2>13. CASE Answered({"hint"}) /\ (VA!FocusPending \/ UNCHANGED <<queue, cursor>>)
    <3>1. turn'.at = "answer" /\ turn'.answer.kind = "hint"
      BY <2>13 DEF Answered, Passed
    <3>2. CASE VA!FocusPending
      <4>1. ASSUME NEW x, VA!With("bundle", x) PROVE FALSE
        BY <1>0, <3>1, <4>1, Passing DEF Passed
      <4>2. queue' = <<>>
        BY <3>2, <4>1 DEF VA!FocusPending, VA!FocusOn
      <4>3. Focus' = <<>>
        BY <4>2 DEF Focus, VA!Focused, QueueInv
      <4> QED BY <1>2, <1>3, <1>20, <2>1, <3>1, <4>3
    <3>3. CASE UNCHANGED <<queue, cursor>>
      <4>1. turn.at = "bundle" => FALSE
        <5>1. VA!VoiceApprovalStep /\ turn.at = "bundle" => VA!GetBundle \/ VA!FailRequest
          BY DEF VA!VoiceApprovalStep, VA!Refuse, VA!LoadFirst, VA!Move, VA!MoveNowhere,
                 VA!DecideIt, VA!GetPending, VA!FindById, VA!TellPending, VA!FocusPending,
                 VA!PostDecision, VA!LoseReply, VA!Refresh, VA!At
        <5>2. VA!FailRequest => VA!Answer("decided", turn.target) \/ VA!Answer("failed", turn.target)
          BY DEF VA!FailRequest
        <5>3. VA!GetBundle => VA!Goto("decide") \/ VA!Answer("approval", turn.target)
          BY DEF VA!GetBundle
        <5>4. ASSUME NEW label, VA!Goto(label) PROVE turn'.at = label
          BY <1>0, <5>4, Passing DEF Passed
        <5>5. ASSUME NEW kind, NEW x, VA!Answer(kind, x) PROVE turn'.answer.kind = kind
          BY <1>0, <5>5, Answering DEF Answered
        <5>6. turn.at = "bundle" => VA!VoiceApprovalStep
          BY <1>18 DEF TalkOfApprovals, At
        <5> QED BY <3>1, <5>1, <5>2, <5>3, <5>4, <5>5, <5>6
      <4>2. turn.at \in OfApprovals
        BY <1>18, ApprovalsPass
      <4> QED BY <2>12, <3>1, <3>3, <4>1, <4>2
    <3> QED BY <2>13, <3>2, <3>3
  \* A reading that failed lost the focus.
  <2>14. CASE /\ Answered({"failed"}) /\ UNCHANGED <<queue, cursor>>
              /\ turn'.answer.of = turn.target
    <3>1. turn'.at = "answer" /\ turn'.answer.kind = "failed" /\ turn'.said = turn.said
      BY <2>14 DEF Answered, Passed
    <3>2. turn.at \in OfApprovals
      BY <1>18, ApprovalsPass
    <3>3. CASE turn.at = "bundle" /\ turn.said.phrase \in VA!Readings
      <4>1. \E a \in Approvals : turn.target = <<a>>
        BY <3>3 DEF TargetInv
      <4>2. turn'.answer.of # <<>>
        BY <2>14, <4>1
      <4> QED BY <1>2, <1>3, <1>20, <2>1, <3>1, <3>3, <4>2
    <3> QED BY <2>12, <2>14, <3>1, <3>2, <3>3
  \* A decision by id is told with what is in focus then, or leaves it; after
  \* another the focus is lost.
  <2>15. CASE Answered({"decided"}) /\ (VA!PostDecision \/ VA!Refresh \/ VA!FailRequest)
    <3>1. turn'.at = "answer" /\ turn'.answer.kind = "decided" /\ turn'.said = turn.said
      BY <2>15 DEF Answered, Passed
    <3>2. ASSUME NEW kind, NEW x, VA!Answer(kind, x) PROVE kind = "decided" /\ turn'.answer.of = x
      BY <1>0, <2>15, <3>2, Answering DEF Answered
    <3>3. CASE VA!PostDecision
      <4>1. ASSUME VA!Goto("refresh") PROVE FALSE
        <5>1. Passed({"refresh"})
          BY <1>0, <4>1, Passing
        <5> QED BY <3>1, <5>1 DEF Passed
      <4>2. /\ turn.at = "decide" /\ ~Saying(VA!It) /\ VA!Answer("decided", turn.target)
            /\ IF Saying({"approve-id"})
               THEN queue' = turn.list /\ cursor' = VA!PlaceOf(turn.list, turn.target[1])
               ELSE UNCHANGED <<queue, cursor>>
        BY <3>2, <3>3, <4>1 DEF VA!PostDecision, VA!Recorded, VA!Failed, VA!At, VA!Saying, Saying,
                                VA!voiceApprovalVars
      <4>3. CASE Saying({"approve-id"})
        <5>1. PICK list, a : list = turn.list /\ turn.target = <<a>>
          BY <4>2 DEF TargetInv
        <5>2. list \in Seq(Approvals) /\ Rising(list) /\ a \in Range(list)
          BY <4>2, <4>3, <5>1 DEF TargetInv, Saying, VA!ById
        <5>3. VA!PlaceOf(list, a) < Len(list) /\ list[VA!PlaceOf(list, a) + 1] = a
          BY <5>2, PlaceInList, PlaceIsOf
        <5>4. queue' = list /\ cursor' = VA!PlaceOf(list, a)
          BY <4>2, <4>3, <5>1
        <5>5. Focus' = <<a>>
          BY <5>3, <5>4 DEF Focus, VA!Focused
        <5>6. FirstOf(turn'.answer.of) = <<a>>
          BY <3>2, <4>2, <5>1 DEF FirstOf
        <5>7. Told'
          BY <1>20, <3>1, <4>3 DEF Saying
        <5> QED BY <1>2, <1>3, <2>1, <3>1, <5>5, <5>6, <5>7
      <4>4. CASE ~Saying({"approve-id"})
        <5>1. ~Told'
          BY <1>20, <3>1, <4>4 DEF Saying
        <5> QED BY <1>4, <2>1, <3>1, <4>2, <4>4, <5>1
      <4> QED BY <4>3, <4>4
    <3>4. CASE VA!Refresh \/ VA!FailRequest
      <4>1. At("refresh") /\ VA!Answer("decided", turn.target)
        BY <3>2, <3>4 DEF VA!Refresh, VA!FailRequest, VA!At, At
      <4>2. turn'.said.phrase \in VA!It /\ turn'.said.phrase # "approve-id"
        <5>1. Saying(VA!It)
          BY <4>1 DEF TurnInv
        <5> QED BY <3>1, <5>1 DEF Saying, VA!It
      <4>3. Lost' /\ ~Told'
        BY <1>20, <3>1, <4>2
      <4> QED BY <1>2, <1>3, <2>1, <3>1, <4>3
    <3> QED BY <2>15, <3>3, <3>4
  <2>5. CASE Passed({"bundle"}) /\ VA!Move
    <3>1. ASSUME NEW kind, NEW x, VA!Answer(kind, x) PROVE FALSE
      BY <1>0, <2>5, <3>1, Answering DEF Answered, Passed
    <3>2. /\ turn' = [turn EXCEPT !.at = "bundle", !.target = <<queue[cursor' + 1]>>]
          /\ queue # <<>> /\ queue' = queue /\ Saying(VA!Readings)
      BY <2>5 DEF VA!Move, VA!FocusOn, VA!With, VA!Saying, Saying, VA!Readings
    <3>3. /\ turn'.target = <<queue[cursor' + 1]>> /\ turn'.said = turn.said
          /\ turn'.at = "bundle"
      BY <1>0, <3>2 DEF TurnShape
    <3>4. Focus' = <<queue[cursor' + 1]>>
      BY <3>2 DEF Focus, VA!Focused, QueueInv
    <3> QED BY <1>2, <1>3, <2>1, <3>2, <3>3, <3>4 DEF Saying
  <2>6. CASE Passed({"bundle"}) /\ VA!FocusPending /\ Saying(VA!ApprovalPhrases)
    <3>1. ~VA!Answer("hint", <<>>)
      BY <1>0, <2>6, Answering DEF Answered, Passed
    <3>2. PICK q : q = VA!Pending
      OBVIOUS
    <3>3. /\ turn' = [turn EXCEPT !.at = "bundle", !.target = <<q[cursor' + 1]>>]
          /\ queue' = q /\ q # <<>> /\ ~Saying(VA!ById \cup {"what-needs-approval"})
          /\ At("pending")
      BY <2>6, <3>1, <3>2 DEF VA!FocusPending, VA!FocusOn, VA!With, VA!Saying, Saying, VA!At, At
    <3>4. /\ turn'.target = <<q[cursor' + 1]>> /\ turn'.said = turn.said
          /\ turn'.at = "bundle"
      BY <1>0, <3>3 DEF TurnShape
    <3>5. Focus' = <<q[cursor' + 1]>>
      BY <3>3 DEF Focus, VA!Focused, QueueInv
    <3>6. Saying(VA!Readings)
      BY <2>6, <3>3 DEF TurnInv, Saying, VA!ApprovalPhrases
    <3> QED BY <1>2, <1>3, <2>1, <3>4, <3>5, <3>6 DEF Saying
  <2>7. CASE Passed({"bundle"}) /\ VA!DecideIt
    <3>1. ~VA!Answer("hint", <<>>)
      BY <1>0, <2>7, Answering DEF Answered, Passed
    <3>2. /\ turn' = [turn EXCEPT !.at = "bundle", !.target = Focus] /\ turn.at = "approvals"
          /\ UNCHANGED <<queue, cursor>>
      BY <2>7, <3>1 DEF VA!DecideIt, VA!With, VA!voiceApprovalVars, VA!At, Focus
    <3>3. turn'.target = Focus /\ turn'.said = turn.said /\ turn'.at = "bundle"
      BY <1>0, <3>2 DEF TurnShape
    <3> QED BY <1>1, <1>2, <1>3, <2>1, <3>2, <3>3
  <2>8. CASE Passed({"bundle"}) /\ VA!FindById
    <3>1. turn.at = "pending" /\ UNCHANGED <<queue, cursor>> /\ Saying(VA!ById)
      BY <2>8 DEF VA!FindById, VA!voiceApprovalVars, VA!At, VA!Saying, Saying
    <3>2. turn'.said = turn.said /\ turn'.at = "bundle"
      BY <2>8 DEF Passed
    <3> QED BY <1>1, <1>2, <1>3, <2>1, <3>1, <3>2 DEF Saying
  <2>9. CASE Passed({"decide"}) /\ VA!GetBundle
    <3>1. ~VA!Answer("approval", turn.target)
      BY <1>0, <2>9, Answering DEF Answered, Passed
    <3>2. /\ turn.at = "bundle" /\ VA!Goto("decide") /\ Saying(VA!It \cup VA!ById)
          /\ UNCHANGED <<queue, cursor>>
      BY <2>9, <3>1 DEF VA!GetBundle, VA!At, VA!Saying, Saying, VA!voiceApprovalVars
    <3>3. turn'.said = turn.said /\ turn'.target = turn.target /\ turn'.at = "decide"
      BY <1>0, <3>2 DEF VA!Goto, TurnShape
    <3> QED BY <1>1, <1>2, <1>3, <1>22, <2>1, <3>2, <3>3 DEF Saying
  <2>10. CASE Passed({"refresh"}) /\ VA!PostDecision
    <3>1. ASSUME NEW kind, NEW x, VA!Answer(kind, x) PROVE FALSE
      BY <1>0, <2>10, <3>1, Answering DEF Answered, Passed
    <3>2. turn.at = "decide" /\ UNCHANGED <<queue, cursor>>
      BY <2>10, <3>1 DEF VA!PostDecision, VA!Recorded, VA!Failed, VA!At, VA!voiceApprovalVars
    <3> QED BY <1>10, <2>1, <2>10, <3>2
  <2>11. CASE Answered({"approval"}) /\ VA!GetBundle
    <3>1. ~VA!Goto("decide")
      <4>1. VA!Goto("decide") => Passed({"decide"})
        BY <1>0, Passing
      <4> QED BY <2>11, <4>1 DEF Answered, Passed
    <3>2. /\ turn.at = "bundle" /\ VA!Answer("approval", turn.target)
          /\ ~Saying(VA!It \cup VA!ById) /\ UNCHANGED <<queue, cursor>>
      BY <2>11, <3>1 DEF VA!GetBundle, VA!At, VA!Saying, Saying, VA!voiceApprovalVars
    <3>3. turn'.answer.of = turn.target /\ turn'.at = "answer" /\ turn'.answer.kind = "approval"
      BY <1>0, <2>11, <3>2, Answering DEF Answered, Passed
    <3>4. FirstOf(turn.target) = turn.target
      BY <3>2 DEF TargetInv, FirstOf
    <3>5. Told' /\ Focus' = Focus /\ turn.target = Focus
      BY <1>1, <1>3, <1>20, <3>2, <3>3 DEF Saying
    <3> QED BY <1>2, <1>3, <2>1, <3>3, <3>4, <3>5
  <2> QED BY <1>18, <2>2, <2>3, <2>4, <2>5, <2>6, <2>7, <2>8, <2>9, <2>10, <2>11, <2>13, <2>14,
             <2>15, ApprovalsPass
<1> QED BY <1>5, <1>6, <1>7, <1>8, <1>9, <1>12, <1>13, <1>14, <1>15, <1>16, <1>17, <1>18,
           NextPasses

LEMMA PlaceStays ==
  PlaceInv /\ FocusInv /\ TurnInv /\ ItemsInv /\ ItemsInv' /\ DraftInv /\ ArrivalInv
    /\ [Next]_vars => PlaceInv'
<1> SUFFICES ASSUME PlaceInv, FocusInv, TurnInv, ItemsInv, ItemsInv', DraftInv, ArrivalInv,
                    [Next]_vars
             PROVE  PlaceInv'
  OBVIOUS
<1>0. TurnShape
  BY DEF TurnInv
<1>1. ASSUME turn'.at = "triage" => turn'.target = items'[spot' + 1],
             turn'.at = "answer" /\ turn'.answer.kind = "item" =>
                items' # <<>> /\ turn'.answer.of = items'[spot' + 1],
             turn'.at = "answer" /\ turn'.answer.kind = "items" =>
                items' # <<>> /\ turn'.answer.of[1] = items'[spot' + 1],
             \/ "inbox" \in offered'.astray
             \/ turn'.at = "answer" /\ turn'.answer.kind \in {"item", "items"}
             \/ InPlace(offered'.item, offered'.inbox, items', spot')
      PROVE  PlaceInv'
  BY <1>1 DEF PlaceInv, At, ItemTold, InPlace
<1>2. /\ turn.at = "triage" => turn.target = items[spot + 1]
      /\ turn.at = "answer" /\ turn.answer.kind = "item" =>
            items # <<>> /\ turn.answer.of = items[spot + 1]
      /\ turn.at = "answer" /\ turn.answer.kind = "items" =>
            items # <<>> /\ turn.answer.of[1] = items[spot + 1]
      /\ \/ "inbox" \in offered.astray
         \/ turn.at = "answer" /\ turn.answer.kind \in {"item", "items"}
         \/ InPlace(offered.item, offered.inbox, items, spot)
  BY DEF PlaceInv, At, ItemTold
\* A turn that has nothing to do with the inbox.
<1>3. ASSUME UNCHANGED <<items, spot, offered>>, turn.at # "answer", turn'.at # "triage",
             turn'.at = "answer" => turn'.answer.kind \notin {"item", "items"}
      PROVE  PlaceInv'
  BY <1>1, <1>2, <1>3
<1>4. CASE Still
  BY <1>1, <1>2, <1>4 DEF Still
<1>5. CASE ForgetConnection
  <2>1. "inbox" \in offered'.astray
    BY <1>5 DEF ForgetConnection, NothingOffered
  <2>2. turn'.at \notin {"triage", "answer"}
    BY <1>5, FreshTurn, Freshening
  <2> QED BY <1>1, <2>1, <2>2
<1>6. CASE Connect \/ MisHear
  <2>1. UNCHANGED <<items, spot, offered>> /\ turn.at # "answer"
    BY <1>6 DEF Connect, MisHear, dialogueVars, voiceInboxVars, connectionVars, historyVars, At
  <2>2. turn'.at \notin {"triage", "answer"}
    BY <1>6, FreshTurn, Freshening
  <2> QED BY <1>3, <2>1, <2>2
<1>7. CASE Hearing
  <2>1. turn.at = "listening"
    BY <1>7 DEF Hearing, Hear, At
  <2> QED BY <1>3, <1>7, <2>1, HeardTurn
<1>8. CASE Speak
  <2>1. turn'.at \in {"closed", "listening"}
    BY <1>8, SpeakOffers, FreshTurn
  <2>2. /\ turn.at = "answer" /\ UNCHANGED <<items, spot>>
        /\ offered'.item = IF turn.answer.kind = "item" THEN turn.answer.of
                           ELSE IF turn.answer.kind = "items" THEN turn.answer.of[1]
                           ELSE offered.item
        /\ offered'.inbox = IF turn.answer.kind \in {"item", "items"} THEN items
                            ELSE offered.inbox
        /\ "inbox" \in offered'.astray <=>
              turn.answer.kind \notin {"item", "items"} /\ "inbox" \in offered.astray
    BY <1>8, SpeakOffers DEF At, ItemTold
  <2>3. items # <<>> => InPlace(items[spot + 1], items, items, spot)
    BY DEF ItemsInv, InPlace
  <2> QED BY <1>1, <1>2, <2>1, <2>2, <2>3
<1>9. ASSUME NEW L, Passed(L), UNCHANGED <<items, spot, offered>>, turn.at # "answer",
             L \cap {"triage", "answer"} = {}
      PROVE  PlaceInv'
  BY <1>3, <1>9 DEF Passed
<1>10. ASSUME NEW K, Answered(K), UNCHANGED <<items, spot, offered>>, turn.at # "answer",
              K \cap {"item", "items"} = {}
       PROVE  PlaceInv'
  BY <1>3, <1>10 DEF Answered, Passed
<1>11. CASE Route
  <2>1. turn.at = "heard" /\ UNCHANGED <<items, spot, offered>>
    BY <1>0, <1>11, RoutePasses DEF At
  <2>2. CASE turn' = Listening
    <3>1. turn'.at \notin {"triage", "answer"}
      BY <2>2, FreshTurn, Freshening
    <3> QED BY <1>3, <2>1, <3>1
  <2>3. CASE Passed({"inbox"}) \/ Passed({"briefing"}) \/ Answered({"hint"})
    BY <1>9, <1>10, <2>1, <2>3
  <2> QED BY <1>0, <1>11, <2>2, <2>3, RoutePasses
<1>12. CASE TalkOfMissions
  <2>1. turn.at \in {"briefing", "detail"} /\ UNCHANGED <<items, spot, offered>>
    BY <1>12, MissionsPass
  <2>2. \/ Passed({"draft"}) \/ Passed({"detail"})
        \/ Answered({"overview", "changes", "mission", "hint", "failed"})
    BY <1>12, MissionsPass
  <2> QED BY <1>9, <1>10, <2>1, <2>2
<1>13. CASE TalkOfDraft
  <2>1. turn.at \in {"draft", "dictation", "submit"} /\ UNCHANGED <<items, spot, offered>>
    BY <1>13, DraftPasses
  <2>2. \/ Passed({"dictation"}) \/ Passed({"approvals-or-intake"}) \/ Passed({"submit"})
        \/ Answered({"ready"}) \/ Answered({"prompt"}) \/ Answered({"hint"})
        \/ Answered({"cancelled", "failed"})
    BY <1>13, DraftPasses DEF Proceeded
  <2> QED BY <1>9, <1>10, <2>1, <2>2
<1>14. CASE Submitting
  BY <1>0, <1>10, <1>14, SubmittingPasses DEF At
<1>15. CASE Intake
  BY <1>0, <1>10, <1>15, IntakePasses DEF At
<1>16. CASE TalkOfApprovals
  <2>1. turn.at # "answer" /\ UNCHANGED <<items, spot, offered>>
    BY <1>16, ApprovalsPass DEF OfApprovals
  <2>2. \/ Passed({"approvals"}) \/ Passed({"pending"}) \/ Passed({"bundle"})
        \/ Passed({"decide"}) \/ Passed({"refresh"})
        \/ Answered({"approval"}) \/ Answered({"decided"})
        \/ Answered({"approvals"}) \/ Answered({"hint"}) \/ Answered({"failed"})
    BY <1>16, ApprovalsPass
  <2> QED BY <1>9, <1>10, <2>1, <2>2
<1>17. CASE TalkOfInbox
  <2>1. turn.at \in {"inbox", "triage", "reload"} /\ VI!VoiceInboxStep
    BY <1>0, <1>17, InboxPasses DEF TalkOfInbox
  <2>2. \/ Stands(items') /\ offered' = offered
        \/ "inbox" \in offered'.astray
    <3>1. CASE Stands(items')
      BY <1>17, <3>1 DEF TalkOfInbox
    <3>2. CASE ~Stands(items')
      <4>1. offered' = [offered EXCEPT !.astray = @ \cup {"inbox"}]
        BY <1>17, <3>2 DEF TalkOfInbox
      <4>2. offered = [approval |-> offered.approval, item |-> offered.item,
                       inbox |-> offered.inbox, astray |-> offered.astray]
        BY DEF FocusInv
      <4>3. offered'.astray = offered.astray \cup {"inbox"}
        BY <4>1, <4>2
      <4> QED BY <4>3
    <3> QED BY <3>1, <3>2
  \* The item is where it was, unless the inbox went astray.
  <2>3. ASSUME UNCHANGED <<items, spot>> \/ spot' = VI!Synced(items') \/ items' = <<>>
        PROVE  "inbox" \in offered'.astray \/ InPlace(offered'.item, offered'.inbox, items', spot')
    <3> SUFFICES ASSUME "inbox" \notin offered'.astray
                 PROVE  InPlace(offered.item, offered.inbox, items', spot')
      BY <2>2
    <3>1. Stands(items') /\ InPlace(offered.item, offered.inbox, items, spot)
      BY <1>2, <2>1, <2>2
    <3>2. spot \in Nat /\ items' \in Seq(Inbox!Keys)
      BY DEF ItemsInv
    <3>3. \A j \in 1..(spot + 1) : j \in DOMAIN items' /\ items'[j] = offered.inbox[j]
      BY <3>1 DEF Stands, InPlace
    <3>4. 1 \in 1..(spot + 1) /\ spot + 1 \in 1..(spot + 1)
      BY <3>2
    <3>5. spot + 1 \in DOMAIN items' /\ items'[spot + 1] = offered.item
      BY <3>1, <3>3, <3>4 DEF InPlace
    <3>6. items' # <<>> /\ spot < Len(items')
      BY <3>2, <3>5
    <3>7. spot' = spot
      BY <2>3, <3>6 DEF VI!Synced
    <3> QED BY <3>1, <3>5, <3>7 DEF InPlace
  <2>4. CASE VI!GetItems
    <3>1. PICK list, it : list = VI!Inbox!OpenItems /\ it = list[VI!Place(list) + 1]
      OBVIOUS
    <3>2. /\ items' = list /\ spot' = VI!Place(list)
          /\ IF list = <<>> THEN VI!Answer("hint", <<>>)
             ELSE \/ Saying({"what-is-in-my-inbox"}) /\ VI!Answer("items", list)
                  \/ Saying(VI!TriagePhrases) /\ VI!With("triage", it)
                  \/ Saying({"top-item"} \cup VI!Moves) /\ VI!Answer("item", it)
                  \/ /\ ~Saying({"what-is-in-my-inbox"}) /\ ~Saying({"top-item"} \cup VI!Moves)
                     /\ (VI!Answer("hand-off", it) \/ VI!Answer("hint", <<>>))
      BY <2>4, <3>1, Zenon DEF VI!GetItems, VI!Saying, Saying
    <3>3. CASE list = <<>>
      <4>1. Answered({"hint"})
        BY <1>0, <3>2, <3>3, Answering
      <4>2. turn'.at = "answer" /\ turn'.answer.kind = "hint"
        BY <4>1 DEF Answered, Passed
      <4> QED BY <1>1, <2>3, <3>2, <3>3, <4>2
    <3>4. CASE list # <<>> /\ VI!Answer("item", it)
      <4>1. Answered({"item"}) /\ turn'.answer.of = it
        BY <1>0, <3>4, Answering
      <4>2. it = items'[spot' + 1] /\ items' # <<>>
        BY <3>1, <3>2, <3>4
      <4> QED BY <1>1, <4>1, <4>2 DEF Answered, Passed
    <3>5. CASE list # <<>> /\ Saying({"what-is-in-my-inbox"}) /\ VI!Answer("items", list)
      <4>1. Answered({"items"}) /\ turn'.answer.of = list
        BY <1>0, <3>5, Answering
      <4>2. spot' = 0 /\ items' = list
        BY <3>2, <3>5 DEF VI!Place, VI!Saying, Saying
      <4> QED BY <1>1, <3>5, <4>1, <4>2 DEF Answered, Passed
    <3>6. CASE list # <<>> /\ Saying(VI!TriagePhrases) /\ VI!With("triage", it)
      <4>1. turn'.at = "triage" /\ turn'.target = it
        BY <1>0, <3>6 DEF VI!With, TurnShape
      <4>2. it = items'[spot' + 1]
        BY <3>1, <3>2
      \* At the place that was kept.
      <4>3. spot' = VI!Synced(items')
        BY <3>2, <3>6 DEF VI!Place, VI!Saying, Saying, VI!TriagePhrases
      <4> QED BY <1>1, <2>3, <4>1, <4>2, <4>3
    <3>7. CASE /\ list # <<>> /\ ~Saying({"what-is-in-my-inbox"})
               /\ ~Saying({"top-item"} \cup VI!Moves)
               /\ (VI!Answer("hand-off", it) \/ VI!Answer("hint", <<>>))
      <4>1. Answered({"hand-off"}) \/ Answered({"hint"})
        BY <1>0, <3>7, Answering
      <4>2. turn'.at = "answer" /\ turn'.answer.kind \notin {"item", "items"}
        BY <4>1 DEF Answered, Passed
      <4>3. spot' = VI!Synced(items')
        BY <3>2, <3>7 DEF VI!Place, VI!Saying, Saying, VI!Moves
      <4> QED BY <1>1, <2>3, <4>2, <4>3
    <3> QED BY <3>2, <3>3, <3>4, <3>5, <3>6, <3>7
  <2>5. CASE VI!PostTriage
    <3>1. VI!Goto("reload") /\ UNCHANGED <<items, spot>>
      BY <2>5 DEF VI!PostTriage, VI!voiceInboxVars
    <3>2. turn'.at = "reload"
      BY <1>0, <3>1, Passing DEF Passed
    <3> QED BY <1>1, <2>3, <3>1, <3>2
  <2>6. CASE VI!LoseMark \/ VI!Reload \/ VI!FailInbox
    <3>1. /\ VI!Answer("failed", turn.target) \/ VI!Answer("triaged", turn.target)
          /\ UNCHANGED <<items, spot>> \/ spot' = VI!Synced(items')
      BY <2>6 DEF VI!LoseMark, VI!Reload, VI!FailInbox, VI!voiceInboxVars
    <3>2. Answered({"failed"}) \/ Answered({"triaged"})
      BY <1>0, <3>1, Answering
    <3>3. turn'.at = "answer" /\ turn'.answer.kind \notin {"item", "items"}
      BY <3>2 DEF Answered, Passed
    <3> QED BY <1>1, <2>3, <3>1, <3>3
  <2> QED BY <2>1, <2>4, <2>5, <2>6 DEF VI!VoiceInboxStep
<1> QED BY <1>4, <1>5, <1>6, <1>7, <1>8, <1>11, <1>12, <1>13, <1>14, <1>15, <1>16, <1>17,
           NextPasses
-----------------------------------------------------------------------------
(* The control plane, and who decides by text message.                     *)

\* One decision, by whomever.
Decides(a, verdict, by) ==
    /\ approval' = [approval EXCEPT ![a] = verdict]
    /\ decided' = decided \cup {[approval |-> a, decision |-> verdict, by |-> by]}

Commits == \E w \in Webhooks : Sms!CommitDecision(w) /\ UNCHANGED <<notice, texted>>

LEMMA ControlMoves ==
  TargetInv /\ [Next]_vars =>
      \/ UNCHANGED <<approval, decided>>
      \/ /\ \E a \in Approvals, verdict \in Settled, by \in {"voice", "desk"} :
                Decides(a, verdict, by)
         /\ UNCHANGED smsVars
      \/ Commits
      \/ Requested /\ UNCHANGED decided
<1> SUFFICES ASSUME TargetInv, [Next]_vars, ~UNCHANGED <<approval, decided>>
             PROVE  \/ /\ \E a \in Approvals, verdict \in Settled, by \in {"voice", "desk"} :
                               Decides(a, verdict, by)
                       /\ UNCHANGED smsVars
                    \/ Commits
                    \/ Requested /\ UNCHANGED decided
  OBVIOUS
<1>1. CASE TalkOfApprovals
  <2>1. At("decide") /\ VA!Apply(turn.target[1])
    BY <1>1 DEF TalkOfApprovals, VA!VoiceApprovalStep, VA!Refuse, VA!LoadFirst, VA!Move,
                VA!MoveNowhere, VA!DecideIt, VA!GetPending, VA!FindById, VA!TellPending,
                VA!FocusPending, VA!GetBundle, VA!PostDecision, VA!LoseReply,
                VA!Refresh, VA!FailRequest, VA!UntouchedByVoice, VA!At, At
  <2>2. turn.target[1] \in Approvals
    BY <2>1 DEF TargetInv, At
  <2>3. VA!Verdict(turn.said.phrase) \in Settled
    BY DEF VA!Verdict, Settled
  <2>4. Decides(turn.target[1], VA!Verdict(turn.said.phrase), "voice")
    BY <2>1 DEF VA!Apply, Decides
  <2>5. UNCHANGED smsVars
    BY <1>1 DEF TalkOfApprovals
  <2> QED BY <2>2, <2>3, <2>4, <2>5
<1>2. ASSUME NEW a \in Approvals, RequestElsewhere(a)
      PROVE  Requested /\ UNCHANGED decided
  BY <1>2 DEF RequestElsewhere, Requested
<1>3. ASSUME NEW a \in Approvals, NEW decision \in {"approved", "denied"},
             DecideElsewhere(a, decision)
      PROVE  decision \in Settled /\ Decides(a, decision, "desk") /\ UNCHANGED smsVars
  BY <1>3 DEF DecideElsewhere, Decides, Settled
<1>4. CASE Texting
  <2>1. \E w \in Webhooks : Sms!CommitDecision(w)
    BY <1>4 DEF Texting, Sms!SmsStep, Sms!NoticeStep, Sms!WebhookStep, Sms!StartNotice,
              Sms!SendText, Sms!CommitToken, Sms!LoseNotice, Sms!Receive, Sms!ReadToken,
              Sms!ReadApproval, Sms!MarkInbound, Sms!UpdateDecision,
              Sms!MarkUsed, Sms!FailWebhook, Sms!UntouchedBySms
  <2>2. PICK w \in Webhooks : Sms!CommitDecision(w)
    BY <2>1
  <2>3. UNCHANGED <<notice, texted>>
    BY <2>2 DEF Sms!CommitDecision
  <2> QED BY <2>2, <2>3 DEF Commits
<1> QED BY <1>1, <1>2, <1>3, <1>4, NextFrames DEF Frames, Elsewhere

LEMMA DecidesControl ==
  ASSUME ControlInv, NEW a \in Approvals, NEW verdict \in Settled, NEW by,
         Decides(a, verdict, by)
  PROVE  ControlInv'
<1> DEFINE mine == [approval |-> a, decision |-> verdict, by |-> by]
<1>1. mine.approval = a
  OBVIOUS
<1>2. decided' = decided \cup {mine} /\ approval' = [approval EXCEPT ![a] = verdict]
  BY DEF Decides
<1> HIDE DEF mine
<1>3. approval' \in [Approvals -> {"absent", "pending"} \cup Settled]
  BY <1>2 DEF ControlInv
<1>4. ASSUME NEW b \in Approvals
      PROVE  approval'[b] = IF b = a THEN verdict ELSE approval[b]
  BY <1>2 DEF ControlInv
<1>5. ASSUME NEW event \in decided'
      PROVE  event.approval \in Approvals /\ approval'[event.approval] \in Settled
  BY <1>1, <1>2, <1>4 DEF ControlInv
<1>6. ASSUME NEW b \in Approvals, approval'[b] \in Settled
      PROVE  \E event \in decided' : event.approval = b
  BY <1>1, <1>2, <1>4, <1>6 DEF ControlInv, Sms!Decided
<1> QED BY <1>3, <1>5, <1>6 DEF ControlInv, Sms!Decided

\* What a webhook commits is a decision of its own.
LEMMA CommitDecides ==
  ASSUME SmsInv, NEW w \in Webhooks, Sms!CommitDecision(w)
  PROVE  /\ hook[w].approval \in Approvals /\ Sms!Decision(hook[w].verb) \in Settled
         /\ Decides(hook[w].approval, Sms!Decision(hook[w].verb), w)
<1>1. hook[w].at = "commit"
  BY DEF Sms!CommitDecision, Sms!At
<1>2. hook[w].approval \in texted /\ texted \subseteq Approvals
  BY <1>1 DEF SmsInv, GoodHook
<1>3. Sms!Decision(hook[w].verb) \in Settled
  BY DEF Sms!Decision, Settled
<1>4. Decides(hook[w].approval, Sms!Decision(hook[w].verb), w)
  BY DEF Sms!CommitDecision, Decides
<1> QED BY <1>2, <1>3, <1>4

LEMMA ControlStays == ControlInv /\ TargetInv /\ SmsInv /\ [Next]_vars => ControlInv'
<1> SUFFICES ASSUME ControlInv, TargetInv, SmsInv, [Next]_vars PROVE ControlInv'
  OBVIOUS
<1>1. CASE UNCHANGED <<approval, decided>>
  BY <1>1 DEF ControlInv, Sms!Decided
<1>2. CASE Commits
  <2>1. PICK w \in Webhooks : Sms!CommitDecision(w)
    BY <1>2 DEF Commits
  <2> QED BY <2>1, CommitDecides, DecidesControl
<1>3. CASE Requested /\ UNCHANGED decided
  <2>1. PICK a \in Approvals : /\ approval[a] = "absent"
                               /\ approval' = [approval EXCEPT ![a] = "pending"]
    BY <1>3 DEF Requested
  <2>2. \A b \in Approvals : approval'[b] = IF b = a THEN "pending" ELSE approval[b]
    BY <2>1 DEF ControlInv
  <2>3. approval' \in [Approvals -> {"absent", "pending"} \cup Settled]
    BY <2>1 DEF ControlInv
  <2>4. \A event \in decided : event.approval # a
    BY <2>1 DEF ControlInv, Settled
  <2> QED BY <1>3, <2>2, <2>3, <2>4 DEF ControlInv, Sms!Decided, Settled
<1> QED BY <1>1, <1>2, <1>3, ControlMoves, DecidesControl

-----------------------------------------------------------------------------
LEMMA HookKeeps ==
  ASSUME NEW w, NEW h, NEW sent, NEW events, GoodHook(w, h, sent, events),
         NEW sentNow, sent \subseteq sentNow,
         NEW eventsNow, events \subseteq eventsNow,
         \A event \in eventsNow : event \in events \/ event.by # w
  PROVE  GoodHook(w, h, sentNow, eventsNow)
<1>1. \A a : DecidedIn(events, a) => DecidedIn(eventsNow, a)
  BY DEF DecidedIn
<1>2. Own(w, h).by = w
  BY DEF Own
<1>3. Own(w, h) \in eventsNow => Own(w, h) \in events
  BY <1>2
<1>4. Own(w, h) \in events => Own(w, h) \in eventsNow
  OBVIOUS
<1>5. (\A event \in events : event.by # w) => \A event \in eventsNow : event.by # w
  OBVIOUS
<1> QED BY <1>1, <1>3, <1>4, <1>5 DEF GoodHook

\* What the steps of a webhook do to it.
HookIs(w, h) ==
    /\ hook' \in [Webhooks -> {hook'[v] : v \in Webhooks}]
    /\ hook'[w] = h
    /\ \A v \in Webhooks : v # w => hook'[v] = hook[v]

LEMMA HookMoves ==
  ASSUME SmsInv, NEW w \in Webhooks
  PROVE  /\ \A label : Sms!Move(w, label) =>
                HookIs(w, [at |-> label, approval |-> hook[w].approval, verb |-> hook[w].verb,
                           seen |-> hook[w].seen, late |-> hook[w].late,
                           answer |-> hook[w].answer])
         /\ \A answer : Sms!Reply(w, answer) =>
                HookIs(w, [at |-> "done", approval |-> hook[w].approval, verb |-> hook[w].verb,
                           seen |-> "none", late |-> hook[w].late, answer |-> answer])
<1>1. PICK S : S = {hook[v] : v \in Webhooks}
  OBVIOUS
<1>2. hook \in [Webhooks -> S]
  BY <1>1 DEF SmsInv
<1>3. hook[w] = [at |-> hook[w].at, approval |-> hook[w].approval, verb |-> hook[w].verb,
                 seen |-> hook[w].seen, late |-> hook[w].late, answer |-> hook[w].answer]
  BY DEF SmsInv, GoodHook, Hooks
<1>4. ASSUME NEW h, hook' = [hook EXCEPT ![w] = h] PROVE HookIs(w, h)
  BY <1>2, <1>4 DEF HookIs
<1>5. ASSUME NEW label, Sms!Move(w, label)
      PROVE  HookIs(w, [at |-> label, approval |-> hook[w].approval, verb |-> hook[w].verb,
                        seen |-> hook[w].seen, late |-> hook[w].late,
                        answer |-> hook[w].answer])
  <2>1. hook' = [hook EXCEPT ![w] = [hook[w] EXCEPT !.at = label]]
    BY <1>2, <1>5 DEF Sms!Move
  <2>2. [hook[w] EXCEPT !.at = label] =
            [at |-> label, approval |-> hook[w].approval, verb |-> hook[w].verb,
             seen |-> hook[w].seen, late |-> hook[w].late, answer |-> hook[w].answer]
    BY <1>3
  <2> QED BY <1>4, <2>1, <2>2
<1>6. ASSUME NEW answer, Sms!Reply(w, answer)
      PROVE  HookIs(w, [at |-> "done", approval |-> hook[w].approval, verb |-> hook[w].verb,
                        seen |-> "none", late |-> hook[w].late, answer |-> answer])
  <2>1. hook' = [hook EXCEPT ![w] = [hook[w] EXCEPT !.at = "done", !.seen = "none",
                                                    !.answer = answer]]
    BY <1>2, <1>6 DEF Sms!Reply
  <2>2. PICK h : h = [hook[w] EXCEPT !.at = "done", !.seen = "none", !.answer = answer]
    OBVIOUS
  <2>3. h = [at |-> "done", approval |-> hook[w].approval, verb |-> hook[w].verb,
             seen |-> "none", late |-> hook[w].late, answer |-> answer]
    BY <1>3, <2>2
  <2>4. HookIs(w, h)
    BY <1>4, <2>1, <2>2
  <2> QED BY <2>3, <2>4, Zenon
<1> QED BY <1>5, <1>6

\* Whatever happens to the other webhooks, one that does not move stays good.
LEMMA SmsKeeps ==
  ASSUME SmsInv, hook' = hook, texted \subseteq texted', decided \subseteq decided',
         \A event \in decided' : event \in decided \/ event.by \notin Webhooks
  PROVE  \A w \in Webhooks : GoodHook(w, hook'[w], texted', decided')
<1> SUFFICES ASSUME NEW w \in Webhooks PROVE GoodHook(w, hook[w], texted', decided')
  OBVIOUS
<1>1. GoodHook(w, hook[w], texted, decided)
  BY DEF SmsInv
<1> QED BY <1>1, HookKeeps

LEMMA OneHookMoves ==
  ASSUME SmsInv, NEW w \in Webhooks, NEW h, HookIs(w, h),
         texted' = texted, decided \subseteq decided',
         \A event \in decided' : event \in decided \/ event.by = w,
         GoodHook(w, h, texted, decided')
  PROVE  /\ hook' \in [Webhooks -> {hook'[v] : v \in Webhooks}]
         /\ \A v \in Webhooks : GoodHook(v, hook'[v], texted', decided')
<1>1. ASSUME NEW v \in Webhooks PROVE GoodHook(v, hook'[v], texted', decided')
  <2>1. CASE v = w
    BY <2>1 DEF HookIs
  <2>2. CASE v # w
    <3>1. GoodHook(v, hook[v], texted, decided) /\ hook'[v] = hook[v]
      BY <2>2 DEF SmsInv, HookIs
    <3>2. \A event \in decided' : event \in decided \/ event.by # v
      BY <2>2
    <3>3. GoodHook(v, hook[v], texted, decided')
      BY <3>1, <3>2, HookKeeps
    <3> QED BY <3>1, <3>3
  <2> QED BY <2>1, <2>2
<1> QED BY <1>1 DEF HookIs

\* The approval a code was sent for has been requested, and what is no longer
\* pending has been decided.
LEMMA SeenStatus ==
  ASSUME ControlInv, SmsInv, NEW a \in texted
  PROVE  /\ approval[a] \in {"pending"} \cup Settled
         /\ approval[a] \in Settled <=> DecidedIn(decided, a)
<1>1. a \in Approvals /\ approval[a] # "absent"
  BY DEF SmsInv
<1> QED BY <1>1 DEF ControlInv, Sms!Decided, DecidedIn

\* A webhook with its label, what it has seen and its answer changed.
Moved(old, label, seen, answer) ==
    [at |-> label, approval |-> old.approval, verb |-> old.verb, seen |-> seen,
     late |-> old.late, answer |-> answer]

LEMMA HookChanges ==
  ASSUME NEW old, NEW label, NEW seen,
         old = [at |-> old.at, approval |-> old.approval, verb |-> old.verb,
                seen |-> old.seen, late |-> old.late, answer |-> old.answer]
  PROVE  [old EXCEPT !.at = label, !.seen = seen]
           = [at |-> label, approval |-> old.approval, verb |-> old.verb,
              seen |-> seen, late |-> old.late, answer |-> old.answer]
<1>1. PICK h : h = [old EXCEPT !.at = label, !.seen = seen]
  OBVIOUS
<1>2. h = [at |-> label, approval |-> old.approval, verb |-> old.verb,
           seen |-> seen, late |-> old.late, answer |-> old.answer]
  BY <1>1
<1> QED BY <1>1, <1>2, Zenon

LEMMA WebhookStays ==
  ASSUME SmsInv, ControlInv, NEW w \in Webhooks, Sms!WebhookStep(w) \/ Sms!FailWebhook(w)
  PROVE  /\ hook' \in [Webhooks -> {hook'[v] : v \in Webhooks}]
         /\ \A v \in Webhooks : GoodHook(v, hook'[v], texted', decided')
<1> DEFINE old == hook[w]
<1>1. GoodHook(w, old, texted, decided)
  BY DEF SmsInv
<1>2. texted' = texted
  BY DEF Sms!WebhookStep, Sms!ReadToken, Sms!ReadApproval, Sms!MarkInbound,
         Sms!UpdateDecision, Sms!CommitDecision, Sms!MarkUsed, Sms!FailWebhook
<1>3. ASSUME NEW label, NEW seen, NEW answer,
             HookIs(w, Moved(old, label, seen, answer)),
             GoodHook(w, Moved(old, label, seen, answer), texted, decided),
             decided' = decided
      PROVE  /\ hook' \in [Webhooks -> {hook'[v] : v \in Webhooks}]
             /\ \A v \in Webhooks : GoodHook(v, hook'[v], texted', decided')
  <2>1. PICK h : h = Moved(old, label, seen, answer)
    OBVIOUS
  <2> QED BY <1>2, <1>3, <2>1, OneHookMoves
<1>4. ASSUME NEW label, NEW seen, NEW answer
      PROVE  LET h == Moved(old, label, seen, answer)
             IN h.at = label /\ h.approval = old.approval /\ h.verb = old.verb /\ h.seen = seen
                /\ h.late = old.late /\ h.answer = answer /\ Own(w, h) = Own(w, old)
  BY DEF Own, Moved
<1>5. ASSUME NEW label, Sms!Move(w, label) PROVE HookIs(w, Moved(old, label, old.seen, old.answer))
  BY <1>5, HookMoves DEF Moved
<1>6. ASSUME NEW answer, Sms!Reply(w, answer) PROVE HookIs(w, Moved(old, "done", "none", answer))
  BY <1>6, HookMoves DEF Moved
<1>7. old.late \in BOOLEAN /\ old.approval \in Approvals \cup {0}
      /\ old.verb \in {"none", "APPROVE", "DENY", "READ"}
      /\ old.seen \in Seen
      /\ old.answer \in Replies
  BY <1>1 DEF GoodHook, Hooks
<1>8. ASSUME NEW label \in HookLabels, NEW seen \in Seen,
             NEW answer \in Replies
      PROVE  Moved(old, label, seen, answer) \in Hooks
  BY <1>7 DEF Moved, Hooks
<1> HIDE DEF old
\* A reply that claims nothing but what is so.
<1>9. ASSUME NEW answer \in {"unknown", "not-pending", "details", "recorded", "error"},
             Sms!Reply(w, answer), old.at # "idle", decided' = decided,
             answer = "recorded" => Own(w, old) \in decided,
             answer = "not-pending" => DecidedIn(decided, old.approval)
      PROVE  /\ hook' \in [Webhooks -> {hook'[v] : v \in Webhooks}]
             /\ \A v \in Webhooks : GoodHook(v, hook'[v], texted', decided')
  <2>1. PICK h : h = Moved(old, "done", "none", answer)
    OBVIOUS
  <2>2. /\ h.at = "done" /\ h.approval = old.approval /\ h.verb = old.verb
        /\ h.late = old.late /\ h.answer = answer /\ Own(w, h) = Own(w, old)
    BY <1>4, <2>1
  <2>3. h \in Hooks
    <3>1. "done" \in HookLabels
      BY DEF HookLabels
    <3>2. "none" \in Seen
      BY DEF Seen
    <3>3. answer \in Replies
      BY DEF Replies
    <3> QED BY <1>8, <2>1, <3>1, <3>2, <3>3
  <2>4. GoodHook(w, h, texted, decided)
    BY <1>1, <1>9, <2>2, <2>3 DEF GoodHook
  <2> QED BY <1>3, <1>6, <1>9, <2>1, <2>4
\* A step further that may be taken.
<1>10. ASSUME NEW label \in {"approval", "mark", "decide", "commit"},
              NEW seen \in Seen,
              HookIs(w, Moved(old, label, seen, old.answer)), decided' = decided,
              old.at \in {"token", "approval", "mark", "decide"},
              label = "mark" /\ seen # "pending" => DecidedIn(decided, old.approval),
              label = "mark" /\ old.late => seen # "pending",
              label \in {"decide", "commit"} => ~old.late /\ old.verb \in {"APPROVE", "DENY"}
       PROVE  /\ hook' \in [Webhooks -> {hook'[v] : v \in Webhooks}]
              /\ \A v \in Webhooks : GoodHook(v, hook'[v], texted', decided')
  <2>1. PICK h : h = Moved(old, label, seen, old.answer)
    OBVIOUS
  <2>2. /\ h.at = label /\ h.approval = old.approval /\ h.verb = old.verb /\ h.seen = seen
        /\ h.late = old.late /\ h.answer = old.answer /\ Own(w, h) = Own(w, old)
    BY <1>4, <2>1
  <2>3. h \in Hooks
    <3>1. label \in HookLabels
      BY DEF HookLabels
    <3> QED BY <1>7, <1>8, <2>1, <3>1
  <2>4. GoodHook(w, h, texted, decided)
    BY <1>1, <1>10, <2>2, <2>3 DEF GoodHook
  <2> QED BY <1>3, <1>10, <2>1, <2>4
<1>11. CASE Sms!ReadToken(w)
  <2>1. old.at = "token" /\ decided' = decided /\ (Sms!Move(w, "approval") \/ Sms!Reply(w, "unknown"))
    BY <1>11 DEF Sms!ReadToken, Sms!At, Sms!UntouchedBySms, old
  <2>2. CASE Sms!Move(w, "approval")
    BY <1>5, <1>7, <1>10, <2>1, <2>2
  <2>3. CASE Sms!Reply(w, "unknown")
    BY <1>9, <2>1, <2>3
  <2> QED BY <2>1, <2>2, <2>3
<1>12. CASE Sms!ReadApproval(w)
  <2>1. PICK seen : seen = approval[old.approval]
    OBVIOUS
  <2>2. old.at = "approval" /\ decided' = decided
    BY <1>12 DEF Sms!ReadApproval, Sms!At, Sms!UntouchedBySms, old
  <2>3. hook' = [hook EXCEPT ![w].at = "mark", ![w].seen = seen]
    BY <1>12, <2>1 DEF Sms!ReadApproval, old
  <2>4. HookIs(w, Moved(old, "mark", seen, old.answer))
    <3>1. PICK S : S = {hook[v] : v \in Webhooks}
      OBVIOUS
    <3>2. hook \in [Webhooks -> S]
      BY <3>1 DEF SmsInv
    <3>3. PICK h : h = Moved(old, "mark", seen, old.answer)
      OBVIOUS
    <3>4. h = [old EXCEPT !.at = "mark", !.seen = seen]
      <4>1. old = [at |-> old.at, approval |-> old.approval, verb |-> old.verb,
                   seen |-> old.seen, late |-> old.late, answer |-> old.answer]
        BY <1>1 DEF GoodHook, Hooks
      <4>3. [old EXCEPT !.at = "mark", !.seen = seen]
              = [at |-> "mark", approval |-> old.approval, verb |-> old.verb, seen |-> seen,
                 late |-> old.late, answer |-> old.answer]
        BY <4>1, HookChanges, Zenon
      <4>4. h = [at |-> "mark", approval |-> old.approval, verb |-> old.verb, seen |-> seen,
                 late |-> old.late, answer |-> old.answer]
        BY <3>3 DEF Moved
      <4> QED BY <4>3, <4>4, Zenon
    <3>5. hook' = [hook EXCEPT ![w] = h]
      BY <2>3, <3>2, <3>4 DEF old
    <3>6. HookIs(w, h)
      BY <3>2, <3>5 DEF HookIs
    <3> QED BY <3>3, <3>6
  <2>5. old.approval \in texted
    BY <1>1, <2>2 DEF GoodHook
  <2>6. seen \in {"pending"} \cup Settled /\ (seen \in Settled <=> DecidedIn(decided, old.approval))
    BY <2>1, <2>5, SeenStatus
  <2>7. seen # "pending" => DecidedIn(decided, old.approval)
    BY <2>6
  <2>8. old.late => seen # "pending"
    <3>1. old.late => DecidedIn(decided, old.approval)
      BY <1>1 DEF GoodHook
    <3> QED BY <2>6, <3>1 DEF Settled
  <2>9. seen \in Seen
    BY <2>6 DEF Seen
  <2> QED BY <1>10, <2>2, <2>4, <2>7, <2>8, <2>9
<1>13. CASE Sms!MarkInbound(w)
  <2>1. /\ old.at = "mark" /\ decided' = decided
        /\ \/ old.seen # "pending" /\ Sms!Reply(w, "not-pending")
           \/ Sms!Reply(w, "details")
           \/ old.seen = "pending" /\ old.verb # "READ" /\ Sms!Move(w, "decide")
    BY <1>13 DEF Sms!MarkInbound, Sms!At, Sms!UntouchedBySms, old
  <2>2. CASE old.seen # "pending" /\ Sms!Reply(w, "not-pending")
    <3>1. DecidedIn(decided, old.approval)
      BY <1>1, <2>1, <2>2 DEF GoodHook
    <3> QED BY <1>9, <2>1, <2>2, <3>1
  <2>3. CASE Sms!Reply(w, "details")
    BY <1>9, <2>1, <2>3
  <2>4. CASE old.seen = "pending" /\ old.verb # "READ" /\ Sms!Move(w, "decide")
    <3>1. ~old.late /\ old.verb \in {"APPROVE", "DENY"}
      BY <1>1, <1>7, <2>1, <2>4 DEF GoodHook
    <3> QED BY <1>5, <1>7, <1>10, <2>1, <2>4, <3>1
  <2> QED BY <2>1, <2>2, <2>3, <2>4
<1>14. CASE Sms!UpdateDecision(w)
  <2>1. old.at = "decide" /\ decided' = decided /\ Sms!Move(w, "commit")
    BY <1>14 DEF Sms!UpdateDecision, Sms!At, Sms!UntouchedBySms, old
  <2>2. ~old.late /\ old.verb \in {"APPROVE", "DENY"}
    BY <1>1, <2>1 DEF GoodHook
  <2> QED BY <1>5, <1>7, <1>10, <2>1, <2>2
<1>15. CASE Sms!CommitDecision(w)
  <2>1. old.at = "commit" /\ Sms!Move(w, "use") /\ decided' = decided \cup {Own(w, old)}
    BY <1>15 DEF Sms!CommitDecision, Sms!At, Own, old
  <2>2. PICK h : h = Moved(old, "use", old.seen, old.answer)
    OBVIOUS
  <2>3. /\ h.at = "use" /\ h.approval = old.approval /\ h.verb = old.verb /\ h.seen = old.seen
        /\ h.late = old.late /\ h.answer = old.answer /\ Own(w, h) = Own(w, old)
    BY <1>4, <2>2
  <2>4. h \in Hooks
    <3>1. "use" \in HookLabels
      BY DEF HookLabels
    <3> QED BY <1>7, <1>8, <2>2, <3>1
  <2>5. Own(w, old).by = w
    BY DEF Own
  <2>6. Own(w, old) \in decided' /\ decided \subseteq decided'
    BY <2>1
  <2>7. ~old.late /\ old.verb \in {"APPROVE", "DENY"} /\ old.answer = "none" /\ old.approval \in texted
    BY <1>1, <2>1 DEF GoodHook
  <2>8. GoodHook(w, h, texted, decided')
    BY <2>3, <2>4, <2>6, <2>7 DEF GoodHook
  <2>9. HookIs(w, h)
    BY <1>5, <2>1, <2>2
  <2>10. \A event \in decided' : event \in decided \/ event.by = w
    BY <2>1, <2>5
  <2> QED BY <1>2, <2>6, <2>8, <2>9, <2>10, OneHookMoves
<1>16. CASE Sms!MarkUsed(w)
  <2>1. old.at = "use" /\ decided' = decided /\ Sms!Reply(w, "recorded")
    BY <1>16 DEF Sms!MarkUsed, Sms!At, Sms!UntouchedBySms, old
  <2>2. Own(w, old) \in decided
    BY <1>1, <2>1 DEF GoodHook
  <2> QED BY <1>9, <2>1, <2>2
<1>17. CASE Sms!FailWebhook(w)
  <2>1. old.at # "idle" /\ decided' = decided /\ Sms!Reply(w, "error")
    BY <1>17 DEF Sms!FailWebhook, Sms!UntouchedBySms, old
  <2> QED BY <1>9, <2>1
<1> QED BY <1>11, <1>12, <1>13, <1>14, <1>15, <1>16, <1>17 DEF Sms!WebhookStep

LEMMA ReceiveStays ==
  ASSUME SmsInv, ControlInv, NEW w \in Webhooks, NEW a \in Approvals,
         NEW verb \in {"APPROVE", "DENY", "READ"}, Sms!Receive(w, a, verb)
  PROVE  /\ hook' \in [Webhooks -> {hook'[v] : v \in Webhooks}]
         /\ \A v \in Webhooks : GoodHook(v, hook'[v], texted', decided')
<1>1. GoodHook(w, hook[w], texted, decided) /\ hook[w].at = "idle" /\ a \in texted
      /\ texted' = texted /\ decided' = decided
  BY DEF SmsInv, Sms!Receive, Sms!At, Sms!UntouchedBySms
<1>2. PICK late : late = Sms!Decided(a)
                  /\ hook' = [hook EXCEPT ![w] = [Sms!Idle EXCEPT !.at = "token", !.approval = a,
                                                      !.verb = verb, !.late = late]]
  BY Zenon DEF Sms!Receive
<1>3. PICK h : h = [at |-> "token", approval |-> a, verb |-> verb, seen |-> "none",
                    late |-> late, answer |-> "none"]
  OBVIOUS
<1>4. hook' = [hook EXCEPT ![w] = h]
  <2>1. PICK i : i = Sms!Idle
    OBVIOUS
  <2>2. i = [at |-> i.at, approval |-> i.approval, verb |-> i.verb, seen |-> i.seen,
             late |-> i.late, answer |-> i.answer]
    BY <2>1 DEF Sms!Idle
  <2>3. i.seen = "none" /\ i.answer = "none"
    BY <2>1 DEF Sms!Idle
  <2>4. PICK woken : woken = [i EXCEPT !.at = "token", !.approval = a, !.verb = verb,
                                       !.late = late]
    OBVIOUS
  <2>5. woken = [at |-> "token", approval |-> a, verb |-> verb, seen |-> i.seen,
                 late |-> late, answer |-> i.answer]
    BY <2>2, <2>4
  <2>6. woken = h
    BY <1>3, <2>3, <2>5, Zenon
  <2>7. hook' = [hook EXCEPT ![w] = woken]
    BY <1>2, <2>1, <2>4, Zenon
  <2> QED BY <2>6, <2>7, Zenon
<1>5. HookIs(w, h)
  <2>1. PICK S : S = {hook[v] : v \in Webhooks}
    OBVIOUS
  <2>2. hook \in [Webhooks -> S]
    BY <2>1 DEF SmsInv
  <2> QED BY <1>4, <2>2 DEF HookIs
<1>6. late => DecidedIn(decided, a)
  BY <1>2 DEF Sms!Decided, DecidedIn
<1>7. \A event \in decided : event.by # w
  BY <1>1 DEF GoodHook, Hooks
<1>8. Own(w, h) \notin decided
  BY <1>7 DEF Own
<1>9. h \in Hooks
  <2>1. late \in BOOLEAN
    <3>1. Sms!Decided(a) \in BOOLEAN
      BY Zenon DEF Sms!Decided
    <3> QED BY <1>2, <3>1, Zenon
  <2> QED BY <1>3, <2>1 DEF Hooks, Seen, Replies, HookLabels
<1>10. GoodHook(w, h, texted, decided)
  <2>1. h.at = "token" /\ h.approval = a /\ h.verb = verb /\ h.late = late /\ h.answer = "none"
    BY <1>3
  <2> QED BY <1>1, <1>6, <1>7, <1>8, <1>9, <2>1 DEF GoodHook
<1> QED BY <1>1, <1>5, <1>10, OneHookMoves

\* An approval that is known stays known.
LEMMA StaysKnown ==
  ControlInv /\ TargetInv /\ SmsInv /\ [Next]_vars =>
      \A a \in Approvals : approval[a] # "absent" => approval'[a] # "absent"
<1> SUFFICES ASSUME ControlInv, TargetInv, SmsInv, [Next]_vars, NEW a \in Approvals,
                    approval[a] # "absent"
             PROVE  approval'[a] # "absent"
  OBVIOUS
<1>1. ASSUME NEW b \in Approvals, NEW verdict \in Settled, NEW by, Decides(b, verdict, by)
      PROVE  approval'[a] # "absent"
  BY <1>1 DEF Decides, ControlInv, Settled
<1>2. CASE Commits
  <2>1. PICK w \in Webhooks : Sms!CommitDecision(w)
    BY <1>2 DEF Commits
  <2> QED BY <1>1, <2>1, CommitDecides
<1>3. CASE Requested
  BY <1>3 DEF Requested, ControlInv
<1> QED BY <1>1, <1>2, <1>3, ControlMoves

\* Steps that move no webhook.
Notified ==
    \/ UNCHANGED <<notice, texted>>
    \/ \E a \in Approvals, label \in {"queued", "send", "commit", "done"} :
            /\ approval'[a] # "absent"
            /\ notice' = [notice EXCEPT ![a] = label]
            /\ texted' = texted \/ texted' = texted \cup {a}

LEMMA TextingMoves ==
  ControlInv /\ TargetInv /\ SmsInv /\ [Next]_vars =>
      \/ Notified /\ UNCHANGED hook
         /\ \A event \in decided' : event \in decided \/ event.by \notin Webhooks
      \/ \E w \in Webhooks : /\ Sms!WebhookStep(w) \/ Sms!FailWebhook(w)
                             /\ UNCHANGED notice
      \/ \E w \in Webhooks, a \in Approvals, verb \in {"APPROVE", "DENY", "READ"} :
            Sms!Receive(w, a, verb)
<1> SUFFICES ASSUME ControlInv, TargetInv, SmsInv, [Next]_vars,
                    ~ \E w \in Webhooks : /\ Sms!WebhookStep(w) \/ Sms!FailWebhook(w)
                                          /\ UNCHANGED notice,
                    ~ \E w \in Webhooks, a \in Approvals, verb \in {"APPROVE", "DENY", "READ"} :
                            Sms!Receive(w, a, verb)
             PROVE  Notified /\ UNCHANGED hook
                    /\ \A event \in decided' : event \in decided \/ event.by \notin Webhooks
  OBVIOUS
<1>1. \A event \in decided' : event \in decided \/ event.by \notin Webhooks
  <2>1. ASSUME NEW a, NEW verdict, NEW by \in {"voice", "desk"}, Decides(a, verdict, by)
        PROVE  \A event \in decided' : event \in decided \/ event.by \notin Webhooks
    <3>1. PICK mine : mine = [approval |-> a, decision |-> verdict, by |-> by]
      OBVIOUS
    <3>2. mine.by = by
      BY <3>1
    <3>3. by \notin Webhooks
      BY WebhooksAssumption
    <3>4. decided' = decided \cup {mine}
      BY <2>1, <3>1 DEF Decides
    <3> QED BY <3>2, <3>3, <3>4
  <2>2. ~Commits
    BY DEF Commits, Sms!WebhookStep
  <2> QED BY <2>1, <2>2, ControlMoves
<1>2. \A a \in Approvals : approval[a] # "absent" => approval'[a] # "absent"
  BY StaysKnown
<1>3. CASE UNCHANGED smsVars
  BY <1>1, <1>3 DEF smsVars, Notified
<1>4. CASE Requested
  <2>1. PICK a \in Approvals : Opened(a) /\ approval' = [approval EXCEPT ![a] = "pending"]
    BY <1>4 DEF Requested
  <2>2. approval'[a] # "absent"
    BY <2>1 DEF ControlInv
  <2>3. CASE Sms!QueueNotice(a)
    BY <1>1, <2>2, <2>3 DEF Sms!QueueNotice, Sms!Notify, Notified
  <2> QED BY <1>3, <2>1, <2>3 DEF Opened
<1>5. CASE Texting
  <2>1. PICK a \in Approvals : Sms!NoticeStep(a) \/ Sms!LoseNotice(a)
    <3>1. \A w \in Webhooks : ~Sms!WebhookStep(w) /\ ~Sms!FailWebhook(w)
      BY DEF Sms!WebhookStep, Sms!FailWebhook, Sms!ReadToken, Sms!ReadApproval,
             Sms!MarkInbound, Sms!UpdateDecision, Sms!CommitDecision, Sms!MarkUsed
    <3> QED BY <1>5, <3>1 DEF Texting, Sms!SmsStep
  <2>2. notice[a] # "none" /\ UNCHANGED hook
        /\ \E label \in {"queued", "send", "commit", "done"} : Sms!Notify(a, label)
        /\ (texted' = texted \/ texted' = texted \cup {a})
    <3>1. CASE Sms!StartNotice(a)
      BY <3>1 DEF Sms!StartNotice
    <3>2. CASE Sms!SendText(a)
      BY <3>2 DEF Sms!SendText
    <3>3. CASE Sms!CommitToken(a)
      BY <3>3 DEF Sms!CommitToken
    <3>4. CASE Sms!LoseNotice(a)
      BY <3>4 DEF Sms!LoseNotice
    <3> QED BY <2>1, <3>1, <3>2, <3>3, <3>4 DEF Sms!NoticeStep
  <2>3. approval'[a] # "absent"
    BY <1>2, <2>2 DEF SmsInv
  <2> QED BY <1>1, <2>2, <2>3 DEF Sms!Notify, Notified
<1> QED BY <1>3, <1>4, <1>5, NextFrames DEF Frames

LEMMA SmsStays == SmsInv /\ ControlInv /\ TargetInv /\ [Next]_vars => SmsInv'
<1> SUFFICES ASSUME SmsInv, ControlInv, TargetInv, [Next]_vars PROVE SmsInv'
  OBVIOUS
<1>1. decided \subseteq decided'
  BY DecidedGrows
<1>2. \A a \in Approvals : approval[a] # "absent" => approval'[a] # "absent"
  BY StaysKnown
<1>3. ASSUME Notified
      PROVE  /\ notice' \in [Approvals -> {"none", "queued", "send", "commit", "done"}]
             /\ texted' \subseteq Approvals
             /\ \A a \in Approvals :
                    notice'[a] # "none" \/ a \in texted' => approval'[a] # "absent"
             /\ texted \subseteq texted'
  BY <1>2, <1>3 DEF Notified, SmsInv
<1>4. ASSUME Notified,
             hook' \in [Webhooks -> {hook'[w] : w \in Webhooks}],
             \A w \in Webhooks : GoodHook(w, hook'[w], texted', decided')
      PROVE  SmsInv'
  BY <1>3, <1>4 DEF SmsInv
<1>5. CASE Notified /\ UNCHANGED hook
           /\ \A event \in decided' : event \in decided \/ event.by \notin Webhooks
  <2>1. \A w \in Webhooks : GoodHook(w, hook'[w], texted', decided')
    BY <1>1, <1>3, <1>5, SmsKeeps
  <2>2. hook' \in [Webhooks -> {hook'[w] : w \in Webhooks}]
    BY <1>5 DEF SmsInv
  <2> QED BY <1>4, <1>5, <2>1, <2>2
<1>6. ASSUME NEW w \in Webhooks, Sms!WebhookStep(w) \/ Sms!FailWebhook(w), UNCHANGED notice
      PROVE  SmsInv'
  <2>1. texted' = texted
    BY <1>6 DEF Sms!WebhookStep, Sms!ReadToken, Sms!ReadApproval, Sms!MarkInbound,
                Sms!UpdateDecision, Sms!CommitDecision, Sms!MarkUsed, Sms!FailWebhook
  <2>2. Notified
    BY <1>6, <2>1 DEF Notified
  <2> QED BY <1>4, <1>6, <2>2, WebhookStays
<1>7. ASSUME NEW w \in Webhooks, NEW a \in Approvals, NEW verb \in {"APPROVE", "DENY", "READ"},
             Sms!Receive(w, a, verb)
      PROVE  SmsInv'
  <2>1. Notified
    BY <1>7 DEF Sms!Receive, Notified
  <2> QED BY <1>4, <1>7, <2>1, ReceiveStays
<1> QED BY <1>5, <1>6, <1>7, TextingMoves

-----------------------------------------------------------------------------
(* Put together.                                                           *)

LEMMA InitTurn ==
  ASSUME Init
  PROVE  /\ turn.at = "closed" /\ turn.answer.kind = "none" /\ turn.said.phrase = "none"
         /\ TurnShape
<1>1. PICK said, answer : said = Utter("none", 0) /\ answer = NoAnswer
  OBVIOUS
<1>2. turn = [at |-> "closed", said |-> said, target |-> <<>>, list |-> <<>>,
              answer |-> answer]
  BY <1>1 DEF Init, Listening
<1>3. said = [phrase |-> said.phrase, of |-> said.of] /\ said.phrase = "none"
  BY <1>1 DEF Utter
<1>4. answer = [kind |-> answer.kind, of |-> answer.of] /\ answer.kind = "none"
  BY <1>1 DEF NoAnswer
<1>5. turn.said = said /\ turn.answer = answer /\ turn.at = "closed"
  BY <1>2
<1>6. TurnShape
  BY <1>2, <1>3, <1>4, <1>5 DEF TurnShape
<1> QED BY <1>3, <1>4, <1>5, <1>6

LEMMA InitIInv == Init => IInv
<1> SUFFICES ASSUME Init PROVE IInv
  OBVIOUS
<1>0. /\ turn.at = "closed" /\ turn.answer.kind = "none" /\ turn.said.phrase = "none"
      /\ TurnShape
  BY InitTurn
<1>1. ControlInv
  BY DEF Init, ControlInv, Settled
<1>2. ArrivalInv /\ QueueInv /\ ItemsInv /\ RankedInv
  BY DEF Init, Inbox!InboxInit, ArrivalInv, QueueInv, ItemsInv, RankedInv
<1>3. TurnInv
  <2>1. "none" \notin VA!ById \cup GD!Starts
    BY DEF VA!ById, GD!Starts
  <2> QED BY <1>0, <2>1 DEF TurnInv, Saying, At, Labels, OfApprovals
<1>4. TargetInv
  BY <1>0 DEF TargetInv
<1>5. DraftInv /\ ReadbackInv
  <2>1. PICK d : d = GD!NoDraft
    OBVIOUS
  <2>2. d = [kind |-> d.kind, fields |-> d.fields, step |-> d.step] /\ d.step = "none"
    BY <2>1 DEF GD!NoDraft
  <2>3. draft = d
    BY <2>1 DEF Init
  <2> QED BY <1>0, <2>1, <2>2, <2>3 DEF DraftInv, ReadbackInv, At, OfApprovals
<1>6. StreamInv
  <2>1. updates = <<>> /\ owed = {}
    BY DEF Init
  <2>2. PICK l : l = [at |-> "between", met |-> FALSE, last |-> 0]
    OBVIOUS
  <2>3. loop = l
    BY <2>2, Zenon DEF Init
  <2>4. l = [at |-> l.at, met |-> l.met, last |-> l.last] /\ l.last = 0
    BY <2>2
  <2> QED BY <2>1, <2>3, <2>4 DEF StreamInv
<1>7. ClaimInv
  BY <1>0 DEF ClaimInv, At, VA!VoiceDecisionClaimed, VA!At
<1>8. FocusInv /\ PlaceInv
  <2>1. PICK o : o = NothingOffered
    OBVIOUS
  <2>2. /\ o = [approval |-> o.approval, item |-> o.item, inbox |-> o.inbox,
                astray |-> o.astray]
        /\ o.approval = <<>> /\ o.astray = {"inbox"}
    BY <2>1 DEF NothingOffered
  <2>3. offered = o
    BY <2>1 DEF Init
  <2>4. VA!Focused = <<>>
    BY DEF Init, VA!Focused
  <2> QED BY <1>0, <2>2, <2>3, <2>4 DEF FocusInv, PlaceInv, At
<1>9. SmsInv
  <2>1. PICK idle : idle = Sms!Idle
    OBVIOUS
  <2>2. /\ idle.at = "idle" /\ idle.late = FALSE /\ idle.answer = "none" /\ idle.seen = "none"
        /\ idle \in Hooks
    BY <2>1 DEF Sms!Idle, Hooks, HookLabels, Seen, Replies
  <2>3. hook = [w \in Webhooks |-> idle] /\ decided = {} /\ texted = {}
        /\ notice = [a \in Approvals |-> "none"]
    BY <2>1 DEF Init, Sms!SmsInit
  <2>4. ASSUME NEW w \in Webhooks PROVE GoodHook(w, hook[w], texted, decided)
    <3>1. hook[w] = idle
      BY <2>3
    <3> QED BY <2>2, <2>3, <3>1 DEF GoodHook
  <2>5. hook \in [Webhooks -> {hook[w] : w \in Webhooks}]
    BY <2>3
  <2> QED BY <2>3, <2>4, <2>5 DEF SmsInv
<1> QED BY <1>1, <1>2, <1>3, <1>4, <1>5, <1>6, <1>7, <1>8, <1>9 DEF IInv

LEMMA StepIInv == IInv /\ [Next]_vars => IInv'
<1> SUFFICES ASSUME IInv, [Next]_vars PROVE IInv'
  OBVIOUS
<1>1. /\ ControlInv /\ ArrivalInv /\ TurnInv /\ QueueInv /\ ItemsInv /\ RankedInv
      /\ TargetInv /\ DraftInv /\ StreamInv /\ ClaimInv /\ ReadbackInv /\ FocusInv
      /\ PlaceInv /\ SmsInv
  BY DEF IInv
<1>2. ControlInv' /\ SmsInv'
  BY <1>1, ControlStays, SmsStays
<1>3. ArrivalInv' /\ ItemsInv' /\ RankedInv' /\ StreamInv'
  BY <1>1, ArrivalStays, ItemsStay, RankedStays, StreamStays
<1>4. QueueInv'
  BY <1>1, QueueStays
<1>5. TurnInv' /\ DraftInv'
  BY <1>1, TurnStays, DraftStays
<1>6. TargetInv' /\ FocusInv'
  BY <1>1, <1>4, TargetStays, FocusStays
<1>7. ClaimInv' /\ ReadbackInv' /\ PlaceInv'
  BY <1>1, <1>3, ClaimStays, ReadbackStays, PlaceStays
<1> QED BY <1>2, <1>3, <1>4, <1>5, <1>6, <1>7 DEF IInv

LEMMA Invariant == Spec => []IInv
<1> QED BY InitIInv, StepIInv, PTL DEF Spec

\* A cursor stands on an item of its list, and the code, which reads there
\* unchecked, never reads past the end; a draft has only fields of its kind; the
\* updates loop is never ahead of jarvis.updates.
THEOREM TypeCorrect == Spec => []TypeOK
<1>1. IInv => TypeOK
  <2> SUFFICES ASSUME IInv PROVE TypeOK
    OBVIOUS
  <2>1. approval \in [Approvals -> {"absent", "pending", "approved", "denied"}]
    BY DEF IInv, ControlInv, Settled
  <2>2. turn.at \in {"closed", "listening", "heard", "inbox", "triage", "reload",
                     "briefing", "detail", "draft", "dictation", "submit",
                     "approvals-or-intake", "approvals", "pending", "bundle", "decide",
                     "refresh", "answer"}
    BY DEF IInv, TurnInv, Labels
  <2>3. Range(queue) \subseteq Approvals /\ (queue # <<>> => cursor < Len(queue))
    BY DEF IInv, QueueInv, Range
  <2>4. Range(items) \subseteq Inbox!Keys /\ (items # <<>> => spot < Len(items))
    BY DEF IInv, ItemsInv, Range
  <2>5. Range(ranked) \subseteq Missions /\ (ranked # <<>> => place < Len(ranked))
    BY DEF IInv, RankedInv, Range
  <2>6. draft.step \in {"none", "collect", "confirm"}
    BY DEF IInv, DraftInv
  <2>7. draft # GD!NoDraft => DOMAIN draft.fields \subseteq
            Range(GD!CatalogFields[draft.kind]) \cup Range(GD!LegacyFields[draft.kind])
    BY DEF IInv, DraftInv, FieldsOf
  <2>8. loop.last <= Len(updates) /\ owed \subseteq 1..Len(updates)
    BY DEF IInv, StreamInv
  <2> QED BY <2>1, <2>2, <2>3, <2>4, <2>5, <2>6, <2>7, <2>8 DEF TypeOK
<1> QED BY <1>1, Invariant, PTL

\* An approval that voice or a text message calls decided was decided so by it,
\* and a message that came after the decision decides nothing, whoever decides
\* at the same time and whatever requests fail or lose their reply.
THEOREM AnswersTrue == Spec => []AnswersAreTrue
<1>1. IInv => AnswersAreTrue
  <2> SUFFICES ASSUME IInv PROVE AnswersAreTrue
    OBVIOUS
  <2>1. VA!VoiceDecisionClaimed
    BY DEF IInv, ClaimInv
  <2>2. ASSUME NEW w \in Webhooks
        PROVE  LET own == [approval |-> hook[w].approval,
                           decision |-> Sms!Decision(hook[w].verb), by |-> w]
               IN /\ hook[w].answer = "recorded" => own \in decided
                  /\ hook[w].answer = "not-pending" => Sms!Decided(hook[w].approval)
                  /\ hook[w].late => own \notin decided
                  /\ own \in decided => hook[w].verb # "READ"
    <3>1. GoodHook(w, hook[w], texted, decided)
      BY DEF IInv, SmsInv
    <3>2. /\ hook[w].answer = "recorded" => Own(w, hook[w]) \in decided
          /\ hook[w].answer = "not-pending" => DecidedIn(decided, hook[w].approval)
          /\ Own(w, hook[w]) \in decided => ~hook[w].late /\ hook[w].verb # "READ"
      BY <3>1 DEF GoodHook
    <3> QED BY <3>2 DEF Own, DecidedIn, Sms!Decided
  <2>3. Sms!SmsAnswersTrue
    BY <2>2 DEF Sms!SmsAnswersTrue
  <2> QED BY <2>1, <2>3 DEF AnswersAreTrue
<1> QED BY <1>1, Invariant, PTL

\* "Approve it" and "deny it" decide the approval told last while in focus, and
\* "acknowledge it" and its like act on the inbox item told last, whatever others
\* request, decide and triage meanwhile.  The exceptions are those of the code: a
\* reading that failed behind a moved cursor, a queue loaded anew after a
\* decision, an inbox in which something came or went at the item's place or
\* ahead of it.  No approval is decided while a request is being dictated.
THEOREM HeardIsActedOn == Spec => FocusIsWhatWasHeard
<1>1. IInv =>
        /\ At("decide") =>
              /\ ~GD!Drafting
              /\ Saying(VA!It) =>
                    "approvals" \in offered.astray \/ turn.target = offered.approval
        /\ At("triage") => "inbox" \in offered.astray \/ turn.target = offered.item
  <2> SUFFICES ASSUME IInv
               PROVE  /\ At("decide") =>
                            /\ ~GD!Drafting
                            /\ Saying(VA!It) =>
                                  "approvals" \in offered.astray \/ turn.target = offered.approval
                      /\ At("triage") => "inbox" \in offered.astray \/ turn.target = offered.item
    OBVIOUS
  <2>1. ASSUME At("decide") PROVE ~GD!Drafting
    BY <2>1 DEF IInv, DraftInv, OfApprovals, At, GD!Drafting
  <2>2. ASSUME At("decide"), Saying(VA!It)
        PROVE  "approvals" \in offered.astray \/ turn.target = offered.approval
    <3>1. turn.target # <<>>
      BY <2>2 DEF IInv, TargetInv, At
    <3> QED BY <2>2, <3>1 DEF IInv, FocusInv, At
  <2>3. ASSUME At("triage")
        PROVE  "inbox" \in offered.astray \/ turn.target = offered.item
    BY <2>3 DEF IInv, PlaceInv, InPlace, At
  <2> QED BY <2>1, <2>2, <2>3
<1>2. IInv =>
        [ /\ Deciding =>
              /\ ~GD!Drafting
              /\ Saying(VA!It) =>
                    "approvals" \in offered.astray \/ turn.target = offered.approval
          /\ Triaging =>
              "inbox" \in offered.astray \/ turn.target = offered.item ]_vars
  BY <1>1 DEF Deciding, Triaging
<1> QED BY <1>2, Invariant, PTL DEF FocusIsWhatWasHeard

\* What is requested by voice is what the draft held when its summary was read
\* out last, not yet requested nor cancelled since, whatever was said in between;
\* what the summary names is posted as it was spoken, and what it passes over is
\* no other than it was then.
THEOREM ReadBackIsRequested == Spec => RequestedAsReadBack
<1>1. IInv => [ Requesting =>
                  \E reading \in readback :
                      /\ reading.posted = GD!Posted(draft)
                      /\ \A name \in DOMAIN reading.spoken :
                          /\ name \in DOMAIN GD!Posted(draft)
                          /\ reading.spoken[name] =
                                GD!Aloud(name, GD!Posted(draft)[name]) ]_vars
  <2> SUFFICES ASSUME IInv, Requesting
               PROVE  \E reading \in readback :
                          /\ reading.posted = GD!Posted(draft)
                          /\ \A name \in DOMAIN reading.spoken :
                              /\ name \in DOMAIN GD!Posted(draft)
                              /\ reading.spoken[name] =
                                    GD!Aloud(name, GD!Posted(draft)[name])
    OBVIOUS
  <2>1. At("submit") /\ draft.step = "confirm"
    BY DEF Requesting, IInv, DraftInv
  <2>2. Complete(draft) /\ Reading(draft) \in readback
    BY <2>1 DEF IInv, ReadbackInv, At
  <2>3. GoodDraft(draft)
    BY <2>1 DEF IInv, DraftInv, GoodDraft
  <2>4. /\ Reading(draft).spoken = GD!Spoken(draft)
        /\ Reading(draft).posted = GD!Posted(draft)
    BY DEF Reading
  <2>5. \A name \in DOMAIN GD!Spoken(draft) :
            /\ name \in DOMAIN GD!Posted(draft)
            /\ GD!Spoken(draft)[name] = GD!Aloud(name, GD!Posted(draft)[name])
    BY <2>2, <2>3, SpokenIsPosted
  <2> QED BY <2>2, <2>4, <2>5
<1> QED BY <1>1, Invariant, PTL DEF RequestedAsReadBack
=============================================================================

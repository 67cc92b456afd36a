--------------------------- MODULE GovernedDraft ---------------------------
(***************************************************************************)
(* A governed action requested by voice: a start phrase opens a draft,     *)
(* its fields are dictated one by one, some of them are read back, and     *)
(* only a confirmation posts it.  The draft lives in the memory of the     *)
(* voice server; what the POST makes is a pending approval.                *)
(***************************************************************************)
EXTENDS VoiceTurn

CONSTANTS
    Approvals, Missions,
    Kinds                 \* the kinds of action that are asked for

VARIABLES
    approval,             \* status of every approval
    draft,                \* _drafts of the connection: at most one, or NoDraft
    catalog,              \* GET /operator/action-catalog: unread, loaded or failed
    lastMission           \* _last_mission_by_ws, or 0

draftVars == <<draft, catalog, lastMission>>

NoDraft == [kind |-> "none", fields |-> <<>>, step |-> "none"]
Drafting == draft # NoDraft
Forgotten == draft = NoDraft /\ lastMission = 0

Vague == {"do-it"}
Confirming == {"yes", "confirm"}
Starts == {"start", "start-inline"}

-----------------------------------------------------------------------------
\* Without the catalogue a kind asks for fewer fields.
LegacyFields ==
    [gh_issue |-> <<"mission_id", "repo", "title", "body">>,
     gh_pr |-> <<"mission_id", "repo", "base", "head", "title", "body">>,
     gh_merge |-> <<"mission_id", "repo", "pull_number">>,
     gm_draft |-> <<"mission_id", "to", "subject", "body">>,
     gm_send |-> <<"mission_id", "draft_id">>,
     gm_reply |-> <<"mission_id", "reply_to_message_id", "body", "thread_id">>]

CatalogFields ==
    [gh_issue |-> <<"mission_id", "repo", "title", "body", "labels">>,
     gh_pr |-> LegacyFields.gh_pr,
     gh_merge |-> <<"mission_id", "repo", "pull_number", "merge_method",
                    "expected_head_sha">>,
     gm_draft |-> <<"mission_id", "to", "subject", "body", "cc", "bcc">>,
     gm_send |-> LegacyFields.gm_send,
     gm_reply |-> <<"mission_id", "reply_to_message_id", "thread_id", "body",
                    "subject", "cc", "bcc">>]

FieldOrder(kind) == IF catalog = "loaded" THEN CatalogFields[kind] ELSE LegacyFields[kind]

Missing(d) == Kept(FieldOrder(d.kind), Range(FieldOrder(d.kind)) \ DOMAIN d.fields)

Filled(d, name, value) ==
    [d EXCEPT !.fields = [n \in DOMAIN d.fields \cup {name} |->
                              IF n = name THEN value ELSE d.fields[n]]]

\* Only these fields look at what they are given.
Suits(name, u) ==
    CASE name \in {"repo", "pull_number"} -> u.phrase = "words" /\ u.of > 0
      [] name = "merge_method" -> u.phrase = "skip" \/ (u.phrase = "words" /\ u.of > 0)
      [] OTHER -> TRUE

Optional(kind) ==
    {"body", "thread_id", "labels", "merge_method", "expected_head_sha", "cc", "bcc"}
        \cup (IF kind = "gm_reply" THEN {"subject"} ELSE {})

\* An empty text; for a merge method, the squash it defaults to.
Default == Utter("none", 0)

\* Whatever else is said becomes the field's text, an "approve it" included.
Value(kind, name, u) == IF u.phrase = "skip" /\ name \in Optional(kind) THEN Default ELSE u

-----------------------------------------------------------------------------
\* The fields that the summary names, with the catalogue as without it: no
\* mission, labels, pinned head, copies or thread, of a mail no body, and of a
\* reply no subject.
Summarized ==
    [gh_issue |-> {"repo", "title", "body"},
     gh_pr |-> {"repo", "base", "head", "title"},
     gh_merge |-> {"repo", "pull_number", "merge_method"},
     gm_draft |-> {"to", "subject"},
     gm_send |-> {"draft_id"},
     gm_reply |-> {"reply_to_message_id"}]

\* A body is only "provided" or "empty".
Aloud(name, value) ==
    IF name = "body" /\ value # Default THEN Utter("provided", 0) ELSE value

Spoken(d) ==
    [name \in Summarized[d.kind] |->
        IF name \in DOMAIN d.fields THEN Aloud(name, d.fields[name]) ELSE Default]

\* The prompt for the next field, or the summary, to be confirmed.
Proceed(next) ==
    \E d \in {next} :
        IF Missing(d) = <<>>
        THEN draft' = [d EXCEPT !.step = "confirm"] /\ Answer("ready", Spoken(d))
        ELSE draft' = d /\ Answer("prompt", <<>>)

\* Mutant: the draft stays when it is cancelled.
ForgetNothing == UNCHANGED draft

Forget == draft' = NoDraft

Cancel ==
    /\ At("draft") /\ Drafting /\ Saying({"cancel-that"})
    /\ Forget
    /\ Answer("cancelled", <<>>)
    /\ UNCHANGED <<approval, catalog, lastMission, faults>>

RefuseSecond ==
    /\ At("draft") /\ Drafting /\ Saying(Starts)
    /\ Answer("hint", <<>>)
    /\ UNCHANGED <<approval, draftVars, faults>>

\* Every other utterance asks for the catalogue first, until it was answered once.
ReadCatalog ==
    /\ At("draft") /\ ~(Drafting /\ Saying(Starts \cup {"cancel-that"}))
    /\ \/ catalog # "unread" /\ UNCHANGED <<catalog, faults>>
       \/ catalog = "unread" /\ catalog' = "loaded" /\ UNCHANGED faults
       \/ catalog = "unread" /\ catalog' = "failed" /\ Fault
    /\ Goto("dictation")
    /\ UNCHANGED <<approval, draft, lastMission>>

\* Another connection's GET, begun before, is answered after a failed one.
LoadCatalogElsewhere ==
    /\ catalog \in {"unread", "failed"} /\ catalog' = "loaded"
    /\ UNCHANGED <<approval, draft, lastMission, turn, faults>>

PassOn ==
    /\ At("dictation") /\ ~Drafting /\ ~Saying(Starts)
    /\ Goto("approvals-or-intake")
    /\ UNCHANGED <<approval, draftVars, faults>>

Start ==
    /\ At("dictation") /\ ~Drafting /\ Saying(Starts)
    /\ LET kind == turn.said.of
           named == IF Saying({"start"}) THEN {}
                    ELSE IF kind = "gh_merge" THEN {"repo", "pull_number"}
                    ELSE IF kind = "gm_send" THEN {"draft_id"} ELSE {}
       IN Proceed([kind |-> kind, step |-> "collect",
                   fields |-> [n \in named |-> Utter("inline", 1)]])
    /\ UNCHANGED <<approval, catalog, lastMission, faults>>

Collecting == At("dictation") /\ Drafting /\ draft.step = "collect"
Asked == Missing(draft)[1]

Dictate ==
    /\ Collecting
    /\ IF Saying(Vague) \/ (Missing(draft) # <<>> /\ Asked # "mission_id"
                              /\ ~Suits(Asked, turn.said))
       THEN Answer("hint", <<>>) /\ UNCHANGED draft
       ELSE IF Missing(draft) = <<>> THEN Proceed(draft)
       ELSE /\ Asked # "mission_id"
            /\ Proceed(Filled(draft, Asked, Value(draft.kind, Asked, turn.said)))
    /\ UNCHANGED <<approval, catalog, lastMission, faults>>

\* The last mission is taken unseen, an id is looked up; it may be unknown or
\* stand for several missions.
NameMission ==
    /\ Collecting /\ ~Saying(Vague) /\ Missing(draft) # <<>> /\ Asked = "mission_id"
    /\ \/ /\ Saying({"last-mission"}) /\ lastMission # 0
          /\ Proceed(Filled(draft, Asked, Utter("mission", lastMission)))
       \/ /\ Saying({"mission-id"}) /\ turn.said.of \in Missions
          /\ Proceed(Filled(draft, Asked, Utter("mission", turn.said.of)))
       \/ Answer("hint", <<>>) /\ UNCHANGED draft
    /\ UNCHANGED <<approval, catalog, lastMission, faults>>

AskToConfirm ==
    /\ At("dictation") /\ Drafting /\ draft.step = "confirm"
    /\ IF Saying(Confirming) THEN Goto("submit") ELSE Answer("hint", <<>>)
    /\ UNCHANGED <<approval, draftVars, faults>>

-----------------------------------------------------------------------------
\* A reply takes neither of the catalogue's subject, cc and bcc along; a merge
\* always has a method.
Posted(d) ==
    CASE d.kind = "gm_reply" ->
            Restrict(d.fields, DOMAIN d.fields \ {"subject", "cc", "bcc"})
      [] d.kind = "gh_merge" /\ "merge_method" \notin DOMAIN d.fields ->
            Filled(d, "merge_method", Default).fields
      [] OTHER -> d.fields

\* POST .../integrations/...; the draft is gone whatever comes of it.
OpensApproval(a) ==
    /\ At("submit") /\ approval[a] = "absent"
    /\ approval' = [approval EXCEPT ![a] = "pending"]
    /\ Forget
    /\ UNCHANGED <<catalog, lastMission>>

Submit(a) ==
    /\ OpensApproval(a)
    /\ Answer("requested", <<a>>)
    /\ UNCHANGED faults

SubmitLosesReply(a) == OpensApproval(a) /\ Fault /\ Answer("failed", <<>>)

\* Refused by the control plane, or not delivered.
SubmitFails ==
    /\ At("submit")
    /\ Forget
    /\ Answer("failed", <<>>)
    /\ UNCHANGED <<approval, catalog, lastMission, faults>>

GovernedDraftStep ==
    \/ Cancel \/ RefuseSecond \/ ReadCatalog \/ PassOn \/ Start \/ Dictate
    \/ NameMission \/ AskToConfirm \/ SubmitFails
=============================================================================

--------------------------- MODULE VoiceBriefing ---------------------------
(***************************************************************************)
(* The briefing dialogue of a voice connection: overviews, and a walk      *)
(* through the missions in the order of the last overview.  Its handler    *)
(* takes a snapshot of seven GETs before it looks whether it was meant.    *)
(***************************************************************************)
EXTENDS VoiceTurn

CONSTANT Missions

VARIABLES
    mission,         \* status of every mission
    ranked, place    \* VoiceBriefingState: mission_ids and cursor

voiceBriefingVars == <<ranked, place>>

Overviews == {"what-is-happening", "what-needs-attention", "what-is-running", "what-is-blocked"}
MissionMoves == {"next-mission", "previous-mission"}
BriefingPhrases == Overviews \cup MissionMoves \cup {"what-changed", "top-mission"}

Forgotten == ranked = <<>> /\ place = 0

-----------------------------------------------------------------------------
Rank(status) ==
    CASE status = "failed" -> 100
      [] status \in {"pending", "awaiting_approval"} -> 80
      [] status = "active" -> 60
      [] status = "complete" -> 10
      [] OTHER -> 40

\* The latest updated_at decides between equals; here either may.
Rankings ==
    LET known == {m \in Missions : mission[m] # "none"}
    IN {list \in Bijection(1..Cardinality(known), known) :
           \A i \in 2..Len(list) : Rank(mission[list[i - 1]]) >= Rank(mission[list[i]])}

\* What the GET of the missions gives; when it fails there are none.
Snapshot(list) ==
    \/ list \in Rankings /\ UNCHANGED faults
    \/ list = <<>> /\ Fault

\* Work for other services is left to intake, without a snapshot.
Defer ==
    /\ At("briefing") /\ Saying({"look-through-my-mail"})
    /\ Goto("draft")
    /\ UNCHANGED <<mission, voiceBriefingVars, faults>>

Unmeant ==
    /\ At("briefing") /\ ~Saying(BriefingPhrases \cup {"look-through-my-mail"})
    /\ Goto("draft")
    /\ UNCHANGED <<mission, voiceBriefingVars, faults>>

Overview ==
    /\ At("briefing") /\ Saying(Overviews)
    /\ \E list \in Rankings \cup {<<>>} :
        /\ Snapshot(list)
        /\ ranked' = list /\ place' = 0
        /\ Answer("overview", list)
    /\ UNCHANGED mission

TellChanges ==
    /\ At("briefing") /\ Saying({"what-changed"})
    /\ Answer("changes", <<>>)
    /\ UNCHANGED <<mission, voiceBriefingVars, faults>>

\* Only a walk that has no list takes the snapshot's; "back" takes none.
Known(list) == IF ranked = <<>> /\ ~Saying({"previous-mission"}) THEN list ELSE ranked

Walk ==
    /\ At("briefing") /\ Saying(MissionMoves \cup {"top-mission"})
    /\ \E list \in Rankings \cup {<<>>} :
        /\ Snapshot(list)
        /\ ranked' = Known(list)
        /\ place' = IF ranked' = <<>> \/ Saying({"top-mission"}) THEN place
                    ELSE IF Saying({"next-mission"}) THEN After(place, ranked')
                    ELSE Before(place)
        /\ IF ranked' = <<>> THEN Answer("hint", <<>>)
           ELSE With("detail", <<ranked'[place' + 1]>>)
    /\ UNCHANGED mission

TellMission ==
    /\ At("detail")
    /\ Answer("mission", turn.target)
    /\ UNCHANGED <<mission, voiceBriefingVars, faults>>

MissMission ==
    /\ At("detail") /\ Fault
    /\ Answer("failed", <<>>)
    /\ UNCHANGED <<mission, voiceBriefingVars>>

VoiceBriefingStep ==
    Defer \/ Unmeant \/ Overview \/ TellChanges \/ Walk \/ TellMission \/ MissMission
=============================================================================

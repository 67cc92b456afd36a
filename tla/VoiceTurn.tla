----------------------------- MODULE VoiceTurn -----------------------------
(***************************************************************************)
(* One utterance on its way through the websocket loop of the voice        *)
(* server.  The loop hears, handles and answers one utterance at a time:   *)
(* `turn` says where it is, and the dialogue modules share it.             *)
(***************************************************************************)
EXTENDS Naturals, Sequences, FiniteSets, Functions, Lists

CONSTANT MaxFaults     \* bound on requests that fail or lose their reply

VARIABLES
    turn,     \* [at, said, target, list, answer]
    faults

\* An utterance is a phrase and what it names, if anything.
Utter(phrase, of) == [phrase |-> phrase, of |-> of]
NoAnswer == [kind |-> "none", of |-> <<>>]
Listening == [at |-> "listening", said |-> Utter("none", 0), target |-> <<>>, list |-> <<>>,
              answer |-> NoAnswer]

At(label) == turn.at = label
Saying(phrases) == turn.said.phrase \in phrases
Goto(label) == turn' = [turn EXCEPT !.at = label]
With(label, target) == turn' = [turn EXCEPT !.at = label, !.target = target]
Answer(kind, of) == turn' = [turn EXCEPT !.at = "answer", !.answer = [kind |-> kind, of |-> of]]

Fault == faults < MaxFaults /\ faults' = faults + 1

\* One further in a list, but not past its end; cursors count from 0.
After(cursor, list) == IF cursor + 1 < Len(list) THEN cursor + 1 ELSE Len(list) - 1
Before(cursor) == IF cursor > 0 THEN cursor - 1 ELSE 0
Within(cursor, list) == IF cursor < Len(list) THEN cursor ELSE 0
=============================================================================

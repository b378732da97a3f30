---------------------------- MODULE SessionState ----------------------------
(***************************************************************************)
(* The session state machine of loopbiotic_harness: which action a session *)
(* state admits, what the backend must answer, and the state a card puts   *)
(* the session in.  Constant level: Engine and TurnLoop build on it.       *)
(*                                                                         *)
(* Apply and ApplyPatch { patch_id } are treated alike by every function   *)
(* here, so both are the one action "apply".  Of the states, Idle,         *)
(* Working, Applying, Applied and Checking are declared by the code and    *)
(* never entered by the engine; Idle, Applying, Applied and Checking have  *)
(* no row in the table either.                                             *)
(***************************************************************************)

\* enum SessionState
States ==
    {"Idle", "Thinking", "CardShown", "Working", "PatchShown",
     "PatchExplained", "PatchFailed", "GoalLoopFailed", "Applying",
     "Applied", "Summary", "Checking", "Finished"}

\* enum NextState: what the answer to a turn has to be
Expectations ==
    {"Any", "Conversation", "Card", "Patch", "GoalLoop", "GoalWhy",
     "Summary", "Finished"}

\* loopbiotic_protocol::Action
Actions ==
    {"follow", "why", "resume_draft", "fix", "goal", "cancel_turn",
     "other_lead", "apply", "retry", "edit_prompt", "open", "run_check",
     "next", "stop"}

\* loopbiotic_protocol::CardKind
Kinds ==
    {"hypothesis", "finding", "patch", "working", "choice", "deny",
     "open_location", "summary", "error"}

\* The rows of SessionState::next that return Ok.
Transitions ==
       {<<"CardShown", a, "Conversation">> :
            a \in {"follow", "why", "other_lead", "open"}}
  \cup {<<"CardShown", a, "Any">> : a \in {"retry", "edit_prompt"}}
  \cup {<<s, a, "Patch">> : s \in {"PatchShown", "PatchFailed"},
                            a \in {"retry", "edit_prompt"}}
  \cup {<<"PatchExplained", a, "GoalWhy">> :
            a \in {"why", "retry", "edit_prompt"}}
  \cup {<<"GoalLoopFailed", a, "GoalLoop">> : a \in {"retry", "edit_prompt"}}
  \cup {<<s, "stop", "Finished">> :
            s \in {"CardShown", "Working", "PatchShown", "PatchFailed",
                   "PatchExplained", "GoalLoopFailed", "Summary"}}
  \cup {<<"CardShown", "goal", "GoalLoop">>,
        <<"CardShown", "fix", "Patch">>,
        <<"Working", "cancel_turn", "Conversation">>,
        <<"PatchShown", "apply", "Summary">>,
        <<"PatchShown", "why", "GoalWhy">>,
        <<"PatchExplained", "resume_draft", "Patch">>,
        <<"Summary", "run_check", "Card">>}

\* SessionState::next returns Ok, and what it returns
Admits(s, a) == \E e \in Expectations : <<s, a, e>> \in Transitions
NextState(s, a) == CHOOSE e \in Expectations : <<s, a, e>> \in Transitions

\* NextState::validate: the card kinds a turn expecting e may answer with
Valid(e) ==
    CASE e = "Any" -> Kinds
      [] e = "Conversation" -> {"hypothesis", "finding", "choice", "deny",
                                "open_location", "error"}
      [] e = "Card" -> Kinds \ {"patch", "summary"}
      [] e = "Patch" -> {"patch"}
      [] e = "GoalLoop" -> {"patch", "summary", "choice", "deny", "error"}
      [] e = "GoalWhy" -> {"finding"}
      [] OTHER -> {"summary"}

\* SessionState::from_card
FromCard(kind) ==
    CASE kind = "patch" -> "PatchShown"
      [] kind = "working" -> "Working"
      [] kind = "summary" -> "Summary"
      [] OTHER -> "CardShown"

\* A card that refuses the turn: validate_backend_card lets Error and Deny
\* through whatever the turn expected.
Refused(kind) == kind \in {"error", "deny"}

\* state_after_card of the engine
NoGoalRefusal(kind, e) ==  \* mutant of StateAfterCard
    CASE Refused(kind) /\ e = "Patch" -> "PatchFailed"
      [] Refused(kind) /\ e = "GoalWhy" -> "PatchExplained"
      [] kind = "finding" /\ e = "GoalWhy" -> "PatchExplained"
      [] OTHER -> FromCard(kind)
StateAfterCard(kind, e) ==
    CASE Refused(kind) /\ e = "Patch" -> "PatchFailed"
      [] Refused(kind) /\ e = "GoalLoop" -> "GoalLoopFailed"
      [] Refused(kind) /\ e = "GoalWhy" -> "PatchExplained"
      [] kind = "finding" /\ e = "GoalWhy" -> "PatchExplained"
      [] OTHER -> FromCard(kind)

=============================================================================

---------------------------- MODULE TurnPromise ----------------------------
(***************************************************************************)
(* What one model turn promises the engine: it ends, once, with a card the *)
(* turn's expectation admits, an Error or a Deny.  Engine takes this as    *)
(* the single step Answer; TurnLoop, the code's retry loop, implements it. *)
(***************************************************************************)
EXTENDS SessionState

VARIABLES
    expected,  \* what the turn has to answer
    answer     \* the kind of the card it ended with, "none" before

\* An open_location is a request inside the turn and never its answer.
Admitted(e) == (Valid(e) \cup {"error", "deny"}) \ {"open_location"}

Init == expected \in Expectations /\ answer = "none"

End ==
    /\ answer = "none"
    /\ answer' \in Admitted(expected)
    /\ UNCHANGED expected

vars == <<expected, answer>>
Safety == Init /\ [][End]_vars
Spec == Safety /\ WF_vars(End)
=============================================================================

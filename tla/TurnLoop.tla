------------------------------ MODULE TurnLoop ------------------------------
(***************************************************************************)
(* One model turn (Engine::next_distinct_response): the backend is asked   *)
(* until it gives a card that is new, well formed, valid for the turn and, *)
(* for a patch, fits the source; in between it may ask the editor for      *)
(* permission to continue in another file.  An action ends where the code  *)
(* awaits the backend, the editor's permission or an editor file read.     *)
(*                                                                         *)
(* Left out as data: prompts, token usage, progress reports, the texts of  *)
(* the repair instructions.  The editor callbacks are always installed, as *)
(* the daemon does.                                                        *)
(***************************************************************************)
EXTENDS SessionState, Integers, Sequences, FiniteSets

CONSTANTS
    Files,         \* workspace files
    MaxAttempts,   \* answers judged before the turn gives up: 3 in the code
    MaxGrants,     \* MAX_LOCATION_GRANTS: 2 in the code
    MaxHunks       \* bound: hunks in one patch

ASSUME TurnLoopAssumption ==
    /\ MaxAttempts \in Nat \ {0}
    /\ MaxGrants \in Nat
    /\ MaxHunks \in Nat
    /\ "none" \notin Files

VARIABLES
    pc,        \* the await the turn is suspended at, "judge" between two
    expected,  \* the NextState of the turn
    attempt,   \* attempts used up
    grants,    \* permissions granted
    action,    \* the BackendAction of the next request
    context,   \* the file of the context bundle the backend is given
    prefetched,\* a speculated response waits to be taken
    resp,      \* the response being judged, in the end the turn's answer
    hunk,      \* the hunk being checked against the source
    log,       \* metadata.attempts: the outcome of every response
    calls,     \* history: requests made to the backend
    asks       \* history: permissions asked of the user

vars == <<pc, expected, attempt, grants, action, context, prefetched, resp,
          hunk, log, calls, asks>>
-----------------------------------------------------------------------------
(***************************************************************************)
(* A response: the card's kind, the file it points at, how many hunks it   *)
(* has (a patch with none is a file operation), and what is wrong with it: *)
(* not machine-readable, a repetition, or malformed.                       *)
(***************************************************************************)
Plain(kind, file, flaw) ==
    [kind |-> kind, file |-> file, hunks |-> 0, flaw |-> flaw]
Responses ==
         {Plain("error", "none", flaw) : flaw \in {"none", "unparsed"}}
    \cup {Plain("open_location", f, "none") : f \in Files}
    \cup {Plain("deny", f, flaw) : f \in Files \cup {"none"},
                                   flaw \in {"none", "malformed"}}
    \cup {Plain(kind, "none", flaw) : kind \in {"hypothesis", "finding"},
                            flaw \in {"none", "repeated", "malformed"}}
    \cup {Plain(kind, "none", flaw) : kind \in {"choice", "summary"},
                                      flaw \in {"none", "malformed"}}
    \cup {Plain("patch", "none", flaw) : flaw \in {"none", "malformed"}}
    \cup [kind : {"patch"}, file : Files, hunks : 1..MaxHunks,
          flaw : {"none", "repeated", "malformed"}]

ErrorCard == Plain("error", "none", "none")

Outcomes ==
    {"backend_error", "location_granted", "location_declined",
     "contract_retry", "duplicate_retry", "duplicate_step_retry", "rejected",
     "accepted"}

\* attempts.push
Logged(outcome) == log' = Append(log, [number |-> attempt + 1,
                                       outcome |-> outcome])

\* The turn returns this card.
Return(card, outcome) ==
    /\ resp' = card
    /\ Logged(outcome)
    /\ pc' = "done"
    /\ UNCHANGED <<expected, attempt, grants, action, context, prefetched,
                   hunk, calls, asks>>

\* A failed attempt: the backend is asked again, until the last attempt,
\* whose card is the given one.
LateLastAttempt(outcome, last) ==  \* mutant of Retry
    IF attempt < MaxAttempts
      THEN /\ Logged(outcome)
           /\ action' = "contract_retry"
           /\ attempt' = attempt + 1
           /\ pc' = "ask"
           /\ UNCHANGED <<expected, grants, context, prefetched, resp, hunk,
                          calls, asks>>
      ELSE Return(last, "rejected")
Retry(outcome, last) ==
    IF attempt < MaxAttempts - 1
      THEN /\ Logged(outcome)
           /\ action' = "contract_retry"
           /\ attempt' = attempt + 1
           /\ pc' = "ask"
           /\ UNCHANGED <<expected, grants, context, prefetched, resp, hunk,
                          calls, asks>>
      ELSE Return(last, "rejected")

\* Err(violation): the rejected card is an Error.
Violation == Retry("contract_retry", ErrorCard)
-----------------------------------------------------------------------------
(***************************************************************************)
(* Asking the backend                                                      *)
(***************************************************************************)
Judge(r) == resp' = r /\ pc' = "judge"

TakePrefetched ==
    /\ pc = "ask" /\ prefetched
    /\ \E r \in Responses : Judge(r)
    /\ prefetched' = FALSE
    /\ UNCHANGED <<expected, attempt, grants, action, context, hunk, log,
                   calls, asks>>

BackendAnswers ==
    /\ pc = "ask" /\ ~prefetched
    /\ \E r \in Responses : Judge(r)
    /\ calls' = calls + 1
    /\ UNCHANGED <<expected, attempt, grants, action, context, prefetched,
                   hunk, log, asks>>

\* The backend's request fails, or runs into its own timeout.
BackendFails ==
    /\ pc = "ask" /\ ~prefetched
    /\ calls' = calls + 1
    /\ resp' = ErrorCard
    /\ Logged("backend_error")
    /\ pc' = "done"
    /\ UNCHANGED <<expected, attempt, grants, action, context, prefetched,
                   hunk, asks>>
-----------------------------------------------------------------------------
(***************************************************************************)
(* Permission to continue in another file                                  *)
(***************************************************************************)
\* An open_location, or a denial of a patch turn that points elsewhere
AsksLocation(r) == r.kind = "open_location"
DeniesElsewhere(r) ==
    /\ r.kind = "deny" /\ expected \in {"Patch", "GoalLoop"}
    /\ r.file \in Files \ {context}

\* A grant left: the user decides.
AsksUser(r) == (AsksLocation(r) \/ DeniesElsewhere(r)) /\ grants < MaxGrants

AskPermission ==
    /\ pc = "judge" /\ AsksUser(resp)
    /\ pc' = "permission"
    /\ asks' = asks + 1
    /\ UNCHANGED <<expected, attempt, grants, action, context, prefetched,
                   resp, hunk, log, calls>>

\* The editor opened the file and captured it; no attempt is used up.
PermissionGranted ==
    /\ pc = "permission"
    /\ Logged("location_granted")
    /\ context' = resp.file
    /\ action' = "location_granted"
    /\ grants' = grants + 1
    /\ pc' = "ask"
    /\ UNCHANGED <<expected, attempt, prefetched, resp, hunk, calls, asks>>

\* A declined open_location becomes a deny card; a denial stands.
Declined(r) == Plain("deny", r.file, r.flaw)

\* The user declines, or the request times out.
PermissionDeclined ==
    /\ pc = "permission"
    /\ Return(Declined(resp), "location_declined")

NoGrantLeft ==
    /\ pc = "judge" /\ AsksLocation(resp) /\ ~AsksUser(resp)
    /\ Return(Declined(resp), "location_declined")
-----------------------------------------------------------------------------
(***************************************************************************)
(* The gates a card goes through, in this order                            *)
(***************************************************************************)
Judging == pc = "judge" /\ ~AsksLocation(resp) /\ ~AsksUser(resp)

Unparsed == resp.kind = "error" /\ resp.flaw = "unparsed"
RepeatsRetained ==  \* mutant of RepeatsObservation
    /\ resp.kind \in {"hypothesis", "finding"} /\ resp.flaw = "repeated"
    /\ expected = "Any"
RepeatsObservation ==
    /\ resp.kind \in {"hypothesis", "finding"} /\ resp.flaw = "repeated"
    /\ expected # "GoalWhy"
RepeatsStep == resp.kind = "patch" /\ resp.flaw = "repeated"

\* The error card stands after the last attempt.
RejectUnparsed == Judging /\ Unparsed /\ Retry("contract_retry", resp)

RejectObservation ==
    Judging /\ RepeatsObservation /\ Retry("duplicate_retry", ErrorCard)

RejectStep ==
    Judging /\ RepeatsStep /\ Retry("duplicate_step_retry", ErrorCard)

\* validate_backend_card: an error passes as it is, a denial if it is well
\* formed, anything else only if the turn expects it.
Acceptable(r) ==
    /\ r.flaw # "malformed"
    /\ r.kind \in Valid(expected) \cup {"error", "deny"}

ValidateCard ==
    /\ Judging /\ resp.kind # "patch"
    /\ ~Unparsed /\ ~RepeatsObservation
    /\ IF Acceptable(resp) THEN Return(resp, "accepted") ELSE Violation

\* normalize_patch_batch: the card's structure, then each hunk.
StartBatch ==
    /\ Judging /\ resp.kind = "patch" /\ ~RepeatsStep
    /\ IF resp.flaw = "malformed"
         THEN Violation
         ELSE /\ hunk' = 1
              /\ pc' = "read"
              /\ UNCHANGED <<expected, attempt, grants, action, context,
                             prefetched, resp, log, calls, asks>>

Checking == pc \in {"read", "reread"} /\ hunk <= resp.hunks

\* The hunk fits the source: the context when it is the hunk's file, else
\* the buffer the editor sends.
HunkFits ==
    /\ Checking
    /\ hunk' = hunk + 1
    /\ pc' = "read"
    /\ UNCHANGED <<expected, attempt, grants, action, context, prefetched,
                   resp, log, calls, asks>>

\* It does not fit the excerpt in the context: the whole buffer is asked for.
HunkOutsideExcerpt ==
    /\ Checking /\ pc = "read" /\ resp.file = context
    /\ pc' = "reread"
    /\ UNCHANGED <<expected, attempt, grants, action, context, prefetched,
                   resp, hunk, log, calls, asks>>

\* It does not fit, or the editor sends no buffer or another one.
HunkFails == Checking /\ Violation

\* Every hunk fits: does the turn want a patch?
KindUnchecked == TRUE  \* mutant of PatchExpected
PatchExpected == "patch" \in Valid(expected)

BatchEnds ==
    /\ pc = "read" /\ hunk > resp.hunks
    /\ IF PatchExpected THEN Return(resp, "accepted") ELSE Violation
-----------------------------------------------------------------------------
Init ==
    /\ pc = "ask"
    /\ expected \in Expectations
    /\ attempt = 0 /\ grants = 0
    /\ action = "request"
    /\ context \in Files
    /\ prefetched \in BOOLEAN
    /\ resp = Plain("none", "none", "none")
    /\ hunk = 1
    /\ log = <<>>
    /\ calls = 0 /\ asks = 0

Next ==
    \/ TakePrefetched \/ BackendAnswers \/ BackendFails
    \/ AskPermission \/ PermissionGranted \/ PermissionDeclined \/ NoGrantLeft
    \/ RejectUnparsed \/ RejectObservation \/ RejectStep \/ ValidateCard
    \/ StartBatch \/ HunkFits \/ HunkOutsideExcerpt \/ HunkFails \/ BatchEnds

Spec == Init /\ [][Next]_vars

\* Every await of the turn ends: a backend bounds its requests, and so does
\* the daemon the editor's answers, as long as its main loop waits for this
\* turn (module Daemon shows what a yielded turn may wait for).
FairSpec == Spec /\ WF_vars(Next)
-----------------------------------------------------------------------------
\* The type of every variable.
TypeOK ==
    /\ pc \in {"ask", "judge", "permission", "read", "reread", "done"}
    /\ expected \in Expectations
    /\ attempt \in 0..MaxAttempts
    /\ grants \in 0..MaxGrants
    /\ action \in {"request", "contract_retry", "location_granted"}
    /\ context \in Files
    /\ prefetched \in BOOLEAN
    /\ resp \in Responses \cup {Plain("none", "none", "none")}
    /\ hunk \in 1..(MaxHunks + 1)
    /\ log \in Seq([number : 1..(MaxAttempts + 1), outcome : Outcomes])
    /\ calls \in Nat /\ asks \in Nat

\* "Every branch of the final (third) attempt returns, so this should not
\* run": the loop is never left through its condition, although a granted
\* permission continues it without counting as an attempt.
LoopEndsInABranch == pc = "ask" => attempt < MaxAttempts

\* What a turn may cost: one backend request per attempt and per granted
\* permission, and the user is asked at most MaxGrants times, however the
\* grants and the retries interleave.
TurnIsBounded ==
    /\ calls <= MaxAttempts + MaxGrants
    /\ asks <= MaxGrants

\* The attempt log shown to the user accounts for every response: one entry
\* each, in order, numbered by the attempts used up before it, and only the
\* last one ends the turn (README: each attempt records its outcome).
Retries == {"contract_retry", "duplicate_retry", "duplicate_step_retry"}
RetriesBefore(i) == {j \in 1..(i - 1) : log[j].outcome \in Retries}
LogAccountsForTheTurn ==
    /\ Len(log) = attempt + grants + (IF pc = "done" THEN 1 ELSE 0)
    /\ \A i \in 1..Len(log) :
          /\ log[i].number = 1 + Cardinality(RetriesBefore(i))
          /\ i <= attempt + grants =>
                log[i].outcome \in Retries \cup {"location_granted"}

\* A turn adds up: its loop ends in a branch, within its limits, with a log
\* that accounts for all of it.
TurnAddsUp == LoopEndsInABranch /\ TurnIsBounded /\ LogAccountsForTheTurn

\* An observation the session retains or a step it completed is not shown
\* again, and no malformed card is accepted, whichever gate a retry, a grant
\* or a speculated response came through; only the explanation of a draft
\* may repeat an observation.
LastOutcome == log[Len(log)].outcome
AcceptedIsNewAndSound ==
    pc = "done" /\ LastOutcome = "accepted" =>
        /\ resp.flaw \notin {"malformed", "unparsed"}
        /\ resp.flaw = "repeated" => expected = "GoalWhy" /\ resp.kind = "finding"

\* The turn ends, once, with a card its expectation admits, an Error or a
\* Deny; a permission request is never its answer.
Promise == INSTANCE TurnPromise
    WITH answer <- IF pc = "done" THEN resp.kind ELSE "none"
ImplementsTurnPromise == Promise!Spec
=============================================================================

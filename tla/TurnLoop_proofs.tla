--------------------------- MODULE TurnLoop_proofs ---------------------------
(***************************************************************************)
(* What one model turn costs and what it accepts, for every number of      *)
(* attempts, grants, hunks and files.                                      *)
(***************************************************************************)
EXTENDS TurnLoop, FiniteSetTheorems, TLAPS

\* The turn still runs with an attempt left.
AttemptLeft == attempt < MaxAttempts

\* Requests made: one per attempt and per grant, and the one being judged.
CallsAreCounted ==
    calls <= attempt + grants + (IF pc = "ask" THEN 0 ELSE 1)

\* Questions asked: one per grant, and the one that is open or was declined.
AsksAreCounted ==
    /\ pc \notin {"permission", "done"} => asks = grants
    /\ pc = "permission" => asks = grants + 1 /\ grants < MaxGrants
    /\ asks <= MaxGrants

\* A batch whose hunks are checked passed the gates before.
BatchIsSound ==
    pc \in {"read", "reread"} => resp.kind = "patch" /\ resp.flaw = "none"

\* Only an attempt that is judged has a response to judge.
JudgesAResponse ==
    pc \in {"judge", "permission", "read", "reread"} => resp \in Responses

\* The user is asked about a file.
AsksForAFile ==
    pc = "permission" =>
        resp.kind \in {"open_location", "deny"} /\ resp.file \in Files

IInv ==
    /\ TypeOK /\ AttemptLeft /\ CallsAreCounted /\ AsksAreCounted
    /\ BatchIsSound /\ JudgesAResponse /\ AsksForAFile /\ AcceptedIsNewAndSound
-----------------------------------------------------------------------------
LEMMA PlainFields ==
    ASSUME NEW kind, NEW file, NEW flaw
    PROVE  /\ Plain(kind, file, flaw).kind = kind
           /\ Plain(kind, file, flaw).flaw = flaw
           /\ Plain(kind, file, flaw).file = file
BY DEF Plain

LEMMA ErrorCardType == ErrorCard \in Responses
BY DEF ErrorCard, Responses

\* What the flaw of a response says of its kind.
LEMMA ResponseFlaws ==
    ASSUME NEW r \in Responses
    PROVE  /\ r.kind # "none"
           /\ r.flaw \in {"none", "unparsed", "repeated", "malformed"}
           /\ r.flaw = "unparsed" => r.kind = "error"
           /\ r.flaw = "repeated" => r.kind \in {"hypothesis", "finding", "patch"}
           /\ r.kind \in {"open_location", "deny"} => r.file \in Files \cup {"none"}
           /\ r.kind \in {"open_location", "deny"} =>
                 r.flaw \in {"none", "malformed"}
           /\ r.kind = "open_location" => r.file \in Files /\ r.flaw = "none"
           /\ r.hunks \in 0..MaxHunks
BY TurnLoopAssumption DEF Responses, Plain

LEMMA DeclinedType ==
    ASSUME NEW r \in Responses, r.kind \in {"open_location", "deny"}
    PROVE  Declined(r) \in Responses /\ Declined(r).kind = "deny"
<1>1. r.file \in Files \cup {"none"} /\ r.flaw \in {"none", "malformed"}
    BY ResponseFlaws
<1> QED
    BY <1>1 DEF Declined, Responses, Plain
-----------------------------------------------------------------------------
(***************************************************************************)
(* The two ways an attempt ends                                            *)
(***************************************************************************)
LEMMA LoggedType ==
    ASSUME NEW outcome \in Outcomes, TypeOK, Logged(outcome)
    PROVE  /\ log' \in Seq([number : 1..(MaxAttempts + 1), outcome : Outcomes])
           /\ Len(log') = Len(log) + 1
           /\ log'[Len(log')].outcome = outcome
<1>1. [number |-> attempt + 1, outcome |-> outcome]
          \in [number : 1..(MaxAttempts + 1), outcome : Outcomes]
    BY TurnLoopAssumption DEF TypeOK
<1> QED
    BY <1>1 DEF Logged, TypeOK

LEMMA ReturnIInv ==
    ASSUME IInv, pc # "done", pc # "ask", NEW card \in Responses,
           NEW outcome \in Outcomes, Return(card, outcome),
           outcome = "accepted" =>
              /\ card.flaw \notin {"malformed", "unparsed"}
              /\ card.flaw = "repeated" =>
                    expected = "GoalWhy" /\ card.kind = "finding"
    PROVE  IInv'
<1>1. TypeOK'
    BY LoggedType DEF IInv, TypeOK, Return
<1>2. AttemptLeft' /\ CallsAreCounted' /\ AsksAreCounted'
    BY DEF IInv, AttemptLeft, CallsAreCounted, AsksAreCounted, Return, TypeOK
<1>3. BatchIsSound' /\ JudgesAResponse' /\ AsksForAFile'
    BY DEF BatchIsSound, JudgesAResponse, AsksForAFile, Return
<1>4. LastOutcome' = outcome /\ resp' = card /\ expected' = expected
    BY LoggedType DEF IInv, Return, LastOutcome
<1>5. AcceptedIsNewAndSound'
    BY <1>4 DEF AcceptedIsNewAndSound
<1> QED
    BY <1>1, <1>2, <1>3, <1>5 DEF IInv

LEMMA RetryIInv ==
    ASSUME IInv, pc \in {"judge", "read", "reread"},
           NEW last \in Responses,
           NEW outcome \in {"contract_retry", "duplicate_retry",
                            "duplicate_step_retry"},
           Retry(outcome, last)
    PROVE  IInv'
<1>1. CASE attempt < MaxAttempts - 1
  <2>1. Logged(outcome) /\ outcome \in Outcomes
      BY <1>1 DEF Retry, Outcomes
  <2>2. TypeOK'
    <3>1. log' \in Seq([number : 1..(MaxAttempts + 1), outcome : Outcomes])
        BY <2>1, LoggedType DEF IInv
    <3>2. attempt' \in 0..MaxAttempts
        BY <1>1, TurnLoopAssumption DEF IInv, TypeOK, Retry
    <3> QED
        BY <1>1, <3>1, <3>2 DEF IInv, TypeOK, Retry
  <2>3. AttemptLeft' /\ CallsAreCounted' /\ AsksAreCounted'
      BY <1>1, TurnLoopAssumption
      DEF IInv, AttemptLeft, CallsAreCounted, AsksAreCounted, Retry, TypeOK
  <2>4. /\ BatchIsSound' /\ JudgesAResponse' /\ AsksForAFile'
        /\ AcceptedIsNewAndSound'
      BY <1>1 DEF BatchIsSound, JudgesAResponse, AsksForAFile,
                  AcceptedIsNewAndSound, Retry
  <2> QED
      BY <2>2, <2>3, <2>4 DEF IInv
<1>2. CASE ~(attempt < MaxAttempts - 1)
    BY <1>2, ReturnIInv DEF Retry, Outcomes
<1> QED
    BY <1>1, <1>2
-----------------------------------------------------------------------------
(***************************************************************************)
(* One lemma per group of actions                                          *)
(***************************************************************************)
LEMMA InitIInv == Init => IInv
<1> SUFFICES ASSUME Init PROVE IInv
    OBVIOUS
<1>1. TypeOK
    BY TurnLoopAssumption DEF Init, TypeOK
<1> QED
    BY <1>1, TurnLoopAssumption
    DEF Init, IInv, AttemptLeft, CallsAreCounted, AsksAreCounted, BatchIsSound,
        JudgesAResponse, AsksForAFile, AcceptedIsNewAndSound

LEMMA AnswerIInv == ASSUME IInv, TakePrefetched \/ BackendAnswers PROVE IInv'
<1>1. /\ pc = "ask" /\ pc' = "judge" /\ resp' \in Responses
      /\ calls' \in {calls, calls + 1}
      /\ UNCHANGED <<expected, attempt, grants, action, context, hunk, log, asks>>
      /\ prefetched' \in BOOLEAN
    BY DEF TakePrefetched, BackendAnswers, Judge, IInv, TypeOK
<1>2. TypeOK'
    BY <1>1 DEF IInv, TypeOK
<1>3. AttemptLeft' /\ CallsAreCounted' /\ AsksAreCounted'
    BY <1>1 DEF IInv, TypeOK, AttemptLeft, CallsAreCounted, AsksAreCounted
<1> QED
    BY <1>1, <1>2, <1>3
    DEF IInv, BatchIsSound, JudgesAResponse, AsksForAFile, AcceptedIsNewAndSound

LEMMA BackendFailsIInv == ASSUME IInv, BackendFails PROVE IInv'
<1>1. Logged("backend_error") /\ "backend_error" \in Outcomes
    BY DEF BackendFails, Outcomes
<1>2. TypeOK'
  <2>1. log' \in Seq([number : 1..(MaxAttempts + 1), outcome : Outcomes])
      BY <1>1, LoggedType DEF IInv
  <2> QED
      BY <2>1, ErrorCardType DEF IInv, TypeOK, BackendFails
<1>3. AttemptLeft' /\ CallsAreCounted' /\ AsksAreCounted'
    BY DEF BackendFails, IInv, TypeOK, AttemptLeft, CallsAreCounted,
           AsksAreCounted
<1>4. LastOutcome' = "backend_error"
    BY <1>1, LoggedType DEF IInv, LastOutcome
<1> QED
    BY <1>2, <1>3, <1>4
    DEF IInv, BackendFails, BatchIsSound, JudgesAResponse, AsksForAFile,
        AcceptedIsNewAndSound

LEMMA PermissionIInv ==
    ASSUME IInv,
           AskPermission \/ PermissionGranted \/ PermissionDeclined \/ NoGrantLeft
    PROVE  IInv'
<1>1. CASE AskPermission
  <2>1. TypeOK'
      BY <1>1 DEF IInv, TypeOK, AskPermission
  <2>2. AttemptLeft' /\ CallsAreCounted'
      BY <1>1 DEF IInv, TypeOK, AskPermission, AttemptLeft, CallsAreCounted
  <2>4. AsksAreCounted'
      BY <1>1, TurnLoopAssumption
      DEF IInv, TypeOK, AskPermission, AsksUser, AsksAreCounted
  <2>3. AsksForAFile'
      BY <1>1, ResponseFlaws
      DEF IInv, AskPermission, AsksUser, AsksLocation, DeniesElsewhere,
          JudgesAResponse, AsksForAFile
  <2> QED
      BY <1>1, <2>1, <2>2, <2>3, <2>4
      DEF IInv, AskPermission, BatchIsSound, JudgesAResponse,
          AcceptedIsNewAndSound
<1>2. CASE PermissionGranted
  <2>1. Logged("location_granted") /\ "location_granted" \in Outcomes
      BY <1>2 DEF PermissionGranted, Outcomes
  <2>2. resp.file \in Files /\ grants < MaxGrants
      BY <1>2 DEF PermissionGranted, IInv, AsksForAFile, AsksAreCounted
  <2>3. TypeOK'
    <3>1. log' \in Seq([number : 1..(MaxAttempts + 1), outcome : Outcomes])
        BY <2>1, LoggedType DEF IInv
    <3>2. grants' \in 0..MaxGrants
        BY <1>2, <2>2, TurnLoopAssumption DEF IInv, TypeOK, PermissionGranted
    <3> QED
        BY <1>2, <2>2, <3>1, <3>2 DEF IInv, TypeOK, PermissionGranted
  <2>4. AttemptLeft' /\ CallsAreCounted' /\ AsksAreCounted'
      BY <1>2 DEF IInv, TypeOK, PermissionGranted, AttemptLeft,
                  CallsAreCounted, AsksAreCounted
  <2> QED
      BY <1>2, <2>3, <2>4
      DEF IInv, PermissionGranted, BatchIsSound, JudgesAResponse, AsksForAFile,
          AcceptedIsNewAndSound
<1>3. CASE PermissionDeclined
  <2>1. Declined(resp) \in Responses
      BY <1>3, DeclinedType
      DEF PermissionDeclined, IInv, JudgesAResponse, AsksForAFile
  <2> QED
      BY <1>3, <2>1, ReturnIInv DEF PermissionDeclined, Outcomes
<1>4. CASE NoGrantLeft
  <2>1. Declined(resp) \in Responses
      BY <1>4, DeclinedType
      DEF NoGrantLeft, AsksLocation, IInv, JudgesAResponse
  <2> QED
      BY <1>4, <2>1, ReturnIInv DEF NoGrantLeft, Outcomes
<1> QED
    BY <1>1, <1>2, <1>3, <1>4

LEMMA GateIInv ==
    ASSUME IInv,
           RejectUnparsed \/ RejectObservation \/ RejectStep \/ ValidateCard
    PROVE  IInv'
<1>1. pc = "judge" /\ resp \in Responses
    BY DEF RejectUnparsed, RejectObservation, RejectStep, ValidateCard, Judging,
           IInv, JudgesAResponse
<1>2. CASE RejectUnparsed \/ RejectObservation \/ RejectStep
    BY <1>1, <1>2, RetryIInv, ErrorCardType
    DEF RejectUnparsed, RejectObservation, RejectStep
<1>3. CASE ValidateCard /\ Acceptable(resp)
  <2>1. Return(resp, "accepted")
      BY <1>3 DEF ValidateCard
  <2>2. resp.flaw \notin {"malformed", "unparsed"}
      BY <1>1, <1>3, ResponseFlaws DEF ValidateCard, Acceptable, Unparsed
  <2>3. ASSUME resp.flaw = "repeated"
        PROVE  expected = "GoalWhy" /\ resp.kind = "finding"
    <3>1. resp.kind \in {"hypothesis", "finding"} /\ expected = "GoalWhy"
        BY <1>1, <1>3, <2>3, ResponseFlaws DEF ValidateCard, RepeatsObservation
    <3>2. resp.kind \in {"finding", "error", "deny"}
        BY <1>3, <3>1 DEF Acceptable, Valid
    <3> QED
        BY <3>1, <3>2
  <2> QED
      BY <1>1, <2>1, <2>2, <2>3, ReturnIInv DEF Outcomes
<1>4. CASE ValidateCard /\ ~Acceptable(resp)
    BY <1>1, <1>4, RetryIInv, ErrorCardType DEF ValidateCard, Violation
<1> QED
    BY <1>2, <1>3, <1>4

LEMMA BatchIInv ==
    ASSUME IInv,
           StartBatch \/ HunkFits \/ HunkOutsideExcerpt \/ HunkFails \/ BatchEnds
    PROVE  IInv'
<1>1. CASE StartBatch /\ resp.flaw = "malformed"
    BY <1>1, RetryIInv, ErrorCardType DEF StartBatch, Judging, Violation
<1>2. CASE HunkFails
    BY <1>2, RetryIInv, ErrorCardType DEF HunkFails, Checking, Violation
<1>3. CASE BatchEnds /\ ~PatchExpected
    BY <1>3, RetryIInv, ErrorCardType DEF BatchEnds, Violation
<1>4. CASE BatchEnds /\ PatchExpected
    BY <1>4, ReturnIInv
    DEF BatchEnds, IInv, BatchIsSound, JudgesAResponse, Outcomes
<1>5. CASE \/ StartBatch /\ resp.flaw # "malformed"
           \/ HunkFits \/ HunkOutsideExcerpt
  <2>1. /\ pc \in {"judge", "read", "reread"} /\ pc' \in {"read", "reread"}
        /\ UNCHANGED <<expected, attempt, grants, action, context, prefetched,
                       resp, log, calls, asks>>
      BY <1>5 DEF StartBatch, Judging, HunkFits, HunkOutsideExcerpt, Checking
  <2>2. resp \in Responses
      BY <2>1 DEF IInv, JudgesAResponse
  <2>3. resp.hunks \in 0..MaxHunks
      BY <2>2, ResponseFlaws
  <2>4. hunk' \in 1..(MaxHunks + 1)
      BY <1>5, <2>3, TurnLoopAssumption
      DEF StartBatch, HunkFits, HunkOutsideExcerpt, Checking, IInv, TypeOK
  <2>5. TypeOK'
      BY <2>1, <2>4 DEF IInv, TypeOK
  <2>6. AttemptLeft' /\ CallsAreCounted' /\ AsksAreCounted'
      BY <2>1 DEF IInv, TypeOK, AttemptLeft, CallsAreCounted, AsksAreCounted
  <2>7. resp.kind = "patch" /\ resp.flaw = "none"
      BY <1>5, <2>2, ResponseFlaws
      DEF StartBatch, RepeatsStep, HunkFits, HunkOutsideExcerpt, Checking, IInv,
          BatchIsSound
  <2> QED
      BY <2>1, <2>2, <2>5, <2>6, <2>7
      DEF IInv, BatchIsSound, JudgesAResponse, AsksForAFile,
          AcceptedIsNewAndSound
<1> QED
    BY <1>1, <1>2, <1>3, <1>4, <1>5

LEMMA NextIInv == IInv /\ [Next]_vars => IInv'
<1> SUFFICES ASSUME IInv, [Next]_vars PROVE IInv'
    OBVIOUS
<1>1. CASE UNCHANGED vars
    BY <1>1
    DEF vars, IInv, TypeOK, AttemptLeft, CallsAreCounted, AsksAreCounted,
        BatchIsSound, JudgesAResponse, AsksForAFile, AcceptedIsNewAndSound,
        LastOutcome
<1> QED
    BY <1>1, AnswerIInv, BackendFailsIInv, PermissionIInv, GateIInv, BatchIInv
    DEF Next

LEMMA Invariance == Spec => []IInv
    BY InitIInv, NextIInv, PTL DEF Spec
-----------------------------------------------------------------------------
\* Every variable of a turn keeps its type (next_distinct_response).
THEOREM TurnTypeCorrect == Spec => []TypeOK
<1>1. IInv => TypeOK
    BY DEF IInv
<1> QED
    BY <1>1, Invariance, PTL

\* The loop is left through one of its branches: whatever mix of retries and
\* granted permissions came before, a request is only made with an attempt
\* left (the "should not run" after the loop of next_distinct_response).
THEOREM LoopAlwaysEndsInABranch == Spec => []LoopEndsInABranch
<1>1. IInv => LoopEndsInABranch
    BY DEF IInv, AttemptLeft, LoopEndsInABranch
<1> QED
    BY <1>1, Invariance, PTL

\* A turn makes at most MaxAttempts + MaxGrants requests and asks the user at
\* most MaxGrants times, for every limit (next_distinct_response).
THEOREM TurnIsAlwaysBounded == Spec => []TurnIsBounded
<1>1. IInv => TurnIsBounded
    BY TurnLoopAssumption
    DEF IInv, TypeOK, AttemptLeft, CallsAreCounted, AsksAreCounted,
        TurnIsBounded
<1> QED
    BY <1>1, Invariance, PTL

\* No way to an accepted card misses a gate: it is well formed, and new
\* unless it explains a draft (next_distinct_response).
THEOREM AcceptedIsAlwaysSound == Spec => []AcceptedIsNewAndSound
<1>1. IInv => AcceptedIsNewAndSound
    BY DEF IInv
<1> QED
    BY <1>1, Invariance, PTL
-----------------------------------------------------------------------------
(***************************************************************************)
(* The loop implements its promise: Return is the step End, every other    *)
(* step a stutter.                                                         *)
(***************************************************************************)
LEMMA RefusalAdmitted ==
    /\ "error" \in Promise!Admitted(expected)
    /\ "deny" \in Promise!Admitted(expected)
BY DEF Promise!Admitted

LEMMA ReturnEnds ==
    ASSUME NEW card, NEW outcome, Return(card, outcome), pc # "done",
           card.kind \in Promise!Admitted(expected)
    PROVE  Promise!End
BY DEF Return, Promise!End

LEMMA QuietStep ==
    ASSUME pc # "done", pc' # "done", expected' = expected
    PROVE  UNCHANGED Promise!vars
BY DEF Promise!vars

LEMMA RetryKeepsPromise ==
    ASSUME pc # "done", NEW last, NEW outcome, Retry(outcome, last),
           last.kind = "error"
    PROVE  [Promise!End]_(Promise!vars)
<1>1. CASE attempt < MaxAttempts - 1
    BY <1>1, QuietStep DEF Retry
<1>2. CASE ~(attempt < MaxAttempts - 1)
    BY <1>2, ReturnEnds, RefusalAdmitted DEF Retry
<1> QED
    BY <1>1, <1>2

LEMMA ErrorCardKind == ErrorCard.kind = "error"
BY DEF ErrorCard, Plain

LEMMA StepKeepsPromise ==
    IInv /\ [Next]_vars => [Promise!End]_(Promise!vars)
<1> SUFFICES ASSUME IInv, [Next]_vars PROVE [Promise!End]_(Promise!vars)
    OBVIOUS
<1>1. CASE TakePrefetched \/ BackendAnswers
    BY <1>1, QuietStep DEF TakePrefetched, BackendAnswers, Judge
<1>2. CASE BackendFails
  <2>1. Promise!End
      BY <1>2, RefusalAdmitted, ErrorCardKind DEF BackendFails, Promise!End
  <2> QED
      BY <2>1
<1>3. CASE AskPermission \/ PermissionGranted
    BY <1>3, QuietStep DEF AskPermission, PermissionGranted
<1>4. CASE PermissionDeclined \/ NoGrantLeft
  <2>1. Return(Declined(resp), "location_declined") /\ pc # "done"
      BY <1>4 DEF PermissionDeclined, NoGrantLeft
  <2>2. Declined(resp).kind = "deny"
      BY PlainFields DEF Declined
  <2> QED
      BY <2>1, <2>2, ReturnEnds, RefusalAdmitted
<1>5. CASE RejectUnparsed \/ RejectObservation \/ RejectStep
    BY <1>5, RetryKeepsPromise, ErrorCardKind
    DEF RejectUnparsed, RejectObservation, RejectStep, Judging, Unparsed
<1>6. CASE ValidateCard
  <2>1. CASE Acceptable(resp)
    <3>1. resp.kind \in Promise!Admitted(expected)
        BY <1>6, <2>1
        DEF ValidateCard, Judging, AsksLocation, Acceptable, Promise!Admitted,
            Promise!Valid, Valid, Promise!Kinds, Kinds
    <3> QED
        BY <1>6, <2>1, <3>1, ReturnEnds DEF ValidateCard, Judging
  <2>2. CASE ~Acceptable(resp)
      BY <1>6, <2>2, RetryKeepsPromise, ErrorCardKind
      DEF ValidateCard, Judging, Violation
  <2> QED
      BY <2>1, <2>2
<1>7. CASE StartBatch
  <2>1. CASE resp.flaw = "malformed"
      BY <1>7, <2>1, RetryKeepsPromise, ErrorCardKind
      DEF StartBatch, Judging, Violation
  <2>2. CASE resp.flaw # "malformed"
      BY <1>7, <2>2, QuietStep DEF StartBatch, Judging
  <2> QED
      BY <2>1, <2>2
<1>8. CASE HunkFits \/ HunkOutsideExcerpt
    BY <1>8, QuietStep DEF HunkFits, HunkOutsideExcerpt, Checking
<1>9. CASE HunkFails
    BY <1>9, RetryKeepsPromise, ErrorCardKind DEF HunkFails, Checking, Violation
<1>10. CASE BatchEnds
  <2>1. CASE PatchExpected
    <3>1. resp.kind \in Promise!Admitted(expected)
        BY <1>10, <2>1
        DEF BatchEnds, IInv, BatchIsSound, PatchExpected, Promise!Admitted,
            Promise!Valid, Valid, Promise!Kinds, Kinds
    <3> QED
        BY <1>10, <2>1, <3>1, ReturnEnds DEF BatchEnds
  <2>2. CASE ~PatchExpected
      BY <1>10, <2>2, RetryKeepsPromise, ErrorCardKind DEF BatchEnds, Violation
  <2> QED
      BY <2>1, <2>2
<1>11. CASE UNCHANGED vars
    BY <1>11 DEF vars, Promise!vars
<1> QED
    BY <1>1, <1>2, <1>3, <1>4, <1>5, <1>6, <1>7, <1>8, <1>9, <1>10, <1>11
    DEF Next

\* A turn answers once, and with a card its expectation admits, an Error or a
\* Deny, never with the permission request it may have made on the way: the
\* safety part of ImplementsTurnPromise, for every limit and every patch
\* (next_distinct_response).  That it ends at all is left to TLC.
THEOREM TurnKeepsItsPromise == Spec => Promise!Safety
<1>1. Init => Promise!Init
    BY DEF Init, Promise!Init, Expectations, Promise!Expectations
<1>2. IInv /\ [Next]_vars => [Promise!End]_(Promise!vars)
    BY StepKeepsPromise
<1> QED
    BY <1>1, <1>2, Invariance, PTL DEF Spec, Promise!Safety
-----------------------------------------------------------------------------
(***************************************************************************)
(* The attempt log                                                         *)
(***************************************************************************)
\* While the turn runs, the retries in the log are the attempts used up.
RetriesAreCounted ==
    pc # "done" => Cardinality(RetriesBefore(Len(log) + 1)) = attempt

LogInv == LogAccountsForTheTurn /\ RetriesAreCounted

LEMMA EntriesStay ==
    ASSUME TypeOK, NEW outcome \in Outcomes, Logged(outcome)
    PROVE  /\ Len(log) \in Nat
           /\ Len(log') = Len(log) + 1
           /\ \A i \in 1..Len(log) : log'[i] = log[i]
           /\ log'[Len(log) + 1].number = attempt + 1
           /\ log'[Len(log) + 1].outcome = outcome
BY DEF Logged, TypeOK

LEMMA RetriesStay ==
    ASSUME TypeOK, NEW outcome \in Outcomes, Logged(outcome),
           NEW i \in 1..(Len(log) + 1)
    PROVE  RetriesBefore(i)' = RetriesBefore(i)
<1>1. Len(log) \in Nat /\ \A j \in 1..Len(log) : log'[j] = log[j]
    BY EntriesStay
<1>2. \A j \in 1..(i - 1) : log'[j] = log[j]
    BY <1>1
<1> QED
    BY <1>2 DEF RetriesBefore

LEMMA RetriesFinite ==
    ASSUME NEW n \in Nat
    PROVE  IsFiniteSet(RetriesBefore(n + 1)) /\ n + 1 \notin RetriesBefore(n + 1)
<1>1. IsFiniteSet(1..n)
    BY FS_Interval
<1>2. RetriesBefore(n + 1) \subseteq 1..n
    BY DEF RetriesBefore
<1>3. n + 1 \notin 1..n
    OBVIOUS
<1> QED
    BY <1>1, <1>2, <1>3, FS_Subset

\* What one more entry does to the count.
LEMMA EntryCounts ==
    ASSUME TypeOK, NEW outcome \in Outcomes, Logged(outcome),
           Cardinality(RetriesBefore(Len(log) + 1)) = attempt
    PROVE  Cardinality(RetriesBefore(Len(log) + 1)') =
              attempt + (IF outcome \in Retries THEN 1 ELSE 0)
<1> DEFINE n == Len(log)
           old == RetriesBefore(n + 1)
           new == {j \in 1..(n + 1) : log'[j].outcome \in Retries}
<1>1. n \in Nat /\ Len(log') = n + 1
    BY EntriesStay
<1>2. RetriesBefore(Len(log) + 1)' = new
    BY <1>1 DEF RetriesBefore
<1>3. /\ \A j \in 1..n : log'[j] = log[j]
      /\ log'[n + 1].outcome = outcome
    BY EntriesStay
<1>4. new = old \cup (IF outcome \in Retries THEN {n + 1} ELSE {})
    BY <1>1, <1>3 DEF RetriesBefore
<1>5. IsFiniteSet(old) /\ n + 1 \notin old
    BY <1>1, RetriesFinite
<1>6. CASE outcome \in Retries
  <2>1. new = old \cup {n + 1}
      BY <1>4, <1>6
  <2>2. Cardinality(new) = Cardinality(old) + 1
      BY <1>5, <2>1, FS_AddElement
  <2> QED
      BY <1>2, <1>6, <2>2
<1>7. CASE outcome \notin Retries
  <2>1. new = old
      BY <1>4, <1>7
  <2>2. attempt \in Int
      BY TurnLoopAssumption DEF TypeOK
  <2> HIDE DEF old, new
  <2>3. Cardinality(new) = attempt
      BY <2>1 DEF old
  <2>4. attempt = attempt + 0
      BY <2>2
  <2> QED
      BY <1>2, <1>7, <2>3, <2>4
<1> QED
    BY <1>6, <1>7

\* The ways a step may treat the log.
LEMMA QuietLog ==
    ASSUME LogInv, pc # "done", pc' # "done",
           UNCHANGED <<log, attempt, grants>>
    PROVE  LogInv'
BY DEF LogInv, LogAccountsForTheTurn, RetriesAreCounted, RetriesBefore

\* An entry is written; it is a retry, a grant, or the end of the turn.
LEMMA EntryLog ==
    ASSUME TypeOK, LogInv, pc # "done", NEW outcome \in Outcomes,
           Logged(outcome),
           \/ /\ outcome \in Retries /\ pc' # "done"
              /\ attempt' = attempt + 1 /\ grants' = grants
           \/ /\ outcome = "location_granted" /\ pc' # "done"
              /\ attempt' = attempt /\ grants' = grants + 1
           \/ /\ pc' = "done"
              /\ attempt' = attempt /\ grants' = grants
    PROVE  LogInv'
<1> DEFINE n == Len(log)
<1>1. /\ n \in Nat /\ Len(log') = n + 1
      /\ \A i \in 1..n : log'[i] = log[i]
      /\ log'[n + 1].number = attempt + 1
      /\ log'[n + 1].outcome = outcome
    BY EntriesStay
<1>2. n = attempt + grants /\ attempt \in Nat /\ grants \in Nat
    BY DEF LogInv, LogAccountsForTheTurn, TypeOK
<1>3. Cardinality(RetriesBefore(n + 1)) = attempt
    BY DEF LogInv, RetriesAreCounted
<1>4. \A i \in 1..(n + 1) : RetriesBefore(i)' = RetriesBefore(i)
    BY RetriesStay
<1>5. Len(log') = attempt' + grants' + (IF pc' = "done" THEN 1 ELSE 0)
    BY <1>1, <1>2
<1>6. ASSUME NEW i \in 1..(n + 1)
      PROVE  /\ log'[i].number = 1 + Cardinality(RetriesBefore(i)')
             /\ i <= attempt' + grants' =>
                   log'[i].outcome \in Retries \cup {"location_granted"}
  <2>1. CASE i = n + 1
      BY <1>1, <1>2, <1>3, <1>4, <2>1
  <2>2. CASE i \in 1..n
    <3>1. log'[i] = log[i]
        BY <1>1, <2>2
    <3>2. RetriesBefore(i)' = RetriesBefore(i)
        BY <1>4
    <3>3. /\ log[i].number = 1 + Cardinality(RetriesBefore(i))
          /\ log[i].outcome \in Retries \cup {"location_granted"}
        BY <1>2, <2>2 DEF LogInv, LogAccountsForTheTurn
    <3> QED
        BY <3>1, <3>2, <3>3
  <2> QED
      BY <1>1, <2>1, <2>2
<1>7. LogAccountsForTheTurn'
    BY <1>1, <1>5, <1>6 DEF LogAccountsForTheTurn
<1>8. RetriesAreCounted'
  <2>1. Cardinality(RetriesBefore(Len(log) + 1)') = attempt'
        \/ pc' = "done"
      BY <1>2, <1>3, EntryCounts DEF Retries
  <2> QED
      BY <2>1 DEF RetriesAreCounted
<1> QED
    BY <1>7, <1>8 DEF LogInv

LEMMA ReturnLog ==
    ASSUME TypeOK, LogInv, pc # "done", NEW card, NEW outcome \in Outcomes,
           Return(card, outcome)
    PROVE  LogInv'
BY EntryLog DEF Return

LEMMA RetryLog ==
    ASSUME TypeOK, LogInv, pc # "done", NEW last, NEW outcome \in Retries,
           Retry(outcome, last)
    PROVE  LogInv'
<1>1. CASE attempt < MaxAttempts - 1
  <2>1. /\ Logged(outcome) /\ outcome \in Outcomes /\ pc' # "done"
        /\ attempt' = attempt + 1 /\ grants' = grants
      BY <1>1 DEF Retry, Retries, Outcomes
  <2> QED
      BY <2>1, EntryLog
<1>2. CASE ~(attempt < MaxAttempts - 1)
    BY <1>2, ReturnLog DEF Retry, Outcomes
<1> QED
    BY <1>1, <1>2

LEMMA NextLog == TypeOK /\ LogInv /\ [Next]_vars => LogInv'
<1> SUFFICES ASSUME TypeOK, LogInv, [Next]_vars PROVE LogInv'
    OBVIOUS
<1>1. CASE TakePrefetched \/ BackendAnswers
    BY <1>1, QuietLog DEF TakePrefetched, BackendAnswers, Judge
<1>2. CASE BackendFails
    BY <1>2, EntryLog DEF BackendFails, Outcomes
<1>3. CASE AskPermission
    BY <1>3, QuietLog DEF AskPermission
<1>4. CASE PermissionGranted
    BY <1>4, EntryLog DEF PermissionGranted, Outcomes
<1>5. CASE PermissionDeclined \/ NoGrantLeft
    BY <1>5, ReturnLog DEF PermissionDeclined, NoGrantLeft, Outcomes
<1>6. CASE RejectUnparsed \/ RejectObservation \/ RejectStep
    BY <1>6, RetryLog
    DEF RejectUnparsed, RejectObservation, RejectStep, Judging, Retries
<1>7. CASE ValidateCard
    BY <1>7, ReturnLog, RetryLog
    DEF ValidateCard, Judging, Violation, Retries, Outcomes
<1>8. CASE StartBatch
  <2>1. CASE resp.flaw = "malformed"
      BY <1>8, <2>1, RetryLog DEF StartBatch, Judging, Violation, Retries
  <2>2. CASE resp.flaw # "malformed"
      BY <1>8, <2>2, QuietLog DEF StartBatch, Judging
  <2> QED
      BY <2>1, <2>2
<1>9. CASE HunkFits \/ HunkOutsideExcerpt
    BY <1>9, QuietLog DEF HunkFits, HunkOutsideExcerpt, Checking
<1>10. CASE HunkFails
    BY <1>10, RetryLog DEF HunkFails, Checking, Violation, Retries
<1>11. CASE BatchEnds
    BY <1>11, ReturnLog, RetryLog DEF BatchEnds, Violation, Retries, Outcomes
<1>12. CASE UNCHANGED vars
    BY <1>12
    DEF vars, LogInv, LogAccountsForTheTurn, RetriesAreCounted, RetriesBefore
<1> QED
    BY <1>1, <1>2, <1>3, <1>4, <1>5, <1>6, <1>7, <1>8, <1>9, <1>10, <1>11, <1>12
    DEF Next

LEMMA InitLog == Init => LogInv
<1> SUFFICES ASSUME Init PROVE LogInv
    OBVIOUS
<1>1. Len(log) = 0 /\ attempt = 0 /\ grants = 0 /\ pc # "done"
    BY DEF Init
<1>2. RetriesBefore(1) = {}
    BY DEF RetriesBefore
<1>3. Cardinality(RetriesBefore(Len(log) + 1)) = attempt
    BY <1>1, <1>2, FS_EmptySet
<1> QED
    BY <1>1, <1>3 DEF LogInv, LogAccountsForTheTurn, RetriesAreCounted

\* The log of attempts shown to the user accounts for every response of the
\* turn, for every limit: one entry each, numbered by the attempts used up
\* before it, and only the last one ends the turn (next_distinct_response).
THEOREM LogAlwaysAccounts == Spec => []LogAccountsForTheTurn
<1>1. LogInv => LogAccountsForTheTurn
    BY DEF LogInv
<1>2. IInv => TypeOK
    BY DEF IInv
<1> QED
    BY <1>1, <1>2, Invariance, InitLog, NextLog, PTL DEF Spec

\* A turn adds up, for every limit: the three theorems together.
THEOREM TurnAlwaysAddsUp == Spec => []TurnAddsUp
<1>1. LoopEndsInABranch /\ TurnIsBounded /\ LogAccountsForTheTurn => TurnAddsUp
    BY DEF TurnAddsUp
<1> QED
    BY <1>1, LoopAlwaysEndsInABranch, TurnIsAlwaysBounded, LogAlwaysAccounts, PTL
=============================================================================

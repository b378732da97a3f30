------------------------------- MODULE Engine -------------------------------
(***************************************************************************)
(* One session of the harness engine, driven by the daemon's main loop:    *)
(* the turns the daemon spawns, the speculation that runs beside them, and *)
(* the review of the proposals a turn produces.                            *)
(*                                                                         *)
(* A turn task is one variable with a program counter: each value of       *)
(* turn.pc is an await where the task can be suspended, and so aborted by  *)
(* the next request; everything between two awaits is one action.  The     *)
(* engine mutex is held for the whole task, hence no other engine call     *)
(* interleaves with it: a request first aborts the task (abort_pending).   *)
(*                                                                         *)
(* The retry loop inside a turn is one step, Answer: TurnLoop shows that   *)
(* it ends with a card the expectation admits, an Error or a Deny.         *)
(* Left out as data: prompts, context, usage, observations, skills.        *)
(***************************************************************************)
EXTENDS SessionState, Integers, Sequences, FiniteSets

CONSTANTS
    ClientActions,  \* the session/action requests the client sends
    Replies,        \* what its replies expect: "Patch", "Any", or "blank"
    BackendKinds,   \* the card kinds the backend answers with
    PatchIds,       \* the patch ids the backend uses
    FileOps,        \* the backend may propose file operations
    MaxHunks,       \* bound: reviewable hunks in one answer
    MaxProposals,   \* bound: proposals made in a behaviour
    MaxGen,         \* bound: requests served in a behaviour
    Prefetching,    \* LOOPBIOTIC_PREFETCH: PrefetchMode::ReadOnly or Off
    LateReports     \* the client may also report on a card it showed earlier

ASSUME EngineAssumption ==
    /\ ClientActions \subseteq Actions
    /\ Replies \subseteq {"Patch", "Any", "blank"}
    /\ BackendKinds \subseteq Kinds \ {"working", "open_location"}
    /\ FileOps \in BOOLEAN
    /\ MaxHunks \in Nat /\ MaxHunks >= 1
    /\ MaxProposals \in Nat
    /\ MaxGen \in Nat
    /\ Prefetching \in BOOLEAN
    /\ LateReports \in BOOLEAN

VARIABLES
    session,       \* the committed Session in Engine.sessions
    turn,          \* the turn task and its private clone of the session
    prefetch,      \* Engine.prefetches[session]: the acceptance continuation
    continuation,  \* Engine.continuations[session]: the planned goal slice
    detached,      \* speculations whose waiting turn was aborted: they run on
    server,        \* the main loop: "idle", "serving" a turn, "yielding" it
                   \* with its working card still to be written, or "closed"
    notices,       \* results of yielded turns whose turn_ready is not sent yet
    view,          \* what the editor shows: a card, or the working card of a turn
    overtaken,     \* the turn whose turn_ready came before its working card
    made,          \* history: number of proposals made so far
    applied,       \* history: proposals the editor has applied to its buffers
    shown          \* history: proposals the editor may still report on late

vars == <<session, turn, prefetch, continuation, detached, server, notices,
          view, overtaken, made, applied, shown>>
-----------------------------------------------------------------------------
(***************************************************************************)
(* Cards, sessions, turns                                                  *)
(***************************************************************************)
Serials == 1..MaxProposals
Labels == PatchIds \X (0..MaxHunks)

\* A card: its kind and, for a patch, its serial number (history), the patch
\* id the wire carries, whether it is a file operation, goal_complete, and
\* the actions the engine itself put on it.
Cards ==
    {c \in [kind : Kinds \cup {"none"}, no : 0..MaxProposals,
            label : Labels \cup {<<>>}, fileop : BOOLEAN, complete : BOOLEAN,
            offers : SUBSET Actions] :
        c.kind = "patch" => c.label \in Labels}

PlainCard(kind, offers) ==
    [kind |-> kind, no |-> 0, label |-> <<>>, fileop |-> FALSE,
     complete |-> FALSE, offers |-> offers]

NoCard == PlainCard("none", {})

\* The ids of FilePatch entries: a file-operation card has none.
Patches(card) == IF card.fileop THEN {} ELSE {card.label}

Sessions ==
    [state : States, gen : Nat, last : Cards, draft : Cards,
     queue : Seq(Cards), batch : BOOLEAN, slice : BOOLEAN,
     goal : {"Idle", "Active", "Paused", "Complete", "Stopped"},
     active : BOOLEAN, paused : BOOLEAN, accepted : SUBSET Labels,
     steps : SUBSET (0..MaxProposals), refused : SUBSET (0..MaxProposals)]

\* Session::new, with the generation reserve_start gives it.
NewSession ==
    [state |-> "Thinking", gen |-> 1, last |-> NoCard, draft |-> NoCard,
     queue |-> <<>>, batch |-> FALSE, slice |-> FALSE, goal |-> "Idle",
     active |-> FALSE, paused |-> FALSE, accepted |-> {}, steps |-> {},
     refused |-> {}]

\* session.cards.push: the history keeps only the last card and last patch
Push(s, card) ==
    [s EXCEPT !.last = card,
              !.draft = IF card.kind = "patch" THEN card ELSE @]

\* A speculative backend call: the draft it continues and how far it is.
NoSpec == [no |-> 0, st |-> "none"]
Specs == [no : 0..MaxProposals, st : {"none", "running", "ok", "failed"}]
Running(spec) == spec.st = "running"

\* TurnCommand
Commands ==
    [op : {"start", "action", "reply", "apply"},
     action : Actions \cup {"none"},
     exp : Expectations \cup {"blank", "none"},
     card : Cards, accepted : BOOLEAN]
Command(op) ==
    [op |-> op, action |-> "none", exp |-> "none", card |-> NoCard,
     accepted |-> FALSE]

Points ==
    {"none", "queued", "cancelGoal", "cancelAccept", "complete",
     "rejectAccept", "rejectGoal", "take", "call", "done"}
Turns ==
    [pc : Points, id : Nat, gen : Nat, cmd : Commands, s : Sessions,
     exp : Expectations \cup {"none"}, spec : 0..MaxProposals,
     ok : BOOLEAN, card : Cards]

Spawn(cmd, s) ==
    [pc |-> "queued", id |-> s.gen, gen |-> s.gen, cmd |-> cmd, s |-> s,
     exp |-> "none", spec |-> 0, ok |-> FALSE, card |-> NoCard]
NoTurn == [Spawn(Command("start"), NewSession) EXCEPT !.pc = "none"]

Live == turn.pc \notin {"none", "done"}

Views == [card : Cards, turn : Nat]
NoView == [card |-> NoCard, turn |-> 0]
Showing(card) == [card |-> card, turn |-> 0]
Working(id) == [card |-> NoCard, turn |-> id]
-----------------------------------------------------------------------------
(***************************************************************************)
(* What the body of an action or a reply decides before it asks the        *)
(* backend: fail, finish locally with a card, or ask for an answer.        *)
(***************************************************************************)
Fail(s) == [step |-> "fail", s |-> s, card |-> NoCard, exp |-> "none"]
Done(s, card) ==
    [step |-> "done", s |-> Push(s, card), card |-> card, exp |-> "none"]
Ask(s, e) ==
    [step |-> "ask", s |-> [s EXCEPT !.state = "Thinking"], card |-> NoCard,
     exp |-> e]

\* action_taken
Redrafts == {"retry", "edit_prompt"}

ResumeOutcome(s) ==
    IF s.state # "PatchExplained" \/ s.draft = NoCard
      THEN Fail(s)
      ELSE Done([s EXCEPT !.state = "PatchShown"], s.draft)

StopCard == PlainCard("summary", {})

Prepared(s, a) ==
    IF a = "goal"
      THEN [s EXCEPT !.active = TRUE, !.paused = FALSE, !.goal = "Active"]
    ELSE IF s.state = "PatchShown" /\ a \in Redrafts
      THEN [s EXCEPT !.queue = <<>>, !.batch = FALSE, !.slice = FALSE]
    ELSE s

ActionOutcome(s, a) ==
    LET p == Prepared(s, a)
    IN  IF a = "resume_draft" THEN ResumeOutcome(s)
        ELSE IF ~Admits(p.state, a) THEN Fail(p)
        ELSE IF a = "stop"
          THEN Done([p EXCEPT !.state = "Finished", !.goal = "Stopped"],
                    StopCard)
        ELSE Ask(p, NextState(p.state, a))

\* reply_taken: no state is required, only a text
ReplyOutcome(s, e) ==
    IF e = "blank" THEN Fail(s)
    ELSE IF s.active \/ s.paused
      THEN Ask([s EXCEPT !.active = FALSE, !.paused = TRUE,
                         !.goal = "Paused"], e)
    ELSE Ask(s, e)

Outcome(cmd, s) ==
    IF cmd.op = "reply" THEN ReplyOutcome(s, cmd.exp)
                        ELSE ActionOutcome(s, cmd.action)
-----------------------------------------------------------------------------
(***************************************************************************)
(* Accepting the backend's answer (accept_response)                        *)
(***************************************************************************)
\* An answer: a plain card, or one file's patch with some hunks, or a file
\* operation; "follow" is its plan: none, more slices, or the goal's end.
PlainAnswer(kind) ==
    [kind |-> kind, hunks |-> 0, fileop |-> FALSE, follow |-> "unplanned",
     id |-> "none"]
PatchAnswers ==
    [kind : {"patch"}, hunks : 1..MaxHunks, fileop : {FALSE},
     follow : {"unplanned", "more", "complete"}, id : PatchIds]
FileOpAnswers ==
    [kind : {"patch"}, hunks : {1}, fileop : {TRUE},
     follow : {"unplanned", "more", "complete"}, id : PatchIds]

\* What a turn expecting e can end with: TurnPromise.
Answers(e) ==
    {PlainAnswer(k) :
        k \in {"error"} \cup
             ((BackendKinds \cap (Valid(e) \cup {"deny"})) \ {"patch"})}
    \cup (IF "patch" \in BackendKinds \cap Valid(e)
            THEN PatchAnswers \cup (IF FileOps THEN FileOpAnswers ELSE {})
            ELSE {})

\* One review card per hunk; only the last may complete the goal, and a
\* single hunk keeps the backend's patch id.
ReviewCards(r, base) ==
    [i \in 1..r.hunks |->
        [kind |-> "patch", no |-> base + i,
         label |-> <<r.id, IF r.hunks = 1 THEN 0 ELSE i>>,
         fileop |-> r.fileop,
         complete |-> r.follow = "complete" /\ i = r.hunks,
         offers |-> {"why"}]]

\* queue_patch_cards
Queued(s, r, cards) ==
    IF r.kind # "patch"
      THEN [s EXCEPT !.queue = <<>>, !.batch = FALSE, !.slice = FALSE]
      ELSE [s EXCEPT !.queue = Tail(cards), !.batch = r.hunks > 1,
                     !.slice = r.follow = "more"]

\* accept_response rewrites the actions of the cards it knows
AnswerOffers(kind, e) ==
    CASE kind = "finding" /\ e = "GoalWhy" -> {"resume_draft", "stop"}
      [] kind = "finding" /\ e # "GoalWhy" -> {"goal"}
      [] kind = "hypothesis" -> {"goal"}
      [] kind = "summary" /\ e = "GoalLoop" -> {"run_check", "stop"}
      [] OTHER -> {}

\* update_goal_state
GoalAfter(goal, kind, e) ==
    IF e # "GoalLoop" THEN goal
    ELSE CASE kind \in {"patch", "choice"} -> "Active"
           [] kind = "summary" -> "Complete"
           [] OTHER -> goal

AnswerCard(r, e, base) ==
    IF r.kind = "patch" THEN ReviewCards(r, base)[1]
                        ELSE PlainCard(r.kind, AnswerOffers(r.kind, e))

AcceptResponse(s, r, e, base) ==
    Push([Queued(s, r, ReviewCards(r, base)) EXCEPT
              !.goal = GoalAfter(@, r.kind, e),
              !.state = StateAfterCard(r.kind, e)],
         AnswerCard(r, e, base))
-----------------------------------------------------------------------------
(***************************************************************************)
(* Speculation                                                             *)
(***************************************************************************)
\* schedule_prefetch: a finished leftover is folded into the usage first
PrefetchAfter(s, spec) ==
    IF ~Prefetching \/ Running(spec) THEN spec
    ELSE IF /\ s.state = "PatchShown" /\ ~s.active
            /\ s.queue = <<>> /\ ~s.batch
            /\ s.last.kind = "patch"
      THEN [no |-> s.last.no, st |-> "running"]
    ELSE NoSpec

\* schedule_goal_continuation
ContinuationAfter(s, spec) ==
    IF /\ s.active /\ s.slice /\ s.state = "PatchShown"
       /\ s.queue = <<>> /\ ~s.batch
       /\ spec = NoSpec
      THEN [no |-> s.last.no, st |-> "running"]
      ELSE spec

\* The speculative task answers, or fails.
PrefetchEnds ==
    /\ Running(prefetch)
    /\ \E st \in {"ok", "failed"} : prefetch' = [prefetch EXCEPT !.st = st]
    /\ UNCHANGED <<continuation, detached>>

ContinuationEnds ==
    /\ Running(continuation)
    /\ \E st \in {"ok", "failed"} :
         continuation' = [continuation EXCEPT !.st = st]
    /\ UNCHANGED <<prefetch, detached>>

\* A detached task's result is dropped with it.
DetachedEnds ==
    /\ \E p \in detached : detached' = detached \ {p}
    /\ UNCHANGED <<prefetch, continuation>>

SpeculationEnds ==
    /\ PrefetchEnds \/ ContinuationEnds \/ DetachedEnds
    /\ UNCHANGED <<session, turn, server, notices, view, overtaken, made,
                   applied, shown>>
-----------------------------------------------------------------------------
(***************************************************************************)
(* The end of a turn: commit, schedule speculation, hand over the result   *)
(***************************************************************************)
\* commit_session: superseded turns do not write
Commit(s, gen) == IF session.gen = gen THEN s ELSE session

\* The notifier task of a yielded turn has its result.
Notice(t) == [turn |-> t.id, ok |-> t.ok, card |-> t.card]
Announced(t) == notices \cup {Notice(t)}

\* The result goes to the main loop while it still waits, else to the notifier.
Deliver(t) ==
    /\ turn' = IF server = "idle" THEN NoTurn ELSE t
    /\ notices' = IF server = "serving" THEN notices ELSE Announced(t)

\* pf and ct are the speculation entries the turn leaves behind.
Finish(t, s, ok, card, pf, ct) ==
    LET c == Commit(s, t.gen)
        d == [t EXCEPT !.pc = "done", !.s = s, !.ok = ok, !.card = card]
    IN  /\ session' = c
        /\ prefetch' = IF ok /\ t.cmd.op # "apply" THEN PrefetchAfter(c, pf)
                                                   ELSE pf
        /\ continuation' = IF ok THEN ContinuationAfter(c, ct) ELSE ct
        /\ Deliver(d)

\* A turn that goes on: suspended at pc, nothing committed.
Suspend(t, pc, s, pf, ct) ==
    /\ turn' = [t EXCEPT !.pc = pc, !.s = s]
    /\ prefetch' = pf
    /\ continuation' = ct
    /\ UNCHANGED <<session, notices>>

\* Either the backend is asked, or the turn ends here.
Conclude(t, o, pf, ct) ==
    IF o.step = "ask"
      THEN Suspend([t EXCEPT !.exp = o.exp], "call", o.s, pf, ct)
      ELSE Finish(t, o.s, o.step = "done", o.card, pf, ct)
-----------------------------------------------------------------------------
(***************************************************************************)
(* The body of a turn task                                                 *)
(***************************************************************************)
Unshown == UNCHANGED <<detached, server, view, overtaken, made, applied, shown>>

\* complete_start_with_progress
StartTurn ==
    /\ turn.pc = "queued" /\ turn.cmd.op = "start"
    /\ Suspend([turn EXCEPT !.exp = turn.cmd.exp], "call", turn.s, prefetch,
               continuation)
    /\ Unshown

\* An action that keeps the draft: the speculation is left running.
PlainAction ==
    /\ turn.pc = "queued" /\ turn.cmd.op = "action"
    /\ turn.cmd.action \notin Redrafts \cup {"stop"}
    /\ Conclude(turn, Outcome(turn.cmd, turn.s), prefetch, continuation)
    /\ Unshown

\* cancel_goal_continuation, then cancel_accept_continuation: a running
\* speculation is aborted and the backend told, which suspends the turn; a
\* finished one is only folded into the usage.
CancelAccept(t) ==
    IF Running(prefetch)
      THEN Suspend(t, "cancelAccept", t.s, NoSpec, NoSpec)
      ELSE Conclude(t, Outcome(t.cmd, t.s), NoSpec, NoSpec)

AbandoningTurn ==
    /\ turn.pc = "queued"
    /\ \/ turn.cmd.op = "reply"
       \/ turn.cmd.op = "action" /\ turn.cmd.action \in Redrafts \cup {"stop"}
    /\ IF Running(continuation)
         THEN Suspend(turn, "cancelGoal", turn.s, prefetch, NoSpec)
         ELSE CancelAccept(turn)
    /\ Unshown

GoalCancelled ==
    /\ turn.pc = "cancelGoal"
    /\ CancelAccept(turn)
    /\ Unshown

AcceptCancelled ==
    /\ turn.pc = "cancelAccept"
    /\ Conclude(turn, Outcome(turn.cmd, turn.s), prefetch, continuation)
    /\ Unshown

\* next_distinct_response returned: the answer becomes the session's card.
Answer ==
    /\ turn.pc = "call"
    /\ \E r \in Answers(turn.exp) :
         LET s == AcceptResponse(turn.s, r, turn.exp, made)
         IN  /\ made + r.hunks <= MaxProposals
             /\ made' = made + r.hunks
             /\ Finish(turn, s, TRUE, s.last, prefetch, continuation)
    /\ UNCHANGED <<detached, server, view, overtaken, applied, shown>>
-----------------------------------------------------------------------------
(***************************************************************************)
(* The body of patch/apply_result (apply_result_taken)                     *)
(***************************************************************************)
Applying == turn.pc = "queued" /\ turn.cmd.op = "apply"

\* require_patch and validate_apply_result: the report names the card and
\* the patch ids of the session's last card.
Reviewable(s, card) ==
    /\ s.state = "PatchShown"
    /\ s.last.kind = "patch"
    /\ card.label = s.last.label
    /\ card.fileop = s.last.fileop

Accepting == Applying /\ Reviewable(turn.s, turn.cmd.card) /\ turn.cmd.accepted
Rejecting == Applying /\ Reviewable(turn.s, turn.cmd.card) /\ ~turn.cmd.accepted

ReportRefused ==
    /\ Applying /\ ~Reviewable(turn.s, turn.cmd.card)
    /\ Finish(turn, turn.s, FALSE, NoCard, prefetch, continuation)
    /\ Unshown

\* The reviewed change is recorded, and the goal goes on.
AcceptedUnrecorded(s) ==  \* mutant of Recorded
    [s EXCEPT !.accepted = @ \cup {s.last.label},
              !.active = TRUE, !.paused = FALSE, !.goal = "Active"]
AcceptedStillPaused(s) ==  \* mutant of Recorded
    [s EXCEPT !.steps = @ \cup {s.last.no},
              !.accepted = @ \cup {s.last.label},
              !.active = TRUE, !.goal = "Active"]
Recorded(s) ==
    [s EXCEPT !.steps = @ \cup {s.last.no},
              !.accepted = @ \cup {s.last.label},
              !.active = TRUE, !.paused = FALSE, !.goal = "Active"]

\* The next queued hunk is shown with no model turn.
ShowNextTwice(s) ==  \* mutant of ShowNext
    Push([s EXCEPT !.state = "PatchShown"], Head(s.queue))
ShowNext(s) ==
    Push([s EXCEPT !.state = "PatchShown", !.queue = Tail(@)], Head(s.queue))

AcceptShowsNext ==
    /\ Accepting /\ turn.s.queue # <<>>
    /\ LET s == ShowNext(Recorded(turn.s))
       IN  Finish(turn, s, TRUE, s.last, prefetch, continuation)
    /\ Unshown

\* complete_goal_locally
CompleteGoal(s) ==
    Push([s EXCEPT !.state = "Summary", !.goal = "Complete"],
         PlainCard("summary", {"run_check", "stop"}))

\* The last hunk of a finished goal.  Only an acceptance that did not come
\* from an active goal cancels the acceptance continuation first.
AcceptCompletesGoal ==
    /\ Accepting /\ turn.s.queue = <<>> /\ turn.s.last.complete
    /\ LET s == [Recorded(turn.s) EXCEPT !.batch = FALSE]
           c == CompleteGoal(s)
       IN  IF turn.s.active
             THEN Finish(turn, c, TRUE, c.last, prefetch, continuation)
           ELSE IF Running(prefetch)
             THEN Suspend(turn, "complete", s, NoSpec, continuation)
           ELSE Finish(turn, c, TRUE, c.last, NoSpec, continuation)
    /\ Unshown

CompletionCancelled ==
    /\ turn.pc = "complete"
    /\ LET c == CompleteGoal(turn.s)
       IN  Finish(turn, c, TRUE, c.last, prefetch, continuation)
    /\ Unshown

\* The acceptance is committed before the continuation is awaited, under a
\* generation of its own.
AfterAccept(t) ==
    [Recorded(t.s) EXCEPT !.batch = FALSE, !.state = "CardShown"]
NextGeneration(s) == [s EXCEPT !.gen = @ + 1]
KeptGeneration(t, s) == t.gen  \* mutant of EffectiveGeneration
EffectiveGeneration(t, s) == s.gen

\* The continuation the acceptance consumes: the planned slice of an active
\* goal, else the one prepared while the draft was reviewed.
Prepaid == IF turn.s.active THEN continuation ELSE prefetch

AcceptContinues ==
    /\ Accepting /\ turn.s.queue = <<>> /\ ~turn.s.last.complete
    /\ LET s == NextGeneration(Commit(AfterAccept(turn), turn.gen))
       IN  /\ session' = s
           /\ turn' = [turn EXCEPT
                 !.pc = IF Running(Prepaid) THEN "take" ELSE "call",
                 !.gen = EffectiveGeneration(turn, s),
                 !.s = [AfterAccept(turn) EXCEPT !.gen = s.gen,
                                                 !.state = "Thinking"],
                 !.exp = "GoalLoop",
                 !.spec = IF Prepaid.st \in {"running", "ok"}
                            THEN Prepaid.no ELSE 0]
    /\ prefetch' = IF turn.s.active THEN prefetch ELSE NoSpec
    /\ continuation' = IF turn.s.active THEN NoSpec ELSE continuation
    /\ UNCHANGED notices
    /\ Unshown

\* take_goal_continuation, take_accept_continuation: the speculation awaited
\* at "take" ends; a failure falls back to the ordinary request.
SpeculationTaken ==
    /\ turn.pc = "take"
    /\ \E spec \in {turn.spec, 0} :
         turn' = [turn EXCEPT !.pc = "call", !.spec = spec]
    /\ UNCHANGED <<session, prefetch, continuation, notices>>
    /\ Unshown

\* Rejection is a local decision: no model turn, an Error card with Retry.
Rejected(s) ==
    Push([s EXCEPT !.queue = <<>>, !.batch = FALSE, !.slice = FALSE,
                   !.state = IF s.active THEN "GoalLoopFailed"
                                         ELSE "PatchFailed"],
         PlainCard("error", {"retry", "edit_prompt", "stop"}))

KeepGoal(t, s) ==  \* mutant of RejectGoal
    LET c == Rejected(s) IN Finish(t, c, TRUE, c.last, NoSpec, continuation)
RejectGoal(t, s) ==
    IF Running(continuation)
      THEN Suspend(t, "rejectGoal", s, NoSpec, NoSpec)
      ELSE LET c == Rejected(s)
           IN  Finish(t, c, TRUE, c.last, NoSpec, NoSpec)

RejectDraft ==
    /\ Rejecting
    /\ LET s == [turn.s EXCEPT !.refused = @ \cup {turn.s.last.no}]
       IN  IF Running(prefetch)
             THEN Suspend(turn, "rejectAccept", s, NoSpec, continuation)
             ELSE RejectGoal(turn, s)
    /\ Unshown

RejectAcceptCancelled ==
    /\ turn.pc = "rejectAccept"
    /\ RejectGoal(turn, turn.s)
    /\ Unshown

RejectGoalCancelled ==
    /\ turn.pc = "rejectGoal"
    /\ LET c == Rejected(turn.s)
       IN  Finish(turn, c, TRUE, c.last, prefetch, continuation)
    /\ Unshown
-----------------------------------------------------------------------------
(***************************************************************************)
(* The daemon's main loop                                                  *)
(***************************************************************************)
\* abort_pending drops the task of a yielded turn with its uncommitted clone.
\* The handle of the speculation it awaits is dropped too, which leaves the
\* speculation running where no table knows it.
Abandoned(t) == IF t.pc = "take" THEN {t.spec} ELSE {}

AbortPending ==
    /\ detached' = detached \cup Abandoned(turn)
    /\ overtaken' = 0

\* A request of the client: the pending turn is aborted, begin_turn takes a
\* generation, and run_turn spawns the new task.  The editor shows no card
\* while it waits.
Serve(cmd) ==
    /\ server = "idle" /\ session.gen < MaxGen
    /\ session' = NextGeneration(session)
    /\ turn' = Spawn(cmd, NextGeneration(session))
    /\ AbortPending
    /\ server' = "serving"
    /\ view' = NoView
    /\ UNCHANGED <<prefetch, continuation, notices, made>>

ActionRequest ==
    /\ \E a \in ClientActions \ {"cancel_turn"} :
         Serve([Command("action") EXCEPT !.action = a])
    /\ UNCHANGED <<applied, shown>>

ReplyRequest ==
    /\ \E e \in Replies : Serve([Command("reply") EXCEPT !.exp = e])
    /\ UNCHANGED <<applied, shown>>

\* patch/apply_result: the editor reports on the patch it shows, having
\* applied it when it says so; LateReports adds cards it showed before.
Reportable ==
    {c \in {view.card} \cup (IF LateReports THEN shown ELSE {}) :
        c.kind = "patch"}

ApplyReport ==
    \E card \in Reportable, accepted \in BOOLEAN :
        /\ Serve([Command("apply") EXCEPT !.card = card,
                                          !.accepted = accepted])
        /\ applied' = IF accepted THEN applied \cup {card.no} ELSE applied
        /\ shown' = shown \ {card}

\* The editor's record of what it showed, kept only for LateReports.
Shown(card) ==
    shown' = IF LateReports /\ card.kind = "patch" THEN shown \cup {card}
                                                   ELSE shown

\* Engine::cancel_turn, called by the main loop itself
Paused(s) ==
    IF s.active
      THEN [s EXCEPT !.active = FALSE, !.paused = TRUE, !.goal = "Paused"]
      ELSE s

\* Every patch of the last card has been accepted: it must not look pending.
AlreadyAccepted(s) ==
    /\ FromCard(s.last.kind) = "PatchShown"
    /\ Patches(s.last) \subseteq s.accepted

ContinuationCancelledCard ==
    PlainCard("finding", {"follow", "fix", "goal", "run_check", "stop"})

Cancelled(s) ==
    IF AlreadyAccepted(s)
      THEN Push([Paused(s) EXCEPT !.state = "CardShown"],
                ContinuationCancelledCard)
      ELSE [Paused(s) EXCEPT !.state = FromCard(s.last.kind)]

\* The editor has shown its own interrupted view and takes nothing from the
\* result but the goal.
CancelRequest ==
    /\ server = "idle" /\ session.gen < MaxGen
    /\ "cancel_turn" \in ClientActions
    /\ session' = NextGeneration(Cancelled(session))
    /\ turn' = NoTurn
    /\ AbortPending
    /\ prefetch' = NoSpec /\ continuation' = NoSpec
    /\ view' = NoView
    /\ UNCHANGED <<server, notices, made, applied, shown>>

\* session/stop: the Stop action, run by the main loop itself; the client
\* has closed the session and sends nothing more.
StopRequest ==
    /\ server = "idle" /\ session.gen < MaxGen
    /\ session' = ActionOutcome(NextGeneration(session), "stop").s
    /\ turn' = NoTurn
    /\ AbortPending
    /\ prefetch' = NoSpec /\ continuation' = NoSpec
    /\ server' = "closed"
    /\ view' = NoView
    /\ UNCHANGED <<notices, made, applied, shown>>

\* run_turn: the task answered within the deadline.
Return ==
    /\ server = "serving" /\ turn.pc = "done"
    /\ server' = "idle"
    /\ turn' = NoTurn
    /\ view' = IF turn.ok THEN Showing(turn.card) ELSE NoView
    /\ Shown(turn.card)
    /\ UNCHANGED <<session, prefetch, continuation, detached, notices, overtaken,
                   made, applied>>

\* run_turn: the deadline passes first; the turn becomes pending and a
\* notifier is spawned to wait for its result.
Yield ==
    /\ server = "serving"
    /\ server' = "yielding"
    /\ notices' = IF turn.pc = "done" THEN Announced(turn) ELSE notices
    /\ UNCHANGED <<session, turn, prefetch, continuation, detached, view,
                   overtaken, made, applied, shown>>

\* The main loop writes the response with the working card.
WriteWorking ==
    /\ server = "yielding"
    /\ server' = "idle"
    /\ turn' = IF turn.pc = "done" THEN NoTurn ELSE turn
    /\ view' = Working(turn.id)
    /\ UNCHANGED <<session, prefetch, continuation, detached, notices, overtaken,
                   made, applied, shown>>

\* agent/turn_ready: the editor drops it unless it still shows the working
\* card of that turn, also when that card has yet to come.
AnyResult(n) == TRUE  \* mutant of Awaited
Awaited(n) == view.turn = n.turn

Ready ==
    /\ \E n \in notices :
         /\ notices' = notices \ {n}
         /\ IF Awaited(n)
              THEN /\ view' = IF n.ok THEN Showing(n.card) ELSE NoView
                   /\ Shown(n.card)
              ELSE UNCHANGED <<view, shown>>
         /\ overtaken' = IF server = "yielding" /\ turn.id = n.turn
                           THEN n.turn ELSE overtaken
    /\ UNCHANGED <<session, turn, prefetch, continuation, detached, server, made,
                   applied>>
-----------------------------------------------------------------------------
\* session/start has reserved the session and spawned its first turn.
Init ==
    /\ session = NewSession
    /\ \E e \in {"Patch", "Any"} :
         turn = Spawn([Command("start") EXCEPT !.exp = e], NewSession)
    /\ prefetch = NoSpec /\ continuation = NoSpec
    /\ detached = {}
    /\ server = "serving"
    /\ notices = {}
    /\ view = NoView
    /\ overtaken = 0
    /\ made = 0
    /\ applied = {} /\ shown = {}

TurnStep ==
    \/ StartTurn \/ PlainAction \/ AbandoningTurn \/ GoalCancelled
    \/ AcceptCancelled \/ Answer
    \/ ReportRefused \/ AcceptShowsNext \/ AcceptCompletesGoal
    \/ CompletionCancelled \/ AcceptContinues \/ SpeculationTaken
    \/ RejectDraft \/ RejectAcceptCancelled \/ RejectGoalCancelled

Request ==
    ActionRequest \/ ReplyRequest \/ ApplyReport \/ CancelRequest \/ StopRequest

Next ==
    \/ TurnStep \/ SpeculationEnds
    \/ Request \/ Return \/ Yield \/ WriteWorking \/ Ready

Spec == Init /\ [][Next]_vars

\* The runtime runs every task that is ready, the deadline of run_turn fires,
\* and what is to be written is written.  Nothing is assumed of the client,
\* nor of a turn that waits for its backend: an agent may never answer, and a
\* yielded turn that asks the editor waits for the line channel which the
\* main loop holds until the next line.
Fairness ==
    /\ WF_vars(turn.pc = "queued" /\ TurnStep)
    /\ WF_vars(Return \/ Yield)
    /\ WF_vars(WriteWorking)
    /\ WF_vars(Ready)

FairSpec == Spec /\ Fairness
=============================================================================

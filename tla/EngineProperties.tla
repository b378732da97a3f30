-------------------------- MODULE EngineProperties --------------------------
(***************************************************************************)
(* What the engine and the daemon's main loop promise about one session.   *)
(***************************************************************************)
EXTENDS Engine

\* The type of every variable.
TypeOK ==
    /\ session \in Sessions
    /\ turn \in Turns
    /\ prefetch \in Specs
    /\ continuation \in Specs
    /\ detached \subseteq 0..MaxProposals
    /\ server \in {"idle", "serving", "yielding", "closed"}
    /\ notices \subseteq [turn : Nat, ok : BOOLEAN, card : Cards]
    /\ view \in Views
    /\ overtaken \in Nat
    /\ made \in 0..MaxProposals
    /\ applied \subseteq 0..MaxProposals
    /\ shown \subseteq Cards

\* A turn that may still write belongs to the session's current generation:
\* the generation check of commit_session never discards the work of a turn
\* that was not aborted, and a superseded turn is never left running
\* (abort_pending, begin_turn, and the second generation of an acceptance).
LiveTurnIsCurrent == Live => turn.gen = session.gen /\ turn.s.gen = session.gen

\* A proposal is open to a decision while its draft is shown or explained.
Reviewing == session.state \in {"PatchShown", "PatchExplained"}

\* The draft under review is the newest proposal not queued, its queue is
\* exactly the proposals made after it, in order, and none of them has been
\* decided: nothing in the queue can be shown twice, skipped or re-decided
\* (queue_patch_cards, apply_result_taken, ResumeDraft).
ReviewIsInOrder ==
    /\ Reviewing =>
         /\ session.draft # NoCard
         /\ session.draft.no \notin session.steps \cup session.refused
    /\ session.queue # <<>> =>
         /\ session.batch
         /\ \A i \in 1..Len(session.queue) :
              /\ session.queue[i].no = session.draft.no + i
              /\ session.queue[i].no <= made
              /\ session.queue[i].no \notin session.steps \cup session.refused

\* Only session/start ever leaves the session in Thinking: once a card was
\* shown, no abort, failure or cancellation commits a session that waits for
\* an answer nobody is computing.
ThinkingOnlyBeforeTheFirstCard ==
    session.state = "Thinking" => session.last = NoCard

\* An active goal is not paused, and a paused one says so in its status
\* unless the session was stopped since (reply_taken, cancel_turn, Goal and
\* acceptance write the three fields apart).
GoalFieldsAgree ==
    /\ ~(session.active /\ session.paused)
    /\ session.paused => session.goal \in {"Paused", "Stopped"}

\* What the editor shows is the session's last card, whatever was aborted,
\* yielded or cancelled in between.
EditorShowsTheLastCard == view.card # NoCard => view.card = session.last

\* The notifier of a yielded turn is spawned before the working card is
\* written: its turn_ready came first, and the editor dropped it.
Overtaken == view.turn # 0 /\ view.turn = overtaken

\* A working card is backed by a turn that still runs, or by a turn_ready
\* that is on its way: unless the result overtook the card, the editor never
\* waits for one that cannot come.
WorkingCardHasATurn ==
    view.turn # 0 =>
        \/ Live /\ turn.id = view.turn
        \/ \E n \in notices : n.turn = view.turn
        \/ Overtaken

\* A refused turn keeps the contract it was asked under: after an Error or
\* Deny card, Retry asks for what the failed turn owed (state_after_card and
\* SessionState::next, two tables that must agree).
RefusalKeepsTheContract ==
    [][ (turn.pc = "call" /\ session'.last # session.last
           /\ Refused(session'.last.kind)
           /\ turn.exp \in {"Patch", "GoalLoop", "GoalWhy"})
        => /\ Admits(session'.state, "retry")
           /\ NextState(session'.state, "retry") = turn.exp ]_vars

\* A report recorded as an acceptance is a report on the proposal recorded:
\* card and patch ids repeat between proposals, so nothing but the order of
\* the requests tells two of them apart (validate_apply_result).
AcceptanceNamesTheProposal ==
    [][\A p \in session'.steps \ session.steps : turn.cmd.card.no = p]_vars

\* The actions the engine puts on a card of its own are admitted by the
\* state it leaves the session in, after every commit, abort and
\* cancellation: two tables far apart.  Left out is run_check, which the card
\* of a cancelled continuation offers and its state refuses.
OfferedActionsAreAdmitted ==
    ~Live /\ session.last # NoCard =>
        \A a \in session.last.offers \ {"run_check"} : Admits(session.state, a)

\* Whatever committed it last, a session is coherent: its state admits what
\* its card offers, its goal fields agree, and it waits for no answer nobody
\* is computing.
SessionIsCoherent ==
    /\ ThinkingOnlyBeforeTheFirstCard
    /\ GoalFieldsAgree
    /\ OfferedActionsAreAdmitted

\* The editor is never behind the engine: it shows the session's last card,
\* or a working card whose result is still to come, but for one case: the
\* result that was written before its working card (Overtaken).
EditorIsCurrent == EditorShowsTheLastCard /\ WorkingCardHasATurn
-----------------------------------------------------------------------------
(***************************************************************************)
(* Speculation                                                             *)
(***************************************************************************)
\* "No speculative model turn may run inside" a batch of hunks under review
\* (session.rs, local_review_batch_active).
BatchRunsAlone ==
    session.batch => ~Running(prefetch) /\ ~Running(continuation)

\* A speculation kept between turns continues the draft that is shown: an
\* acceptance can only consume what was prepared for the change it accepts.
SpeculationServesTheDraft ==
    \A spec \in {prefetch, continuation} :
        spec # NoSpec /\ ~Live =>
            session.state = "PatchShown" /\ spec.no = session.last.no

\* A speculated answer is consumed for the draft it was speculated on.
SpeculationIsForTheAcceptedDraft ==
    turn.pc \in {"take", "call"} /\ turn.spec # 0 => turn.spec = turn.s.draft.no

\* "There is one active backend turn per session": a turn that asks the
\* backend does not do so beside a speculation the engine holds.
OneBackendTurn ==
    /\ ~(Running(prefetch) /\ Running(continuation))
    /\ turn.pc = "call" /\ turn.spec = 0 =>
         ~Running(prefetch) /\ ~Running(continuation)

\* A speculation detached by the abort of the turn that awaited it is not
\* alone: it runs on beside the next turn, batch or speculation.  But it was
\* prepared for a change whose acceptance is committed, and no turn or table
\* can get at its answer.
DetachedIsSpent ==
    /\ detached \subseteq session.steps
    /\ detached \cap {turn.spec, prefetch.no, continuation.no} = {}

\* A speculation the engine holds runs alone, for the draft on the screen, and
\* is consumed for no other; one it lost is for an accepted change, and
\* consumed by nobody (schedule_*, take_* and cancel_* of prefetch.rs, whose
\* calls are spread over every request, and abort_pending).
SpeculationIsSound ==
    /\ BatchRunsAlone
    /\ OneBackendTurn
    /\ SpeculationServesTheDraft
    /\ SpeculationIsForTheAcceptedDraft
    /\ DetachedIsSpent
-----------------------------------------------------------------------------
(***************************************************************************)
(* The review the engine implements                                        *)
(***************************************************************************)
InQueue == {session.queue[i].no : i \in 1..Len(session.queue)}

Fate(p) ==
    IF p > made THEN "unborn"
    ELSE IF p \in session.steps THEN "accepted"
    ELSE IF p \in session.refused THEN "rejected"
    ELSE IF Reviewing /\ p = session.draft.no THEN "pending"
    ELSE IF Reviewing /\ p \in InQueue THEN "queued"
    ELSE "dropped"

Promise == INSTANCE Review WITH fate <- [p \in Serials |-> Fate(p)]

\* The engine implements the abstract review: one gate per proposal, decided
\* once, and a batch promoted in order with no model turn.
ImplementsReview == Promise!Spec
-----------------------------------------------------------------------------
(***************************************************************************)
(* Liveness                                                                *)
(***************************************************************************)
\* Every request the main loop serves is answered, at the latest with a
\* working card, however long the backend takes.
RequestsAreAnswered ==
    (server \in {"serving", "yielding"}) ~> (server \in {"idle", "closed"})

\* The working card on the screen is of a turn that waits for its backend.
WaitsForTheBackend ==
    Live /\ turn.pc # "queued" /\ view.turn # 0 /\ turn.id = view.turn

\* A working card stays for ever only if its turn waits for the backend for
\* ever, or its result was written before it; every other one is replaced by
\* the turn's result, or the user moves on first.
WorkingCardIsReplaced ==
    \/ []<>(view.turn = 0)
    \/ <>[]WaitsForTheBackend
    \/ <>[]Overtaken

-----------------------------------------------------------------------------
(***************************************************************************)
(* What the repository says of this code and the model refutes             *)
(***************************************************************************)
\* engine/mod.rs: "cancellation must never make an already-applied patch
\* look pending again".
AppliedNeverPendingAgain ==
    ~Live /\ session.state = "PatchShown" => session.last.no \notin applied
=============================================================================

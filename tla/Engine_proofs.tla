---------------------------- MODULE Engine_proofs ----------------------------
(***************************************************************************)
(* Theorems about the engine, for every client, backend and bound.         *)
(***************************************************************************)
EXTENDS EngineProperties, SequenceTheorems, TLAPS

-----------------------------------------------------------------------------
(***************************************************************************)
(* The tables of the session state machine                                 *)
(***************************************************************************)
\* A state the table admits an action in has an expectation.
LEMMA NextStateType ==
    ASSUME NEW s, NEW a, Admits(s, a)
    PROVE  NextState(s, a) \in Expectations
BY DEF Admits, NextState

LEMMA StateAfterCardType ==
    ASSUME NEW kind, NEW e
    PROVE  FromCard(kind) \in States /\ StateAfterCard(kind, e) \in States
BY DEF StateAfterCard, FromCard, Refused, States
-----------------------------------------------------------------------------
(***************************************************************************)
(* Types of what the actions are built from                                *)
(***************************************************************************)
LEMMA PlainCardType ==
    ASSUME NEW kind \in (Kinds \cup {"none"}) \ {"patch"},
           NEW offers \in SUBSET Actions
    PROVE  PlainCard(kind, offers) \in Cards
BY EngineAssumption DEF PlainCard, Cards

LEMMA NoCardType == NoCard \in Cards
BY PlainCardType DEF NoCard

LEMMA PushType ==
    ASSUME NEW s \in Sessions, NEW card \in Cards
    PROVE  /\ Push(s, card) \in Sessions
           /\ Push(s, card).gen = s.gen
           /\ Push(s, card).last = card
BY DEF Push, Sessions

LEMMA NewSessionType == NewSession \in Sessions /\ NewSession.gen = 1
<1>1. NoCard \in Cards
    BY NoCardType
<1>2. <<>> \in Seq(Cards)
    OBVIOUS
<1> QED
    BY <1>1, <1>2 DEF NewSession, Sessions, States

\* The outcome of a request body is of the session it started from.
Outcomes(s) ==
    [step : {"fail", "done"}, s : {t \in Sessions : t.gen = s.gen},
     card : Cards, exp : {"none"}]
      \cup [step : {"ask"}, s : {t \in Sessions : t.gen = s.gen},
            card : Cards, exp : Expectations]

LEMMA AskType ==
    ASSUME NEW s \in Sessions, NEW e \in Expectations
    PROVE  Ask(s, e) \in Outcomes(s)
<1>1. [s EXCEPT !.state = "Thinking"] \in Sessions
    BY DEF Sessions, States
<1>2. [s EXCEPT !.state = "Thinking"].gen = s.gen
    BY DEF Sessions
<1> QED
    BY <1>1, <1>2, NoCardType DEF Ask, Outcomes

LEMMA DoneType ==
    ASSUME NEW s \in Sessions, NEW card \in Cards
    PROVE  Done(s, card) \in Outcomes(s)
BY PushType DEF Done, Outcomes

LEMMA FailType ==
    ASSUME NEW s \in Sessions
    PROVE  Fail(s) \in Outcomes(s)
BY NoCardType DEF Fail, Outcomes

LEMMA PreparedType ==
    ASSUME NEW s \in Sessions, NEW a
    PROVE  Prepared(s, a) \in Sessions /\ Prepared(s, a).gen = s.gen
<1>1. <<>> \in Seq(Cards)
    OBVIOUS
<1> QED
    BY <1>1 DEF Prepared, Sessions

LEMMA ActionOutcomeType ==
    ASSUME NEW s \in Sessions, NEW a \in Actions \cup {"none"}
    PROVE  ActionOutcome(s, a) \in Outcomes(s)
<1> DEFINE p == Prepared(s, a)
<1>1. p \in Sessions /\ p.gen = s.gen
    BY PreparedType
<1>2. ASSUME NEW q \in Sessions, q.gen = s.gen
      PROVE  Outcomes(q) = Outcomes(s)
    BY <1>2 DEF Outcomes
<1>3. CASE a = "resume_draft"
    <2>1. [s EXCEPT !.state = "PatchShown"] \in Sessions
        BY DEF Sessions, States
    <2>2. [s EXCEPT !.state = "PatchShown"].gen = s.gen /\ s.draft \in Cards
        BY DEF Sessions
    <2>3. Done([s EXCEPT !.state = "PatchShown"], s.draft) \in Outcomes(s)
        BY <2>1, <2>2, <1>2, DoneType
    <2> QED
        BY <1>3, <2>3, FailType DEF ActionOutcome, ResumeOutcome
<1>4. CASE a # "resume_draft" /\ ~Admits(p.state, a)
    BY <1>1, <1>2, <1>4, FailType DEF ActionOutcome
<1>5. CASE a = "stop" /\ Admits(p.state, a)
    <2> DEFINE q == [p EXCEPT !.state = "Finished", !.goal = "Stopped"]
    <2>1. q \in Sessions /\ q.gen = s.gen
        BY <1>1 DEF Sessions, States
    <2>2. StopCard \in Cards
        BY PlainCardType DEF StopCard, Kinds
    <2>3. Done(q, StopCard) \in Outcomes(s)
        BY <2>1, <2>2, <1>2, DoneType
    <2> QED
        BY <1>5, <2>3 DEF ActionOutcome
<1>6. CASE a \notin {"resume_draft", "stop"} /\ Admits(p.state, a)
    <2>1. NextState(p.state, a) \in Expectations
        BY <1>6, NextStateType
    <2>2. Ask(p, NextState(p.state, a)) \in Outcomes(s)
        BY <2>1, <1>1, <1>2, AskType
    <2> QED
        BY <1>6, <2>2 DEF ActionOutcome
<1> QED
    BY <1>3, <1>4, <1>5, <1>6

LEMMA ReplyOutcomeType ==
    ASSUME NEW s \in Sessions, NEW e \in Expectations \cup {"blank"}
    PROVE  ReplyOutcome(s, e) \in Outcomes(s)
<1> DEFINE p == [s EXCEPT !.active = FALSE, !.paused = TRUE, !.goal = "Paused"]
<1>1. p \in Sessions /\ p.gen = s.gen
    BY DEF Sessions
<1>2. Outcomes(p) = Outcomes(s)
    BY <1>1 DEF Outcomes
<1>3. CASE e = "blank"
    BY <1>3, FailType DEF ReplyOutcome
<1>4. CASE e # "blank"
    <2>1. Ask(p, e) \in Outcomes(s) /\ Ask(s, e) \in Outcomes(s)
        BY <1>1, <1>2, <1>4, AskType
    <2> QED
        BY <1>4, <2>1 DEF ReplyOutcome
<1> QED
    BY <1>3, <1>4

\* The commands that ask for a turn whose body has an outcome.
Bodies ==
    {cmd \in Commands :
        \/ cmd.op = "reply" /\ cmd.exp \in Expectations \cup {"blank"}
        \/ cmd.op = "action"}

LEMMA OutcomeType ==
    ASSUME NEW cmd \in Bodies, NEW s \in Sessions
    PROVE  Outcome(cmd, s) \in Outcomes(s)
BY ActionOutcomeType, ReplyOutcomeType DEF Outcome, Bodies, Commands

LEMMA CommandType ==
    ASSUME NEW op \in {"start", "action", "reply", "apply"}
    PROVE  Command(op) \in Commands
BY NoCardType DEF Command, Commands

LEMMA SpawnType ==
    ASSUME NEW cmd \in Commands, NEW s \in Sessions
    PROVE  /\ Spawn(cmd, s) \in Turns
           /\ Spawn(cmd, s).pc = "queued"
           /\ Spawn(cmd, s).cmd = cmd
           /\ Spawn(cmd, s).gen = s.gen
           /\ Spawn(cmd, s).s = s
<1>1. s.gen \in Nat
    BY DEF Sessions
<1> QED
    BY <1>1, NoCardType, EngineAssumption DEF Spawn, Turns, Points

LEMMA NoTurnType == NoTurn \in Turns /\ NoTurn.pc = "none"
<1>1. Spawn(Command("start"), NewSession) \in Turns
    BY CommandType, NewSessionType, SpawnType
<1> QED
    BY <1>1 DEF NoTurn, Turns, Points

LEMMA SpecsType ==
    ASSUME NEW s \in Sessions, NEW spec \in Specs
    PROVE  /\ NoSpec \in Specs
           /\ PrefetchAfter(s, spec) \in Specs
           /\ ContinuationAfter(s, spec) \in Specs
<1>1. NoSpec \in Specs
    BY EngineAssumption DEF NoSpec, Specs
<1>2. [no |-> s.last.no, st |-> "running"] \in Specs
    BY DEF Specs, Sessions, Cards
<1> QED
    BY <1>1, <1>2 DEF PrefetchAfter, ContinuationAfter
-----------------------------------------------------------------------------
(***************************************************************************)
(* How a turn goes on and how it ends                                      *)
(***************************************************************************)
Notices == [turn : Nat, ok : BOOLEAN, card : Cards]

\* The part of the type invariant the engine's own variables need.
EngineTyped ==
    /\ session \in Sessions
    /\ turn \in Turns
    /\ prefetch \in Specs
    /\ continuation \in Specs
    /\ notices \subseteq Notices

\* Finish leaves no live turn behind.
LEMMA FinishStep ==
    ASSUME EngineTyped,
           NEW t \in Turns, NEW s \in Sessions, NEW ok \in BOOLEAN,
           NEW card \in Cards, NEW pf \in Specs, NEW ct \in Specs,
           Finish(t, s, ok, card, pf, ct)
    PROVE  EngineTyped' /\ ~Live'
<1> DEFINE c == Commit(s, t.gen)
           d == [t EXCEPT !.pc = "done", !.s = s, !.ok = ok, !.card = card]
<1>1. c \in Sessions
    BY DEF Commit, EngineTyped
<1>2. d \in Turns /\ d.pc = "done"
    BY DEF Turns, Points
<1>3. session' = c
    BY DEF Finish
<1>4. prefetch' \in Specs /\ continuation' \in Specs
    BY <1>1, SpecsType DEF Finish
<1>5. Notice(d) \in Notices
    BY <1>2 DEF Notice, Notices, Turns
<1>6. Deliver(d)
    BY DEF Finish
<1>7. turn' \in Turns /\ turn'.pc \in {"none", "done"} /\ notices' \subseteq Notices
    <2>1. turn' \in Turns /\ turn'.pc \in {"none", "done"}
        BY <1>2, <1>6, NoTurnType DEF Deliver
    <2>2. notices' \in {notices, notices \cup {Notice(d)}}
        BY <1>6 DEF Deliver, Announced
    <2> QED
        BY <1>5, <2>1, <2>2 DEF EngineTyped
<1> QED
    BY <1>1, <1>3, <1>4, <1>7 DEF EngineTyped, Live

LEMMA SuspendStep ==
    ASSUME EngineTyped,
           NEW t \in Turns, NEW pc \in Points, NEW s \in Sessions,
           t.gen = session.gen, s.gen = session.gen,
           NEW pf \in Specs, NEW ct \in Specs,
           Suspend(t, pc, s, pf, ct)
    PROVE  /\ EngineTyped' /\ LiveTurnIsCurrent'
           /\ turn'.cmd = t.cmd /\ turn'.pc = pc
<1>1. /\ turn' \in Turns /\ turn'.gen = t.gen /\ turn'.s = s
      /\ turn'.cmd = t.cmd /\ turn'.pc = pc
    BY DEF Suspend, Turns
<1> QED
    BY <1>1 DEF Suspend, EngineTyped, LiveTurnIsCurrent

LEMMA ConcludeStep ==
    ASSUME EngineTyped,
           NEW t \in Turns, t.gen = session.gen, t.s.gen = session.gen,
           NEW o \in Outcomes(t.s),
           NEW pf \in Specs, NEW ct \in Specs,
           Conclude(t, o, pf, ct)
    PROVE  /\ EngineTyped' /\ LiveTurnIsCurrent'
           /\ Live' => turn'.cmd = t.cmd /\ turn'.pc = "call"
<1>1. CASE o.step = "ask"
    <2> DEFINE u == [t EXCEPT !.exp = o.exp]
    <2>1. o.exp \in Expectations /\ o.s \in Sessions /\ o.s.gen = session.gen
        BY <1>1 DEF Outcomes
    <2>2. u \in Turns /\ u.gen = session.gen /\ u.cmd = t.cmd
        BY <2>1 DEF Turns
    <2>3. Suspend(u, "call", o.s, pf, ct)
        BY <1>1 DEF Conclude
    <2> QED
        BY <2>1, <2>2, <2>3, SuspendStep DEF Points
<1>2. CASE o.step # "ask"
    <2>1. o.s \in Sessions /\ o.card \in Cards
        BY DEF Outcomes
    <2>2. Finish(t, o.s, o.step = "done", o.card, pf, ct)
        BY <1>2 DEF Conclude
    <2>3. (o.step = "done") \in BOOLEAN
        OBVIOUS
    <2>4. EngineTyped' /\ ~Live'
        BY <2>1, <2>2, <2>3, FinishStep
    <2> QED
        BY <2>4 DEF LiveTurnIsCurrent
<1> QED
    BY <1>1, <1>2

\* The card queue of an answer and the session that shows it are typed.
BackendAnswers ==
    {PlainAnswer(k) : k \in Kinds \ {"patch"}} \cup PatchAnswers \cup FileOpAnswers

LEMMA AnswersType ==
    ASSUME NEW e
    PROVE  Answers(e) \subseteq BackendAnswers
BY EngineAssumption DEF Answers, BackendAnswers, Kinds

LEMMA AnswerHunks ==
    ASSUME NEW r \in BackendAnswers
    PROVE  r.hunks \in Nat
<1>1. CASE r \in PatchAnswers
    <2>1. r.hunks \in 1..MaxHunks
        BY <1>1 DEF PatchAnswers
    <2> QED
        BY <2>1, EngineAssumption
<1>2. CASE r \in FileOpAnswers
    <2>1. r.hunks = 1
        BY <1>2 DEF FileOpAnswers
    <2> QED
        BY <2>1
<1>3. CASE r \in {PlainAnswer(k) : k \in Kinds \ {"patch"}}
    BY <1>3 DEF PlainAnswer
<1> QED
    BY <1>1, <1>2, <1>3 DEF BackendAnswers

LEMMA ReviewCardsType ==
    ASSUME NEW r \in PatchAnswers \cup FileOpAnswers, NEW base \in Nat,
           base + r.hunks <= MaxProposals
    PROVE  /\ ReviewCards(r, base) \in Seq(Cards)
           /\ ReviewCards(r, base)[1] \in Cards
           /\ Tail(ReviewCards(r, base)) \in Seq(Cards)
<1> DEFINE n == r.hunks
           card(i) == [kind |-> "patch", no |-> base + i,
                       label |-> <<r.id, IF n = 1 THEN 0 ELSE i>>,
                       fileop |-> r.fileop,
                       complete |-> r.follow = "complete" /\ i = n,
                       offers |-> {"why"}]
<1>1. n \in 1..MaxHunks /\ r.id \in PatchIds /\ r.fileop \in BOOLEAN
    <2>1. CASE r \in PatchAnswers
        <3>1. r.hunks \in 1..MaxHunks
            BY <2>1 DEF PatchAnswers
        <3>2. r.id \in PatchIds /\ r.fileop \in BOOLEAN
            BY <2>1 DEF PatchAnswers
        <3> QED
            BY <3>1, <3>2
    <2>2. CASE r \in FileOpAnswers
        <3>1. r.hunks = 1
            BY <2>2 DEF FileOpAnswers
        <3>2. r.id \in PatchIds /\ r.fileop \in BOOLEAN
            BY <2>2 DEF FileOpAnswers
        <3>3. 1 \in 1..MaxHunks
            BY EngineAssumption
        <3> QED
            BY <3>1, <3>2, <3>3
    <2> QED
        BY <2>1, <2>2
<1>2. ASSUME NEW i \in 1..n
      PROVE  card(i) \in Cards
    <2>1. base + i \in 0..MaxProposals
        BY <1>1, EngineAssumption
    <2>2. <<r.id, IF n = 1 THEN 0 ELSE i>> \in Labels
        BY <1>1, EngineAssumption DEF Labels
    <2>3. (r.follow = "complete" /\ i = n) \in BOOLEAN
        OBVIOUS
    <2>4. {"why"} \in SUBSET Actions
        BY DEF Actions
    <2> QED
        BY <1>1, <2>1, <2>2, <2>3, <2>4 DEF Cards, Kinds
<1>3. ReviewCards(r, base) = [i \in 1..n |-> card(i)]
    BY DEF ReviewCards
<1>4. [i \in 1..n |-> card(i)] \in [1..n -> Cards]
    BY <1>2
<1>5. n \in Nat /\ n >= 1
    BY <1>1, EngineAssumption
<1>6. ReviewCards(r, base) \in Seq(Cards)
    <2>1. ReviewCards(r, base) \in [1..n -> Cards]
        BY <1>3, <1>4
    <2> HIDE DEF n
    <2> QED
        BY <2>1, <1>5, SeqDef
<1>7. ReviewCards(r, base) # <<>>
    BY <1>3, <1>5, <1>6
<1>8. ReviewCards(r, base)[1] \in Cards
    BY <1>2, <1>3, <1>5
<1> QED
    BY <1>6, <1>7, <1>8

LEMMA AcceptResponseType ==
    ASSUME NEW s \in Sessions, NEW r \in BackendAnswers, NEW e,
           NEW base \in Nat, base + r.hunks <= MaxProposals
    PROVE  LET t == AcceptResponse(s, r, e, base)
           IN  t \in Sessions /\ t.gen = s.gen /\ t.last \in Cards
<1> DEFINE cards == ReviewCards(r, base)
           q == Queued(s, r, cards)
           p == [q EXCEPT !.goal = GoalAfter(@, r.kind, e),
                          !.state = StateAfterCard(r.kind, e)]
           card == AnswerCard(r, e, base)
<1>1. q \in Sessions /\ q.gen = s.gen /\ card \in Cards
    <2>1. CASE r.kind = "patch"
        <3>1. r \in PatchAnswers \cup FileOpAnswers
            BY <2>1 DEF BackendAnswers, PlainAnswer
        <3>2. cards[1] \in Cards /\ Tail(cards) \in Seq(Cards)
            BY <3>1, ReviewCardsType
        <3>3. (r.hunks > 1) \in BOOLEAN /\ (r.follow = "more") \in BOOLEAN
            OBVIOUS
        <3> QED
            BY <2>1, <3>2, <3>3 DEF Queued, AnswerCard, Sessions
    <2>2. CASE r.kind # "patch"
        <3>1. PICK k \in Kinds \ {"patch"} : r = PlainAnswer(k)
            BY <2>2 DEF BackendAnswers, PatchAnswers, FileOpAnswers
        <3>2. AnswerOffers(r.kind, e) \in SUBSET Actions
            BY DEF AnswerOffers, Actions
        <3>3. card \in Cards
            BY <2>2, <3>1, <3>2, PlainCardType DEF AnswerCard, PlainAnswer
        <3>4. <<>> \in Seq(Cards)
            OBVIOUS
        <3> QED
            BY <2>2, <3>3, <3>4 DEF Queued, Sessions
    <2> QED
        BY <2>1, <2>2
<1>2. GoalAfter(q.goal, r.kind, e) \in
          {"Idle", "Active", "Paused", "Complete", "Stopped"}
    BY <1>1 DEF GoalAfter, Sessions
<1>3. p \in Sessions /\ p.gen = s.gen
    BY <1>1, <1>2, StateAfterCardType DEF Sessions
<1> QED
    BY <1>1, <1>3, PushType DEF AcceptResponse
-----------------------------------------------------------------------------
(***************************************************************************)
(* The inductive invariant: besides the types and the generations, a       *)
(* command that waits to run carries what its body reads, and the body of  *)
(* a reply or an action is the one that waits for a cancellation.          *)
(***************************************************************************)
CommandIsComplete ==
    Live =>
      /\ turn.cmd.op = "start" => turn.cmd.exp \in Expectations
      /\ turn.cmd.op = "reply" => turn.cmd.exp \in Expectations \cup {"blank"}
      /\ turn.pc \in {"cancelGoal", "cancelAccept"} =>
            turn.cmd.op \in {"reply", "action"}

IInv == TypeOK /\ LiveTurnIsCurrent /\ CommandIsComplete

\* What a step of a turn establishes.
TurnGoesOn ==
    /\ EngineTyped' /\ LiveTurnIsCurrent' /\ CommandIsComplete'
    /\ made' \in 0..MaxProposals

LEMMA TypeOKEngineTyped == TypeOK => EngineTyped
BY DEF TypeOK, EngineTyped, Notices

\* The session of a live turn and the outcome of its body.
LEMMA LiveTurn ==
    ASSUME IInv, Live
    PROVE  /\ EngineTyped /\ turn.s \in Sessions /\ turn.cmd \in Commands
           /\ turn.gen = session.gen /\ turn.s.gen = session.gen
           /\ turn.cmd.op \in {"reply", "action"} =>
                  Outcome(turn.cmd, turn.s) \in Outcomes(turn.s)
<1>1. EngineTyped /\ turn.s \in Sessions /\ turn.cmd \in Commands
    BY TypeOKEngineTyped DEF IInv, TypeOK, Turns
<1>2. turn.cmd.op \in {"reply", "action"} => turn.cmd \in Bodies
    BY <1>1 DEF Bodies, IInv, CommandIsComplete
<1> QED
    BY <1>1, <1>2, OutcomeType DEF IInv, LiveTurnIsCurrent

LEMMA StartTurnStep == ASSUME IInv, StartTurn PROVE TurnGoesOn
<1> DEFINE t == [turn EXCEPT !.exp = turn.cmd.exp]
<1>1. Live /\ turn.cmd.exp \in Expectations
    BY DEF StartTurn, Live, IInv, CommandIsComplete
<1>2. /\ EngineTyped /\ turn.s \in Sessions
      /\ turn.gen = session.gen /\ turn.s.gen = session.gen
    BY <1>1, LiveTurn
<1>3. t \in Turns /\ t.gen = turn.gen /\ t.cmd = turn.cmd
    BY <1>1, <1>2 DEF EngineTyped, Turns
<1>4. Suspend(t, "call", turn.s, prefetch, continuation) /\ UNCHANGED made
    BY DEF StartTurn, Unshown
<1>5. prefetch \in Specs /\ continuation \in Specs /\ "call" \in Points
    BY <1>2 DEF EngineTyped, Points
<1>6. /\ EngineTyped' /\ LiveTurnIsCurrent'
      /\ turn'.cmd = t.cmd /\ turn'.pc = "call"
    BY <1>2, <1>3, <1>4, <1>5, SuspendStep
<1>7. CommandIsComplete'
    BY <1>1, <1>3, <1>6 DEF CommandIsComplete, IInv
<1> QED
    BY <1>4, <1>6, <1>7 DEF TurnGoesOn, IInv, TypeOK

\* A body that concludes with the speculation entries pf and ct.
LEMMA BodyStep ==
    ASSUME IInv, Live, turn.cmd.op \in {"reply", "action"}, UNCHANGED made,
           NEW pf \in Specs, NEW ct \in Specs,
           Conclude(turn, Outcome(turn.cmd, turn.s), pf, ct)
    PROVE  TurnGoesOn
<1>1. /\ EngineTyped /\ turn \in Turns
      /\ turn.gen = session.gen /\ turn.s.gen = session.gen
      /\ Outcome(turn.cmd, turn.s) \in Outcomes(turn.s)
    BY LiveTurn DEF EngineTyped
<1>2. /\ EngineTyped' /\ LiveTurnIsCurrent'
      /\ Live' => turn'.cmd = turn.cmd /\ turn'.pc = "call"
    BY <1>1, ConcludeStep
<1>3. CommandIsComplete'
    BY <1>2 DEF CommandIsComplete, IInv
<1> QED
    BY <1>2, <1>3 DEF TurnGoesOn, IInv, TypeOK

\* A body that is suspended while a speculation is cancelled.
LEMMA WaitStep ==
    ASSUME IInv, Live, UNCHANGED made, NEW pc \in Points,
           NEW s \in Sessions, s.gen = turn.s.gen,
           pc \in {"cancelGoal", "cancelAccept"} =>
               turn.cmd.op \in {"reply", "action"},
           NEW pf \in Specs, NEW ct \in Specs,
           Suspend(turn, pc, s, pf, ct)
    PROVE  TurnGoesOn
<1>1. /\ EngineTyped /\ turn \in Turns
      /\ turn.gen = session.gen /\ s.gen = session.gen
    BY LiveTurn DEF EngineTyped
<1>2. /\ EngineTyped' /\ LiveTurnIsCurrent'
      /\ turn'.cmd = turn.cmd /\ turn'.pc = pc
    BY <1>1, SuspendStep
<1>3. CommandIsComplete'
    BY <1>2 DEF CommandIsComplete, IInv
<1> QED
    BY <1>2, <1>3 DEF TurnGoesOn, IInv, TypeOK

\* A body that ends with a session and a card.
LEMMA EndStep ==
    ASSUME IInv, Live, UNCHANGED made,
           NEW s \in Sessions, NEW ok \in BOOLEAN, NEW card \in Cards,
           NEW pf \in Specs, NEW ct \in Specs,
           Finish(turn, s, ok, card, pf, ct)
    PROVE  TurnGoesOn
<1>1. EngineTyped /\ turn \in Turns
    BY LiveTurn DEF EngineTyped
<1>2. EngineTyped' /\ ~Live'
    BY <1>1, FinishStep
<1> QED
    BY <1>2 DEF TurnGoesOn, LiveTurnIsCurrent, CommandIsComplete, IInv, TypeOK

LEMMA PlainActionStep == ASSUME IInv, PlainAction PROVE TurnGoesOn
<1>1. Live /\ turn.cmd.op = "action" /\ UNCHANGED made
    BY DEF PlainAction, Live, Unshown
<1>2. prefetch \in Specs /\ continuation \in Specs
    BY DEF IInv, TypeOK
<1> QED
    BY <1>1, <1>2, BodyStep DEF PlainAction

LEMMA CancelAcceptStep ==
    ASSUME IInv, Live, turn.cmd.op \in {"reply", "action"}, UNCHANGED made,
           CancelAccept(turn)
    PROVE  TurnGoesOn
<1>1. NoSpec \in Specs /\ turn.s \in Sessions
    BY SpecsType, LiveTurn DEF IInv, TypeOK
<1> QED
    BY <1>1, BodyStep, WaitStep DEF CancelAccept, Points

LEMMA AbandoningTurnStep == ASSUME IInv, AbandoningTurn PROVE TurnGoesOn
<1>1. Live /\ turn.cmd.op \in {"reply", "action"} /\ UNCHANGED made
    BY DEF AbandoningTurn, Live, Unshown
<1>2. CASE Running(continuation)
    <2>1. /\ Suspend(turn, "cancelGoal", turn.s, prefetch, NoSpec)
          /\ "cancelGoal" \in Points
        BY <1>2 DEF AbandoningTurn, Points
    <2>2. NoSpec \in Specs /\ prefetch \in Specs /\ turn.s \in Sessions
        BY <1>1, SpecsType, LiveTurn DEF IInv, TypeOK
    <2> QED
        BY <1>1, <2>1, <2>2, WaitStep
<1>3. CASE ~Running(continuation)
    BY <1>1, <1>3, CancelAcceptStep DEF AbandoningTurn
<1> QED
    BY <1>2, <1>3

LEMMA CancelledStep ==
    ASSUME IInv, GoalCancelled \/ AcceptCancelled
    PROVE  TurnGoesOn
<1>1. turn.pc \in {"cancelGoal", "cancelAccept"} /\ Live /\ UNCHANGED made
    BY DEF GoalCancelled, AcceptCancelled, Live, Unshown
<1>2. turn.cmd.op \in {"reply", "action"}
    BY <1>1 DEF IInv, CommandIsComplete
<1>3. prefetch \in Specs /\ continuation \in Specs
    BY DEF IInv, TypeOK
<1>4. CASE GoalCancelled
    BY <1>1, <1>2, <1>4, CancelAcceptStep DEF GoalCancelled
<1>5. CASE AcceptCancelled
    BY <1>1, <1>2, <1>3, <1>5, BodyStep DEF AcceptCancelled
<1> QED
    BY <1>4, <1>5

LEMMA AnswerStep == ASSUME IInv, Answer PROVE TurnGoesOn
<1>1. Live
    BY DEF Answer, Live
<1>2. PICK r \in Answers(turn.exp) :
          LET s == AcceptResponse(turn.s, r, turn.exp, made)
          IN  /\ made + r.hunks <= MaxProposals
              /\ made' = made + r.hunks
              /\ Finish(turn, s, TRUE, s.last, prefetch, continuation)
    BY DEF Answer
<1> DEFINE s == AcceptResponse(turn.s, r, turn.exp, made)
<1>3. r \in BackendAnswers
    BY AnswersType
<1>4. r.hunks \in Nat
    BY <1>3, AnswerHunks
<1>5. /\ EngineTyped /\ turn \in Turns /\ turn.s \in Sessions /\ made \in Nat
      /\ prefetch \in Specs /\ continuation \in Specs
    BY <1>1, LiveTurn DEF IInv, TypeOK
<1>6. s \in Sessions /\ s.last \in Cards
    BY <1>2, <1>3, <1>5, AcceptResponseType
<1>7. EngineTyped' /\ ~Live'
    BY <1>2, <1>5, <1>6, FinishStep
<1>8. made' \in 0..MaxProposals
    BY <1>2, <1>4, <1>5, EngineAssumption
<1> QED
    BY <1>7, <1>8 DEF TurnGoesOn, LiveTurnIsCurrent, CommandIsComplete
-----------------------------------------------------------------------------
(***************************************************************************)
(* The body of a report                                                    *)
(***************************************************************************)
LEMMA RecordedType ==
    ASSUME NEW s \in Sessions, s.last.kind = "patch"
    PROVE  /\ Recorded(s) \in Sessions /\ Recorded(s).gen = s.gen
           /\ Recorded(s).queue = s.queue
<1>1. s.last.no \in 0..MaxProposals /\ s.last.label \in Labels
    BY DEF Sessions, Cards
<1> QED
    BY <1>1 DEF Recorded, Sessions

LEMMA CompleteGoalType ==
    ASSUME NEW s \in Sessions
    PROVE  CompleteGoal(s) \in Sessions /\ CompleteGoal(s).last \in Cards
<1> DEFINE q == [s EXCEPT !.state = "Summary", !.goal = "Complete"]
<1>1. q \in Sessions
    BY DEF Sessions, States
<1>2. PlainCard("summary", {"run_check", "stop"}) \in Cards
    BY PlainCardType DEF Kinds, Actions
<1> QED
    BY <1>1, <1>2, PushType DEF CompleteGoal

LEMMA RejectedType ==
    ASSUME NEW s \in Sessions
    PROVE  Rejected(s) \in Sessions /\ Rejected(s).last \in Cards
<1> DEFINE q == [s EXCEPT !.queue = <<>>, !.batch = FALSE, !.slice = FALSE,
                          !.state = IF s.active THEN "GoalLoopFailed"
                                                ELSE "PatchFailed"]
<1>1. <<>> \in Seq(Cards)
    OBVIOUS
<1>2. q \in Sessions
    BY <1>1 DEF Sessions, States
<1>3. PlainCard("error", {"retry", "edit_prompt", "stop"}) \in Cards
    BY PlainCardType DEF Kinds, Actions
<1> QED
    BY <1>2, <1>3, PushType DEF Rejected

LEMMA ReportRefusedStep == ASSUME IInv, ReportRefused PROVE TurnGoesOn
<1>1. Live /\ UNCHANGED made
    BY DEF ReportRefused, Applying, Live, Unshown
<1>2. turn.s \in Sessions /\ prefetch \in Specs /\ continuation \in Specs
    BY <1>1, LiveTurn DEF IInv, TypeOK
<1> QED
    BY <1>1, <1>2, NoCardType, EndStep DEF ReportRefused

\* What every accepted report starts from.
LEMMA AcceptingType ==
    ASSUME IInv, Accepting
    PROVE  /\ Live /\ turn.s \in Sessions
           /\ Recorded(turn.s) \in Sessions
           /\ Recorded(turn.s).gen = turn.s.gen
           /\ Recorded(turn.s).queue = turn.s.queue
<1>1. Live /\ turn.s.last.kind = "patch"
    BY DEF Accepting, Applying, Reviewable, Live
<1>2. turn.s \in Sessions
    BY <1>1, LiveTurn
<1> QED
    BY <1>1, <1>2, RecordedType

LEMMA AcceptShowsNextStep == ASSUME IInv, AcceptShowsNext PROVE TurnGoesOn
<1> DEFINE r == Recorded(turn.s)
           q == [r EXCEPT !.state = "PatchShown", !.queue = Tail(@)]
           s == ShowNext(r)
<1>1. /\ Live /\ r \in Sessions /\ r.queue # <<>> /\ UNCHANGED made
      /\ Finish(turn, s, TRUE, s.last, prefetch, continuation)
    BY AcceptingType DEF AcceptShowsNext, Unshown
<1>2. r.queue \in Seq(Cards)
    BY <1>1 DEF Sessions
<1>3. Head(r.queue) \in Cards /\ Tail(r.queue) \in Seq(Cards)
    BY <1>1, <1>2
<1>4. q \in Sessions
    BY <1>1, <1>3 DEF Sessions, States
<1>5. s \in Sessions /\ s.last \in Cards
    BY <1>3, <1>4, PushType DEF ShowNext
<1>6. prefetch \in Specs /\ continuation \in Specs
    BY DEF IInv, TypeOK
<1> QED
    BY <1>1, <1>5, <1>6, EndStep

LEMMA AcceptCompletesGoalStep ==
    ASSUME IInv, AcceptCompletesGoal
    PROVE  TurnGoesOn
<1> DEFINE s == [Recorded(turn.s) EXCEPT !.batch = FALSE]
           c == CompleteGoal(s)
<1>1. Accepting /\ UNCHANGED made
    BY DEF AcceptCompletesGoal, Unshown
<1>2. Live /\ s \in Sessions /\ s.gen = turn.s.gen
    BY <1>1, AcceptingType DEF Sessions
<1>3. c \in Sessions /\ c.last \in Cards
    BY <1>2, CompleteGoalType
<1>4. prefetch \in Specs /\ continuation \in Specs /\ NoSpec \in Specs
    BY <1>2, SpecsType DEF IInv, TypeOK
<1>5. "complete" \in Points
    BY DEF Points
<1>6. CASE Finish(turn, c, TRUE, c.last, prefetch, continuation)
    BY <1>1, <1>2, <1>3, <1>4, <1>6, EndStep
<1>7. CASE Suspend(turn, "complete", s, NoSpec, continuation)
    BY <1>1, <1>2, <1>4, <1>5, <1>7, WaitStep
<1>8. CASE Finish(turn, c, TRUE, c.last, NoSpec, continuation)
    BY <1>1, <1>2, <1>3, <1>4, <1>8, EndStep
<1> QED
    BY <1>6, <1>7, <1>8 DEF AcceptCompletesGoal

LEMMA CompletionCancelledStep ==
    ASSUME IInv, CompletionCancelled
    PROVE  TurnGoesOn
<1> DEFINE c == CompleteGoal(turn.s)
<1>1. Live /\ UNCHANGED made
    BY DEF CompletionCancelled, Live, Unshown
<1>2. c \in Sessions /\ c.last \in Cards
    BY <1>1, LiveTurn, CompleteGoalType
<1>3. /\ prefetch \in Specs /\ continuation \in Specs
      /\ Finish(turn, c, TRUE, c.last, prefetch, continuation)
    BY DEF IInv, TypeOK, CompletionCancelled
<1> QED
    BY <1>1, <1>2, <1>3, EndStep

\* The acceptance is committed and its turn goes on in the next generation.
LEMMA AcceptContinuesStep == ASSUME IInv, AcceptContinues PROVE TurnGoesOn
<1> DEFINE a == AfterAccept(turn)
           s == NextGeneration(Commit(a, turn.gen))
           spec == IF Prepaid.st \in {"running", "ok"} THEN Prepaid.no ELSE 0
           pc == IF Running(Prepaid) THEN "take" ELSE "call"
           u == [a EXCEPT !.gen = s.gen, !.state = "Thinking"]
<1>1. Accepting /\ Live /\ UNCHANGED <<made, notices>>
    BY AcceptingType DEF AcceptContinues, Unshown
<1>2. a \in Sessions
    BY <1>1, AcceptingType DEF AfterAccept, Sessions, States
<1>3. Commit(a, turn.gen) \in Sessions
    BY <1>2 DEF Commit, IInv, TypeOK
<1>4. s \in Sessions /\ s.gen \in Nat
    BY <1>3 DEF NextGeneration, Sessions
<1>5. u \in Sessions /\ u.gen = s.gen
    BY <1>2, <1>4 DEF Sessions, States
<1>6. /\ prefetch \in Specs /\ continuation \in Specs /\ NoSpec \in Specs
      /\ notices \subseteq Notices /\ turn \in Turns
    BY <1>4, SpecsType DEF IInv, TypeOK, Notices
<1>7. spec \in 0..MaxProposals
    BY <1>6, EngineAssumption DEF Prepaid, Specs
<1>8. pc \in Points /\ "GoalLoop" \in Expectations
    BY DEF Points, Expectations
<1>9. /\ session' = s
      /\ turn' = [turn EXCEPT !.pc = pc, !.gen = s.gen, !.s = u,
                              !.exp = "GoalLoop", !.spec = spec]
    BY DEF AcceptContinues, EffectiveGeneration
<1>10. /\ turn' \in Turns /\ turn'.gen = s.gen /\ turn'.s = u
       /\ turn'.cmd = turn.cmd /\ turn'.pc = pc
    BY <1>4, <1>5, <1>6, <1>7, <1>8, <1>9 DEF Turns
<1>11. prefetch' \in Specs /\ continuation' \in Specs
    BY <1>6 DEF AcceptContinues
<1>12. EngineTyped'
    BY <1>1, <1>4, <1>6, <1>9, <1>10, <1>11 DEF EngineTyped
<1>13. pc \notin {"cancelGoal", "cancelAccept"}
    OBVIOUS
<1> HIDE DEF u, s, pc, spec
<1>14. LiveTurnIsCurrent'
    BY <1>5, <1>9, <1>10 DEF LiveTurnIsCurrent
<1>15. CommandIsComplete'
    BY <1>1, <1>10, <1>13 DEF CommandIsComplete, IInv
<1> QED
    BY <1>1, <1>12, <1>14, <1>15 DEF TurnGoesOn, IInv, TypeOK

LEMMA SpeculationTakenStep == ASSUME IInv, SpeculationTaken PROVE TurnGoesOn
<1>1. Live /\ UNCHANGED <<session, prefetch, continuation, notices, made>>
    BY DEF SpeculationTaken, Live, Unshown
<1>2. PICK spec \in {turn.spec, 0} :
          turn' = [turn EXCEPT !.pc = "call", !.spec = spec]
    BY DEF SpeculationTaken
<1>3. turn \in Turns /\ spec \in 0..MaxProposals
    BY <1>2, EngineAssumption DEF IInv, TypeOK, Turns
<1>4. /\ turn' \in Turns /\ turn'.gen = turn.gen /\ turn'.s = turn.s
      /\ turn'.cmd = turn.cmd /\ turn'.pc = "call"
    BY <1>2, <1>3 DEF Turns, Points
<1>5. EngineTyped'
    BY <1>1, <1>4, TypeOKEngineTyped DEF EngineTyped, IInv
<1>6. LiveTurnIsCurrent' /\ CommandIsComplete'
    BY <1>1, <1>4 DEF IInv, LiveTurnIsCurrent, CommandIsComplete
<1> QED
    BY <1>1, <1>5, <1>6 DEF TurnGoesOn, IInv, TypeOK

LEMMA RejectGoalStep ==
    ASSUME IInv, Live, UNCHANGED made,
           NEW s \in Sessions, s.gen = turn.s.gen, RejectGoal(turn, s)
    PROVE  TurnGoesOn
<1> DEFINE c == Rejected(s)
<1>1. c \in Sessions /\ c.last \in Cards /\ NoSpec \in Specs
    BY RejectedType, SpecsType DEF IInv, TypeOK
<1>2. CASE Suspend(turn, "rejectGoal", s, NoSpec, NoSpec)
    BY <1>1, <1>2, WaitStep DEF Points
<1>3. CASE Finish(turn, c, TRUE, c.last, NoSpec, NoSpec)
    BY <1>1, <1>3, EndStep
<1> QED
    BY <1>2, <1>3 DEF RejectGoal

LEMMA RejectStep ==
    ASSUME IInv, RejectDraft \/ RejectAcceptCancelled \/ RejectGoalCancelled
    PROVE  TurnGoesOn
<1>1. Live /\ UNCHANGED made
    BY DEF RejectDraft, RejectAcceptCancelled, RejectGoalCancelled,
           Rejecting, Applying, Live, Unshown
<1>2. /\ turn.s \in Sessions /\ prefetch \in Specs
      /\ continuation \in Specs /\ NoSpec \in Specs
    BY <1>1, LiveTurn, SpecsType DEF IInv, TypeOK
<1>3. CASE RejectDraft
    <2> DEFINE s == [turn.s EXCEPT !.refused = @ \cup {turn.s.last.no}]
    <2>1. turn.s.last.no \in 0..MaxProposals
        BY <1>2 DEF Sessions, Cards
    <2>2. s \in Sessions /\ s.gen = turn.s.gen
        BY <1>2, <2>1 DEF Sessions
    <2>3. CASE Suspend(turn, "rejectAccept", s, NoSpec, continuation)
        BY <1>1, <1>2, <2>2, <2>3, WaitStep DEF Points
    <2>4. CASE RejectGoal(turn, s)
        BY <1>1, <2>2, <2>4, RejectGoalStep
    <2> QED
        BY <1>3, <2>3, <2>4 DEF RejectDraft
<1>4. CASE RejectAcceptCancelled
    BY <1>1, <1>2, <1>4, RejectGoalStep DEF RejectAcceptCancelled
<1>5. CASE RejectGoalCancelled
    <2> DEFINE c == Rejected(turn.s)
    <2>1. c \in Sessions /\ c.last \in Cards
        BY <1>2, RejectedType
    <2> QED
        BY <1>1, <1>2, <1>5, <2>1, EndStep DEF RejectGoalCancelled
<1> QED
    BY <1>3, <1>4, <1>5
-----------------------------------------------------------------------------
(***************************************************************************)
(* The whole step                                                          *)
(***************************************************************************)
\* Every step of a turn leaves the main loop and the editor alone.
LEMMA TurnStepIInv == ASSUME IInv, TurnStep PROVE IInv'
<1>1. TurnGoesOn
    BY StartTurnStep, PlainActionStep, AbandoningTurnStep, CancelledStep,
       AnswerStep, ReportRefusedStep, AcceptShowsNextStep,
       AcceptCompletesGoalStep, CompletionCancelledStep, AcceptContinuesStep,
       SpeculationTakenStep, RejectGoalStep, RejectStep DEF TurnStep
<1>2. UNCHANGED <<detached, server, view, overtaken, applied, shown>>
    BY DEF TurnStep, Unshown, StartTurn, PlainAction, AbandoningTurn,
           GoalCancelled, AcceptCancelled, Answer, ReportRefused,
           AcceptShowsNext, AcceptCompletesGoal, CompletionCancelled,
           AcceptContinues, SpeculationTaken, RejectDraft,
           RejectAcceptCancelled, RejectGoalCancelled
<1> QED
    BY <1>1, <1>2 DEF TurnGoesOn, IInv, TypeOK, EngineTyped, Notices

LEMMA SpeculationEndsIInv == ASSUME IInv, SpeculationEnds PROVE IInv'
<1>1. /\ prefetch' \in Specs /\ continuation' \in Specs
      /\ detached' \subseteq 0..MaxProposals
    <2>1. CASE PrefetchEnds
        BY <2>1 DEF PrefetchEnds, IInv, TypeOK, Specs
    <2>2. CASE ContinuationEnds
        BY <2>2 DEF ContinuationEnds, IInv, TypeOK, Specs
    <2>3. CASE DetachedEnds
        BY <2>3 DEF DetachedEnds, IInv, TypeOK
    <2> QED
        BY <2>1, <2>2, <2>3 DEF SpeculationEnds
<1>2. UNCHANGED <<session, turn, server, notices, view, overtaken, made,
                  applied, shown>>
    BY DEF SpeculationEnds
<1>3. TypeOK'
    BY <1>1, <1>2 DEF IInv, TypeOK
<1>4. LiveTurnIsCurrent' /\ CommandIsComplete'
    BY <1>2 DEF IInv, LiveTurnIsCurrent, CommandIsComplete, Live
<1> QED
    BY <1>3, <1>4 DEF IInv

\* What the abort of a pending turn leaves behind is typed.
LEMMA AbortType ==
    ASSUME IInv, AbortPending
    PROVE  detached' \subseteq 0..MaxProposals /\ overtaken' \in Nat
<1>1. turn.spec \in 0..MaxProposals
    BY DEF IInv, TypeOK, Turns
<1> QED
    BY <1>1 DEF AbortPending, Abandoned, IInv, TypeOK

\* A served request runs in a new generation, which its turn carries.
LEMMA ServeIInv ==
    ASSUME IInv, NEW cmd \in Commands, cmd.op # "start",
           cmd.op = "reply" => cmd.exp \in Expectations \cup {"blank"},
           Serve(cmd), applied' \subseteq 0..MaxProposals,
           shown' \subseteq Cards
    PROVE  IInv'
<1> DEFINE s == NextGeneration(session)
<1>1. s \in Sessions
    BY DEF NextGeneration, Sessions, IInv, TypeOK
<1>2. session' = s /\ turn' = Spawn(cmd, s)
    BY DEF Serve
<1>3. /\ turn' \in Turns /\ turn'.pc = "queued" /\ turn'.cmd = cmd
      /\ turn'.gen = s.gen /\ turn'.s = s
    BY <1>1, <1>2, SpawnType
<1>4. view' \in Views
    BY NoCardType DEF Serve, NoView, Views
<1>5. TypeOK'
    BY <1>1, <1>2, <1>3, <1>4, AbortType DEF Serve, IInv, TypeOK
<1>6. LiveTurnIsCurrent'
    BY <1>2, <1>3 DEF LiveTurnIsCurrent
<1>7. CommandIsComplete'
    BY <1>3 DEF CommandIsComplete
<1> QED
    BY <1>5, <1>6, <1>7 DEF IInv

LEMMA ActionRequestIInv == ASSUME IInv, ActionRequest PROVE IInv'
<1>1. PICK a \in ClientActions \ {"cancel_turn"} :
          Serve([Command("action") EXCEPT !.action = a])
    BY DEF ActionRequest
<1> DEFINE cmd == [Command("action") EXCEPT !.action = a]
<1>2. cmd \in Commands /\ cmd.op = "action"
    BY CommandType, EngineAssumption DEF Commands, Command
<1>3. applied' \subseteq 0..MaxProposals /\ shown' \subseteq Cards
    BY DEF ActionRequest, IInv, TypeOK
<1> QED
    BY <1>1, <1>2, <1>3, ServeIInv

LEMMA ReplyRequestIInv == ASSUME IInv, ReplyRequest PROVE IInv'
<1>1. PICK e \in Replies : Serve([Command("reply") EXCEPT !.exp = e])
    BY DEF ReplyRequest
<1> DEFINE cmd == [Command("reply") EXCEPT !.exp = e]
<1>2. /\ cmd \in Commands /\ cmd.op = "reply"
      /\ cmd.exp \in Expectations \cup {"blank"}
    BY CommandType, EngineAssumption DEF Commands, Command, Expectations
<1>3. applied' \subseteq 0..MaxProposals /\ shown' \subseteq Cards
    BY DEF ReplyRequest, IInv, TypeOK
<1> QED
    BY <1>1, <1>2, <1>3, ServeIInv

LEMMA ApplyReportIInv == ASSUME IInv, ApplyReport PROVE IInv'
<1>1. PICK card \in Reportable, accepted \in BOOLEAN :
          /\ Serve([Command("apply") EXCEPT !.card = card,
                                            !.accepted = accepted])
          /\ applied' = IF accepted THEN applied \cup {card.no} ELSE applied
          /\ shown' = shown \ {card}
    BY DEF ApplyReport
<1> DEFINE cmd == [Command("apply") EXCEPT !.card = card,
                                           !.accepted = accepted]
<1>2. card \in Cards
    BY DEF Reportable, IInv, TypeOK, Views
<1>3. cmd \in Commands /\ cmd.op = "apply"
    BY <1>2, CommandType DEF Commands, Command
<1>4. card.no \in 0..MaxProposals
    BY <1>2 DEF Cards
<1>5. applied' \subseteq 0..MaxProposals /\ shown' \subseteq Cards
    BY <1>1, <1>4 DEF IInv, TypeOK
<1> QED
    BY <1>1, <1>3, <1>5, ServeIInv

\* Showing a card keeps the record of the cards shown typed.
LEMMA ShownType ==
    ASSUME IInv, NEW card \in Cards, Shown(card)
    PROVE  shown' \subseteq Cards
BY DEF Shown, IInv, TypeOK

\* A step that leaves no turn behind.
LEMMA NoTurnIInv ==
    ASSUME TypeOK', turn'.pc \in {"none", "done"}
    PROVE  IInv'
BY DEF IInv, LiveTurnIsCurrent, CommandIsComplete, Live

LEMMA CancelRequestIInv == ASSUME IInv, CancelRequest PROVE IInv'
<1> DEFINE p == Paused(session)
           c == Cancelled(session)
<1>1. session \in Sessions /\ session.last \in Cards
    BY DEF IInv, TypeOK, Sessions
<1>2. p \in Sessions
    BY <1>1 DEF Paused, Sessions
<1>3. ContinuationCancelledCard \in Cards
    BY PlainCardType DEF ContinuationCancelledCard, Kinds, Actions
<1>4. [p EXCEPT !.state = "CardShown"] \in Sessions
    BY <1>2 DEF Sessions, States
<1>5. FromCard(session.last.kind) \in States
    BY DEF FromCard, States
<1>6. [p EXCEPT !.state = FromCard(session.last.kind)] \in Sessions
    BY <1>2, <1>5 DEF Sessions
<1>7. c \in Sessions
    BY <1>3, <1>4, <1>6, PushType DEF Cancelled
<1>8. session' \in Sessions
    BY <1>7 DEF CancelRequest, NextGeneration, Sessions
<1>9. turn' \in Turns /\ turn'.pc = "none"
    BY NoTurnType DEF CancelRequest
<1>10. prefetch' \in Specs /\ continuation' \in Specs
    BY <1>1, SpecsType DEF CancelRequest, IInv, TypeOK
<1>11. view' \in Views
    BY NoCardType DEF CancelRequest, NoView, Views
<1>12. detached' \subseteq 0..MaxProposals /\ overtaken' \in Nat
    BY AbortType DEF CancelRequest
<1>13. TypeOK'
    BY <1>8, <1>9, <1>10, <1>11, <1>12 DEF CancelRequest, IInv, TypeOK
<1> QED
    BY <1>9, <1>13, NoTurnIInv

LEMMA StopRequestIInv == ASSUME IInv, StopRequest PROVE IInv'
<1> DEFINE s == NextGeneration(session)
           o == ActionOutcome(s, "stop")
<1>1. session \in Sessions /\ s \in Sessions
    BY SMTT(30) DEF NextGeneration, Sessions, IInv, TypeOK
<1>2. o \in Outcomes(s)
    BY <1>1, ActionOutcomeType DEF Actions
<1>3. session' \in Sessions
    BY <1>2 DEF StopRequest, Outcomes
<1>4. turn' \in Turns /\ turn'.pc = "none"
    BY NoTurnType DEF StopRequest
<1>5. prefetch' \in Specs /\ continuation' \in Specs
    BY <1>1, SpecsType DEF StopRequest, IInv, TypeOK
<1>6. view' \in Views
    BY NoCardType DEF StopRequest, NoView, Views
<1>7. TypeOK'
    BY <1>3, <1>4, <1>5, <1>6, AbortType DEF StopRequest, IInv, TypeOK
<1> QED
    BY <1>4, <1>7, NoTurnIInv

LEMMA ReturnIInv == ASSUME IInv, Return PROVE IInv'
<1>1. turn \in Turns /\ turn.card \in Cards
    BY DEF IInv, TypeOK, Turns
<1>2. turn' \in Turns /\ turn'.pc = "none"
    BY NoTurnType DEF Return
<1>3. view' \in Views
    BY <1>1, NoCardType DEF Return, Showing, NoView, Views
<1>4. shown' \subseteq Cards
    BY <1>1, ShownType DEF Return
<1>5. TypeOK'
    BY <1>2, <1>3, <1>4 DEF Return, IInv, TypeOK
<1> QED
    BY <1>2, <1>5, NoTurnIInv

\* A yield leaves the turn alone, and announces a finished one.
LEMMA YieldIInv == ASSUME IInv, Yield PROVE IInv'
<1>1. Notice(turn) \in Notices
    BY DEF Notice, Notices, Turns, IInv, TypeOK
<1>2. notices' \subseteq Notices
    BY <1>1 DEF Yield, Announced, IInv, TypeOK, Notices
<1>3. TypeOK'
    BY <1>2 DEF Yield, IInv, TypeOK, Notices
<1> QED
    BY <1>3 DEF Yield, IInv, LiveTurnIsCurrent, CommandIsComplete, Live

LEMMA WriteWorkingIInv == ASSUME IInv, WriteWorking PROVE IInv'
<1>1. turn \in Turns /\ turn.id \in Nat
    BY DEF IInv, TypeOK, Turns
<1>2. view' \in Views
    BY <1>1, NoCardType DEF WriteWorking, Working, Views
<1>3. turn' \in Turns /\ (turn' = turn \/ turn'.pc = "none")
    BY <1>1, NoTurnType DEF WriteWorking
<1>4. TypeOK'
    BY <1>2, <1>3 DEF WriteWorking, IInv, TypeOK
<1>5. CASE turn' = turn
    BY <1>4, <1>5
    DEF WriteWorking, IInv, LiveTurnIsCurrent, CommandIsComplete, Live
<1> QED
    BY <1>3, <1>4, <1>5, NoTurnIInv

LEMMA ReadyIInv == ASSUME IInv, Ready PROVE IInv'
<1>1. PICK n \in notices :
          /\ notices' = notices \ {n}
          /\ IF view.turn = n.turn
               THEN /\ view' = IF n.ok THEN Showing(n.card) ELSE NoView
                    /\ Shown(n.card)
               ELSE UNCHANGED <<view, shown>>
    BY DEF Ready, Awaited
<1>2. n.card \in Cards
    BY DEF IInv, TypeOK
<1>3. view' \in Views
    BY <1>1, <1>2, NoCardType DEF Showing, NoView, Views, IInv, TypeOK
<1>4. shown' \subseteq Cards
    BY <1>1, <1>2, ShownType DEF IInv, TypeOK
<1>5. notices' \subseteq [turn : Nat, ok : BOOLEAN, card : Cards]
    BY <1>1 DEF IInv, TypeOK
<1>6. overtaken' \in Nat
    BY DEF Ready, IInv, TypeOK
<1>7. TypeOK'
    BY <1>3, <1>4, <1>5, <1>6 DEF Ready, IInv, TypeOK
<1> QED
    BY <1>7 DEF Ready, IInv, LiveTurnIsCurrent, CommandIsComplete, Live

LEMMA InitIInv == Init => IInv
<1> SUFFICES ASSUME Init PROVE IInv
    OBVIOUS
<1>1. PICK e \in {"Patch", "Any"} :
          turn = Spawn([Command("start") EXCEPT !.exp = e], NewSession)
    BY DEF Init
<1> DEFINE cmd == [Command("start") EXCEPT !.exp = e]
<1>2. cmd \in Commands /\ cmd.op = "start" /\ cmd.exp \in Expectations
    BY CommandType DEF Commands, Command, Expectations
<1>3. NewSession \in Sessions
    BY NewSessionType
<1>4. /\ turn \in Turns /\ turn.pc = "queued" /\ turn.cmd = cmd
      /\ turn.gen = NewSession.gen /\ turn.s = NewSession
    BY <1>1, <1>2, <1>3, SpawnType
<1>5. NoSpec \in Specs
    BY EngineAssumption DEF NoSpec, Specs
<1>6. NoView \in Views
    BY NoCardType DEF NoView, Views
<1>7. TypeOK
    BY <1>3, <1>4, <1>5, <1>6, EngineAssumption DEF Init, TypeOK
<1>8. LiveTurnIsCurrent
    BY <1>4 DEF Init, LiveTurnIsCurrent
<1>9. CommandIsComplete
    BY <1>2, <1>4 DEF CommandIsComplete
<1> QED
    BY <1>7, <1>8, <1>9 DEF IInv

LEMMA NextIInv == IInv /\ [Next]_vars => IInv'
<1> SUFFICES ASSUME IInv, [Next]_vars PROVE IInv'
    OBVIOUS
<1>1. CASE TurnStep
    BY <1>1, TurnStepIInv
<1>2. CASE SpeculationEnds
    BY <1>2, SpeculationEndsIInv
<1>3. CASE Request
    BY <1>3, ActionRequestIInv, ReplyRequestIInv, ApplyReportIInv,
       CancelRequestIInv, StopRequestIInv DEF Request
<1>4. CASE Return \/ Yield \/ WriteWorking \/ Ready
    BY <1>4, ReturnIInv, YieldIInv, WriteWorkingIInv, ReadyIInv
<1>5. CASE UNCHANGED vars
    BY <1>5 DEF vars, IInv, TypeOK, LiveTurnIsCurrent, CommandIsComplete, Live
<1> QED
    BY <1>1, <1>2, <1>3, <1>4, <1>5 DEF Next

\* Whatever the client asks, the backend answers and the deadline does, every
\* variable of the engine keeps its type (Engine, Session, TurnCommand).
THEOREM TypeCorrect == Spec => []TypeOK
<1>1. IInv => TypeOK
    BY DEF IInv
<1> QED
    BY <1>1, InitIInv, NextIInv, PTL DEF Spec

\* A turn that may still write always belongs to the session's current
\* generation, for any client and any backend: commit_session's generation
\* check never discards a turn that was not aborted, and no superseded turn
\* is left running.
THEOREM TurnsAreCurrent == Spec => []LiveTurnIsCurrent
<1>1. IInv => LiveTurnIsCurrent
    BY DEF IInv
<1> QED
    BY <1>1, InitIInv, NextIInv, PTL DEF Spec

-----------------------------------------------------------------------------
(***************************************************************************)
(* Theorems about the session the engine commits, for every client,        *)
(* backend, deadline and bound: what each step may do to it, and what      *)
(* therefore always holds of it.                                           *)
(***************************************************************************)

-----------------------------------------------------------------------------
(***************************************************************************)
(* What holds of a committed session s when m proposals have been made     *)
(***************************************************************************)
\* The goal's three fields agree.
GoalAgrees(s) ==
    /\ ~(s.active /\ s.paused)
    /\ s.paused => s.goal \in {"Paused", "Stopped"}

\* Nothing waits for an answer nobody computes, a failed step of a goal is
\* not paused, and only Why explains a draft.
Settled(s) ==
    /\ s.state = "Thinking" => s.last = NoCard
    /\ GoalAgrees(s)
    /\ s.state = "GoalLoopFailed" => ~s.paused
    /\ s.state = "PatchExplained" => "why" \in ClientActions

\* A proposal is open to a decision.
UnderReview(s) == s.state \in {"PatchShown", "PatchExplained"}
\* The session shows a patch, which a report may decide.
Reviewed(s) == s.state = "PatchShown" /\ s.last.kind = "patch"

\* The proposals the user has decided.
Decided(s) == s.steps \cup s.refused

\* The draft is the patch shown last, and is a proposal made before; nothing
\* but proposals made before is decided.
DraftIsKnown(s, m) ==
    /\ s.last.kind = "patch" => s.last = s.draft
    /\ s.draft # NoCard => s.draft.kind = "patch" /\ s.draft.no \in 1..m
    /\ Decided(s) \subseteq 1..m

\* A decided draft is not pending: its acceptance shows in the accepted
\* patch ids, unless it has none, and its rejection replaced the card.
DecidedIsNotPending(s) ==
    /\ s.draft.no \in s.steps => s.draft.fileop \/ s.draft.label \in s.accepted
    /\ s.draft.no \in s.refused => s.last.kind # "patch"
    /\ UnderReview(s) => s.draft # NoCard /\ s.draft.no \notin Decided(s)

\* The queue is the rest of the draft's batch.
QueueFollowsTheDraft(s, m) ==
    s.queue # <<>> =>
      /\ s.batch
      /\ s.draft # NoCard
      /\ \A i \in 1..Len(s.queue) :
           /\ s.queue[i].kind = "patch"
           /\ s.queue[i].no = s.draft.no + i
           /\ s.queue[i].no <= m
           /\ s.queue[i].no \notin Decided(s)

InReview(s, m) ==
    DraftIsKnown(s, m) /\ DecidedIsNotPending(s) /\ QueueFollowsTheDraft(s, m)
-----------------------------------------------------------------------------
(***************************************************************************)
(* The turn's private clone                                                *)
(*                                                                         *)
(* A turn works on a clone of the session and commits it at the end.  In   *)
(* between, the committed session is where the turn found it, so what the  *)
(* clone may be is known at every await.                                   *)
(***************************************************************************)
\* A command carries what a client can send.
CommandIsSent ==
    Live =>
      /\ turn.cmd.op = "start" => turn.cmd.exp \in {"Patch", "Any"}
      /\ turn.cmd.op = "reply" => turn.cmd.exp \in Replies
      /\ turn.cmd.op = "action" => turn.cmd.action \in ClientActions

\* The review recorded by the last acceptance of a finished goal, and by a
\* rejection.
Closed(s) == [Recorded(s) EXCEPT !.batch = FALSE]
Declined(s) == [s EXCEPT !.refused = @ \cup {s.last.no}]

\* A clone the backend is asked about has the committed review and cards.
SameReview(s, t) ==
    /\ t.last = s.last /\ t.draft = s.draft
    /\ t.accepted = s.accepted /\ t.steps = s.steps /\ t.refused = s.refused

Asking ==
    /\ turn.exp \in Expectations
    /\ SameReview(session, turn.s)
    /\ GoalAgrees(turn.s)
    /\ turn.exp = "GoalLoop" => ~turn.s.paused
    /\ turn.exp = "GoalWhy" => UnderReview(session)
    /\ turn.exp = "GoalWhy" => "why" \in ClientActions

CloneIsKnown ==
    /\ turn.pc \in {"queued", "cancelGoal", "cancelAccept"} =>
           turn.s = session
    /\ turn.pc = "complete" =>
           /\ turn.cmd.op = "apply"
           /\ Reviewed(session) /\ session.queue = <<>>
           /\ session.last.complete
           /\ turn.s = Closed(session)
    /\ turn.pc \in {"rejectAccept", "rejectGoal"} =>
           /\ turn.cmd.op = "apply"
           /\ Reviewed(session) /\ turn.s = Declined(session)
    /\ turn.pc \in {"take", "call"} => Asking
-----------------------------------------------------------------------------
(***************************************************************************)
(* What one step may do to the committed session                           *)
(***************************************************************************)
GoalOn(s) == [s EXCEPT !.active = TRUE, !.paused = FALSE, !.goal = "Active"]
Stopped(s) ==
    Push([s EXCEPT !.state = "Finished", !.goal = "Stopped"], StopCard)
Resumed(s) == Push([s EXCEPT !.state = "PatchShown"], s.draft)

\* A body that asks nothing.
BodyMove(s, t) ==
    \/ t \in {s, GoalOn(s), Stopped(s)}
    \/ s.state = "PatchExplained" /\ s.draft # NoCard /\ t = Resumed(s)

\* A report on the patch the session shows.
ReportMove(s, t) ==
    /\ Reviewed(s)
    /\ \/ s.queue # <<>> /\ t = ShowNext(Recorded(s))
       \/ /\ s.queue = <<>> /\ s.last.complete
          /\ t = CompleteGoal(Closed(s))
       \/ /\ s.queue = <<>> /\ ~s.last.complete
          /\ t = NextGeneration([Closed(s) EXCEPT !.state = "CardShown"])
       \/ t = Rejected(Declined(s))

\* A request of the main loop itself.
LoopMove(s, t) ==
    t \in {NextGeneration(s), NextGeneration(Cancelled(s)),
           Stopped(NextGeneration(s))}

\* The backend's answer, put on the clone.
AnswerMove ==
    /\ turn.pc = "call"
    /\ \E r \in Answers(turn.exp) :
         /\ made + r.hunks <= MaxProposals
         /\ made' = made + r.hunks
         /\ session' = AcceptResponse(turn.s, r, turn.exp, made)

\* A report is decided before anything is asked of the backend.
Deciding ==
    /\ turn.cmd.op = "apply"
    /\ turn.pc \in {"queued", "complete", "rejectAccept", "rejectGoal"}

LocalMove ==
    /\ \/ BodyMove(session, session')
       \/ Deciding /\ ReportMove(session, session')
       \/ LoopMove(session, session')
    /\ made' = made

\* What every step establishes of the session and of the clone.
Moves ==
    /\ LocalMove \/ AnswerMove
    /\ CloneIsKnown' /\ CommandIsSent'

CInv == IInv /\ CommandIsSent /\ CloneIsKnown /\ Settled(session)

\* The rows of the table that keep the goal's contract, or the draft's.
LEMMA NextStateRow ==
    ASSUME NEW s, NEW a, Admits(s, a)
    PROVE  <<s, a, NextState(s, a)>> \in Transitions
BY DEF Admits, NextState

LEMMA NextStateGoal ==
    ASSUME NEW s, NEW a, Admits(s, a)
    PROVE  /\ NextState(s, a) = "GoalLoop" =>
                 s = "GoalLoopFailed" \/ a = "goal"
           /\ NextState(s, a) = "GoalWhy" =>
                 \/ s = "PatchShown" /\ a = "why"
                 \/ s = "PatchExplained"
<1>1. <<s, a, NextState(s, a)>> \in Transitions
    BY NextStateRow
<1> QED
    BY <1>1 DEF Transitions

LEMMA AskShape ==
    ASSUME NEW s \in Sessions, NEW e, GoalAgrees(s)
    PROVE  /\ Ask(s, e).step = "ask" /\ Ask(s, e).exp = e
           /\ SameReview(s, Ask(s, e).s)
           /\ GoalAgrees(Ask(s, e).s)
           /\ Ask(s, e).s.paused = s.paused
BY DEF Ask, Sessions, SameReview, GoalAgrees

\* What the body of an action or a reply does with the clone.
LEMMA BodyShape ==
    ASSUME NEW cmd \in Bodies, NEW s \in Sessions,
           cmd.op = "reply" => cmd.exp \in Replies,
           cmd.op = "action" => cmd.action \in ClientActions,
           GoalAgrees(s), s.state = "GoalLoopFailed" => ~s.paused,
           s.state = "PatchExplained" => "why" \in ClientActions,
           NEW o, o = Outcome(cmd, s)
    PROVE  /\ o.step = "ask" =>
                /\ o.exp \in Expectations
                /\ SameReview(s, o.s)
                /\ GoalAgrees(o.s)
                /\ o.exp = "GoalLoop" => ~o.s.paused
                /\ o.exp = "GoalWhy" =>
                     /\ s.state \in {"PatchShown", "PatchExplained"}
                     /\ "why" \in ClientActions
           /\ o.step # "ask" => BodyMove(s, o.s)
<1>1. CASE cmd.op = "reply"
    <2> DEFINE e == cmd.exp
               p == [s EXCEPT !.active = FALSE, !.paused = TRUE,
                              !.goal = "Paused"]
    <2>1. e \in {"Patch", "Any", "blank"} /\ o = ReplyOutcome(s, e)
        BY <1>1, EngineAssumption DEF Outcome
    <2>2. CASE e = "blank"
        BY <2>1, <2>2 DEF ReplyOutcome, Fail, BodyMove
    <2>3. CASE e # "blank" /\ (s.active \/ s.paused)
        <3>1. o = Ask(p, e)
            BY <2>1, <2>3 DEF ReplyOutcome
        <3>2. p \in Sessions /\ SameReview(s, p) /\ GoalAgrees(p)
            BY DEF Sessions, SameReview, GoalAgrees
        <3> HIDE DEF p
        <3>3. /\ o.step = "ask" /\ o.exp = e /\ GoalAgrees(o.s)
              /\ SameReview(p, o.s)
            BY <3>1, <3>2, AskShape
        <3>4. SameReview(s, o.s)
            BY <3>2, <3>3 DEF SameReview
        <3> QED
            BY <2>1, <2>3, <3>3, <3>4 DEF Expectations
    <2>4. CASE e # "blank" /\ ~(s.active \/ s.paused)
        <3>1. o = Ask(s, e)
            BY <2>1, <2>4 DEF ReplyOutcome
        <3>2. /\ o.step = "ask" /\ o.exp = e /\ GoalAgrees(o.s)
              /\ SameReview(s, o.s)
            BY <3>1, AskShape
        <3> QED
            BY <2>1, <2>4, <3>2 DEF Expectations
    <2> QED
        BY <2>2, <2>3, <2>4
<1>2. CASE cmd.op # "reply"
    <2> DEFINE a == cmd.action
               p == Prepared(s, a)
    <2>1. a \in ClientActions /\ o = ActionOutcome(s, a)
        BY <1>2 DEF Outcome, Bodies
    <2>2. CASE a = "resume_draft"
        BY <2>1, <2>2
        DEF ActionOutcome, ResumeOutcome, Fail, Done, BodyMove, Resumed
    <2>3. /\ p \in Sessions /\ p.state = s.state /\ SameReview(s, p)
          /\ GoalAgrees(p)
          /\ s.state = "GoalLoopFailed" => ~p.paused
          /\ a = "goal" => ~p.paused
        BY ZenonT(60), PreparedType DEF Prepared, Sessions, SameReview, GoalAgrees
    <2>4. CASE a # "resume_draft" /\ ~Admits(p.state, a)
        <3>1. o = Fail(p)
            BY <2>1, <2>4 DEF ActionOutcome
        <3>2. p \in {s, GoalOn(s)}
            <4>1. \A b \in Redrafts : Admits("PatchShown", b)
                BY DEF Redrafts, Admits, Transitions, Expectations
            <4> QED
                BY <4>1, <2>3, <2>4 DEF Prepared, GoalOn
        <3> QED
            BY <3>1, <3>2 DEF Fail, BodyMove
    <2>5. CASE a = "stop" /\ Admits(p.state, a)
        <3>1. p = s
            BY <2>5 DEF Prepared, Redrafts
        <3>2. o = Done([s EXCEPT !.state = "Finished", !.goal = "Stopped"],
                       StopCard)
            BY <2>1, <2>5, <3>1 DEF ActionOutcome
        <3>3. o.step = "done" /\ o.s = Stopped(s)
            BY <3>2 DEF Done, Stopped
        <3> QED
            BY <3>3 DEF BodyMove
    <2>6. CASE a \notin {"resume_draft", "stop"} /\ Admits(p.state, a)
        <3> DEFINE e == NextState(p.state, a)
        <3>1. o = Ask(p, e)
            BY <2>1, <2>6 DEF ActionOutcome
        <3>2. e \in Expectations
            BY <2>6, NextStateType
        <3> HIDE DEF p
        <3>3. /\ o.step = "ask" /\ o.exp = e /\ SameReview(p, o.s)
              /\ GoalAgrees(o.s) /\ o.s.paused = p.paused
            BY <2>3, <3>1, AskShape
        <3>4. SameReview(s, o.s)
            BY <2>3, <3>3 DEF SameReview
        <3>5. e = "GoalLoop" => ~p.paused
            <4>1. e = "GoalLoop" => p.state = "GoalLoopFailed" \/ a = "goal"
                BY <2>6, NextStateGoal
            <4> QED
                BY <2>3, <4>1
        <3>6. e = "GoalWhy" => /\ s.state \in {"PatchShown", "PatchExplained"}
                               /\ "why" \in ClientActions
            BY <2>1, <2>3, <2>6, NextStateGoal
        <3> QED
            BY <3>2, <3>3, <3>4, <3>5, <3>6
    <2> QED
        BY <2>2, <2>4, <2>5, <2>6
<1> QED
    BY <1>1, <1>2
-----------------------------------------------------------------------------
(***************************************************************************)
(* Every step makes one of these moves                                     *)
(***************************************************************************)
\* A live turn works on a clone it may commit.
LEMMA LiveClone ==
    ASSUME CInv, Live
    PROVE  /\ turn \in Turns /\ turn.s \in Sessions /\ session \in Sessions
           /\ turn.gen = session.gen /\ turn.s.gen = session.gen
           /\ turn.cmd.op \in {"reply", "action"} => turn.cmd \in Bodies
<1>1. IInv
    BY DEF CInv
<1> QED
    BY <1>1, LiveTurn DEF EngineTyped, IInv, CommandIsComplete, Bodies

\* A step that leaves no turn behind asks nothing of the clone.
LEMMA NoClone == ASSUME ~Live' PROVE CloneIsKnown' /\ CommandIsSent'
BY DEF Live, CloneIsKnown, CommandIsSent

\* A turn that ends commits what it ends with.
LEMMA FinishMove ==
    ASSUME turn \in Turns, turn.gen = session.gen,
           NEW s, NEW ok, NEW card, NEW pf, NEW ct,
           Finish(turn, s, ok, card, pf, ct)
    PROVE  session' = s /\ CloneIsKnown' /\ CommandIsSent'
<1>1. session' = s
    BY DEF Finish, Commit
<1>2. turn'.pc \in {"none", "done"}
    BY NoTurnType DEF Finish, Deliver, Turns
<1> QED
    BY <1>1, <1>2, NoClone DEF Live

\* A turn that is suspended commits nothing.
LEMMA SuspendMove ==
    ASSUME CInv, Live, UNCHANGED made, NEW t \in Turns, t.cmd = turn.cmd,
           NEW pc, NEW s, NEW pf, NEW ct, Suspend(t, pc, s, pf, ct)
    PROVE  /\ session' = session /\ LocalMove /\ CommandIsSent'
           /\ turn'.pc = pc /\ turn'.s = s /\ turn'.exp = t.exp
           /\ turn'.cmd = turn.cmd
<1>1. session' = session
    BY DEF Suspend
<1>2. /\ turn'.pc = pc /\ turn'.s = s /\ turn'.exp = t.exp
      /\ turn'.cmd = turn.cmd
    BY <1>1 DEF Suspend, Turns
<1>3. CommandIsSent'
    BY <1>2 DEF CommandIsSent, CInv
<1>4. LocalMove
    BY <1>1 DEF LocalMove, BodyMove
<1> QED
    BY <1>1, <1>2, <1>3, <1>4

\* The same for a turn that waits at pc with the same expectation.
LEMMA WaitMove ==
    ASSUME CInv, Live, UNCHANGED made, NEW pc, NEW s, NEW pf, NEW ct,
           Suspend(turn, pc, s, pf, ct)
    PROVE  /\ session' = session /\ LocalMove /\ CommandIsSent'
           /\ turn'.pc = pc /\ turn'.s = s /\ turn'.exp = turn.exp
           /\ turn'.cmd = turn.cmd
BY SuspendMove, LiveClone

LEMMA StartTurnMoves == ASSUME CInv, StartTurn PROVE Moves
<1> DEFINE t == [turn EXCEPT !.exp = turn.cmd.exp]
<1>1. /\ Live /\ UNCHANGED made /\ turn.cmd.exp \in {"Patch", "Any"}
      /\ turn.s = session
      /\ Suspend(t, "call", turn.s, prefetch, continuation)
    BY DEF StartTurn, Unshown, Live, CInv, CommandIsSent, CloneIsKnown
<1>2. t \in Turns /\ t.cmd = turn.cmd /\ t.exp = turn.cmd.exp
    BY <1>1, LiveClone DEF Turns, Expectations
<1>3. /\ session' = session /\ LocalMove /\ CommandIsSent'
      /\ turn'.pc = "call" /\ turn'.s = session /\ turn'.exp = turn.cmd.exp
    BY <1>1, <1>2, SuspendMove
<1>4. Asking'
    BY <1>1, <1>3
    DEF Asking, SameReview, Expectations, CInv, Settled
<1>5. CloneIsKnown'
    BY <1>3, <1>4 DEF CloneIsKnown
<1> QED
    BY <1>3, <1>5 DEF Moves

\* The body of an action or a reply, run on a clone that is the session.
LEMMA BodyMoves ==
    ASSUME CInv, Live, turn.cmd.op \in {"reply", "action"}, UNCHANGED made,
           turn.s = session, NEW pf, NEW ct,
           Conclude(turn, Outcome(turn.cmd, turn.s), pf, ct)
    PROVE  Moves
<1> DEFINE o == Outcome(turn.cmd, turn.s)
<1>1. /\ turn \in Turns /\ session \in Sessions /\ turn.cmd \in Bodies
      /\ turn.gen = session.gen
    BY LiveClone
<1>2. /\ o.step = "ask" =>
           /\ o.exp \in Expectations
           /\ SameReview(session, o.s)
           /\ GoalAgrees(o.s)
           /\ o.exp = "GoalLoop" => ~o.s.paused
           /\ o.exp = "GoalWhy" =>
                /\ session.state \in {"PatchShown", "PatchExplained"}
                /\ "why" \in ClientActions
      /\ o.step # "ask" => BodyMove(session, o.s)
    BY <1>1, BodyShape DEF CInv, CommandIsSent, Settled
<1>3. CASE o.step = "ask"
    <2> DEFINE t == [turn EXCEPT !.exp = o.exp]
    <2>1. Suspend(t, "call", o.s, pf, ct)
        BY <1>3 DEF Conclude
    <2>2. t \in Turns /\ t.cmd = turn.cmd /\ t.exp = o.exp
        BY <1>1, <1>2, <1>3 DEF Turns
    <2> HIDE DEF o
    <2>3. /\ session' = session /\ LocalMove /\ CommandIsSent'
          /\ turn'.pc = "call" /\ turn'.s = o.s /\ turn'.exp = o.exp
        BY <2>1, <2>2, SuspendMove
    <2>4. Asking'
        BY <1>2, <1>3, <2>3 DEF Asking, UnderReview, SameReview
    <2>5. CloneIsKnown'
        BY <2>3, <2>4 DEF CloneIsKnown
    <2> QED
        BY <2>3, <2>5 DEF Moves
<1>4. CASE o.step # "ask"
    <2>1. Finish(turn, o.s, o.step = "done", o.card, pf, ct)
        BY <1>4 DEF Conclude
    <2> HIDE DEF o
    <2>2. session' = o.s /\ CloneIsKnown' /\ CommandIsSent'
        BY <1>1, <2>1, FinishMove
    <2> QED
        BY <1>2, <1>4, <2>2 DEF Moves, LocalMove
<1> QED
    BY <1>3, <1>4

LEMMA CancelAcceptMoves ==
    ASSUME CInv, Live, turn.cmd.op \in {"reply", "action"}, UNCHANGED made,
           turn.s = session, CancelAccept(turn)
    PROVE  Moves
<1>1. CASE Suspend(turn, "cancelAccept", turn.s, NoSpec, NoSpec)
    BY <1>1, WaitMove DEF Moves, CloneIsKnown
<1>2. CASE Conclude(turn, Outcome(turn.cmd, turn.s), NoSpec, NoSpec)
    BY <1>2, BodyMoves
<1> QED
    BY <1>1, <1>2 DEF CancelAccept

LEMMA ActionMoves ==
    ASSUME CInv,
           PlainAction \/ AbandoningTurn \/ GoalCancelled \/ AcceptCancelled
    PROVE  Moves
<1>1. /\ Live /\ turn.cmd.op \in {"reply", "action"} /\ UNCHANGED made
      /\ turn.s = session
    BY DEF PlainAction, AbandoningTurn, GoalCancelled, AcceptCancelled, Live,
           Unshown, CInv, IInv, CommandIsComplete, CloneIsKnown
<1>2. CASE AbandoningTurn
    <2>1. CASE Suspend(turn, "cancelGoal", turn.s, prefetch, NoSpec)
        BY <1>1, <2>1, WaitMove DEF Moves, CloneIsKnown
    <2> QED
        BY <1>1, <1>2, <2>1, CancelAcceptMoves DEF AbandoningTurn
<1>3. CASE PlainAction \/ AcceptCancelled
    BY <1>1, <1>3, BodyMoves DEF PlainAction, AcceptCancelled
<1>4. CASE GoalCancelled
    BY <1>1, <1>4, CancelAcceptMoves DEF GoalCancelled
<1> QED
    BY <1>2, <1>3, <1>4

LEMMA AnswerMoves == ASSUME CInv, Answer PROVE Moves
<1>1. Live /\ turn.pc = "call"
    BY DEF Answer, Live
<1>2. PICK r \in Answers(turn.exp) :
          LET s == AcceptResponse(turn.s, r, turn.exp, made)
          IN  /\ made + r.hunks <= MaxProposals
              /\ made' = made + r.hunks
              /\ Finish(turn, s, TRUE, s.last, prefetch, continuation)
    BY DEF Answer
<1> DEFINE s == AcceptResponse(turn.s, r, turn.exp, made)
<1>3. session' = s /\ CloneIsKnown' /\ CommandIsSent'
    BY <1>1, <1>2, LiveClone, FinishMove
<1>4. AnswerMove
    BY <1>1, <1>2, <1>3 DEF AnswerMove
<1> QED
    BY <1>3, <1>4 DEF Moves
-----------------------------------------------------------------------------
\* A report is on the committed session.
LEMMA ReportClone ==
    ASSUME CInv, Applying
    PROVE  /\ Live /\ turn.s = session /\ turn \in Turns
           /\ session \in Sessions /\ turn.gen = session.gen
           /\ Accepting \/ Rejecting => Reviewed(session) /\ Deciding
<1>1. Live /\ turn.s = session
    BY DEF Applying, Live, CInv, CloneIsKnown
<1> QED
    BY <1>1, LiveClone 
    DEF Accepting, Rejecting, Applying, Reviewable, Reviewed, Deciding

LEMMA ReportRefusedMoves == ASSUME CInv, ReportRefused PROVE Moves
<1>1. /\ turn.s = session /\ turn \in Turns /\ turn.gen = session.gen
      /\ UNCHANGED made
    BY ReportClone DEF ReportRefused, Unshown
<1>2. session' = session /\ CloneIsKnown' /\ CommandIsSent'
    BY <1>1, FinishMove DEF ReportRefused
<1> QED
    BY <1>1, <1>2 DEF Moves, LocalMove, BodyMove

\* A report that ends its turn with t, whatever becomes of the speculation.
LEMMA ReportEnds ==
    ASSUME CInv, Live, Deciding, UNCHANGED made, NEW t,
           ReportMove(session, t),
           NEW ok, NEW card, NEW pf, NEW ct, Finish(turn, t, ok, card, pf, ct)
    PROVE  Moves
<1>1. session' = t /\ CloneIsKnown' /\ CommandIsSent'
    BY LiveClone, FinishMove
<1> QED
    BY <1>1 DEF Moves, LocalMove

LEMMA AcceptShowsNextMoves == ASSUME CInv, AcceptShowsNext PROVE Moves
<1> DEFINE s == ShowNext(Recorded(session))
<1>1. /\ Live /\ Deciding /\ UNCHANGED made
      /\ Reviewed(session) /\ session.queue # <<>>
      /\ Finish(turn, s, TRUE, s.last, prefetch, continuation)
    BY ReportClone DEF AcceptShowsNext, Accepting, Unshown
<1>2. ReportMove(session, s)
    BY <1>1 DEF ReportMove
<1> QED
    BY <1>1, <1>2, ReportEnds

LEMMA AcceptCompletesGoalMoves ==
    ASSUME CInv, AcceptCompletesGoal
    PROVE  Moves
<1> DEFINE s == Closed(session)
           c == CompleteGoal(s)
<1>1. /\ Live /\ Deciding /\ UNCHANGED made /\ Reviewed(session)
      /\ session.queue = <<>> /\ session.last.complete
      /\ \/ Suspend(turn, "complete", s, NoSpec, continuation)
         \/ \E pf \in {prefetch, NoSpec} :
                Finish(turn, c, TRUE, c.last, pf, continuation)
    <2>1. /\ Live /\ turn.s = session /\ Accepting
          /\ Reviewed(session) /\ Deciding
        BY ReportClone DEF AcceptCompletesGoal, Accepting
    <2> QED
        BY <2>1 DEF AcceptCompletesGoal, Unshown, Closed
<1>2. ReportMove(session, c)
    BY <1>1 DEF ReportMove
<1>3. CASE Suspend(turn, "complete", s, NoSpec, continuation)
    <2>1. /\ session' = session /\ LocalMove /\ CommandIsSent'
          /\ turn'.pc = "complete" /\ turn'.s = s /\ turn'.cmd = turn.cmd
        BY <1>1, <1>3, WaitMove
    <2>2. CloneIsKnown'
        BY <1>1, <2>1 DEF CloneIsKnown, Deciding
    <2> QED
        BY <2>1, <2>2 DEF Moves
<1> QED
    BY <1>1, <1>2, <1>3, ReportEnds

LEMMA CompletionCancelledMoves ==
    ASSUME CInv, CompletionCancelled
    PROVE  Moves
<1> DEFINE c == CompleteGoal(Closed(session))
<1>1. /\ Live /\ Deciding /\ UNCHANGED made /\ ReportMove(session, c)
      /\ Finish(turn, c, TRUE, c.last, prefetch, continuation)
    BY DEF CompletionCancelled, Unshown, Live, Deciding, CInv, CloneIsKnown,
           ReportMove
<1> QED
    BY <1>1, ReportEnds

LEMMA AcceptContinuesMoves == ASSUME CInv, AcceptContinues PROVE Moves
<1> DEFINE a == [Closed(session) EXCEPT !.state = "CardShown"]
           s == NextGeneration(a)
           u == [a EXCEPT !.gen = s.gen, !.state = "Thinking"]
<1>1. /\ turn.s = session /\ turn \in Turns /\ session \in Sessions
      /\ turn.gen = session.gen /\ Reviewed(session) /\ UNCHANGED made
      /\ session.queue = <<>> /\ ~session.last.complete /\ Live /\ Deciding
    BY ReportClone DEF AcceptContinues, Accepting, Unshown
<1>2. AfterAccept(turn) = a
    BY <1>1 DEF AfterAccept, Closed
<1>3. session' = s /\ turn'.s = u /\ turn'.exp = "GoalLoop"
      /\ turn'.pc \in {"take", "call"} /\ turn'.cmd = turn.cmd
    BY <1>1, <1>2 DEF AcceptContinues, Commit, Turns
<1>4. Closed(session) \in Sessions
    BY <1>1, RecordedType DEF Reviewed, Closed, Sessions
<1>5. SameReview(s, u) /\ ~u.paused /\ u.active
    BY <1>1, <1>4 DEF Closed, Recorded, SameReview, NextGeneration, Sessions
<1>6. Asking'
    BY <1>3, <1>5 DEF Asking, GoalAgrees, Expectations
<1>7. CloneIsKnown' /\ CommandIsSent'
    BY <1>1, <1>3, <1>6 DEF CloneIsKnown, CommandIsSent, CInv
<1>8. LocalMove
    BY <1>1, <1>3 DEF LocalMove, ReportMove
<1> QED
    BY <1>7, <1>8 DEF Moves

LEMMA SpeculationTakenMoves == ASSUME CInv, SpeculationTaken PROVE Moves
<1>1. Live /\ turn \in Turns /\ UNCHANGED <<session, made>> /\ Asking
    BY LiveClone DEF SpeculationTaken, Unshown, Live, CInv, CloneIsKnown
<1>2. turn'.pc = "call" /\ turn'.s = turn.s /\ turn'.exp = turn.exp
      /\ turn'.cmd = turn.cmd
    BY <1>1 DEF SpeculationTaken, Turns
<1>3. Asking'
    BY <1>1, <1>2 DEF Asking, SameReview, GoalAgrees, UnderReview
<1>4. CloneIsKnown' /\ CommandIsSent'
    BY <1>1, <1>2, <1>3 DEF CloneIsKnown, CommandIsSent, CInv
<1>5. LocalMove
    BY <1>1 DEF LocalMove, BodyMove
<1> QED
    BY <1>4, <1>5 DEF Moves

LEMMA RejectGoalMoves ==
    ASSUME CInv, Live, Deciding, UNCHANGED made, Reviewed(session),
           RejectGoal(turn, Declined(session))
    PROVE  Moves
<1> DEFINE c == Rejected(Declined(session))
<1>1. ReportMove(session, c)
    BY DEF ReportMove
<1>2. CASE Suspend(turn, "rejectGoal", Declined(session), NoSpec, NoSpec)
    <2>1. /\ session' = session /\ LocalMove /\ CommandIsSent'
          /\ turn'.pc = "rejectGoal" /\ turn'.s = Declined(session)
          /\ turn'.cmd = turn.cmd
        BY <1>2, WaitMove
    <2> QED
        BY <2>1 DEF Moves, CloneIsKnown, Deciding
<1>3. CASE Finish(turn, c, TRUE, c.last, NoSpec, NoSpec)
    BY <1>1, <1>3, ReportEnds
<1> QED
    BY <1>2, <1>3 DEF RejectGoal

LEMMA RejectMoves ==
    ASSUME CInv, RejectDraft \/ RejectAcceptCancelled \/ RejectGoalCancelled
    PROVE  Moves
<1>1. CASE RejectDraft
    <2>1. /\ Live /\ Deciding /\ UNCHANGED made /\ Reviewed(session)
          /\ \/ Suspend(turn, "rejectAccept", Declined(session), NoSpec,
                        continuation)
             \/ RejectGoal(turn, Declined(session))
        <3>1. /\ Live /\ turn.s = session /\ Rejecting
              /\ Reviewed(session) /\ Deciding
            BY <1>1, ReportClone DEF RejectDraft, Rejecting
        <3> QED
            BY <1>1, <3>1 DEF RejectDraft, Unshown, Declined
    <2>2. CASE Suspend(turn, "rejectAccept", Declined(session), NoSpec,
                       continuation)
        <3>1. /\ session' = session /\ LocalMove /\ CommandIsSent'
              /\ turn'.pc = "rejectAccept" /\ turn'.s = Declined(session)
              /\ turn'.cmd = turn.cmd
            BY <2>1, <2>2, WaitMove
        <3> QED
            BY <2>1, <3>1 DEF Moves, CloneIsKnown, Deciding
    <2> QED
        BY <2>1, <2>2, RejectGoalMoves
<1>2. CASE RejectAcceptCancelled
    <2>1. /\ Live /\ Deciding /\ UNCHANGED made /\ Reviewed(session)
          /\ RejectGoal(turn, Declined(session))
        BY <1>2 DEF RejectAcceptCancelled, Unshown, Live, Deciding, CInv,
                    CloneIsKnown
    <2> QED
        BY <2>1, RejectGoalMoves
<1>3. CASE RejectGoalCancelled
    <2> DEFINE c == Rejected(Declined(session))
    <2>1. /\ Live /\ Deciding /\ UNCHANGED made /\ ReportMove(session, c)
          /\ Finish(turn, c, TRUE, c.last, prefetch, continuation)
        BY <1>3 DEF RejectGoalCancelled, Unshown, Live, Deciding, CInv,
                    CloneIsKnown, ReportMove
    <2> QED
        BY <2>1, ReportEnds
<1> QED
    BY <1>1, <1>2, <1>3
-----------------------------------------------------------------------------
LEMMA ServeMoves ==
    ASSUME CInv, NEW cmd \in Commands, Serve(cmd), cmd.op # "start",
           cmd.op = "reply" => cmd.exp \in Replies,
           cmd.op = "action" => cmd.action \in ClientActions
    PROVE  Moves
<1>1. /\ session' = NextGeneration(session) /\ UNCHANGED made
      /\ turn' = Spawn(cmd, NextGeneration(session))
    BY DEF Serve
<1>2. turn'.pc = "queued" /\ turn'.cmd = cmd /\ turn'.s = session'
    BY <1>1 DEF Spawn
<1>3. CloneIsKnown' /\ CommandIsSent'
    BY <1>2 DEF CloneIsKnown, CommandIsSent
<1> QED
    BY <1>1, <1>3 DEF Moves, LocalMove, LoopMove

LEMMA RequestMoves == ASSUME CInv, Request PROVE Moves
<1>1. CASE ActionRequest
    <2>1. PICK a \in ClientActions \ {"cancel_turn"} :
              Serve([Command("action") EXCEPT !.action = a])
        BY <1>1 DEF ActionRequest
    <2> DEFINE cmd == [Command("action") EXCEPT !.action = a]
    <2>2. cmd \in Commands /\ cmd.op = "action" /\ cmd.action = a
        BY CommandType, EngineAssumption DEF Commands, Command
    <2> QED
        BY <2>1, <2>2, ServeMoves
<1>2. CASE ReplyRequest
    <2>1. PICK e \in Replies : Serve([Command("reply") EXCEPT !.exp = e])
        BY <1>2 DEF ReplyRequest
    <2> DEFINE cmd == [Command("reply") EXCEPT !.exp = e]
    <2>2. cmd \in Commands /\ cmd.op = "reply" /\ cmd.exp = e
        BY CommandType, EngineAssumption DEF Commands, Command, Expectations
    <2> QED
        BY <2>1, <2>2, ServeMoves
<1>3. CASE ApplyReport
    <2>1. PICK card \in Reportable, accepted \in BOOLEAN :
              Serve([Command("apply") EXCEPT !.card = card,
                                             !.accepted = accepted])
        BY <1>3 DEF ApplyReport
    <2> DEFINE cmd == [Command("apply") EXCEPT !.card = card,
                                               !.accepted = accepted]
    <2>2. card \in Cards
        BY DEF Reportable, CInv, IInv, TypeOK, Views
    <2>3. cmd \in Commands /\ cmd.op = "apply"
        BY <2>2, CommandType DEF Commands, Command
    <2> QED
        BY <2>1, <2>3, ServeMoves
<1>4. CASE CancelRequest
    <2>1. /\ session' = NextGeneration(Cancelled(session)) /\ UNCHANGED made
          /\ ~Live'
        BY <1>4, NoTurnType DEF CancelRequest, Live
    <2> QED
        BY <2>1, NoClone DEF Moves, LocalMove, LoopMove
<1>5. CASE StopRequest
    <2> DEFINE s == NextGeneration(session)
    <2>1. /\ session' = ActionOutcome(s, "stop").s /\ UNCHANGED made
          /\ ~Live'
        BY <1>5, NoTurnType DEF StopRequest, Live
    <2>2. Prepared(s, "stop") = s
        BY DEF Prepared, Redrafts
    <2>3. session' \in {s, Stopped(s)}
        BY <2>1, <2>2 DEF ActionOutcome, Fail, Done, Stopped
    <2> QED
        BY <2>1, <2>3, NoClone DEF Moves, LocalMove, LoopMove
<1> QED
    BY <1>1, <1>2, <1>3, <1>4, <1>5 DEF Request

\* The speculation, the deadline and the notifier leave session and clone.
LEMMA OtherMoves ==
    ASSUME CInv, \/ SpeculationEnds \/ Return \/ Yield \/ WriteWorking
                 \/ Ready \/ UNCHANGED vars
    PROVE  Moves
<1>1. UNCHANGED <<session, made>>
    BY DEF SpeculationEnds, Return, Yield, WriteWorking, Ready, vars
<1>2. UNCHANGED turn \/ ~Live'
    BY NoTurnType
    DEF SpeculationEnds, Return, Yield, WriteWorking, Ready, vars, Live
<1>3. CASE UNCHANGED turn
    BY <1>1, <1>3
    DEF Moves, LocalMove, BodyMove, CInv, CloneIsKnown, CommandIsSent, Live,
        Asking, SameReview, GoalAgrees, UnderReview
<1> QED
    BY <1>1, <1>2, <1>3, NoClone DEF Moves, LocalMove, BodyMove

LEMMA NextMoves == CInv /\ [Next]_vars => Moves
<1> SUFFICES ASSUME CInv, [Next]_vars PROVE Moves
    OBVIOUS
<1>1. CASE TurnStep
    BY <1>1, StartTurnMoves, ActionMoves, AnswerMoves, ReportRefusedMoves,
       AcceptShowsNextMoves, AcceptCompletesGoalMoves,
       CompletionCancelledMoves, AcceptContinuesMoves, SpeculationTakenMoves,
       RejectMoves DEF TurnStep
<1>2. CASE Request
    BY <1>2, RequestMoves
<1> QED
    BY <1>1, <1>2, OtherMoves DEF Next
-----------------------------------------------------------------------------
(***************************************************************************)
(* Every move keeps the session settled and its review in order            *)
(***************************************************************************)
LEMMA GenerationKeeps ==
    ASSUME NEW s \in Sessions, NEW m \in Nat
    PROVE  /\ NextGeneration(s) \in Sessions
           /\ Settled(s) => Settled(NextGeneration(s))
           /\ InReview(s, m) => InReview(NextGeneration(s), m)
<1> DEFINE t == NextGeneration(s)
<1>1. t \in Sessions
    BY DEF NextGeneration, Sessions
<1>2. /\ t.state = s.state /\ t.last = s.last /\ t.draft = s.draft
      /\ t.queue = s.queue /\ t.batch = s.batch /\ t.goal = s.goal
      /\ t.active = s.active /\ t.paused = s.paused
      /\ t.accepted = s.accepted /\ t.steps = s.steps /\ t.refused = s.refused
    BY DEF NextGeneration, Sessions
<1> QED
    BY <1>1, <1>2
    DEF Settled, GoalAgrees, InReview, DraftIsKnown, Decided,
        DecidedIsNotPending, UnderReview, QueueFollowsTheDraft

LEMMA BodyKeeps ==
    ASSUME NEW s \in Sessions, NEW m \in Nat, NEW t, BodyMove(s, t)
    PROVE  /\ Settled(s) => Settled(t)
           /\ InReview(s, m) => InReview(t, m)
<1>1. CASE t = GoalOn(s)
    <2>1. /\ t.state = s.state /\ t.last = s.last /\ t.draft = s.draft
          /\ t.queue = s.queue /\ t.batch = s.batch
          /\ t.accepted = s.accepted /\ t.steps = s.steps
          /\ t.refused = s.refused /\ ~t.paused
        BY <1>1 DEF GoalOn, Sessions
    <2> QED
        BY <2>1
        DEF Settled, GoalAgrees, InReview, DraftIsKnown, Decided,
            DecidedIsNotPending, UnderReview, QueueFollowsTheDraft
<1>2. CASE t = Stopped(s)
    <2>1. /\ t.state = "Finished" /\ t.last = StopCard /\ t.draft = s.draft
          /\ t.queue = s.queue /\ t.batch = s.batch
          /\ t.accepted = s.accepted /\ t.steps = s.steps
          /\ t.refused = s.refused /\ t.active = s.active
          /\ t.paused = s.paused /\ t.goal = "Stopped"
        BY <1>2 DEF Stopped, Push, StopCard, PlainCard, Sessions
    <2> QED
        BY <2>1
        DEF Settled, GoalAgrees, InReview, DraftIsKnown, Decided, StopCard,
            PlainCard, DecidedIsNotPending, UnderReview, QueueFollowsTheDraft
<1>3. CASE /\ s.state = "PatchExplained" /\ s.draft # NoCard
           /\ t = Resumed(s)
    <2>1. /\ t.state = "PatchShown" /\ t.last = s.draft /\ t.draft = s.draft
          /\ t.queue = s.queue /\ t.batch = s.batch
          /\ t.accepted = s.accepted /\ t.steps = s.steps
          /\ t.refused = s.refused /\ t.active = s.active
          /\ t.paused = s.paused /\ t.goal = s.goal
        BY <1>3 DEF Resumed, Push, Sessions
    <2> QED
        BY <1>3, <2>1
        DEF Settled, GoalAgrees, InReview, DraftIsKnown, Decided,
            DecidedIsNotPending, UnderReview, QueueFollowsTheDraft
<1> QED
    BY <1>1, <1>2, <1>3 DEF BodyMove

\* The fields of a session whose shown patch was accepted, or rejected.
LEMMA ReportFields ==
    ASSUME NEW s \in Sessions, Reviewed(s)
    PROVE  /\ Closed(s) \in Sessions /\ Recorded(s) \in Sessions
           /\ Recorded(s).queue = s.queue /\ Recorded(s).batch = s.batch
           /\ \A t \in {Recorded(s), Closed(s)} :
                /\ t.last = s.last /\ t.draft = s.draft
                /\ t.accepted = s.accepted \cup {s.last.label}
                /\ t.steps = s.steps \cup {s.last.no}
                /\ t.refused = s.refused
                /\ t.active /\ ~t.paused /\ t.goal = "Active"
           /\ Closed(s).queue = s.queue
<1>1. s.last.no \in 0..MaxProposals /\ s.last.label \in Labels
    BY DEF Reviewed, Sessions, Cards
<1> QED
    BY ZenonT(60), <1>1 DEF Recorded, Closed, Sessions

LEMMA ShowNextKeeps ==
    ASSUME NEW s \in Sessions, NEW m \in Nat, Reviewed(s), s.queue # <<>>,
           NEW t, t = ShowNext(Recorded(s))
    PROVE  /\ Settled(t)
           /\ InReview(s, m) => InReview(t, m)
<1> DEFINE r == Recorded(s)
           c == Head(s.queue)
<1>1. /\ r \in Sessions /\ r.queue = s.queue /\ r.batch = s.batch
      /\ r.draft = s.draft /\ r.refused = s.refused
      /\ r.steps = s.steps \cup {s.last.no}
      /\ ~r.paused
    BY ReportFields
<1>2. s.queue \in Seq(Cards)
    BY DEF Sessions
<1> HIDE DEF r
<1>3. /\ t.state = "PatchShown" /\ t.last = c
      /\ t.queue = Tail(s.queue) /\ t.batch = s.batch
      /\ t.draft = IF c.kind = "patch" THEN c ELSE s.draft
      /\ t.steps = s.steps \cup {s.last.no}
      /\ t.refused = s.refused /\ ~t.paused
    BY <1>1 DEF ShowNext, Push, Sessions, r
<1>4. Settled(t)
    BY <1>3 DEF Settled, GoalAgrees
<1>5. ASSUME InReview(s, m)
      PROVE  InReview(t, m)
    <2> DEFINE d == s.draft.no
               q == s.queue
    <2>1. /\ s.last = s.draft /\ s.draft # NoCard /\ d \in 1..m
          /\ Decided(s) \subseteq 1..m
          /\ q # <<>> /\ s.batch
          /\ \A i \in 1..Len(q) :
                /\ q[i].kind = "patch" /\ q[i].no = d + i /\ q[i].no <= m
                /\ q[i].no \notin Decided(s)
        BY <1>5
        DEF InReview, DraftIsKnown, QueueFollowsTheDraft, DecidedIsNotPending,
            UnderReview, Reviewed
    <2>2. Decided(t) = Decided(s) \cup {d}
        BY <1>3, <2>1 DEF Decided
    <2>3. /\ Len(q) \in Nat /\ Len(q) >= 1 /\ c = q[1]
          /\ Len(Tail(q)) = Len(q) - 1
          /\ \A i \in 1..Len(Tail(q)) : Tail(q)[i] = q[i + 1]
        BY <1>2, <2>1, HeadTailProperties, LenProperties
    <2>4. /\ c.kind = "patch" /\ c.no = d + 1 /\ c.no \in 1..m
          /\ c.no \notin Decided(t)
        <3>1. 1 \in 1..Len(q)
            BY <2>3
        <3> QED
            BY <2>1, <2>2, <2>3, <3>1
    <2>5. t.draft = c /\ c # NoCard
        BY <1>3, <2>4 DEF NoCard, PlainCard
    <2>6. DraftIsKnown(t, m)
        BY <1>3, <2>1, <2>2, <2>4, <2>5 DEF DraftIsKnown
    <2>7. DecidedIsNotPending(t)
        BY <2>4, <2>5 DEF DecidedIsNotPending, Decided
    <2>8. ASSUME NEW i \in 1..Len(t.queue)
          PROVE  /\ t.queue[i].kind = "patch"
                 /\ t.queue[i].no = c.no + i /\ t.queue[i].no <= m
                 /\ t.queue[i].no \notin Decided(t)
        <3>1. i + 1 \in 1..Len(q) /\ t.queue[i] = q[i + 1]
            BY <1>3, <2>3
        <3>2. /\ q[i + 1].kind = "patch" /\ q[i + 1].no = d + (i + 1)
              /\ q[i + 1].no <= m /\ q[i + 1].no \notin Decided(s)
            BY <2>1, <3>1
        <3>3. d + (i + 1) # d /\ d + (i + 1) = c.no + i
            BY SMTT(30), <2>1, <2>4
        <3> QED
            BY <2>2, <3>1, <3>2, <3>3
    <2>9. QueueFollowsTheDraft(t, m)
        BY <1>3, <2>1, <2>5, <2>8 DEF QueueFollowsTheDraft
    <2> QED
        BY <2>6, <2>7, <2>9 DEF InReview
<1> QED
    BY <1>4, <1>5

\* A report that closes the review leaves no queue and no draft pending.
LEMMA CloseKeeps ==
    ASSUME NEW s \in Sessions, NEW m \in Nat, Reviewed(s), InReview(s, m),
           NEW t, t.queue = <<>>, ~UnderReview(t), t.draft = s.draft,
           \/ /\ t.steps = s.steps \cup {s.last.no} /\ t.refused = s.refused
              /\ t.accepted = s.accepted \cup {s.last.label}
              /\ t.last.kind = "patch" => t.last = s.last
           \/ /\ t.refused = s.refused \cup {s.last.no} /\ t.steps = s.steps
              /\ t.last.kind # "patch"
    PROVE  InReview(t, m)
<1>1. /\ s.last = s.draft /\ s.draft # NoCard /\ s.draft.kind = "patch"
      /\ s.draft.no \in 1..m /\ s.draft.no \notin Decided(s)
      /\ Decided(s) \subseteq 1..m
    BY DEF InReview, DraftIsKnown, DecidedIsNotPending, UnderReview, Reviewed
<1>2. Decided(t) = Decided(s) \cup {s.draft.no}
    BY <1>1 DEF Decided
<1>3. DraftIsKnown(t, m)
    BY <1>1, <1>2 DEF DraftIsKnown
<1>4. DecidedIsNotPending(t)
    BY <1>1 DEF DecidedIsNotPending, Decided
<1> QED
    BY <1>3, <1>4 DEF InReview, QueueFollowsTheDraft

LEMMA ReportKeeps ==
    ASSUME NEW s \in Sessions, NEW m \in Nat, NEW t, ReportMove(s, t)
    PROVE  /\ Settled(s) => Settled(t)
           /\ InReview(s, m) => InReview(t, m)
<1>1. /\ Reviewed(s) /\ Closed(s) \in Sessions
      /\ Closed(s).last = s.last /\ Closed(s).draft = s.draft
      /\ Closed(s).accepted = s.accepted \cup {s.last.label}
      /\ Closed(s).steps = s.steps \cup {s.last.no}
      /\ Closed(s).refused = s.refused /\ Closed(s).queue = s.queue
      /\ Closed(s).active /\ ~Closed(s).paused
    BY ReportFields DEF ReportMove
<1>2. CASE s.queue # <<>> /\ t = ShowNext(Recorded(s))
    BY <1>1, <1>2, ShowNextKeeps
<1>3. CASE s.queue = <<>> /\ t = CompleteGoal(Closed(s))
    <2>1. /\ t.state = "Summary" /\ t.last.kind = "summary"
          /\ t.draft = s.draft /\ t.queue = <<>> /\ ~t.paused
          /\ t.accepted = s.accepted \cup {s.last.label}
          /\ t.steps = s.steps \cup {s.last.no} /\ t.refused = s.refused
        BY <1>1, <1>3 DEF CompleteGoal, Push, PlainCard, Sessions
    <2> QED
        BY <1>1, <2>1, CloseKeeps DEF Settled, GoalAgrees, UnderReview
<1>4. CASE /\ s.queue = <<>>
           /\ t = NextGeneration([Closed(s) EXCEPT !.state = "CardShown"])
    <2>1. /\ t.state = "CardShown" /\ t.last = s.last
          /\ t.draft = s.draft /\ t.queue = <<>> /\ ~t.paused
          /\ t.accepted = s.accepted \cup {s.last.label}
          /\ t.steps = s.steps \cup {s.last.no} /\ t.refused = s.refused
        BY <1>1, <1>4 DEF NextGeneration, Sessions
    <2> QED
        BY <1>1, <2>1, CloseKeeps DEF Settled, GoalAgrees, UnderReview
<1>5. CASE t = Rejected(Declined(s))
    <2>1. /\ t.state = IF s.active THEN "GoalLoopFailed" ELSE "PatchFailed"
          /\ t.last.kind = "error" /\ t.draft = s.draft /\ t.queue = <<>>
          /\ t.refused = s.refused \cup {s.last.no} /\ t.steps = s.steps
          /\ t.active = s.active /\ t.paused = s.paused /\ t.goal = s.goal
        BY <1>5 DEF Rejected, Declined, Push, PlainCard, Sessions
    <2> QED
        BY <1>1, <2>1, CloseKeeps DEF Settled, GoalAgrees, UnderReview
<1> QED
    BY <1>2, <1>3, <1>4, <1>5 DEF ReportMove

LEMMA CancelledKeeps ==
    ASSUME NEW s \in Sessions, NEW m \in Nat
    PROVE  /\ Cancelled(s) \in Sessions
           /\ Settled(s) => Settled(Cancelled(s))
           /\ InReview(s, m) => InReview(Cancelled(s), m)
<1> DEFINE p == Paused(s)
           k == ContinuationCancelledCard
           t == Cancelled(s)
<1>1. /\ p \in Sessions /\ p.last = s.last /\ p.draft = s.draft
      /\ p.queue = s.queue /\ p.batch = s.batch /\ p.accepted = s.accepted
      /\ p.steps = s.steps /\ p.refused = s.refused
      /\ GoalAgrees(s) => GoalAgrees(p)
    BY DEF Paused, Sessions, GoalAgrees
<1>2. k \in Cards /\ k.kind = "finding"
    BY PlainCardType
    DEF ContinuationCancelledCard, PlainCard, Kinds, Actions
<1> HIDE DEF p, k
<1>3. CASE AlreadyAccepted(s)
    <2>1. /\ t.state = "CardShown" /\ t.last = k /\ t.draft = s.draft
          /\ t.queue = s.queue /\ t.batch = s.batch
          /\ t.accepted = s.accepted /\ t.steps = s.steps
          /\ t.refused = s.refused
          /\ GoalAgrees(s) => GoalAgrees(t)
        BY SMTT(30), <1>1, <1>2, <1>3 DEF Cancelled, Push, Sessions, GoalAgrees, p, k
    <2>2. t \in Sessions
        BY SMTT(30), <1>1, <1>2, <1>3, PushType
        DEF Cancelled, Sessions, States, p, k
    <2> QED
        BY <1>2, <2>1, <2>2
        DEF Settled, InReview, DraftIsKnown, Decided, DecidedIsNotPending,
            UnderReview, QueueFollowsTheDraft
<1>4. CASE ~AlreadyAccepted(s)
    <2> DEFINE st == FromCard(s.last.kind)
    <2>1. st \in States
        BY StateAfterCardType
    <2>2. /\ st \notin {"Thinking", "GoalLoopFailed", "PatchExplained"}
          /\ st = "PatchShown" <=> s.last.kind = "patch"
        BY DEF FromCard
    <2> HIDE DEF st
    <2>3. /\ t.state = st /\ t.last = s.last /\ t.draft = s.draft
          /\ t.queue = s.queue /\ t.batch = s.batch
          /\ t.accepted = s.accepted /\ t.steps = s.steps
          /\ t.refused = s.refused
          /\ GoalAgrees(s) => GoalAgrees(t)
        BY <1>1, <1>4, <2>1 DEF Cancelled, Sessions, GoalAgrees, p, st
    <2>4. t \in Sessions
        BY <1>1, <1>4, <2>1 DEF Cancelled, Sessions, p, st
    <2>5. Settled(s) => Settled(t)
        BY <2>2, <2>3 DEF Settled
    <2>6. ASSUME InReview(s, m), UnderReview(t)
          PROVE  s.draft # NoCard /\ s.draft.no \notin Decided(s)
        <3>1. s.last.kind = "patch" /\ s.last = s.draft
            BY <2>2, <2>3, <2>6 DEF UnderReview, InReview, DraftIsKnown
        <3>2. ~(Patches(s.last) \subseteq s.accepted)
            BY <1>4, <2>2, <3>1 DEF AlreadyAccepted, st
        <3>3. s.draft.no \notin s.steps
            BY <2>6, <3>1, <3>2 DEF Patches, InReview, DecidedIsNotPending
        <3> QED
            BY <2>6, <3>1, <3>3
            DEF Decided, InReview, DecidedIsNotPending, NoCard, PlainCard
    <2>7. InReview(s, m) => InReview(t, m)
        BY <2>3, <2>6
        DEF InReview, DraftIsKnown, Decided, DecidedIsNotPending,
            QueueFollowsTheDraft
    <2> QED
        BY <2>4, <2>5, <2>7
<1> QED
    BY <1>3, <1>4

LEMMA LoopKeeps ==
    ASSUME NEW s \in Sessions, NEW m \in Nat, NEW t, LoopMove(s, t)
    PROVE  /\ Settled(s) => Settled(t)
           /\ InReview(s, m) => InReview(t, m)
<1>1. CASE t = Stopped(NextGeneration(s))
    <2> DEFINE g == NextGeneration(s)
    <2>1. BodyMove(g, t)
        BY <1>1 DEF BodyMove
    <2> HIDE DEF g
    <2>2. g \in Sessions /\ Settled(s) => Settled(g)
        BY GenerationKeeps DEF g
    <2> QED
        BY <2>1, BodyKeeps, GenerationKeeps DEF g
<1> QED
    BY <1>1, GenerationKeeps, CancelledKeeps DEF LoopMove
-----------------------------------------------------------------------------
(***************************************************************************)
(* The backend's answer                                                    *)
(***************************************************************************)
\* The cards of an answer are numbered in order, and wait in that order.
LEMMA ReviewCardsShape ==
    ASSUME NEW r \in PatchAnswers \cup FileOpAnswers, NEW base \in Nat,
           base + r.hunks <= MaxProposals,
           NEW cards, cards = ReviewCards(r, base)
    PROVE  /\ r.hunks \in Nat /\ r.hunks >= 1
           /\ cards \in Seq(Cards) /\ Len(cards) = r.hunks
           /\ \A i \in 1..r.hunks :
                /\ cards[i].kind = "patch" /\ cards[i].no = base + i
                /\ cards[i].offers = {"why"} /\ cards[i].fileop = r.fileop
                /\ cards[i].complete <=> (r.follow = "complete" /\ i = r.hunks)
           /\ Tail(cards) \in Seq(Cards) /\ Len(Tail(cards)) = r.hunks - 1
           /\ \A i \in 1..(r.hunks - 1) : Tail(cards)[i] = cards[i + 1]
<1>1. r.hunks \in Nat /\ r.hunks >= 1
    <2>1. r.hunks \in 1..MaxHunks \/ r.hunks = 1
        BY DEF PatchAnswers, FileOpAnswers
    <2> QED
        BY <2>1, EngineAssumption
<1>2. cards \in Seq(Cards) /\ Tail(cards) \in Seq(Cards)
    BY ReviewCardsType
<1>3. DOMAIN cards = 1..r.hunks
    BY DEF ReviewCards
<1>4. Len(cards) = r.hunks
    BY <1>1, <1>2, <1>3, LenProperties
<1>5. cards # <<>>
    BY <1>1, <1>4
<1>6. /\ Len(Tail(cards)) = r.hunks - 1
      /\ \A i \in 1..(r.hunks - 1) : Tail(cards)[i] = cards[i + 1]
    BY <1>2, <1>4, <1>5, HeadTailProperties
<1>7. ASSUME NEW i \in 1..r.hunks
      PROVE  /\ cards[i].kind = "patch" /\ cards[i].no = base + i
             /\ cards[i].offers = {"why"} /\ cards[i].fileop = r.fileop
             /\ cards[i].complete <=> (r.follow = "complete" /\ i = r.hunks)
    BY DEF ReviewCards
<1> QED
    BY <1>1, <1>2, <1>4, <1>6, <1>7

\* The cards of a patch are numbered from its first proposal on.
LEMMA ReviewCardsNumbered ==
    ASSUME NEW r \in PatchAnswers \cup FileOpAnswers, NEW base \in Nat,
           base + r.hunks <= MaxProposals,
           NEW cards, cards = ReviewCards(r, base)
    PROVE  /\ r.hunks >= 1 /\ Len(Tail(cards)) = r.hunks - 1
           /\ \A i \in 1..r.hunks : cards[i].no = base + i
           /\ \A i \in 1..(r.hunks - 1) : Tail(cards)[i] = cards[i + 1]
<1>1. r.hunks >= 1 /\ Len(Tail(cards)) = r.hunks - 1
    BY ReviewCardsShape
<1>2. \A i \in 1..r.hunks : cards[i].no = base + i
    BY ReviewCardsShape
<1>3. \A i \in 1..(r.hunks - 1) : Tail(cards)[i] = cards[i + 1]
    BY ReviewCardsShape
<1> QED
    BY <1>1, <1>2, <1>3

\* The session an answer leaves behind.
LEMMA AnswerFields ==
    ASSUME NEW s \in Sessions, NEW r \in BackendAnswers, NEW e,
           NEW base \in Nat, base + r.hunks <= MaxProposals,
           NEW t, t = AcceptResponse(s, r, e, base),
           NEW cards, cards = ReviewCards(r, base)
    PROVE  /\ t.state = StateAfterCard(r.kind, e)
           /\ t.goal = GoalAfter(s.goal, r.kind, e)
           /\ t.gen = s.gen /\ t.active = s.active /\ t.paused = s.paused
           /\ t.accepted = s.accepted
           /\ t.steps = s.steps /\ t.refused = s.refused
           /\ r.kind # "patch" =>
                /\ t.last = PlainCard(r.kind, AnswerOffers(r.kind, e))
                /\ t.draft = s.draft /\ t.queue = <<>>
                /\ ~t.batch /\ ~t.slice
           /\ r.kind = "patch" =>
                /\ r \in PatchAnswers \cup FileOpAnswers
                /\ t.last = cards[1] /\ t.draft = cards[1]
                /\ t.queue = Tail(cards)
                /\ t.batch <=> r.hunks > 1
                /\ t.slice <=> r.follow = "more"
<1> DEFINE q == Queued(s, r, cards)
           card == AnswerCard(r, e, base)
<1>1. r.kind = "patch" => r \in PatchAnswers \cup FileOpAnswers
    BY DEF BackendAnswers, PlainAnswer
<1>2. /\ q.goal = s.goal /\ q.gen = s.gen /\ q.active = s.active
      /\ q.paused = s.paused /\ q.accepted = s.accepted
      /\ q.steps = s.steps /\ q.refused = s.refused /\ q.draft = s.draft
      /\ r.kind # "patch" => q.queue = <<>> /\ ~q.batch /\ ~q.slice
      /\ r.kind = "patch" =>
           /\ q.queue = Tail(cards)
           /\ q.batch <=> r.hunks > 1
           /\ q.slice <=> r.follow = "more"
      /\ DOMAIN q = DOMAIN s
    BY DEF Queued, Sessions
<1>3. DOMAIN s = {"state", "gen", "last", "draft", "queue", "batch", "slice",
                  "goal", "active", "paused", "accepted", "steps", "refused"}
    BY DEF Sessions
<1>4. /\ r.kind # "patch" =>
             card = PlainCard(r.kind, AnswerOffers(r.kind, e))
      /\ r.kind = "patch" => card = cards[1] /\ card.kind = "patch"
    BY <1>1, ReviewCardsShape DEF AnswerCard
<1>5. card.kind = r.kind
    BY <1>4 DEF PlainCard
<1> HIDE DEF q, card
<1> DEFINE p == [q EXCEPT !.goal = GoalAfter(@, r.kind, e),
                          !.state = StateAfterCard(r.kind, e)]
<1>6. /\ p.goal = GoalAfter(s.goal, r.kind, e)
      /\ p.state = StateAfterCard(r.kind, e)
      /\ p.gen = q.gen /\ p.active = q.active /\ p.paused = q.paused
      /\ p.accepted = q.accepted /\ p.steps = q.steps
      /\ p.refused = q.refused /\ p.draft = q.draft /\ p.queue = q.queue
      /\ p.batch = q.batch /\ p.slice = q.slice
      /\ DOMAIN p = DOMAIN s
    BY <1>2, <1>3
<1>7. t = Push(p, card)
    BY DEF AcceptResponse, q, card
<1> HIDE DEF p
<1>8. /\ t.last = card /\ t.draft = IF r.kind = "patch" THEN card ELSE p.draft
      /\ t.goal = p.goal /\ t.state = p.state /\ t.gen = p.gen
      /\ t.active = p.active /\ t.paused = p.paused
      /\ t.accepted = p.accepted /\ t.steps = p.steps
      /\ t.refused = p.refused /\ t.queue = p.queue
      /\ t.batch = p.batch /\ t.slice = p.slice
    BY <1>3, <1>5, <1>6, <1>7 DEF Push
<1> QED
    BY <1>1, <1>2, <1>4, <1>6, <1>8

LEMMA StateAfterCardShape ==
    ASSUME NEW kind, NEW e
    PROVE  LET st == StateAfterCard(kind, e)
           IN  /\ st # "Thinking"
               /\ st = "PatchShown" => kind = "patch"
               /\ st = "PatchExplained" => kind # "patch" /\ e = "GoalWhy"
               /\ st = "GoalLoopFailed" => e = "GoalLoop"
               /\ kind = "patch" => st = "PatchShown"
BY DEF StateAfterCard, FromCard, Refused

\* A new batch is numbered from the first proposal not made yet; any other
\* answer leaves the draft as it was, under review only if it explains it.
LEMMA AnswerKeeps ==
    ASSUME NEW s \in Sessions, NEW c \in Sessions, NEW m \in Nat,
           SameReview(c, s), GoalAgrees(s), NEW e,
           e = "GoalLoop" => ~s.paused,
           e = "GoalWhy" => UnderReview(c) /\ "why" \in ClientActions,
           NEW r \in BackendAnswers, m + r.hunks <= MaxProposals,
           NEW t, t = AcceptResponse(s, r, e, m)
    PROVE  /\ Settled(t)
           /\ InReview(c, m) => InReview(t, m + r.hunks)
<1> DEFINE cards == ReviewCards(r, m)
           n == r.hunks
<1>1. /\ t.state = StateAfterCard(r.kind, e)
      /\ t.goal = GoalAfter(s.goal, r.kind, e)
      /\ t.active = s.active /\ t.paused = s.paused
      /\ t.accepted = s.accepted
      /\ t.steps = s.steps /\ t.refused = s.refused
      /\ r.kind # "patch" =>
           /\ t.last = PlainCard(r.kind, AnswerOffers(r.kind, e))
           /\ t.draft = s.draft /\ t.queue = <<>>
      /\ r.kind = "patch" =>
           /\ r \in PatchAnswers \cup FileOpAnswers
           /\ t.last = cards[1] /\ t.draft = cards[1]
           /\ t.queue = Tail(cards)
           /\ t.batch <=> r.hunks > 1
    BY AnswerFields
<1>2. /\ t.state # "Thinking"
      /\ t.state = "PatchShown" => r.kind = "patch"
      /\ t.state = "PatchExplained" => r.kind # "patch" /\ e = "GoalWhy"
      /\ t.state = "GoalLoopFailed" => e = "GoalLoop"
    BY <1>1, StateAfterCardShape
<1>3. GoalAgrees(t)
    BY <1>1 DEF GoalAgrees, GoalAfter
<1>4. Settled(t)
    BY <1>1, <1>2, <1>3 DEF Settled
<1>5. n \in Nat
    BY AnswerHunks
<1>6. ASSUME InReview(c, m), r.kind # "patch"
      PROVE  InReview(t, m + n)
    <2>1. /\ Decided(t) = Decided(c) /\ t.draft = c.draft
          /\ t.last.kind # "patch" /\ t.queue = <<>>
          /\ t.accepted = c.accepted /\ t.steps = c.steps
          /\ t.refused = c.refused
        BY <1>1, <1>6 DEF SameReview, Decided, PlainCard
    <2>2. \A k \in 1..m : k \in 1..(m + n)
        BY <1>5
    <2>3. UnderReview(t) => UnderReview(c)
        BY <1>2, <1>6 DEF UnderReview
    <2> HIDE DEF n
    <2> QED
        BY <1>6, <2>1, <2>2, <2>3
        DEF InReview, DraftIsKnown, DecidedIsNotPending, QueueFollowsTheDraft
<1>7. ASSUME InReview(c, m), r.kind = "patch"
      PROVE  InReview(t, m + n)
    <2>1. /\ n >= 1 /\ Len(Tail(cards)) = n - 1
          /\ \A i \in 1..n : cards[i].kind = "patch" /\ cards[i].no = m + i
          /\ \A i \in 1..(n - 1) : Tail(cards)[i] = cards[i + 1]
          /\ Tail(cards) \in Seq(Cards)
        BY <1>1, <1>7, ReviewCardsShape
    <2>2. t.last = cards[1] /\ t.draft = cards[1] /\ t.queue = Tail(cards)
        BY <1>1, <1>7
    <2>3. Decided(t) = Decided(c) /\ Decided(c) \subseteq 1..m
        BY <1>1, <1>7 DEF SameReview, Decided, InReview, DraftIsKnown
    <2>4. t.batch <=> n > 1
        BY <1>1, <1>7
    <2> HIDE DEF n, cards
    <2>5. /\ t.draft.kind = "patch" /\ t.draft.no = m + 1
          /\ m + 1 \in 1..(m + n) /\ m + 1 \notin Decided(t)
          /\ t.draft # NoCard
        BY <1>5, <2>1, <2>2, <2>3 DEF NoCard, PlainCard
    <2>6. DraftIsKnown(t, m + n)
        BY <1>5, <2>2, <2>3, <2>5 DEF DraftIsKnown
    <2>7. DecidedIsNotPending(t)
        BY <2>5 DEF DecidedIsNotPending, Decided
    <2>8. ASSUME NEW i \in 1..Len(t.queue)
          PROVE  /\ n > 1 /\ t.queue[i].kind = "patch"
                 /\ t.queue[i].no = t.draft.no + i
                 /\ t.queue[i].no <= m + n
                 /\ t.queue[i].no \notin Decided(t)
        <3>1. i \in 1..(n - 1) /\ i + 1 \in 1..n
            BY <1>5, <2>1, <2>2
        <3>2. t.queue[i].kind = "patch" /\ t.queue[i].no = m + (i + 1)
            BY <2>1, <2>2, <3>1
        <3>3. m + (i + 1) \notin 1..m /\ m + (i + 1) <= m + n
            BY <1>5, <3>1
        <3> QED
            BY <1>5, <2>3, <2>5, <3>1, <3>2, <3>3
    <2>9. t.queue # <<>> => n > 1
        BY <1>5, <2>1, <2>2
    <2> QED
        BY <2>4, <2>5, <2>6, <2>7, <2>8, <2>9
        DEF InReview, QueueFollowsTheDraft
<1> QED
    BY <1>4, <1>6, <1>7
-----------------------------------------------------------------------------
(***************************************************************************)
(* The invariant of the committed session                                  *)
(***************************************************************************)
SInv == CInv /\ InReview(session, made)

LEMMA InitSInv == Init => SInv
<1> SUFFICES ASSUME Init PROVE SInv
    OBVIOUS
<1>1. IInv
    BY InitIInv
<1>2. PICK e \in {"Patch", "Any"} :
          turn = Spawn([Command("start") EXCEPT !.exp = e], NewSession)
    BY DEF Init
<1>3. /\ turn.s = session /\ turn.pc = "queued" /\ turn.cmd.op = "start"
      /\ turn.cmd.exp \in {"Patch", "Any"}
    BY <1>2 DEF Init, Spawn, Command
<1>4. CommandIsSent /\ CloneIsKnown
    BY <1>3 DEF CommandIsSent, CloneIsKnown
<1>5. Settled(session)
    BY DEF Init, NewSession, Settled, GoalAgrees
<1>6. InReview(session, made)
    BY DEF Init, NewSession, InReview, DraftIsKnown, Decided, NoCard,
           PlainCard, DecidedIsNotPending, UnderReview, QueueFollowsTheDraft
<1> QED
    BY <1>1, <1>4, <1>5, <1>6 DEF SInv, CInv

LEMMA NextSInv == SInv /\ [Next]_vars => SInv'
<1> SUFFICES ASSUME SInv, [Next]_vars PROVE SInv'
    OBVIOUS
<1>1. IInv' /\ Moves
    BY NextIInv, NextMoves DEF SInv, CInv
<1>2. session \in Sessions /\ made \in Nat
    BY DEF SInv, CInv, IInv, TypeOK
<1>3. ASSUME LocalMove
      PROVE  Settled(session') /\ InReview(session', made')
    BY <1>2, <1>3, BodyKeeps, ReportKeeps, LoopKeeps
    DEF LocalMove, SInv, CInv
<1>4. ASSUME AnswerMove
      PROVE  Settled(session') /\ InReview(session', made')
    <2>1. /\ turn.s \in Sessions /\ Asking
        BY <1>4, LiveClone DEF AnswerMove, SInv, CInv, CloneIsKnown, Live
    <2>2. PICK r \in Answers(turn.exp) :
              /\ made + r.hunks <= MaxProposals
              /\ made' = made + r.hunks
              /\ session' = AcceptResponse(turn.s, r, turn.exp, made)
        BY <1>4 DEF AnswerMove
    <2>3. r \in BackendAnswers
        BY AnswersType
    <2> QED
        BY <1>2, <2>1, <2>2, <2>3, AnswerKeeps DEF Asking, SInv, CInv
<1>5. Settled(session') /\ InReview(session', made')
    BY <1>1, <1>3, <1>4 DEF Moves
<1> QED
    BY <1>1, <1>5 DEF Moves, SInv, CInv

LEMMA AlwaysSInv == Spec => []SInv
BY InitSInv, NextSInv, PTL DEF Spec

\* For every client, backend and bound: the draft under review is never one
\* that was decided, and the queue behind it is exactly the rest of its
\* batch, undecided and in order (queue_patch_cards, apply_result_taken,
\* ResumeDraft, cancel_turn).
THEOREM ReviewIsAlwaysInOrder == Spec => []ReviewIsInOrder
<1>1. SInv => ReviewIsInOrder
    BY DEF SInv, InReview, DecidedIsNotPending, QueueFollowsTheDraft,
           ReviewIsInOrder, Reviewing, UnderReview, Decided
<1> QED
    BY <1>1, AlwaysSInv, PTL

\* For every client: an active goal is never paused, a paused one says so,
\* and a session that showed a card never waits for an answer nobody computes
\* (reply_taken, cancel_turn, Goal, acceptance, commit_session).
THEOREM GoalAndStateAlwaysAgree ==
    Spec => [](ThinkingOnlyBeforeTheFirstCard /\ GoalFieldsAgree)
<1>1. SInv => ThinkingOnlyBeforeTheFirstCard /\ GoalFieldsAgree
    BY DEF SInv, CInv, Settled, GoalAgrees, ThinkingOnlyBeforeTheFirstCard,
           GoalFieldsAgree
<1> QED
    BY <1>1, AlwaysSInv, PTL
-----------------------------------------------------------------------------
(***************************************************************************)
(* The actions a card offers                                               *)
(***************************************************************************)
\* What a state admits of what the engine offers, run_check apart.
Offered(card) == card.offers \ {"run_check"}
AllAdmitted(state, card) == \A a \in Offered(card) : Admits(state, a)

\* The last card offers what the session admits, and would still do so if
\* the session were put back to the state of that card, as cancel_turn does.
Offering(s) ==
    /\ AllAdmitted(s.state, s.last)
    /\ AllAdmitted(FromCard(s.last.kind), s.last)
    /\ s.last.kind = "patch" => s.last.offers = {"why"}
    /\ \A i \in 1..Len(s.queue) : s.queue[i].offers = {"why"}

LEMMA AdmitsRows ==
    /\ \A a \in {"follow", "why", "fix", "goal", "retry", "edit_prompt",
                 "stop"} : Admits("CardShown", a)
    /\ \A a \in {"retry", "edit_prompt", "stop"} :
           Admits("PatchFailed", a) /\ Admits("GoalLoopFailed", a)
    /\ Admits("PatchShown", "why")
    /\ Admits("Summary", "stop")
    /\ Admits("PatchExplained", "stop")
    /\ Admits("PatchExplained", "resume_draft")
BY DEF Admits, Transitions, Expectations

LEMMA GenerationOffers ==
    ASSUME NEW s \in Sessions, Offering(s)
    PROVE  Offering(NextGeneration(s))
<1> DEFINE t == NextGeneration(s)
<1>1. t.state = s.state /\ t.last = s.last /\ t.queue = s.queue
    BY DEF NextGeneration, Sessions
<1> QED
    BY <1>1 DEF Offering

\* Without Why no draft is explained, so none is resumed.
LEMMA BodyOffers ==
    ASSUME NEW s \in Sessions, Offering(s), Settled(s),
           "why" \notin ClientActions, NEW t, BodyMove(s, t)
    PROVE  Offering(t)
<1>1. CASE t = GoalOn(s)
    <2>1. t.state = s.state /\ t.last = s.last /\ t.queue = s.queue
        BY <1>1 DEF GoalOn, Sessions
    <2> QED
        BY <2>1 DEF Offering
<1>2. CASE t = Stopped(s)
    <2>1. t.last = StopCard /\ t.queue = s.queue
        BY <1>2 DEF Stopped, Push, Sessions
    <2>2. StopCard.kind = "summary" /\ StopCard.offers = {}
        BY DEF StopCard, PlainCard
    <2> QED
        BY <2>1, <2>2 DEF Offering, AllAdmitted, Offered
<1>3. s.state # "PatchExplained"
    BY DEF Settled
<1> QED
    BY <1>1, <1>2, <1>3 DEF BodyMove

LEMMA ReportOffers ==
    ASSUME NEW s \in Sessions, Offering(s), NEW m \in Nat, InReview(s, m),
           NEW t, ReportMove(s, t)
    PROVE  Offering(t)
<1>1. /\ Reviewed(s) /\ Closed(s) \in Sessions /\ Recorded(s) \in Sessions
      /\ Closed(s).last = s.last /\ Closed(s).queue = s.queue
      /\ Recorded(s).queue = s.queue
    BY ReportFields DEF ReportMove
<1>2. CASE s.queue # <<>> /\ t = ShowNext(Recorded(s))
    <2>1. /\ t.state = "PatchShown" /\ t.last = Head(s.queue)
          /\ t.queue = Tail(s.queue)
        BY <1>1, <1>2 DEF ShowNext, Push, Sessions
    <2>2. s.queue \in Seq(Cards)
        BY DEF Sessions
    <2>3. /\ Len(s.queue) \in Nat /\ Len(s.queue) >= 1
          /\ Head(s.queue) = s.queue[1]
          /\ Len(Tail(s.queue)) = Len(s.queue) - 1
          /\ \A i \in 1..Len(Tail(s.queue)) : Tail(s.queue)[i] = s.queue[i + 1]
        BY <1>2, <2>2, HeadTailProperties, LenProperties
    <2>4. t.last.offers = {"why"} /\ t.last.kind = "patch"
        <3>1. 1 \in 1..Len(s.queue)
            BY <2>3
        <3> QED
            BY <1>2, <2>1, <2>3, <3>1
            DEF Offering, InReview, QueueFollowsTheDraft
    <2>5. \A i \in 1..Len(t.queue) : t.queue[i].offers = {"why"}
        BY <2>1, <2>3 DEF Offering
    <2> QED
        BY <2>1, <2>4, <2>5, AdmitsRows
        DEF Offering, AllAdmitted, Offered, FromCard
<1>3. CASE s.queue = <<>> /\ t = CompleteGoal(Closed(s))
    <2>1. /\ t.state = "Summary" /\ t.queue = <<>>
          /\ t.last = PlainCard("summary", {"run_check", "stop"})
        BY <1>1, <1>3 DEF CompleteGoal, Push, Sessions
    <2> QED
        BY <2>1, AdmitsRows
        DEF Offering, AllAdmitted, Offered, FromCard, PlainCard
<1>4. CASE /\ s.queue = <<>>
           /\ t = NextGeneration([Closed(s) EXCEPT !.state = "CardShown"])
    <2>1. /\ t.state = "CardShown" /\ t.last = s.last /\ t.queue = <<>>
        BY <1>1, <1>4 DEF NextGeneration, Sessions
    <2> QED
        BY <1>1, <2>1, AdmitsRows
        DEF Offering, AllAdmitted, Offered, Reviewed
<1>5. CASE t = Rejected(Declined(s))
    <2>1. /\ t.state \in {"GoalLoopFailed", "PatchFailed"}
          /\ t.last = PlainCard("error", {"retry", "edit_prompt", "stop"})
          /\ t.queue = <<>>
        BY <1>5 DEF Rejected, Declined, Push, Sessions
    <2> QED
        BY <2>1, AdmitsRows
        DEF Offering, AllAdmitted, Offered, FromCard, PlainCard
<1> QED
    BY <1>2, <1>3, <1>4, <1>5 DEF ReportMove

LEMMA CancelledOffers ==
    ASSUME NEW s \in Sessions, Offering(s)
    PROVE  Offering(Cancelled(s))
<1> DEFINE t == Cancelled(s)
<1>1. /\ Paused(s) \in Sessions /\ Paused(s).last = s.last
      /\ Paused(s).queue = s.queue
    BY DEF Paused, Sessions
<1>2. CASE AlreadyAccepted(s)
    <2>1. /\ t.state = "CardShown" /\ t.queue = s.queue
          /\ t.last = ContinuationCancelledCard
        BY <1>1, <1>2 DEF Cancelled, Push, Sessions
    <2> QED
        BY <2>1, AdmitsRows
        DEF Offering, AllAdmitted, Offered, FromCard, PlainCard,
            ContinuationCancelledCard
<1>3. CASE ~AlreadyAccepted(s)
    <2>1. /\ t.state = FromCard(s.last.kind) /\ t.queue = s.queue
          /\ t.last = s.last
        BY <1>1, <1>3 DEF Cancelled, Sessions
    <2> QED
        BY <2>1 DEF Offering
<1> QED
    BY <1>2, <1>3

LEMMA LoopOffers ==
    ASSUME NEW s \in Sessions, Offering(s), Settled(s),
           "why" \notin ClientActions, NEW t, LoopMove(s, t)
    PROVE  Offering(t)
<1>1. CASE t = Stopped(NextGeneration(s))
    <2> DEFINE g == NextGeneration(s)
    <2>1. BodyMove(g, t)
        BY <1>1 DEF BodyMove
    <2>2. g \in Sessions /\ Settled(g) /\ Offering(g)
        BY GenerationKeeps, GenerationOffers
    <2> HIDE DEF g
    <2> QED
        BY <2>1, <2>2, BodyOffers
<1> QED
    BY <1>1, GenerationOffers, CancelledOffers, CancelledKeeps DEF LoopMove

\* What accept_response puts on a card is what state_after_card admits.
LEMMA AnswerOffersAdmitted ==
    ASSUME NEW kind \in Kinds \ {"patch"}, NEW e
    PROVE  LET card == PlainCard(kind, AnswerOffers(kind, e))
           IN  /\ AllAdmitted(StateAfterCard(kind, e), card)
               /\ e # "GoalWhy" => AllAdmitted(FromCard(kind), card)
<1> DEFINE card == PlainCard(kind, AnswerOffers(kind, e))
<1>1. card.offers = AnswerOffers(kind, e)
    BY DEF PlainCard
<1>2. CASE kind = "finding"
    <2>1. CASE e = "GoalWhy"
        BY <1>1, <1>2, <2>1, AdmitsRows
        DEF AllAdmitted, Offered, AnswerOffers, StateAfterCard, Refused
    <2>2. CASE e # "GoalWhy"
        BY <1>1, <1>2, <2>2, AdmitsRows
        DEF AllAdmitted, Offered, AnswerOffers, StateAfterCard, FromCard,
            Refused
    <2> QED
        BY <2>1, <2>2
<1>3. CASE kind = "hypothesis"
    BY <1>1, <1>3, AdmitsRows
    DEF AllAdmitted, Offered, AnswerOffers, StateAfterCard, FromCard, Refused
<1>4. CASE kind = "summary"
    BY <1>1, <1>4, AdmitsRows
    DEF AllAdmitted, Offered, AnswerOffers, StateAfterCard, FromCard, Refused
<1>5. CASE kind \notin {"finding", "hypothesis", "summary"}
    BY <1>1, <1>5 DEF AllAdmitted, Offered, AnswerOffers
<1> QED
    BY <1>2, <1>3, <1>4, <1>5

LEMMA ResponseOffers ==
    ASSUME NEW s \in Sessions, NEW m \in Nat, NEW e, e # "GoalWhy",
           NEW r \in BackendAnswers, m + r.hunks <= MaxProposals,
           NEW t, t = AcceptResponse(s, r, e, m)
    PROVE  Offering(t)
<1> DEFINE cards == ReviewCards(r, m)
           card == PlainCard(r.kind, AnswerOffers(r.kind, e))
<1>1. /\ t.state = StateAfterCard(r.kind, e)
      /\ r.kind # "patch" => t.last = card /\ t.queue = <<>>
      /\ r.kind = "patch" =>
           /\ r \in PatchAnswers \cup FileOpAnswers
           /\ t.last = cards[1] /\ t.queue = Tail(cards)
    BY AnswerFields
<1>2. CASE r.kind # "patch"
    <2>1. PICK k \in Kinds \ {"patch"} : r = PlainAnswer(k)
        BY <1>2 DEF BackendAnswers, PatchAnswers, FileOpAnswers
    <2>2. r.kind \in Kinds \ {"patch"} /\ card.kind = r.kind
        BY <2>1 DEF PlainCard, PlainAnswer
    <2> QED
        BY <1>1, <1>2, <2>1, <2>2, AnswerOffersAdmitted DEF Offering
<1>3. CASE r.kind = "patch"
    <2>1. /\ r.hunks \in Nat /\ r.hunks >= 1
          /\ \A i \in 1..r.hunks :
                cards[i].kind = "patch" /\ cards[i].offers = {"why"}
          /\ Len(Tail(cards)) = r.hunks - 1
          /\ \A i \in 1..(r.hunks - 1) : Tail(cards)[i] = cards[i + 1]
        <3>1. cards = ReviewCards(r, m)
            OBVIOUS
        <3>2. r \in PatchAnswers \cup FileOpAnswers
            BY <1>1, <1>3
        <3> HIDE DEF cards
        <3> QED
            BY <3>1, <3>2, ReviewCardsShape
    <2> HIDE DEF cards
    <2>2. t.last.kind = "patch" /\ t.last.offers = {"why"}
        BY <1>1, <1>3, <2>1
    <2>3. ASSUME NEW i \in 1..Len(t.queue)
          PROVE  t.queue[i].offers = {"why"}
        <3>1. t.queue = Tail(cards)
            BY <1>1, <1>3
        <3>2. i \in 1..(r.hunks - 1) /\ i + 1 \in 1..r.hunks
            BY <2>1, <3>1
        <3> QED
            BY <2>1, <3>1, <3>2
    <2>4. t.state = "PatchShown"
        BY <1>1, <1>3, StateAfterCardShape
    <2> QED
        BY <2>2, <2>3, <2>4, AdmitsRows
        DEF Offering, AllAdmitted, Offered, FromCard
<1> QED
    BY <1>2, <1>3

LEMMA NextOffering ==
    ASSUME "why" \notin ClientActions
    PROVE  SInv /\ Offering(session) /\ [Next]_vars => Offering(session)'
<1> SUFFICES ASSUME SInv, Offering(session), [Next]_vars
             PROVE  Offering(session')
    OBVIOUS
<1>1. Moves
    BY NextMoves DEF SInv
<1>2. /\ session \in Sessions /\ made \in Nat /\ Settled(session)
      /\ InReview(session, made)
    BY DEF SInv, CInv, IInv, TypeOK
<1>3. CASE LocalMove
    BY <1>2, <1>3, BodyOffers, ReportOffers, LoopOffers DEF LocalMove
<1>4. CASE AnswerMove
    <2>1. turn.s \in Sessions /\ turn.exp # "GoalWhy"
        BY <1>4, LiveClone DEF AnswerMove, SInv, CInv, CloneIsKnown, Asking,
                               Live
    <2>2. PICK r \in Answers(turn.exp) :
              /\ made + r.hunks <= MaxProposals
              /\ session' = AcceptResponse(turn.s, r, turn.exp, made)
        BY <1>4 DEF AnswerMove
    <2>3. r \in BackendAnswers
        BY AnswersType
    <2> QED
        BY <1>2, <2>1, <2>2, <2>3, ResponseOffers
<1> QED
    BY <1>1, <1>3, <1>4 DEF Moves

\* For every client that does not ask Why, the shipped editor among them,
\* and every backend: the state a commit, an abort or a cancellation leaves
\* admits what the session's card offers, the goal's fields agree, and
\* nothing waits for an answer nobody computes.  (A client that cancels after
\* Why is left with a card that offers resume_draft in a state that refuses
\* it.)
THEOREM SessionIsAlwaysCoherent ==
    ASSUME "why" \notin ClientActions
    PROVE  Spec => []SessionIsCoherent
<1>1. Init => Offering(session)
    BY DEF Init, NewSession, NoCard, PlainCard, Offering, AllAdmitted, Offered
<1>2. SInv /\ Offering(session) /\ [Next]_vars => Offering(session)'
    BY NextOffering
<1>3. SInv /\ Offering(session) => SessionIsCoherent
    BY DEF SInv, CInv, Settled, GoalAgrees, Offering, AllAdmitted, Offered,
           SessionIsCoherent, ThinkingOnlyBeforeTheFirstCard, GoalFieldsAgree,
           OfferedActionsAreAdmitted
<1> QED
    BY <1>1, <1>2, <1>3, AlwaysSInv, PTL DEF Spec
-----------------------------------------------------------------------------
(***************************************************************************)
(* What a refused turn may be asked again                                  *)
(***************************************************************************)
LEMMA RetryRow ==
    /\ \A e \in Expectations :
         <<"PatchFailed", "retry", e>> \in Transitions <=> e = "Patch"
    /\ \A e \in Expectations :
         <<"GoalLoopFailed", "retry", e>> \in Transitions <=> e = "GoalLoop"
    /\ \A e \in Expectations :
         <<"PatchExplained", "retry", e>> \in Transitions <=> e = "GoalWhy"
BY DEF Transitions, Expectations

LEMMA RetryKeepsTheContract ==
    ASSUME NEW kind, Refused(kind), NEW e \in {"Patch", "GoalLoop", "GoalWhy"}
    PROVE  LET st == StateAfterCard(kind, e)
           IN  Admits(st, "retry") /\ NextState(st, "retry") = e
<1> DEFINE st == StateAfterCard(kind, e)
<1>1. <<st, "retry", e>> \in Transitions /\ e \in Expectations
    BY RetryRow DEF StateAfterCard, Expectations
<1>2. \A f \in Expectations : <<st, "retry", f>> \in Transitions => f = e
    BY RetryRow DEF StateAfterCard
<1> HIDE DEF st
<1>3. Admits(st, "retry")
    BY <1>1 DEF Admits
<1>4. /\ <<st, "retry", NextState(st, "retry")>> \in Transitions
      /\ NextState(st, "retry") \in Expectations
    BY <1>3, NextStateRow, NextStateType
<1> QED
    BY <1>2, <1>3, <1>4 DEF st

LEMMA RefusalStep ==
    SInv /\ [Next]_vars =>
        [ (turn.pc = "call" /\ session'.last # session.last
             /\ Refused(session'.last.kind)
             /\ turn.exp \in {"Patch", "GoalLoop", "GoalWhy"})
          => /\ Admits(session'.state, "retry")
             /\ NextState(session'.state, "retry") = turn.exp ]_vars
<1> SUFFICES ASSUME SInv, [Next]_vars, turn.pc = "call",
                    session'.last # session.last,
                    Refused(session'.last.kind),
                    turn.exp \in {"Patch", "GoalLoop", "GoalWhy"}
             PROVE  /\ Admits(session'.state, "retry")
                    /\ NextState(session'.state, "retry") = turn.exp
    OBVIOUS
<1>1. Moves
    BY NextMoves DEF SInv
<1>2. /\ session \in Sessions /\ made \in Nat /\ turn.s \in Sessions
      /\ InReview(session, made)
    BY LiveClone DEF SInv, CInv, IInv, TypeOK, Live
<1>3. CASE AnswerMove
    <2>1. PICK r \in Answers(turn.exp) :
              /\ made + r.hunks <= MaxProposals
              /\ session' = AcceptResponse(turn.s, r, turn.exp, made)
        BY <1>3 DEF AnswerMove
    <2>2. r \in BackendAnswers
        BY AnswersType
    <2> DEFINE cards == ReviewCards(r, made)
               e == turn.exp
               card == PlainCard(r.kind, AnswerOffers(r.kind, e))
    <2>3. /\ session'.state = StateAfterCard(r.kind, e)
          /\ r.kind # "patch" => session'.last = card
          /\ r.kind = "patch" =>
                /\ r \in PatchAnswers \cup FileOpAnswers
                /\ session'.last = cards[1]
        BY <1>2, <2>1, <2>2, AnswerFields
    <2>4. r.kind # "patch"
        <3>1. ASSUME r.kind = "patch"
              PROVE  cards[1].kind = "patch"
            <4> HIDE DEF cards
            <4>1. /\ r.hunks \in Nat /\ r.hunks >= 1
                  /\ \A i \in 1..r.hunks : cards[i].kind = "patch"
                BY <1>2, <2>1, <2>3, <3>1, ReviewCardsShape DEF cards
            <4> QED
                BY <4>1
        <3> QED
            BY <2>3, <3>1 DEF Refused
    <2>5. card.kind = r.kind
        BY DEF PlainCard
    <2> QED
        BY <2>3, <2>4, <2>5, RetryKeepsTheContract
<1>4. CASE LocalMove
    <2>1. ~Deciding
        BY DEF Deciding
    <2>2. CASE BodyMove(session, session')
        <3>1. session' = Stopped(session) => session'.last.kind = "summary"
            BY <1>2 DEF Stopped, Push, StopCard, PlainCard, Sessions
        <3>2. session' = GoalOn(session) => session'.last = session.last
            BY <1>2 DEF GoalOn, Sessions
        <3>3. /\ session.draft # NoCard
              /\ session' = Resumed(session)
              => session'.last.kind = "patch"
            BY <1>2 DEF Resumed, Push, Sessions, InReview, DraftIsKnown
        <3> QED
            BY <2>2, <3>1, <3>2, <3>3 DEF BodyMove, Refused
    <2>3. CASE LoopMove(session, session')
        <3> DEFINE g == NextGeneration(session)
        <3>1. /\ g \in Sessions /\ g.last = session.last
              /\ Cancelled(session) \in Sessions
            BY <1>2, CancelledKeeps, GenerationKeeps
            DEF NextGeneration, Sessions
        <3>2. session' = Stopped(g) => session'.last.kind = "summary"
            BY <3>1 DEF Stopped, Push, StopCard, PlainCard, Sessions
        <3>3. /\ Paused(session) \in Sessions
              /\ Paused(session).last = session.last
            BY <1>2 DEF Paused, Sessions
        <3>4. \/ Cancelled(session).last = session.last
              \/ Cancelled(session).last = ContinuationCancelledCard
            BY <3>3 DEF Cancelled, Push, Sessions
        <3>5. session' = NextGeneration(Cancelled(session))
              => session'.last = Cancelled(session).last
            BY <3>1 DEF NextGeneration, Sessions
        <3>6. ContinuationCancelledCard.kind = "finding"
            BY DEF ContinuationCancelledCard, PlainCard
        <3> QED
            BY <2>3, <3>1, <3>2, <3>4, <3>5, <3>6 DEF LoopMove, Refused
    <2> QED
        BY <1>4, <2>1, <2>2, <2>3 DEF LocalMove
<1> QED
    BY <1>1, <1>3, <1>4 DEF Moves

\* For every client and backend: whatever turn an Error or a Deny ends, Retry
\* asks for what that turn owed (state_after_card against SessionState::next,
\* over every way a session can leave a turn).
THEOREM RefusalsKeepTheContract == Spec => RefusalKeepsTheContract
BY AlwaysSInv, RefusalStep, PTL DEF Spec, RefusalKeepsTheContract

-----------------------------------------------------------------------------
(***************************************************************************)
(* Theorems about what surrounds the session: what the editor shows, the   *)
(* abstract review, and the speculation.                                   *)
(***************************************************************************)

-----------------------------------------------------------------------------
(***************************************************************************)
(* The editor's view                                                       *)
(***************************************************************************)
\* The ids of the turns: a notice is of an earlier turn than the one at work,
\* but for the finished turn whose working card is still to be written.
IdsAreOrdered ==
    /\ \A n \in notices : n.turn \in 1..session.gen
    /\ turn.pc # "none" =>
         /\ turn.id \in 1..session.gen
         /\ \A n \in notices :
              \/ n.turn < turn.id
              \/ n.turn = turn.id /\ turn.pc = "done" /\ server = "yielding"

\* While a request is served the editor shows nothing; a finished turn waits
\* for the main loop, and a yielded one for the editor.
Serving == server \in {"serving", "yielding"}
TurnIsAwaited ==
    /\ Serving => view = NoView /\ turn.pc # "none"
    /\ turn.pc = "done" => Serving
    /\ Live => Serving \/ (server = "idle" /\ view.turn = turn.id)

\* A finished turn whose working card is still to be written is announced, or
\* was announced too early.
YieldedIsAnnounced ==
    server = "yielding" /\ turn.pc = "done" =>
        \/ \E n \in notices : n.turn = turn.id
        \/ overtaken = turn.id

\* A result on its way is the session's last card.
ResultIsTheLastCard ==
    /\ turn.pc = "done" /\ turn.ok => turn.card = session.last
    /\ \A n \in notices :
         \/ n.turn = view.turn
         \/ n.turn = turn.id /\ turn.pc # "none"
         => ~Live /\ (n.ok => n.card = session.last)

\* So is the card shown.
ViewIsTheLastCard ==
    view.card # NoCard =>
        ~Live /\ view.turn = 0 /\ view.card = session.last

Current ==
    /\ IdsAreOrdered /\ TurnIsAwaited /\ YieldedIsAnnounced
    /\ ResultIsTheLastCard /\ ViewIsTheLastCard /\ WorkingCardHasATurn

EInv == SInv /\ Current

\* A patch on the screen is open to a decision, or was accepted.
PatchIsOpen ==
    session.last.kind = "patch" =>
        session.state = "PatchShown" \/ session.draft.no \in session.steps

\* The shipped editor sends no session/action but cancel_turn.
NoActionTurn == Live => turn.cmd.op # "action"

\* Only the first turn starts the session.
StartIsFirst == Live /\ turn.cmd.op = "start" => session.state = "Thinking"

\* A speculation left between steps is for the patch on the screen.
SpeculationFits ==
    /\ prefetch # NoSpec =>
         /\ Reviewed(session) /\ ~session.active
         /\ ~session.batch /\ session.queue = <<>>
         /\ prefetch.no = session.last.no
    /\ continuation # NoSpec =>
         /\ Reviewed(session) /\ session.active /\ session.slice
         /\ ~session.batch /\ session.queue = <<>>
         /\ continuation.no = session.last.no

\* A planned slice follows, so no card of the batch completes the goal.
SliceFollows ==
    session.slice =>
      /\ ~session.last.complete
      /\ \A i \in 1..Len(session.queue) : ~session.queue[i].complete

\* What a suspended turn has left of the speculation.
SpeculationIsSettled ==
    /\ turn.pc \in {"cancelAccept", "rejectGoal", "take", "call"} =>
           prefetch = NoSpec /\ continuation = NoSpec
    /\ turn.pc = "cancelGoal" => continuation = NoSpec
    /\ turn.pc \in {"rejectAccept", "complete"} => prefetch = NoSpec
    /\ Live /\ turn.pc \notin {"take", "call"} => turn.spec = 0
    /\ turn.pc \in {"take", "call"} =>
           turn.spec \in {0, turn.s.draft.no}

\* A detached speculation, and the one a turn awaits, is of an accepted
\* proposal; the turn awaits none that was detached.
DetachedIsAccepted ==
    /\ detached \subseteq session.steps
    /\ turn.pc = "take" => turn.spec \in session.steps
    /\ turn.spec \notin detached

SpInv ==
    /\ SInv /\ NoActionTurn /\ StartIsFirst
    /\ SpeculationFits /\ SliceFollows /\ SpeculationIsSettled
    /\ DetachedIsAccepted
-----------------------------------------------------------------------------
(***************************************************************************)
(* How a step of a turn leaves it                                          *)
(***************************************************************************)
\* It goes on, with the session's last card where it was.
TurnOn ==
    /\ turn'.pc \notin {"none", "done"}
    /\ turn'.id = turn.id /\ turn'.cmd = turn.cmd
    /\ session'.last = session.last
    /\ UNCHANGED notices

\* It is over, and what it hands over is the last card it committed.
TurnOver ==
    \E d : /\ d.id = turn.id /\ d.pc = "done"
           /\ d.ok => d.card = session'.last
           /\ Deliver(d)

LEMMA FinishOver ==
    ASSUME SInv, Live, NEW s, NEW ok, NEW card, NEW pf, NEW ct,
           ok => card = s.last,
           Finish(turn, s, ok, card, pf, ct)
    PROVE  TurnOver
<1> DEFINE d == [turn EXCEPT !.pc = "done", !.s = s, !.ok = ok, !.card = card]
<1>1. turn \in Turns /\ turn.gen = session.gen
    BY LiveClone DEF SInv
<1>2. session' = s
    BY <1>1 DEF Finish, Commit
<1>3. /\ d.id = turn.id /\ d.pc = "done" /\ d.ok = ok /\ d.card = card
    BY <1>1 DEF Turns
<1>4. Deliver(d)
    BY DEF Finish
<1> HIDE DEF d
<1> QED
    BY <1>2, <1>3, <1>4 DEF TurnOver

LEMMA SuspendOn ==
    ASSUME NEW t \in Turns, t.id = turn.id, t.cmd = turn.cmd,
           NEW pc \in {"cancelGoal", "cancelAccept", "complete",
                       "rejectAccept", "rejectGoal", "call"},
           NEW s, NEW pf, NEW ct, Suspend(t, pc, s, pf, ct)
    PROVE  TurnOn
BY DEF Suspend, TurnOn, Turns

\* A body that is done shows the last card of its session.
LEMMA DoneShowsTheLastCard ==
    ASSUME NEW cmd \in Bodies, NEW s \in Sessions,
           NEW o, o = Outcome(cmd, s), o.step = "done"
    PROVE  o.card = o.s.last
<1>1. ASSUME NEW t \in Sessions, NEW card \in Cards, o = Done(t, card)
      PROVE  o.card = o.s.last
    BY <1>1, PushType DEF Done
<1>2. cmd.op # "reply"
    BY DEF Outcome, ReplyOutcome, Fail, Ask
<1> DEFINE a == cmd.action
           p == Prepared(s, a)
<1>3. o = ActionOutcome(s, a)
    BY <1>2 DEF Outcome
<1>4. CASE a = "resume_draft"
    <2>1. [s EXCEPT !.state = "PatchShown"] \in Sessions /\ s.draft \in Cards
        BY DEF Sessions, States
    <2>2. o = Done([s EXCEPT !.state = "PatchShown"], s.draft)
        BY <1>3, <1>4 DEF ActionOutcome, ResumeOutcome, Fail
    <2> QED
        BY <1>1, <2>1, <2>2
<1>5. CASE a # "resume_draft"
    <2> DEFINE q == [p EXCEPT !.state = "Finished", !.goal = "Stopped"]
    <2>1. p \in Sessions
        BY PreparedType
    <2>2. q \in Sessions
        BY <2>1 DEF Sessions, States
    <2>3. o = Done(q, StopCard)
        BY <1>3, <1>5 DEF ActionOutcome, Fail, Ask
    <2>4. StopCard \in Cards
        BY PlainCardType DEF StopCard, Kinds
    <2> QED
        BY <1>1, <2>2, <2>3, <2>4
<1> QED
    BY <1>4, <1>5

LEMMA BodyGoes ==
    ASSUME SInv, Live, turn.cmd.op \in {"reply", "action"}, NEW pf, NEW ct,
           Conclude(turn, Outcome(turn.cmd, turn.s), pf, ct)
    PROVE  TurnOn \/ TurnOver
<1> DEFINE o == Outcome(turn.cmd, turn.s)
           t == [turn EXCEPT !.exp = o.exp]
<1>1. /\ turn \in Turns /\ turn.s \in Sessions /\ turn.cmd \in Bodies
      /\ o \in Outcomes(turn.s)
    BY LiveClone, LiveTurn DEF SInv, CInv
<1>2. CASE o.step = "ask"
    <2>1. Suspend(t, "call", o.s, pf, ct)
        BY <1>2 DEF Conclude
    <2>2. t \in Turns /\ t.id = turn.id /\ t.cmd = turn.cmd
        BY <1>1, <1>2 DEF Outcomes, Turns
    <2> QED
        BY <2>1, <2>2, SuspendOn
<1>3. CASE o.step # "ask"
    <2>1. Finish(turn, o.s, o.step = "done", o.card, pf, ct)
        BY <1>3 DEF Conclude
    <2>2. o.step = "done" => o.card = o.s.last
        BY <1>1, DoneShowsTheLastCard
    <2> HIDE DEF o
    <2> QED
        BY <2>1, <2>2, FinishOver
<1> QED
    BY <1>2, <1>3

LEMMA CancelAcceptGoes ==
    ASSUME SInv, Live, turn.cmd.op \in {"reply", "action"},
           CancelAccept(turn)
    PROVE  TurnOn \/ TurnOver
BY BodyGoes, SuspendOn, LiveClone DEF CancelAccept, SInv

LEMMA RejectGoalGoes ==
    ASSUME SInv, Live, NEW s, RejectGoal(turn, s)
    PROVE  TurnOn \/ TurnOver
BY SuspendOn, FinishOver, LiveClone DEF RejectGoal, SInv

LEMMA TurnGoesOnOrEnds == ASSUME SInv, TurnStep PROVE TurnOn \/ TurnOver
<1>1. /\ Live /\ turn \in Turns
      /\ turn.pc \in {"cancelGoal", "cancelAccept"} =>
             turn.cmd.op \in {"reply", "action"}
    <2>1. Live
        BY DEF TurnStep, StartTurn, PlainAction, AbandoningTurn,
               GoalCancelled, AcceptCancelled, Answer, ReportRefused,
               AcceptShowsNext, AcceptCompletesGoal, CompletionCancelled,
               AcceptContinues, SpeculationTaken, RejectDraft,
               RejectAcceptCancelled, RejectGoalCancelled, Accepting,
               Rejecting, Applying, Live
    <2> QED
        BY <2>1, LiveClone DEF SInv, CInv, IInv, CommandIsComplete
<1>2. CASE StartTurn
    <2> DEFINE t == [turn EXCEPT !.exp = turn.cmd.exp]
    <2>1. Suspend(t, "call", turn.s, prefetch, continuation)
        BY <1>2 DEF StartTurn
    <2>2. turn.cmd.exp \in Expectations
        BY <1>1, <1>2 DEF StartTurn, SInv, CInv, IInv, CommandIsComplete
    <2>3. t \in Turns /\ t.id = turn.id /\ t.cmd = turn.cmd
        BY <1>1, <2>2 DEF Turns
    <2> QED
        BY <2>1, <2>3, SuspendOn
<1>3. CASE PlainAction \/ AcceptCancelled
    BY <1>1, <1>3, BodyGoes DEF PlainAction, AcceptCancelled
<1>4. CASE AbandoningTurn
    <2>1. CASE Suspend(turn, "cancelGoal", turn.s, prefetch, NoSpec)
        BY <1>1, <2>1, SuspendOn
    <2> QED
        BY <1>1, <1>4, <2>1, CancelAcceptGoes DEF AbandoningTurn
<1>5. CASE GoalCancelled
    BY <1>1, <1>5, CancelAcceptGoes DEF GoalCancelled
<1>6. CASE Answer
    <2>1. PICK r \in Answers(turn.exp) :
              LET s == AcceptResponse(turn.s, r, turn.exp, made)
              IN  Finish(turn, s, TRUE, s.last, prefetch, continuation)
        BY <1>6 DEF Answer
    <2> QED
        BY <1>1, <2>1, FinishOver
<1>7. CASE ReportRefused
    BY <1>1, <1>7, FinishOver DEF ReportRefused
<1>8. CASE AcceptShowsNext
    BY <1>1, <1>8, FinishOver DEF AcceptShowsNext
<1>9. CASE AcceptCompletesGoal
    <2> DEFINE s == [Recorded(turn.s) EXCEPT !.batch = FALSE]
               c == CompleteGoal(s)
    <2>1. \/ Suspend(turn, "complete", s, NoSpec, continuation)
          \/ \E pf \in {prefetch, NoSpec} :
                 Finish(turn, c, TRUE, c.last, pf, continuation)
        BY <1>9 DEF AcceptCompletesGoal
    <2> HIDE DEF s, c
    <2> QED
        BY <1>1, <2>1, SuspendOn, FinishOver
<1>10. CASE CompletionCancelled
    BY <1>1, <1>10, FinishOver DEF CompletionCancelled
<1>11. CASE AcceptContinues
    <2>1. turn.s = session /\ session \in Sessions /\ Reviewed(session)
        BY <1>11, ReportClone DEF AcceptContinues, Accepting, SInv
    <2>2. Recorded(session) \in Sessions /\ Recorded(session).last = session.last
        BY <2>1, ReportFields
    <2>3. session'.last = session.last
        BY <1>1, <1>11, <2>1, <2>2, LiveClone
        DEF AcceptContinues, Commit, AfterAccept, NextGeneration, Sessions,
            SInv
    <2>4. /\ turn'.pc \in {"take", "call"} /\ turn'.id = turn.id
          /\ turn'.cmd = turn.cmd /\ UNCHANGED notices
        BY <1>1, <1>11 DEF AcceptContinues, Turns
    <2> QED
        BY <2>3, <2>4 DEF TurnOn
<1>12. CASE SpeculationTaken
    BY <1>1, <1>12 DEF SpeculationTaken, TurnOn, Turns
<1>13. CASE RejectDraft
    BY <1>1, <1>13, SuspendOn, RejectGoalGoes DEF RejectDraft
<1>14. CASE RejectAcceptCancelled
    BY <1>1, <1>14, RejectGoalGoes DEF RejectAcceptCancelled
<1>15. CASE RejectGoalCancelled
    BY <1>1, <1>15, FinishOver DEF RejectGoalCancelled
<1> QED
    BY <1>2, <1>3, <1>4, <1>5, <1>6, <1>7, <1>8, <1>9, <1>10, <1>11, <1>12,
       <1>13, <1>14, <1>15 DEF TurnStep

\* Generations only grow.
LEMMA GenerationsGrow ==
    ASSUME SInv, Moves
    PROVE  session'.gen \in {session.gen, session.gen + 1}
<1>1. session \in Sessions /\ made \in Nat /\ session.gen \in Nat
    BY DEF SInv, CInv, IInv, TypeOK, Sessions
<1>2. CASE AnswerMove
    <2>1. PICK r \in Answers(turn.exp) :
              /\ made + r.hunks <= MaxProposals
              /\ session' = AcceptResponse(turn.s, r, turn.exp, made)
        BY <1>2 DEF AnswerMove
    <2>2. turn.s \in Sessions /\ turn.s.gen = session.gen
        BY <1>2, LiveClone DEF AnswerMove, Live, SInv
    <2> QED
        BY <1>1, <2>1, <2>2, AnswersType, AcceptResponseType
<1>3. CASE BodyMove(session, session')
    BY <1>1, <1>3
    DEF BodyMove, GoalOn, Stopped, Resumed, Push, Sessions
<1>4. CASE LoopMove(session, session')
    <2> DEFINE g == NextGeneration(session)
    <2>1. g \in Sessions /\ g.gen = session.gen + 1
        BY <1>1, GenerationKeeps DEF NextGeneration, Sessions
    <2>2. Stopped(g).gen = g.gen
        BY <2>1 DEF Stopped, Push, Sessions
    <2>3. Paused(session) \in Sessions /\ Paused(session).gen = session.gen
        BY <1>1 DEF Paused, Sessions
    <2>4. Cancelled(session).gen = session.gen
        BY <2>3 DEF Cancelled, Push, Sessions
    <2>5. Cancelled(session) \in Sessions
        BY <1>1, CancelledKeeps
    <2>6. NextGeneration(Cancelled(session)).gen = session.gen + 1
        BY <2>4, <2>5 DEF NextGeneration, Sessions
    <2> QED
        BY <1>4, <2>1, <2>2, <2>6 DEF LoopMove
<1>5. CASE ReportMove(session, session')
    <2>1. /\ Reviewed(session) /\ Closed(session) \in Sessions
          /\ Recorded(session) \in Sessions
        BY <1>1, <1>5, ReportFields DEF ReportMove
    <2>2. Recorded(session).gen = session.gen
        BY <1>1 DEF Recorded, Sessions
    <2>3. Closed(session).gen = session.gen
        BY <2>1, <2>2 DEF Closed, Sessions
    <2>4. ShowNext(Recorded(session)).gen = session.gen
        BY <2>1, <2>2 DEF ShowNext, Push, Sessions
    <2>5. CompleteGoal(Closed(session)).gen = session.gen
        BY <2>1, <2>3 DEF CompleteGoal, Push, Sessions
    <2>6. NextGeneration([Closed(session) EXCEPT !.state = "CardShown"]).gen
             = session.gen + 1
        BY <2>1, <2>3 DEF NextGeneration, Sessions
    <2>7. Rejected(Declined(session)).gen = session.gen
        BY <1>1 DEF Rejected, Declined, Push, Sessions
    <2> QED
        BY <1>5, <2>4, <2>5, <2>6, <2>7 DEF ReportMove
<1> QED
    BY <1>2, <1>3, <1>4, <1>5 DEF Moves, LocalMove
-----------------------------------------------------------------------------
(***************************************************************************)
(* The editor is never behind the engine                                   *)
(***************************************************************************)
\* The types the view's invariant is about.
LEMMA ViewTypes ==
    ASSUME EInv
    PROVE  /\ turn \in Turns /\ turn.id \in Nat /\ view \in Views
           /\ view.turn \in Nat /\ session \in Sessions /\ session.gen \in Nat
           /\ \A n \in notices : n.turn \in Nat
           /\ NoView.turn = 0 /\ NoView.card = NoCard
BY DEF EInv, SInv, CInv, IInv, TypeOK, Turns, Views, Sessions, NoView

\* A turn at work, or one that ends, leaves the view alone.
LEMMA TurnStepKeepsTheView ==
    ASSUME EInv, TurnStep, UNCHANGED <<server, view, overtaken>>,
           session'.gen \in {session.gen, session.gen + 1}
    PROVE  Current'
<1>1. /\ turn \in Turns /\ turn.id \in Nat /\ view \in Views
      /\ view.turn \in Nat /\ session \in Sessions /\ session.gen \in Nat
      /\ \A n \in notices : n.turn \in Nat
    BY ViewTypes
<1>2. Live
    BY DEF TurnStep, StartTurn, PlainAction, AbandoningTurn,
           GoalCancelled, AcceptCancelled, Answer, ReportRefused,
           AcceptShowsNext, AcceptCompletesGoal, CompletionCancelled,
           AcceptContinues, SpeculationTaken, RejectDraft,
           RejectAcceptCancelled, RejectGoalCancelled, Accepting,
           Rejecting, Applying, Live
<1>3. /\ turn.id \in 1..session.gen
      /\ \A n \in notices : n.turn \in 1..session.gen /\ n.turn < turn.id
    BY <1>2 DEF EInv, Current, IdsAreOrdered, Live
<1>4. /\ view.card = NoCard
      /\ Serving => view.turn = 0
      /\ ~Serving => server = "idle" /\ view.turn = turn.id
    BY <1>2, ViewTypes DEF EInv, Current, TurnIsAwaited, ViewIsTheLastCard
<1>5. \A n \in notices : n.turn # view.turn /\ n.turn # turn.id
    BY <1>1, <1>3, <1>4
<1>6. view.turn # 0 => turn.id = view.turn
    BY <1>4
<1>7. ViewIsTheLastCard'
    BY <1>4 DEF ViewIsTheLastCard
<1>8. session'.gen \in Nat /\ 1..session.gen \subseteq 1..session'.gen
    BY <1>1
<1>9. Serving' <=> Serving
    BY DEF Serving
<1>10. ASSUME TurnOn PROVE Current'
    <2>1. /\ Live' /\ turn'.id = turn.id /\ notices' = notices
          /\ turn'.pc # "done"
        BY <1>10 DEF TurnOn, Live
    <2>2. IdsAreOrdered'
        BY <1>3, <1>8, <2>1 DEF IdsAreOrdered
    <2>3. TurnIsAwaited'
        BY <1>2, <1>9, <2>1 DEF EInv, Current, TurnIsAwaited, Live
    <2>4. ResultIsTheLastCard' /\ YieldedIsAnnounced'
        BY <1>5, <2>1 DEF ResultIsTheLastCard, YieldedIsAnnounced
    <2>5. WorkingCardHasATurn'
        BY <1>6, <2>1 DEF WorkingCardHasATurn
    <2> QED
        BY <1>7, <2>2, <2>3, <2>4, <2>5 DEF Current
<1>11. ASSUME TurnOver PROVE Current'
    <2>1. PICK d : /\ d.id = turn.id /\ d.pc = "done"
                   /\ d.ok => d.card = session'.last
                   /\ Deliver(d)
        BY <1>11 DEF TurnOver
    <2> DEFINE m == Notice(d)
    <2>2. /\ m.turn = turn.id /\ m.ok = d.ok /\ m.card = d.card
        BY <2>1 DEF Notice
    <2> HIDE DEF m
    <2>3. CASE server = "serving"
        <3>1. turn' = d /\ notices' = notices /\ ~Live' /\ Serving
            BY <2>1, <2>3 DEF Deliver, Live, Serving
        <3>2. IdsAreOrdered'
            BY <1>3, <1>8, <2>1, <3>1 DEF IdsAreOrdered
        <3>3. TurnIsAwaited'
            BY <1>9, <2>1, <3>1 DEF EInv, Current, TurnIsAwaited
        <3>4. ResultIsTheLastCard' /\ YieldedIsAnnounced'
            BY <1>5, <2>1, <2>3, <3>1 DEF ResultIsTheLastCard, YieldedIsAnnounced
        <3>5. WorkingCardHasATurn'
            BY <1>4, <3>1 DEF WorkingCardHasATurn
        <3> QED
            BY <1>7, <3>2, <3>3, <3>4, <3>5 DEF Current
    <2>4. CASE server = "yielding"
        <3>1. turn' = d /\ notices' = notices \cup {m} /\ ~Live' /\ Serving
            BY <2>1, <2>4 DEF Deliver, Announced, Live, Serving, m
        <3>2. IdsAreOrdered'
            BY <1>3, <1>8, <2>1, <2>2, <2>4, <3>1 DEF IdsAreOrdered
        <3>3. TurnIsAwaited'
            BY <1>9, <2>1, <3>1 DEF EInv, Current, TurnIsAwaited
        <3>4. ResultIsTheLastCard'
            BY <1>5, <2>1, <2>2, <3>1 DEF ResultIsTheLastCard
        <3>5. YieldedIsAnnounced'
            BY <2>1, <2>2, <3>1 DEF YieldedIsAnnounced
        <3>6. WorkingCardHasATurn'
            BY <1>4, <3>1 DEF WorkingCardHasATurn
        <3> QED
            BY <1>7, <3>2, <3>3, <3>4, <3>5, <3>6 DEF Current
    <2>5. CASE server = "idle"
        <3>1. turn' = NoTurn /\ notices' = notices \cup {m} /\ ~Serving
            BY <2>1, <2>5 DEF Deliver, Announced, Serving, m
        <3>2. turn'.pc = "none" /\ ~Live'
            BY <3>1, NoTurnType DEF Live
        <3>3. IdsAreOrdered'
            BY <1>3, <1>8, <2>2, <3>1, <3>2 DEF IdsAreOrdered
        <3>4. TurnIsAwaited' /\ YieldedIsAnnounced'
            BY <1>9, <3>1, <3>2 DEF TurnIsAwaited, YieldedIsAnnounced
        <3>5. ResultIsTheLastCard'
            BY <1>5, <2>1, <2>2, <3>1, <3>2 DEF ResultIsTheLastCard
        <3>6. WorkingCardHasATurn'
            BY <1>6, <2>2, <3>1 DEF WorkingCardHasATurn
        <3> QED
            BY <1>7, <3>3, <3>4, <3>5, <3>6 DEF Current
    <2> QED
        BY <1>4, <2>3, <2>4, <2>5 DEF Serving
<1>12. TurnOn \/ TurnOver
    BY TurnGoesOnOrEnds DEF EInv
<1> QED
    BY <1>10, <1>11, <1>12

\* A step that leaves no turn behind, and no working card.
LEMMA NoTurnView ==
    ASSUME EInv, turn'.pc = "none", UNCHANGED notices,
           server' \notin {"serving", "yielding"}, view'.turn = 0,
           view'.card # NoCard => view'.card = session'.last,
           session'.gen \in {session.gen, session.gen + 1}
    PROVE  Current'
<1>1. /\ session.gen \in Nat
      /\ \A n \in notices : n.turn \in 1..session.gen /\ n.turn # 0
    BY ViewTypes DEF EInv, Current, IdsAreOrdered
<1>2. 1..session.gen \subseteq 1..session'.gen
    BY <1>1
<1>3. ~Live'
    BY DEF Live
<1>4. IdsAreOrdered'
    BY <1>1, <1>2 DEF IdsAreOrdered
<1>5. TurnIsAwaited' /\ YieldedIsAnnounced' /\ ResultIsTheLastCard'
    BY <1>1, <1>3
    DEF TurnIsAwaited, YieldedIsAnnounced, ResultIsTheLastCard, Serving
<1>6. ViewIsTheLastCard' /\ WorkingCardHasATurn'
    BY <1>3 DEF ViewIsTheLastCard, WorkingCardHasATurn
<1> QED
    BY <1>4, <1>5, <1>6 DEF Current

LEMMA ServeView == ASSUME EInv, NEW cmd, Serve(cmd) PROVE Current'
<1>1. /\ session \in Sessions /\ session.gen \in Nat
      /\ \A n \in notices : n.turn \in 1..session.gen /\ n.turn # 0
    BY ViewTypes DEF EInv, Current, IdsAreOrdered
<1>2. session'.gen = session.gen + 1
    BY <1>1 DEF Serve, NextGeneration, Sessions
<1>3. /\ turn'.pc = "queued" /\ turn'.id = session'.gen
      /\ server' = "serving" /\ view' = NoView /\ notices' = notices
    BY DEF Serve, Spawn
<1>4. NoView.turn = 0 /\ NoView.card = NoCard
    BY ViewTypes
<1>5. \A n \in notices : n.turn \in 1..session'.gen /\ n.turn < turn'.id
    BY <1>1, <1>2, <1>3
<1>6. IdsAreOrdered'
    BY <1>1, <1>2, <1>3, <1>5 DEF IdsAreOrdered
<1>7. TurnIsAwaited' /\ YieldedIsAnnounced'
    BY <1>3 DEF TurnIsAwaited, YieldedIsAnnounced, Serving
<1>8. turn'.id \in Nat /\ \A n \in notices : n.turn # turn'.id
    BY <1>1, <1>2, <1>3, <1>5
<1>9. ResultIsTheLastCard' /\ ViewIsTheLastCard' /\ WorkingCardHasATurn'
    BY <1>1, <1>3, <1>4, <1>8
    DEF ResultIsTheLastCard, ViewIsTheLastCard, WorkingCardHasATurn
<1> QED
    BY <1>6, <1>7, <1>9 DEF Current

LEMMA DroppedView ==
    ASSUME EInv, CancelRequest \/ StopRequest,
           session'.gen \in {session.gen, session.gen + 1}
    PROVE  Current'
<1>1. /\ turn'.pc = "none" /\ server' \notin {"serving", "yielding"}
      /\ UNCHANGED notices
    BY NoTurnType DEF CancelRequest, StopRequest
<1>2. view'.turn = 0 /\ view'.card = NoCard
    BY ViewTypes DEF CancelRequest, StopRequest
<1> QED
    BY <1>1, <1>2, NoTurnView

LEMMA ReturnView == ASSUME EInv, Return PROVE Current'
<1>1. /\ turn'.pc = "none" /\ server' \notin {"serving", "yielding"}
      /\ UNCHANGED notices
    BY NoTurnType DEF Return
<1>2. turn.ok => turn.card = session.last
    BY DEF Return, EInv, Current, ResultIsTheLastCard
<1>3. view'.turn = 0 /\ (view'.card # NoCard => view'.card = session'.last)
    BY <1>2 DEF Return, Showing, NoView
<1>4. session'.gen = session.gen
    BY DEF Return
<1> QED
    BY <1>1, <1>3, <1>4, NoTurnView

\* The notifier of a yielded turn has the result that is there already.
LEMMA YieldView == ASSUME EInv, Yield PROVE Current'
<1>1. /\ turn \in Turns /\ turn.id \in Nat /\ session.gen \in Nat
      /\ \A n \in notices : n.turn \in Nat
    BY ViewTypes
<1>2. /\ UNCHANGED <<session, turn, view, overtaken>> /\ server' = "yielding"
      /\ server = "serving" /\ Serving /\ Serving' /\ (Live' <=> Live)
    BY DEF Yield, Serving, Live
<1>3. turn.pc # "none" /\ view = NoView
    BY <1>2 DEF EInv, Current, TurnIsAwaited
<1>4. /\ turn.id \in 1..session.gen
      /\ \A n \in notices : n.turn \in 1..session.gen /\ n.turn < turn.id
    BY <1>2, <1>3 DEF EInv, Current, IdsAreOrdered
<1>5. view.turn = 0 /\ view.card = NoCard
    BY <1>3, ViewTypes
<1>6. TurnIsAwaited' /\ ViewIsTheLastCard' /\ WorkingCardHasATurn'
    BY <1>2, <1>3, <1>5
    DEF TurnIsAwaited, ViewIsTheLastCard, WorkingCardHasATurn
<1>7. turn.pc = "done" /\ turn.ok => turn.card = session.last
    BY DEF EInv, Current, ResultIsTheLastCard
<1>8. \A n \in notices : n.turn # turn.id /\ n.turn # view.turn
    BY <1>1, <1>4, <1>5
<1> DEFINE m == Notice(turn)
<1>9. m.turn = turn.id /\ m.ok = turn.ok /\ m.card = turn.card
    BY DEF Notice
<1>10. notices' = IF turn.pc = "done" THEN notices \cup {m} ELSE notices
    BY DEF Yield, Announced
<1> HIDE DEF m
<1>11. CASE turn.pc = "done"
    <2>1. ~Live
        BY <1>11 DEF Live
    <2>2. IdsAreOrdered'
        BY <1>2, <1>4, <1>9, <1>10, <1>11 DEF IdsAreOrdered
    <2>3. YieldedIsAnnounced'
        BY <1>2, <1>9, <1>10, <1>11 DEF YieldedIsAnnounced
    <2>4. ResultIsTheLastCard'
        BY <1>2, <1>7, <1>8, <1>9, <1>10, <1>11, <2>1 DEF ResultIsTheLastCard
    <2> QED
        BY <1>6, <2>2, <2>3, <2>4 DEF Current
<1>12. CASE turn.pc # "done"
    <2>1. IdsAreOrdered'
        BY <1>2, <1>4, <1>10, <1>12 DEF IdsAreOrdered
    <2>2. YieldedIsAnnounced' /\ ResultIsTheLastCard'
        BY <1>2, <1>8, <1>10, <1>12 DEF YieldedIsAnnounced, ResultIsTheLastCard
    <2> QED
        BY <1>6, <2>1, <2>2 DEF Current
<1> QED
    BY <1>11, <1>12

\* The working card: its turn runs on, its result is on its way, or it was
\* there before.
LEMMA WriteWorkingView == ASSUME EInv, WriteWorking PROVE Current'
<1>1. /\ turn \in Turns /\ turn.id \in Nat /\ session.gen \in Nat
      /\ \A n \in notices : n.turn \in Nat
    BY ViewTypes
<1>2. /\ UNCHANGED <<session, notices, overtaken>> /\ server' = "idle"
      /\ server = "yielding" /\ Serving /\ ~Serving'
    BY DEF WriteWorking, Serving
<1>3. turn.pc # "none"
    BY <1>2 DEF EInv, Current, TurnIsAwaited
<1>4. view'.turn = turn.id /\ view'.card = NoCard
    BY DEF WriteWorking, Working
<1>5. ViewIsTheLastCard'
    BY <1>4 DEF ViewIsTheLastCard
<1>6. /\ turn.id \in 1..session.gen
      /\ \A n \in notices : n.turn \in 1..session.gen
    BY <1>3 DEF EInv, Current, IdsAreOrdered
<1>7. CASE turn.pc = "done"
    <2>1. turn'.pc = "none" /\ ~Live' /\ ~Live
        BY <1>7, NoTurnType DEF WriteWorking, Live
    <2>2. IdsAreOrdered' /\ TurnIsAwaited' /\ YieldedIsAnnounced'
        BY <1>2, <1>6, <2>1
        DEF IdsAreOrdered, TurnIsAwaited, YieldedIsAnnounced
    <2>3. ResultIsTheLastCard'
        BY <1>2, <1>3, <1>4, <2>1 DEF EInv, Current, ResultIsTheLastCard
    <2>4. WorkingCardHasATurn'
        BY <1>2, <1>4, <1>7
        DEF EInv, Current, YieldedIsAnnounced, WorkingCardHasATurn, Overtaken
    <2> QED
        BY <1>5, <2>2, <2>3, <2>4 DEF Current
<1>8. CASE turn.pc # "done"
    <2>1. turn' = turn /\ Live' /\ Live
        BY <1>3, <1>8 DEF WriteWorking, Live
    <2>2. \A n \in notices : n.turn < turn.id
        BY <1>3, <1>8 DEF EInv, Current, IdsAreOrdered
    <2>3. IdsAreOrdered' /\ TurnIsAwaited' /\ YieldedIsAnnounced'
        BY <1>2, <1>4, <1>6, <1>8, <2>1, <2>2
        DEF IdsAreOrdered, TurnIsAwaited, YieldedIsAnnounced
    <2>4. \A n \in notices : n.turn # turn.id
        BY <1>1, <2>2
    <2>5. ResultIsTheLastCard' /\ WorkingCardHasATurn'
        BY <1>2, <1>4, <1>8, <2>1, <2>4
        DEF ResultIsTheLastCard, WorkingCardHasATurn
    <2> QED
        BY <1>5, <2>3, <2>5 DEF Current
<1> QED
    BY <1>7, <1>8

LEMMA ReadyView == ASSUME EInv, Ready PROVE Current'
<1>1. PICK n \in notices :
          /\ notices' = notices \ {n}
          /\ IF Awaited(n)
               THEN view' = IF n.ok THEN Showing(n.card) ELSE NoView
               ELSE UNCHANGED view
          /\ overtaken' = IF server = "yielding" /\ turn.id = n.turn
                            THEN n.turn ELSE overtaken
    BY DEF Ready
<1>2. UNCHANGED <<session, turn, server>> /\ (Live' <=> Live)
      /\ (Serving' <=> Serving)
    BY DEF Ready, Live, Serving
<1>3. IdsAreOrdered'
    BY <1>1, <1>2 DEF EInv, Current, IdsAreOrdered
<1>4. /\ Showing(n.card).turn = 0 /\ Showing(n.card).card = n.card
      /\ NoView.turn = 0 /\ NoView.card = NoCard
    BY DEF Showing, NoView
<1>5. \A m \in notices : m.turn # 0
    BY ViewTypes DEF EInv, Current, IdsAreOrdered
<1>6. YieldedIsAnnounced'
    BY <1>1, <1>2 DEF EInv, Current, YieldedIsAnnounced
<1>7. CASE Awaited(n)
    <2>1. n.turn = view.turn /\ view.turn # 0
        BY <1>5, <1>7 DEF Awaited
    <2>2. ~Live /\ (n.ok => n.card = session.last) /\ ~Serving
        BY <1>4, <2>1 DEF EInv, Current, ResultIsTheLastCard, TurnIsAwaited
    <2>3. /\ view'.turn = 0
          /\ view'.card # NoCard => view'.card = session.last
        BY <1>1, <1>4, <1>7, <2>2
    <2>4. TurnIsAwaited'
        BY <1>2, <2>2 DEF EInv, Current, TurnIsAwaited
    <2>5. ResultIsTheLastCard'
        BY <1>1, <1>2, <1>5, <2>3 DEF EInv, Current, ResultIsTheLastCard
    <2>6. ViewIsTheLastCard' /\ WorkingCardHasATurn'
        BY <1>2, <2>2, <2>3 DEF ViewIsTheLastCard, WorkingCardHasATurn
    <2> QED
        BY <1>3, <1>6, <2>4, <2>5, <2>6 DEF Current
<1>8. CASE ~Awaited(n)
    <2>1. view' = view /\ n.turn # view.turn
        BY <1>1, <1>8 DEF Awaited
    <2>2. TurnIsAwaited' /\ ViewIsTheLastCard' /\ ResultIsTheLastCard'
        BY <1>1, <1>2, <2>1
        DEF EInv, Current, TurnIsAwaited, ViewIsTheLastCard, ResultIsTheLastCard
    <2>3. WorkingCardHasATurn'
        <3>1. view.turn = 0 => WorkingCardHasATurn'
            BY <2>1 DEF WorkingCardHasATurn
        <3>2. ASSUME view.turn # 0 PROVE WorkingCardHasATurn'
            <4>1. server # "yielding"
                BY <1>4, <3>2 DEF EInv, Current, TurnIsAwaited, Serving
            <4>2. overtaken' = overtaken
                BY <1>1, <4>1
            <4> QED
                BY <1>1, <1>2, <2>1, <4>2
                DEF EInv, Current, WorkingCardHasATurn, Overtaken
        <3> QED
            BY <3>1, <3>2
    <2> QED
        BY <1>3, <1>6, <2>2, <2>3 DEF Current
<1> QED
    BY <1>7, <1>8

LEMMA InitEInv == Init => EInv
<1> SUFFICES ASSUME Init PROVE EInv
    OBVIOUS
<1>1. SInv
    BY InitSInv
<1>2. /\ session.gen = 1 /\ session.last = NoCard
      /\ turn.pc = "queued" /\ turn.id = 1 /\ Live
    BY DEF Init, NewSession, Spawn, Live
<1>3. view = NoView /\ notices = {} /\ server = "serving"
      /\ NoView.turn = 0 /\ NoView.card = NoCard
    BY DEF Init, NoView
<1>4. Current
    BY <1>2, <1>3
    DEF Current, IdsAreOrdered, TurnIsAwaited, YieldedIsAnnounced,
        ResultIsTheLastCard, ViewIsTheLastCard, WorkingCardHasATurn, Serving
<1> QED
    BY <1>1, <1>4 DEF EInv

LEMMA NextEInv == EInv /\ [Next]_vars => EInv'
<1> SUFFICES ASSUME EInv, [Next]_vars PROVE EInv'
    OBVIOUS
<1>1. SInv /\ SInv' /\ Moves
    BY NextSInv, NextMoves DEF EInv, SInv
<1>2. session'.gen \in {session.gen, session.gen + 1}
    BY <1>1, GenerationsGrow
<1>3. CASE TurnStep
    <2>1. UNCHANGED <<server, view, overtaken>>
        BY <1>3
        DEF TurnStep, StartTurn, PlainAction, AbandoningTurn,
            GoalCancelled, AcceptCancelled, Answer, ReportRefused,
            AcceptShowsNext, AcceptCompletesGoal, CompletionCancelled,
            AcceptContinues, SpeculationTaken, RejectDraft,
            RejectAcceptCancelled, RejectGoalCancelled, Unshown
    <2> QED
        BY <1>1, <1>2, <1>3, <2>1, TurnStepKeepsTheView DEF EInv
<1>4. CASE Request
    <2>1. ASSUME ActionRequest \/ ReplyRequest \/ ApplyReport
          PROVE  \E cmd : Serve(cmd)
        BY <2>1 DEF ActionRequest, ReplyRequest, ApplyReport
    <2> QED
        BY <1>1, <1>2, <1>4, <2>1, ServeView, DroppedView DEF Request, EInv
<1>5. CASE Return \/ Yield \/ WriteWorking \/ Ready
    BY <1>1, <1>5, ReturnView, YieldView, WriteWorkingView, ReadyView DEF EInv
<1>6. CASE SpeculationEnds \/ UNCHANGED vars
    <2>1. UNCHANGED <<session, turn, server, notices, view, overtaken>>
        BY <1>6 DEF SpeculationEnds, vars
    <2>2. IdsAreOrdered' /\ TurnIsAwaited' /\ YieldedIsAnnounced'
        BY <2>1
        DEF EInv, Current, IdsAreOrdered, TurnIsAwaited, YieldedIsAnnounced,
            Serving, Live
    <2>3. ResultIsTheLastCard' /\ ViewIsTheLastCard' /\ WorkingCardHasATurn'
        BY <2>1
        DEF EInv, Current, ResultIsTheLastCard, ViewIsTheLastCard,
            WorkingCardHasATurn, Overtaken, Live
    <2> QED
        BY <1>1, <2>2, <2>3 DEF EInv, Current
<1> QED
    BY <1>3, <1>4, <1>5, <1>6 DEF Next

LEMMA AlwaysEInv == Spec => []EInv
BY InitEInv, NextEInv, PTL DEF Spec

\* The editor never shows a card the session has left behind, and waits behind
\* a working card only for a turn that runs or a result that is on its way,
\* in every order of answers, requests, deadlines and notices, but for the
\* notice that was written before its working card (run_turn, abort_pending,
\* cancel_turn and the turn_ready notifier).
THEOREM EditorIsAlwaysCurrent == Spec => []EditorIsCurrent
<1>1. EInv => EditorIsCurrent
    BY DEF EInv, Current, EditorIsCurrent, EditorShowsTheLastCard,
           ViewIsTheLastCard
<1> QED
    BY <1>1, AlwaysEInv, PTL
-----------------------------------------------------------------------------
(***************************************************************************)
(* What a move does to the decisions                                       *)
(***************************************************************************)
\* Nothing but a report decides a proposal.
LEMMA BodyFields ==
    ASSUME NEW s \in Sessions, NEW t, BodyMove(s, t)
    PROVE  /\ t.steps = s.steps /\ t.refused = s.refused
           /\ t.queue = s.queue /\ t.draft = s.draft
           /\ UnderReview(t) => UnderReview(s)
           /\ UnderReview(s) => UnderReview(t) \/ t.state = "Finished"
BY ZenonT(60) DEF BodyMove, GoalOn, Stopped, Resumed, StopCard, PlainCard, Push,
       Sessions, UnderReview

LEMMA LoopFields ==
    ASSUME NEW s \in Sessions, NEW t, LoopMove(s, t)
    PROVE  /\ t.steps = s.steps /\ t.refused = s.refused
           /\ t.queue = s.queue /\ t.draft = s.draft
<1> DEFINE g == NextGeneration(s)
<1>1. /\ g \in Sessions /\ g.steps = s.steps /\ g.refused = s.refused
      /\ g.queue = s.queue /\ g.draft = s.draft
    BY DEF NextGeneration, Sessions
<1>2. CASE t = Stopped(g)
    <2>1. BodyMove(g, t)
        BY <1>2 DEF BodyMove
    <2> HIDE DEF g
    <2> QED
        BY <1>1, <2>1, BodyFields
<1>3. CASE t = NextGeneration(Cancelled(s))
    <2> DEFINE c == Cancelled(s)
               k == ContinuationCancelledCard
    <2>1. c \in Sessions
        BY CancelledKeeps, EngineAssumption
    <2>2. /\ Paused(s) \in Sessions
          /\ Paused(s).steps = s.steps /\ Paused(s).refused = s.refused
          /\ Paused(s).queue = s.queue /\ Paused(s).draft = s.draft
        BY DEF Paused, Sessions
    <2>3. k.kind = "finding"
        BY DEF ContinuationCancelledCard, PlainCard
    <2> HIDE DEF k
    <2>4. /\ c.steps = s.steps /\ c.refused = s.refused
          /\ c.queue = s.queue /\ c.draft = s.draft
        BY <2>2, <2>3 DEF Cancelled, Push, Sessions, k
    <2> HIDE DEF c
    <2>5. /\ t.steps = c.steps /\ t.refused = c.refused
          /\ t.queue = c.queue /\ t.draft = c.draft
        BY <1>3, <2>1 DEF NextGeneration, Sessions, c
    <2> QED
        BY <2>4, <2>5
<1> QED
    BY <1>1, <1>2, <1>3 DEF LoopMove

\* What a report decides, and what it leaves of the batch.
ShowsTheRest(s, t) ==
    /\ s.queue # <<>> /\ t.queue = Tail(s.queue)
    /\ t.state = "PatchShown" /\ t.last = Head(s.queue)
    /\ t.last.kind = "patch" => t.draft = t.last
ClosesTheReview(t) == t.queue = <<>> /\ ~UnderReview(t)

LEMMA ReportDecides ==
    ASSUME NEW s \in Sessions, NEW t, ReportMove(s, t)
    PROVE  \/ /\ t.steps = s.steps \cup {s.last.no}
              /\ t.refused = s.refused
              /\ \/ ShowsTheRest(s, t)
                 \/ s.queue = <<>> /\ ClosesTheReview(t)
           \/ /\ t.steps = s.steps
              /\ t.refused = s.refused \cup {s.last.no}
              /\ ClosesTheReview(t)
<1> DEFINE r == Recorded(s)
           c == Closed(s)
<1>1. /\ r \in Sessions /\ r.queue = s.queue
      /\ c \in Sessions /\ c.queue = s.queue
      /\ r.steps = s.steps \cup {s.last.no} /\ r.refused = s.refused
      /\ c.steps = s.steps \cup {s.last.no} /\ c.refused = s.refused
    BY ReportFields DEF ReportMove
<1> HIDE DEF r, c
<1>2. CASE s.queue # <<>> /\ t = ShowNext(r)
    BY <1>1, <1>2 DEF ShowNext, Push, Sessions, ShowsTheRest
<1>3. CASE s.queue = <<>> /\ t = CompleteGoal(c)
    BY <1>1, <1>3
    DEF CompleteGoal, Push, PlainCard, Sessions, ClosesTheReview, UnderReview
<1>4. CASE s.queue = <<>> /\ t = NextGeneration([c EXCEPT !.state = "CardShown"])
    BY <1>1, <1>4 DEF NextGeneration, Sessions, ClosesTheReview, UnderReview
<1>5. CASE t = Rejected(Declined(s))
    BY <1>5
    DEF Rejected, Declined, Push, PlainCard, Sessions, ClosesTheReview,
        UnderReview
<1> QED
    BY <1>2, <1>3, <1>4, <1>5 DEF ReportMove, r, c

\* The committed session and the answer an answer move puts on it.
LEMMA AnswerMoveFields ==
    ASSUME SInv, AnswerMove
    PROVE  \E r \in BackendAnswers :
             /\ r.hunks \in Nat /\ made + r.hunks <= MaxProposals
             /\ made' = made + r.hunks
             /\ session'.steps = session.steps
             /\ session'.refused = session.refused
             /\ r.kind # "patch" =>
                  /\ r.hunks = 0
                  /\ session'.draft = session.draft
                  /\ session'.queue = <<>>
                  /\ session'.last.kind # "patch"
                  /\ UnderReview(session') => UnderReview(session)
             /\ r.kind = "patch" =>
                  /\ r.hunks >= 1
                  /\ session'.state = "PatchShown"
                  /\ session'.draft.no = made + 1
                  /\ Len(session'.queue) = r.hunks - 1
                  /\ \A i \in 1..(r.hunks - 1) :
                         session'.queue[i].no = made + 1 + i
<1>1. PICK r \in Answers(turn.exp) :
          /\ made + r.hunks <= MaxProposals
          /\ made' = made + r.hunks
          /\ session' = AcceptResponse(turn.s, r, turn.exp, made)
    BY DEF AnswerMove
<1>2. /\ r \in BackendAnswers /\ r.hunks \in Nat /\ made \in Nat
    BY AnswersType, AnswerHunks DEF SInv, CInv, IInv, TypeOK
<1>3. turn.s \in Sessions /\ Asking
    BY LiveClone DEF AnswerMove, Live, SInv, CInv, CloneIsKnown
<1> DEFINE t == session'
           e == turn.exp
           cards == ReviewCards(r, made)
<1>4. /\ t.state = StateAfterCard(r.kind, e)
      /\ t.steps = turn.s.steps /\ t.refused = turn.s.refused
      /\ r.kind # "patch" =>
           /\ t.last = PlainCard(r.kind, AnswerOffers(r.kind, e))
           /\ t.draft = turn.s.draft /\ t.queue = <<>>
      /\ r.kind = "patch" =>
           /\ r \in PatchAnswers \cup FileOpAnswers
           /\ t.last = cards[1] /\ t.draft = cards[1]
           /\ t.queue = Tail(cards)
    BY <1>1, <1>2, <1>3, AnswerFields
<1>5. /\ t.state = "PatchShown" => r.kind = "patch"
      /\ t.state = "PatchExplained" => e = "GoalWhy"
      /\ r.kind = "patch" => t.state = "PatchShown"
    BY <1>4, StateAfterCardShape
<1>6. ASSUME r.kind # "patch"
      PROVE  /\ r.hunks = 0
             /\ t.draft = session.draft /\ t.last.kind # "patch"
             /\ UnderReview(t) => UnderReview(session)
    <2>1. r.hunks = 0
        <3>1. r \notin PatchAnswers \cup FileOpAnswers
            BY <1>6 DEF PatchAnswers, FileOpAnswers
        <3> QED
            BY <1>2, <3>1 DEF BackendAnswers, PlainAnswer
    <2>2. t.last.kind # "patch"
        BY <1>4, <1>6 DEF PlainCard
    <2> QED
        BY <1>3, <1>4, <1>5, <1>6, <2>1, <2>2
        DEF Asking, SameReview, UnderReview
<1>7. ASSUME r.kind = "patch"
      PROVE  /\ r.hunks >= 1 /\ t.draft.no = made + 1
             /\ Len(t.queue) = r.hunks - 1
             /\ \A i \in 1..(r.hunks - 1) : t.queue[i].no = made + 1 + i
    <2>1. /\ r.hunks >= 1 /\ Len(Tail(cards)) = r.hunks - 1
          /\ \A i \in 1..r.hunks : cards[i].no = made + i
          /\ \A i \in 1..(r.hunks - 1) : Tail(cards)[i] = cards[i + 1]
        <3>1. cards = ReviewCards(r, made)
            OBVIOUS
        <3>2. r \in PatchAnswers \cup FileOpAnswers
            BY <1>4, <1>7
        <3>3. made \in Nat /\ made + r.hunks <= MaxProposals
            BY <1>1, <1>2
        <3> HIDE DEF cards
        <3> QED
            BY <3>1, <3>2, <3>3, ReviewCardsNumbered
    <2> HIDE DEF cards
    <2>2. t.draft = cards[1] /\ t.queue = Tail(cards)
        BY <1>4, <1>7
    <2>3. ASSUME NEW i \in 1..(r.hunks - 1)
          PROVE  t.queue[i].no = made + 1 + i
        <3>1. i \in Nat /\ i + 1 \in 1..r.hunks
            BY <1>2
        <3>2. t.queue[i] = cards[i + 1] /\ cards[i + 1].no = made + (i + 1)
            BY <2>1, <2>2, <3>1
        <3> QED
            BY <1>2, <3>1, <3>2
    <2> QED
        BY <1>2, <2>1, <2>2, <2>3
<1>8. t.steps = session.steps /\ t.refused = session.refused
    BY <1>3, <1>4 DEF Asking, SameReview
<1> HIDE DEF t
<1> QED
    BY <1>1, <1>2, <1>4, <1>5, <1>6, <1>7, <1>8 DEF t
-----------------------------------------------------------------------------
(***************************************************************************)
(* The engine implements the abstract review                               *)
(***************************************************************************)
QueueNumbers(s) == {s.queue[i].no : i \in 1..Len(s.queue)}

\* The fate of proposal p in session s when m proposals have been made.
FateIn(s, m, p) ==
    IF p > m THEN "unborn"
    ELSE IF p \in s.steps THEN "accepted"
    ELSE IF p \in s.refused THEN "rejected"
    ELSE IF UnderReview(s) /\ p = s.draft.no THEN "pending"
    ELSE IF UnderReview(s) /\ p \in QueueNumbers(s) THEN "queued"
    ELSE "dropped"

Before == [p \in Serials |-> FateIn(session, made, p)]
After == [p \in Serials |-> FateIn(session', made', p)]

LEMMA FatesAre ==
    /\ [p \in Serials |-> Fate(p)] = Before
    /\ [p \in Serials |-> Fate(p)]' = After
BY DEF Before, After, Fate, FateIn, Reviewing, UnderReview, InQueue,
       QueueNumbers, Serials

\* A patch on the screen is pending, unless it was accepted: what a
\* cancellation must tell apart.
LEMMA PatchStaysOpen ==
    SInv /\ PatchIsOpen /\ [Next]_vars => PatchIsOpen'
<1> SUFFICES ASSUME SInv, PatchIsOpen, [Next]_vars PROVE PatchIsOpen'
    OBVIOUS
<1>1. SInv' /\ Moves /\ session \in Sessions
    BY NextSInv, NextMoves DEF SInv, CInv, IInv, TypeOK
<1>2. CASE AnswerMove
    BY <1>1, <1>2, AnswerMoveFields DEF PatchIsOpen
<1>3. CASE BodyMove(session, session')
    BY <1>1, <1>3
    DEF PatchIsOpen, BodyMove, GoalOn, Stopped, Resumed, StopCard, PlainCard,
        Push, Sessions
<1>4. CASE ReportMove(session, session')
    <2>1. /\ Reviewed(session) /\ session.last = session.draft
        BY <1>4 DEF ReportMove, SInv, InReview, DraftIsKnown, Reviewed
    <2> DEFINE c == Closed(session)
    <2>2. /\ c \in Sessions /\ c.last = session.last
          /\ c.draft = session.draft
          /\ c.steps = session.steps \cup {session.last.no}
        BY <1>1, <2>1, ReportFields
    <2> HIDE DEF c
    <2>3. CASE session' = ShowNext(Recorded(session))
        BY <1>1, <2>1, <2>3, ReportFields
        DEF ShowNext, Push, Sessions, PatchIsOpen
    <2>4. CASE session' = CompleteGoal(c)
        BY <2>2, <2>4 DEF CompleteGoal, Push, PlainCard, Sessions, PatchIsOpen
    <2>5. CASE session' = NextGeneration([c EXCEPT !.state = "CardShown"])
        BY <2>1, <2>2, <2>5 DEF NextGeneration, Sessions, PatchIsOpen
    <2>6. CASE session' = Rejected(Declined(session))
        BY <1>1, <2>6
        DEF Rejected, Declined, Push, PlainCard, Sessions, PatchIsOpen
    <2> QED
        BY <1>4, <2>3, <2>4, <2>5, <2>6 DEF ReportMove, c
<1>5. CASE LoopMove(session, session')
    <2> DEFINE g == NextGeneration(session)
               c == Cancelled(session)
    <2>1. /\ g \in Sessions /\ g.last = session.last
          /\ g.state = session.state /\ g.draft = session.draft
          /\ g.steps = session.steps
        BY <1>1 DEF NextGeneration, Sessions
    <2>2. c \in Sessions
        BY <1>1, CancelledKeeps, EngineAssumption
    <2>3. c.last.kind = "patch" => c.state = "PatchShown"
        <3>1. /\ Paused(session) \in Sessions
              /\ Paused(session).last = session.last
            BY <1>1 DEF Paused, Sessions
        <3>2. CASE AlreadyAccepted(session)
            BY <3>1, <3>2
            DEF Cancelled, Push, ContinuationCancelledCard, PlainCard, Sessions
        <3>3. CASE ~AlreadyAccepted(session)
            BY <3>1, <3>3 DEF Cancelled, FromCard, Sessions
        <3> QED
            BY <3>2, <3>3
    <2>4. CASE session' = NextGeneration(c)
        BY <2>2, <2>3, <2>4 DEF NextGeneration, Sessions, PatchIsOpen
    <2>5. CASE session' = Stopped(g)
        BY <2>1, <2>5
        DEF Stopped, Push, StopCard, PlainCard, Sessions, PatchIsOpen
    <2> QED
        BY <1>5, <2>1, <2>4, <2>5 DEF LoopMove, PatchIsOpen
<1> QED
    BY <1>1, <1>2, <1>3, <1>4, <1>5 DEF Moves, LocalMove

\* The pending proposal and its queue are a run of undecided numbers.
LEMMA OpenNumbers ==
    ASSUME NEW s \in Sessions, NEW m \in 0..MaxProposals, InReview(s, m),
           UnderReview(s)
    PROVE  LET d == s.draft.no
               n == Len(s.queue)
           IN  /\ d \in Serials /\ n \in Nat /\ d + n \in Serials /\ d + n <= m
               /\ QueueNumbers(s) = (d + 1)..(d + n)
               /\ \A p \in Serials :
                    /\ FateIn(s, m, p) = "pending" <=> p = d
                    /\ FateIn(s, m, p) = "queued" <=> p \in (d + 1)..(d + n)
<1> DEFINE d == s.draft.no
           n == Len(s.queue)
<1>1. m \in Nat /\ m <= MaxProposals /\ MaxProposals \in Nat
    BY EngineAssumption
<1>2. d \in 1..m /\ d \notin Decided(s)
    BY DEF InReview, DraftIsKnown, DecidedIsNotPending
<1>3. s.queue \in Seq(Cards) /\ n \in Nat
    BY DEF Sessions
<1>4. \A i \in 1..n : /\ s.queue[i].no = d + i /\ s.queue[i].no <= m
                      /\ s.queue[i].no \notin Decided(s)
    <2>1. CASE s.queue = <<>>
        BY <2>1
    <2>2. CASE s.queue # <<>>
        BY <2>2 DEF InReview, QueueFollowsTheDraft
    <2> QED
        BY <2>1, <2>2
<1>5. QueueNumbers(s) = (d + 1)..(d + n)
    <2>1. ASSUME NEW p \in QueueNumbers(s) PROVE p \in (d + 1)..(d + n)
        BY SMTT(30), <1>2, <1>3, <1>4 DEF QueueNumbers
    <2>2. ASSUME NEW p \in (d + 1)..(d + n) PROVE p \in QueueNumbers(s)
        <3>1. p - d \in 1..n /\ d + (p - d) = p
            BY <1>2, <1>3
        <3>2. s.queue[p - d].no = p
            BY <1>4, <3>1
        <3> QED
            BY <3>1, <3>2 DEF QueueNumbers
    <2> QED
        BY <2>1, <2>2
<1>6. d + n <= m
    <2>1. CASE n = 0
        BY <1>1, <1>2, <2>1
    <2>2. CASE n # 0
        <3>1. n \in 1..n
            BY <1>3, <2>2
        <3> QED
            BY <1>4, <3>1
    <2> QED
        BY <2>1, <2>2
<1>7. d \in Serials /\ d + n \in Serials
    BY <1>1, <1>2, <1>3, <1>6 DEF Serials
<1>8. \A p \in (d + 1)..(d + n) : p <= m /\ p # d /\ p \notin Decided(s)
    <2>1. ASSUME NEW p \in (d + 1)..(d + n)
          PROVE  p <= m /\ p # d /\ p \notin Decided(s)
        <3>1. p - d \in 1..n /\ d + (p - d) = p /\ p # d
            BY <1>2, <1>3
        <3>2. /\ s.queue[p - d].no = p /\ s.queue[p - d].no <= m
              /\ s.queue[p - d].no \notin Decided(s)
            BY <1>4, <3>1
        <3> QED
            BY <3>1, <3>2
    <2> QED
        BY <2>1
<1>9. ASSUME NEW p \in Serials
      PROVE  /\ FateIn(s, m, p) = "pending" <=> p = d
             /\ FateIn(s, m, p) = "queued" <=> p \in (d + 1)..(d + n)
    <2>1. p \in Nat /\ ~(d > m)
        BY <1>1, <1>2 DEF Serials
    <2>2. CASE p = d
        <3>1. FateIn(s, m, p) = "pending"
            BY <1>2, <2>1, <2>2 DEF FateIn, Decided
        <3> QED
            BY <1>8, <2>2, <3>1
    <2>3. CASE p \in (d + 1)..(d + n)
        <3>1. ~(p > m) /\ p # d /\ p \notin Decided(s)
            BY <1>1, <1>8, <2>1, <2>3
        <3>2. FateIn(s, m, p) = "queued"
            BY <1>5, <2>3, <3>1 DEF FateIn, Decided
        <3> QED
            BY <2>3, <3>1, <3>2
    <2>4. CASE p # d /\ p \notin (d + 1)..(d + n)
        BY <1>5, <2>4 DEF FateIn
    <2> QED
        BY <2>2, <2>3, <2>4
<1> QED
    BY <1>3, <1>5, <1>6, <1>7, <1>9

\* Nothing of the review changes.
LEMMA SameFates ==
    ASSUME made' = made, session'.steps = session.steps,
           session'.refused = session.refused,
           session'.queue = session.queue, session'.draft = session.draft,
           UnderReview(session') <=> UnderReview(session)
    PROVE  After = Before
BY DEF After, Before, FateIn, QueueNumbers

\* The review is left, or the queue behind the explained draft.
LEMMA DroppedFates ==
    ASSUME made' = made, session'.steps = session.steps,
           session'.refused = session.refused,
           \/ ~UnderReview(session')
           \/ /\ UnderReview(session') /\ UnderReview(session)
              /\ session'.draft = session.draft /\ session'.queue = <<>>
    PROVE  Promise!Drop
<1>1. CASE ~UnderReview(session')
    <2>1. \A p \in Serials :
              FateIn(session', made', p) =
                  IF FateIn(session, made, p) \in Promise!Open
                    THEN "dropped" ELSE FateIn(session, made, p)
        BY <1>1 DEF FateIn, Promise!Open
    <2>2. After = [p \in Serials |-> IF Before[p] \in Promise!Open
                                       THEN "dropped" ELSE Before[p]]
        BY <2>1 DEF Before, After
    <2> QED
        BY <2>2, FatesAre DEF Promise!Drop, Promise!Proposals, Serials
<1>2. CASE /\ UnderReview(session') /\ UnderReview(session)
           /\ session'.draft = session.draft /\ session'.queue = <<>>
    <2>1. QueueNumbers(session') = {}
        BY <1>2 DEF QueueNumbers
    <2>2. \A p \in Serials :
              FateIn(session', made', p) =
                  IF FateIn(session, made, p) \in {"queued"}
                    THEN "dropped" ELSE FateIn(session, made, p)
        BY <1>2, <2>1 DEF FateIn
    <2>3. After = [p \in Serials |-> IF Before[p] \in {"queued"}
                                       THEN "dropped" ELSE Before[p]]
        BY <2>2 DEF Before, After
    <2> QED
        BY <2>3, FatesAre DEF Promise!Drop, Promise!Proposals, Serials
<1> QED
    BY <1>1, <1>2

\* The report accepts the pending proposal and promotes the next, or rejects
\* it and drops the rest.
LEMMA ReportFates ==
    ASSUME SInv, SInv', made' = made, ReportMove(session, session')
    PROVE  \E p \in Promise!Proposals : Promise!Accept(p) \/ Promise!Reject(p)
<1> DEFINE s == session
           t == session'
           d == session.draft.no
           n == Len(session.queue)
           old(p) == FateIn(s, made, p)
           new(p) == FateIn(t, made, p)
<1>1. /\ s \in Sessions /\ t \in Sessions /\ made \in 0..MaxProposals
      /\ InReview(s, made) /\ InReview(t, made)
    BY DEF SInv, CInv, IInv, TypeOK
<1>2. s.state = "PatchShown" /\ UnderReview(s) /\ s.last = s.draft
    BY <1>1 DEF ReportMove, Reviewed, UnderReview, InReview, DraftIsKnown
<1>3. /\ d \in Serials /\ n \in Nat /\ d + n \in Serials /\ d + n <= made
      /\ \A p \in Serials :
           /\ old(p) = "pending" <=> p = d
           /\ old(p) = "queued" <=> p \in (d + 1)..(d + n)
    BY <1>1, <1>2, OpenNumbers
<1>4. d \in Nat /\ made \in Nat /\ Serials \subseteq Nat
    BY <1>1, <1>3 DEF Serials
<1>5. \A p \in Serials : Before[p] = old(p) /\ After[p] = new(p)
    BY DEF Before, After
<1>6. d \notin s.steps /\ d \notin s.refused
    BY <1>1, <1>2 DEF InReview, DecidedIsNotPending, Decided
<1>7. CASE /\ t.steps = s.steps \cup {d} /\ t.refused = s.refused
           /\ ShowsTheRest(s, t)
    <2>1. /\ s.queue \in Seq(Cards) /\ s.queue # <<>>
          /\ t.queue = Tail(s.queue) /\ t.last = Head(s.queue)
        BY <1>1, <1>7 DEF ShowsTheRest, Sessions
    <2>2. n >= 1 /\ t.last = s.queue[1] /\ Len(t.queue) = n - 1
        BY <2>1, HeadTailProperties, LenProperties
    <2>3. t.last.kind = "patch" /\ t.last.no = d + 1
        <3>1. 1 \in 1..n
            BY <1>3, <2>2
        <3> QED
            BY <1>1, <2>1, <2>2, <3>1 DEF InReview, QueueFollowsTheDraft
    <2>4. t.draft.no = d + 1 /\ UnderReview(t)
        BY <1>7, <2>3 DEF ShowsTheRest, UnderReview
    <2>5. \A p \in Serials :
            /\ new(p) = "pending" <=> p = d + 1
            /\ new(p) = "queued" <=> p \in (d + 1 + 1)..(d + 1 + (n - 1))
        <3> DEFINE e == t.draft.no
                   k == Len(t.queue)
        <3>1. \A p \in Serials :
                /\ new(p) = "pending" <=> p = e
                /\ new(p) = "queued" <=> p \in (e + 1)..(e + k)
            BY <1>1, <2>4, OpenNumbers
        <3>2. e = d + 1 /\ k = n - 1
            BY <2>2, <2>4
        <3> HIDE DEF new, e, k
        <3> QED
            BY <3>1, <3>2
    <2>6. d + 1 \in Serials
        BY <1>3, <1>4, <2>2, EngineAssumption DEF Serials
    <2>7. \A q \in Serials :
            (/\ old(q) = "queued" /\ q > d
             /\ \A r \in Serials : old(r) = "queued" => q <= r)
            <=> q = d + 1
        <3>1. old(d + 1) = "queued"
            BY <1>3, <1>4, <2>2, <2>6
        <3>2. \A r \in Serials : old(r) = "queued" => d + 1 <= r
            BY <1>3, <1>4
        <3>3. ASSUME NEW q \in Serials, old(q) = "queued",
                     \A r \in Serials : old(r) = "queued" => q <= r
              PROVE  q = d + 1
            BY <1>4, <2>6, <3>1, <3>2, <3>3
        <3>4. d + 1 > d
            BY <1>4
        <3> HIDE DEF old, d
        <3>5. ASSUME NEW q \in Serials, q = d + 1
              PROVE  /\ old(q) = "queued" /\ q > d
                     /\ \A r \in Serials : old(r) = "queued" => q <= r
            BY <3>1, <3>2, <3>4, <3>5
        <3> QED
            BY <3>3, <3>5
    <2>8. \A q \in Serials :
            /\ q = d => new(q) = "accepted"
            /\ q = d + 1 => new(q) = "pending"
            /\ q # d /\ q # d + 1 => new(q) = old(q)
        <3>1. new(d) = "accepted"
            BY <1>3, <1>4, <1>7 DEF FateIn
        <3>2. ASSUME NEW q \in Serials, q # d, q # d + 1
              PROVE  new(q) = old(q)
            <4>1. CASE q \in (d + 1)..(d + n)
                BY <1>3, <1>4, <2>5, <3>2, <4>1
            <4>2. CASE q \notin (d + 1)..(d + n)
                <5>1. old(q) \notin {"pending", "queued"}
                    BY <1>3, <3>2, <4>2
                <5>2. new(q) \notin {"pending", "queued"}
                    BY SMTT(30), <1>3, <1>4, <2>5, <3>2, <4>2
                <5> QED
                    BY <1>7, <3>2, <5>1, <5>2 DEF FateIn
            <4> QED
                BY <4>1, <4>2
        <3> QED
            BY <2>5, <2>6, <3>1, <3>2
    <2> HIDE DEF old, new
    <2>9. Promise!Accept(d)
        <3> DEFINE rest == {q \in Serials : Before[q] = "queued" /\ q > d
                              /\ \A r \in Serials :
                                     Before[r] = "queued" => q <= r}
        <3>1. rest = {d + 1}
            BY <1>5, <2>6, <2>7
        <3>2. \A q \in Serials :
                  After[q] = CASE q = d -> "accepted"
                               [] q \in {d + 1} -> "pending"
                               [] OTHER -> Before[q]
            BY <1>4, <1>5, <2>8
        <3>3. Before[d] = "pending"
            BY <1>3, <1>5
        <3>4. After = [q \in Serials |->
                         CASE q = d -> "accepted"
                           [] q \in rest -> "pending"
                           [] OTHER -> Before[q]]
            BY <3>1, <3>2 DEF After
        <3>5. Promise!NextInQueue(d) = rest
            BY FatesAre DEF Promise!NextInQueue, Promise!Proposals, Serials
        <3> HIDE DEF rest, d
        <3>6. After = [q \in Serials |->
                         CASE q = d -> "accepted"
                           [] q \in Promise!NextInQueue(d) -> "pending"
                           [] OTHER -> Before[q]]
            BY <3>4, <3>5
        <3> QED
            BY <3>3, <3>6, FatesAre
            DEF Promise!Accept, Promise!Proposals, Serials
    <2> QED
        BY <1>3, <2>9 DEF Promise!Proposals, Serials
<1>8. CASE /\ t.steps = s.steps \cup {d} /\ t.refused = s.refused
           /\ s.queue = <<>> /\ ClosesTheReview(t)
    <2>1. n = 0
        BY <1>8
    <2>2. \A q \in Serials : old(q) # "queued"
        BY <1>3, <1>4, <2>1
    <2>3. \A q \in Serials :
            /\ q = d => new(q) = "accepted"
            /\ q # d => new(q) = old(q)
        <3>1. new(d) = "accepted"
            BY <1>3, <1>4, <1>8 DEF FateIn
        <3>2. ASSUME NEW q \in Serials, q # d PROVE new(q) = old(q)
            BY <1>3, <1>8, <2>2, <3>2 DEF FateIn, ClosesTheReview
        <3> QED
            BY <3>1, <3>2
    <2> HIDE DEF old, new
    <2>4. Promise!Accept(d)
        <3> DEFINE rest == {q \in Serials : Before[q] = "queued" /\ q > d
                              /\ \A r \in Serials :
                                     Before[r] = "queued" => q <= r}
        <3>1. rest = {}
            BY <1>5, <2>2
        <3>2. \A q \in Serials :
                  After[q] = CASE q = d -> "accepted"
                               [] q \in {} -> "pending"
                               [] OTHER -> Before[q]
            BY <1>5, <2>3
        <3>3. Before[d] = "pending"
            BY <1>3, <1>5
        <3>4. After = [q \in Serials |->
                         CASE q = d -> "accepted"
                           [] q \in rest -> "pending"
                           [] OTHER -> Before[q]]
            BY <3>1, <3>2 DEF After
        <3>5. Promise!NextInQueue(d) = rest
            BY FatesAre DEF Promise!NextInQueue, Promise!Proposals, Serials
        <3> HIDE DEF rest, d
        <3>6. After = [q \in Serials |->
                         CASE q = d -> "accepted"
                           [] q \in Promise!NextInQueue(d) -> "pending"
                           [] OTHER -> Before[q]]
            BY <3>4, <3>5
        <3> QED
            BY <3>3, <3>6, FatesAre
            DEF Promise!Accept, Promise!Proposals, Serials
    <2> QED
        BY <1>3, <2>4 DEF Promise!Proposals, Serials
<1>9. CASE /\ t.steps = s.steps /\ t.refused = s.refused \cup {d}
           /\ ClosesTheReview(t)
    <2>1. \A q \in Serials :
            /\ q = d => new(q) = "rejected"
            /\ q # d /\ old(q) = "queued" => new(q) = "dropped"
            /\ q # d /\ old(q) # "queued" => new(q) = old(q)
        <3>1. new(d) = "rejected"
            BY <1>3, <1>4, <1>6, <1>9 DEF FateIn
        <3>2. ASSUME NEW q \in Serials, q # d, old(q) = "queued"
              PROVE  new(q) = "dropped"
            BY <1>9, <3>2 DEF FateIn, ClosesTheReview
        <3>3. ASSUME NEW q \in Serials, q # d, old(q) # "queued"
              PROVE  new(q) = old(q)
            BY <1>3, <1>9, <3>3 DEF FateIn, ClosesTheReview
        <3> QED
            BY <3>1, <3>2, <3>3
    <2> HIDE DEF old, new
    <2>2. Promise!Reject(d)
        <3>1. \A q \in Serials :
                  After[q] = CASE q = d -> "rejected"
                               [] Before[q] = "queued" -> "dropped"
                               [] OTHER -> Before[q]
            BY <1>3, <1>5, <2>1
        <3>2. Before[d] = "pending"
            BY <1>3, <1>5
        <3>3. After = [q \in Serials |->
                         CASE q = d -> "rejected"
                           [] Before[q] = "queued" -> "dropped"
                           [] OTHER -> Before[q]]
            BY <3>1 DEF After
        <3> QED
            BY <3>2, <3>3, FatesAre
            DEF Promise!Reject, Promise!Proposals, Serials
    <2> QED
        BY <1>3, <2>2 DEF Promise!Proposals, Serials
<1> QED
    BY <1>1, <1>2, <1>7, <1>8, <1>9, ReportDecides

\* An answer proposes a new batch, or drops what was open.
LEMMA AnswerFates ==
    ASSUME SInv, SInv', AnswerMove
    PROVE  Promise!Propose \/ Promise!Drop
<1> DEFINE s == session
           t == session'
<1>1. /\ s \in Sessions /\ t \in Sessions /\ made \in 0..MaxProposals
      /\ made' \in 0..MaxProposals
      /\ InReview(s, made) /\ InReview(t, made')
    BY DEF SInv, CInv, IInv, TypeOK
<1>2. PICK r \in BackendAnswers :
          /\ r.hunks \in Nat /\ made + r.hunks <= MaxProposals
          /\ made' = made + r.hunks
          /\ t.steps = s.steps /\ t.refused = s.refused
          /\ r.kind # "patch" =>
               /\ r.hunks = 0
               /\ t.draft = s.draft /\ t.queue = <<>>
               /\ t.last.kind # "patch"
               /\ UnderReview(t) => UnderReview(s)
          /\ r.kind = "patch" =>
               /\ r.hunks >= 1
               /\ t.state = "PatchShown" /\ t.draft.no = made + 1
               /\ Len(t.queue) = r.hunks - 1
    BY AnswerMoveFields
<1>3. made \in Nat
    BY <1>1
<1>4. CASE r.kind # "patch"
    <2>1. made' = made
        BY <1>2, <1>3, <1>4
    <2> QED
        BY <1>2, <1>4, <2>1, DroppedFates
<1>5. CASE r.kind = "patch"
    <2> DEFINE first == made + 1
               last == made + r.hunks
               old(p) == FateIn(s, made, p)
               new(p) == FateIn(t, made', p)
    <2>1. /\ first \in Serials /\ last \in Serials /\ first <= last
          /\ Serials \subseteq Nat
        BY <1>2, <1>3, <1>5, EngineAssumption DEF Serials
    <2>2. \A p \in Serials :
            /\ new(p) = "pending" <=> p = first
            /\ new(p) = "queued" <=> p \in (first + 1)..(first + (r.hunks - 1))
        <3> DEFINE e == t.draft.no
                   k == Len(t.queue)
        <3>1. \A p \in Serials :
                /\ new(p) = "pending" <=> p = e
                /\ new(p) = "queued" <=> p \in (e + 1)..(e + k)
            BY <1>1, <1>2, <1>5, OpenNumbers DEF UnderReview
        <3>2. e = first /\ k = r.hunks - 1
            BY <1>2, <1>5
        <3> HIDE DEF new, e, k
        <3> QED
            BY <3>1, <3>2
    <2>3. \A p \in Serials : (p < first) <=> (old(p) # "unborn")
        BY <1>3, <2>1 DEF FateIn
    <2>4. ASSUME NEW p \in Serials
          PROVE  /\ p = first => new(p) = "pending"
                 /\ p > first /\ p <= last => new(p) = "queued"
                 /\ p < first /\ old(p) \in Promise!Open => new(p) = "dropped"
                 /\ p < first /\ old(p) \notin Promise!Open => new(p) = old(p)
                 /\ p > last => new(p) = old(p)
        <3>1. p \in Nat
            BY <2>1
        <3>2. p > first /\ p <= last => new(p) = "queued"
            BY <1>2, <1>3, <2>2, <3>1
        <3>3. ASSUME p < first
              PROVE  /\ new(p) \notin {"pending", "queued"}
                     /\ ~(p > made) /\ ~(p > made')
            BY <1>2, <1>3, <2>2, <3>1, <3>3
        <3>4. p < first /\ old(p) \in Promise!Open => new(p) = "dropped"
            BY <1>2, <3>3 DEF FateIn, Promise!Open
        <3>5. p < first /\ old(p) \notin Promise!Open => new(p) = old(p)
            BY <1>2, <3>3 DEF FateIn, Promise!Open
        <3>6. p > last => new(p) = old(p)
            BY <1>2, <1>3, <3>1 DEF FateIn
        <3> QED
            BY <2>2, <3>2, <3>4, <3>5, <3>6
    <2>5. \A p \in Serials : Before[p] = old(p) /\ After[p] = new(p)
        BY DEF Before, After
    <2> HIDE DEF old, new
    <2>6. ASSUME NEW p \in Serials
          PROVE  After[p] = CASE p = first -> "pending"
                              [] p > first /\ p <= last -> "queued"
                              [] p < first /\ Before[p] \in Promise!Open
                                   -> "dropped"
                              [] OTHER -> Before[p]
        <3>1. p \in Nat /\ first \in Nat /\ last \in Nat
            BY <2>1
        <3> HIDE DEF first, last
        <3> QED
            BY <2>4, <2>5, <3>1
    <2>7. After = [p \in Serials |->
                     CASE p = first -> "pending"
                       [] p > first /\ p <= last -> "queued"
                       [] p < first /\ Before[p] \in Promise!Open -> "dropped"
                       [] OTHER -> Before[p]]
        BY <2>6 DEF After
    <2>8. \A p \in Serials : (p < first) <=> (Before[p] # "unborn")
        BY <2>3, <2>5
    <2> HIDE DEF first, last
    <2>9. Promise!Propose
        BY <2>1, <2>7, <2>8, FatesAre
        DEF Promise!Propose, Promise!Proposals, Serials
    <2> QED
        BY <2>9
<1> QED
    BY <1>4, <1>5

LEMMA LoopFates ==
    ASSUME SInv, SInv', PatchIsOpen, made' = made,
           LoopMove(session, session')
    PROVE  After = Before \/ Promise!Drop
<1> DEFINE s == session
           t == session'
<1>1. s \in Sessions /\ InReview(s, made)
    BY DEF SInv, CInv, IInv, TypeOK
<1>2. /\ t.steps = s.steps /\ t.refused = s.refused
      /\ t.queue = s.queue /\ t.draft = s.draft
    BY <1>1, LoopFields
<1>3. CASE ~UnderReview(t)
    BY <1>2, <1>3, DroppedFates
<1>4. CASE UnderReview(t)
    <2>1. ~(t = Stopped(NextGeneration(s)))
        <3> DEFINE g == NextGeneration(s)
        <3>1. g \in Sessions
            BY <1>1, GenerationKeeps, EngineAssumption
        <3> HIDE DEF g
        <3>2. Stopped(g).state = "Finished"
            BY <3>1 DEF Stopped, Push, Sessions
        <3> QED
            BY <1>4, <3>2 DEF UnderReview, g
    <2>2. CASE t = NextGeneration(s)
        <3>1. t.state = s.state
            BY <1>1, <2>2 DEF NextGeneration, Sessions
        <3> QED
            BY <1>2, <3>1, SameFates DEF UnderReview
    <2>3. CASE t = NextGeneration(Cancelled(s))
        <3> DEFINE c == Cancelled(s)
        <3>1. c \in Sessions
            BY <1>1, CancelledKeeps, EngineAssumption
        <3>2. t.state = c.state /\ t.last = c.last
            BY <2>3, <3>1 DEF NextGeneration, Sessions
        <3>3. Paused(s) \in Sessions /\ Paused(s).last = s.last
            BY <1>1 DEF Paused, Sessions
        <3>4. s.last.kind = "patch" /\ ~AlreadyAccepted(s)
            <4>1. CASE AlreadyAccepted(s)
                <5>1. c.state = "CardShown"
                    BY <3>3, <4>1
                    DEF Cancelled, Push, ContinuationCancelledCard, PlainCard,
                        Sessions
                <5> QED
                    BY <1>4, <3>2, <5>1 DEF UnderReview
            <4>2. CASE ~AlreadyAccepted(s)
                <5>1. c.state = FromCard(s.last.kind)
                    BY <3>3, <4>2 DEF Cancelled, Sessions
                <5> QED
                    BY <1>4, <3>2, <4>2, <5>1 DEF UnderReview, FromCard
            <4> QED
                BY <4>1, <4>2
        <3>5. s.draft.no \notin s.steps
            BY <1>2, <1>4
            DEF SInv, InReview, DecidedIsNotPending, Decided
        <3>6. UnderReview(s)
            BY <3>4, <3>5 DEF PatchIsOpen, UnderReview
        <3> QED
            BY <1>2, <1>4, <3>6, SameFates
    <2> QED
        BY <2>1, <2>2, <2>3 DEF LoopMove
<1> QED
    BY <1>3, <1>4

\* Every step of the engine is a step of the abstract review, or stutters.
LEMMA StepKeepsTheReview ==
    SInv /\ SInv' /\ PatchIsOpen /\ [Next]_vars =>
        [Promise!Next]_([p \in Serials |-> Fate(p)])
<1> SUFFICES ASSUME SInv, SInv', PatchIsOpen, [Next]_vars
             PROVE  Promise!Next \/ After = Before
    BY FatesAre
<1>1. Moves /\ session \in Sessions
    BY NextMoves DEF SInv, CInv, IInv, TypeOK
<1>2. CASE AnswerMove
    BY <1>2, AnswerFates DEF Promise!Next
<1>3. CASE BodyMove(session, session') /\ made' = made
    <2>1. /\ session'.steps = session.steps
          /\ session'.refused = session.refused
          /\ session'.queue = session.queue /\ session'.draft = session.draft
          /\ UnderReview(session') => UnderReview(session)
        BY <1>1, <1>3, BodyFields
    <2>2. CASE UnderReview(session')
        BY <1>3, <2>1, <2>2, SameFates
    <2>3. CASE ~UnderReview(session')
        BY <1>3, <2>1, <2>3, DroppedFates DEF Promise!Next
    <2> QED
        BY <2>2, <2>3
<1>4. CASE ReportMove(session, session') /\ made' = made
    BY <1>4, ReportFates DEF Promise!Next
<1>5. CASE LoopMove(session, session') /\ made' = made
    BY <1>5, LoopFates DEF Promise!Next
<1> QED
    BY <1>1, <1>2, <1>3, <1>4, <1>5 DEF Moves, LocalMove

\* The engine implements the abstract review, for every client and backend:
\* each proposal has its own gate, is decided at most once, and a batch is
\* promoted in order with no model turn; nothing a cancellation, an abort or
\* a late report does brings a proposal back (apply_result_taken,
\* queue_patch_cards, cancel_turn).
THEOREM EngineImplementsReview == Spec => ImplementsReview
<1>1. Init => Promise!Init
    <2> SUFFICES ASSUME Init
                 PROVE  [p \in Serials |-> Fate(p)]
                            = [p \in Promise!Proposals |-> "unborn"]
        BY DEF Promise!Init
    <2>1. made = 0
        BY DEF Init
    <2>2. \A p \in Serials : Fate(p) = "unborn"
        BY <2>1 DEF Fate, Serials
    <2> QED
        BY <2>2 DEF Promise!Proposals, Serials
<1>2. Init => PatchIsOpen
    BY DEF Init, PatchIsOpen, NewSession, NoCard, PlainCard
<1>3. SInv /\ PatchIsOpen /\ [Next]_vars => PatchIsOpen'
    BY PatchStaysOpen
<1>4. SInv /\ SInv' /\ PatchIsOpen /\ [Next]_vars =>
          [Promise!Next]_([p \in Serials |-> Fate(p)])
    BY StepKeepsTheReview
<1> QED
    BY <1>1, <1>2, <1>3, <1>4, AlwaysSInv, PTL
    DEF Spec, ImplementsReview, Promise!Spec
-----------------------------------------------------------------------------
(***************************************************************************)
(* The speculation of the shipped editor                                   *)
(***************************************************************************)
Speculating ==
    /\ NoActionTurn /\ StartIsFirst /\ SpeculationFits /\ SliceFollows
    /\ SpeculationIsSettled

\* What a turn's end schedules, when nothing was left of an earlier one.
LEMMA FreshSpeculation ==
    ASSUME NEW s
    PROVE  /\ PrefetchAfter(s, NoSpec) # NoSpec =>
                /\ Reviewed(s) /\ ~s.active /\ ~s.batch /\ s.queue = <<>>
                /\ PrefetchAfter(s, NoSpec).no = s.last.no
           /\ ContinuationAfter(s, NoSpec) # NoSpec =>
                /\ s.state = "PatchShown" /\ s.active /\ s.slice
                /\ ~s.batch /\ s.queue = <<>>
                /\ ContinuationAfter(s, NoSpec).no = s.last.no
BY DEF PrefetchAfter, ContinuationAfter, Reviewed, NoSpec, Running

LEMMA FinishSpeculates ==
    ASSUME SpInv, Live, NEW s, NEW ok, NEW card, NEW pf, NEW ct,
           Finish(turn, s, ok, card, pf, ct),
           \/ pf = NoSpec /\ ct = NoSpec
           \/ ~ok /\ s = session /\ pf = prefetch /\ ct = continuation,
           ok /\ s.slice => s.last.kind = "patch",
           s.slice => /\ ~s.last.complete
                      /\ \A i \in 1..Len(s.queue) : ~s.queue[i].complete
    PROVE  Speculating'
<1>1. turn \in Turns /\ turn.gen = session.gen
    BY LiveClone DEF SpInv, SInv
<1>2. session' = s
    BY <1>1 DEF Finish, Commit
<1>3. turn'.pc \in {"none", "done"}
    BY <1>1, NoTurnType DEF Finish, Deliver, Turns
<1>4. NoActionTurn' /\ SpeculationIsSettled' /\ StartIsFirst'
    BY <1>3 DEF NoActionTurn, SpeculationIsSettled, StartIsFirst, Live
<1>5. SliceFollows'
    BY <1>2 DEF SliceFollows
<1>6. CASE pf = NoSpec /\ ct = NoSpec
    <2>1. /\ prefetch' \in {NoSpec, PrefetchAfter(s, NoSpec)}
          /\ continuation' = IF ok THEN ContinuationAfter(s, NoSpec) ELSE NoSpec
        BY <1>1, <1>6 DEF Finish, Commit
    <2>2. SpeculationFits'
        BY <1>2, <2>1, FreshSpeculation DEF SpeculationFits, Reviewed
    <2> QED
        BY <1>4, <1>5, <2>2 DEF Speculating
<1>7. CASE ~ok /\ s = session /\ pf = prefetch /\ ct = continuation
    <2>1. prefetch' = prefetch /\ continuation' = continuation
        BY <1>7 DEF Finish
    <2>2. SpeculationFits'
        BY <1>2, <1>7, <2>1 DEF SpInv, SpeculationFits
    <2> QED
        BY <1>4, <1>5, <2>2 DEF Speculating
<1> QED
    BY <1>6, <1>7

LEMMA SuspendSpeculates ==
    ASSUME SpInv, Live, NEW t \in Turns, t.cmd = turn.cmd, t.spec = turn.spec,
           turn.pc \notin {"take", "call"},
           NEW pc \in {"cancelGoal", "cancelAccept", "complete",
                       "rejectAccept", "rejectGoal", "call"},
           NEW s, NEW pf, NEW ct, Suspend(t, pc, s, pf, ct),
           pf \in {prefetch, NoSpec}, ct \in {continuation, NoSpec},
           pc \in {"rejectAccept", "complete"} => pf = NoSpec,
           pc = "cancelGoal" => ct = NoSpec,
           pc \in {"cancelAccept", "rejectGoal", "call"} =>
               pf = NoSpec /\ ct = NoSpec
    PROVE  Speculating'
<1>1. /\ session' = session /\ prefetch' = pf /\ continuation' = ct
      /\ turn'.pc = pc /\ turn'.cmd = turn.cmd /\ turn'.spec = turn.spec
    BY DEF Suspend, Turns
<1>2. turn.spec = 0
    BY DEF SpInv, SpeculationIsSettled
<1>3. NoActionTurn' /\ StartIsFirst' /\ SliceFollows'
    BY <1>1 DEF SpInv, NoActionTurn, StartIsFirst, SliceFollows, Live
<1>4. SpeculationFits'
    BY <1>1 DEF SpInv, SpeculationFits
<1>5. SpeculationIsSettled'
    BY <1>1, <1>2 DEF SpeculationIsSettled
<1> QED
    BY <1>3, <1>4, <1>5 DEF Speculating

\* A reply asks the backend, or is refused: it has abandoned what was
\* speculated before.
LEMMA ReplySpeculates ==
    ASSUME SpInv, Live, turn.cmd.op = "reply", turn.pc \notin {"take", "call"},
           turn.s = session,
           Conclude(turn, Outcome(turn.cmd, turn.s), NoSpec, NoSpec)
    PROVE  Speculating'
<1> DEFINE o == Outcome(turn.cmd, turn.s)
           t == [turn EXCEPT !.exp = o.exp]
<1>1. /\ turn \in Turns /\ turn.s \in Sessions /\ turn.cmd \in Bodies
      /\ o \in Outcomes(turn.s)
    BY LiveClone, LiveTurn DEF SpInv, SInv, CInv
<1>2. o = ReplyOutcome(session, turn.cmd.exp)
    BY DEF Outcome
<1>3. o.step = "ask" \/ (o.step = "fail" /\ o.s = session)
    BY <1>2 DEF ReplyOutcome, Ask, Fail
<1>4. CASE o.step = "ask"
    <2>1. Suspend(t, "call", o.s, NoSpec, NoSpec)
        BY <1>4 DEF Conclude
    <2>2. t \in Turns /\ t.cmd = turn.cmd /\ t.spec = turn.spec
        BY <1>1, <1>4 DEF Outcomes, Turns
    <2> QED
        BY <2>1, <2>2, SuspendSpeculates
<1>5. CASE o.step = "fail" /\ o.s = session
    <2>1. Finish(turn, o.s, o.step = "done", o.card, NoSpec, NoSpec)
        BY <1>5 DEF Conclude
    <2> HIDE DEF o
    <2> QED
        BY <1>5, <2>1, FinishSpeculates DEF SpInv, SliceFollows
<1> QED
    BY <1>3, <1>4, <1>5

LEMMA AbandonSpeculates ==
    ASSUME SpInv, AbandoningTurn \/ GoalCancelled \/ AcceptCancelled
    PROVE  Speculating'
<1>1. /\ Live /\ turn.cmd.op = "reply" /\ turn \in Turns /\ turn.s = session
      /\ turn.pc \in {"queued", "cancelGoal", "cancelAccept"}
    <2>1. /\ Live /\ turn.pc \in {"queued", "cancelGoal", "cancelAccept"}
          /\ turn.pc = "queued" => turn.cmd.op \in {"reply", "action"}
        BY DEF AbandoningTurn, GoalCancelled, AcceptCancelled, Live
    <2>2. turn.cmd.op \in {"reply", "action"}
        BY <2>1 DEF SpInv, SInv, CInv, IInv, CommandIsComplete
    <2>3. turn.cmd.op = "reply"
        BY <2>1, <2>2 DEF SpInv, NoActionTurn
    <2>4. turn \in Turns /\ turn.s = session
        BY <2>1, LiveClone DEF SpInv, SInv, CInv, CloneIsKnown
    <2> QED
        BY <2>1, <2>3, <2>4
<1>2. ASSUME CancelAccept(turn) PROVE Speculating'
    BY <1>1, <1>2, SuspendSpeculates, ReplySpeculates DEF CancelAccept
<1>3. CASE AbandoningTurn
    <2>1. CASE Suspend(turn, "cancelGoal", turn.s, prefetch, NoSpec)
        BY <1>1, <2>1, SuspendSpeculates
    <2> QED
        BY <1>2, <1>3, <2>1 DEF AbandoningTurn
<1>4. CASE GoalCancelled
    BY <1>2, <1>4 DEF GoalCancelled
<1>5. CASE AcceptCancelled
    <2>1. prefetch = NoSpec /\ continuation = NoSpec
        BY <1>5 DEF AcceptCancelled, SpInv, SpeculationIsSettled
    <2> QED
        BY <1>1, <1>5, <2>1, ReplySpeculates DEF AcceptCancelled
<1> QED
    BY <1>3, <1>4, <1>5

LEMMA StartSpeculates == ASSUME SpInv, StartTurn PROVE Speculating'
<1> DEFINE t == [turn EXCEPT !.exp = turn.cmd.exp]
<1>1. Live /\ turn.pc = "queued" /\ turn.cmd.op = "start"
    BY DEF StartTurn, Live
<1>2. session.state = "Thinking"
    BY <1>1 DEF SpInv, StartIsFirst
<1>3. prefetch = NoSpec /\ continuation = NoSpec
    BY <1>2 DEF SpInv, SpeculationFits, Reviewed
<1>4. turn \in Turns /\ turn.cmd.exp \in Expectations
    BY <1>1, LiveClone DEF SpInv, SInv, CInv, IInv, CommandIsComplete
<1>5. t \in Turns /\ t.cmd = turn.cmd /\ t.spec = turn.spec
    BY <1>4 DEF Turns
<1>6. Suspend(t, "call", turn.s, prefetch, continuation)
    BY DEF StartTurn
<1> QED
    BY <1>1, <1>3, <1>5, <1>6, SuspendSpeculates

LEMMA AnswerSpeculates == ASSUME SpInv, Answer PROVE Speculating'
<1>1. PICK r \in Answers(turn.exp) :
          LET s == AcceptResponse(turn.s, r, turn.exp, made)
          IN  /\ made + r.hunks <= MaxProposals
              /\ Finish(turn, s, TRUE, s.last, prefetch, continuation)
    BY DEF Answer
<1> DEFINE s == AcceptResponse(turn.s, r, turn.exp, made)
           cards == ReviewCards(r, made)
<1>2. /\ Live /\ turn.s \in Sessions /\ r \in BackendAnswers /\ made \in Nat
    BY LiveClone, AnswersType DEF Answer, Live, SpInv, SInv, CInv, IInv, TypeOK
<1>3. prefetch = NoSpec /\ continuation = NoSpec
    BY DEF Answer, SpInv, SpeculationIsSettled
<1>4. /\ r.kind # "patch" => ~s.slice
      /\ r.kind = "patch" =>
           /\ r \in PatchAnswers \cup FileOpAnswers
           /\ s.last = cards[1] /\ s.queue = Tail(cards)
           /\ s.slice <=> r.follow = "more"
    BY <1>1, <1>2, AnswerFields
<1>5. ASSUME s.slice
      PROVE  /\ s.last.kind = "patch" /\ ~s.last.complete
             /\ \A i \in 1..Len(s.queue) : ~s.queue[i].complete
    <2>1. /\ cards[1].kind = "patch"
          /\ r.follow = "more" /\ r.hunks \in Nat /\ r.hunks >= 1
          /\ \A i \in 1..r.hunks :
                 cards[i].complete <=> (r.follow = "complete" /\ i = r.hunks)
          /\ Len(Tail(cards)) = r.hunks - 1
          /\ \A i \in 1..(r.hunks - 1) : Tail(cards)[i] = cards[i + 1]
          /\ s.last = cards[1] /\ s.queue = Tail(cards)
        BY <1>1, <1>2, <1>4, <1>5, ReviewCardsShape
    <2> HIDE DEF s, cards
    <2>2. \A i \in 1..r.hunks : ~cards[i].complete
        BY <2>1
    <2>3. ASSUME NEW i \in 1..Len(s.queue) PROVE ~s.queue[i].complete
        <3>1. i + 1 \in 1..r.hunks /\ s.queue[i] = cards[i + 1]
            BY <2>1
        <3> QED
            BY <2>2, <3>1
    <2>4. s.last.kind = "patch" /\ ~s.last.complete
        BY <2>1, <2>2
    <2> QED
        BY <2>3, <2>4
<1>6. Finish(turn, s, TRUE, s.last, NoSpec, NoSpec)
    BY <1>1, <1>3
<1> HIDE DEF s
<1> QED
    BY <1>2, <1>5, <1>6, FinishSpeculates

\* A report finds the patch on the screen; what was speculated for it is
\* consumed, cancelled, or cannot exist.
LEMMA ReportSpeculation ==
    ASSUME SpInv, Applying
    PROVE  /\ Live /\ turn \in Turns /\ turn.s = session
           /\ session \in Sessions
           /\ turn.pc \notin {"take", "call"}
           /\ Accepting \/ Rejecting =>
                Reviewed(session) /\ session.last = session.draft
BY ReportClone
DEF SpInv, SInv, Applying, InReview, DraftIsKnown, Reviewed

LEMMA RefusalSpeculates == ASSUME SpInv, ReportRefused PROVE Speculating'
<1>1. Live /\ turn.s = session
    BY ReportSpeculation DEF ReportRefused
<1>2. Finish(turn, turn.s, FALSE, NoCard, prefetch, continuation)
    BY DEF ReportRefused
<1> QED
    BY <1>1, <1>2, FinishSpeculates DEF SpInv, SliceFollows

LEMMA NextHunkSpeculates == ASSUME SpInv, AcceptShowsNext PROVE Speculating'
<1> DEFINE s == ShowNext(Recorded(turn.s))
<1>1. /\ Live /\ turn.s = session /\ session \in Sessions
      /\ Reviewed(session) /\ session.queue # <<>>
    BY ReportSpeculation DEF AcceptShowsNext, Accepting
<1>2. prefetch = NoSpec /\ continuation = NoSpec
    BY <1>1 DEF SpInv, SpeculationFits
<1>3. /\ Recorded(session) \in Sessions
      /\ Recorded(session).queue = session.queue
    BY <1>1, ReportFields
<1>4. Recorded(session).slice = session.slice
    BY <1>1 DEF Recorded, Sessions
<1>5. /\ s.slice = session.slice /\ s.last = Head(session.queue)
      /\ s.queue = Tail(session.queue)
    BY <1>1, <1>3, <1>4 DEF ShowNext, Push, Sessions
<1>6. Finish(turn, s, TRUE, s.last, NoSpec, NoSpec)
    BY <1>2 DEF AcceptShowsNext
<1> HIDE DEF s
<1>7. ASSUME s.slice
      PROVE  /\ s.last.kind = "patch" /\ ~s.last.complete
             /\ \A i \in 1..Len(s.queue) : ~s.queue[i].complete
    <2> DEFINE q == session.queue
    <2>1. \A i \in 1..Len(q) : ~q[i].complete
        BY <1>5, <1>7 DEF SpInv, SliceFollows
    <2>2. q \in Seq(Cards) /\ q # <<>>
        BY <1>1 DEF Sessions
    <2>3. /\ Len(q) \in Nat /\ Len(q) >= 1 /\ Head(q) = q[1]
          /\ Len(Tail(q)) = Len(q) - 1
          /\ \A i \in 1..Len(Tail(q)) : Tail(q)[i] = q[i + 1]
        BY <2>2, HeadTailProperties, LenProperties
    <2>4. 1 \in 1..Len(q) /\ \A i \in 1..(Len(q) - 1) : i + 1 \in 1..Len(q)
        BY <2>3
    <2> HIDE DEF q
    <2>5. Head(q).kind = "patch" /\ ~Head(q).complete
        BY <1>1, <2>1, <2>3, <2>4
        DEF SpInv, SInv, InReview, QueueFollowsTheDraft, q
    <2>6. \A i \in 1..Len(Tail(q)) : ~Tail(q)[i].complete
        BY <2>1, <2>3, <2>4
    <2> QED
        BY <1>5, <2>5, <2>6 DEF q
<1> QED
    BY <1>1, <1>6, <1>7, FinishSpeculates

\* The last acceptance and complete_goal_locally keep the plan, of which
\* nothing is left.
LEMMA ClosedSlice ==
    ASSUME NEW s \in Sessions, Reviewed(s)
    PROVE  Closed(s) \in Sessions /\ Closed(s).slice = s.slice
<1>1. Closed(s) \in Sessions /\ Recorded(s) \in Sessions
    BY ReportFields
<1>2. Recorded(s).slice = s.slice
    BY DEF Recorded, Sessions
<1> QED
    BY <1>1, <1>2 DEF Closed, Sessions

LEMMA CompletedSlice ==
    ASSUME NEW s \in Sessions, ~s.slice
    PROVE  ~CompleteGoal(s).slice
BY DEF CompleteGoal, Push, PlainCard, Sessions

LEMMA CompletionSpeculates ==
    ASSUME SpInv, AcceptCompletesGoal
    PROVE  Speculating'
<1> DEFINE s == Closed(session)
           c == CompleteGoal(s)
<1>1. /\ Live /\ turn.s = session /\ session \in Sessions /\ turn \in Turns
      /\ turn.pc \notin {"take", "call"}
      /\ Reviewed(session) /\ session.last.complete
    BY ReportSpeculation DEF AcceptCompletesGoal, Accepting
<1>2. ~session.slice
    BY <1>1 DEF SpInv, SliceFollows
<1>3. continuation = NoSpec /\ (session.active => prefetch = NoSpec)
    BY <1>2 DEF SpInv, SpeculationFits
<1>4. s \in Sessions /\ ~s.slice
    BY <1>1, <1>2, ClosedSlice
<1>5. ~c.slice
    BY <1>4, CompletedSlice
<1>6. \/ Suspend(turn, "complete", s, NoSpec, continuation)
      \/ Finish(turn, c, TRUE, c.last, NoSpec, NoSpec)
    BY <1>1, <1>3 DEF AcceptCompletesGoal, Closed
<1> HIDE DEF s, c
<1> QED
    BY <1>1, <1>5, <1>6, SuspendSpeculates, FinishSpeculates

LEMMA CompletedSpeculates ==
    ASSUME SpInv, CompletionCancelled
    PROVE  Speculating'
<1> DEFINE c == CompleteGoal(turn.s)
<1>1. /\ Live /\ session \in Sessions
      /\ Reviewed(session) /\ session.last.complete
      /\ turn.s = Closed(session)
    BY LiveClone DEF CompletionCancelled, Live, SpInv, SInv, CInv, CloneIsKnown
<1>2. ~session.slice
    BY <1>1 DEF SpInv, SliceFollows
<1>3. prefetch = NoSpec /\ continuation = NoSpec
    BY <1>2
    DEF CompletionCancelled, SpInv, SpeculationFits, SpeculationIsSettled
<1>4. turn.s \in Sessions /\ ~turn.s.slice
    BY <1>1, <1>2, ClosedSlice
<1>5. ~c.slice
    BY <1>4, CompletedSlice
<1>6. Finish(turn, c, TRUE, c.last, NoSpec, NoSpec)
    BY <1>3 DEF CompletionCancelled
<1> HIDE DEF c
<1> QED
    BY <1>1, <1>5, <1>6, FinishSpeculates

\* An acceptance consumes what was prepared for the draft it accepts.
LEMMA ContinueSpeculates == ASSUME SpInv, AcceptContinues PROVE Speculating'
<1> DEFINE a == AfterAccept(turn)
<1>1. /\ Live /\ turn.s = session /\ session \in Sessions /\ turn \in Turns
      /\ Reviewed(session) /\ session.last = session.draft
      /\ turn.cmd.op = "apply" /\ turn.gen = session.gen
    BY ReportSpeculation, LiveClone
    DEF AcceptContinues, Accepting, Applying, SpInv, SInv
<1>2. /\ Recorded(session) \in Sessions
      /\ Recorded(session).last = session.last
      /\ Recorded(session).draft = session.draft
      /\ Recorded(session).queue = session.queue
    BY <1>1, ReportFields
<1>3. Recorded(session).slice = session.slice
    BY <1>1 DEF Recorded, Sessions
<1>4. /\ session'.last = session.last /\ session'.queue = session.queue
      /\ session'.slice = session.slice
    BY <1>1, <1>2, <1>3
    DEF AcceptContinues, Commit, AfterAccept, NextGeneration, Sessions
<1>5. prefetch' = NoSpec /\ continuation' = NoSpec
    BY <1>1 DEF AcceptContinues, SpInv, SpeculationFits
<1>6. /\ turn'.pc \in {"take", "call"} /\ turn'.cmd = turn.cmd
      /\ turn'.s.draft = session.draft
    BY <1>1, <1>2 DEF AcceptContinues, AfterAccept, Turns, Sessions
<1>7. turn'.spec \in {0, Prepaid.no}
    BY <1>1 DEF AcceptContinues, Turns
<1>8. Prepaid \in {prefetch, continuation}
    BY DEF Prepaid
<1>9. Prepaid.no \in {0, session.draft.no}
    BY <1>1, <1>8 DEF SpInv, SpeculationFits, NoSpec
<1>10. NoActionTurn' /\ StartIsFirst' /\ SliceFollows' /\ SpeculationFits'
    BY <1>1, <1>4, <1>5, <1>6
    DEF SpInv, NoActionTurn, StartIsFirst, SliceFollows, SpeculationFits
<1>11. SpeculationIsSettled'
    BY <1>5, <1>6, <1>7, <1>9 DEF SpeculationIsSettled
<1> QED
    BY <1>10, <1>11 DEF Speculating

LEMMA TakenSpeculates == ASSUME SpInv, SpeculationTaken PROVE Speculating'
<1>1. PICK spec \in {turn.spec, 0} :
          turn' = [turn EXCEPT !.pc = "call", !.spec = spec]
    BY DEF SpeculationTaken
<1>2. Live /\ turn \in Turns
    BY LiveClone DEF SpeculationTaken, Live, SpInv, SInv
<1>3. /\ turn'.pc = "call" /\ turn'.cmd = turn.cmd /\ turn'.s = turn.s
      /\ turn'.spec \in {turn.spec, 0}
    BY <1>1, <1>2 DEF Turns
<1>4. UNCHANGED <<session, prefetch, continuation>> /\ turn.pc = "take"
    BY DEF SpeculationTaken
<1>5. NoActionTurn' /\ StartIsFirst' /\ SliceFollows' /\ SpeculationFits'
    BY <1>2, <1>3, <1>4
    DEF SpInv, NoActionTurn, StartIsFirst, SliceFollows, SpeculationFits
<1>6. SpeculationIsSettled'
    BY <1>3, <1>4 DEF SpInv, SpeculationIsSettled
<1> QED
    BY <1>5, <1>6 DEF Speculating

\* A rejection drops the plan and the speculation.
LEMMA RejectGoalSpeculates ==
    ASSUME SpInv, Live, turn.pc \notin {"take", "call"},
           NEW s \in Sessions, RejectGoal(turn, s)
    PROVE  Speculating'
<1>1. turn \in Turns
    BY LiveClone DEF SpInv, SInv
<1>2. ~Rejected(s).slice
    BY DEF Rejected, Push, PlainCard, Sessions
<1> QED
    BY <1>1, <1>2, SuspendSpeculates, FinishSpeculates DEF RejectGoal

LEMMA RejectionSpeculates ==
    ASSUME SpInv, RejectDraft \/ RejectAcceptCancelled \/ RejectGoalCancelled
    PROVE  Speculating'
<1>1. CASE RejectDraft
    <2> DEFINE s == [turn.s EXCEPT !.refused = @ \cup {turn.s.last.no}]
    <2>1. /\ Live /\ turn \in Turns /\ turn.s \in Sessions
          /\ turn.pc \notin {"take", "call"}
        BY <1>1, ReportSpeculation DEF RejectDraft, Rejecting
    <2>2. s \in Sessions
        BY <2>1 DEF Sessions, Cards
    <2>3. \/ Suspend(turn, "rejectAccept", s, NoSpec, continuation)
          \/ RejectGoal(turn, s)
        BY <1>1 DEF RejectDraft
    <2> HIDE DEF s
    <2> QED
        BY <2>1, <2>2, <2>3, SuspendSpeculates, RejectGoalSpeculates
<1>2. CASE RejectAcceptCancelled
    BY <1>2, LiveClone, RejectGoalSpeculates
    DEF RejectAcceptCancelled, Live, SpInv, SInv
<1>3. CASE RejectGoalCancelled
    <2> DEFINE c == Rejected(turn.s)
    <2>1. Live /\ turn.s \in Sessions
        BY <1>3, LiveClone DEF RejectGoalCancelled, Live, SpInv, SInv
    <2>2. prefetch = NoSpec /\ continuation = NoSpec
        BY <1>3 DEF RejectGoalCancelled, SpInv, SpeculationIsSettled
    <2>3. ~c.slice
        BY <2>1 DEF Rejected, Push, PlainCard, Sessions
    <2>4. Finish(turn, c, TRUE, c.last, NoSpec, NoSpec)
        BY <1>3, <2>2 DEF RejectGoalCancelled
    <2> HIDE DEF c
    <2> QED
        BY <2>1, <2>3, <2>4, FinishSpeculates
<1> QED
    BY <1>1, <1>2, <1>3

\* A request leaves the speculation to the turn it spawns; the requests the
\* main loop serves itself drop it.
LEMMA RequestSpeculates ==
    ASSUME ClientActions \subseteq {"cancel_turn"}, SpInv, Request
    PROVE  Speculating'
<1>1. session \in Sessions
    BY DEF SpInv, SInv, CInv, IInv, TypeOK
<1>2. ASSUME NEW cmd, Serve(cmd), cmd.op \notin {"start", "action"}
      PROVE  Speculating'
    <2> DEFINE g == NextGeneration(session)
    <2>1. /\ session'.state = session.state /\ session'.last = session.last
          /\ session'.queue = session.queue /\ session'.slice = session.slice
          /\ session'.active = session.active
          /\ session'.batch = session.batch
        BY <1>1, <1>2 DEF Serve, NextGeneration, Sessions
    <2>2. /\ turn'.pc = "queued" /\ turn'.cmd = cmd /\ turn'.spec = 0
          /\ UNCHANGED <<prefetch, continuation>>
        BY <1>2 DEF Serve, Spawn
    <2>3. SpeculationFits'
        BY <2>1, <2>2 DEF SpInv, SpeculationFits, Reviewed
    <2>4. SliceFollows'
        BY <2>1 DEF SpInv, SliceFollows
    <2>5. NoActionTurn' /\ StartIsFirst' /\ SpeculationIsSettled'
        BY <1>2, <2>2 DEF NoActionTurn, StartIsFirst, SpeculationIsSettled
    <2> QED
        BY <2>3, <2>4, <2>5 DEF Speculating
<1>3. CASE ActionRequest
    BY <1>3 DEF ActionRequest
<1>4. CASE ReplyRequest \/ ApplyReport
    BY <1>2, <1>4 DEF ReplyRequest, ApplyReport, Command
<1>5. ASSUME NEW t \in Sessions, session' = NextGeneration(t),
             t.slice => /\ ~t.last.complete
                        /\ \A i \in 1..Len(t.queue) : ~t.queue[i].complete
      PROVE  SliceFollows'
    <2>1. /\ session'.slice = t.slice /\ session'.last = t.last
          /\ session'.queue = t.queue
        BY <1>5 DEF NextGeneration, Sessions
    <2> QED
        BY <1>5, <2>1 DEF SliceFollows
<1>6. CASE CancelRequest \/ StopRequest
    <2>1. /\ turn'.pc = "none" /\ prefetch' = NoSpec /\ continuation' = NoSpec
        BY <1>6, NoTurnType DEF CancelRequest, StopRequest
    <2>2. /\ NoActionTurn' /\ StartIsFirst' /\ SpeculationIsSettled'
          /\ SpeculationFits'
        BY <2>1
        DEF NoActionTurn, StartIsFirst, SpeculationIsSettled, SpeculationFits,
            Live
    <2>3. CASE CancelRequest
        <3> DEFINE c == Cancelled(session)
        <3>1. c \in Sessions
            BY <1>1, CancelledKeeps, EngineAssumption
        <3>2. /\ Paused(session) \in Sessions
              /\ Paused(session).last = session.last
              /\ Paused(session).queue = session.queue
              /\ Paused(session).slice = session.slice
            BY <1>1 DEF Paused, Sessions
        <3>3. ~ContinuationCancelledCard.complete
              /\ ContinuationCancelledCard.kind # "patch"
            BY DEF ContinuationCancelledCard, PlainCard
        <3>4. /\ c.slice = session.slice /\ c.queue = session.queue
              /\ c.last \in {session.last, ContinuationCancelledCard}
            BY <3>2, <3>3 DEF Cancelled, Push, Sessions
        <3>5. c.slice => /\ ~c.last.complete
                         /\ \A i \in 1..Len(c.queue) : ~c.queue[i].complete
            BY <3>3, <3>4 DEF SpInv, SliceFollows
        <3>6. session' = NextGeneration(c)
            BY <2>3 DEF CancelRequest
        <3> HIDE DEF c
        <3> QED
            BY <1>5, <2>2, <3>1, <3>5, <3>6 DEF Speculating
    <2>4. CASE StopRequest
        <3> DEFINE g == NextGeneration(session)
                   p == Prepared(g, "stop")
        <3>1. g \in Sessions
            BY <1>1, GenerationKeeps, EngineAssumption
        <3>2. /\ g.slice = session.slice /\ g.last = session.last
              /\ g.queue = session.queue
            BY <1>1 DEF NextGeneration, Sessions
        <3> HIDE DEF g
        <3>3. p = g
            BY DEF Prepared, Redrafts
        <3>4. session' = ActionOutcome(g, "stop").s
            BY <2>4 DEF StopRequest, g
        <3>5. session' \in {g, Stopped(g)}
            BY <3>3, <3>4 DEF ActionOutcome, Fail, Done, Stopped
        <3>6. /\ session'.slice = g.slice /\ session'.queue = g.queue
              /\ session'.last = g.last \/ ~session'.last.complete
            <4>1. /\ Stopped(g).slice = g.slice /\ Stopped(g).queue = g.queue
                  /\ ~Stopped(g).last.complete
                BY <3>1 DEF Stopped, Push, StopCard, PlainCard, Sessions
            <4> QED
                BY <3>5, <4>1
        <3>7. SliceFollows'
            BY <3>2, <3>6 DEF SpInv, SliceFollows
        <3> QED
            BY <2>2, <3>7 DEF Speculating
    <2> QED
        BY <1>6, <2>3, <2>4
<1> QED
    BY <1>3, <1>4, <1>6 DEF Request

LEMMA OtherSpeculates ==
    ASSUME SpInv, \/ Return \/ Yield \/ WriteWorking \/ Ready
                  \/ SpeculationEnds \/ UNCHANGED vars
    PROVE  Speculating'
<1>1. session' = session
    BY DEF Return, Yield, WriteWorking, Ready, SpeculationEnds, vars
<1>2. turn' = turn \/ turn'.pc = "none"
    BY NoTurnType DEF Return, Yield, WriteWorking, Ready, SpeculationEnds, vars
<1>3. /\ prefetch' # NoSpec => prefetch # NoSpec /\ prefetch'.no = prefetch.no
      /\ continuation' # NoSpec =>
             continuation # NoSpec /\ continuation'.no = continuation.no
    <2>1. CASE Return \/ Yield \/ WriteWorking \/ Ready \/ UNCHANGED vars
        BY <2>1 DEF Return, Yield, WriteWorking, Ready, vars
    <2>2. CASE SpeculationEnds
        <3>1. prefetch \in Specs /\ continuation \in Specs
            BY DEF SpInv, SInv, CInv, IInv, TypeOK
        <3> QED
            BY <2>2, <3>1
            DEF SpeculationEnds, PrefetchEnds, ContinuationEnds, DetachedEnds,
                Running, NoSpec, Specs
    <2> QED
        BY <2>1, <2>2
<1>4. NoActionTurn' /\ StartIsFirst' /\ SliceFollows' /\ SpeculationFits'
    BY <1>1, <1>2, <1>3
    DEF SpInv, NoActionTurn, StartIsFirst, SliceFollows, SpeculationFits, Live
<1>5. SpeculationIsSettled'
    BY <1>2, <1>3 DEF SpInv, SpeculationIsSettled, Live
<1> QED
    BY <1>4, <1>5 DEF Speculating

\* No decision is ever taken back.
LEMMA StepsGrow ==
    ASSUME SInv, Moves
    PROVE  session.steps \subseteq session'.steps
<1>1. session \in Sessions
    BY DEF SInv, CInv, IInv, TypeOK
<1>2. CASE AnswerMove
    BY <1>2, AnswerMoveFields
<1>3. CASE BodyMove(session, session')
    BY <1>1, <1>3, BodyFields
<1>4. CASE LoopMove(session, session')
    BY <1>1, <1>4, LoopFields
<1>5. CASE ReportMove(session, session')
    BY <1>1, <1>5, ReportDecides
<1> QED
    BY <1>2, <1>3, <1>4, <1>5 DEF Moves, LocalMove

\* No proposal has the number of no speculation.
LEMMA AcceptedIsNumbered ==
    ASSUME SInv PROVE 0 \notin session.steps
BY DEF SInv, InReview, DraftIsKnown, Decided, CInv, IInv, TypeOK

\* A step of a turn detaches nothing; it goes on with the speculation it had,
\* or with that of the proposal it accepts, or with none.
LEMMA TurnStepDetaches ==
    ASSUME SpInv, TurnStep, Moves, ~PlainAction
    PROVE  DetachedIsAccepted'
<1> DEFINE Keeps == turn'.spec \in {0, turn.spec} /\ turn'.pc # "take"
<1>1. /\ detached' = detached /\ turn \in Turns
      /\ detached \subseteq session.steps /\ turn.spec \notin detached
      /\ session.steps \subseteq session'.steps /\ 0 \notin session.steps
    <2>1. detached' = detached
        BY DEF TurnStep, StartTurn, PlainAction, AbandoningTurn,
               GoalCancelled, AcceptCancelled, Answer, ReportRefused,
               AcceptShowsNext, AcceptCompletesGoal, CompletionCancelled,
               AcceptContinues, SpeculationTaken, RejectDraft,
               RejectAcceptCancelled, RejectGoalCancelled, Unshown
    <2>2. turn \in Turns
        BY DEF SpInv, SInv, CInv, IInv, TypeOK
    <2>3. session.steps \subseteq session'.steps /\ 0 \notin session.steps
        BY StepsGrow, AcceptedIsNumbered DEF SpInv
    <2> QED
        BY <2>1, <2>2, <2>3 DEF SpInv, DetachedIsAccepted
<1>2. CASE AcceptContinues
    <2>1. /\ turn.s = session /\ session \in Sessions
          /\ Reviewed(session) /\ session.last = session.draft
          /\ turn.gen = session.gen
        BY <1>2, ReportSpeculation, LiveClone
        DEF AcceptContinues, Accepting, SpInv, SInv
    <2>2. /\ Recorded(session) \in Sessions
          /\ Recorded(session).steps = session.steps \cup {session.draft.no}
        BY <2>1, ReportFields
    <2>3. session.draft.no \in session'.steps
        BY <1>2, <2>1, <2>2
        DEF AcceptContinues, Commit, AfterAccept, NextGeneration, Sessions
    <2>4. session.draft.no \notin session.steps
        BY <2>1 DEF SpInv, SInv, InReview, DecidedIsNotPending, UnderReview,
                    Reviewed, Decided
    <2>5. /\ turn'.spec = IF Prepaid.st \in {"running", "ok"}
                            THEN Prepaid.no ELSE 0
          /\ turn'.pc = IF Running(Prepaid) THEN "take" ELSE "call"
        BY <1>1, <1>2 DEF AcceptContinues, Turns
    <2>6. Prepaid # NoSpec => Prepaid.no = session.draft.no
        BY <2>1 DEF Prepaid, SpInv, SpeculationFits
    <2>7. CASE Prepaid.st \in {"running", "ok"}
        <3>1. turn'.spec = session.draft.no
            BY <2>5, <2>6, <2>7 DEF NoSpec
        <3> QED
            BY <1>1, <2>3, <2>4, <3>1 DEF DetachedIsAccepted
    <2>8. CASE Prepaid.st \notin {"running", "ok"}
        BY <1>1, <2>5, <2>8 DEF DetachedIsAccepted, Running
    <2> QED
        BY <2>7, <2>8
<1>3. Keeps => DetachedIsAccepted'
    BY <1>1 DEF DetachedIsAccepted
<1>4. CASE SpeculationTaken
    BY <1>1, <1>3, <1>4 DEF SpeculationTaken, Turns
<1>5. ASSUME NEW e, NEW t \in {turn, [turn EXCEPT !.exp = e]},
             NEW pc, pc # "take", NEW s, NEW pf, NEW ct,
             Suspend(t, pc, s, pf, ct)
      PROVE  Keeps
    BY <1>1, <1>5 DEF Suspend, Turns
<1>6. ASSUME NEW s, NEW ok, NEW card, NEW pf, NEW ct,
             Finish(turn, s, ok, card, pf, ct)
      PROVE  Keeps
    BY <1>1, <1>6 DEF Finish, Deliver, NoTurn, Spawn, Turns
<1>7. ASSUME NEW o, NEW pf, NEW ct, Conclude(turn, o, pf, ct)
      PROVE  Keeps
    BY <1>5, <1>6, <1>7 DEF Conclude
<1>8. CancelAccept(turn) => Keeps
    BY <1>5, <1>7 DEF CancelAccept
<1>9. ASSUME NEW s, RejectGoal(turn, s) PROVE Keeps
    BY <1>5, <1>6, <1>9 DEF RejectGoal
<1> HIDE DEF Keeps
<1>10. CASE StartTurn
    BY <1>3, <1>5, <1>10 DEF StartTurn
<1>11. CASE AbandoningTurn \/ GoalCancelled \/ AcceptCancelled
    BY <1>3, <1>5, <1>7, <1>8, <1>11
    DEF AbandoningTurn, GoalCancelled, AcceptCancelled
<1>12. CASE Answer \/ ReportRefused \/ AcceptShowsNext
    BY <1>3, <1>6, <1>12 DEF Answer, ReportRefused, AcceptShowsNext
<1>13. CASE AcceptCompletesGoal \/ CompletionCancelled
    BY <1>3, <1>5, <1>6, <1>13 DEF AcceptCompletesGoal, CompletionCancelled
<1>14. CASE RejectDraft \/ RejectAcceptCancelled \/ RejectGoalCancelled
    BY <1>3, <1>5, <1>6, <1>9, <1>14
    DEF RejectDraft, RejectAcceptCancelled, RejectGoalCancelled
<1> QED
    BY <1>2, <1>4, <1>10, <1>11, <1>12, <1>13, <1>14 DEF TurnStep

\* The abort of a turn detaches what it awaited, which it had accepted.
LEMMA StepDetaches ==
    ASSUME SpInv, Moves, Next, ~TurnStep
    PROVE  DetachedIsAccepted'
<1>1. /\ detached \subseteq session.steps /\ turn.spec \notin detached
      /\ Abandoned(turn) \subseteq session.steps
      /\ session.steps \subseteq session'.steps /\ 0 \notin session.steps
    BY StepsGrow, AcceptedIsNumbered DEF SpInv, DetachedIsAccepted, Abandoned
<1>2. ASSUME turn'.spec = 0, turn'.pc # "take",
             detached' \subseteq detached \cup Abandoned(turn)
      PROVE  DetachedIsAccepted'
    BY <1>1, <1>2 DEF DetachedIsAccepted
<1>3. NoTurn.spec = 0 /\ NoTurn.pc = "none"
    BY DEF NoTurn, Spawn
<1>4. CASE Request
    <2>1. detached' = detached \cup Abandoned(turn)
        BY <1>4
        DEF Request, ActionRequest, ReplyRequest, ApplyReport, Serve,
            CancelRequest, StopRequest, AbortPending
    <2>2. turn'.spec = 0 /\ turn'.pc # "take"
        <3>1. ASSUME NEW cmd, Serve(cmd)
              PROVE  turn'.spec = 0 /\ turn'.pc # "take"
            BY <3>1 DEF Serve, Spawn
        <3>2. CASE ActionRequest \/ ReplyRequest \/ ApplyReport
            BY <3>1, <3>2 DEF ActionRequest, ReplyRequest, ApplyReport
        <3>3. CASE CancelRequest \/ StopRequest
            BY <1>3, <3>3 DEF CancelRequest, StopRequest
        <3> QED
            BY <1>4, <3>2, <3>3 DEF Request
    <2> QED
        BY <1>2, <2>1, <2>2
<1>5. CASE Return \/ Yield \/ WriteWorking \/ Ready \/ SpeculationEnds
    <2>1. /\ session' = session /\ detached' \subseteq detached
          /\ turn' = turn \/ turn' = NoTurn
        BY <1>5
        DEF Return, Yield, WriteWorking, Ready, SpeculationEnds, PrefetchEnds,
            ContinuationEnds, DetachedEnds
    <2>2. CASE turn' = turn
        BY <2>1, <2>2 DEF SpInv, DetachedIsAccepted
    <2>3. CASE turn' = NoTurn
        BY <1>2, <1>3, <2>1, <2>3
    <2> QED
        BY <2>1, <2>2, <2>3
<1> QED
    BY <1>4, <1>5 DEF Next

LEMMA NextSpInv ==
    ASSUME ClientActions \subseteq {"cancel_turn"}
    PROVE  SpInv /\ [Next]_vars => SpInv'
<1> SUFFICES ASSUME SpInv, [Next]_vars PROVE SpInv'
    OBVIOUS
<1>1. SInv'
    BY NextSInv DEF SpInv
<1>2. ~PlainAction
    BY DEF PlainAction, SpInv, NoActionTurn, Live
<1>3. Speculating'
    BY <1>2, StartSpeculates, AbandonSpeculates, AnswerSpeculates,
       RefusalSpeculates, NextHunkSpeculates, CompletionSpeculates,
       CompletedSpeculates, ContinueSpeculates, TakenSpeculates,
       RejectionSpeculates, RequestSpeculates, OtherSpeculates
    DEF Next, TurnStep
<1>4. DetachedIsAccepted'
    <2>1. Moves
        BY NextMoves DEF SpInv, SInv
    <2>2. CASE Next
        BY <1>2, <2>1, <2>2, TurnStepDetaches, StepDetaches
    <2>3. CASE UNCHANGED vars
        BY <2>3 DEF SpInv, DetachedIsAccepted, vars
    <2> QED
        BY <2>2, <2>3
<1> QED
    BY <1>1, <1>3, <1>4 DEF SpInv, Speculating

\* With the shipped editor, whatever the user does and whenever the deadline
\* passes: a speculation the engine holds runs alone, for the draft on the
\* screen, and is consumed for no other; no batch under review has one, and no
\* turn asks the backend beside one.  One the engine lost, because the turn
\* that awaited it was aborted, is not alone, but it is for a change already
\* accepted and its answer reaches no turn (prefetch.rs, abort_pending).
THEOREM SpeculationIsAlwaysSound ==
    ASSUME ClientActions \subseteq {"cancel_turn"}
    PROVE  Spec => []SpeculationIsSound
<1>1. Init => SpInv
    <2> SUFFICES ASSUME Init PROVE SpInv
        OBVIOUS
    <2>1. SInv
        BY InitSInv
    <2>2. /\ session = NewSession /\ turn.pc = "queued" /\ turn.spec = 0
          /\ turn.cmd.op = "start" /\ detached = {}
          /\ prefetch = NoSpec /\ continuation = NoSpec
        BY DEF Init, Spawn, Command
    <2> QED
        BY <2>1, <2>2
        DEF SpInv, NoActionTurn, StartIsFirst, SpeculationFits, SliceFollows,
            SpeculationIsSettled, DetachedIsAccepted, NewSession
<1>2. SpInv /\ [Next]_vars => SpInv'
    BY NextSpInv
<1>3. SpInv => SpeculationIsSound
    <2> SUFFICES ASSUME SpInv PROVE SpeculationIsSound
        OBVIOUS
    <2>1. /\ Running(prefetch) => prefetch # NoSpec
          /\ Running(continuation) => continuation # NoSpec
        BY DEF Running, NoSpec
    <2>2. BatchRunsAlone
        BY <2>1 DEF SpInv, SpeculationFits, BatchRunsAlone
    <2>3. OneBackendTurn
        BY <2>1 DEF SpInv, SpeculationFits, SpeculationIsSettled, OneBackendTurn
    <2>4. SpeculationServesTheDraft
        BY DEF SpInv, SpeculationFits, Reviewed, SpeculationServesTheDraft
    <2>5. SpeculationIsForTheAcceptedDraft
        BY DEF SpInv, SpeculationIsSettled, SpeculationIsForTheAcceptedDraft
    <2>6. DetachedIsSpent
        <3>1. 0 \notin session.steps
            BY AcceptedIsNumbered DEF SpInv
        <3>2. Reviewed(session) => session.last.no \notin session.steps
            BY DEF SpInv, SInv, InReview, DraftIsKnown, DecidedIsNotPending,
                   UnderReview, Reviewed, Decided
        <3>3. {prefetch.no, continuation.no} \cap session.steps = {}
            BY <3>1, <3>2 DEF SpInv, SpeculationFits, NoSpec
        <3> QED
            BY <3>3 DEF SpInv, DetachedIsAccepted, DetachedIsSpent
    <2> QED
        BY <2>2, <2>3, <2>4, <2>5, <2>6 DEF SpeculationIsSound
<1> QED
    BY <1>1, <1>2, <1>3, PTL DEF Spec
=============================================================================

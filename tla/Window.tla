------------------------------- MODULE Window -------------------------------
(***************************************************************************)
(* The editor's session window: init.lua, thinking.lua, session.lua,       *)
(* card.show, permission.lua, prompt.lua, scope.lua, surfaces.lua and the  *)
(* reports of diff.lua and fileops.lua, at the other end of two pipes from *)
(* the daemon.  Every callback checks for itself whether its answer still  *)
(* matters; the modules share one state table and nothing else.            *)
(*                                                                         *)
(* The daemon is kept to what the editor can see of it (module Daemon has  *)
(* the rest): it serves requests in order, answers or yields every turn,   *)
(* and asks in the middle of one.  Tabs, focus and the text of views are   *)
(* left out; a request's number is also the identity of its turn, of the   *)
(* thinking started for it and of the session or the card it leads to.     *)
(***************************************************************************)
EXTENDS Integers, Sequences, FiniteSets

CONSTANTS
    ThinkingEnabled,    \* config.thinking.enabled
    StrayKeys,          \* whether the user presses keys of an earlier view
    MaxRequests,        \* bound on the editor's requests
    MaxTexts,           \* bound on submitted prompts
    MaxQuestions        \* bound on the daemon's questions

ASSUME WindowAssumption ==
    /\ ThinkingEnabled \in BOOLEAN /\ StrayKeys \in BOOLEAN
    /\ MaxRequests \in Nat /\ MaxTexts \in Nat /\ MaxQuestions \in Nat

None == 0
NoCard == [req |-> None, kind |-> "none"]
Proposals == {"patch", "ops"}

VARIABLES
    session,    \* state.session_id
    thinking,   \* state.thinking_request_id
    barrier,    \* state.turn_barrier
    cancelled,  \* state.cancelled_turn_id
    card,       \* state.card
    agent,      \* state.surfaces.agent: [view, working, hidden]
    keyCard,    \* the card bound to the details key of AgentWindow's buffer
    prompt,     \* PromptWindow: [open, kind, submitting, returns]
    stash,      \* state.prompt_stash
    gate,       \* state.permission: the question on screen
    draft,      \* the card whose draft is previewed (state.diff_buf)
    ops,        \* the card whose moves are reviewed (state.file_ops)
    calls,      \* callbacks waiting for an answer
    sent,       \* requests sent so far
    out, inbox, \* the two pipes
    asks,       \* questions written by the daemon, not yet handled
    sessions,   \* the daemon's sessions
    turns,      \* its running turns: [req, session, yielded, asking]
    owed,       \* a working response it has not written yet
    answers,    \* history: how often each question was answered
    applied,    \* history: the accepted drafts, with the card reported
    rejected,   \* history: the rejected proposals
    dropped,    \* history: turns the user interrupted or stopped
    written,    \* history: texts submitted so far
    settled     \* history: the ones that arrived, or were reset

editor == <<session, thinking, barrier, cancelled, card, agent, keyCard, prompt, stash,
            gate, draft, ops>>
channel == <<calls, sent, out>>
daemon == <<sessions, turns, owed>>
history == <<answers, applied, rejected, dropped, written, settled>>
vars == <<editor, channel, inbox, asks, daemon, history>>

Closed == [view |-> "closed", working |-> FALSE, hidden |-> FALSE]
NoPrompt == [open |-> FALSE, kind |-> "Prompt", submitting |-> None, returns |-> FALSE]
Questions == 1 .. MaxQuestions

(* scope.lua *)
Working == barrier \/ thinking # None \/ agent.working
Actionable == agent.view # "closed" /\ ~agent.hidden
Deciding ==
    /\ session # None /\ ~Working /\ ~prompt.open /\ Actionable
    /\ agent.view = "review" /\ (draft # NoCard \/ ops # NoCard)

----------------------------------------------------------------------------
(* Helpers: requests, views, the gate.                                     *)

Request(id, do, c) == [id |-> id, do |-> do, session |-> session, card |-> c]

Send(requests) ==
    /\ sent + Len(requests) <= MaxRequests
    /\ sent' = sent + Len(requests)
    /\ out' = out \o requests
    /\ calls' = calls \cup {requests[i] : i \in DOMAIN requests}

Render(v, w) == agent' = [agent EXCEPT !.view = v, !.working = w]

(* permission.settle: the question on screen is denied.                    *)
Settle ==
    /\ gate' = None
    /\ answers' = [q \in Questions |-> IF q = gate THEN answers[q] + 1 ELSE answers[q]]

(* thinking.start; its render waits behind a question.                     *)
StartThinking(id) ==
    IF ~ThinkingEnabled THEN UNCHANGED <<thinking, agent>>
    ELSE /\ thinking' = id
         /\ IF gate' # None THEN agent' = [agent EXCEPT !.working = FALSE]
            ELSE Render("working", TRUE)

(* A mutant of Current: any turn of the session may answer.                *)
CurrentSession(call) ==
    ~ThinkingEnabled \/ call.do = "start" \/ call.session = session

(* thinking.current, in the callback of a turn request.                    *)
Current(call) ==
    \/ ~ThinkingEnabled
    \/ thinking = call.id /\ (call.do = "start" \/ call.session = session)

----------------------------------------------------------------------------
(* card.show                                                               *)

Recorded(c) ==
    /\ card' = c /\ agent' = [agent EXCEPT !.working = TRUE]
    /\ UNCHANGED <<gate, answers, draft, ops, keyCard>>

(* The review of a patch keeps a valid preview and shows its controls.     *)
Shown(c) ==
    /\ card' = c
    /\ \E valid \in BOOLEAN :
         LET review == CASE c.kind = "patch" -> draft # NoCard \/ valid
                         [] c.kind = "ops" -> valid
                         [] OTHER -> FALSE
             view == IF review THEN "review"
                     ELSE IF c.kind = "working" THEN "working" ELSE "response"
         IN /\ Render(view, c.kind = "working")
            /\ draft' = CASE c.kind \notin Proposals -> NoCard
                          [] c.kind = "patch" /\ draft = NoCard /\ valid -> c
                          [] OTHER -> draft
            /\ ops' = CASE c.kind \notin Proposals -> NoCard
                        [] c.kind = "ops" /\ valid -> c
                        [] OTHER -> ops
            /\ keyCard' = IF c.kind = "working" \/ (c.kind = "ops" /\ review)
                          THEN keyCard ELSE c

ShowCard(c) ==
    \/ gate # None /\ c.kind = "working" /\ Recorded(c)
    \/ (gate = None \/ c.kind # "working") /\ Settle /\ Shown(c)

(* session.apply_turn_result *)
ApplyResult(c, show) ==
    /\ cancelled' = IF c.kind = "working" THEN cancelled ELSE None
    /\ IF show THEN ShowCard(c)
       ELSE UNCHANGED <<card, agent, keyCard, gate, answers, draft, ops>>

ShowError ==        \* show_agent_error
    Settle /\ Render("error", FALSE)

----------------------------------------------------------------------------
(* PromptWindow.                                                           *)

OpenPrompt(kind, returns) ==
    prompt' = [open |-> TRUE, kind |-> kind, submitting |-> None, returns |-> returns]

(* rpc.stop: the callbacks run with an error, the daemon ends.             *)
DaemonEnds ==
    /\ calls' = {} /\ out' = <<>> /\ inbox' = <<>> /\ UNCHANGED sent
    /\ sessions' = {} /\ turns' = {} /\ owed' = None


TurnRequests == {"start", "reply", "accept"}

(* Callbacks that show an error when the daemon ends.                      *)
FailsLoudly ==
    \E c \in calls :
        c.do = "reject" \/ (c.do \in TurnRequests /\ ~ThinkingEnabled)

----------------------------------------------------------------------------
(* What the user does.                                                     *)

PromptAllowed ==
    ~prompt.open /\ ~(agent.view = "review" /\ Actionable)

PromptOpens ==
    /\ PromptAllowed /\ ~Working
    /\ OpenPrompt("Prompt", session # None)
    /\ UNCHANGED <<session, thinking, barrier, cancelled, card, agent, keyCard, stash, gate,
                   draft, ops, channel, inbox, asks, daemon, history>>

(* A mutant of PromptInterrupts: the question on screen is left behind.    *)
PromptInterruptsOnly ==
    /\ PromptAllowed /\ Working /\ session # None
    /\ cancelled' = IF card.kind = "working" THEN card.req ELSE cancelled
    /\ dropped' = dropped \cup {thinking}
                  \cup (IF card.kind = "working" THEN {card.req} ELSE {})
    /\ barrier' = TRUE /\ thinking' = None
    /\ Render("interrupted", FALSE)
    /\ Send(<<Request(sent + 1, "cancel", NoCard)>>)
    /\ OpenPrompt("Prompt", TRUE)
    /\ UNCHANGED <<session, card, keyCard, stash, gate, draft, ops, inbox, asks, daemon,
                   answers, applied, rejected, written, settled>>

(* interrupt_for_prompt: the turn is given up here and cancelled there.    *)
PromptInterrupts ==
    /\ PromptAllowed /\ Working /\ session # None
    /\ Settle
    /\ cancelled' = IF card.kind = "working" THEN card.req ELSE cancelled
    /\ dropped' = dropped \cup {thinking}
                  \cup (IF card.kind = "working" THEN {card.req} ELSE {})
    /\ barrier' = TRUE /\ thinking' = None
    /\ Render("interrupted", FALSE)
    /\ Send(<<Request(sent + 1, "cancel", NoCard)>>)
    /\ OpenPrompt("Prompt", TRUE)
    /\ UNCHANGED <<session, card, keyCard, stash, draft, ops, inbox, asks, daemon,
                   applied, rejected, written, settled>>

(* ... before the session has a name, only the daemon's end cancels it.    *)
PromptRestarts ==
    /\ PromptAllowed /\ Working /\ session = None
    /\ Settle
    /\ dropped' = dropped \cup {thinking}
    /\ barrier' = FALSE /\ thinking' = None
    /\ Render(IF FailsLoudly THEN "error" ELSE "interrupted", FALSE)
    /\ DaemonEnds
    /\ OpenPrompt("Prompt", FALSE)
    /\ UNCHANGED <<session, cancelled, card, keyCard, stash, draft, ops, asks,
                   applied, rejected, written, settled>>

(* A mutant of ReplyOpens: a reply during the turn.                        *)
ReplyOpensAnyTime ==
    /\ session # None /\ ~prompt.open /\ Actionable
    /\ OpenPrompt("Reply", TRUE)
    /\ UNCHANGED <<session, thinking, barrier, cancelled, card, agent, keyCard, stash, gate,
                   draft, ops, channel, inbox, asks, daemon, history>>

ReplyOpens ==
    /\ session # None /\ ~Working /\ ~prompt.open /\ Actionable
    /\ OpenPrompt("Reply", TRUE)
    /\ UNCHANGED <<session, thinking, barrier, cancelled, card, agent, keyCard, stash, gate,
                   draft, ops, channel, inbox, asks, daemon, history>>

(* prompt.close by the user; the submission under way is withdrawn.        *)
PromptCloses ==
    /\ prompt.open
    /\ prompt' = NoPrompt
    /\ agent' = IF prompt.returns THEN [agent EXCEPT !.hidden = FALSE] ELSE agent
    /\ UNCHANGED <<session, thinking, barrier, cancelled, card, keyCard, stash, gate,
                   draft, ops, channel, inbox, asks, daemon, history>>

(* prompt.submit: the text is kept; flow.await runs on.                    *)
Submit ==
    /\ prompt.open /\ ~barrier
    /\ written < MaxTexts
    /\ written' = written + 1 /\ stash' = written + 1
    /\ prompt' = [prompt EXCEPT !.submitting = written + 1]
    /\ UNCHANGED <<session, thinking, barrier, cancelled, card, agent, keyCard, gate, draft,
                   ops, channel, inbox, asks, daemon, answers, applied, rejected, dropped,
                   settled>>

LeaveSession ==
    /\ session' = None /\ card' = NoCard /\ cancelled' = None /\ barrier' = FALSE
    /\ draft' = NoCard /\ ops' = NoCard /\ keyCard' = NoCard
    /\ dropped' = dropped \cup {c.id : c \in calls}
                  \cup (IF card.kind = "working" THEN {card.req} ELSE {})

(* ... submit_prompt: the session is stopped and a new one starts.         *)
SubmitPrompt ==
    LET stop == IF session = None THEN <<>> ELSE <<Request(sent + 1, "stop", NoCard)>>
        start == [Request(sent + Len(stop) + 1, "start", NoCard) EXCEPT !.session = None]
    IN
    /\ prompt.submitting # None /\ prompt.kind = "Prompt"
    /\ Send(stop \o <<start>>)
    /\ IF session = None
       THEN UNCHANGED <<session, barrier, cancelled, card, keyCard, gate, draft, ops,
                        answers, dropped>>
       ELSE LeaveSession /\ Settle
    /\ IF ThinkingEnabled
       THEN /\ thinking' = start.id
            /\ agent' = IF gate' # None THEN [agent EXCEPT !.working = FALSE]
                        ELSE [view |-> "working", working |-> TRUE,
                              hidden |-> session = None /\ agent.hidden]
       ELSE /\ thinking' = None
            /\ agent' = IF session = None THEN agent ELSE Closed
    /\ prompt' = NoPrompt
    /\ UNCHANGED <<stash, inbox, asks, daemon, applied, rejected, written, settled>>

(* ... submit_reply; the token budget's question may be declined.          *)
SubmitReply ==
    /\ prompt.submitting # None /\ prompt.kind = "Reply"
    /\ prompt' = NoPrompt
    /\ \/ UNCHANGED <<thinking, agent, draft, ops, channel>>
       \/ /\ session # None /\ ~barrier
          /\ draft' = NoCard /\ ops' = NoCard
          /\ Send(<<Request(sent + 1, "reply", NoCard)>>)
          /\ UNCHANGED gate /\ StartThinking(sent + 1)
    /\ UNCHANGED <<session, barrier, cancelled, card, keyCard, stash, gate, inbox, asks,
                   daemon, history>>

(* A mutant of Accept: the accepted draft is still the preview.            *)
AcceptKeepsPreview ==
    LET accepted == IF card.kind = "patch" THEN draft ELSE ops IN
    /\ Deciding /\ card.kind \in Proposals /\ accepted # NoCard
    /\ applied' = Append(applied, [draft |-> accepted, card |-> card])
    /\ Send(<<Request(sent + 1, "accept", card)>>)
    /\ UNCHANGED gate /\ StartThinking(sent + 1)
    /\ UNCHANGED <<session, barrier, cancelled, card, keyCard, prompt, stash, gate, draft, ops,
                   inbox, asks, daemon, answers, rejected, dropped, written, settled>>

(* diff.accept and fileops.accept, then send_accept.                       *)
Accept ==
    LET accepted == IF card.kind = "patch" THEN draft ELSE ops IN
    /\ Deciding /\ card.kind \in Proposals /\ accepted # NoCard
    /\ applied' = Append(applied, [draft |-> accepted, card |-> card])
    /\ draft' = IF card.kind = "patch" THEN NoCard ELSE draft
    /\ ops' = IF card.kind = "ops" THEN NoCard ELSE ops
    /\ Send(<<Request(sent + 1, "accept", card)>>)
    /\ UNCHANGED gate /\ StartThinking(sent + 1)
    /\ UNCHANGED <<session, barrier, cancelled, card, keyCard, prompt, stash, gate, inbox,
                   asks, daemon, answers, rejected, dropped, written, settled>>

(* diff.reject and fileops.reject: the barrier is up until the daemon has  *)
(* recorded it.                                                            *)
Reject ==
    /\ Deciding /\ card.kind \in Proposals
    /\ rejected' = rejected \cup {card}
    /\ draft' = IF card.kind = "patch" THEN NoCard ELSE draft
    /\ ops' = IF card.kind = "ops" THEN NoCard ELSE ops
    /\ Render("paused", FALSE)
    /\ barrier' = TRUE
    /\ Send(<<Request(sent + 1, "reject", card)>>)
    /\ OpenPrompt("Reply", TRUE)
    /\ UNCHANGED <<session, thinking, cancelled, card, keyCard, stash, gate, inbox, asks,
                   daemon, answers, applied, dropped, written, settled>>

(* M.stop *)
Stop ==
    /\ session # None
    /\ LeaveSession /\ Settle
    /\ thinking' = None /\ agent' = Closed
    /\ prompt' = [prompt EXCEPT !.open = FALSE]
    /\ Send(<<Request(sent + 1, "stop", NoCard)>>)
    /\ UNCHANGED <<stash, inbox, asks, daemon, applied, rejected, written, settled>>

(* M.reset *)
Reset ==
    /\ Settle /\ LeaveSession
    /\ thinking' = None /\ agent' = Closed
    /\ prompt' = [prompt EXCEPT !.open = FALSE] /\ stash' = None
    /\ settled' = settled \cup (1 .. written)
    /\ DaemonEnds
    /\ UNCHANGED <<asks, applied, rejected, written>>

(* M.hide and M.resume *)
Hide ==
    /\ session # None /\ ~prompt.open /\ agent.view # "closed"
    /\ agent' = [agent EXCEPT !.hidden = ~@]
    /\ UNCHANGED <<session, thinking, barrier, cancelled, card, keyCard, prompt, stash, gate,
                   draft, ops, channel, inbox, asks, daemon, history>>

(* The details key of AgentWindow shows the card it was bound for.  The    *)
(* buffer keeps the binding when another view is rendered into it.         *)
ToggleDetails ==
    /\ keyCard # NoCard /\ Actionable
    /\ StrayKeys \/ (agent.view \in {"review", "response"} /\ keyCard = card)
    /\ ShowCard(keyCard)
    /\ UNCHANGED <<session, thinking, barrier, cancelled, prompt, stash, channel, inbox,
                   asks, daemon, applied, rejected, dropped, written, settled>>

(* permission.accept and permission.deny                                   *)
AcceptQuestion ==
    /\ gate # None /\ Settle
    /\ IF card.kind = "working" THEN Shown(card)
       ELSE UNCHANGED <<card, agent, keyCard, draft, ops>>
    /\ UNCHANGED <<session, thinking, barrier, cancelled, prompt, stash, channel, inbox, asks,
                   daemon, applied, rejected, dropped, written, settled>>

DenyQuestion ==
    /\ gate # None /\ Settle
    /\ UNCHANGED <<session, thinking, barrier, cancelled, card, agent, keyCard, prompt, stash,
                   draft, ops, channel, inbox, asks, daemon, applied, rejected, dropped,
                   written, settled>>

----------------------------------------------------------------------------
(* What arrives.                                                           *)

(* thinking.tick, and progress beside it: the spinner owns AgentWindow     *)
(* again.                                                                  *)
Tick ==
    /\ thinking # None /\ gate = None /\ agent.view # "working"
    /\ Render("working", TRUE)
    /\ UNCHANGED <<session, thinking, barrier, cancelled, card, keyCard, prompt, stash, gate,
                   draft, ops, channel, inbox, asks, daemon, history>>

(* agent/progress of a turn that yielded redraws its working card.         *)
Progress ==
    /\ card.kind = "working" /\ card.req # cancelled
    /\ \E t \in turns : t.session = session
    /\ ShowCard(card)
    /\ UNCHANGED <<session, thinking, barrier, cancelled, prompt, stash, channel, inbox,
                   asks, daemon, applied, rejected, dropped, written, settled>>

(* editor/open_location; a target outside the workspace is denied at once. *)
Question(q) ==
    /\ q \in asks
    /\ asks' = asks \ {q}
    /\ \/ /\ gate' = q /\ Render("permission", TRUE)
          /\ answers' = [g \in Questions |-> IF g = gate THEN answers[g] + 1 ELSE answers[g]]
       \/ /\ gate' = None /\ UNCHANGED agent
          /\ answers' = [g \in Questions |->
                            IF g \in {gate, q} THEN answers[g] + 1 ELSE answers[g]]
    /\ UNCHANGED <<session, thinking, barrier, cancelled, card, keyCard, prompt, stash, draft,
                   ops, channel, inbox, daemon, applied, rejected, dropped, written, settled>>

(* agent/turn_ready *)
TurnReady ==
    LET m == Head(inbox) IN
    /\ inbox # <<>> /\ inbox' = Tail(inbox)
    /\ m.is = "ready"
    /\ IF \/ m.session # session \/ m.req = cancelled
          \/ card # [req |-> m.req, kind |-> "working"]
       THEN UNCHANGED <<cancelled, card, agent, keyCard, gate, answers, draft, ops>>
       ELSE \/ /\ ~m.ok /\ cancelled' = m.req /\ ShowError
               /\ UNCHANGED <<card, keyCard, draft, ops>>
            \/ m.ok /\ ApplyResult(m.card, TRUE)
    /\ UNCHANGED <<session, thinking, barrier, prompt, stash, channel, asks, daemon, applied,
                   rejected, dropped, written, settled>>

(* A mutant of Started: the text is let go of before the answer is known.  *)
StartedEitherWay(call, m) ==
    /\ thinking' = None /\ stash' = None
    /\ \/ /\ ~m.ok /\ ShowError
          /\ UNCHANGED <<session, settled, cancelled, card, keyCard, draft, ops>>
       \/ /\ m.ok /\ settled' = settled \cup {written}
          /\ session' = m.session
          /\ ApplyResult(m.card, TRUE)
    /\ UNCHANGED barrier

(* The callback of session/start.                                          *)
Started(call, m) ==
    /\ thinking' = None
    /\ \/ /\ ~m.ok /\ ShowError
          /\ UNCHANGED <<session, stash, settled, cancelled, card, keyCard, draft, ops>>
       \/ /\ m.ok /\ stash' = None /\ settled' = settled \cup {written}
          /\ session' = m.session
          /\ ApplyResult(m.card, TRUE)
    /\ UNCHANGED barrier

(* ... of session/reply                                                    *)
Replied(call, m) ==
    /\ thinking' = None
    /\ \/ /\ ~m.ok /\ ShowError
          /\ UNCHANGED <<stash, settled, cancelled, card, keyCard, draft, ops>>
       \/ /\ m.ok /\ m.session # session
          /\ agent' = [agent EXCEPT !.working = FALSE]
          /\ UNCHANGED <<stash, settled, cancelled, card, keyCard, gate, answers, draft, ops>>
       \/ /\ m.ok /\ m.session = session
          /\ stash' = None /\ settled' = settled \cup {written}
          /\ ApplyResult(m.card, TRUE)
    /\ UNCHANGED <<session, barrier>>

(* ... of an accepted proposal; a newer review keeps the editor.           *)
AcceptReported(call, m) ==
    LET superseded == card # NoCard /\ card # call.card /\ draft # NoCard IN
    /\ thinking' = None
    /\ \/ /\ ~m.ok /\ Render("error", FALSE)
          /\ UNCHANGED <<cancelled, card, keyCard, gate, answers, draft, ops>>
       \/ /\ m.ok /\ m.session # session
          /\ agent' = [agent EXCEPT !.working = FALSE]
          /\ UNCHANGED <<cancelled, card, keyCard, gate, answers, draft, ops>>
       \/ m.ok /\ m.session = session /\ ApplyResult(m.card, ~superseded)
    /\ UNCHANGED <<session, stash, settled, barrier>>

(* ... of a rejected one: without the daemon's word the barrier stays up.  *)
RejectReported(call, m) ==
    /\ IF m.ok THEN barrier' = FALSE /\ UNCHANGED agent
       ELSE UNCHANGED barrier /\ Render("error", FALSE)
    /\ UNCHANGED <<session, thinking, cancelled, card, keyCard, stash, gate, draft, ops,
                   answers, settled>>

(* A mutant of CancelReported: a refused cancellation keeps the barrier.   *)
CancelReportedIfDone(call, m) ==
    /\ barrier' = (barrier /\ ~m.ok)
    /\ UNCHANGED <<session, thinking, cancelled, card, agent, keyCard, stash, gate, draft,
                   ops, answers, settled>>

CancelReported(call, m) ==
    /\ barrier' = FALSE
    /\ UNCHANGED <<session, thinking, cancelled, card, agent, keyCard, stash, gate, draft,
                   ops, answers, settled>>

NothingReported ==
    UNCHANGED <<session, thinking, barrier, cancelled, card, agent, keyCard, stash, gate,
                draft, ops, answers, settled>>

Response ==
    LET m == Head(inbox) IN
    /\ inbox # <<>> /\ inbox' = Tail(inbox)
    /\ m.is = "response"
    /\ \E call \in {c \in calls : c.id = m.req} :
       /\ calls' = calls \ {call}
       /\ \/ call.do \in TurnRequests /\ ~Current(call) /\ NothingReported
          \/ call.do = "start" /\ Current(call) /\ Started(call, m)
          \/ call.do = "reply" /\ Current(call) /\ Replied(call, m)
          \/ call.do = "accept" /\ Current(call) /\ AcceptReported(call, m)
          \/ call.do = "reject" /\ RejectReported(call, m)
          \/ call.do = "cancel" /\ CancelReported(call, m)
          \/ call.do = "stop" /\ NothingReported
    /\ UNCHANGED <<prompt, sent, out, asks, daemon, applied, rejected, dropped, written>>

----------------------------------------------------------------------------
(* The daemon, as far as the editor can tell.                              *)

Message(is, req, s, ok, c) == [is |-> is, req |-> req, session |-> s, ok |-> ok, card |-> c]
Results(req) == [req : {req}, kind : {"patch", "ops", "text"}]
Turn(req, s) == [req |-> req, session |-> s, yielded |-> FALSE, asking |-> None]
Busy == owed # None \/ \E t \in turns : ~t.yielded
Write(m) == inbox' = Append(inbox, m)
Editing == <<editor, calls, sent, history>>

(* A request is served once the turn before it has ended or yielded; every *)
(* one but a start first aborts the turn of its session.                   *)
Serve ==
    LET r == Head(out)
        others == {t \in turns : t.session # r.session}
        answered(ok, c) == Write(Message("response", r.id, r.session, ok, c)) IN
    /\ out # <<>> /\ ~Busy
    /\ out' = Tail(out)
    /\ \/ /\ r.do = "start"
          /\ sessions' = sessions \cup {r.id} /\ turns' = turns \cup {Turn(r.id, r.id)}
          /\ UNCHANGED inbox
       \/ /\ r.do \in {"reply", "accept"} /\ r.session \in sessions
          /\ turns' = others \cup {Turn(r.id, r.session)}
          /\ UNCHANGED <<sessions, inbox>>
       \/ /\ r.do = "accept" /\ r.session \in sessions         \* the next queued hunk
          /\ turns' = others /\ answered(TRUE, [req |-> r.id, kind |-> "patch"])
          /\ UNCHANGED sessions
       \/ /\ r.do \in {"reject", "cancel"} /\ r.session \in sessions
          /\ turns' = others /\ answered(TRUE, NoCard)
          /\ UNCHANGED sessions
       \/ /\ r.do \in {"reply", "accept", "reject", "cancel"}
          /\ turns' = others /\ answered(FALSE, NoCard)
          /\ UNCHANGED sessions
       \/ /\ r.do = "stop"
          /\ sessions' = sessions \ {r.session} /\ turns' = others
          /\ answered(TRUE, NoCard)
    /\ UNCHANGED <<Editing, asks, owed>>

(* The deadline passes: the notifier is there before the working response. *)
Yield(t) ==
    /\ t \in turns /\ ~t.yielded
    /\ turns' = (turns \ {t}) \cup {[t EXCEPT !.yielded = TRUE]}
    /\ owed' = t.req
    /\ UNCHANGED <<Editing, out, inbox, asks, sessions>>

WriteWorking ==
    \E r \in {c \in calls : c.id = owed} :
    /\ owed # None /\ owed' = None
    /\ Write(Message("response", owed, IF r.do = "start" THEN owed ELSE r.session, TRUE,
                     [req |-> owed, kind |-> "working"]))
    /\ UNCHANGED <<Editing, out, asks, sessions, turns>>

TurnEnds(t) ==
    /\ t \in turns /\ t.asking = None
    /\ turns' = turns \ {t}
    /\ LET is == IF t.yielded THEN "ready" ELSE "response" IN
       \/ Write(Message(is, t.req, t.session, FALSE, NoCard))
       \/ \E c \in Results(t.req) : Write(Message(is, t.req, t.session, TRUE, c))
    /\ UNCHANGED <<Editing, out, asks, sessions, owed>>

Asked == {t.asking : t \in turns} \cup asks \cup {g \in Questions : answers[g] > 0} \cup {gate}

TurnAsks(t) ==
    \E q \in Questions \ Asked :
    /\ t \in turns /\ t.asking = None
    /\ asks' = asks \cup {q}
    /\ turns' = (turns \ {t}) \cup {[t EXCEPT !.asking = q]}
    /\ UNCHANGED <<Editing, out, inbox, sessions, owed>>

(* The answer arrives, is lost to another reader, or the wait expires.     *)
QuestionEnds(t) ==
    /\ t \in turns /\ t.asking # None
    /\ turns' = (turns \ {t}) \cup {[t EXCEPT !.asking = None]}
    /\ UNCHANGED <<Editing, out, inbox, asks, sessions, owed>>

----------------------------------------------------------------------------
Init ==
    /\ session = None /\ thinking = None /\ barrier = FALSE /\ cancelled = None
    /\ card = NoCard /\ agent = Closed /\ keyCard = NoCard
    /\ prompt = NoPrompt /\ stash = None
    /\ gate = None /\ draft = NoCard /\ ops = NoCard
    /\ calls = {} /\ sent = 0 /\ out = <<>> /\ inbox = <<>> /\ asks = {}
    /\ sessions = {} /\ turns = {} /\ owed = None
    /\ answers = [q \in Questions |-> 0] /\ applied = <<>> /\ rejected = {}
    /\ dropped = {} /\ written = 0 /\ settled = {}

User ==
    \/ PromptOpens \/ PromptInterrupts \/ PromptRestarts \/ ReplyOpens \/ PromptCloses
    \/ Submit \/ Accept \/ Reject \/ Stop \/ Reset \/ Hide \/ ToggleDetails
    \/ AcceptQuestion \/ DenyQuestion

Arrival ==
    Tick \/ Progress \/ TurnReady \/ Response \/ \E q \in Questions : Question(q)

Daemon ==
    \/ Serve \/ WriteWorking
    \/ \E t \in turns : Yield(t) \/ TurnEnds(t) \/ TurnAsks(t) \/ QuestionEnds(t)

Next == User \/ SubmitPrompt \/ SubmitReply \/ Arrival \/ Daemon

(* The daemon's main loop and its turns run, each wait for an answer has a *)
(* timeout, and the editor's event loop takes what arrives.                *)
Fairness ==
    /\ WF_vars(Serve) /\ WF_vars(WriteWorking)
    /\ WF_vars(\E t \in turns : QuestionEnds(t)) /\ WF_vars(\E t \in turns : TurnEnds(t))
    /\ WF_vars(TurnReady \/ Response)

Spec == Init /\ [][Next]_vars /\ Fairness

----------------------------------------------------------------------------
(* Properties.                                                             *)

Requests == 0 .. MaxRequests
Cards == [req : 1 .. MaxRequests, kind : {"patch", "ops", "text", "working"}] \cup {NoCard}

TypeOK ==
    /\ session \in Requests /\ thinking \in Requests /\ cancelled \in Requests
    /\ barrier \in BOOLEAN
    /\ {card, keyCard, draft, ops} \subseteq Cards
    /\ agent.hidden => agent.view # "closed"
    /\ draft.kind \in {"none", "patch"} /\ ops.kind \in {"none", "ops"}
    /\ stash \in 0 .. written /\ prompt.submitting \in 0 .. written
    /\ gate \in {None} \cup Questions
    /\ sent \in Requests /\ \A c \in calls : c.id \in 1 .. sent
    /\ owed \in Requests /\ sessions \subseteq 1 .. sent

(* What runs for a session was rejected or cancelled by the user, and the  *)
(* answer to that is still to come.                                        *)
GivenUp(s) == \E c \in calls : c.do \in {"reject", "cancel"} /\ c.session = s

(* Two turns never overlap in one session: when the daemon takes a reply   *)
(* or an acceptance, whatever ran for the session was cancelled before     *)
(* (prompt.submit's barrier, scope.working).                               *)
OneTurnAtATime ==
    [][Serve /\ Head(out).do \in {"reply", "accept"} =>
          \A t \in turns : t.session # Head(out).session]_vars

(* An acceptance is reported for the proposal whose draft became the file, *)
(* once, and never for one the user rejected.                              *)
ReportsAreTrue ==
    /\ TypeOK
    /\ \A i \in DOMAIN applied :
           applied[i].draft = applied[i].card /\ applied[i].card \notin rejected
    /\ \A i, j \in DOMAIN applied : applied[i].card = applied[j].card => i = j

(* A late result of a turn the user interrupted or stopped is ignored: it  *)
(* never becomes the response or the review on screen.                     *)
LateResultsAreIgnored ==
    agent.view \in {"response", "review"} => card.req \notin dropped

(* No request of the session is sent behind a question that is still on    *)
(* screen and whose turn waits for it, since the daemon would not read it: *)
(* each way out of the question answers it first.  Only a turn that is     *)
(* already cancelled may ask so late that a reply passes its question.  No *)
(* question is answered twice.                                             *)
QuestionsComeFirst ==
    [][/\ sent' # sent /\ gate' # None =>
             \A t \in turns :
                 t.session = session /\ t.asking = gate' => GivenUp(session)
       /\ \A q \in Questions : answers'[q] <= 1]_vars

(* The text the user submitted last is kept for the next prompt until the  *)
(* daemon has accepted it, whatever fails or is interrupted in between.    *)
TextIsKept == written # 0 /\ written \notin settled => stash = written

(* The barrier does not outlast the answer it waits for, unless the        *)
(* rejection could not be recorded; then AgentWindow says so.              *)
BarrierFalls ==
    (barrier /\ \E c \in calls : c.do \in {"reject", "cancel"})
        ~> (~barrier \/ agent.view = "error")

(* After Reject the proposal is no longer actionable.                      *)
RejectedIsInert == Deciding => card \notin rejected

=============================================================================

------------------------------ MODULE Backends ------------------------------
(***************************************************************************)
(* The adapters that keep an agent process alive between turns: codex_app  *)
(* (one app-server per phase, JSON-RPC), claude_app (a slot per phase of   *)
(* the session, stream-json) and stdio_agent (one process for everything). *)
(* A lane is the lock around such a process, the process and what the      *)
(* adapter remembers of its conversations.  The daemon's main loop aborts  *)
(* turns and cancels them at the backend; the engine speculates beside     *)
(* them.  What a prompt says is left out but for the source context, which *)
(* a turn may omit when its conversation has it already.  The agents are   *)
(* external: they answer, fail, stay silent or die.                        *)
(***************************************************************************)
EXTENDS Naturals, Sequences, FiniteSets, SequencesExt

CONSTANTS
    Adapters,       \* which adapters to look at: "codex", "claude", "stdio"
    Sessions,
    Contexts,       \* fingerprints of the source context
    MaxAsks,        \* bound on turns and warm-ups
    MaxSpeculations,
    MaxFaults,      \* bound on what goes wrong at the agent
    Faults,         \* of which kinds: "crash", "garble", "refuse"
    MaxLanes        \* bound on claude_app's processes at a time

Lanes == 1 .. MaxLanes
MaxTurns == MaxAsks + MaxSpeculations
Turns == 1 .. MaxTurns
Cancellers == 0 .. MaxTurns         \* 0 is the main loop
NoRun == <<0, 0>>
Run(t, attempt) == <<t, attempt>>
Misread == <<0, 1>>                 \* the answer is a line that is no run's result
NoSession == "none"
NoTurn == [run |-> NoRun, session |-> NoSession]

ASSUME BackendsAssumption ==
    /\ Adapters \subseteq {"codex", "claude", "stdio"}
    /\ NoSession \notin Sessions
    /\ MaxAsks \in Nat /\ MaxSpeculations \in Nat /\ MaxFaults \in Nat
    /\ MaxLanes \in Nat /\ MaxLanes >= 2

VARIABLES
    adapter,
    turns,      \* the calls of next_card and warmup so far, as a sequence
    lanes,
    slots,      \* claude_app's state: [session, discovery, patch, warm]
    cancels,    \* calls of cancel_turn under way, by their caller
    spec,       \* the engine's speculation for a session
    faults

vars == <<adapter, turns, lanes, slots, cancels, spec, faults>>

Ended == {"done", "failed", "dropped"}
Live(t) == turns[t].pc \notin Ended
Ordinary(t) == ~turns[t].spec
Asked == {t \in DOMAIN turns : Ordinary(t)}
MainIsIdle ==
    /\ cancels[0].step = "idle"
    /\ \A t \in DOMAIN turns : turns[t].conv = "warm" => ~Live(t)

----------------------------------------------------------------------------
(* Lanes.                                                                  *)

(* s without x, where x is at most once in s.                              *)
Without(s, x) ==
    IF \E i \in DOMAIN s : s[i] = x
    THEN RemoveAt(s, CHOOSE i \in DOMAIN s : s[i] = x) ELSE s

EmptyLane ==
    [queue |-> <<>>, up |-> FALSE, spawned |-> FALSE, threads |-> {}, prints |-> {},
     active |-> NoTurn, wire |-> <<>>, events |-> <<>>, running |-> <<>>, known |-> {},
     users |-> {}]

(* Mutant: the conversations outlive their process.                        *)
ForgetsTheTurnOnly(L) == [L EXCEPT !.active = NoTurn]

ClearConversation(L) == [L EXCEPT !.threads = {}, !.prints = {}, !.active = NoTurn]

(* The process is gone, with its pipes and all it knew.                    *)
WithoutProcess(L) ==
    [L EXCEPT !.spawned = FALSE, !.up = FALSE, !.wire = <<>>, !.events = <<>>,
              !.running = <<>>, !.known = {}, !.users = {}]

InvalidateProcess(L) == ClearConversation(WithoutProcess(L))
KillProcess(L) == InvalidateProcess(L)
Spawned(L) == [WithoutProcess(L) EXCEPT !.spawned = TRUE, !.up = TRUE]
Freed(L) == [L EXCEPT !.queue = Tail(@)]

(* A write to a dead process fails, or is lost in the pipe.                *)
Sent(L, m) == IF L.up THEN [L EXCEPT !.wire = Append(@, m)] ELSE L
WriteFails(L) == ~L.up

Holds(c, l) == lanes[l].queue # <<>> /\ Head(lanes[l].queue) = c

LaneOf(conv) == IF conv \in {"discover", "warm"} THEN 1 ELSE 2
Phase(conv) == IF conv = "discover" THEN "discovery" ELSE "patch"
ThreadKey(u) == <<u.session, u.conv>>

Request(do, t, attempt) == [do |-> do, run |-> Run(t, attempt)]
StartTurn(t, u, thread, omits) ==
    [do |-> "start", run |-> Run(t, u.attempt), thread |-> thread, ctx |-> u.ctx,
     omits |-> omits, session |-> u.session]

----------------------------------------------------------------------------
(* The daemon and the engine, as far as they call a backend.               *)

NoCancel == [step |-> "idle", session |-> NoSession, left |-> <<>>]

NewTurn(s, conv, ctx, isSpec) ==
    [session |-> s, conv |-> conv, ctx |-> ctx, spec |-> isSpec, pc |-> "called",
     lane |-> 0, attempt |-> 1, aborted |-> FALSE, awaits |-> 0, answer |-> NoRun]

Via(l) == IF l = 0 THEN <<>> ELSE <<l>>

(* Mutant: the patch lane is forgotten.                                    *)
DiscoveryOnly(s) ==
    IF adapter = "claude" THEN {Via(IF slots.session = s THEN slots.discovery ELSE 0)}
    ELSE {<<1>>}

(* Where cancel_turn goes, and in which order.                             *)
CancelRoutes(s) ==
    CASE adapter = "codex" -> {<<1, 2>>}
      [] adapter = "stdio" -> {<<1>>}
      [] adapter = "claude" ->
           IF slots.session # s THEN {<<>>}
           ELSE {Via(slots.discovery) \o Via(slots.patch), Via(slots.patch) \o Via(slots.discovery)}

Cancelling(c, s) ==
    \E route \in CancelRoutes(s) :
        cancels' = [cancels EXCEPT ![c] =
            [step |-> "next", session |-> s, left |-> route]]

Aborted(ts, t) == [ts EXCEPT ![t].aborted = TRUE]

(* One ordinary turn at a time holds the engine.  It may leave a           *)
(* speculation alone, drop it and cancel it at the backend, or wait for    *)
(* its answer.  A speculation is in its lane before the user's next        *)
(* request: its task is scheduled sooner than a user answers.              *)
Ask(s, conv, ctx) ==
    LET t == Len(turns) + 1
        turn == NewTurn(s, conv, ctx, FALSE)
        old == spec[s] IN
    /\ MainIsIdle /\ Cardinality(Asked) < MaxAsks
    /\ \A o \in Asked : ~Live(o)
    /\ \A o \in DOMAIN turns : turns[o].pc # "called"
    /\ \/ turns' = Append(turns, turn) /\ UNCHANGED <<spec, cancels>>
       \/ /\ old # 0 /\ ~Live(old)
          /\ spec' = [spec EXCEPT ![s] = 0]
          /\ turns' = Append(turns, turn) /\ UNCHANGED cancels
       \/ /\ old # 0 /\ Live(old)
          /\ spec' = [spec EXCEPT ![s] = 0]
          /\ turns' = Append(Aborted(turns, old), [turn EXCEPT !.pc = "cancelling"])
          /\ Cancelling(t, s)
       \/ /\ old # 0
          /\ spec' = [spec EXCEPT ![s] = 0]
          /\ turns' = Append(turns, [turn EXCEPT !.pc = "awaiting", !.awaits = old])
          /\ UNCHANGED cancels
    /\ UNCHANGED <<adapter, lanes, slots, faults>>

(* schedule_prefetch and schedule_goal_continuation, at the end of a turn  *)
(* that showed a proposal, or when a draft is resumed, which asks no agent *)
(* (Action::ResumeDraft), with the context of that turn.                   *)
Speculate(s) ==
    LET mine == {o \in Asked : turns[o].session = s} IN
    /\ spec[s] = 0 /\ cancels[0].step = "idle"
    /\ Cardinality(DOMAIN turns \ Asked) < MaxSpeculations
    /\ mine # {} /\ turns[Max(mine)].pc = "done"
    /\ \A o \in Asked : turns[o].conv # "warm" => ~Live(o)
    /\ turns' = Append(turns, NewTurn(s, "goal", turns[Max(mine)].ctx, TRUE))
    /\ spec' = [spec EXCEPT ![s] = Len(turns) + 1]
    /\ UNCHANGED <<adapter, lanes, slots, cancels, faults>>

(* abort_pending: a speculation the turn was waiting for goes on, detached *)
AbortPending(t) ==
    /\ MainIsIdle /\ Live(t) /\ Ordinary(t) /\ ~turns[t].aborted
    /\ turns' = Aborted(turns, t)
    /\ Cancelling(0, turns[t].session)
    /\ UNCHANGED <<adapter, lanes, slots, spec, faults>>

(* Engine::cancel_turn *)
CancelSpeculation(s) ==
    /\ MainIsIdle /\ spec[s] # 0
    /\ \A o \in Asked : ~Live(o)
    /\ spec' = [spec EXCEPT ![s] = 0]
    /\ IF Live(spec[s])
       THEN turns' = Aborted(turns, spec[s]) /\ Cancelling(0, s)
       ELSE UNCHANGED <<turns, cancels>>
    /\ UNCHANGED <<adapter, lanes, slots, faults>>

AwaitEnds(t) ==
    LET old == turns[t].awaits IN
    /\ turns[t].pc = "awaiting" /\ ~Live(old)
    /\ turns' = [turns EXCEPT ![t].pc = IF turns[old].pc = "done" THEN "done" ELSE "called",
                              ![t].awaits = 0]
    /\ UNCHANGED <<adapter, lanes, slots, cancels, spec, faults>>

----------------------------------------------------------------------------
(* A turn takes its lane.                                                  *)

Referenced == {slots.discovery, slots.patch, slots.warm}
Unused == {l \in Lanes : /\ l \notin Referenced /\ lanes[l].queue = <<>>
                         /\ \A c \in Cancellers : ~Contains(cancels[c].left, l)}
FreshLane == CHOOSE l \in Unused : TRUE

(* claude_app's slot: a new session drops the conversations of the last.   *)
SlotsOf(s) ==
    IF slots.session = s THEN slots
    ELSE [slots EXCEPT !.session = s, !.discovery = 0, !.patch = 0]

(* ... and the warm process is adopted by the first discovery turn.        *)
Slot(s, phase) ==
    LET mine == SlotsOf(s)
        idle == mine.warm # 0 /\ lanes[mine.warm].queue = <<>> IN
    CASE mine[phase] # 0 -> mine
      [] mine[phase] = 0 /\ phase = "discovery" /\ idle ->
            [mine EXCEPT !.discovery = mine.warm, !.warm = 0]
      [] mine[phase] = 0 /\ phase = "discovery" /\ ~idle ->
            [mine EXCEPT !.discovery = FreshLane, !.warm = 0]
      [] OTHER -> [mine EXCEPT !.patch = FreshLane]

(* A slot nothing refers to any more ends with its process.                *)
Reaped(ls, st) ==
    [l \in Lanes |-> IF /\ adapter = "claude" /\ ls[l].queue = <<>>
                        /\ l \notin {st.discovery, st.patch, st.warm}
                     THEN EmptyLane ELSE ls[l]]

(* An aborted task is dropped at its next await and takes no further step: *)
(* it lets go of its lock and of a cancellation it was running.            *)
Dropped(t) ==
    /\ Live(t) /\ turns[t].aborted
    /\ turns' = [turns EXCEPT ![t].pc = "dropped"]
    /\ cancels' = [cancels EXCEPT ![t] = NoCancel]
    /\ lanes' = Reaped([l \in Lanes |->
                   [lanes[l] EXCEPT !.queue = Without(@, t)]], slots)
    /\ UNCHANGED <<adapter, slots, spec, faults>>

(* ... (MaxLanes is large enough when there is always an unused one.)      *)
Enter(t) ==
    /\ turns[t].pc = "called"
    /\ adapter = "claude" => Unused # {}
    /\ LET phase == Phase(turns[t].conv)
           st == IF adapter = "claude" THEN Slot(turns[t].session, phase) ELSE slots
           l == CASE adapter = "claude" -> st[phase]
                  [] adapter = "codex" -> LaneOf(turns[t].conv)
                  [] OTHER -> 1 IN
       /\ slots' = st
       /\ lanes' = Reaped([lanes EXCEPT ![l].queue = Append(@, t)], st)
       /\ turns' = [turns EXCEPT ![t].pc = "waiting", ![t].lane = l]
    /\ UNCHANGED <<adapter, cancels, spec, faults>>

(* warm_up: claude_app spawns its discovery process ahead of the session,  *)
(* codex_app takes its discovery lane as a turn does.                      *)
WarmUp ==
    /\ MainIsIdle
    /\ \/ /\ adapter = "claude" /\ Referenced = {0} /\ Unused # {}
          /\ slots' = [slots EXCEPT !.warm = FreshLane]
          /\ lanes' = [lanes EXCEPT ![FreshLane] = Spawned(@)]
          /\ UNCHANGED turns
       \/ /\ adapter = "codex" /\ Cardinality(Asked) < MaxAsks
          /\ turns' = Append(turns, NewTurn(NoSession, "warm", "none", FALSE))
          /\ UNCHANGED <<slots, lanes>>
    /\ UNCHANGED <<adapter, cancels, spec, faults>>

Goes(t, l, pc, L) ==
    /\ turns' = [turns EXCEPT ![t].pc = pc]
    /\ lanes' = [lanes EXCEPT ![l] = L]

(* The turn is over and lets go of the lane.                               *)
Ends(t, l, pc, answer, L) ==
    /\ turns' = [turns EXCEPT ![t].pc = pc, ![t].answer = answer]
    /\ lanes' = Reaped([lanes EXCEPT ![l] = Freed(L)], slots)

Fails(t, l, L) == Ends(t, l, "failed", NoRun, L)
Rest == UNCHANGED <<adapter, slots, cancels, spec, faults>>

----------------------------------------------------------------------------
(* codex_app: ask, ask_once, request and read_turn.                        *)

(* A broken connection is retried once, on a fresh process.                *)
TransportFails(t, l) ==
    IF turns[t].attempt = 1 /\ turns[t].conv # "warm"
    THEN /\ turns' = [turns EXCEPT ![t].pc = "waiting", ![t].attempt = 2]
         /\ lanes' = [lanes EXCEPT ![l] = InvalidateProcess(@)]
    ELSE Fails(t, l, InvalidateProcess(lanes[l]))

(* The next request: the thread of the conversation, then the turn in it,  *)
(* without the source context if the thread has just been given it.        *)
AsksThread(t, l, L) == Goes(t, l, "thread", Sent(L, Request("thread", t, turns[t].attempt)))

AsksTurn(t, l, L, thread) ==
    LET u == turns[t]
        print == <<thread, u.ctx>>
        others == {p \in L.prints : p[1] # thread} IN
    Goes(t, l, "start", Sent([L EXCEPT !.prints = others \cup {print}],
                             StartTurn(t, u, thread, print \in L.prints)))

Proceeds(t, l, L) ==
    LET mine == {x \in L.threads : x.key = ThreadKey(turns[t])} IN
    \/ WriteFails(L) /\ TransportFails(t, l)
    \/ turns[t].conv = "warm" /\ Goes(t, l, "models", Sent(L, Request("models", t, 1)))
    \/ turns[t].conv # "warm" /\ mine = {} /\ AsksThread(t, l, L)
    \/ turns[t].conv # "warm" /\ \E x \in mine : AsksTurn(t, l, L, x.thread)

CodexBegins(t, l) ==
    LET L == lanes[l]
        fresh == Spawned(ClearConversation(L)) IN
    \/ ~L.spawned /\ Goes(t, l, "initialize",
                          Sent(fresh, Request("initialize", t, turns[t].attempt)))
    \/ L.spawned /\ Proceeds(t, l, L)

Awaited(t, e) == e.is = "response" /\ e.do = turns[t].pc /\ e.run = Run(t, turns[t].attempt)

(* Mutant: any turn's completion will do.                                  *)
CompletesAny(t, e) == e.is = "completed"

Completes(t, e) == e.is = "completed" /\ e.run = Run(t, turns[t].attempt)

CodexReads(t, l) ==
    LET u == turns[t]
        e == Head(lanes[l].events)
        L == [lanes[l] EXCEPT !.events = Tail(@)]
        over == [L EXCEPT !.active = NoTurn]
        thread == [key |-> ThreadKey(u), thread |-> e.run] IN
    \/ e.is = "garbled" /\ u.pc = "initialize" /\ TransportFails(t, l)
    \/ e.is = "garbled" /\ u.pc = "reading" /\ Fails(t, l, over)
    \/ e.is = "garbled" /\ u.pc \notin {"initialize", "reading"} /\ Fails(t, l, L)
    \/ u.pc = "reading" /\ Completes(t, e) /\ e.ok /\ Ends(t, l, "done", e.run, over)
    \/ u.pc = "reading" /\ Completes(t, e) /\ ~e.ok /\ Fails(t, l, over)
    \/ Awaited(t, e) /\ u.pc = "initialize" /\ Proceeds(t, l, L)
    \/ Awaited(t, e) /\ u.pc = "models" /\ Ends(t, l, "done", NoRun, L)
    \/ Awaited(t, e) /\ u.pc = "thread"
          /\ Proceeds(t, l, [L EXCEPT !.threads = @ \cup {thread}])
    \/ Awaited(t, e) /\ u.pc = "start" /\ e.ok
          /\ Goes(t, l, "reading", [L EXCEPT !.active = [run |-> e.run, session |-> u.session]])
    \/ Awaited(t, e) /\ u.pc = "start" /\ ~e.ok /\ Fails(t, l, L)
    \/ /\ e.is # "garbled" /\ ~Awaited(t, e) /\ ~(u.pc = "reading" /\ Completes(t, e))
       /\ lanes' = [lanes EXCEPT ![l] = L] /\ UNCHANGED turns

----------------------------------------------------------------------------
(* claude_app's run_turn and stdio_agent's exchange: a message, and the    *)
(* stream up to the first result.                                          *)

ClaudeBegins(t, l) ==
    LET u == turns[t]
        old == lanes[l]
        fresh == [Spawned(old) EXCEPT !.prints = {}]
        L == IF old.spawned THEN old ELSE fresh
        print == <<NoRun, u.ctx>>
        kept(K) == [K EXCEPT !.prints = {print}] IN
    \/ Goes(t, l, "reading", Sent(kept(L), StartTurn(t, u, NoRun, print \in L.prints)))
    \/ WriteFails(L) /\ Goes(t, l, "reading", Sent(kept(fresh), StartTurn(t, u, NoRun, FALSE)))

StdioBegins(t, l) ==
    LET L == IF lanes[l].spawned THEN lanes[l] ELSE Spawned(lanes[l]) IN
    \/ Goes(t, l, "reading", Sent(L, StartTurn(t, turns[t], NoRun, FALSE)))
    \/ WriteFails(L) /\ Fails(t, l, L)

(* Of a line it cannot parse, claude_app takes no notice and stdio_agent   *)
(* makes the answer; one that cannot be read fails the turn.  The process  *)
(* is kept, and whose result it gives the next result does not say.        *)
StreamReads(t, l) ==
    LET e == Head(lanes[l].events)
        L == [lanes[l] EXCEPT !.events = Tail(@)] IN
    \/ e.is = "garbled" /\ adapter = "claude" /\ lanes' = [lanes EXCEPT ![l] = L]
          /\ UNCHANGED turns
    \/ e.is = "garbled" /\ adapter = "stdio" /\ Ends(t, l, "done", Misread, L)
    \/ e.is = "garbled" /\ Ends(t, l, "failed", Misread, L)
    \/ e.is = "completed" /\ e.ok /\ Ends(t, l, "done", e.run, L)
    \/ e.is = "completed" /\ ~e.ok /\ Ends(t, l, "failed", e.run, L)

----------------------------------------------------------------------------
Busy == {"initialize", "models", "thread", "start", "reading"}

Begin(t) ==
    LET l == turns[t].lane IN
    /\ turns[t].pc = "waiting" /\ Holds(t, l)
    /\ \/ adapter = "codex" /\ CodexBegins(t, l)
       \/ adapter = "claude" /\ ClaudeBegins(t, l)
       \/ adapter = "stdio" /\ StdioBegins(t, l)
    /\ Rest

Read(t) ==
    LET l == turns[t].lane IN
    /\ turns[t].pc \in Busy /\ lanes[l].events # <<>>
    /\ IF adapter = "codex" THEN CodexReads(t, l) ELSE StreamReads(t, l)
    /\ Rest

(* The agent has closed its output.                                        *)
EndOfFile(t) ==
    LET l == turns[t].lane IN
    /\ turns[t].pc \in Busy /\ lanes[l].events = <<>> /\ ~lanes[l].up
    /\ \/ adapter = "codex" /\ TransportFails(t, l)
       \/ adapter = "claude" /\ Fails(t, l, WithoutProcess(lanes[l]))
       \/ adapter = "stdio" /\ Fails(t, l, lanes[l])
    /\ Rest

(* Mutant: the deadline covers the requests, not the stream.               *)
RequestTimeout(t) ==
    /\ turns[t].pc \in Busy \ {"reading"} /\ turns[t].conv # "warm"
    /\ Fails(t, turns[t].lane, KillProcess(lanes[turns[t].lane]))
    /\ Rest

(* await_turn: the deadline of the turn; a warm-up has none.               *)
Timeout(t) ==
    /\ turns[t].pc \in Busy /\ turns[t].conv # "warm"
    /\ Fails(t, turns[t].lane, KillProcess(lanes[turns[t].lane]))
    /\ Rest

----------------------------------------------------------------------------
(* cancel_turn                                                             *)

CancelDone(c) ==
    /\ cancels' = [cancels EXCEPT ![c] = NoCancel]
    /\ turns' = IF c = 0 THEN turns ELSE [turns EXCEPT ![c].pc = "called"]

CancelGoesOn(c) ==
    LET left == cancels[c].left IN
    /\ cancels[c].step = "next"
    /\ IF left = <<>> THEN CancelDone(c) /\ UNCHANGED lanes
       ELSE /\ lanes' = [lanes EXCEPT ![Head(left)].queue = Append(@, c)]
            /\ cancels' = [cancels EXCEPT ![c].step = "locking"]
            /\ UNCHANGED turns
    /\ UNCHANGED <<adapter, slots, spec, faults>>

NextLane(c) ==
    /\ cancels' = [cancels EXCEPT ![c].step = "next", ![c].left = Tail(@)]
    /\ UNCHANGED turns

(* The turn that is known to run is interrupted; anything else that may    *)
(* still run ends with the process.                                        *)
CancelLane(c) ==
    LET l == Head(cancels[c].left)
        L == lanes[l]
        known == L.active.run # NoRun /\ L.active.session = cancels[c].session
        set(K) == lanes' = Reaped([lanes EXCEPT ![l] = K], slots) IN
    /\ cancels[c].step = "locking" /\ Holds(c, l)
    /\ \/ /\ adapter = "codex" /\ known
          /\ set(Sent(L, [do |-> "interrupt", run |-> L.active.run]))
          /\ cancels' = [cancels EXCEPT ![c].step = "interrupt"] /\ UNCHANGED turns
       \/ /\ adapter = "codex" /\ known /\ WriteFails(L)
          /\ set(Freed(InvalidateProcess(L))) /\ CancelDone(c)
       \/ /\ ~(adapter = "codex" /\ known)
          /\ set(Freed(IF L.spawned THEN KillProcess(L) ELSE L)) /\ NextLane(c)
    /\ UNCHANGED <<adapter, slots, spec, faults>>

(* ... an interrupt that fails ends the cancellation there.                *)
CancelReads(c) ==
    LET l == Head(cancels[c].left)
        L == lanes[l]
        e == Head(L.events)
        rest == [L EXCEPT !.events = Tail(@), !.active = NoTurn]
        answered == e.is = "response" /\ e.do = "interrupt" /\ e.run = L.active.run IN
    /\ cancels[c].step = "interrupt"
    /\ \/ /\ L.events = <<>> /\ ~L.up
          /\ lanes' = [lanes EXCEPT ![l] = Freed(InvalidateProcess(L))] /\ CancelDone(c)
       \/ /\ L.events # <<>> /\ answered /\ e.ok
          /\ lanes' = [lanes EXCEPT ![l] = Freed(rest)] /\ NextLane(c)
       \/ /\ L.events # <<>> /\ (e.is = "garbled" \/ (answered /\ ~e.ok))
          /\ lanes' = [lanes EXCEPT ![l] = Freed(KillProcess(L))] /\ CancelDone(c)
       \/ /\ L.events # <<>> /\ e.is # "garbled" /\ ~answered
          /\ lanes' = [lanes EXCEPT ![l].events = Tail(@)] /\ UNCHANGED <<cancels, turns>>
    /\ UNCHANGED <<adapter, slots, spec, faults>>

----------------------------------------------------------------------------
(* The agents.                                                             *)

Response(r, ok) == [is |-> "response", do |-> r.do, run |-> r.run, ok |-> ok]
Completed(run, ok) == [is |-> "completed", do |-> "start", run |-> run, ok |-> ok]

Told(known, thread, ctx) == {k \in known : k[1] # thread} \cup {<<thread, ctx>>}

Started(L, r) ==
    [L EXCEPT !.running = Append(@, r.run),
              !.users = @ \cup {<<r.thread, r.session>>},
              !.known = IF r.omits THEN @ ELSE Told(@, r.thread, r.ctx)]

AgentTakes(l) ==
    LET r == Head(lanes[l].wire)
        L == [lanes[l] EXCEPT !.wire = Tail(@)]
        answers(K, m) == lanes' = [lanes EXCEPT ![l] = [K EXCEPT !.events = @ \o m]] IN
    /\ lanes[l].up /\ lanes[l].wire # <<>>
    /\ \/ /\ r.do \in {"initialize", "models", "thread"}
          /\ answers(L, <<Response(r, TRUE)>>) /\ UNCHANGED faults
       \/ /\ r.do = "start" /\ UNCHANGED faults
          /\ answers(Started(L, r), IF adapter = "codex" THEN <<Response(r, TRUE)>> ELSE <<>>)
       \/ /\ r.do = "start" /\ adapter = "codex"
          /\ "refuse" \in Faults /\ faults < MaxFaults /\ faults' = faults + 1
          /\ answers([L EXCEPT !.known = Told(@, r.thread, "refused")], <<Response(r, FALSE)>>)
       \/ /\ r.do = "interrupt" /\ UNCHANGED faults
          /\ IF Contains(L.running, r.run)
             THEN answers([L EXCEPT !.running = Without(@, r.run)],
                          <<Completed(r.run, FALSE), Response(r, TRUE)>>)
             ELSE \E ok \in BOOLEAN : answers(L, <<Response(r, ok)>>)
    /\ UNCHANGED <<adapter, turns, slots, cancels, spec>>

(* An app-server runs several turns, the others one message at a time.     *)
AgentFinishes(l) ==
    \E run \in ToSet(lanes[l].running), ok \in BOOLEAN :
        /\ adapter = "codex" \/ run = Head(lanes[l].running)
        /\ lanes' = [lanes EXCEPT ![l].running = Without(@, run),
                                  ![l].events = Append(@, Completed(run, ok))]
        /\ UNCHANGED <<adapter, turns, slots, cancels, spec, faults>>

AgentFaults(l) ==
    /\ lanes[l].up /\ faults < MaxFaults /\ faults' = faults + 1
    /\ \/ /\ "crash" \in Faults
          /\ lanes' = [lanes EXCEPT ![l].up = FALSE, ![l].running = <<>>, ![l].wire = <<>>]
       \/ /\ "garble" \in Faults
          /\ lanes' = [lanes EXCEPT ![l].events =
                          Append(@, [is |-> "garbled", do |-> "none", run |-> NoRun, ok |-> FALSE])]
    /\ UNCHANGED <<adapter, turns, slots, cancels, spec>>

----------------------------------------------------------------------------
Init ==
    /\ adapter \in Adapters /\ turns = <<>>
    /\ lanes = [l \in Lanes |-> EmptyLane]
    /\ slots = [session |-> NoSession, discovery |-> 0, patch |-> 0, warm |-> 0]
    /\ cancels = [c \in Cancellers |-> NoCancel]
    /\ spec = [s \in Sessions |-> 0]
    /\ faults = 0

Conversations == {"discover", "goal"}

Calls ==
    \/ \E s \in Sessions, conv \in Conversations, ctx \in Contexts : Ask(s, conv, ctx)
    \/ \E s \in Sessions : Speculate(s)
    \/ \E t \in DOMAIN turns : AbortPending(t)
    \/ \E s \in Sessions : CancelSpeculation(s)
    \/ WarmUp

Steps(t) ==
    /\ t \in DOMAIN turns
    /\ \/ Dropped(t)
       \/ /\ ~turns[t].aborted
          /\ AwaitEnds(t) \/ Enter(t) \/ Begin(t) \/ Read(t) \/ EndOfFile(t)

Expires(t) == t \in DOMAIN turns /\ ~turns[t].aborted /\ Timeout(t)
CancelSteps(c) == CancelGoesOn(c) \/ CancelLane(c) \/ CancelReads(c)
Agent == \E l \in Lanes : AgentTakes(l) \/ AgentFinishes(l) \/ AgentFaults(l)

Next ==
    \/ Calls \/ Agent
    \/ \E t \in Turns : Steps(t) \/ Expires(t)
    \/ \E c \in Cancellers : CancelSteps(c)

(* Tasks are run and deadlines pass.  Of the agents nothing is asked: they *)
(* need not answer, finish or die.                                         *)
Fairness ==
    /\ \A t \in Turns : WF_vars(Steps(t) \/ Expires(t))
    /\ \A c \in Cancellers : WF_vars(CancelSteps(c))

Spec == Init /\ [][Next]_vars /\ Fairness

----------------------------------------------------------------------------
(* Properties.                                                             *)

TypeOK ==
    /\ \A t \in DOMAIN turns :
          /\ turns[t].pc \in Ended \cup Busy \cup {"called", "cancelling", "awaiting", "waiting"}
          /\ turns[t].lane \in Lanes \cup {0} /\ turns[t].awaits \in 0 .. Len(turns)
    /\ \A l \in Lanes :
          /\ IsInjective(lanes[l].queue) /\ ToSet(lanes[l].queue) \subseteq Cancellers
          /\ lanes[l].up => lanes[l].spawned
          /\ \A x, y \in lanes[l].threads : x.key = y.key => x = y
    /\ ToSet(<<slots.discovery, slots.patch, slots.warm>>) \subseteq Lanes \cup {0}
    /\ \A s \in Sessions : spec[s] \in 0 .. Len(turns)

(* The result a turn ends with is the agent's work for it, never a late    *)
(* one of a turn that timed out, failed, died with its process or was      *)
(* cancelled before it.  The code leaves two exceptions where results are  *)
(* not matched with turns: in claude_app and stdio_agent, an earlier turn  *)
(* of the process ended by a line that was not its result; and in the one  *)
(* lane of stdio_agent, a turn that was waiting comes before the           *)
(* cancellation of the turn that held it.                                  *)
MissedItsResult(o) == turns[o].answer # NoRun /\ turns[o].answer[1] # o

BeforeItsCancellation(o) ==
    /\ adapter = "stdio" /\ turns[o].aborted
    /\ \E c \in Cancellers :
          cancels[c].step \in {"next", "locking"} /\ cancels[c].session = turns[o].session

AnswersAreOwn ==
    [][\A t \in DOMAIN turns :
          LET answer == turns'[t].answer IN
          answer \notin {NoRun, Misread, turns[t].answer} =>
              \/ answer[1] = t
              \/ adapter # "codex" /\ MissedItsResult(answer[1])
              \/ BeforeItsCancellation(answer[1])]_vars

(* A new session does not inherit the conversation of another one.         *)
ConversationsAreOwn ==
    \A l \in Lanes : \A u, v \in lanes[l].users :
        adapter # "stdio" /\ u[1] = v[1] => u[2] = v[2]

(* A prompt says "unchanged" only in a conversation of this very process   *)
(* that was given this source context last (context_fingerprint): thread   *)
(* ids and fingerprints never outlive their process.  (A turn the agent    *)
(* refused to start counts as given.)  And the conversation is the         *)
(* session's own.                                                          *)
Gives(r, thread) == r.do = "start" /\ r.thread = thread /\ ~r.omits

LastContext(L, thread, i) ==
    LET given == {j \in 1 .. i - 1 : Gives(L.wire[j], thread)} IN
    IF given # {} THEN {L.wire[Max(given)].ctx}
    ELSE {k[2] : k \in {k \in L.known : k[1] = thread}}

ContextIsKnown ==
    /\ TypeOK /\ ConversationsAreOwn
    /\ \A l \in Lanes : \A i \in DOMAIN lanes[l].wire :
          lanes[l].wire[i].do = "start" /\ lanes[l].wire[i].omits
              => LastContext(lanes[l], lanes[l].wire[i].thread, i)
                    \in {{lanes[l].wire[i].ctx}, {"refused"}}

(* When a cancellation has returned, no agent works for a turn that was    *)
(* aborted: it was interrupted, or its process was ended.                  *)
CancelledWorkStops ==
    \A l \in Lanes : \A run \in ToSet(lanes[l].running) :
        turns[run[1]].pc = "dropped" =>
            \E c \in Cancellers :
                cancels[c].step # "idle" /\ cancels[c].session = turns[run[1]].session

(* prefetch.rs: a speculation that was aborted "is interrupted at the real *)
(* backend and cannot surface a replacement".                              *)
CancelledWorkNeverSurfaces ==
    \A t \in DOMAIN turns :
        turns[t].answer # NoRun => ~turns[turns[t].answer[1]].aborted

(* Every turn ends and every cancellation returns: whatever was asked,     *)
(* cancelled and lost, and whatever the agents leave unanswered, the       *)
(* backend is again at rest.  Except behind the two requests that          *)
(* codex_app makes without a deadline, the interrupt of a turn and those   *)
(* of a warm-up: an app-server that is up and never takes one keeps its    *)
(* lane.                                                                   *)
AtRest ==
    /\ \A t \in DOMAIN turns : ~Live(t)
    /\ \A c \in Cancellers : cancels[c].step = "idle"

WaitsWithoutDeadline(l) ==
    /\ adapter = "codex" /\ lanes[l].up /\ lanes[l].wire # <<>>
    /\ \/ \E c \in Cancellers : cancels[c].step = "interrupt" /\ Holds(c, l)
       \/ \E t \in DOMAIN turns : /\ turns[t].conv = "warm" /\ Holds(t, l)
                                  /\ turns[t].pc \in Busy

EveryTurnEnds == []<>AtRest \/ \E l \in Lanes : <>[]WaitsWithoutDeadline(l)

=============================================================================

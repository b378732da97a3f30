------------------------------- MODULE Daemon -------------------------------
(***************************************************************************)
(* loopbioticd on stdio, and the editor at the other end.  One main loop   *)
(* reads request lines and answers them in turn; a model turn is a task    *)
(* that owns the engine mutex, and the loop waits for it until a deadline. *)
(* A turn may itself ask the editor something (open_location, read_file):  *)
(* its granter then reads the same line channel as the main loop, under a  *)
(* mutex both hold while they wait for a line, and keeps the requests it   *)
(* meets there for the main loop in a deferred queue.                      *)
(*                                                                         *)
(* Requests are numbered, and a turn and its question bear the number of   *)
(* their request.  What a turn does is module Engine; here it only starts, *)
(* asks at most once, and ends.  Left out: initialize, shutdown, warmup,   *)
(* progress and turn_yielded notifications, malformed lines, EOF.          *)
(***************************************************************************)
EXTENDS Integers, Sequences, FiniteSets

CONSTANTS
    Sessions,
    MaxRequests,  \* bound: requests the editor sends
    Ops,          \* the requests it sends: "turn", "cancel", "list"
    Yields        \* a turn may outlast its deadline

ASSUME DaemonAssumption ==
    /\ MaxRequests \in Nat
    /\ Ops \subseteq {"turn", "cancel", "list"}
    /\ Yields \in BOOLEAN

Ids == 1..MaxRequests
Main == 0   \* the main loop, in the queue for the line channel

VARIABLES
    requests,  \* history: the requests sent, numbered by their position
    stdin,     \* the line channel
    deferred,  \* requests a granter read and kept for the main loop
    readers,   \* who holds the channel's mutex, and who waits for it, FIFO
    main,      \* the main loop: where it is, and the request it serves
    turns,     \* the turn tasks
    engine,    \* the task that holds the engine mutex, 0 when it is free
    pending,   \* Server.pending: the yielded turn of each session, or 0
    stdout,    \* messages written to the editor
    replied,   \* history: the requests responded to, in order
    gate,      \* the question the editor shows to the user, or 0
    view,      \* what the editor shows: a working card's turn, or 0
    current    \* the latest request of each session (thinking.current)

vars == <<requests, stdin, deferred, readers, main, turns, engine, pending,
          stdout, replied, gate, view, current>>
editor == <<gate, view, current>>
-----------------------------------------------------------------------------
Request(id) == [type |-> "request", id |-> id]
AnswerTo(id) == [type |-> "answer", id |-> id]
Lines == [type : {"request", "answer"}, id : Ids]
Messages == [type : {"result", "working", "ask", "ready"}, id : Ids]
Write(type, id) == stdout' = Append(stdout, [type |-> type, id |-> id])

Points == {"none", "queued", "running", "asking", "answered", "done", "over",
           "aborted"}
Alive(t) == turns[t] \in {"queued", "running", "asking", "answered"}
At(t, p) == turns' = [turns EXCEPT ![t] = p]

\* The head of readers holds the channel; a dropped task leaves the queue,
\* where it waits at most once.
Holds(r) == readers # <<>> /\ Head(readers) = r
Without(q, t) ==
    IF \E i \in 1..Len(q) : q[i] = t
      THEN LET i == CHOOSE i \in 1..Len(q) : q[i] = t
           IN  SubSeq(q, 1, i - 1) \o SubSeq(q, i + 1, Len(q))
      ELSE q
-----------------------------------------------------------------------------
(***************************************************************************)
(* The main loop                                                           *)
(***************************************************************************)
Top == [at |-> "top", req |-> 0]

\* The request is served: responded to at once, or after abort_pending and
\* under the engine mutex.
AbortPending(s) ==
    LET t == pending[s]
    IN  /\ pending' = [pending EXCEPT ![s] = 0]
        /\ IF t # 0 /\ Alive(t)
             THEN /\ At(t, "aborted")
                  /\ engine' = IF engine = t THEN 0 ELSE engine
             ELSE UNCHANGED <<turns, engine>>

\* The channel's mutex queue once the pending turn of s, if any, is gone.
StillQueued(q, s) == q  \* mutant of AfterAbort
AfterAbort(q, s) == IF pending[s] = 0 THEN q ELSE Without(q, pending[s])

Respond(type, id) ==
    /\ Write(type, id)
    /\ replied' = Append(replied, id)

Serve(id, q) ==
    LET r == requests[id]
    IN  IF r.op = "list"
          THEN /\ main' = Top /\ Respond("result", id)
               /\ readers' = q
               /\ UNCHANGED <<turns, engine, pending>>
          ELSE /\ main' = [at |-> "engine", req |-> id]
               /\ AbortPending(r.session)
               /\ readers' = AfterAbort(q, r.session)
               /\ UNCHANGED <<stdout, replied>>

\* The deferred queue is looked at before the channel is locked.
ServeDeferred ==
    /\ main.at = "top" /\ deferred # <<>>
    /\ deferred' = Tail(deferred)
    /\ IF Head(deferred).type = "answer"
         THEN UNCHANGED <<main, turns, engine, pending, readers, stdout, replied>>
         ELSE Serve(Head(deferred).id, readers)
    /\ UNCHANGED <<requests, stdin, editor>>

LockLines ==
    /\ main.at = "top" /\ deferred = <<>>
    /\ main' = [at |-> "recv", req |-> 0]
    /\ readers' = Append(readers, Main)
    /\ UNCHANGED <<requests, stdin, deferred, turns, engine, pending, stdout,
                   replied, editor>>

\* recv: an answer is dropped as stale, a request is served.
Receive ==
    /\ main.at = "recv" /\ Holds(Main) /\ stdin # <<>>
    /\ stdin' = Tail(stdin)
    /\ IF Head(stdin).type = "answer"
         THEN /\ main' = Top /\ readers' = Tail(readers)
              /\ UNCHANGED <<turns, engine, pending, stdout, replied>>
         ELSE Serve(Head(stdin).id, Tail(readers))
    /\ UNCHANGED <<requests, deferred, editor>>

\* cancel_turn runs here, a turn is spawned and waited for.
LockEngine ==
    /\ main.at = "engine" /\ engine = 0
    /\ IF requests[main.req].op = "cancel"
         THEN /\ Respond("result", main.req)
              /\ main' = Top
              /\ UNCHANGED turns
         ELSE /\ At(main.req, "queued")
              /\ main' = [main EXCEPT !.at = "turn"]
              /\ UNCHANGED <<stdout, replied>>
    /\ UNCHANGED <<requests, stdin, deferred, readers, engine, pending, editor>>

TurnReturns ==
    /\ main.at = "turn" /\ turns[main.req] = "done"
    /\ Respond("result", main.req)
    /\ At(main.req, "over")
    /\ main' = Top
    /\ UNCHANGED <<requests, stdin, deferred, readers, engine, pending, editor>>

\* The deadline passes: the turn becomes pending and a notifier waits for
\* its result; the working card is written afterwards.
DeadlinePasses ==
    /\ Yields /\ main.at = "turn"
    /\ pending' = [pending EXCEPT ![requests[main.req].session] = main.req]
    /\ main' = [main EXCEPT !.at = "yielded"]
    /\ UNCHANGED <<requests, stdin, deferred, readers, turns, engine, stdout,
                   replied, editor>>

WriteWorking ==
    /\ main.at = "yielded"
    /\ Respond("working", main.req)
    /\ main' = Top
    /\ UNCHANGED <<requests, stdin, deferred, readers, turns, engine, pending,
                   editor>>

MainStep ==
    \/ ServeDeferred \/ LockLines \/ Receive \/ LockEngine \/ TurnReturns
    \/ WriteWorking
-----------------------------------------------------------------------------
(***************************************************************************)
(* A turn task, its granter and its notifier                               *)
(***************************************************************************)
Start(t) ==
    /\ turns[t] = "queued" /\ engine = 0
    /\ engine' = t
    /\ At(t, "running")
    /\ UNCHANGED <<requests, stdin, deferred, readers, main, pending, stdout,
                   replied, editor>>

\* request_editor_context: write the question, then queue for the channel.
AskUnqueued(t) ==  \* mutant of Ask
    /\ turns[t] = "running"
    /\ Write("ask", t)
    /\ At(t, "asking")
    /\ UNCHANGED <<requests, stdin, deferred, readers, main, engine, pending,
                   replied, editor>>
Ask(t) ==
    /\ turns[t] = "running"
    /\ Write("ask", t)
    /\ readers' = Append(readers, t)
    /\ At(t, "asking")
    /\ UNCHANGED <<requests, stdin, deferred, main, engine, pending, replied,
                   editor>>

\* A line while the granter holds the channel: its answer, or one to keep.
DropLine(line) == deferred  \* mutant of Keep
Keep(line) == Append(deferred, line)

Listen(t) ==
    /\ turns[t] = "asking" /\ Holds(t) /\ stdin # <<>>
    /\ stdin' = Tail(stdin)
    /\ IF Head(stdin) = AnswerTo(t)
         THEN /\ At(t, "answered")
              /\ readers' = Tail(readers)
              /\ UNCHANGED deferred
         ELSE /\ deferred' = Keep(Head(stdin))
              /\ readers' = Append(Tail(readers), t)
              /\ UNCHANGED turns
    /\ UNCHANGED <<requests, main, engine, pending, stdout, replied, editor>>

\* The timeout bounds the wait for a line, not the wait for the channel.
TimeOut(t) ==
    /\ turns[t] = "asking" /\ Holds(t)
    /\ readers' = Tail(readers)
    /\ At(t, "answered")
    /\ UNCHANGED <<requests, stdin, deferred, main, engine, pending, stdout,
                   replied, editor>>

End(t) ==
    /\ turns[t] \in {"running", "answered"}
    /\ engine' = 0
    /\ At(t, "done")
    /\ UNCHANGED <<requests, stdin, deferred, readers, main, pending, stdout,
                   replied, editor>>

\* The notifier of a yielded turn reports the result.
Awaited(t) == main.at = "turn" /\ main.req = t
Report(t) ==
    /\ turns[t] = "done" /\ ~Awaited(t)
    /\ Write("ready", t)
    /\ At(t, "over")
    /\ UNCHANGED <<requests, stdin, deferred, readers, main, engine, pending,
                   replied, editor>>

TurnStep(t) == Start(t) \/ Ask(t) \/ Listen(t) \/ TimeOut(t) \/ End(t) \/ Report(t)
-----------------------------------------------------------------------------
(***************************************************************************)
(* The editor                                                              *)
(***************************************************************************)
\* permission.settle: a shown question is answered, as denied, before any
\* request is sent, and when a newer question or a result takes its place.
Settled(q) == IF gate = 0 THEN q ELSE Append(q, AnswerTo(gate))
AnsweredBy(id) == \E i \in 1..Len(replied) : replied[i] = id

\* A session runs one request at a time; only a cancellation may overtake it.
Send ==
    /\ Len(requests) < MaxRequests
    /\ \E s \in Sessions, op \in Ops :
         LET id == Len(requests) + 1
         IN  /\ op = "turn" => current[s] = 0
             /\ requests' = Append(requests, [op |-> op, session |-> s])
             /\ stdin' = Append(Settled(stdin), Request(id))
             /\ IF op = "list"
                  THEN UNCHANGED <<current, view>>
                  ELSE /\ current' = [current EXCEPT ![s] = id]
                       /\ view' = [view EXCEPT ![s] = 0]
    /\ gate' = 0
    /\ UNCHANGED <<deferred, readers, main, turns, engine, pending, stdout,
                   replied>>

UserDecides ==
    /\ gate # 0
    /\ stdin' = Append(stdin, AnswerTo(gate))
    /\ gate' = 0
    /\ UNCHANGED <<requests, deferred, readers, main, turns, engine, pending,
                   stdout, replied, view, current>>

\* A message arrives: a question opens the gate; a response is used if it is
\* of the session's latest request, turn_ready if its working card is shown.
Deliver ==
    /\ stdout # <<>>
    /\ stdout' = Tail(stdout)
    /\ LET m == Head(stdout)
           s == requests[m.id].session
           latest == current[s] = m.id
           awaited == view[s] = m.id
       IN  CASE m.type = "ask" ->
                  /\ gate' = m.id
                  /\ stdin' = Settled(stdin)
                  /\ UNCHANGED <<view, current>>
             [] m.type = "working" /\ latest ->
                  /\ view' = [view EXCEPT ![s] = m.id]
                  /\ current' = [current EXCEPT ![s] = 0]
                  /\ UNCHANGED <<gate, stdin>>
             [] (m.type = "result" /\ latest) \/ (m.type = "ready" /\ awaited) ->
                  /\ view' = [view EXCEPT ![s] = 0]
                  /\ current' = [current EXCEPT ![s] = IF latest THEN 0 ELSE @]
                  /\ gate' = 0
                  /\ stdin' = Settled(stdin)
             [] OTHER -> UNCHANGED <<gate, view, current, stdin>>
    /\ UNCHANGED <<requests, deferred, readers, main, turns, engine, pending,
                   replied>>
-----------------------------------------------------------------------------
Init ==
    /\ requests = <<>> /\ stdin = <<>> /\ deferred = <<>>
    /\ readers = <<>>
    /\ main = Top
    /\ turns = [t \in Ids |-> "none"]
    /\ engine = 0
    /\ pending = [s \in Sessions |-> 0]
    /\ stdout = <<>> /\ replied = <<>>
    /\ gate = 0
    /\ view = [s \in Sessions |-> 0]
    /\ current = [s \in Sessions |-> 0]

Next ==
    \/ MainStep \/ DeadlinePasses
    \/ \E t \in Ids : TurnStep(t)
    \/ Send \/ UserDecides \/ Deliver

Spec == Init /\ [][Next]_vars

\* The runtime runs what is ready, timeouts fire, the editor reads its input.
\* Nothing is assumed of the user, nor that a turn runs into its deadline.
Fairness ==
    /\ WF_vars(MainStep)
    /\ \A t \in Ids : WF_vars(TurnStep(t))
    /\ WF_vars(Deliver)

FairSpec == Spec /\ Fairness
-----------------------------------------------------------------------------
TypeOK ==
    /\ requests \in Seq([op : Ops, session : Sessions])
    /\ stdin \in Seq(Lines) /\ deferred \in Seq(Lines)
    /\ readers \in Seq({Main} \cup Ids)
    /\ main \in [at : {"top", "recv", "engine", "turn", "yielded"},
                 req : {0} \cup Ids]
    /\ turns \in [Ids -> Points]
    /\ engine \in {0} \cup Ids
    /\ pending \in [Sessions -> {0} \cup Ids]
    /\ stdout \in Seq(Messages) /\ replied \in Seq(Ids)
    /\ gate \in {0} \cup Ids
    /\ view \in [Sessions -> {0} \cup Ids]
    /\ current \in [Sessions -> {0} \cup Ids]

\* A request is never lost nor served twice, however it travels: it waits in
\* the channel, or was put aside by a granter, or is served, or was answered
\* (location_granter defers "unrelated client requests for the main loop").
Times(x, q) == Cardinality({i \in 1..Len(q) : q[i] = x})
Places(id) ==
    Times(Request(id), stdin) + Times(Request(id), deferred)
      + (IF main.req = id THEN 1 ELSE 0) + Times(id, replied)
EveryRequestHasOnePlace == TypeOK /\ \A id \in 1..Len(requests) : Places(id) = 1

\* A session has one live turn: the one the main loop waits for, or the one
\* it yielded; a turn that was replaced does not go on beside its successor.
OneTurnPerSession ==
    \A t, u \in 1..Len(requests) :
        /\ Alive(t) => t \in {main.req, pending[requests[t].session]}
        /\ Alive(t) /\ Alive(u) /\ requests[t].session = requests[u].session
             => t = u

\* The engine mutex is held by a live turn, and given back by an abort.
EngineHolderIsAlive == engine # 0 => turns[engine] \in {"running", "asking", "answered"}

\* The channel's queue has the tasks that wait for a line, each once: an
\* aborted granter does not keep the channel from the main loop.
ReadersWaitForALine ==
    /\ \A i, j \in 1..Len(readers) : readers[i] = readers[j] => i = j
    /\ \A r \in {Main} \cup Ids :
          (\E i \in 1..Len(readers) : readers[i] = r) <=>
              IF r = Main THEN main.at = "recv" ELSE turns[r] = "asking"

\* Turns do not overlap, and an aborted one leaves neither the engine nor the
\* channel taken.
TurnsDoNotOverlap ==
    OneTurnPerSession /\ EngineHolderIsAlive /\ ReadersWaitForALine

\* An answer the main loop drops has "nothing left to deliver it to": its
\* granter is gone.
StaleAnswersAreStale ==
    [][Receive /\ Head(stdin).type = "answer" => turns[Head(stdin).id] # "asking"]_vars

\* The editor's working card is replaced: its turn lives, or its turn_ready
\* is written or still to be written.
WorkingCardIsBacked ==
    \A s \in Sessions : view[s] # 0 =>
        \/ Alive(view[s]) \/ turns[view[s]] = "done"
        \/ \E i \in 1..Len(stdout) :
              stdout[i] = [type |-> "ready", id |-> view[s]]

\* A question is answered "or the timeout expires" (main.rs, the granter).
\* While no turn outlasts its deadline, again and again there is a time when
\* no question is open and no request unanswered, even if the user never
\* decides.
EverythingIsAnswered ==
    [](\A s \in Sessions : pending[s] = 0) =>
        []<>(/\ \A t \in Ids : turns[t] # "asking"
             /\ \A id \in 1..Len(requests) : AnsweredBy(id))
=============================================================================

----------------------------- MODULE HttpAgent -----------------------------
(***************************************************************************)
(* openai_compatible: the adapter that has no process, but a server that   *)
(* stores the responses it gave.  A thread (session and kind of turn) is   *)
(* the last response that ended in a card; a turn continues it, lets the   *)
(* model read from the workspace within a budget, and stores the thread    *)
(* anew.  Turns of one thread may run side by side: there is no lane.      *)
(* The server is external: it answers, fails, forgets or stays silent.     *)
(***************************************************************************)
EXTENDS Integers, Sequences, FiniteSets, SequencesExt

CONSTANTS
    Sessions,
    Convs,          \* the kinds of turn to look at: "discovery", "patch", "goal"
    Contexts,       \* fingerprints of the source context
    MaxTurns,       \* bound on calls of next_card
    MaxToolCalls,   \* max_tool_calls, what a turn may read
    MaxThreads      \* MAX_SESSION_THREADS

ASSUME HttpAssumption ==
    MaxTurns \in Nat /\ MaxToolCalls \in Nat /\ MaxThreads \in Nat

VARIABLES
    deadline,   \* is there a turn deadline
    turns,      \* the calls of next_card so far
    threads,    \* BackendState.threads, a function on some keys
    order,      \* BackendState.order
    active      \* the turns cancel_turn reaches

httpVars == <<deadline, turns, threads, order, active>>

Ended == {"done", "failed", "dropped"}
LiveTurn(t) == turns[t].pc \notin Ended
ThreadKey(u) == <<u.session, u.conv>>
ToolsAllowed(conv) == IF conv = "patch" THEN 0 ELSE MaxToolCalls

(* What the calls of a response are: names, their places are their ids.    *)
(* Only a response without a call has a text that counts.                  *)
Outputs ==
    {[calls |-> c, text |-> FALSE] :
        c \in {<<>>, <<"submit">>, <<"read">>, <<"read", "submit">>, <<"read", "read">>}}
    \union {[calls |-> <<>>, text |-> TRUE]}

(* What the server stores of a response: the thread it was given in, its   *)
(* calls, and the source contexts its chain has been told.                 *)
NoResponse == [key |-> <<>>, calls |-> <<>>, knows |-> {}]

----------------------------------------------------------------------------
(* Threads.                                                                *)

Without(key) == [k \in DOMAIN threads \ {key} |-> threads[k]]

(* A key is in the order at most once (BookIsKept).                        *)
Unordered(key) ==
    IF \E i \in DOMAIN order : order[i] = key
    THEN RemoveAt(order, CHOOSE i \in DOMAIN order : order[i] = key)
    ELSE order

Forget(key) ==
    /\ threads' = Without(key)
    /\ order' = Unordered(key)

(* The threads stored longest ago make room.                               *)
Store(key, thread) ==
    LET stored == Append(Unordered(key), key)
        keys == DOMAIN threads \union {key}
        Left(n) == keys \ Range(SubSeq(stored, 1, n))
        n == Min({m \in 0 .. Len(stored) : Cardinality(Left(m)) <= MaxThreads}) IN
    /\ order' = SubSeq(stored, n + 1, Len(stored))
    /\ threads' = [k \in Left(n) |-> IF k = key THEN thread ELSE threads[k]]

----------------------------------------------------------------------------
(* SendsRequest: the response they continue, the calls of it they answer, and  *)
(* whether they carry the source context.                                  *)

FullPrompt == [chain |-> NoResponse, answers |-> {}, sends |-> TRUE]

Continuation(thread, ctx) ==
    [chain |-> thread.response, answers |-> thread.calls, sends |-> thread.ctx # ctx]

FirstRequest(u) ==
    IF ThreadKey(u) \in DOMAIN threads THEN Continuation(threads[ThreadKey(u)], u.ctx)
    ELSE FullPrompt

(* One read is executed; the other calls are answered with a refusal.      *)
ToolOutputs(r) == [chain |-> r, answers |-> DOMAIN r.calls, sends |-> FALSE]

(* Mutant: only the call that carried the card is kept for the next turn.  *)
SubmittedCalls(r) == {i \in DOMAIN r.calls : r.calls[i] = "submit"}

TerminalCalls(r) == DOMAIN r.calls

(* one_call: a card before a read, the first read before a bare text.      *)
OneCall(out) ==
    CASE "submit" \in Range(out.calls) -> "submit"
      [] out.calls # <<>> -> "read"
      [] out.text -> "submit"
      [] OTHER -> "none"

----------------------------------------------------------------------------
(* One turn.                                                               *)

NewTurn(s, conv, ctx) ==
    [session |-> s, conv |-> conv, ctx |-> ctx, pc |-> "asking", request |-> FullPrompt,
     restartable |-> FALSE, tools |-> 0, response |-> NoResponse, cancelled |-> FALSE,
     reads |-> 0, requests |-> 0]

(* Its entry in the map of active turns goes with its guard, and its       *)
(* locals with it.                                                         *)
Finishes(t, pc) ==
    /\ turns' = [turns EXCEPT ![t] =
                   [NewTurn(@.session, @.conv, @.ctx) EXCEPT !.pc = pc]]
    /\ active' = active \ {t}

(* next_card_with_progress: the turn is registered, then asks.             *)
NextCard(s, conv, ctx) ==
    /\ Len(turns) < MaxTurns
    /\ turns' = Append(turns, NewTurn(s, conv, ctx))
    /\ active' = active \union {Len(turns) + 1}
    /\ UNCHANGED <<deadline, threads, order>>

(* "sent": a request is on its way, or its response streams.               *)
SendsRequest(u, request) ==
    [u EXCEPT !.pc = "sent", !.request = request, !.requests = @ + 1,
              !.response = NoResponse]

AsksServer(t) ==
    /\ turns[t].pc = "asking"
    /\ LET u == turns[t] IN
       turns' = [turns EXCEPT ![t] =
                   [SendsRequest(u, FirstRequest(u)) EXCEPT
                       !.restartable = ThreadKey(u) \in DOMAIN threads,
                       !.tools = ToolsAllowed(u.conv)]]
    /\ UNCHANGED <<deadline, threads, order, active>>

(* The server may have forgotten the response: give it up and tell all.    *)
RestartChain(t) ==
    /\ turns[t].pc = "sent" /\ turns[t].restartable
    /\ Forget(ThreadKey(turns[t]))
    /\ turns' = [turns EXCEPT ![t] = [SendsRequest(@, FullPrompt) EXCEPT !.restartable = FALSE]]
    /\ UNCHANGED <<deadline, active>>

(* The request or its stream fails, or the chain broke within the turn.    *)
RequestFails(t) ==
    /\ turns[t].pc = "sent"
    /\ Finishes(t, "failed")
    /\ UNCHANGED <<deadline, threads, order>>

(* The server answers, and the stream is read to its end.                  *)
StoredResponse(u, out) ==
    [key |-> ThreadKey(u), calls |-> out.calls,
     knows |-> u.request.chain.knows \union (IF u.request.sends THEN {u.ctx} ELSE {})]

Submits(t, out) ==
    /\ turns[t].pc = "sent" /\ OneCall(out) = "submit"
    /\ turns' = [turns EXCEPT ![t].pc = "answered", ![t].response = StoredResponse(turns[t], out)]
    /\ UNCHANGED <<deadline, threads, order, active>>

ReadsFirst(t, out) ==
    /\ turns[t].pc = "sent" /\ OneCall(out) = "read" /\ turns[t].tools > 0
    /\ turns' = [turns EXCEPT ![t].pc = "reading", ![t].response = StoredResponse(turns[t], out),
                    ![t].reads = @ + 1, ![t].restartable = FALSE]
    /\ UNCHANGED <<deadline, threads, order, active>>

(* Neither a card nor a call, or a read beyond the budget.                 *)
SaysNothing(t, out) ==
    /\ turns[t].pc = "sent"
    /\ OneCall(out) = "none" \/ (OneCall(out) = "read" /\ turns[t].tools = 0)
    /\ Finishes(t, "failed")
    /\ UNCHANGED <<deadline, threads, order>>

ReadDone(t) ==
    /\ turns[t].pc = "reading"
    /\ turns' = [turns EXCEPT ![t] =
                   [SendsRequest(turns[t], ToolOutputs(turns[t].response)) EXCEPT !.tools = @ - 1]]
    /\ UNCHANGED <<deadline, threads, order, active>>

(* save_thread, with the fingerprint of this turn's context.               *)
SaveThread(t) ==
    /\ turns[t].pc = "answered"
    /\ Store(ThreadKey(turns[t]),
             [response |-> turns[t].response, calls |-> TerminalCalls(turns[t].response),
              ctx |-> turns[t].ctx])
    /\ Finishes(t, "done")
    /\ UNCHANGED deadline

(* Mutant: cancellation is looked at between two requests.                 *)
InterruptedBetween(t) ==
    /\ turns[t].pc = "reading" /\ turns[t].cancelled
    /\ Finishes(t, "failed")
    /\ UNCHANGED <<deadline, threads, order>>

(* Cancellation is seen while a request is on its way or streams.          *)
Interrupted(t) ==
    /\ turns[t].pc = "sent" /\ turns[t].cancelled
    /\ Finishes(t, "failed")
    /\ UNCHANGED <<deadline, threads, order>>

(* The whole turn is over: the chain it left half-finished is given up.    *)
TimedOut(t) ==
    /\ deadline /\ turns[t].pc \in {"asking", "sent", "reading"}
    /\ turns' = [turns EXCEPT ![t] =
                   [NewTurn(@.session, @.conv, @.ctx) EXCEPT !.pc = "expired"]]
    /\ UNCHANGED <<deadline, threads, order, active>>

AbandonChain(t) ==
    /\ turns[t].pc = "expired"
    /\ Forget(ThreadKey(turns[t]))
    /\ Finishes(t, "failed")
    /\ UNCHANGED deadline

----------------------------------------------------------------------------
(* The callers.                                                            *)

CancelReaches(s) == {t \in active : turns[t].session = s}

CancelTurn(s) ==
    /\ \E t \in CancelReaches(s) : ~turns[t].cancelled
    /\ turns' = [t \in DOMAIN turns |->
                    IF t \in CancelReaches(s) THEN [turns[t] EXCEPT !.cancelled = TRUE]
                    ELSE turns[t]]
    /\ UNCHANGED <<deadline, threads, order, active>>

(* The daemon or the prefetcher aborts the task of a turn.                 *)
Abort(t) ==
    /\ LiveTurn(t)
    /\ Finishes(t, "dropped")
    /\ UNCHANGED <<deadline, threads, order>>

----------------------------------------------------------------------------

HttpInit ==
    /\ deadline \in BOOLEAN
    /\ turns = <<>> /\ threads = <<>> /\ order = <<>>
    /\ active = {}

OwnSteps(t) == AsksServer(t) \/ RestartChain(t) \/ ReadDone(t) \/ SaveThread(t) \/ AbandonChain(t)
ServerSteps(t) ==
    \/ RequestFails(t)
    \/ \E out \in Outputs : Submits(t, out) \/ ReadsFirst(t, out) \/ SaysNothing(t, out)

HttpNext ==
    \/ \E s \in Sessions, conv \in Convs, ctx \in Contexts : NextCard(s, conv, ctx)
    \/ \E t \in DOMAIN turns :
          OwnSteps(t) \/ ServerSteps(t) \/ Interrupted(t) \/ TimedOut(t) \/ Abort(t)
    \/ \E s \in Sessions : CancelTurn(s)

(* The adapter's own tasks run; deadlines pass; a cancelled select wakes.  *)
(* Nothing is assumed of the server.                                       *)
HttpFairness ==
    \A t \in 1 .. MaxTurns :
        /\ WF_httpVars(t \in DOMAIN turns /\ OwnSteps(t))
        /\ WF_httpVars(t \in DOMAIN turns /\ Interrupted(t))
        /\ WF_httpVars(t \in DOMAIN turns /\ TimedOut(t))

HttpSpec == HttpInit /\ [][HttpNext]_httpVars /\ HttpFairness

----------------------------------------------------------------------------

ThreadKeys == Sessions \X Convs

HttpTypeOK ==
    /\ \A t \in DOMAIN turns :
          /\ turns[t].pc \in Ended \union
               {"asking", "sent", "reading", "answered", "expired"}
          /\ turns[t].tools \in 0 .. MaxToolCalls
    /\ DOMAIN threads \subseteq ThreadKeys
    /\ active \subseteq DOMAIN turns

(* BackendState: the keys in the order are the stored ones, each once, and *)
(* no more than the cap; the map of active turns holds the live ones       *)
(* only, so a cancellation reaches them and no sender leaks.               *)
BookIsKept ==
    /\ Range(order) = DOMAIN threads /\ IsInjective(order)
    /\ Cardinality(DOMAIN threads) <= MaxThreads
    /\ active = {t \in DOMAIN turns : LiveTurn(t)}

(* ask, save_thread: with the threads kept in order (BookIsKept), a        *)
(* request that continues a response stays in its own thread, answers      *)
(* every call of that response, and leaves the source context out only     *)
(* when the chain has been told it; a turn reads within its budget and     *)
(* comes to an end of its requests, a restarted chain included.            *)
ChainsAreWhole ==
    /\ HttpTypeOK /\ BookIsKept
    /\ \A t \in DOMAIN turns :
        LET u == turns[t]
            q == u.request IN
        /\ u.pc = "sent" =>
             /\ q.sends \/ u.ctx \in q.chain.knows
             /\ q.answers = DOMAIN q.chain.calls
             /\ q.chain # NoResponse => q.chain.key = ThreadKey(u)
        /\ u.reads <= ToolsAllowed(u.conv)
        /\ u.requests <= ToolsAllowed(u.conv) + 2

(* A turn with a deadline, and a turn that was cancelled, come to an end   *)
(* even when the server never answers.                                     *)
EveryHttpTurnEnds ==
    \A t \in 1 .. MaxTurns :
        t \in DOMAIN turns /\ (deadline \/ turns[t].cancelled) ~> t \in DOMAIN turns /\ ~LiveTurn(t)

=============================================================================

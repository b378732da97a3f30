-------------------------------- MODULE Rpc --------------------------------
(***************************************************************************)
(* The daemon process as the editor runs it (lua/loopbiotic/rpc.lua): it   *)
(* is found or installed, started, asked for its protocol version, given   *)
(* the requests that waited for it, stopped, and it may exit by itself.    *)
(*                                                                         *)
(* Lua runs one callback at a time, so an action is one callback with      *)
(* every call it makes: a fail_all runs callbacks, and the callback of     *)
(* "initialize" is one of them.  Callbacks of requests send no request     *)
(* themselves while they run.  A request is known by its number, the       *)
(* "initialize" of a process by Hello; a process reads and writes lines in *)
(* order.  Left out: notifications, requests of the daemon, stderr, the    *)
(* warmup identity, logging.                                               *)
(***************************************************************************)
EXTENDS Integers, Sequences, FiniteSets

CONSTANTS
    MaxRequests,  \* bound: requests made in a behaviour
    MaxStops,     \* bound: calls of M.stop in a behaviour
    SpawnFails    \* jobstart may fail

ASSUME RpcAssumption ==
    MaxRequests \in Nat /\ MaxStops \in Nat /\ SpawnFails \in BOOLEAN

VARIABLES
    m,         \* the module's table: job, ready, queue, pending, ...
    procs,     \* every process jobstart created
    installs,  \* installer.callbacks: the generations that wait for it
    ran,       \* history: how often each request's callback was run
    asked,     \* history: number of requests made
    stops,     \* history: number of stops
    faults     \* history: "torn" output of a process, a failed "spawn"

vars == <<m, procs, installs, ran, asked, stops, faults>>
-----------------------------------------------------------------------------
Requests == 1..MaxRequests
Hello == 0
Torn == -1
Pids == 1..MaxRequests
NoJob == 0

Processes ==
    [life : {"none", "up", "dead", "gone"}, same : BOOLEAN,
     inbox : Seq(Requests \cup {Hello}),
     outbox : Seq(Requests \cup {Hello, Torn})]

Elements(q) == {q[i] : i \in 1..Len(q)}

\* What a call computes: the table, the processes and the callbacks it ran.
World == [m |-> m, procs |-> procs, ran |-> ran]

RunAll(w, rs) ==
    [w EXCEPT !.ran = [r \in Requests |-> IF r \in rs THEN @[r] + 1 ELSE @[r]]]

\* fail_all: queued and pending callbacks get an error.  That of a pending
\* "initialize" takes it for a mismatch, and calls fail_all again, in vain.
FailAll(w) ==
    LET failed == Elements(w.m.queue) \cup {x[1] : x \in w.m.pending}
    IN  [RunAll(w, failed) EXCEPT
            !.m.queue = <<>>, !.m.pending = {},
            !.m.incompatible = @ \/ Hello \in failed]

\* send, for each of q: "open" says that chansend takes the lines.
SendAll(w, q, open) ==
    IF open
      THEN [w EXCEPT !.m.pending = @ \cup {<<r, w.m.job>> : r \in Elements(q)},
                     !.procs[w.m.job].inbox = @ \o q]
      ELSE RunAll(w, Elements(q))

\* A process that has died takes lines until its channel is closed.
Channel(w) ==
    IF w.m.job = NoJob THEN {FALSE}
    ELSE IF w.procs[w.m.job].life = "up" THEN {TRUE} ELSE BOOLEAN

\* on_exit of process p; a process that was replaced changes nothing.
ExitUnfailed(w, p) ==  \* mutant of OnExit
    LET gone == [w EXCEPT !.procs[p].life = "gone"]
    IN  IF w.m.job # p THEN gone
        ELSE [gone EXCEPT !.m.job = NoJob, !.m.ready = FALSE]
OnExit(w, p) ==
    LET gone == [w EXCEPT !.procs[p].life = "gone"]
    IN  IF w.m.job # p THEN gone
        ELSE FailAll([gone EXCEPT !.m.job = NoJob, !.m.ready = FALSE])

\* on_exit comes after the output was read.
Exited(w, p) == w.procs[p].life = "dead" /\ w.procs[p].outbox = <<>>

\* jobwait({ M.job }, 0): it runs the on_exit of a process that has ended.
Waited(w) ==
    IF w.m.job # NoJob /\ Exited(w, w.m.job) THEN OnExit(w, w.m.job) ELSE w

\* start: spawn the process and greet it.
Unused(w) == CHOOSE p \in Pids : w.procs[p].life = "none"
                /\ \A o \in Pids : w.procs[o].life = "none" => p <= o

Spawned(w, same) ==
    LET p == Unused(w)
    IN  SendAll([w EXCEPT !.procs[p].life = "up", !.procs[p].same = same,
                          !.m.job = p, !.m.ready = FALSE,
                          !.m.incompatible = FALSE], <<Hello>>, TRUE)

\* The outcomes of a call of start: a world, and whether the spawn failed.
Started(w) ==
    IF w.m.job # NoJob THEN {[world |-> w, faults |-> {}]}
    ELSE {[world |-> Spawned(w, same), faults |-> {}] : same \in BOOLEAN}
         \cup (IF SpawnFails THEN {[world |-> w, faults |-> {"spawn"}]} ELSE {})

\* The installer calls back: with a command, or with an error.
Resolved(w) ==
    LET ended == [w EXCEPT !.m.starting = FALSE]
    IN  Started(Waited(ended)) \cup {[world |-> FailAll(ended), faults |-> {}]}

Becomes(w) == m' = w.m /\ procs' = w.procs /\ ran' = w.ran
-----------------------------------------------------------------------------
(***************************************************************************)
(* The calls of the editor                                                 *)
(***************************************************************************)
Asked == asked < MaxRequests /\ asked' = asked + 1

\* request, of a daemon that speaks another protocol
RequestRefused ==
    /\ Asked /\ m.incompatible
    /\ Becomes(RunAll(World, {asked + 1}))
    /\ UNCHANGED <<installs, stops, faults>>

RequestSent ==
    /\ Asked /\ ~m.incompatible /\ m.ready
    /\ \E open \in Channel(World) : Becomes(SendAll(World, <<asked + 1>>, open))
    /\ UNCHANGED <<installs, stops, faults>>

\* request and ensure: the request waits for a daemon, which is started
\* unless one runs or starts already.
Queued == Waited([World EXCEPT !.m.queue = Append(@, asked + 1)])
Idle(w) == w.m.job = NoJob /\ ~w.m.starting

RequestWaits ==
    /\ Asked /\ ~m.incompatible /\ ~m.ready
    /\ ~Idle(Queued)
    /\ Becomes(Queued)
    /\ UNCHANGED <<installs, stops, faults>>

NextGeneration(w) ==
    [w EXCEPT !.m.starting = TRUE, !.m.generation = @ + 1]

\* The installer knows at once, or it goes to work first.
RequestStarts ==
    /\ Asked /\ ~m.incompatible /\ ~m.ready
    /\ Idle(Queued)
    /\ LET w == NextGeneration(Queued)
       IN  \/ \E o \in Resolved(w) :
                /\ Becomes(o.world)
                /\ faults' = faults \cup o.faults
                /\ UNCHANGED installs
           \/ /\ Becomes(w)
              /\ installs' = Append(installs, w.m.generation)
              /\ UNCHANGED faults
    /\ UNCHANGED stops

\* stop
Stopped(w) ==
    FailAll([Waited([w EXCEPT !.m.generation = @ + 1]) EXCEPT
        !.m.job = NoJob, !.m.ready = FALSE, !.m.incompatible = FALSE,
        !.m.starting = FALSE, !.m.buffer = FALSE])

Stop ==
    /\ stops < MaxStops
    /\ stops' = stops + 1
    /\ Becomes(Stopped(World))
    /\ UNCHANGED <<installs, asked, faults>>
-----------------------------------------------------------------------------
(***************************************************************************)
(* What happens to the editor                                              *)
(***************************************************************************)
\* The download ends.  Callbacks of an older generation return at once.
InstallEnds ==
    /\ installs # <<>>
    /\ installs' = <<>>
    /\ IF m.generation \in Elements(installs)
         THEN \E o \in Resolved(World) :
                /\ Becomes(o.world)
                /\ faults' = faults \cup o.faults
         ELSE UNCHANGED <<m, procs, ran, faults>>
    /\ UNCHANGED <<asked, stops>>

\* The response to "initialize"
GreetedUnflushed(w, same, open) ==  \* mutant of Greeted
    IF same THEN [w EXCEPT !.m.ready = TRUE]
            ELSE FailAll([w EXCEPT !.m.incompatible = TRUE])
Greeted(w, same, open) ==
    IF same
      THEN SendAll([w EXCEPT !.m.ready = TRUE, !.m.queue = <<>>],
                   w.m.queue, open)
      ELSE FailAll([w EXCEPT !.m.incompatible = TRUE])

\* handle, of the response to r
Handled(w, p, r, open) ==
    IF <<r, p>> \notin w.m.pending THEN w
    ELSE LET taken == [w EXCEPT !.m.pending = @ \ {<<r, p>>}]
         IN  IF r = Hello THEN Greeted(taken, w.procs[p].same, open)
             ELSE RunAll(taken, {r})

\* on_stdout of process p: a torn line stays in the buffer and spoils the
\* next one, whoever writes it.
Output(p) ==
    /\ procs[p].outbox # <<>>
    /\ LET line == Head(procs[p].outbox)
           w == [World EXCEPT !.procs[p].outbox = Tail(@)]
       IN  IF m.job # p
             THEN Becomes(w) /\ UNCHANGED faults
           ELSE IF line = Torn
             THEN /\ Becomes([w EXCEPT !.m.buffer = TRUE])
                  /\ faults' = faults \cup {"torn"}
           ELSE IF m.buffer
             THEN Becomes([w EXCEPT !.m.buffer = FALSE]) /\ UNCHANGED faults
           ELSE /\ \E open \in Channel(w) : Becomes(Handled(w, p, line, open))
                /\ UNCHANGED faults
    /\ UNCHANGED <<installs, asked, stops>>

Exit(p) ==
    /\ Exited(World, p)
    /\ Becomes(OnExit(World, p))
    /\ UNCHANGED <<installs, asked, stops, faults>>

\* The process answers its lines in order, and may end at any time, also in
\* the middle of a line.
Answers(p) ==
    /\ procs[p].life = "up" /\ procs[p].inbox # <<>>
    /\ procs' = [procs EXCEPT ![p].inbox = Tail(@),
                              ![p].outbox = Append(@, Head(procs[p].inbox))]
    /\ UNCHANGED <<m, installs, ran, asked, stops, faults>>

Dies(p) ==
    /\ procs[p].life = "up"
    /\ \E rest \in {<<>>, <<Torn>>} :
         procs' = [procs EXCEPT ![p].life = "dead", ![p].outbox = @ \o rest]
    /\ UNCHANGED <<m, installs, ran, asked, stops, faults>>
-----------------------------------------------------------------------------
Init ==
    /\ m = [job |-> NoJob, ready |-> FALSE, incompatible |-> FALSE,
            starting |-> FALSE, generation |-> 0, queue |-> <<>>,
            pending |-> {}, buffer |-> FALSE]
    /\ procs = [p \in Pids |-> [life |-> "none", same |-> TRUE,
                                inbox |-> <<>>, outbox |-> <<>>]]
    /\ installs = <<>>
    /\ ran = [r \in Requests |-> 0]
    /\ asked = 0 /\ stops = 0
    /\ faults = {}

Request == RequestRefused \/ RequestSent \/ RequestWaits \/ RequestStarts
Events(p) == Output(p) \/ Exit(p)

Next ==
    \/ Request \/ Stop \/ InstallEnds
    \/ \E p \in Pids : Events(p) \/ Answers(p) \/ Dies(p)

Spec == Init /\ [][Next]_vars

\* The event loop delivers what is there, the installer ends, a running
\* daemon answers (module Daemon) or ends.
FairSpec ==
    /\ Spec
    /\ WF_vars(InstallEnds)
    /\ \A p \in Pids : WF_vars(Events(p)) /\ WF_vars(Answers(p))
-----------------------------------------------------------------------------
TypeOK ==
    /\ m \in [job : {NoJob} \cup Pids, ready : BOOLEAN,
              incompatible : BOOLEAN, starting : BOOLEAN, generation : Nat,
              queue : Seq(Requests), buffer : BOOLEAN,
              pending : SUBSET ((Requests \cup {Hello}) \X Pids)]
    /\ procs \in [Pids -> Processes]
    /\ installs \in Seq(Nat)
    /\ ran \in [Requests -> 0..1]
    /\ asked \in 0..MaxRequests /\ stops \in 0..MaxStops
    /\ faults \subseteq {"torn", "spawn"}

\* A callback is in exactly one place: queued, pending with one process, or
\* run, once; a restart, an exit or a refused handshake neither forgets nor
\* repeats one (request, send, fail_all, handle).
Places(r) ==
    Cardinality({i \in 1..Len(m.queue) : m.queue[i] = r})
      + Cardinality({x \in m.pending : x[1] = r}) + ran[r]
EveryCallbackHasOnePlace == \A r \in 1..asked : Places(r) = 1

\* A pending callback waits for the current process: none is left behind
\* with a process that was stopped or replaced, whose exit is ignored.
PendingIsOnTheCurrentJob == \A x \in m.pending : x[2] = m.job

\* A queued request has somebody who will send or fail it: the installer, or
\* a process that has not answered "initialize".  A failed spawn leaves the
\* queue to the next request.
QueueHasAStarter ==
    m.queue # <<>> =>
        \/ m.starting /\ m.generation \in Elements(installs)
        \/ m.job # NoJob /\ <<Hello, m.job>> \in m.pending
        \/ "spawn" \in faults

\* Ready speaks of the current process: it was greeted, it speaks our
\* protocol, and nothing waits in the queue, which is flushed only once.
ReadyIsTrue ==
    m.ready =>
        /\ m.job # NoJob /\ ~m.incompatible /\ m.queue = <<>>
        /\ <<Hello, m.job>> \notin m.pending
        /\ procs[m.job].same

\* No request is stranded: it is in one place, and somebody is there to send
\* it, answer it or fail it.
NoRequestIsStranded ==
    /\ TypeOK
    /\ EveryCallbackHasOnePlace
    /\ PendingIsOnTheCurrentJob
    /\ QueueHasAStarter
    /\ ReadyIsTrue

\* Every callback is run, whatever is stopped, exits or cannot be installed,
\* as long as no process ends within a line and every spawn succeeds.
CallbacksAreRun ==
    \A r \in Requests : (asked >= r) ~> (ran[r] > 0 \/ faults # {})
-----------------------------------------------------------------------------
\* CHANGELOG.md: restarting the backend no longer surfaces "a bogus backend
\* protocol mismatch"; init.lua: after rpc.stop "the next submit starts a
\* fresh daemon".
IncompatibleIsTrue ==
    m.incompatible =>
        \E p \in Pids : procs[p].life # "none" /\ ~procs[p].same

\* rpc.lua: "The callback always receives a response table".
CallbackAlwaysRuns == \A r \in Requests : (asked >= r) ~> (ran[r] > 0)
=============================================================================

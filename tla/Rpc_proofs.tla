------------------------------ MODULE Rpc_proofs ------------------------------
(***************************************************************************)
(* That no request is stranded, whatever is stopped, exits or cannot be    *)
(* started, for any number of requests and of restarts.                    *)
(*                                                                         *)
(* A callback of the editor runs several operations one after the other,   *)
(* so the lemmas are about worlds, the table, the processes and the        *)
(* callbacks between two operations, and an action is then a chain of      *)
(* worlds.                                                                 *)
(***************************************************************************)
EXTENDS Rpc, SequenceTheorems, FiniteSetTheorems, TLAPS

Lines == Requests \cup {Hello, Torn}
Table == [job : {NoJob} \cup Pids, ready : BOOLEAN,
          incompatible : BOOLEAN, starting : BOOLEAN, generation : Nat,
          queue : Seq(Requests), buffer : BOOLEAN,
          pending : SUBSET ((Requests \cup {Hello}) \X Pids)]
Worlds == [m : Table, procs : [Pids -> Processes], ran : [Requests -> 0..1]]

Has(q, r) == \E i \in 1..Len(q) : q[i] = r
Distinct(q) == \A i, j \in 1..Len(q) : q[i] = q[j] => i = j
Waiting(w, r) == \E x \in w.m.pending : x[1] = r

\* The first n requests are each queued, pending, run, or in the hand of the
\* operation under way, which has taken q; no other is anywhere.
Accounted(w, q, n) ==
    /\ Distinct(w.m.queue)
    /\ \A x, y \in w.m.pending : x[1] = y[1] => x = y
    /\ Has(q, Hello) => ~Waiting(w, Hello)
    /\ \A r \in Requests :
          /\ ~(Has(w.m.queue, r) /\ Waiting(w, r))
          /\ Has(q, r) => ~Has(w.m.queue, r) /\ ~Waiting(w, r)
          /\ r > n => ~Has(w.m.queue, r) /\ ~Waiting(w, r) /\ ~Has(q, r)
          /\ w.ran[r] = IF r <= n /\ ~Has(w.m.queue, r) /\ ~Waiting(w, r) /\ ~Has(q, r)
                          THEN 1 ELSE 0

\* What is pending is pending with the current process.
OnCurrentJob(w) == \A x \in w.m.pending : x[2] = w.m.job

\* A current process is being greeted, or was found ready or incompatible.
Greeting(w) ==
    /\ Waiting(w, Hello) => ~w.m.ready /\ ~w.m.incompatible
    /\ w.m.job # NoJob /\ ~w.m.ready /\ ~w.m.incompatible => Waiting(w, Hello)

\* A process that was found ready speaks our protocol and has the queue.
Flushed(w) ==
    w.m.ready => /\ w.m.job # NoJob /\ ~w.m.incompatible /\ w.m.queue = <<>>
                 /\ w.procs[w.m.job].same

Sound(w, n) == /\ w \in Worlds /\ Accounted(w, <<>>, n) /\ OnCurrentJob(w)
               /\ Greeting(w) /\ Flushed(w)

\* The installer works for the current generation exactly while a start is
\* under way, and never for a later one; no process is there meanwhile.
InstallerFits(w, waiting) ==
    /\ w.m.starting <=> w.m.generation \in Elements(waiting)
    /\ w.m.starting => w.m.job = NoJob
    /\ \A g \in Elements(waiting) : g <= w.m.generation

\* QueueHasAStarter, of a world.
QueueServed(w, waiting, seen) ==
    w.m.queue # <<>> =>
        \/ w.m.starting /\ w.m.generation \in Elements(waiting)
        \/ w.m.job # NoJob /\ Waiting(w, Hello)
        \/ "spawn" \in seen

\* Process numbers are used in order, one for a request at most, and one is
\* left for every generation that waits for the installer.
Used(w, k) == \A p \in Pids : w.procs[p].life # "none" <=> p <= k
SpawnsFit(w, waiting, n) == \E k \in Nat : Used(w, k) /\ k + Len(waiting) <= n

Fits(w, waiting, seen, n) ==
    /\ Sound(w, n) /\ InstallerFits(w, waiting)
    /\ QueueServed(w, waiting, seen) /\ SpawnsFit(w, waiting, n)

RInv == TypeOK /\ Fits(World, installs, faults, asked)

-----------------------------------------------------------------------------
(***************************************************************************)
(* Worlds                                                                  *)
(***************************************************************************)
LEMMA Numbers ==
    /\ MaxRequests \in Nat /\ Requests \subseteq Nat \ {0} /\ Pids \subseteq Nat \ {0}
    /\ Hello \notin Requests /\ NoJob \notin Pids /\ Torn \notin Requests
    /\ Torn # Hello
BY RpcAssumption DEF Requests, Pids, Hello, NoJob, Torn

LEMMA WorldIsAWorld == TypeOK => World \in Worlds
BY DEF TypeOK, World, Worlds, Table

\* A world is its fields.
LEMMA WorldFields ==
    ASSUME NEW w \in Worlds
    PROVE  /\ w.m \in Table /\ w.procs \in [Pids -> Processes]
           /\ w.ran \in [Requests -> 0..1]
           /\ w.m.job \in {NoJob} \cup Pids /\ w.m.ready \in BOOLEAN
           /\ w.m.incompatible \in BOOLEAN /\ w.m.starting \in BOOLEAN
           /\ w.m.generation \in Nat /\ w.m.queue \in Seq(Requests)
           /\ w.m.buffer \in BOOLEAN
           /\ w.m.pending \subseteq ((Requests \cup {Hello}) \X Pids)
<1>1. w.m \in Table /\ w.procs \in [Pids -> Processes] /\ w.ran \in [Requests -> 0..1]
  BY DEF Worlds
<1> QED
  BY <1>1 DEF Table

\* An element of a queue is one of its positions' elements.
LEMMA ElementsOfQueue ==
    ASSUME NEW q, NEW r PROVE r \in Elements(q) <=> Has(q, r)
BY DEF Elements, Has

LEMMA NothingInHand == \A r : ~Has(<<>>, r)
BY EmptySeq DEF Has

\* fail_all runs what is queued and pending, once, and leaves neither.
LEMMA FailAllRunsThemAll ==
    ASSUME NEW w \in Worlds, NEW n \in Nat, Accounted(w, <<>>, n)
    PROVE  LET v == FailAll(w)
           IN  /\ v \in Worlds /\ Accounted(v, <<>>, n)
               /\ v.m.queue = <<>> /\ v.m.pending = {}
               /\ v.m.job = w.m.job /\ v.m.ready = w.m.ready
               /\ v.m.starting = w.m.starting /\ v.m.generation = w.m.generation
               /\ (v.m.incompatible <=> w.m.incompatible \/ Waiting(w, Hello))
               /\ v.procs = w.procs
<1> DEFINE v == FailAll(w)
           failed == Elements(w.m.queue) \cup {x[1] : x \in w.m.pending}
<1>0. /\ w.m \in Table /\ w.procs \in [Pids -> Processes]
      /\ w.ran \in [Requests -> 0..1] /\ w.m.queue \in Seq(Requests)
      /\ w.m.incompatible \in BOOLEAN
      /\ w.m.pending \subseteq ((Requests \cup {Hello}) \X Pids)
  BY WorldFields
<1>1. \A r : r \in failed <=> Has(w.m.queue, r) \/ Waiting(w, r)
  BY ElementsOfQueue DEF Waiting
<1>2. Hello \in failed <=> Waiting(w, Hello)
  <2>1. ~Has(w.m.queue, Hello)
    BY <1>0, ElementOfSeq, Numbers DEF Has
  <2> QED
    BY <1>1, <2>1
<1> HIDE DEF failed
<1>3. RunAll(w, failed) = [w EXCEPT !.ran =
          [r \in Requests |-> IF r \in failed THEN w.ran[r] + 1 ELSE w.ran[r]]]
  BY DEF RunAll
<1>4. v = [RunAll(w, failed) EXCEPT !.m.queue = <<>>, !.m.pending = {},
              !.m.incompatible = @ \/ Hello \in failed]
  BY DEF FailAll, failed
<1> HIDE DEF v
<1>5. /\ v.m = [w.m EXCEPT !.queue = <<>>, !.pending = {},
                           !.incompatible = @ \/ Hello \in failed]
      /\ v.procs = w.procs
      /\ v.ran = [r \in Requests |-> IF r \in failed THEN w.ran[r] + 1 ELSE w.ran[r]]
      /\ v = [m |-> v.m, procs |-> v.procs, ran |-> v.ran]
  BY <1>3, <1>4 DEF Worlds
<1>6. /\ v.m.queue = <<>> /\ v.m.pending = {}
      /\ v.m.job = w.m.job /\ v.m.ready = w.m.ready
      /\ v.m.starting = w.m.starting /\ v.m.generation = w.m.generation
  BY <1>0, <1>5 DEF Table
<1>7. v.m.incompatible <=> w.m.incompatible \/ Waiting(w, Hello)
  BY <1>0, <1>2, <1>5 DEF Table
<1>8. v.m \in Table
  <2>1. (w.m.incompatible \/ Hello \in failed) \in BOOLEAN
    OBVIOUS
  <2>2. <<>> \in Seq(Requests) /\ {} \in SUBSET ((Requests \cup {Hello}) \X Pids)
    BY EmptySeq
  <2> QED
    BY <1>0, <1>5, <2>1, <2>2 DEF Table
<1>9. ASSUME NEW r \in Requests
      PROVE  /\ v.ran[r] = IF r <= n THEN 1 ELSE 0
             /\ v.ran[r] \in 0..1
  <2>1. w.ran[r] = IF r <= n /\ ~Has(w.m.queue, r) /\ ~Waiting(w, r) THEN 1 ELSE 0
    BY NothingInHand DEF Accounted
  <2>2. v.ran[r] = IF r \in failed THEN w.ran[r] + 1 ELSE w.ran[r]
    BY <1>5
  <2>3. r > n => ~Has(w.m.queue, r) /\ ~Waiting(w, r)
    BY DEF Accounted
  <2>4. r \in failed => w.ran[r] = 0
    BY <1>1, <2>1
  <2>5. r \in failed => r <= n
    BY <1>1, <2>3, Numbers
  <2> QED
    BY <1>1, <2>1, <2>2, <2>4, <2>5
<1>10. v \in Worlds
  BY <1>0, <1>5, <1>8, <1>9 DEF Worlds
<1>11. Accounted(v, <<>>, n)
  <2>1. \A r : ~Has(v.m.queue, r) /\ ~Waiting(v, r)
    BY <1>6, EmptySeq DEF Has, Waiting
  <2>2. Distinct(v.m.queue)
    BY <1>6, EmptySeq DEF Distinct
  <2> QED
    BY <1>6, <1>9, <2>1, <2>2, NothingInHand DEF Accounted
<1> QED
  BY <1>5, <1>6, <1>7, <1>10, <1>11 DEF v

\* send hands its requests to the current process, or runs their callbacks
\* when the channel is closed.
LEMMA SendAllPlacesThem ==
    ASSUME NEW w \in Worlds, NEW n \in Nat, NEW q \in Seq(Requests \cup {Hello}),
           NEW open \in BOOLEAN, open => w.m.job # NoJob,
           Accounted(w, q, n), OnCurrentJob(w)
    PROVE  LET v == SendAll(w, q, open)
           IN  /\ v \in Worlds /\ Accounted(v, <<>>, n) /\ OnCurrentJob(v)
               /\ v.m.job = w.m.job /\ v.m.ready = w.m.ready /\ v.m.queue = w.m.queue
               /\ v.m.incompatible = w.m.incompatible
               /\ v.m.starting = w.m.starting /\ v.m.generation = w.m.generation
               /\ \A r : Waiting(v, r) <=> Waiting(w, r) \/ (open /\ Has(q, r))
               /\ \A p \in Pids : /\ v.procs[p].life = w.procs[p].life
                                  /\ v.procs[p].same = w.procs[p].same
<1> DEFINE v == SendAll(w, q, open)
           new == {<<r, w.m.job>> : r \in Elements(q)}
<1>0. /\ w.m \in Table /\ w.procs \in [Pids -> Processes]
      /\ w.ran \in [Requests -> 0..1] /\ w.m.queue \in Seq(Requests)
      /\ w.m.job \in {NoJob} \cup Pids
      /\ w.m.pending \subseteq ((Requests \cup {Hello}) \X Pids)
  BY WorldFields
<1>a. \A r : r \in Elements(q) <=> Has(q, r)
  BY ElementsOfQueue
<1>b. \A r : Has(q, r) => r \in Requests \cup {Hello}
  BY ElementOfSeq DEF Has
<1>1. CASE open
  <2>0. w.m.job \in Pids
    BY <1>0, <1>1
  <2>1. /\ v.m = [w.m EXCEPT !.pending = w.m.pending \cup new]
        /\ v.procs = [w.procs EXCEPT ![w.m.job].inbox = @ \o q]
        /\ v.ran = w.ran
        /\ v = [m |-> v.m, procs |-> v.procs, ran |-> v.ran]
    BY <1>1 DEF SendAll, Worlds
  <2>2. new \subseteq ((Requests \cup {Hello}) \X Pids)
    BY <1>a, <1>b, <2>0
  <2>3. \A r : (\E x \in new : x[1] = r) <=> Has(q, r)
    <3>1. ASSUME NEW r, NEW x \in new, x[1] = r PROVE Has(q, r)
      BY <1>a, <3>1
    <3>2. ASSUME NEW r, Has(q, r) PROVE \E x \in new : x[1] = r
      <4>1. <<r, w.m.job>> \in new /\ <<r, w.m.job>>[1] = r
        BY <1>a, <3>2
      <4> QED
        BY <4>1
    <3> QED
      BY <3>1, <3>2
  <2>4. \A x \in new : x = <<x[1], w.m.job>> /\ x[2] = w.m.job
    OBVIOUS
  <2> HIDE DEF v, new
  <2>5. /\ v.m.job = w.m.job /\ v.m.ready = w.m.ready /\ v.m.queue = w.m.queue
        /\ v.m.incompatible = w.m.incompatible
        /\ v.m.starting = w.m.starting /\ v.m.generation = w.m.generation
        /\ v.m.pending = w.m.pending \cup new /\ v.m \in Table
    BY <1>0, <2>1, <2>2 DEF Table
  <2>6. /\ v.procs \in [Pids -> Processes]
        /\ \A p \in Pids : /\ v.procs[p].life = w.procs[p].life
                           /\ v.procs[p].same = w.procs[p].same
    <3>1. w.procs[w.m.job] \in Processes
      BY <1>0, <2>0
    <3>2. w.procs[w.m.job].inbox \o q \in Seq(Requests \cup {Hello})
      BY <3>1, ConcatProperties DEF Processes
    <3>3. [w.procs[w.m.job] EXCEPT !.inbox = @ \o q] \in Processes
      BY <3>1, <3>2 DEF Processes
    <3>4. v.procs \in [Pids -> Processes]
      BY <1>0, <2>0, <2>1, <3>3
    <3>5. \A p \in Pids : /\ v.procs[p].life = w.procs[p].life
                          /\ v.procs[p].same = w.procs[p].same
      BY <1>0, <2>0, <2>1, <3>1 DEF Processes
    <3> QED
      BY <3>4, <3>5
  <2>7. v \in Worlds
    BY <1>0, <2>1, <2>5, <2>6 DEF Worlds
  <2>8. \A r : Waiting(v, r) <=> Waiting(w, r) \/ Has(q, r)
    BY <2>3, <2>5 DEF Waiting
  <2>9. OnCurrentJob(v)
    BY <2>4, <2>5 DEF OnCurrentJob
  <2>10. Accounted(v, <<>>, n)
    <3>1. \A x, y \in v.m.pending : x[1] = y[1] => x = y
      <4> SUFFICES ASSUME NEW x \in v.m.pending, NEW y \in v.m.pending, x[1] = y[1]
                   PROVE  x = y
        OBVIOUS
      <4>1. \A z \in w.m.pending, u \in new : z[1] # u[1]
        <5>1. \A z \in w.m.pending : Waiting(w, z[1])
          BY DEF Waiting
        <5>2. \A u \in new : Has(q, u[1]) /\ u[1] \in Requests \cup {Hello}
          BY <1>b, <2>3
        <5> QED
          BY <5>1, <5>2 DEF Accounted
      <4> QED
        BY <2>4, <2>5, <4>1 DEF Accounted
    <3>2. \A r \in Requests :
             /\ ~(Has(v.m.queue, r) /\ Waiting(v, r))
             /\ r > n => ~Has(v.m.queue, r) /\ ~Waiting(v, r)
             /\ v.ran[r] = IF r <= n /\ ~Has(v.m.queue, r) /\ ~Waiting(v, r)
                             THEN 1 ELSE 0
      BY <2>1, <2>5, <2>8 DEF Accounted
    <3>3. Distinct(v.m.queue)
      BY <2>5 DEF Accounted
    <3> QED
      BY <3>1, <3>2, <3>3, NothingInHand DEF Accounted
  <2> QED
    BY <1>1, <2>5, <2>6, <2>7, <2>8, <2>9, <2>10 DEF v
<1>2. CASE ~open
  <2>1. /\ v.m = w.m /\ v.procs = w.procs
        /\ v.ran = [r \in Requests |-> IF r \in Elements(q) THEN w.ran[r] + 1 ELSE w.ran[r]]
        /\ v = [m |-> v.m, procs |-> v.procs, ran |-> v.ran]
    BY <1>2 DEF SendAll, RunAll, Worlds
  <2> HIDE DEF v
  <2>2. ASSUME NEW r \in Requests
        PROVE  /\ v.ran[r] = IF r <= n /\ ~Has(w.m.queue, r) /\ ~Waiting(w, r)
                               THEN 1 ELSE 0
               /\ v.ran[r] \in 0..1
    <3>1. v.ran[r] = IF Has(q, r) THEN w.ran[r] + 1 ELSE w.ran[r]
      BY <1>a, <2>1
    <3>2. Has(q, r) => r <= n /\ ~Has(w.m.queue, r) /\ ~Waiting(w, r) /\ w.ran[r] = 0
      BY Numbers DEF Accounted
    <3>3. ~Has(q, r) => w.ran[r] = IF r <= n /\ ~Has(w.m.queue, r) /\ ~Waiting(w, r)
                                     THEN 1 ELSE 0
      BY DEF Accounted
    <3> QED
      BY <3>1, <3>2, <3>3
  <2>3. v \in Worlds
    BY <1>0, <2>1, <2>2 DEF Worlds
  <2>4. \A r : Waiting(v, r) <=> Waiting(w, r)
    BY <2>1 DEF Waiting
  <2>5. Accounted(v, <<>>, n)
    BY <2>1, <2>2, <2>4, NothingInHand DEF Accounted
  <2>6. OnCurrentJob(v)
    BY <2>1 DEF OnCurrentJob
  <2> QED
    BY <1>2, <2>1, <2>3, <2>4, <2>5, <2>6 DEF v
<1> QED
  BY <1>1, <1>2

\* Nothing is pending while there is no process.
LEMMA NothingPendsOnNoJob ==
    ASSUME NEW w \in Worlds, OnCurrentJob(w), w.m.job = NoJob
    PROVE  w.m.pending = {} /\ \A r : ~Waiting(w, r)
BY WorldFields, Numbers DEF OnCurrentJob, Waiting

\* What an operation leaves as it was, but for a process that has ended.
Settles(v, w) ==
    /\ v.m.starting = w.m.starting /\ v.m.generation = w.m.generation
    /\ \/ v.m = w.m
       \/ v.m.queue = <<>> /\ v.m.job = NoJob /\ ~v.m.ready
    /\ \A p \in Pids : v.procs[p].life = "none" <=> w.procs[p].life = "none"

\* on_exit of the current process fails what waits for it; that of another
\* changes nothing.
LEMMA OnExitSettles ==
    ASSUME NEW w, NEW n \in Nat, Sound(w, n), NEW p \in Pids,
           w.procs[p].life # "none"
    PROVE  Sound(OnExit(w, p), n) /\ Settles(OnExit(w, p), w)
<1> DEFINE gone == [w EXCEPT !.procs[p].life = "gone"]
           free == [gone EXCEPT !.m.job = NoJob, !.m.ready = FALSE]
<1>0. /\ w \in Worlds /\ w.m \in Table /\ w.procs \in [Pids -> Processes]
      /\ w.m.queue \in Seq(Requests) /\ Accounted(w, <<>>, n)
  BY WorldFields DEF Sound
<1>1. /\ gone.m = w.m /\ gone.ran = w.ran
      /\ gone.procs = [w.procs EXCEPT ![p].life = "gone"]
      /\ gone = [m |-> w.m, procs |-> gone.procs, ran |-> w.ran]
  BY <1>0 DEF Worlds
<1>2. gone.procs \in [Pids -> Processes]
  <2>1. w.procs[p] \in Processes
    BY <1>0
  <2>2. [w.procs[p] EXCEPT !.life = "gone"] \in Processes
    BY <2>1 DEF Processes
  <2> QED
    BY <1>0, <1>1, <2>2
<1>3. \A o \in Pids : /\ gone.procs[o].life = "none" <=> w.procs[o].life = "none"
                      /\ gone.procs[o].same = w.procs[o].same
  BY <1>0, <1>1 DEF Processes
<1>4. gone \in Worlds
  BY <1>0, <1>1, <1>2 DEF Worlds
<1> HIDE DEF gone
<1>5. CASE w.m.job # p
  <2>1. OnExit(w, p) = gone
    BY <1>5 DEF OnExit, gone
  <2>2. Accounted(gone, <<>>, n)
    BY <1>0, <1>1 DEF Accounted, Waiting
  <2>3. OnCurrentJob(gone) /\ Greeting(gone)
    BY <1>0, <1>1 DEF Sound, OnCurrentJob, Greeting, Waiting
  <2>4. Flushed(gone)
    BY <1>0, <1>1, <1>3, WorldFields DEF Sound, Flushed
  <2> QED
    BY <1>1, <1>3, <1>4, <2>1, <2>2, <2>3, <2>4 DEF Sound, Settles
<1>6. CASE w.m.job = p
  <2>1. OnExit(w, p) = FailAll(free)
    BY <1>6 DEF OnExit, gone
  <2>2. /\ free.m = [w.m EXCEPT !.job = NoJob, !.ready = FALSE]
        /\ free.procs = gone.procs /\ free.ran = w.ran
        /\ free = [m |-> free.m, procs |-> free.procs, ran |-> free.ran]
    <3>1. ASSUME NEW e, e = free
          PROVE  /\ e.m = [w.m EXCEPT !.job = NoJob, !.ready = FALSE]
                 /\ e.procs = gone.procs /\ e.ran = w.ran
                 /\ e = [m |-> e.m, procs |-> e.procs, ran |-> e.ran]
      BY <1>1, <1>4, <3>1 DEF Worlds
    <3> HIDE DEF free
    <3> QED
      BY <3>1
  <2> HIDE DEF free
  <2>3. /\ free.m \in Table /\ free.m.job = NoJob /\ ~free.m.ready
        /\ free.m.queue = w.m.queue /\ free.m.pending = w.m.pending
        /\ free.m.starting = w.m.starting /\ free.m.generation = w.m.generation
    BY <1>0, <2>2 DEF Table
  <2>4. free \in Worlds
    BY <1>0, <1>2, <2>2, <2>3, WorldFields DEF Worlds
  <2>5. Accounted(free, <<>>, n)
    BY <1>0, <2>2, <2>3 DEF Accounted, Waiting
  <2> DEFINE v == FailAll(free)
  <2>6. /\ v \in Worlds /\ Accounted(v, <<>>, n) /\ v.m.queue = <<>> /\ v.m.pending = {}
        /\ v.m.job = NoJob /\ ~v.m.ready
        /\ v.m.starting = w.m.starting /\ v.m.generation = w.m.generation
        /\ v.procs = gone.procs
    BY <2>2, <2>3, <2>4, <2>5, FailAllRunsThemAll
  <2> HIDE DEF v
  <2>7. Sound(v, n)
    BY <2>6 DEF Sound, OnCurrentJob, Greeting, Flushed, Waiting
  <2>8. Settles(v, w)
    BY <1>3, <2>6 DEF Settles
  <2> QED
    BY <2>1, <2>7, <2>8 DEF v
<1> QED
  BY <1>5, <1>6

\* So does jobwait, which runs the on_exit that is due.
LEMMA WaitedSettles ==
    ASSUME NEW w, NEW n \in Nat, Sound(w, n)
    PROVE  /\ Sound(Waited(w), n) /\ Settles(Waited(w), w)
           /\ w.m.job = NoJob => Waited(w) = w
<1>1. CASE w.m.job # NoJob /\ Exited(w, w.m.job)
  <2>1. w.m.job \in Pids
    BY <1>1, WorldFields DEF Sound
  <2>2. w.procs[w.m.job].life # "none"
    BY <1>1 DEF Exited
  <2> QED
    BY <1>1, <2>1, <2>2, OnExitSettles DEF Waited
<1>2. CASE ~(w.m.job # NoJob /\ Exited(w, w.m.job))
  BY <1>2 DEF Waited, Settles
<1> QED
  BY <1>1, <1>2

\* A process is started under the next number, and greeted.
LEMMA SpawnedIsGreeted ==
    ASSUME NEW w, NEW n \in Nat, Sound(w, n), w.m.job = NoJob, NEW same \in BOOLEAN,
           NEW k \in Nat, Used(w, k), k < MaxRequests
    PROVE  LET v == Spawned(w, same)
           IN  /\ Sound(v, n) /\ v.m.job # NoJob /\ Waiting(v, Hello)
               /\ v.m.queue = w.m.queue /\ v.m.starting = w.m.starting
               /\ v.m.generation = w.m.generation /\ Used(v, k + 1)
<1> DEFINE p == Unused(w)
           up == [w EXCEPT !.procs[p].life = "up", !.procs[p].same = same,
                           !.m.job = p, !.m.ready = FALSE, !.m.incompatible = FALSE]
           v == SendAll(up, <<Hello>>, TRUE)
<1>0. /\ w \in Worlds /\ w.m \in Table /\ w.procs \in [Pids -> Processes]
      /\ w.m.pending = {} /\ Accounted(w, <<>>, n) /\ w.ran \in [Requests -> 0..1]
      /\ \A r : ~Waiting(w, r)
  BY WorldFields, NothingPendsOnNoJob DEF Sound
<1>1. p \in Pids /\ p = k + 1
  <2>1. k + 1 \in Pids /\ \A o \in Pids : w.procs[o].life = "none" <=> ~(o <= k)
    BY Numbers DEF Pids, Used
  <2>a. ~(k + 1 <= k) /\ \A o \in Pids : ~(o <= k) => k + 1 <= o
    BY Numbers
  <2>2. /\ w.procs[k + 1].life = "none"
        /\ \A o \in Pids : w.procs[o].life = "none" => k + 1 <= o
    BY <2>1, <2>a
  <2>3. /\ p \in Pids /\ w.procs[p].life = "none"
        /\ \A o \in Pids : w.procs[o].life = "none" => p <= o
    BY <2>1, <2>2 DEF Unused
  <2> HIDE DEF p
  <2>4. ~(p <= k) /\ p <= k + 1
    BY <2>1, <2>2, <2>3
  <2> QED
    BY <2>3, <2>4, Numbers
<1> HIDE DEF p
<1>2. /\ up.m = [w.m EXCEPT !.job = p, !.ready = FALSE, !.incompatible = FALSE]
      /\ up.procs = [w.procs EXCEPT ![p].life = "up", ![p].same = same]
      /\ up.ran = w.ran
      /\ up = [m |-> up.m, procs |-> up.procs, ran |-> up.ran]
  <2>1. ASSUME NEW e, e = up
        PROVE  /\ e.m = [w.m EXCEPT !.job = p, !.ready = FALSE, !.incompatible = FALSE]
               /\ e.procs = [w.procs EXCEPT ![p].life = "up", ![p].same = same]
               /\ e.ran = w.ran
               /\ e = [m |-> e.m, procs |-> e.procs, ran |-> e.ran]
    BY <1>0, <2>1 DEF Worlds
  <2> HIDE DEF up
  <2> QED
    BY <2>1
<1>3. up.procs \in [Pids -> Processes] /\ up.procs[p].life = "up"
      /\ \A o \in Pids : o # p => up.procs[o] = w.procs[o]
  <2>1. w.procs[p] \in Processes
    BY <1>0, <1>1
  <2>2. up.procs = [w.procs EXCEPT ![p] = [w.procs[p] EXCEPT !.life = "up", !.same = same]]
    BY <1>0, <1>1, <1>2, <2>1
  <2>3. /\ [w.procs[p] EXCEPT !.life = "up", !.same = same] \in Processes
        /\ [w.procs[p] EXCEPT !.life = "up", !.same = same].life = "up"
    BY <2>1 DEF Processes
  <2> QED
    BY <1>0, <1>1, <2>2, <2>3
<1> HIDE DEF up
<1>4. /\ up.m \in Table /\ up.m.job = p /\ ~up.m.ready /\ ~up.m.incompatible
      /\ up.m.queue = w.m.queue /\ up.m.pending = {}
      /\ up.m.starting = w.m.starting /\ up.m.generation = w.m.generation
  BY <1>0, <1>1, <1>2 DEF Table
<1>5. up \in Worlds
  BY <1>0, <1>2, <1>3, <1>4 DEF Worlds
<1>6. Accounted(up, <<Hello>>, n) /\ OnCurrentJob(up)
  <2>1. \A r : ~Waiting(up, r)
    BY <1>4 DEF Waiting
  <2>2. \A r \in Requests : ~Has(<<Hello>>, r)
    BY Numbers DEF Has
  <2>3. Accounted(up, <<Hello>>, n)
    BY <1>0, <1>2, <1>4, <2>1, <2>2, NothingInHand DEF Accounted
  <2> QED
    BY <1>4, <2>3 DEF OnCurrentJob
<1>7. /\ v \in Worlds /\ Accounted(v, <<>>, n) /\ OnCurrentJob(v)
      /\ v.m.job = up.m.job /\ v.m.ready = up.m.ready /\ v.m.queue = up.m.queue
      /\ v.m.incompatible = up.m.incompatible
      /\ v.m.starting = up.m.starting /\ v.m.generation = up.m.generation
      /\ \A r : Waiting(v, r) <=> Waiting(up, r) \/ Has(<<Hello>>, r)
      /\ \A o \in Pids : /\ v.procs[o].life = up.procs[o].life
                         /\ v.procs[o].same = up.procs[o].same
  <2>1. <<Hello>> \in Seq(Requests \cup {Hello}) /\ up.m.job # NoJob
    BY <1>1, <1>4, Numbers
  <2> QED
    BY <1>5, <1>6, <2>1, SendAllPlacesThem
<1>8. Spawned(w, same) = v
  BY DEF Spawned, v, up, p
<1> HIDE DEF v
<1>9. Waiting(v, Hello)
  <2>1. Has(<<Hello>>, Hello)
    <3>1. 1 \in 1..Len(<<Hello>>) /\ <<Hello>>[1] = Hello
      OBVIOUS
    <3> QED
      BY <3>1 DEF Has
  <2> QED
    BY <1>7, <2>1
<1>10. Sound(v, n)
  BY <1>1, <1>4, <1>7, <1>9 DEF Sound, Greeting, Flushed
<1>11. Used(v, k + 1)
  <2>1. \A o \in Pids : v.procs[o].life # "none" <=> o = p \/ w.procs[o].life # "none"
    BY <1>1, <1>3, <1>7
  <2>2. \A o \in Pids : o <= k + 1 <=> o = p \/ o <= k
    BY <1>1, Numbers
  <2> QED
    BY <2>1, <2>2 DEF Used
<1> QED
  BY <1>1, <1>4, <1>7, <1>8, <1>9, <1>10, <1>11, Numbers

\* The installer calls back while no process is there: a process is started,
\* or all that waits is failed, or the spawn fails.
LEMMA ResolvedServesTheQueue ==
    ASSUME NEW w, NEW n \in Nat, Sound(w, n), w.m.job = NoJob,
           NEW k \in Nat, Used(w, k), k < MaxRequests, NEW o \in Resolved(w)
    PROVE  LET v == o.world
           IN  /\ Sound(v, n) /\ ~v.m.starting /\ v.m.generation = w.m.generation
               /\ o.faults \subseteq {"torn", "spawn"}
               /\ \/ v.m.queue = <<>>
                  \/ v.m.job # NoJob /\ Waiting(v, Hello)
                  \/ "spawn" \in o.faults
               /\ Used(v, k) \/ Used(v, k + 1)
<1> DEFINE ended == [w EXCEPT !.m.starting = FALSE]
<1>0. /\ w \in Worlds /\ w.m \in Table /\ Accounted(w, <<>>, n)
  BY WorldFields DEF Sound
<1>1. /\ ended.m = [w.m EXCEPT !.starting = FALSE]
      /\ ended.procs = w.procs /\ ended.ran = w.ran
      /\ ended = [m |-> ended.m, procs |-> ended.procs, ran |-> ended.ran]
  <2>1. ASSUME NEW e, e = ended
        PROVE  /\ e.m = [w.m EXCEPT !.starting = FALSE]
               /\ e.procs = w.procs /\ e.ran = w.ran
               /\ e = [m |-> e.m, procs |-> e.procs, ran |-> e.ran]
    BY <1>0, <2>1 DEF Worlds
  <2> HIDE DEF ended
  <2> QED
    BY <2>1
<1>2. o \in Started(Waited(ended)) \cup {[world |-> FailAll(ended), faults |-> {}]}
  BY DEF Resolved
<1> HIDE DEF ended
<1>3. /\ ended.m \in Table /\ ended.m.job = NoJob /\ ~ended.m.starting
      /\ ended.m.queue = w.m.queue /\ ended.m.pending = w.m.pending
      /\ ended.m.ready = w.m.ready /\ ended.m.incompatible = w.m.incompatible
      /\ ended.m.generation = w.m.generation
  BY <1>0, <1>1 DEF Table
<1>4. ended \in Worlds
  BY <1>0, <1>1, <1>3 DEF Worlds
<1>5. Sound(ended, n)
  <2>1. Accounted(ended, <<>>, n)
    BY <1>0, <1>1, <1>3 DEF Accounted, Waiting
  <2> QED
    BY <1>1, <1>3, <1>4, <2>1 DEF Sound, OnCurrentJob, Greeting, Flushed, Waiting
<1>6. Used(ended, k)
  BY <1>1 DEF Used
<1>7. Waited(ended) = ended
  BY <1>3, <1>5, WaitedSettles
<1>8. CASE o \in Started(ended)
  <2>1. \/ \E same \in BOOLEAN : o = [world |-> Spawned(ended, same), faults |-> {}]
        \/ o = [world |-> ended, faults |-> {"spawn"}]
    BY <1>3, <1>8 DEF Started
  <2>2. ASSUME NEW same \in BOOLEAN, o = [world |-> Spawned(ended, same), faults |-> {}]
        PROVE  LET v == o.world
               IN  /\ Sound(v, n) /\ v.m.job # NoJob /\ Waiting(v, Hello)
                   /\ ~v.m.starting /\ v.m.generation = w.m.generation
                   /\ Used(v, k + 1) /\ o.faults = {}
    BY <1>3, <1>5, <1>6, <2>2, SpawnedIsGreeted
  <2>3. CASE o = [world |-> ended, faults |-> {"spawn"}]
    BY <1>3, <1>5, <1>6, <2>3
  <2> QED
    BY <2>1, <2>2, <2>3
<1>9. CASE o = [world |-> FailAll(ended), faults |-> {}]
  <2> DEFINE v == FailAll(ended)
  <2>1. /\ v \in Worlds /\ Accounted(v, <<>>, n) /\ v.m.queue = <<>> /\ v.m.pending = {}
        /\ v.m.job = NoJob /\ v.m.ready = w.m.ready
        /\ v.m.starting = ended.m.starting /\ v.m.generation = w.m.generation
        /\ v.procs = ended.procs
    BY <1>0, <1>3, <1>4, <1>5, FailAllRunsThemAll DEF Sound
  <2> HIDE DEF v
  <2>2. ~w.m.ready
    BY DEF Sound, Flushed
  <2>3. Sound(v, n)
    BY <2>1, <2>2 DEF Sound, OnCurrentJob, Greeting, Flushed, Waiting
  <2>4. Used(v, k)
    BY <1>6, <2>1 DEF Used
  <2>5. o.world = v /\ o.faults = {}
    BY <1>9 DEF v
  <2> QED
    BY <1>3, <2>1, <2>3, <2>4, <2>5
<1> QED
  BY <1>2, <1>7, <1>8, <1>9


\* The response to r, from the current process: to "initialize" it decides
\* what becomes of the queue, any other one is run.
LEMMA HandledKeepsTheQueueServed ==
    ASSUME NEW w, NEW n \in Nat, Sound(w, n), NEW p \in Pids, w.m.job = p,
           NEW r \in Requests \cup {Hello}, NEW open \in BOOLEAN
    PROVE  LET v == Handled(w, p, r, open)
           IN  /\ Sound(v, n) /\ v.m.job = p
               /\ v.m.starting = w.m.starting /\ v.m.generation = w.m.generation
               /\ \/ v.m.queue = <<>>
                  \/ v.m.queue = w.m.queue /\ (Waiting(v, Hello) <=> Waiting(w, Hello))
               /\ \A o \in Pids : v.procs[o].life = w.procs[o].life
<1> DEFINE taken == [w EXCEPT !.m.pending = @ \ {<<r, p>>}]
<1>0. /\ w \in Worlds /\ w.m \in Table /\ w.procs \in [Pids -> Processes]
      /\ w.ran \in [Requests -> 0..1] /\ w.m.queue \in Seq(Requests)
      /\ Accounted(w, <<>>, n) /\ OnCurrentJob(w) /\ p # NoJob
  BY WorldFields, Numbers DEF Sound
<1>1. CASE <<r, p>> \notin w.m.pending
  BY <1>1 DEF Handled
<1>2. CASE <<r, p>> \in w.m.pending
  <2>1. /\ taken.m = [w.m EXCEPT !.pending = @ \ {<<r, p>>}]
        /\ taken.procs = w.procs /\ taken.ran = w.ran
        /\ taken = [m |-> taken.m, procs |-> taken.procs, ran |-> taken.ran]
    <3>1. ASSUME NEW e, e = taken
          PROVE  /\ e.m = [w.m EXCEPT !.pending = @ \ {<<r, p>>}]
                 /\ e.procs = w.procs /\ e.ran = w.ran
                 /\ e = [m |-> e.m, procs |-> e.procs, ran |-> e.ran]
      BY <1>0, <3>1 DEF Worlds
    <3> HIDE DEF taken
    <3> QED
      BY <3>1
  <2>2. Handled(w, p, r, open) =
          IF r = Hello THEN Greeted(taken, w.procs[p].same, open)
                       ELSE RunAll(taken, {r})
    BY <1>2, <2>1 DEF Handled
  <2> HIDE DEF taken
  <2>3. /\ taken.m \in Table /\ taken.m.job = p /\ taken.m.queue = w.m.queue
        /\ taken.m.ready = w.m.ready /\ taken.m.incompatible = w.m.incompatible
        /\ taken.m.starting = w.m.starting /\ taken.m.generation = w.m.generation
        /\ taken.m.pending = w.m.pending \ {<<r, p>>}
    BY <1>0, <2>1 DEF Table
  <2>4. taken \in Worlds /\ OnCurrentJob(taken)
    BY <1>0, <2>1, <2>3 DEF Worlds, OnCurrentJob
  <2>5. Waiting(w, r) /\ \A x : Waiting(taken, x) <=> Waiting(w, x) /\ x # r
    <3>1. <<r, p>>[1] = r
      OBVIOUS
    <3>2. \A x \in w.m.pending : x[1] = r => x = <<r, p>>
      BY <1>0, <1>2, <3>1 DEF Accounted
    <3> QED
      BY <1>2, <2>3, <3>1, <3>2 DEF Waiting
  <2>6. \A x, y \in taken.m.pending : x[1] = y[1] => x = y
    BY <1>0, <2>3 DEF Accounted
  <2>7. CASE r # Hello
    <3> DEFINE v == SendAll(taken, <<r>>, FALSE)
    <3>1. Elements(<<r>>) = {r} /\ \A x : Has(<<r>>, x) <=> x = r
      <4>1. \A x : Has(<<r>>, x) <=> x = r
        BY DEF Has
      <4> QED
        BY <4>1 DEF Elements
    <3>2. Handled(w, p, r, open) = v
      BY <2>2, <2>7, <3>1 DEF SendAll
    <3>3. Accounted(taken, <<r>>, n)
      BY <1>0, <2>1, <2>3, <2>5, <2>6, <2>7, <3>1, NothingInHand DEF Accounted
    <3>4. <<r>> \in Seq(Requests \cup {Hello})
      OBVIOUS
    <3>5. /\ v \in Worlds /\ Accounted(v, <<>>, n) /\ OnCurrentJob(v)
          /\ v.m.job = p /\ v.m.ready = w.m.ready /\ v.m.queue = w.m.queue
          /\ v.m.incompatible = w.m.incompatible
          /\ v.m.starting = w.m.starting /\ v.m.generation = w.m.generation
          /\ \A x : Waiting(v, x) <=> Waiting(taken, x)
          /\ \A o \in Pids : /\ v.procs[o].life = w.procs[o].life
                             /\ v.procs[o].same = w.procs[o].same
      <4>1. /\ v \in Worlds /\ Accounted(v, <<>>, n) /\ OnCurrentJob(v)
            /\ v.m.job = taken.m.job /\ v.m.ready = taken.m.ready
            /\ v.m.queue = taken.m.queue /\ v.m.incompatible = taken.m.incompatible
            /\ v.m.starting = taken.m.starting
            /\ v.m.generation = taken.m.generation
            /\ \A x : Waiting(v, x) <=> Waiting(taken, x) \/ (FALSE /\ Has(<<r>>, x))
            /\ \A o \in Pids : /\ v.procs[o].life = taken.procs[o].life
                               /\ v.procs[o].same = taken.procs[o].same
        BY <2>4, <3>3, <3>4, SendAllPlacesThem
      <4> HIDE DEF v
      <4> QED
        BY <2>1, <2>3, <4>1
    <3> HIDE DEF v
    <3>6. Waiting(v, Hello) <=> Waiting(w, Hello)
      BY <2>5, <2>7, <3>5
    <3>7. Sound(v, n)
      BY <3>5, <3>6, <1>0 DEF Sound, Greeting, Flushed
    <3> QED
      BY <3>2, <3>5, <3>6, <3>7
  <2>8. CASE r = Hello
    <3>0. ~w.m.ready /\ ~w.m.incompatible /\ ~Waiting(taken, Hello)
      BY <2>5, <2>8 DEF Sound, Greeting
    <3>1. CASE w.procs[p].same
      <4> DEFINE ready == [taken EXCEPT !.m.ready = TRUE, !.m.queue = <<>>]
                 q == w.m.queue
                 v == SendAll(ready, q, open)
      <4>1. Handled(w, p, r, open) = v
        BY <2>2, <2>3, <2>8, <3>1 DEF Greeted
      <4>2. /\ ready.m = [taken.m EXCEPT !.ready = TRUE, !.queue = <<>>]
            /\ ready.procs = w.procs /\ ready.ran = w.ran
            /\ ready = [m |-> ready.m, procs |-> ready.procs, ran |-> ready.ran]
        <5>1. ASSUME NEW e, e = ready
              PROVE  /\ e.m = [taken.m EXCEPT !.ready = TRUE, !.queue = <<>>]
                     /\ e.procs = w.procs /\ e.ran = w.ran
                     /\ e = [m |-> e.m, procs |-> e.procs, ran |-> e.ran]
          BY <2>1, <2>4, <5>1 DEF Worlds
        <5> HIDE DEF ready
        <5> QED
          BY <5>1
      <4> HIDE DEF ready
      <4>3. /\ ready.m \in Table /\ ready.m.job = p /\ ready.m.queue = <<>>
            /\ ready.m.ready /\ ~ready.m.incompatible
            /\ ready.m.starting = w.m.starting /\ ready.m.generation = w.m.generation
            /\ ready.m.pending = taken.m.pending
        BY <2>3, <3>0, <4>2, EmptySeq DEF Table
      <4>4. ready \in Worlds /\ OnCurrentJob(ready)
        BY <1>0, <2>4, <4>2, <4>3, <2>3 DEF Worlds, OnCurrentJob
      <4>5. \A x : Waiting(ready, x) <=> Waiting(taken, x)
        BY <4>3 DEF Waiting
      <4>6. Accounted(ready, q, n)
        <5>1. ~Waiting(ready, Hello)
          BY <3>0, <4>5
        <5>2. Distinct(<<>>)
          BY EmptySeq DEF Distinct
        <5>3. \A x \in Requests : Waiting(ready, x) <=> Waiting(w, x)
          BY <2>5, <2>8, <4>5, Numbers
        <5> QED
          BY <1>0, <2>6, <4>2, <4>3, <5>1, <5>2, <5>3, NothingInHand DEF Accounted
      <4>7. q \in Seq(Requests \cup {Hello})
        BY <1>0, SeqMonotonic
      <4>8. /\ v \in Worlds /\ Accounted(v, <<>>, n) /\ OnCurrentJob(v)
            /\ v.m.job = p /\ v.m.ready /\ v.m.queue = <<>>
            /\ ~v.m.incompatible
            /\ v.m.starting = w.m.starting /\ v.m.generation = w.m.generation
            /\ \A x : Waiting(v, x) <=> Waiting(ready, x) \/ (open /\ Has(q, x))
            /\ \A o \in Pids : /\ v.procs[o].life = w.procs[o].life
                               /\ v.procs[o].same = w.procs[o].same
        <5>1. ready.m.job # NoJob
          BY <1>0, <4>3
        <5> HIDE DEF q
        <5>2. /\ v \in Worlds /\ Accounted(v, <<>>, n) /\ OnCurrentJob(v)
              /\ v.m.job = ready.m.job /\ v.m.ready = ready.m.ready
              /\ v.m.queue = ready.m.queue /\ v.m.incompatible = ready.m.incompatible
              /\ v.m.starting = ready.m.starting
              /\ v.m.generation = ready.m.generation
              /\ \A x : Waiting(v, x) <=> Waiting(ready, x) \/ (open /\ Has(q, x))
              /\ \A o \in Pids : /\ v.procs[o].life = ready.procs[o].life
                                 /\ v.procs[o].same = ready.procs[o].same
          BY <4>4, <4>6, <4>7, <5>1, SendAllPlacesThem
        <5> HIDE DEF v
        <5> QED
          BY <4>2, <4>3, <5>2
      <4>9. ~Has(q, Hello)
        BY <1>0, ElementOfSeq, Numbers DEF Has
      <4> HIDE DEF v, q
      <4>10. Sound(v, n)
        BY <1>0, <3>0, <3>1, <4>5, <4>8, <4>9 DEF Sound, Greeting, Flushed
      <4> QED
        BY <4>1, <4>8, <4>10
    <3>2. CASE ~w.procs[p].same
      <4> DEFINE other == [taken EXCEPT !.m.incompatible = TRUE]
                 v == FailAll(other)
      <4>1. Handled(w, p, r, open) = v
        BY <2>2, <2>8, <3>2 DEF Greeted
      <4>2. /\ other.m = [taken.m EXCEPT !.incompatible = TRUE]
            /\ other.procs = w.procs /\ other.ran = w.ran
            /\ other = [m |-> other.m, procs |-> other.procs, ran |-> other.ran]
        <5>1. ASSUME NEW e, e = other
              PROVE  /\ e.m = [taken.m EXCEPT !.incompatible = TRUE]
                     /\ e.procs = w.procs /\ e.ran = w.ran
                     /\ e = [m |-> e.m, procs |-> e.procs, ran |-> e.ran]
          BY <2>1, <2>4, <5>1 DEF Worlds
        <5> HIDE DEF other
        <5> QED
          BY <5>1
      <4> HIDE DEF other
      <4>3. /\ other.m \in Table /\ other.m.job = p /\ other.m.queue = w.m.queue
            /\ ~other.m.ready /\ other.m.incompatible
            /\ other.m.starting = w.m.starting /\ other.m.generation = w.m.generation
            /\ other.m.pending = taken.m.pending
        BY <2>3, <3>0, <4>2 DEF Table
      <4>4. other \in Worlds
        BY <1>0, <4>2, <4>3 DEF Worlds
      <4>5. Accounted(other, <<>>, n)
        <5>1. \A x \in Requests : Waiting(other, x) <=> Waiting(w, x)
          BY <2>5, <2>8, <4>3, Numbers DEF Waiting
        <5> QED
          BY <1>0, <2>6, <4>2, <4>3, <5>1, NothingInHand DEF Accounted
      <4>6. /\ v \in Worlds /\ Accounted(v, <<>>, n) /\ v.m.queue = <<>> /\ v.m.pending = {}
            /\ v.m.job = p /\ ~v.m.ready /\ v.m.incompatible
            /\ v.m.starting = w.m.starting /\ v.m.generation = w.m.generation
            /\ v.procs = w.procs
        BY <4>2, <4>3, <4>4, <4>5, FailAllRunsThemAll
      <4> HIDE DEF v
      <4>7. Sound(v, n)
        BY <4>6 DEF Sound, OnCurrentJob, Greeting, Flushed, Waiting
      <4> QED
        BY <4>1, <4>6, <4>7
    <3> QED
      BY <3>1, <3>2
  <2> QED
    BY <2>7, <2>8
<1> QED
  BY <1>1, <1>2

-----------------------------------------------------------------------------
(***************************************************************************)
(* The steps                                                               *)
(***************************************************************************)
LEMMA BecomesAWorld ==
    ASSUME NEW v \in Worlds, Becomes(v) PROVE World' = v
BY DEF Becomes, World, Worlds

\* A step to a world that fits keeps the invariant.
LEMMA StepFits ==
    ASSUME NEW v, Becomes(v), Fits(v, installs', faults', asked'),
           installs' \in Seq(Nat), asked' \in 0..MaxRequests, stops' \in 0..MaxStops,
           faults' \subseteq {"torn", "spawn"}
    PROVE  RInv'
<1>1. v \in Worlds
  BY DEF Fits, Sound
<1>2. World' = v
  BY <1>1, BecomesAWorld
<1>3. v.m \in Table /\ v.procs \in [Pids -> Processes] /\ v.ran \in [Requests -> 0..1]
  BY <1>1, WorldFields
<1>4. TypeOK'
  BY <1>3 DEF TypeOK, Table, Becomes
<1>5. Fits(World, installs, faults, asked)'
  BY <1>2 DEF Fits, Sound, Accounted, OnCurrentJob, Greeting, Flushed, InstallerFits,
              QueueServed, SpawnsFit, Used, Waiting, Has, Distinct, Elements
<1> QED
  BY <1>4, <1>5 DEF RInv

\* Sound is of what is queued, pending and run, and of the current process.
LEMMA SoundIsKept ==
    ASSUME NEW w, NEW n \in Nat, Sound(w, n), NEW v \in Worlds,
           v.m.job = w.m.job, v.m.ready = w.m.ready,
           v.m.incompatible = w.m.incompatible, v.m.queue = w.m.queue,
           v.m.pending = w.m.pending, v.ran = w.ran,
           \A p \in Pids : v.procs[p].same = w.procs[p].same
    PROVE  Sound(v, n) /\ \A r : Waiting(v, r) <=> Waiting(w, r)
<1>1. \A r : Waiting(v, r) <=> Waiting(w, r)
  BY DEF Waiting
<1>2. Accounted(v, <<>>, n)
  BY <1>1 DEF Sound, Accounted
<1>3. OnCurrentJob(v) /\ Greeting(v)
  BY <1>1 DEF Sound, OnCurrentJob, Greeting
<1>4. Flushed(v)
  BY WorldFields DEF Sound, Flushed
<1> QED
  BY <1>1, <1>2, <1>3, <1>4 DEF Sound

\* The elements of a queue that grew at its end.
LEMMA ElementsGrow ==
    ASSUME NEW S, NEW q \in Seq(S), NEW x \in S
    PROVE  /\ \A y : Has(Append(q, x), y) <=> Has(q, y) \/ y = x
           /\ Distinct(q) /\ ~Has(q, x) => Distinct(Append(q, x))
<1>1. /\ Len(q) \in Nat /\ Len(Append(q, x)) = Len(q) + 1
      /\ \A i \in 1..Len(q) : Append(q, x)[i] = q[i]
      /\ Append(q, x)[Len(q) + 1] = x
  BY AppendProperties, LenProperties
<1>2. /\ \A i \in 1..Len(Append(q, x)) : i \in 1..Len(q) \/ i = Len(q) + 1
      /\ \A i \in 1..Len(q) : i \in 1..Len(Append(q, x))
      /\ Len(q) + 1 \in 1..Len(Append(q, x))
  BY <1>1
<1>3. \A y : Has(Append(q, x), y) <=> Has(q, y) \/ y = x
  BY <1>1, <1>2 DEF Has
<1>4. Distinct(q) /\ ~Has(q, x) => Distinct(Append(q, x))
  BY <1>1, <1>2 DEF Distinct, Has
<1> QED
  BY <1>3, <1>4

\* A request joins the queue of a daemon that is not ready.
LEMMA QueuedIsSound ==
    ASSUME RInv, Asked, ~m.ready
    PROVE  LET joined == [World EXCEPT !.m.queue = Append(@, asked + 1)]
           IN  /\ Sound(joined, asked + 1)
               /\ joined.m.job = m.job /\ joined.m.ready = m.ready
               /\ joined.m.incompatible = m.incompatible
               /\ joined.m.starting = m.starting
               /\ joined.m.generation = m.generation
               /\ joined.m.pending = m.pending
               /\ joined.procs = procs
<1> DEFINE w == World
           r == asked + 1
           joined == [w EXCEPT !.m.queue = Append(@, r)]
<1>0. /\ w \in Worlds /\ w.m \in Table /\ w.procs \in [Pids -> Processes]
      /\ w.ran \in [Requests -> 0..1] /\ w.m.queue \in Seq(Requests)
      /\ Accounted(w, <<>>, asked) /\ w.m = m /\ w.procs = procs
  BY WorldFields DEF RInv, Fits, Sound, World
<1>1. r \in Requests /\ asked \in Nat /\ r > asked
  BY Numbers DEF RInv, TypeOK, Asked, Requests
<1>2. /\ joined.m = [w.m EXCEPT !.queue = Append(@, r)]
      /\ joined.procs = w.procs /\ joined.ran = w.ran
      /\ joined = [m |-> joined.m, procs |-> joined.procs, ran |-> joined.ran]
  <2>1. ASSUME NEW e, e = joined
        PROVE  /\ e.m = [w.m EXCEPT !.queue = Append(@, r)]
               /\ e.procs = w.procs /\ e.ran = w.ran
               /\ e = [m |-> e.m, procs |-> e.procs, ran |-> e.ran]
    <3> HIDE DEF w
    <3> QED
      BY <1>0, <2>1 DEF Worlds
  <2> HIDE DEF joined
  <2> QED
    BY <2>1
<1> HIDE DEF joined, r
<1>3. Append(w.m.queue, r) \in Seq(Requests)
  BY <1>0, <1>1, AppendProperties
<1>4. /\ joined.m \in Table /\ joined.m.job = m.job /\ joined.m.ready = m.ready
      /\ joined.m.incompatible = m.incompatible
      /\ joined.m.starting = m.starting /\ joined.m.generation = m.generation
      /\ joined.m.pending = m.pending /\ joined.m.queue = Append(w.m.queue, r)
  <2> HIDE DEF w
  <2> QED
    BY <1>0, <1>2, <1>3 DEF Table
<1>5. joined \in Worlds
  BY <1>0, <1>2, <1>4 DEF Worlds
<1>6. \A x : Waiting(joined, x) <=> Waiting(w, x)
  BY <1>0, <1>4 DEF Waiting
<1>7. Accounted(joined, <<>>, r)
  <2>1. ~Has(w.m.queue, r) /\ ~Waiting(w, r) /\ w.ran[r] = 0
    BY <1>0, <1>1, Numbers DEF Accounted
  <2>2. /\ \A y : Has(joined.m.queue, y) <=> Has(w.m.queue, y) \/ y = r
        /\ Distinct(joined.m.queue)
    BY <1>0, <1>1, <1>4, <2>1, ElementsGrow DEF Accounted
  <2>3. \A x, y \in joined.m.pending : x[1] = y[1] => x = y
    BY <1>0, <1>4 DEF Accounted
  <2>4. ASSUME NEW x \in Requests
        PROVE  /\ ~(Has(joined.m.queue, x) /\ Waiting(joined, x))
               /\ x > r => ~Has(joined.m.queue, x) /\ ~Waiting(joined, x)
               /\ joined.ran[x] = IF x <= r /\ ~Has(joined.m.queue, x) /\ ~Waiting(joined, x)
                                    THEN 1 ELSE 0
    <3>1. x <= r <=> x <= asked \/ x = r
      BY <1>1, Numbers DEF r
    <3>2. x > r => x > asked /\ x # r
      BY <1>1, Numbers DEF r
    <3>3. /\ ~(Has(w.m.queue, x) /\ Waiting(w, x))
          /\ x > asked => ~Has(w.m.queue, x) /\ ~Waiting(w, x)
          /\ w.ran[x] = IF x <= asked /\ ~Has(w.m.queue, x) /\ ~Waiting(w, x)
                          THEN 1 ELSE 0
      BY <1>0, NothingInHand DEF Accounted
    <3> QED
      BY <1>2, <1>6, <2>1, <2>2, <3>1, <3>2, <3>3
  <2> QED
    BY <2>2, <2>3, <2>4, NothingInHand DEF Accounted
<1>8. OnCurrentJob(joined)
  BY <1>0, <1>4 DEF RInv, Fits, Sound, OnCurrentJob
<1>9. Greeting(joined) /\ Flushed(joined)
  BY <1>0, <1>4, <1>6 DEF RInv, Fits, Sound, Greeting, Flushed
<1> QED
  BY <1>2, <1>0, <1>4, <1>5, <1>7, <1>8, <1>9 DEF Sound, joined, r

LEMMA RequestIsSentOrRefused ==
    ASSUME RInv, RequestRefused \/ RequestSent
    PROVE  RInv'
<1> DEFINE r == asked + 1
<1>0. /\ Sound(World, asked) /\ asked \in Nat /\ r \in Requests /\ r > asked
      /\ World.m = m /\ World.procs = procs /\ asked' = r
      /\ installs' = installs /\ faults' = faults /\ stops' = stops
  BY Numbers DEF RInv, Fits, TypeOK, Requests, RequestRefused, RequestSent, Asked, World
<1>a. Elements(<<r>>) = {r} /\ \A x : Has(<<r>>, x) <=> x = r
  <2>1. \A x : Has(<<r>>, x) <=> x = r
    BY DEF Has
  <2> QED
    BY <2>1 DEF Elements
<1>1. PICK open \in BOOLEAN : /\ open => World.m.job # NoJob
                             /\ Becomes(SendAll(World, <<r>>, open))
  <2>1. CASE RequestRefused
    <3>1. SendAll(World, <<r>>, FALSE) = RunAll(World, {r})
      BY <1>a DEF SendAll
    <3> QED
      BY <2>1, <3>1 DEF RequestRefused
  <2>2. CASE RequestSent
    BY <2>2 DEF RequestSent, Channel
  <2> QED
    BY <2>1, <2>2
<1> DEFINE v == SendAll(World, <<r>>, open)
           w == World
<1>2. Accounted(w, <<r>>, r) /\ OnCurrentJob(w) /\ w \in Worlds
  <2>1. Accounted(w, <<>>, asked) /\ OnCurrentJob(w) /\ w \in Worlds
    BY <1>0 DEF Sound
  <2>2. ASSUME NEW x \in Requests
        PROVE  /\ x <= r <=> x <= asked \/ x = r
               /\ x > r => x > asked /\ x # r
    BY <1>0, Numbers
  <2>3. Hello # r
    BY <1>0, Numbers
  <2> HIDE DEF r, w
  <2> QED
    BY <1>0, <1>a, <2>1, <2>2, <2>3, NothingInHand, Numbers DEF Accounted
<1>3. <<r>> \in Seq(Requests \cup {Hello}) /\ r \in Nat
  BY <1>0
<1> HIDE DEF r, w
<1>4. /\ v \in Worlds /\ Accounted(v, <<>>, r) /\ OnCurrentJob(v)
      /\ v.m.job = w.m.job /\ v.m.ready = w.m.ready /\ v.m.queue = w.m.queue
      /\ v.m.incompatible = w.m.incompatible
      /\ v.m.starting = w.m.starting /\ v.m.generation = w.m.generation
      /\ \A x : Waiting(v, x) <=> Waiting(w, x) \/ (open /\ Has(<<r>>, x))
      /\ \A p \in Pids : /\ v.procs[p].life = w.procs[p].life
                         /\ v.procs[p].same = w.procs[p].same
  BY <1>1, <1>2, <1>3, SendAllPlacesThem DEF w
<1> HIDE DEF v
<1>5. Waiting(v, Hello) <=> Waiting(w, Hello)
  BY <1>0, <1>4, <1>a, Numbers
<1>6. Sound(w, asked) /\ Fits(w, installs, faults, asked)
  BY <1>0 DEF RInv, w
<1>7. Sound(v, r)
  BY <1>4, <1>5, <1>6, WorldFields DEF Sound, Greeting, Flushed
<1>8. Fits(v, installs, faults, r)
  <2>1. InstallerFits(v, installs) /\ QueueServed(v, installs, faults)
    BY <1>4, <1>5, <1>6 DEF Fits, InstallerFits, QueueServed
  <2>2. PICK k \in Nat : Used(w, k) /\ k + Len(installs) <= asked
    BY <1>6 DEF Fits, SpawnsFit
  <2>3. Used(v, k)
    BY <1>4, <2>2 DEF Used
  <2>4. k + Len(installs) <= r
    BY <1>0, <2>2, LenProperties DEF RInv, TypeOK, r
  <2> QED
    BY <1>7, <2>1, <2>3, <2>4 DEF Fits, SpawnsFit
<1>9. r \in 0..MaxRequests
  BY <1>0, Numbers DEF Requests
<1> QED
  BY <1>0, <1>1, <1>8, <1>9, StepFits DEF v, w, RInv, TypeOK

\* The queued request of RequestWaits and RequestStarts, once jobwait has
\* run an exit that is due.
LEMMA QueuedSettles ==
    ASSUME RInv, Asked, ~m.ready, ~m.incompatible
    PROVE  /\ Sound(Queued, asked + 1)
           /\ Queued.m.starting = m.starting /\ Queued.m.generation = m.generation
           /\ Queued.m.queue = <<>> \/ Queued.m.job = NoJob \/ Waiting(Queued, Hello)
           /\ InstallerFits(Queued, installs)
           /\ \A k : Used(World, k) => Used(Queued, k)
<1> DEFINE joined == [World EXCEPT !.m.queue = Append(@, asked + 1)]
           v == Waited(joined)
<1>1. /\ Sound(joined, asked + 1)
      /\ joined.m.job = m.job /\ joined.m.ready = m.ready
      /\ joined.m.incompatible = m.incompatible
      /\ joined.m.starting = m.starting /\ joined.m.generation = m.generation
      /\ joined.m.pending = m.pending /\ joined.procs = procs
  BY QueuedIsSound
<1>2. Queued = v
  BY DEF Queued
<1> HIDE DEF joined
<1>3. asked + 1 \in Nat
  BY DEF RInv, TypeOK
<1>4. Sound(v, asked + 1) /\ Settles(v, joined)
  BY <1>1, <1>3, WaitedSettles
<1> HIDE DEF v
<1>5. v.m.queue = <<>> \/ v.m.job = NoJob \/ Waiting(v, Hello)
  <2>1. CASE v.m = joined.m
    BY <1>1, <1>4, <2>1 DEF Sound, Greeting
  <2>2. CASE v.m.queue = <<>>
    BY <2>2
  <2> QED
    BY <1>4, <2>1, <2>2 DEF Settles
<1>6. InstallerFits(v, installs)
  BY <1>1, <1>4 DEF Settles, RInv, Fits, InstallerFits, World
<1>7. \A k : Used(World, k) => Used(v, k)
  BY <1>1, <1>4 DEF Settles, Used, World
<1> QED
  BY <1>1, <1>2, <1>4, <1>5, <1>6, <1>7 DEF Settles

LEMMA RequestIsQueued == ASSUME RInv, RequestWaits PROVE RInv'
<1>1. Asked /\ ~m.ready /\ ~m.incompatible /\ ~Idle(Queued) /\ Becomes(Queued)
      /\ asked' = asked + 1 /\ UNCHANGED <<installs, stops, faults>>
  BY DEF RequestWaits, Asked
<1> DEFINE v == Queued
<1>2. /\ Sound(v, asked + 1) /\ InstallerFits(v, installs)
      /\ v.m.queue = <<>> \/ v.m.job = NoJob \/ Waiting(v, Hello)
      /\ \A k : Used(World, k) => Used(v, k)
  BY <1>1, QueuedSettles
<1>3. QueueServed(v, installs, faults)
  BY <1>1, <1>2 DEF Idle, QueueServed, InstallerFits
<1>4. SpawnsFit(v, installs, asked + 1)
  <2>1. PICK k \in Nat : Used(World, k) /\ k + Len(installs) <= asked
    BY DEF RInv, Fits, SpawnsFit
  <2>2. k + Len(installs) <= asked + 1
    BY <2>1, LenProperties DEF RInv, TypeOK
  <2> QED
    BY <1>2, <2>1, <2>2 DEF SpawnsFit
<1>5. asked + 1 \in 0..MaxRequests
  BY <1>1, Numbers DEF Asked, RInv, TypeOK
<1> QED
  BY <1>1, <1>2, <1>3, <1>4, <1>5, StepFits DEF Fits, RInv, TypeOK

\* ensure starts a daemon: the installer knows at once, or is waited for.
LEMMA RequestStartsADaemon == ASSUME RInv, RequestStarts PROVE RInv'
<1> DEFINE w == NextGeneration(Queued)
           n == asked + 1
<1>1. /\ Asked /\ ~m.ready /\ ~m.incompatible /\ Idle(Queued)
      /\ asked' = n /\ stops' = stops
      /\ \/ \E o \in Resolved(w) :
               Becomes(o.world) /\ faults' = faults \cup o.faults /\ installs' = installs
         \/ /\ Becomes(w) /\ installs' = Append(installs, w.m.generation)
            /\ faults' = faults
  BY DEF RequestStarts, Asked
<1>2. /\ Sound(Queued, n) /\ InstallerFits(Queued, installs)
      /\ Queued.m.generation = m.generation
      /\ \A k : Used(World, k) => Used(Queued, k)
  BY <1>1, QueuedSettles
<1>3. /\ n \in 0..MaxRequests /\ n \in Nat /\ asked \in Nat /\ m.generation \in Nat
      /\ installs \in Seq(Nat) /\ Len(installs) \in Nat /\ asked < MaxRequests
  BY <1>1, Numbers, LenProperties DEF Asked, RInv, TypeOK
<1>4. /\ Queued.m.job = NoJob /\ ~Queued.m.starting
  BY <1>1 DEF Idle
<1>5. /\ w.m = [Queued.m EXCEPT !.starting = TRUE, !.generation = @ + 1]
      /\ w.procs = Queued.procs /\ w.ran = Queued.ran
      /\ w = [m |-> w.m, procs |-> w.procs, ran |-> w.ran]
  <2>1. Queued \in Worlds
    BY <1>2 DEF Sound
  <2>2. ASSUME NEW e, e = w
        PROVE  /\ e.m = [Queued.m EXCEPT !.starting = TRUE, !.generation = @ + 1]
               /\ e.procs = Queued.procs /\ e.ran = Queued.ran
               /\ e = [m |-> e.m, procs |-> e.procs, ran |-> e.ran]
    BY <2>1, <2>2 DEF Worlds, NextGeneration
  <2> HIDE DEF w
  <2> QED
    BY <2>2
<1> HIDE DEF w, n
<1>6. /\ w.m \in Table /\ w.m.starting /\ w.m.generation = m.generation + 1
      /\ w.m.job = Queued.m.job /\ w.m.ready = Queued.m.ready
      /\ w.m.incompatible = Queued.m.incompatible
      /\ w.m.queue = Queued.m.queue /\ w.m.pending = Queued.m.pending
  <2>1. Queued.m \in Table
    BY <1>2, WorldFields DEF Sound
  <2>2. Queued.m.generation + 1 \in Nat
    BY <1>2, <1>3
  <2>3. w.m \in Table
    BY <1>5, <2>1, <2>2 DEF Table
  <2> QED
    BY <1>2, <1>5, <2>1, <2>3 DEF Table
<1>7. w \in Worlds
  BY <1>2, <1>5, <1>6, WorldFields DEF Worlds, Sound
<1>8. Sound(w, n)
  BY <1>2, <1>3, <1>5, <1>6, <1>7, SoundIsKept
<1>9. PICK k \in Nat : Used(World, k) /\ k + Len(installs) <= asked
  BY DEF RInv, Fits, SpawnsFit
<1>10. Used(w, k) /\ k < MaxRequests
  <2>1. Used(Queued, k)
    BY <1>2, <1>9
  <2> QED
    BY <1>3, <1>5, <1>9, <2>1, Numbers DEF Used
<1>11. \A g \in Elements(installs) : g \in Nat /\ g <= m.generation
  BY <1>2, <1>3, ElementOfSeq DEF InstallerFits, Elements
<1>12. ASSUME NEW o \in Resolved(w), Becomes(o.world), faults' = faults \cup o.faults,
              installs' = installs
       PROVE  RInv'
  <2> DEFINE v == o.world
  <2>1. /\ Sound(v, n) /\ ~v.m.starting /\ v.m.generation = w.m.generation
        /\ o.faults \subseteq {"torn", "spawn"}
        /\ \/ v.m.queue = <<>>
           \/ v.m.job # NoJob /\ Waiting(v, Hello)
           \/ "spawn" \in o.faults
        /\ Used(v, k) \/ Used(v, k + 1)
    BY <1>3, <1>4, <1>6, <1>8, <1>10, ResolvedServesTheQueue
  <2> HIDE DEF v
  <2>2. InstallerFits(v, installs')
    <3>1. m.generation + 1 \notin Elements(installs)
      BY <1>3, <1>11
    <3>2. \A g \in Elements(installs) : g <= m.generation + 1
      BY <1>3, <1>11
    <3> QED
      BY <1>6, <1>12, <2>1, <3>1, <3>2 DEF InstallerFits
  <2>3. QueueServed(v, installs', faults')
    BY <1>12, <2>1 DEF QueueServed
  <2>4. SpawnsFit(v, installs', n)
    <3>1. k + Len(installs) <= n /\ (k + 1) + Len(installs) <= n /\ k + 1 \in Nat
      BY <1>3, <1>9 DEF n
    <3> QED
      BY <1>12, <2>1, <3>1 DEF SpawnsFit
  <2>5. faults' \subseteq {"torn", "spawn"} /\ stops' \in 0..MaxStops
    BY <1>1, <1>12, <2>1 DEF RInv, TypeOK
  <2> QED
    BY <1>1, <1>3, <1>12, <2>1, <2>2, <2>3, <2>4, <2>5, StepFits DEF Fits, v
<1>13. ASSUME Becomes(w), installs' = Append(installs, w.m.generation), faults' = faults
       PROVE  RInv'
  <2>1. /\ installs' \in Seq(Nat) /\ Len(installs') = Len(installs) + 1
        /\ \A g : g \in Elements(installs') <=> g \in Elements(installs)
                                               \/ g = m.generation + 1
    <3>1. /\ Append(installs, m.generation + 1) \in Seq(Nat)
          /\ Len(Append(installs, m.generation + 1)) = Len(installs) + 1
      BY <1>3, AppendProperties
    <3>2. \A g : Has(Append(installs, m.generation + 1), g) <=>
                   Has(installs, g) \/ g = m.generation + 1
      BY <1>3, ElementsGrow
    <3> QED
      BY <1>6, <1>13, <3>1, <3>2, ElementsOfQueue
  <2>2. InstallerFits(w, installs')
    <3>1. \A g \in Elements(installs) : g <= m.generation + 1
      BY <1>3, <1>11
    <3> QED
      BY <1>3, <1>4, <1>6, <2>1, <3>1 DEF InstallerFits
  <2>3. QueueServed(w, installs', faults')
    BY <1>6, <2>1 DEF QueueServed
  <2>4. SpawnsFit(w, installs', n)
    <3>1. k + Len(installs') <= n
      BY <1>3, <1>9, <2>1 DEF n
    <3> QED
      BY <1>10, <3>1 DEF SpawnsFit
  <2> QED
    BY <1>1, <1>3, <1>8, <1>13, <2>1, <2>2, <2>3, <2>4, StepFits DEF Fits, RInv, TypeOK
<1> QED
  BY <1>1, <1>12, <1>13

\* stop
LEMMA StopFailsWhatWaits == ASSUME RInv, Stop PROVE RInv'
<1> DEFINE w == World
           later == [w EXCEPT !.m.generation = @ + 1]
           u == Waited(later)
           off == [u EXCEPT !.m.job = NoJob, !.m.ready = FALSE, !.m.incompatible = FALSE,
                            !.m.starting = FALSE, !.m.buffer = FALSE]
           v == FailAll(off)
<1>1. /\ stops' \in 0..MaxStops /\ Becomes(v)
      /\ UNCHANGED <<installs, asked, faults>>
  <2>1. Stopped(w) = v
    BY DEF Stopped
  <2>2. stops' \in 0..MaxStops
    BY RpcAssumption DEF Stop, RInv, TypeOK
  <2> HIDE DEF v, w
  <2> QED
    BY <2>1, <2>2 DEF Stop, w
<1>2. /\ w \in Worlds /\ Sound(w, asked) /\ w.m \in Table /\ w.m = m /\ w.procs = procs
      /\ asked \in Nat /\ m.generation \in Nat
      /\ installs \in Seq(Nat) /\ InstallerFits(w, installs)
  BY WorldFields DEF RInv, Fits, Sound, World, TypeOK
<1>3. /\ later.m = [w.m EXCEPT !.generation = @ + 1]
      /\ later.procs = w.procs /\ later.ran = w.ran
      /\ later = [m |-> later.m, procs |-> later.procs, ran |-> later.ran]
  <2>1. ASSUME NEW e, e = later
        PROVE  /\ e.m = [w.m EXCEPT !.generation = @ + 1]
               /\ e.procs = w.procs /\ e.ran = w.ran
               /\ e = [m |-> e.m, procs |-> e.procs, ran |-> e.ran]
    <3> HIDE DEF w
    <3> QED
      BY <1>2, <2>1 DEF Worlds
  <2> HIDE DEF later
  <2> QED
    BY <2>1
<1> HIDE DEF w, later
<1>4. /\ later.m \in Table /\ later.m.generation = m.generation + 1
      /\ later.m.job = w.m.job /\ later.m.ready = w.m.ready
      /\ later.m.incompatible = w.m.incompatible
      /\ later.m.queue = w.m.queue /\ later.m.pending = w.m.pending
  <2>1. w.m.generation + 1 \in Nat /\ w.m.generation = m.generation
    BY <1>2
  <2>2. later.m \in Table
    BY <1>2, <1>3, <2>1 DEF Table
  <2> QED
    BY <1>2, <1>3, <2>1, <2>2 DEF Table
<1>5. later \in Worlds
  BY <1>2, <1>3, <1>4, WorldFields DEF Worlds
<1>6. Sound(later, asked)
  BY <1>2, <1>3, <1>4, <1>5, SoundIsKept
<1>7. Sound(u, asked) /\ Settles(u, later)
  BY <1>2, <1>6, WaitedSettles
<1> HIDE DEF u
<1>8. /\ off.m = [u.m EXCEPT !.job = NoJob, !.ready = FALSE, !.incompatible = FALSE,
                             !.starting = FALSE, !.buffer = FALSE]
      /\ off.procs = u.procs /\ off.ran = u.ran
      /\ off = [m |-> off.m, procs |-> off.procs, ran |-> off.ran]
  <2>1. ASSUME NEW e, e = off
        PROVE  /\ e.m = [u.m EXCEPT !.job = NoJob, !.ready = FALSE,
                             !.incompatible = FALSE, !.starting = FALSE, !.buffer = FALSE]
               /\ e.procs = u.procs /\ e.ran = u.ran
               /\ e = [m |-> e.m, procs |-> e.procs, ran |-> e.ran]
    BY <1>7, <2>1 DEF Worlds, Sound
  <2> HIDE DEF off
  <2> QED
    BY <2>1
<1> HIDE DEF off
<1>9. /\ off.m \in Table /\ off.m.job = NoJob /\ ~off.m.ready /\ ~off.m.starting
      /\ off.m.generation = u.m.generation
      /\ off.m.queue = u.m.queue /\ off.m.pending = u.m.pending
  <2>1. u.m \in Table
    BY <1>7, WorldFields DEF Sound
  <2> QED
    BY <1>8, <2>1 DEF Table
<1>10. off \in Worlds
  BY <1>7, <1>8, <1>9, WorldFields DEF Worlds, Sound
<1>11. Accounted(off, <<>>, asked)
  BY <1>7, <1>8, <1>9 DEF Sound, Accounted, Waiting
<1>12. /\ v \in Worlds /\ Accounted(v, <<>>, asked)
       /\ v.m.queue = <<>> /\ v.m.pending = {}
       /\ v.m.job = off.m.job /\ v.m.ready = off.m.ready
       /\ v.m.starting = off.m.starting /\ v.m.generation = off.m.generation
       /\ v.procs = off.procs
  BY <1>2, <1>10, <1>11, FailAllRunsThemAll
<1> HIDE DEF v
<1>13. Sound(v, asked)
  BY <1>9, <1>12 DEF Sound, OnCurrentJob, Greeting, Flushed, Waiting
<1>14. InstallerFits(v, installs)
  <2>1. \A g \in Elements(installs) : g \in Nat /\ g <= m.generation
    BY <1>2, ElementOfSeq DEF InstallerFits, Elements
  <2>2. v.m.generation = m.generation + 1 /\ ~v.m.starting
    BY <1>4, <1>7, <1>9, <1>12 DEF Settles
  <2>3. \A g \in Elements(installs) : g <= m.generation + 1 /\ g # m.generation + 1
    BY <1>2, <2>1
  <2> QED
    BY <2>2, <2>3 DEF InstallerFits
<1>15. QueueServed(v, installs, faults)
  BY <1>12 DEF QueueServed
<1>16. SpawnsFit(v, installs, asked)
  BY <1>3, <1>7, <1>8, <1>12 DEF RInv, Fits, SpawnsFit, Used, Settles, w
<1> QED
  BY <1>1, <1>13, <1>14, <1>15, <1>16, StepFits DEF Fits, RInv, TypeOK

\* The download ends.
LEMMA InstallerCallsBack == ASSUME RInv, InstallEnds PROVE RInv'
<1>0. /\ Sound(World, asked) /\ World.m = m /\ asked \in Nat
      /\ InstallerFits(World, installs) /\ QueueServed(World, installs, faults)
      /\ installs # <<>> /\ installs' = <<>> /\ UNCHANGED <<asked, stops>>
      /\ installs \in Seq(Nat) /\ asked <= MaxRequests
  BY DEF RInv, Fits, TypeOK, InstallEnds, World
<1>1. Len(installs) \in Nat \ {0} /\ Len(installs') = 0 /\ installs' \in Seq(Nat)
  BY <1>0, EmptySeq
<1>2. PICK k \in Nat : Used(World, k) /\ k + Len(installs) <= asked
  BY DEF RInv, Fits, SpawnsFit
<1>3. k < MaxRequests /\ k + 1 <= asked /\ k + 1 \in Nat /\ k <= asked
  BY <1>0, <1>1, <1>2, Numbers
<1>4. \A g : g \notin Elements(<<>>)
  BY ElementsOfQueue, NothingInHand
<1>5. CASE m.generation \in Elements(installs)
  <2>1. PICK o \in Resolved(World) :
           Becomes(o.world) /\ faults' = faults \cup o.faults
    BY <1>5 DEF InstallEnds
  <2>2. m.job = NoJob
    BY <1>0, <1>5 DEF InstallerFits
  <2> DEFINE v == o.world
  <2>3. /\ Sound(v, asked) /\ ~v.m.starting /\ v.m.generation = World.m.generation
        /\ o.faults \subseteq {"torn", "spawn"}
        /\ \/ v.m.queue = <<>>
           \/ v.m.job # NoJob /\ Waiting(v, Hello)
           \/ "spawn" \in o.faults
        /\ Used(v, k) \/ Used(v, k + 1)
    BY <1>0, <1>2, <1>3, <2>2, ResolvedServesTheQueue
  <2> HIDE DEF v
  <2>4. InstallerFits(v, installs')
    BY <1>0, <1>4, <2>3 DEF InstallerFits
  <2>5. QueueServed(v, installs', faults')
    BY <2>1, <2>3 DEF QueueServed
  <2>6. SpawnsFit(v, installs', asked)
    <3>1. k + Len(installs') <= asked /\ (k + 1) + Len(installs') <= asked
      BY <1>1, <1>3
    <3> QED
      BY <1>3, <2>3, <3>1 DEF SpawnsFit
  <2>7. faults' \subseteq {"torn", "spawn"}
    BY <2>1, <2>3 DEF RInv, TypeOK
  <2> QED
    BY <1>0, <1>1, <2>1, <2>3, <2>4, <2>5, <2>6, <2>7, StepFits DEF Fits, v, RInv, TypeOK
<1>6. CASE m.generation \notin Elements(installs)
  <2>1. UNCHANGED <<m, procs, ran, faults>>
    BY <1>6 DEF InstallEnds
  <2>2. ~m.starting
    BY <1>0, <1>6 DEF InstallerFits
  <2>3. Becomes(World)
    BY <2>1 DEF Becomes, World
  <2>4. InstallerFits(World, installs')
    BY <1>0, <1>4, <2>2 DEF InstallerFits
  <2>5. QueueServed(World, installs', faults')
    BY <1>0, <2>1, <2>2 DEF QueueServed
  <2>6. SpawnsFit(World, installs', asked)
    <3>1. k + Len(installs') <= asked
      BY <1>1, <1>3
    <3> QED
      BY <1>2, <3>1 DEF SpawnsFit
  <2> QED
    BY <1>0, <1>1, <2>1, <2>3, <2>4, <2>5, <2>6, StepFits DEF Fits, RInv, TypeOK
<1> QED
  BY <1>5, <1>6

\* A line of a process is read.
LEMMA LineIsRead == ASSUME RInv, NEW p \in Pids, Output(p) PROVE RInv'
<1> DEFINE line == Head(procs[p].outbox)
           w == [World EXCEPT !.procs[p].outbox = Tail(@)]
<1>0. /\ Sound(World, asked) /\ World \in Worlds /\ asked \in Nat
      /\ World.m = m /\ World.procs = procs /\ World.ran = ran
      /\ m \in Table /\ procs \in [Pids -> Processes] /\ procs[p] \in Processes
      /\ procs[p].outbox # <<>> /\ UNCHANGED <<installs, asked, stops>>
      /\ InstallerFits(World, installs) /\ QueueServed(World, installs, faults)
      /\ SpawnsFit(World, installs, asked)
  BY WorldFields DEF RInv, Fits, Sound, World, TypeOK, Output
<1>1. Tail(procs[p].outbox) \in Seq(Lines) /\ line \in Lines
  BY <1>0, HeadTailProperties DEF Processes, Lines
<1>2. /\ w.m = m /\ w.ran = ran /\ w.procs = [procs EXCEPT ![p].outbox = Tail(@)]
      /\ w = [m |-> w.m, procs |-> w.procs, ran |-> w.ran]
  <2>1. ASSUME NEW e, e = w
        PROVE  /\ e.m = World.m /\ e.ran = World.ran
               /\ e.procs = [World.procs EXCEPT ![p].outbox = Tail(@)]
               /\ e = [m |-> e.m, procs |-> e.procs, ran |-> e.ran]
    BY <1>0, <2>1 DEF Worlds
  <2> HIDE DEF w
  <2> QED
    BY <1>0, <2>1
<1>3. /\ w.procs \in [Pids -> Processes]
      /\ \A o \in Pids : /\ w.procs[o].life = procs[o].life
                         /\ w.procs[o].same = procs[o].same
  <2>1. [procs[p] EXCEPT !.outbox = Tail(@)] \in Processes
    BY <1>0, <1>1 DEF Processes, Lines
  <2>2. w.procs \in [Pids -> Processes]
    BY <1>0, <1>2, <2>1
  <2>3. \A o \in Pids : /\ w.procs[o].life = procs[o].life
                        /\ w.procs[o].same = procs[o].same
    BY <1>0, <1>2 DEF Processes
  <2> QED
    BY <2>2, <2>3
<1>4. w \in Worlds
  BY <1>0, <1>2, <1>3, WorldFields DEF Worlds
<1> HIDE DEF w, line
<1>5. Sound(w, asked) /\ \A r : Waiting(w, r) <=> Waiting(World, r)
  <2>1. /\ w.m = World.m /\ w.ran = World.ran
        /\ \A o \in Pids : w.procs[o].same = World.procs[o].same
    BY <1>0, <1>2, <1>3
  <2> QED
    BY <1>0, <1>4, <2>1, SoundIsKept
<1>6. /\ InstallerFits(w, installs) /\ QueueServed(w, installs, faults)
      /\ SpawnsFit(w, installs, asked)
  BY <1>0, <1>2, <1>3, <1>5 DEF InstallerFits, QueueServed, SpawnsFit, Used
\* whatever becomes of the buffer
<1>7. ASSUME NEW b \in BOOLEAN, Becomes([w EXCEPT !.m.buffer = b]),
             faults' \in {faults, faults \cup {"torn"}}
      PROVE  RInv'
  <2> DEFINE v == [w EXCEPT !.m.buffer = b]
  <2>1. /\ v.m = [w.m EXCEPT !.buffer = b] /\ v.procs = w.procs /\ v.ran = w.ran
        /\ v = [m |-> v.m, procs |-> v.procs, ran |-> v.ran]
    <3>1. ASSUME NEW e, e = v
          PROVE  /\ e.m = [w.m EXCEPT !.buffer = b] /\ e.procs = w.procs /\ e.ran = w.ran
                 /\ e = [m |-> e.m, procs |-> e.procs, ran |-> e.ran]
      BY <1>4, <3>1 DEF Worlds
    <3> HIDE DEF v
    <3> QED
      BY <3>1
  <2> HIDE DEF v
  <2>2. /\ v.m \in Table /\ v.m.job = w.m.job /\ v.m.ready = w.m.ready
        /\ v.m.incompatible = w.m.incompatible /\ v.m.queue = w.m.queue
        /\ v.m.pending = w.m.pending /\ v.m.starting = w.m.starting
        /\ v.m.generation = w.m.generation
    BY <1>0, <1>2, <2>1 DEF Table
  <2>3. v \in Worlds
    BY <1>4, <2>1, <2>2, WorldFields DEF Worlds
  <2>4. Sound(v, asked) /\ \A r : Waiting(v, r) <=> Waiting(w, r)
    BY <1>0, <1>5, <2>1, <2>2, <2>3, SoundIsKept
  <2>5. Fits(v, installs', faults', asked')
    BY <1>0, <1>6, <1>7, <2>1, <2>2, <2>4
       DEF Fits, InstallerFits, QueueServed, SpawnsFit, Used
  <2>6. faults' \subseteq {"torn", "spawn"}
    BY <1>7 DEF RInv, TypeOK
  <2> QED
    BY <1>0, <1>7, <2>5, <2>6, StepFits DEF RInv, TypeOK, v
<1>8. CASE m.job # p
  <2>1. Becomes(w) /\ faults' = faults
    BY <1>8 DEF Output, w
  <2> QED
    BY <1>0, <1>5, <1>6, <2>1, StepFits DEF Fits, RInv, TypeOK
<1>9. CASE m.job = p /\ line = Torn
  <2>1. Becomes([w EXCEPT !.m.buffer = TRUE]) /\ faults' = faults \cup {"torn"}
    BY <1>9 DEF Output, w, line
  <2> QED
    BY <1>7, <2>1
<1>10. CASE m.job = p /\ line # Torn /\ m.buffer
  <2>1. Becomes([w EXCEPT !.m.buffer = FALSE]) /\ faults' = faults
    BY <1>10 DEF Output, w, line
  <2> QED
    BY <1>7, <2>1
<1>11. CASE m.job = p /\ line # Torn /\ ~m.buffer
  <2>1. PICK open \in Channel(w) : Becomes(Handled(w, p, line, open))
    BY <1>11 DEF Output, w, line
  <2>2. faults' = faults
    BY <1>11 DEF Output, w, line
  <2>3. open \in BOOLEAN /\ line \in Requests \cup {Hello}
    BY <1>1, <1>11 DEF Channel, Lines
  <2> DEFINE v == Handled(w, p, line, open)
  <2>4. /\ Sound(v, asked) /\ v.m.job = p
        /\ v.m.starting = w.m.starting /\ v.m.generation = w.m.generation
        /\ \/ v.m.queue = <<>>
           \/ v.m.queue = w.m.queue /\ (Waiting(v, Hello) <=> Waiting(w, Hello))
        /\ \A o \in Pids : v.procs[o].life = w.procs[o].life
    <3>1. w.m.job = p /\ Sound(w, asked) /\ asked \in Nat
      BY <1>0, <1>2, <1>5, <1>11
    <3>2. line \in Requests \cup {Hello} /\ open \in BOOLEAN
      BY <2>3
    <3> QED
      BY <3>1, <3>2, HandledKeepsTheQueueServed
  <2> HIDE DEF v
  <2>5. Fits(v, installs', faults', asked')
    BY <1>0, <1>2, <1>6, <1>11, <2>2, <2>4
       DEF Fits, InstallerFits, QueueServed, SpawnsFit, Used
  <2> QED
    BY <1>0, <2>1, <2>2, <2>5, StepFits DEF RInv, TypeOK, v
<1> QED
  BY <1>8, <1>9, <1>10, <1>11

\* A process has exited.
LEMMA ExitIsSeen == ASSUME RInv, NEW p \in Pids, Exit(p) PROVE RInv'
<1> DEFINE v == OnExit(World, p)
<1>0. /\ Sound(World, asked) /\ asked \in Nat /\ World.procs[p].life # "none"
      /\ Becomes(v) /\ UNCHANGED <<installs, asked, stops, faults>>
      /\ Fits(World, installs, faults, asked)
  BY DEF RInv, Fits, TypeOK, Exit, Exited
<1>1. Sound(v, asked) /\ Settles(v, World)
  BY <1>0, OnExitSettles
<1> HIDE DEF v
<1>2. InstallerFits(v, installs) /\ SpawnsFit(v, installs, asked)
  BY <1>0, <1>1 DEF Fits, InstallerFits, SpawnsFit, Used, Settles
<1>3. QueueServed(v, installs, faults)
  BY <1>0, <1>1 DEF Fits, QueueServed, Settles, Waiting
<1> QED
  BY <1>0, <1>1, <1>2, <1>3, StepFits DEF Fits, RInv, TypeOK

\* The process itself answers, or dies.
LEMMA ProcessRuns ==
    ASSUME RInv, NEW p \in Pids, Answers(p) \/ Dies(p) PROVE RInv'
<1>0. /\ Sound(World, asked) /\ World \in Worlds /\ asked \in Nat
      /\ World.m = m /\ World.procs = procs /\ World.ran = ran
      /\ procs \in [Pids -> Processes] /\ procs[p] \in Processes
      /\ Fits(World, installs, faults, asked)
  BY DEF RInv, Fits, Sound, World, TypeOK
<1>1. UNCHANGED <<m, installs, ran, asked, stops, faults>>
  BY DEF Answers, Dies
<1> DEFINE v == [m |-> m, procs |-> procs', ran |-> ran]
<1>2. Becomes(v)
  BY <1>1 DEF Becomes
<1>3. /\ procs' \in [Pids -> Processes]
      /\ \A o \in Pids : /\ procs'[o].life = "none" <=> procs[o].life = "none"
                         /\ procs'[o].same = procs[o].same
  <2>1. CASE Answers(p)
    <3>1. /\ procs[p].inbox # <<>>
          /\ procs' = [procs EXCEPT ![p].inbox = Tail(@),
                          ![p].outbox = Append(@, Head(procs[p].inbox))]
      BY <2>1 DEF Answers
    <3> DEFINE next == [procs[p] EXCEPT !.inbox = Tail(@),
                           !.outbox = Append(@, Head(procs[p].inbox))]
    <3>2. /\ Tail(procs[p].inbox) \in Seq(Requests \cup {Hello})
          /\ Head(procs[p].inbox) \in Requests \cup {Hello}
      BY <1>0, <3>1, HeadTailProperties DEF Processes
    <3>3. Append(procs[p].outbox, Head(procs[p].inbox)) \in Seq(Requests \cup {Hello, Torn})
      BY <1>0, <3>2, AppendProperties DEF Processes
    <3>4. next \in Processes /\ next.life = procs[p].life /\ next.same = procs[p].same
      BY <1>0, <3>2, <3>3 DEF Processes
    <3>5. procs' = [procs EXCEPT ![p] = next]
      BY <1>0, <3>1
    <3> HIDE DEF next
    <3> QED
      BY <1>0, <3>4, <3>5
  <2>2. CASE Dies(p)
    <3>1. PICK rest \in {<<>>, <<Torn>>} :
             procs' = [procs EXCEPT ![p].life = "dead", ![p].outbox = @ \o rest]
      BY <2>2 DEF Dies
    <3>2. procs[p].life = "up"
      BY <2>2 DEF Dies
    <3> DEFINE next == [procs[p] EXCEPT !.life = "dead", !.outbox = @ \o rest]
    <3>3. procs[p].outbox \o rest \in Seq(Requests \cup {Hello, Torn})
      <4>1. rest \in Seq(Requests \cup {Hello, Torn})
        <5>1. CASE rest = <<>>
          BY <5>1, EmptySeq
        <5>2. CASE rest = <<Torn>>
          BY <5>2
        <5> QED
          BY <3>1, <5>1, <5>2
      <4> QED
        BY <1>0, <4>1, ConcatProperties DEF Processes
    <3>4. next \in Processes /\ next.life = "dead" /\ next.same = procs[p].same
      BY <1>0, <3>3 DEF Processes
    <3>5. procs' = [procs EXCEPT ![p] = next]
      BY <1>0, <3>1
    <3> HIDE DEF next
    <3> QED
      BY <1>0, <3>2, <3>4, <3>5
  <2> QED
    BY <2>1, <2>2
<1>4. v \in Worlds /\ v.m = World.m /\ v.ran = World.ran /\ v.procs = procs'
  BY <1>0, <1>3, WorldFields DEF Worlds
<1> HIDE DEF v
<1>5. Sound(v, asked) /\ \A r : Waiting(v, r) <=> Waiting(World, r)
  BY <1>0, <1>3, <1>4, SoundIsKept
<1>6. Fits(v, installs', faults', asked')
  BY <1>0, <1>1, <1>3, <1>4, <1>5
     DEF Fits, InstallerFits, QueueServed, SpawnsFit, Used
<1> QED
  BY <1>1, <1>2, <1>6, StepFits DEF RInv, TypeOK

-----------------------------------------------------------------------------
(***************************************************************************)
(* The theorem                                                             *)
(***************************************************************************)
LEMMA RpcStarts == Init => RInv
<1> SUFFICES ASSUME Init PROVE RInv
  OBVIOUS
<1> DEFINE w == World
<1>1. /\ w.m = m /\ w.procs = procs /\ w.ran = ran
      /\ m = [job |-> NoJob, ready |-> FALSE, incompatible |-> FALSE,
              starting |-> FALSE, generation |-> 0, queue |-> <<>>,
              pending |-> {}, buffer |-> FALSE]
      /\ procs = [p \in Pids |-> [life |-> "none", same |-> TRUE,
                                  inbox |-> <<>>, outbox |-> <<>>]]
      /\ installs = <<>> /\ ran = [r \in Requests |-> 0]
      /\ asked = 0 /\ stops = 0 /\ faults = {}
  BY DEF Init, World
<1>2. \A S : <<>> \in Seq(S) /\ Len(<<>>) = 0
  BY EmptySeq
<1>3. [life |-> "none", same |-> TRUE, inbox |-> <<>>, outbox |-> <<>>] \in Processes
  BY <1>2 DEF Processes
<1>4. TypeOK
  BY <1>1, <1>2, <1>3, RpcAssumption DEF TypeOK
<1>5. w \in Worlds
  BY <1>4, WorldIsAWorld
<1> HIDE DEF w
<1>6. \A r : ~Has(w.m.queue, r) /\ ~Waiting(w, r)
  BY <1>1, NothingInHand DEF Waiting
<1>7. Distinct(w.m.queue)
  BY <1>1, <1>2 DEF Distinct
<1>8. Accounted(w, <<>>, 0)
  <2>1. \A r \in Requests : w.ran[r] = 0 /\ ~(r <= 0)
    BY <1>1, Numbers
  <2> QED
    BY <1>1, <1>6, <1>7, <2>1, NothingInHand DEF Accounted
<1>9. Sound(w, 0)
  BY <1>1, <1>5, <1>6, <1>8 DEF Sound, OnCurrentJob, Greeting, Flushed
<1>10. InstallerFits(w, installs) /\ QueueServed(w, installs, faults)
  BY <1>1, ElementsOfQueue, NothingInHand DEF InstallerFits, QueueServed
<1>11. SpawnsFit(w, installs, 0)
  <2>1. Used(w, 0)
    BY <1>1, Numbers DEF Used
  <2>2. 0 + Len(installs) <= 0
    BY <1>1, <1>2
  <2> QED
    BY <2>1, <2>2 DEF SpawnsFit
<1> QED
  BY <1>1, <1>4, <1>9, <1>10, <1>11 DEF RInv, Fits, w

LEMMA RpcSteps == ASSUME RInv, [Next]_vars PROVE RInv'
<1>1. CASE Request
  BY <1>1, RequestIsSentOrRefused, RequestIsQueued, RequestStartsADaemon DEF Request
<1>2. CASE Stop
  BY <1>2, StopFailsWhatWaits
<1>3. CASE InstallEnds
  BY <1>3, InstallerCallsBack
<1>4. ASSUME NEW p \in Pids, Events(p) \/ Answers(p) \/ Dies(p) PROVE RInv'
  BY <1>4, LineIsRead, ExitIsSeen, ProcessRuns DEF Events
<1>5. CASE UNCHANGED vars
  <2>1. Becomes(World) /\ UNCHANGED <<installs, asked, stops, faults>>
    BY <1>5 DEF vars, Becomes, World
  <2> QED
    BY <2>1, StepFits DEF RInv, TypeOK
<1> QED
  BY <1>1, <1>2, <1>3, <1>4, <1>5 DEF Next

\* What is somewhere at most once is counted there as 1.
LEMMA QueueCounts ==
    ASSUME NEW S, NEW q \in Seq(S), Distinct(q), NEW r
    PROVE  Cardinality({i \in 1..Len(q) : q[i] = r}) = IF Has(q, r) THEN 1 ELSE 0
<1> DEFINE at == {i \in 1..Len(q) : q[i] = r}
<1>1. CASE Has(q, r)
  <2>1. PICK i \in 1..Len(q) : q[i] = r
    BY <1>1 DEF Has
  <2>2. at = {i}
    BY <2>1 DEF Distinct
  <2> QED
    BY <1>1, <2>2, FS_Singleton
<1>2. CASE ~Has(q, r)
  <2>1. at = {}
    BY <1>2 DEF Has
  <2> QED
    BY <1>2, <2>1, FS_EmptySet
<1> QED
  BY <1>1, <1>2

LEMMA PendingCounts ==
    ASSUME NEW w, \A x, y \in w.m.pending : x[1] = y[1] => x = y, NEW r
    PROVE  Cardinality({x \in w.m.pending : x[1] = r}) = IF Waiting(w, r) THEN 1 ELSE 0
<1> DEFINE at == {x \in w.m.pending : x[1] = r}
<1>1. CASE Waiting(w, r)
  <2>1. PICK x \in w.m.pending : x[1] = r
    BY <1>1 DEF Waiting
  <2>2. at = {x}
    BY <2>1
  <2> QED
    BY <1>1, <2>2, FS_Singleton
<1>2. CASE ~Waiting(w, r)
  <2>1. at = {}
    BY <1>2 DEF Waiting
  <2> QED
    BY <1>2, <2>1, FS_EmptySet
<1> QED
  BY <1>1, <1>2

LEMMA RInvSays == RInv => NoRequestIsStranded
<1> SUFFICES ASSUME RInv PROVE NoRequestIsStranded
  OBVIOUS
<1>0. /\ TypeOK /\ World.m = m /\ World.procs = procs /\ World.ran = ran
      /\ Accounted(World, <<>>, asked) /\ OnCurrentJob(World)
      /\ Greeting(World) /\ Flushed(World) /\ QueueServed(World, installs, faults)
      /\ m.queue \in Seq(Requests)
  BY DEF RInv, Fits, Sound, World, TypeOK
<1>1. EveryCallbackHasOnePlace
  <2> SUFFICES ASSUME NEW r \in 1..asked PROVE Places(r) = 1
    BY DEF EveryCallbackHasOnePlace
  <2>1. r \in Requests /\ r <= asked
    BY <1>0, Numbers DEF TypeOK, Requests
  <2>2. Cardinality({i \in 1..Len(m.queue) : m.queue[i] = r})
          = IF Has(m.queue, r) THEN 1 ELSE 0
    BY <1>0, QueueCounts DEF Accounted
  <2>3. Cardinality({x \in m.pending : x[1] = r}) = IF Waiting(World, r) THEN 1 ELSE 0
    BY <1>0, PendingCounts DEF Accounted
  <2>4. ~(Has(m.queue, r) /\ Waiting(World, r))
    BY <1>0, <2>1 DEF Accounted
  <2>5. ran[r] = IF ~Has(m.queue, r) /\ ~Waiting(World, r) THEN 1 ELSE 0
    BY <1>0, <2>1, NothingInHand DEF Accounted
  <2> QED
    BY <2>2, <2>3, <2>4, <2>5 DEF Places
<1>2. PendingIsOnTheCurrentJob
  BY <1>0 DEF OnCurrentJob, PendingIsOnTheCurrentJob
<1>3. Waiting(World, Hello) <=> <<Hello, m.job>> \in m.pending
  <2>1. ASSUME NEW x \in m.pending, x[1] = Hello PROVE x = <<Hello, m.job>>
    <3>1. x[2] = m.job
      BY <1>0 DEF OnCurrentJob
    <3>2. x \in (Requests \cup {Hello}) \X Pids
      BY <1>0 DEF TypeOK
    <3> QED
      BY <2>1, <3>1, <3>2
  <2>2. <<Hello, m.job>>[1] = Hello
    OBVIOUS
  <2> QED
    BY <1>0, <2>1, <2>2 DEF Waiting
<1>4. QueueHasAStarter
  BY <1>0, <1>3 DEF QueueServed, QueueHasAStarter
<1>5. ReadyIsTrue
  BY <1>0, <1>3 DEF Greeting, Flushed, ReadyIsTrue
<1> QED
  BY <1>0, <1>1, <1>2, <1>4, <1>5 DEF NoRequestIsStranded

\* No request is stranded: its callback is queued, pending with the current
\* process or run, once, and a queue has somebody who will send or fail it,
\* whatever is stopped, exits, is torn or cannot be installed, for any number
\* of requests and of stops.
THEOREM NoRequestIsEverStranded == Spec => []NoRequestIsStranded
<1>1. Init => RInv
  BY RpcStarts
<1>2. RInv /\ [Next]_vars => RInv'
  BY RpcSteps
<1>3. RInv => NoRequestIsStranded
  BY RInvSays
<1> QED
  BY <1>1, <1>2, <1>3, PTL DEF Spec
=============================================================================

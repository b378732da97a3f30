------------------------- MODULE BackendsWork_proofs --------------------------
(***************************************************************************)
(* Theorems about the persistent agents, for any number of sessions, turns,*)
(* speculations and faults: a prompt leaves out only a context its         *)
(* conversation was given, a cancellation that has returned leaves no      *)
(* cancelled work behind, and a turn gets the answer to its own request.   *)
(***************************************************************************)
EXTENDS Backends_proofs

-----------------------------------------------------------------------------
(***************************************************************************)
(* What conversations know                                                 *)
(***************************************************************************)
\* The holder of a lane asks for a turn of its own.
AsksForTurn(t, l, m) ==
    /\ t \in DOMAIN turns /\ turns[t].lane = l /\ InLane(t) /\ Holds(t, l) /\ ~turns[t].aborted
    /\ m.do = "start" /\ m.run = OwnRun(t) /\ m.session = turns[t].session
    /\ m.ctx = turns[t].ctx
    /\ adapter = "codex" =>
          \E x \in lanes'[l].threads : x.thread = m.thread /\ x.key = ThreadKey(turns[t])
    /\ adapter # "codex" => m.thread = NoRun

\* The holder of a lane learns of its thread.
LearnsThread(t, l) ==
    /\ t \in DOMAIN turns /\ turns[t].lane = l /\ Holds(t, l) /\ turns[t].pc = "thread"
    /\ adapter = "codex"

\* What there is in a lane was there before, or comes from its holder.
FromBefore(l) ==
    LET K == lanes'[l]
        L == lanes[l] IN
    /\ \A i \in DOMAIN K.wire :
          \/ \E j \in DOMAIN L.wire : K.wire[i] = L.wire[j]
          \/ K.wire[i].do # "start"
          \/ \E t \in DOMAIN turns : AsksForTurn(t, l, K.wire[i])
    /\ \A x \in K.threads :
          x \in L.threads \/ \E t \in DOMAIN turns : LearnsThread(t, l) /\ x = OwnThread(t)
    /\ \A u \in K.users :
          u \in L.users \/ \E j \in DOMAIN L.wire :
             L.wire[j].do = "start" /\ u = <<L.wire[j].thread, L.wire[j].session>>

LEMMA AppendedFrom ==
    ASSUME NEW S, NEW s \in Seq(S), NEW x \in S
    PROVE  \A i \in DOMAIN Append(s, x) :
              (\E j \in DOMAIN s : Append(s, x)[i] = s[j]) \/ Append(s, x)[i] = x
<1>1. /\ Len(s) \in Nat /\ DOMAIN s = 1 .. Len(s) /\ DOMAIN Append(s, x) = 1 .. Len(s) + 1
      /\ Append(s, x)[Len(s) + 1] = x /\ \A i \in DOMAIN s : Append(s, x)[i] = s[i]
  BY AppendedProperties
<1>2. \A i \in DOMAIN Append(s, x) : i \in DOMAIN s \/ i = Len(s) + 1
  BY <1>1
<1> QED
  BY <1>1, <1>2

LEMMA TailFrom ==
    ASSUME NEW S, NEW s \in Seq(S), s # <<>>
    PROVE  \A i \in DOMAIN Tail(s) : \E j \in DOMAIN s : Tail(s)[i] = s[j]
BY TailProperties

\* A message is written: what is on the wire then.
LEMMA WrittenFrom ==
    ASSUME NEW w, NEW s \in Seq(Requests), NEW m \in Requests, w = s \/ w = Append(s, m)
    PROVE  \A i \in DOMAIN w : (\E j \in DOMAIN s : w[i] = s[j]) \/ w[i] = m
<1>1. CASE w = s
  BY <1>1
<1>2. CASE w = Append(s, m)
  BY <1>2, AppendedFrom
<1> QED
  BY <1>1, <1>2

LEMMA OnlyFrom ==
    ASSUME NEW m \in Requests
    PROVE  \A i \in DOMAIN Append(<<>>, m) : Append(<<>>, m)[i] = m
<1>1. <<>> \in Seq(Requests) /\ DOMAIN <<>> = {}
  BY EmptySeq
<1> QED
  BY <1>1, AppendedFrom

LEMMA RequestIsOne ==
    ASSUME NEW do \in {"initialize", "models", "thread", "interrupt"}, NEW t, NEW attempt,
           Run(t, attempt) \in Runs
    PROVE  /\ Request(do, t, attempt) \in Requests /\ Request(do, t, attempt).do = do
           /\ Request(do, t, attempt).run = Run(t, attempt)
BY DEF Request, Requests

LEMMA StartsWithIts ==
    ASSUME Types, NEW t \in DOMAIN turns, NEW thread \in Runs, NEW omits \in BOOLEAN
    PROVE  LET m == StartTurn(t, turns[t], thread, omits) IN
           /\ m \in Requests /\ m.do = "start" /\ m.run = OwnRun(t) /\ m.session = turns[t].session
           /\ m.ctx = turns[t].ctx /\ m.thread = thread /\ m.omits = omits
<1>1. turns[t] \in TurnRecords /\ OwnRun(t) \in Runs
  BY TurnIsKnown, OwnRunType
<1> QED
  BY <1>1 DEF StartTurn, Requests, TurnRecords, OwnRun

LEMMA ContentsFrom ==
    ASSUME Types, Types', NEW l \in Lanes, LaneInOrder(lanes[l]), LaneStep(l)
    PROVE  FromBefore(l)
<1> DEFINE K == lanes'[l]
           L == lanes[l]
           old(i) == \E j \in DOMAIN L.wire : K.wire[i] = L.wire[j]
           wire == \A i \in DOMAIN K.wire : old(i) \/ K.wire[i].do # "start"
                      \/ \E t \in DOMAIN turns : AsksForTurn(t, l, K.wire[i])
           threads == \A x \in K.threads : x \in L.threads
                         \/ \E t \in DOMAIN turns : LearnsThread(t, l) /\ x = OwnThread(t)
           users == \A u \in K.users : u \in L.users \/ \E j \in DOMAIN L.wire :
                       L.wire[j].do = "start" /\ u = <<L.wire[j].thread, L.wire[j].session>>
<1>1. /\ L.wire \in Seq(Requests) /\ L.active.run \in Runs
  BY LaneFields DEF LaneRecords
<1>2. DOMAIN <<>> = {}
  BY EmptySeq
<1>3. \A x \in K.threads : x.thread \in Runs
  BY DEF Types, LaneRecords, ThreadRecords
<1> SUFFICES wire /\ threads /\ users
  BY DEF FromBefore
<1> HIDE DEF K, L
<1>11. ASSUME NEW m \in Requests, Writes(K, L, m)
       PROVE  \A i \in DOMAIN K.wire : old(i) \/ K.wire[i] = m
  <2>1. \A i \in DOMAIN K.wire : (\E j \in DOMAIN L.wire : K.wire[i] = L.wire[j]) \/ K.wire[i] = m
    <3>1. L.wire \in Seq(Requests) /\ (K.wire = L.wire \/ K.wire = Append(L.wire, m))
      BY <1>1, <1>11 DEF Writes
    <3> QED
      BY <3>1, WrittenFrom
  <2> QED
    BY <2>1
<1>4. CASE SameWork(K, L)
  BY <1>4 DEF SameWork
<1>5. CASE Quits(K) \/ Loses(K, L)
  BY <1>2, <1>5 DEF Quits, Bare, Loses
<1>6. CASE Hears(K, L)
  BY <1>6 DEF Hears
<1>7. CASE Wakes(K, L)
  BY <1>2, <1>7 DEF Wakes, Bare
<1>8. CASE Interrupts(K, L)
  <2> DEFINE m == [do |-> "interrupt", run |-> L.active.run]
  <2>1. m \in Requests /\ m.do # "start" /\ Writes(K, L, m)
    BY <1>1, <1>8 DEF Requests, Interrupts
  <2> HIDE DEF m
  <2>2. wire
    BY <1>11, <2>1
  <2> QED
    BY <1>8, <2>2 DEF Interrupts, Writes
<1>9. CASE AgentSteps(K, L)
  <2>1. threads
    BY <1>9 DEF AgentSteps, SamePlace
  <2>2. K.wire = L.wire \/ K.wire = <<>> \/ (L.wire # <<>> /\ K.wire = Tail(L.wire))
    BY <1>9 DEF AgentSteps, Answered, TakesTurn, Refuses, IsInterrupted, Finishes, Crashes, Garbles
  <2>3. wire
    <3>1. CASE K.wire = L.wire \/ K.wire = <<>>
      BY <1>2, <3>1
    <3>2. CASE L.wire # <<>> /\ K.wire = Tail(L.wire)
      BY <1>1, <3>2, TailFrom
    <3> QED
      BY <2>2, <3>1, <3>2
  <2>4. users
    <3>1. CASE K.users = L.users
      BY <3>1
    <3>2. CASE TakesTurn(K, L)
      <4>1. 1 \in DOMAIN L.wire /\ Head(L.wire) = L.wire[1]
        BY <1>1, <3>2, TailProperties DEF TakesTurn
      <4> QED
        BY <3>2, <4>1 DEF TakesTurn
    <3> QED
      BY <1>9, <3>1, <3>2 DEF AgentSteps, Answered, Refuses, IsInterrupted, Finishes, Crashes, Garbles
  <2> QED
    BY <2>1, <2>3, <2>4
<1>10. ASSUME NEW t \in DOMAIN turns, turns[t].lane = l, InLane(t), Holds(t, l),
              ~turns[t].aborted, OwnerSteps(t, K, L)
       PROVE  wire /\ threads /\ users
  <2>1. turns[t].attempt \in {1, 2} /\ Run(t, 1) \in Runs /\ OwnRun(t) \in Runs
    BY TurnIsKnown, OwnRunType DEF TurnRecords
  <2>2. \A attempt \in {1, 2} : Run(t, attempt) \in Runs
    <3>1. t \in 0 .. MaxTurns
      BY OwnRunType DEF Cancellers
    <3> QED
      BY <3>1 DEF Run, Runs
  <2>3. CASE Opens(t, K, L)
    <3> DEFINE m == Request("initialize", t, turns[t].attempt)
    <3>1. m \in Requests /\ m.do # "start"
      BY <2>1, <2>2, RequestIsOne
    <3> HIDE DEF m
    <3>2. \A i \in DOMAIN K.wire : K.wire[i] = m
      BY <2>3, <3>1, OnlyFrom DEF Opens, m
    <3> QED
      BY <2>3, <3>1, <3>2 DEF Opens
  <2>4. CASE \E do \in {"models", "thread"} : AsksFor(do, t, K, L)
    <3>1. PICK do \in {"models", "thread"}, attempt \in {1, 2} :
             AsksFor(do, t, K, L) /\ Writes(K, L, Request(do, t, attempt))
      BY <2>4 DEF AsksFor
    <3> DEFINE m == Request(do, t, attempt)
    <3>2. m \in Requests /\ m.do # "start"
      BY <2>2, RequestIsOne
    <3>3. Writes(K, L, m)
      BY <3>1
    <3> HIDE DEF m
    <3>4. wire
      BY <1>11, <3>2, <3>3
    <3>5. threads
      BY <1>10, <3>1 DEF AsksFor, Learns, LearnsThread
    <3>6. users
      BY <3>1 DEF AsksFor, Writes
    <3> QED
      BY <3>4, <3>5, <3>6
  <2>5. CASE StartsTurn(t, K, L)
    <3>1. PICK x \in K.threads : /\ x.key = ThreadKey(turns[t])
             /\ Writes(K, L, StartTurn(t, turns[t], x.thread, <<x.thread, turns[t].ctx>> \in L.prints))
      BY <2>5 DEF StartsTurn
    <3> DEFINE m == StartTurn(t, turns[t], x.thread, <<x.thread, turns[t].ctx>> \in L.prints)
    <3>2. /\ m \in Requests /\ m.do = "start" /\ m.run = OwnRun(t) /\ m.session = turns[t].session
          /\ m.ctx = turns[t].ctx /\ m.thread = x.thread
      <4>1. PICK omits \in BOOLEAN : omits = (<<x.thread, turns[t].ctx>> \in L.prints)
        <5>1. (<<x.thread, turns[t].ctx>> \in L.prints) \in BOOLEAN
          OBVIOUS
        <5> QED
          BY <5>1, Zenon
      <4>2. m = StartTurn(t, turns[t], x.thread, omits)
        BY <4>1
      <4> HIDE DEF m
      <4> QED
        BY <1>3, <4>2, StartsWithIts
    <3>3. Writes(K, L, m)
      BY <3>1
    <3> HIDE DEF m
    <3>4. AsksForTurn(t, l, m)
      BY <1>10, <2>5, <3>1, <3>2 DEF AsksForTurn, StartsTurn, K
    <3>5. wire
      <4>1. \A i \in DOMAIN K.wire : old(i) \/ K.wire[i] = m
        BY <1>11, <3>2, <3>3
      <4> QED
        BY <3>4, <4>1
    <3>6. threads
      BY <1>10, <2>5 DEF StartsTurn, Learns, LearnsThread
    <3>7. users
      BY <3>3 DEF Writes
    <3> QED
      BY <3>5, <3>6, <3>7
  <2>6. CASE StartsReading(t, K, L)
    BY <2>6 DEF StartsReading
  <2>7. CASE StreamsTurn(t, K, L)
    <3>1. PICK omits \in BOOLEAN :
             \/ Writes(K, L, StartTurn(t, turns[t], NoRun, omits))
             \/ K.wire = Append(<<>>, StartTurn(t, turns[t], NoRun, omits)) /\ K.users = {}
      <4>1. PICK o \in BOOLEAN : o = (adapter = "claude" /\ <<NoRun, turns[t].ctx>> \in L.prints)
        OBVIOUS
      <4>2. \/ Writes(K, L, StartTurn(t, turns[t], NoRun, o))
            \/ K.wire = Append(<<>>, StartTurn(t, turns[t], NoRun, FALSE)) /\ K.users = {}
        BY <2>7, <4>1 DEF StreamsTurn
      <4> QED
        BY <4>2
    <3> DEFINE m == StartTurn(t, turns[t], NoRun, omits)
    <3>2. /\ m \in Requests /\ m.do = "start" /\ m.run = OwnRun(t) /\ m.session = turns[t].session
          /\ m.ctx = turns[t].ctx /\ m.thread = NoRun
      BY NoRunIsARun, StartsWithIts
    <3>3. Writes(K, L, m) \/ (K.wire = Append(<<>>, m) /\ K.users = {})
      BY <3>1
    <3> HIDE DEF m
    <3>4. AsksForTurn(t, l, m)
      BY <1>10, <2>7, <3>2 DEF AsksForTurn, StreamsTurn
    <3>5. \A i \in DOMAIN K.wire : old(i) \/ K.wire[i] = m
      <4>1. CASE Writes(K, L, m)
        BY <1>11, <3>2, <4>1
      <4>2. CASE K.wire = Append(<<>>, m)
        <5>1. \A i \in DOMAIN Append(<<>>, m) : Append(<<>>, m)[i] = m
          BY <3>2, OnlyFrom
        <5> QED
          BY <4>2, <5>1
      <4> QED
        BY <3>3, <4>1, <4>2
    <3>6. wire
      BY <3>2, <3>4, <3>5
    <3>7. threads
      BY <2>7 DEF StreamsTurn
    <3>8. users
      BY <3>3 DEF Writes
    <3> QED
      BY <3>6, <3>7, <3>8
  <2> QED
    BY <1>10, <2>3, <2>4, <2>5, <2>6, <2>7 DEF OwnerSteps
<1> QED
  BY <1>4, <1>5, <1>6, <1>7, <1>8, <1>9, <1>10 DEF LaneStep, K, L

\* Thread x is the session's, as a turn of it has opened it.
ThreadOf(ts, x, s) == x[1] \in DOMAIN ts /\ s = ts[x[1]].session

\* codex_app's threads, and what was asked in them, are of the sessions they were opened for.
OwnThreads(ts, L) ==
    /\ \A x \in L.threads : ThreadOf(ts, x.thread, x.key[1])
    /\ \A u \in L.users : ThreadOf(ts, u[1], u[2])
    /\ \A i \in DOMAIN L.wire : L.wire[i].do = "start" =>
          ThreadOf(ts, L.wire[i].thread, L.wire[i].session)
CodexOwn == adapter = "codex" => \A l \in Lanes : OwnThreads(turns, lanes[l])

LEMMA ThreadsStayOwn ==
    ASSUME InOrder, CodexOwn, TurnsKept, adapter = "codex", NEW l \in Lanes, FromBefore(l)
    PROVE  OwnThreads(turns, lanes'[l])
<1> DEFINE K == lanes'[l]
           L == lanes[l]
<1>1. OwnThreads(turns, L)
  BY DEF CodexOwn
<1>2. ASSUME NEW x \in K.threads PROVE ThreadOf(turns, x.thread, x.key[1])
  <2>1. CASE x \in L.threads
    BY <1>1, <2>1 DEF OwnThreads
  <2>2. CASE \E t \in DOMAIN turns : x = OwnThread(t)
    <3>1. PICK t \in DOMAIN turns : x = OwnThread(t)
      BY <2>2
    <3>2. x.thread = OwnRun(t) /\ x.key = ThreadKey(turns[t])
      BY <3>1 DEF OwnThread
    <3> QED
      BY <3>2, OwnRunType DEF InOrder, ThreadOf, ThreadKey
  <2> QED
    BY <1>2, <2>1, <2>2 DEF FromBefore
<1>3. ASSUME NEW u \in K.users PROVE ThreadOf(turns, u[1], u[2])
  <2>1. CASE u \in L.users
    BY <1>1, <2>1 DEF OwnThreads
  <2>2. CASE \E j \in DOMAIN L.wire : L.wire[j].do = "start" /\ u = <<L.wire[j].thread, L.wire[j].session>>
    BY <1>1, <2>2 DEF OwnThreads
  <2> QED
    BY <1>3, <2>1, <2>2 DEF FromBefore
<1>4. ASSUME NEW i \in DOMAIN K.wire, K.wire[i].do = "start"
      PROVE  ThreadOf(turns, K.wire[i].thread, K.wire[i].session)
  <2>1. CASE \E j \in DOMAIN L.wire : K.wire[i] = L.wire[j]
    BY <1>1, <1>4, <2>1 DEF OwnThreads
  <2>2. CASE \E t \in DOMAIN turns : AsksForTurn(t, l, K.wire[i])
    <3>1. PICK t \in DOMAIN turns : AsksForTurn(t, l, K.wire[i])
      BY <2>2
    <3>2. PICK x \in K.threads : x.thread = K.wire[i].thread /\ x.key = ThreadKey(turns[t])
      BY <3>1 DEF AsksForTurn
    <3>3. K.wire[i].session = turns[t].session
      BY <3>1 DEF AsksForTurn
    <3>4. ThreadOf(turns, x.thread, x.key[1])
      BY <1>2
    <3> QED
      BY <3>2, <3>3, <3>4 DEF ThreadKey
  <2> QED
    BY <1>4, <2>1, <2>2 DEF FromBefore
<1> QED
  BY <1>2, <1>3, <1>4 DEF OwnThreads

LEMMA OwnThreadsKept ==
    ASSUME TurnsKept, NEW L, OwnThreads(turns, L)
    PROVE  OwnThreads(turns', L)
<1>1. \A x, s : ThreadOf(turns, x, s) => ThreadOf(turns', x, s)
  BY DEF TurnsKept, ThreadOf
<1> QED
  BY <1>1 DEF OwnThreads

LEMMA CodexOwnStays ==
    ASSUME InOrder, StepForm, Types', CodexOwn
    PROVE  CodexOwn'
<1>1. TurnsKept /\ adapter' = adapter
  BY StepsKeep DEF InOrder, Places, TurnsKept
<1>2. ASSUME adapter = "codex", NEW l \in Lanes PROVE OwnThreads(turns', lanes'[l])
  <2>1. FromBefore(l)
    BY LaneSteps, ContentsFrom DEF InOrder, LanesInOrder, LaneInOrder
  <2>2. OwnThreads(turns, lanes'[l])
    BY <1>1, <1>2, <2>1, ThreadsStayOwn
  <2>3. PICK K : K = lanes'[l]
    OBVIOUS
  <2> QED
    BY <1>1, <2>2, <2>3, OwnThreadsKept
<1> QED
  BY <1>1, <1>2 DEF CodexOwn

-----------------------------------------------------------------------------
\* A conversation has one thread, and a turn asks for one when there is none.
OneThread ==
    /\ \A l \in Lanes : \A x, y \in lanes[l].threads : x.key = y.key => x = y
    /\ \A t \in DOMAIN turns : adapter = "codex" /\ turns[t].pc = "thread" =>
          \A x \in lanes[turns[t].lane].threads : x.key # ThreadKey(turns[t])

LEMMA ThreadsDiffer ==
    ASSUME InOrder, OneThread, NEW l \in Lanes, FromBefore(l)
    PROVE  \A x, y \in lanes'[l].threads : x.key = y.key => x = y
<1> DEFINE K == lanes'[l]
           L == lanes[l]
<1>1. ASSUME NEW t \in DOMAIN turns, LearnsThread(t, l), NEW x \in L.threads
      PROVE  x.key # OwnThread(t).key
  BY <1>1 DEF LearnsThread, OneThread, OwnThread
<1>2. ASSUME NEW t \in DOMAIN turns, LearnsThread(t, l), NEW u \in DOMAIN turns, LearnsThread(u, l)
      PROVE  t = u
  BY <1>2 DEF LearnsThread, Holds
<1>3. \A x \in K.threads :
         x \in L.threads \/ \E t \in DOMAIN turns : LearnsThread(t, l) /\ x = OwnThread(t)
  BY DEF FromBefore
<1>4. \A x, y \in L.threads : x.key = y.key => x = y
  BY DEF OneThread
<1> HIDE DEF K, L
<1>5. \A x, y \in K.threads : x.key = y.key => x = y
  BY <1>1, <1>2, <1>3, <1>4
<1> QED
  BY <1>5 DEF K

\* What the steps that are not the lane's holder's do to threads.
LEMMA FewerThreads ==
    ASSUME NEW K, NEW L, SameWork(K, L) \/ Quits(K) \/ Loses(K, L) \/ Hears(K, L)
               \/ Wakes(K, L) \/ Interrupts(K, L) \/ AgentSteps(K, L)
    PROVE  K.threads \subseteq L.threads
BY DEF SameWork, Quits, Loses, Hears, Wakes, Interrupts, AgentSteps, SamePlace

LEMMA AskingTurn ==
    ASSUME InOrder, StepForm, NEW t \in DOMAIN turns', turns'[t].pc = "thread"
    PROVE  /\ t \in DOMAIN turns
           /\ \/ /\ turns[t].pc = "thread" /\ turns'[t].lane = turns[t].lane
                 /\ lanes'[turns[t].lane].threads \subseteq lanes[turns[t].lane].threads
              \/ \A x \in lanes'[turns'[t].lane].threads : x.key # ThreadKey(turns'[t])
<1> DEFINE l == turns[t].lane
           Fewer == lanes'[l].threads \subseteq lanes[l].threads
           Still == turns[t].pc = "thread" /\ turns'[t].lane = turns[t].lane
           New == \A x \in lanes'[turns'[t].lane].threads : x.key # ThreadKey(turns'[t])
<1>0. ASSUME turns[t].pc = "thread", t \in DOMAIN turns
      PROVE  l \in Lanes /\ Holds(t, l)
  BY <1>0 DEF InOrder, Places, TurnsInOrder, InLane, Busy
<1> SUFFICES t \in DOMAIN turns /\ ((Still /\ Fewer) \/ New)
  OBVIOUS
<1>1. CASE \E a, new : Calling(a, new)
  <2>1. PICK a, new : Calling(a, new)
    BY <1>1
  <2>2. t \in DOMAIN turns
    <3>1. CASE t \in new
      BY <2>1, <3>1 DEF Calling, Adds
    <3> QED
      BY <2>1, <3>1, CallingKeeps, ZenonT(30) DEF InOrder
  <2> QED
    BY <2>1, <2>2, CallingKeeps DEF InOrder
<1>2. CASE \E f \in Lanes : WarmMoves(f)
  <2>1. t \in DOMAIN turns /\ Still /\ l \in Lanes
    BY <1>0, <1>2 DEF WarmMoves
  <2> QED
    BY <1>2, <2>1, FewerThreads DEF WarmMoves
<1>3. CASE \E u \in DOMAIN turns : AwaitMoves(u) /\ ~turns[u].aborted
  BY <1>3 DEF AwaitMoves
<1>4. CASE \E u \in DOMAIN turns : DropMoves(u)
  <2>1. t \in DOMAIN turns /\ Still /\ l \in Lanes
    BY <1>0, <1>4 DEF DropMoves, MovesTo
  <2>2. lanes'[l].threads = lanes[l].threads \/ lanes'[l] = EmptyLane
    BY <1>4, <2>1 DEF DropMoves, SameWork
  <2> QED
    BY <2>1, <2>2 DEF EmptyLane
<1>5. CASE \E u \in DOMAIN turns, k \in Lanes : EnterMoves(u, k) /\ ~turns[u].aborted
  <2>1. PICK u \in DOMAIN turns, k \in Lanes : EnterMoves(u, k) /\ ~turns[u].aborted
    BY <1>5
  <2>2. t \in DOMAIN turns /\ Still /\ l \in Lanes
    BY <1>0, <2>1 DEF EnterMoves, EntersLane
  <2>3. lanes'[l] = lanes[l] \/ lanes'[l] = EmptyLane \/ SameWork(lanes'[l], lanes[l])
    <3>1. CASE l = k
      BY <2>1, <3>1 DEF EnterMoves, EntersLane
    <3>2. CASE l # k
      <4>1. adapter \in {"codex", "claude", "stdio"}
        BY BackendsAssumption DEF InOrder, Types
      <4> QED
        BY <2>1, <2>2, <3>2, <4>1 DEF EnterMoves
    <3> QED
      BY <3>1, <3>2
  <2> QED
    BY <2>2, <2>3 DEF EmptyLane, SameWork
<1>6. ASSUME NEW u \in DOMAIN turns, BusyForm(u)
      PROVE  t \in DOMAIN turns /\ ((Still /\ Fewer) \/ New)
  <2>0. TurnForm(u) /\ \A m \in Lanes : m # turns[u].lane => lanes'[m] = lanes[m]
    BY <1>6 DEF BusyForm, TurnMoves
  <2>1. t \in DOMAIN turns
    <3>1. turns' = turns \/ \E pc, attempt, answer : MovesTo(u, pc, attempt, answer)
      BY <2>0 DEF TurnForm
    <3> QED
      BY <3>1 DEF MovesTo
  <2>2. CASE u # t
    <3>1. turns'[t] = turns[t]
      <4>1. turns' = turns \/ \E pc, attempt, answer : MovesTo(u, pc, attempt, answer)
        BY <2>0 DEF TurnForm
      <4> QED
        BY <2>1, <2>2, <4>1 DEF MovesTo
    <3>2. Still /\ l \in Lanes /\ Holds(t, l)
      BY <1>0, <2>1, <3>1
    <3>3. l # turns[u].lane
      BY <1>6, <2>2, <3>2 DEF BusyForm, Holds
    <3> QED
      BY <2>0, <2>1, <3>2, <3>3
  <2>3. CASE u = t
    <3> DEFINE K == lanes'[l]
               L == lanes[l]
    <3>1. CASE turns' = turns /\ Hears(K, L)
      BY <2>1, <3>1 DEF Hears
    <3>2. CASE MovesTo(t, "thread", turns[t].attempt, turns[t].answer) /\ AsksFor("thread", t, K, L)
      BY <2>1, <3>2 DEF MovesTo, AsksFor, ThreadKey
    <3>3. \/ turns' = turns /\ Hears(K, L)
          \/ MovesTo(t, "thread", turns[t].attempt, turns[t].answer) /\ AsksFor("thread", t, K, L)
      <4>1. ASSUME NEW pc, NEW attempt, NEW answer, MovesTo(t, pc, attempt, answer), pc # "thread"
            PROVE  FALSE
        BY <4>1 DEF MovesTo
      <4> QED
        BY <2>0, <2>3, <4>1 DEF TurnForm
    <3> QED
      BY <3>1, <3>2, <3>3
  <2> QED
    BY <2>2, <2>3
<1>7. ASSUME NEW c \in Cancellers, CancelForm(c)
      PROVE  t \in DOMAIN turns /\ ((Still /\ Fewer) \/ New)
  <2>1. t \in DOMAIN turns /\ turns'[t] = turns[t]
    <3>1. turns' = turns \/ CancelEnds(c)
      BY <1>7 DEF CancelForm, CancelMoves, CancelAtLane, CancelPasses, CancelStaysAt
    <3> QED
      BY <3>1 DEF CancelEnds, MovesTo
  <2>2. Still /\ l \in Lanes
    BY <1>0, <2>1
  <2>3. lanes' = lanes \/ CancelAtLane(c)
    BY <1>7 DEF CancelForm, CancelMoves
  <2>4. CASE CancelAtLane(c)
    <3>1. \/ lanes'[l] = lanes[l] \/ SameWork(lanes'[l], lanes[l]) \/ Quits(lanes'[l])
          \/ Hears(lanes'[l], lanes[l]) \/ Interrupts(lanes'[l], lanes[l])
      BY <2>2, <2>4 DEF CancelAtLane
    <3>2. CASE lanes'[l] = lanes[l]
      BY <2>1, <2>2, <3>2
    <3>3. CASE ~(lanes'[l] = lanes[l])
      <4>1. Fewer
        BY <3>1, <3>3, FewerThreads
      <4> QED
        BY <2>1, <2>2, <4>1
    <3> QED
      BY <3>2, <3>3
  <2> QED
    BY <2>1, <2>2, <2>3, <2>4
<1>8. CASE \E k \in Lanes : AgentForm(k)
  <2>1. t \in DOMAIN turns /\ Still /\ l \in Lanes
    BY <1>0, <1>8 DEF AgentForm
  <2>2. lanes'[l] = lanes[l] \/ AgentSteps(lanes'[l], lanes[l])
    BY <1>8, <2>1 DEF AgentForm
  <2>3. Fewer
    BY <2>2, FewerThreads
  <2> QED
    BY <2>1, <2>3
<1> QED
  BY <1>1, <1>2, <1>3, <1>4, <1>5, <1>6, <1>7, <1>8 DEF StepForm, OtherForm

LEMMA OneThreadStays ==
    ASSUME InOrder, StepForm, Types', OneThread
    PROVE  OneThread'
<1>1. TurnsKept /\ adapter' = adapter
  BY StepsKeep DEF InOrder, Places, TurnsKept
<1>2. ASSUME NEW l \in Lanes
      PROVE  \A x, y \in lanes'[l].threads : x.key = y.key => x = y
  <2>1. FromBefore(l)
    BY LaneSteps, ContentsFrom DEF InOrder, LanesInOrder, LaneInOrder
  <2> QED
    BY <2>1, ThreadsDiffer
<1>3. ASSUME NEW t \in DOMAIN turns', adapter = "codex", turns'[t].pc = "thread"
      PROVE  \A x \in lanes'[turns'[t].lane].threads : x.key # ThreadKey(turns'[t])
  <2>1. CASE /\ t \in DOMAIN turns /\ turns[t].pc = "thread" /\ turns'[t].lane = turns[t].lane
             /\ lanes'[turns[t].lane].threads \subseteq lanes[turns[t].lane].threads
    <3>1. ThreadKey(turns'[t]) = ThreadKey(turns[t])
      BY <1>1, <2>1 DEF TurnsKept, ThreadKey
    <3> QED
      BY <1>3, <2>1, <3>1 DEF OneThread
  <2> QED
    BY <1>3, <2>1, AskingTurn
<1> QED
  BY <1>1, <1>2, <1>3 DEF OneThread

-----------------------------------------------------------------------------
\* Message j gives the thread its last context before i; or the process knows it.
LastGiven(w, th, i, j) ==
    /\ j \in 1 .. i - 1 /\ Gives(w[j], th)
    /\ \A k \in 1 .. i - 1 : k > j => ~Gives(w[k], th)
NoneGiven(w, th, i) == \A k \in 1 .. i - 1 : ~Gives(w[k], th)
Knows(L, th) == {k[2] : k \in {k \in L.known : k[1] = th}}

LastIs(L, th, i) ==
    /\ NoneGiven(L.wire, th, i) => LastContext(L, th, i) = Knows(L, th)
    /\ \A j \in 1 .. i - 1 : LastGiven(L.wire, th, i, j) => LastContext(L, th, i) = {L.wire[j].ctx}
    /\ NoneGiven(L.wire, th, i) \/ \E j \in 1 .. i - 1 : LastGiven(L.wire, th, i, j)

LEMMA LastContexts ==
    ASSUME NEW L, NEW th
    PROVE  \A i \in Nat : LastIs(L, th, i)
<1> SUFFICES ASSUME NEW i \in Nat PROVE LastIs(L, th, i)
  OBVIOUS
<1> DEFINE given == {j \in 1 .. i - 1 : Gives(L.wire[j], th)}
<1>1. LastContext(L, th, i) =
        IF given # {} THEN {L.wire[Max(given)].ctx} ELSE Knows(L, th)
  BY DEF LastContext, Knows
<1>2. given = {} <=> NoneGiven(L.wire, th, i)
  BY DEF NoneGiven
<1>3. ASSUME given # {}
      PROVE  Max(given) \in given /\ \A y \in given : Max(given) >= y
  <2>1. i - 1 \in Nat /\ given \subseteq 1 .. i - 1
    BY <1>3
  <2>2. PICK n \in Nat : n = i - 1
    BY <2>1
  <2>3. given \subseteq 1 .. n
    BY <2>1, <2>2
  <2> HIDE DEF given
  <2> QED
    BY <1>3, <2>3, MaxIsIn
<1>4. \A j : LastGiven(L.wire, th, i, j) => j \in given
  BY DEF LastGiven
<1>5. \A y \in given : y \in 1 .. i - 1 /\ Gives(L.wire[y], th)
  OBVIOUS
<1>6. \A y \in 1 .. i - 1 : Gives(L.wire[y], th) => y \in given
  OBVIOUS
<1> HIDE DEF given
<1>7. ASSUME NEW j, LastGiven(L.wire, th, i, j)
      PROVE  LastContext(L, th, i) = {L.wire[j].ctx}
  <2>1. j \in given /\ given # {}
    BY <1>4, <1>7
  <2>2. Max(given) \in given /\ Max(given) >= j
    BY <1>3, <2>1
  <2>3. ~(Max(given) > j)
    BY <1>5, <1>7, <2>2 DEF LastGiven
  <2>4. Max(given) = j
    BY <1>5, <2>1, <2>2, <2>3
  <2> QED
    BY <1>1, <2>1, <2>4
<1>8. ASSUME given # {} PROVE \E j \in 1 .. i - 1 : LastGiven(L.wire, th, i, j)
  <2>1. Max(given) \in given /\ \A y \in given : Max(given) >= y
    BY <1>3, <1>8
  <2>2. PICK j \in given : \A y \in given : j >= y
    BY <2>1
  <2>3. LastGiven(L.wire, th, i, j)
    BY <1>5, <1>6, <2>2 DEF LastGiven
  <2> QED
    BY <1>5, <2>2, <2>3
<1> QED
  BY <1>1, <1>2, <1>7, <1>8 DEF LastIs

LEMMA ToldIsKnown ==
    ASSUME NEW K, NEW known, NEW th, NEW x, K.known = Told(known, th, x)
    PROVE  Knows(K, th) = {x}
<1>1. \A k \in K.known : k[1] = th => k = <<th, x>>
  BY DEF Told
<1>2. <<th, x>> \in K.known /\ <<th, x>>[1] = th /\ <<th, x>>[2] = x
  BY DEF Told
<1>3. {k \in K.known : k[1] = th} = {<<th, x>>}
  BY <1>1, <1>2
<1> QED
  BY <1>2, <1>3 DEF Knows

LEMMA SameLast ==
    ASSUME NEW K, NEW L, K.wire = L.wire, K.known = L.known
    PROVE  \A th, i : LastContext(K, th, i) = LastContext(L, th, i)
BY DEF LastContext

\* One more message is written.
WrittenLast(K, L, m, th) ==
    /\ \A i \in 1 .. Len(L.wire) + 1 : LastContext(K, th, i) = LastContext(L, th, i)
    /\ Gives(m, th) => LastContext(K, th, Len(K.wire) + 1) = {m.ctx}
    /\ ~Gives(m, th) =>
          LastContext(K, th, Len(K.wire) + 1) = LastContext(L, th, Len(L.wire) + 1)

LEMMA LastWritten ==
    ASSUME NEW K, NEW L, L.wire \in Seq(Requests), NEW m \in Requests,
           K.wire = Append(L.wire, m), K.known = L.known
    PROVE  \A th : WrittenLast(K, L, m, th)
<1> SUFFICES ASSUME NEW th PROVE WrittenLast(K, L, m, th)
  OBVIOUS
<1>1. /\ Len(L.wire) \in Nat /\ Len(K.wire) = Len(L.wire) + 1
      /\ K.wire[Len(L.wire) + 1] = m /\ \A j \in 1 .. Len(L.wire) : K.wire[j] = L.wire[j]
  BY AppendedProperties
<1>2. PICK n \in Nat : n = Len(L.wire)
  BY <1>1
<1>0. \A i \in Nat : LastIs(K, th, i) /\ LastIs(L, th, i)
  BY LastContexts
<1>3. Knows(K, th) = Knows(L, th)
  BY DEF Knows
<1>4. ASSUME NEW i \in 1 .. n + 1
      PROVE  LastContext(K, th, i) = LastContext(L, th, i)
  <2>0. i \in Nat /\ LastIs(K, th, i) /\ LastIs(L, th, i)
    BY <1>0
  <2>1. \A j \in 1 .. i - 1 : K.wire[j] = L.wire[j]
    BY <1>1, <1>2
  <2>2. CASE NoneGiven(L.wire, th, i)
    <3>1. NoneGiven(K.wire, th, i)
      BY <2>1, <2>2 DEF NoneGiven
    <3> QED
      BY <1>3, <2>0, <2>2, <3>1 DEF LastIs
  <2>3. CASE \E j \in 1 .. i - 1 : LastGiven(L.wire, th, i, j)
    <3>1. PICK j \in 1 .. i - 1 : LastGiven(L.wire, th, i, j)
      BY <2>3
    <3>2. LastGiven(K.wire, th, i, j) /\ K.wire[j] = L.wire[j]
      BY <2>1, <3>1 DEF LastGiven
    <3> QED
      BY <2>0, <3>1, <3>2 DEF LastIs
  <2> QED
    BY <2>0, <2>2, <2>3 DEF LastIs
<1>5. \A k \in 1 .. n : K.wire[k] = L.wire[k]
  BY <1>1, <1>2
<1>6. (n + 2) - 1 = n + 1 /\ (n + 1) - 1 = n /\ n + 2 \in Nat /\ n + 1 \in Nat
  OBVIOUS
<1>9. LastIs(K, th, n + 2) /\ LastIs(L, th, n + 1)
  BY <1>0, <1>6
<1>7. CASE Gives(m, th)
  <2>1. LastGiven(K.wire, th, n + 2, n + 1) /\ K.wire[n + 1] = m
    BY <1>1, <1>2, <1>6, <1>7 DEF LastGiven
  <2>2. LastContext(K, th, n + 2) = {m.ctx}
    BY <1>6, <1>9, <2>1 DEF LastIs, LastGiven
  <2> QED
    BY <1>1, <1>2, <1>4, <1>7, <2>2 DEF WrittenLast
<1>8. CASE ~Gives(m, th)
  <2>1. \A k \in 1 .. n + 1 : k \in 1 .. n \/ k = n + 1
    OBVIOUS
  <2>2. CASE NoneGiven(L.wire, th, n + 1)
    <3>1. NoneGiven(K.wire, th, n + 2)
      BY <1>1, <1>2, <1>5, <1>6, <1>8, <2>1, <2>2 DEF NoneGiven
    <3>2. LastContext(K, th, n + 2) = LastContext(L, th, n + 1)
      BY <1>3, <1>6, <1>9, <2>2, <3>1 DEF LastIs
    <3> QED
      BY <1>1, <1>2, <1>4, <1>8, <3>2 DEF WrittenLast
  <2>3. CASE \E j \in 1 .. (n + 1) - 1 : LastGiven(L.wire, th, n + 1, j)
    <3>1. PICK j \in 1 .. n : LastGiven(L.wire, th, n + 1, j)
      BY <1>6, <2>3
    <3>2. LastGiven(K.wire, th, n + 2, j) /\ K.wire[j] = L.wire[j]
      <4>1. Gives(L.wire[j], th) /\ \A k \in 1 .. n : k > j => ~Gives(L.wire[k], th)
        BY <1>6, <3>1 DEF LastGiven
      <4>2. \A k \in 1 .. n + 1 : k > j => ~Gives(K.wire[k], th)
        BY <1>1, <1>2, <1>5, <1>8, <2>1, <4>1
      <4>3. j \in 1 .. n + 1 /\ Gives(K.wire[j], th) /\ K.wire[j] = L.wire[j]
        <5>1. j \in 1 .. n + 1
          OBVIOUS
        <5> QED
          BY <1>5, <4>1, <5>1
      <4> QED
        BY <1>6, <4>2, <4>3 DEF LastGiven
    <3>3. LastContext(K, th, n + 2) = LastContext(L, th, n + 1)
      BY <1>6, <1>9, <3>1, <3>2 DEF LastIs, LastGiven
    <3> QED
      BY <1>1, <1>2, <1>4, <1>8, <3>3 DEF WrittenLast
  <2> QED
    BY <1>9, <2>2, <2>3 DEF LastIs
<1> QED
  BY <1>7, <1>8

\* The agent takes the first message: what it was given it knows, or has refused.
LEMMA LastTaken ==
    ASSUME NEW K, NEW L, L.wire \in Seq(Requests), L.wire # <<>>, K.wire = Tail(L.wire),
           LET r == Head(L.wire) IN
           \/ r.do # "start" /\ K.known = L.known
           \/ r.do = "start" /\ K.known = IF r.omits THEN L.known ELSE Told(L.known, r.thread, r.ctx)
           \/ r.do = "start" /\ K.known = Told(L.known, r.thread, "refused"),
           NEW th, NEW i \in 1 .. Len(K.wire) + 1
    PROVE  LastContext(K, th, i) \in {LastContext(L, th, i + 1), {"refused"}}
<1> DEFINE r == Head(L.wire)
<1>1. /\ Len(L.wire) \in Nat \ {0} /\ L.wire[1] = r
      /\ Len(K.wire) = Len(L.wire) - 1 /\ \A k \in 1 .. Len(K.wire) : K.wire[k] = L.wire[k + 1]
  BY TailProperties
<1>2. PICK n \in Nat : n = Len(K.wire)
  <2>1. Len(K.wire) \in Nat
    BY <1>1
  <2> QED
    BY <2>1
<1>0. \A k \in Nat : LastIs(K, th, k) /\ LastIs(L, th, k)
  BY LastContexts
<1>3. i \in Nat /\ i + 1 \in Nat /\ (i + 1) - 1 = i /\ i - 1 \in Nat /\ i - 1 <= n
  BY <1>2
<1>8. LastIs(K, th, i) /\ LastIs(L, th, i + 1)
  BY <1>0, <1>3
<1>4. \A k \in 1 .. i - 1 : K.wire[k] = L.wire[k + 1] /\ k + 1 \in 1 .. i /\ k + 1 > 1
  BY <1>1, <1>2, <1>3
<1>5. \A k \in 1 .. i : k = 1 \/ (k - 1 \in 1 .. i - 1 /\ L.wire[k] = K.wire[k - 1])
  <2>1. \A k \in 1 .. i : k = 1 \/ (k - 1 \in 1 .. i - 1 /\ (k - 1) + 1 = k)
    BY <1>3
  <2> QED
    BY <1>4, <2>1
<1>6. CASE \E j \in 1 .. i - 1 : LastGiven(K.wire, th, i, j)
  <2>1. PICK j \in 1 .. i - 1 : LastGiven(K.wire, th, i, j)
    BY <1>6
  <2>2. L.wire[j + 1] = K.wire[j] /\ j + 1 \in 1 .. i
    BY <1>4
  <2>3. LastGiven(L.wire, th, i + 1, j + 1)
    <3>1. \A k \in 1 .. i : k > j + 1 => k # 1 /\ k - 1 > j
      BY <1>3
    <3>2. \A k \in 1 .. i : k > j + 1 => ~Gives(L.wire[k], th)
      BY <1>5, <2>1, <3>1 DEF LastGiven
    <3> QED
      BY <1>3, <2>1, <2>2, <3>2 DEF LastGiven
  <2> QED
    BY <1>3, <1>8, <2>1, <2>2, <2>3 DEF LastIs
<1>7. CASE NoneGiven(K.wire, th, i)
  <2>1. LastContext(K, th, i) = Knows(K, th)
    BY <1>7, <1>8 DEF LastIs
  <2>2. \A k \in 1 .. i : k # 1 => ~Gives(L.wire[k], th)
    BY <1>5, <1>7 DEF NoneGiven
  <2>3. CASE Gives(r, th)
    <3>1. LastGiven(L.wire, th, i + 1, 1)
      BY <1>1, <1>3, <2>2, <2>3 DEF LastGiven
    <3>2. LastContext(L, th, i + 1) = {r.ctx}
      BY <1>1, <1>3, <1>8, <3>1 DEF LastIs, LastGiven
    <3>3. K.known \in {Told(L.known, th, r.ctx), Told(L.known, th, "refused")}
      BY <2>3 DEF Gives
    <3>4. \A x : K.known = Told(L.known, th, x) => Knows(K, th) = {x}
      BY ToldIsKnown
    <3> QED
      BY <2>1, <3>2, <3>3, <3>4
  <2>4. CASE ~Gives(r, th)
    <3>1. NoneGiven(L.wire, th, i + 1)
      BY <1>1, <1>3, <2>2, <2>4 DEF NoneGiven
    <3>2. LastContext(L, th, i + 1) = Knows(L, th)
      BY <1>8, <3>1 DEF LastIs
    <3>3. CASE K.known = L.known
      BY <2>1, <3>2, <3>3 DEF Knows
    <3>4. CASE r.do = "start" /\ K.known = Told(L.known, r.thread, "refused") /\ r.thread = th
      BY <2>1, <3>4, ToldIsKnown
    <3>5. CASE \E x : K.known = Told(L.known, r.thread, x) /\ r.thread # th
      <4>1. {k \in K.known : k[1] = th} = {k \in L.known : k[1] = th}
        BY <3>5 DEF Told
      <4> QED
        BY <2>1, <3>2, <4>1 DEF Knows
    <3> QED
      BY <2>4, <3>3, <3>4, <3>5 DEF Gives
  <2> QED
    BY <2>3, <2>4
<1> QED
  BY <1>6, <1>7, <1>8 DEF LastIs

\* What the adapter remembers of a conversation is what its process was given last, and
\* so is what a prompt on the wire omits.
Believes(L, p) == LastContext(L, p[1], Len(L.wire) + 1) \in {{p[2]}, {"refused"}}
OmitsRightly(L, i) ==
    LastContext(L, L.wire[i].thread, i) \in {{L.wire[i].ctx}, {"refused"}}
Omits(m) == m.do = "start" /\ m.omits

KeepsContext(L) ==
    /\ adapter = "stdio" => L.prints = {}
    /\ L.up => \A p \in L.prints : Believes(L, p)
    /\ \A i \in DOMAIN L.wire : Omits(L.wire[i]) => OmitsRightly(L, i)
ContextKept == \A l \in Lanes : KeepsContext(lanes[l])

LEMMA SameContexts ==
    ASSUME NEW K, NEW L, K.wire = L.wire, K.known = L.known, K.prints = L.prints,
           K.up => L.up, KeepsContext(L)
    PROVE  KeepsContext(K)
<1>1. \A th, i : LastContext(K, th, i) = LastContext(L, th, i)
  BY SameLast
<1>2. \A p : Believes(L, p) => Believes(K, p)
  BY <1>1 DEF Believes
<1>3. \A i : OmitsRightly(L, i) => OmitsRightly(K, i)
  BY <1>1 DEF OmitsRightly
<1> QED
  BY <1>2, <1>3 DEF KeepsContext

LEMMA NoContexts ==
    ASSUME NEW K, K.wire = <<>>, K.prints = {} \/ ~K.up, adapter = "stdio" => K.prints = {}
    PROVE  KeepsContext(K)
<1>1. DOMAIN <<>> = {}
  BY EmptySeq
<1> QED
  BY <1>1 DEF KeepsContext

\* A message is written that gives what the adapter remembers, or omits what it did.
LEMMA WrittenContexts ==
    ASSUME NEW K, NEW L, L.wire \in Seq(Requests), NEW m \in Requests, L.up,
           K.wire = Append(L.wire, m), K.known = L.known, KeepsContext(L),
           adapter = "stdio" => K.prints = {},
           \A p \in K.prints :
              \/ p \in L.prints /\ ~Gives(m, p[1])
              \/ Gives(m, p[1]) /\ p[2] = m.ctx,
           Omits(m) => \E p \in L.prints : p[1] = m.thread /\ p[2] = m.ctx
    PROVE  KeepsContext(K)
<1>1. /\ Len(L.wire) \in Nat /\ Len(K.wire) = Len(L.wire) + 1
      /\ DOMAIN K.wire = 1 .. Len(L.wire) + 1 /\ DOMAIN L.wire = 1 .. Len(L.wire)
      /\ K.wire[Len(L.wire) + 1] = m /\ \A j \in 1 .. Len(L.wire) : K.wire[j] = L.wire[j]
  BY AppendedProperties
<1>7. \A th : WrittenLast(K, L, m, th)
  BY LastWritten
<1>2. \A th : \A i \in 1 .. Len(L.wire) + 1 : LastContext(K, th, i) = LastContext(L, th, i)
  BY <1>7 DEF WrittenLast
<1>3. \A th : LastContext(K, th, Len(K.wire) + 1) =
                IF Gives(m, th) THEN {m.ctx} ELSE LastContext(L, th, Len(L.wire) + 1)
  BY <1>7 DEF WrittenLast
<1>4. \A p \in L.prints : Believes(L, p)
  BY DEF KeepsContext
<1>5. ASSUME NEW p \in K.prints PROVE Believes(K, p)
  <2>1. CASE p \in L.prints /\ ~Gives(m, p[1])
    BY <1>3, <1>4, <2>1 DEF Believes
  <2>2. CASE Gives(m, p[1]) /\ p[2] = m.ctx
    BY <1>3, <2>2 DEF Believes
  <2> QED
    BY <2>1, <2>2
<1>6. ASSUME NEW i \in DOMAIN K.wire, Omits(K.wire[i]) PROVE OmitsRightly(K, i)
  <2>1. CASE i \in DOMAIN L.wire
    <3>1. K.wire[i] = L.wire[i] /\ i \in 1 .. Len(L.wire) + 1
      BY <1>1, <2>1
    <3>2. OmitsRightly(L, i)
      BY <1>6, <2>1, <3>1 DEF KeepsContext
    <3> QED
      BY <1>2, <3>1, <3>2 DEF OmitsRightly
  <2>2. CASE i = Len(L.wire) + 1
    <3>1. PICK p \in L.prints : p[1] = m.thread /\ p[2] = m.ctx
      BY <1>1, <1>6, <2>2
    <3>2. K.wire[i] = m /\ i \in 1 .. Len(L.wire) + 1
      BY <1>1, <2>2
    <3>3. LastContext(L, m.thread, i) \in {{m.ctx}, {"refused"}}
      BY <1>4, <2>2, <3>1 DEF Believes
    <3> QED
      BY <1>2, <3>2, <3>3 DEF OmitsRightly
  <2> QED
    BY <1>1, <2>1, <2>2
<1> QED
  BY <1>5, <1>6 DEF KeepsContext

\* A new process is sent its first message.
LEMMA FirstContexts ==
    ASSUME NEW K, NEW m \in Requests, K.wire = Append(<<>>, m), ~Omits(m),
           adapter = "stdio" => K.prints = {},
           \A p \in K.prints : Gives(m, p[1]) /\ p[2] = m.ctx
    PROVE  KeepsContext(K)
<1>0. <<>> \in Seq(Requests) /\ Len(<<>>) = 0
  BY EmptySeq
<1>1. Len(K.wire) = 1 /\ DOMAIN K.wire = 1 .. 1 /\ K.wire[1] = m
  BY <1>0, AppendedProperties
<1>2. ASSUME NEW p \in K.prints PROVE Believes(K, p)
  <2>1. LastIs(K, p[1], 2)
    BY LastContexts
  <2>2. LastGiven(K.wire, p[1], 2, 1)
    BY <1>1, <1>2 DEF LastGiven
  <2>3. LastContext(K, p[1], 2) = {m.ctx}
    BY <1>1, <2>1, <2>2 DEF LastIs, LastGiven
  <2> QED
    BY <1>1, <1>2, <2>3 DEF Believes
<1>3. \A i \in DOMAIN K.wire : ~Omits(K.wire[i])
  BY <1>1
<1> QED
  BY <1>2, <1>3 DEF KeepsContext

LEMMA TakenContexts ==
    ASSUME NEW K, NEW L, L.wire \in Seq(Requests), L.wire # <<>>, K.wire = Tail(L.wire),
           LET r == Head(L.wire) IN
           \/ r.do # "start" /\ K.known = L.known
           \/ r.do = "start" /\ K.known = IF r.omits THEN L.known ELSE Told(L.known, r.thread, r.ctx)
           \/ r.do = "start" /\ K.known = Told(L.known, r.thread, "refused"),
           K.prints = L.prints, L.up, KeepsContext(L)
    PROVE  KeepsContext(K)
<1>1. /\ Len(L.wire) \in Nat \ {0} /\ Len(K.wire) = Len(L.wire) - 1
      /\ DOMAIN K.wire = 1 .. Len(K.wire) /\ DOMAIN L.wire = 1 .. Len(L.wire)
      /\ \A i \in DOMAIN K.wire : i + 1 \in DOMAIN L.wire /\ K.wire[i] = L.wire[i + 1]
  BY TailProperties
<1>2. \A th : \A i \in 1 .. Len(K.wire) + 1 :
        LastContext(K, th, i) \in {LastContext(L, th, i + 1), {"refused"}}
  BY LastTaken
<1>3. Len(K.wire) \in Nat /\ (Len(K.wire) + 1) + 1 = Len(L.wire) + 1
  BY <1>1
<1>4. ASSUME NEW p \in K.prints PROVE Believes(K, p)
  <2>1. Believes(L, p)
    BY <1>4 DEF KeepsContext
  <2>2. Len(K.wire) + 1 \in 1 .. Len(K.wire) + 1
    BY <1>3
  <2>3. LastContext(K, p[1], Len(K.wire) + 1) \in {LastContext(L, p[1], Len(L.wire) + 1), {"refused"}}
    BY <1>2, <1>3, <2>2
  <2> QED
    BY <2>1, <2>3 DEF Believes
<1>5. ASSUME NEW i \in DOMAIN K.wire, Omits(K.wire[i]) PROVE OmitsRightly(K, i)
  <2>1. OmitsRightly(L, i + 1) /\ K.wire[i] = L.wire[i + 1]
    BY <1>1, <1>5 DEF KeepsContext
  <2>2. i \in 1 .. Len(K.wire) + 1
    BY <1>1, <1>3
  <2> QED
    BY <1>2, <2>1, <2>2, ZenonT(30) DEF OmitsRightly
<1> QED
  BY <1>4, <1>5 DEF KeepsContext

LEMMA AgentContexts ==
    ASSUME NEW K, NEW L, L.wire \in Seq(Requests), KeepsContext(L), AgentSteps(K, L)
    PROVE  KeepsContext(K)
<1>1. K.prints = L.prints
  BY DEF AgentSteps, SamePlace
<1>2. CASE Finishes(K, L) \/ Garbles(K, L)
  BY <1>1, <1>2, SameContexts DEF Finishes, Garbles
<1>3. CASE Crashes(K, L)
  BY <1>1, <1>3, NoContexts DEF Crashes, KeepsContext
<1>4. CASE Answered(K, L) \/ TakesTurn(K, L) \/ Refuses(K, L) \/ IsInterrupted(K, L)
  <2>1. /\ L.wire # <<>> /\ K.wire = Tail(L.wire) /\ L.up
        /\ LET r == Head(L.wire) IN
           \/ r.do # "start" /\ K.known = L.known
           \/ r.do = "start" /\ K.known = IF r.omits THEN L.known ELSE Told(L.known, r.thread, r.ctx)
           \/ r.do = "start" /\ K.known = Told(L.known, r.thread, "refused")
    BY <1>4 DEF Answered, TakesTurn, Refuses, IsInterrupted
  <2> QED
    BY <1>1, <2>1, TakenContexts
<1> QED
  BY <1>2, <1>3, <1>4 DEF AgentSteps

LEMMA WritesContexts ==
    ASSUME NEW K, NEW L, L.wire \in Seq(Requests), NEW m \in Requests, Writes(K, L, m),
           ~L.up => L.wire = <<>>, KeepsContext(L), adapter = "stdio" => K.prints = {},
           \A p \in K.prints :
              \/ p \in L.prints /\ ~Gives(m, p[1])
              \/ Gives(m, p[1]) /\ p[2] = m.ctx,
           Omits(m) => \E p \in L.prints : p[1] = m.thread /\ p[2] = m.ctx
    PROVE  KeepsContext(K)
<1>1. CASE L.up
  BY <1>1, WrittenContexts DEF Writes
<1>2. CASE ~L.up
  BY <1>2, NoContexts DEF Writes
<1> QED
  BY <1>1, <1>2

LEMMA StartContexts ==
    ASSUME Types, Types', NEW l \in Lanes, NEW t \in DOMAIN turns, LaneInOrder(lanes[l]),
           KeepsContext(lanes[l]), StartsTurn(t, lanes'[l], lanes[l])
    PROVE  KeepsContext(lanes'[l])
<1>1. PICK K : K = lanes'[l]
  OBVIOUS
<1>2. PICK L : L = lanes[l]
  OBVIOUS
<1>3. /\ L.wire \in Seq(Requests) /\ StartsTurn(t, K, L) /\ KeepsContext(L)
      /\ ~L.up => L.wire = <<>>
  BY <1>1, <1>2, LaneFields DEF LaneInOrder
<1>4. PICK x \in K.threads : LET print == <<x.thread, turns[t].ctx>> IN
          /\ Writes(K, L, StartTurn(t, turns[t], x.thread, print \in L.prints))
          /\ K.prints = {p \in L.prints : p[1] # x.thread} \cup {print}
  BY <1>3 DEF StartsTurn
<1> DEFINE print == <<x.thread, turns[t].ctx>>
<1>5. x.thread \in Runs
  BY <1>1 DEF Types, LaneRecords, ThreadRecords
<1>6. PICK omits \in BOOLEAN : omits = (print \in L.prints)
  <2>1. (print \in L.prints) \in BOOLEAN
    OBVIOUS
  <2> QED
    BY <2>1, Zenon
<1>7. PICK m : m = StartTurn(t, turns[t], x.thread, omits)
  OBVIOUS
<1>8. /\ m \in Requests /\ m.do = "start" /\ m.ctx = turns[t].ctx /\ m.thread = x.thread
      /\ m.omits = omits
  BY <1>5, <1>7, StartsWithIts
<1>9. Writes(K, L, m) /\ K.prints = {p \in L.prints : p[1] # x.thread} \cup {print}
  BY <1>4, <1>6, <1>7
<1>10. Omits(m) => \E p \in L.prints : p[1] = m.thread /\ p[2] = m.ctx
  <2>1. print[1] = m.thread /\ print[2] = m.ctx
    BY <1>8
  <2>2. Omits(m) => print \in L.prints
    BY <1>6, <1>8 DEF Omits
  <2> HIDE DEF print
  <2> QED
    BY <2>1, <2>2
<1>11. CASE ~omits
  <2>1. \A p \in K.prints :
              \/ p \in L.prints /\ ~Gives(m, p[1])
              \/ Gives(m, p[1]) /\ p[2] = m.ctx
    BY <1>8, <1>9, <1>11 DEF Gives
  <2> QED
    BY <1>1, <1>2, <1>3, <1>8, <1>9, <1>10, <2>1, WritesContexts DEF StartsTurn
<1>12. CASE omits
  <2>1. \A p \in K.prints : p \in L.prints /\ ~Gives(m, p[1])
    BY <1>6, <1>8, <1>9, <1>12 DEF Gives
  <2> QED
    BY <1>1, <1>2, <1>3, <1>8, <1>9, <1>10, <2>1, WritesContexts DEF StartsTurn
<1> QED
  BY <1>11, <1>12

LEMMA StreamContexts ==
    ASSUME Types, Types', NEW l \in Lanes, NEW t \in DOMAIN turns, LaneInOrder(lanes[l]),
           KeepsContext(lanes[l]), StreamsTurn(t, lanes'[l], lanes[l])
    PROVE  KeepsContext(lanes'[l])
<1>1. PICK K : K = lanes'[l]
  OBVIOUS
<1>2. PICK L : L = lanes[l]
  OBVIOUS
<1>3. /\ L.wire \in Seq(Requests) /\ StreamsTurn(t, K, L) /\ KeepsContext(L)
      /\ ~L.up => L.wire = <<>>
  BY <1>1, <1>2, LaneFields DEF LaneInOrder
<1> DEFINE print == <<NoRun, turns[t].ctx>>
<1>4. K.prints = IF adapter = "claude" THEN {print} ELSE L.prints
  BY <1>3 DEF StreamsTurn
<1>5. adapter # "claude" => K.prints = {}
  BY <1>3, <1>4 DEF StreamsTurn, KeepsContext
<1>6. PICK omits \in BOOLEAN : omits = (adapter = "claude" /\ print \in L.prints)
  <2>1. (adapter = "claude" /\ print \in L.prints) \in BOOLEAN
    OBVIOUS
  <2> QED
    BY <2>1, Zenon
<1>7. CASE Writes(K, L, StartTurn(t, turns[t], NoRun, omits))
  <2>1. PICK m : m = StartTurn(t, turns[t], NoRun, omits)
    OBVIOUS
  <2>2. /\ m \in Requests /\ m.do = "start" /\ m.ctx = turns[t].ctx /\ m.thread = NoRun
        /\ m.omits = omits
    BY <2>1, NoRunIsARun, StartsWithIts
  <2>3. Writes(K, L, m)
    BY <1>7, <2>1
  <2>4. Omits(m) => \E p \in L.prints : p[1] = m.thread /\ p[2] = m.ctx
    BY <1>6, <2>2 DEF Omits
  <2>5. \A p \in K.prints :
              \/ p \in L.prints /\ ~Gives(m, p[1])
              \/ Gives(m, p[1]) /\ p[2] = m.ctx
    <3>1. CASE omits
      BY <1>4, <1>5, <1>6, <2>2, <3>1 DEF Gives
    <3>2. CASE ~omits
      BY <1>4, <1>5, <2>2, <3>2 DEF Gives
    <3> QED
      BY <3>1, <3>2
  <2> QED
    BY <1>1, <1>3, <1>5, <2>2, <2>3, <2>4, <2>5, WritesContexts
<1>8. CASE K.wire = Append(<<>>, StartTurn(t, turns[t], NoRun, FALSE))
  <2>0. PICK no \in BOOLEAN : no = FALSE
    OBVIOUS
  <2>1. PICK m : m = StartTurn(t, turns[t], NoRun, no)
    OBVIOUS
  <2>2. /\ m \in Requests /\ m.do = "start" /\ m.ctx = turns[t].ctx /\ m.thread = NoRun
        /\ m.omits = no
    BY <2>1, NoRunIsARun, StartsWithIts
  <2>3. K.wire = Append(<<>>, m)
    BY <1>8, <2>0, <2>1
  <2>4. ~Omits(m)
    BY <2>0, <2>2 DEF Omits
  <2>5. \A p \in K.prints : Gives(m, p[1]) /\ p[2] = m.ctx
    BY <1>4, <1>5, <2>0, <2>2 DEF Gives
  <2> QED
    BY <1>1, <1>5, <2>2, <2>3, <2>4, <2>5, FirstContexts
<1> QED
  BY <1>3, <1>6, <1>7, <1>8 DEF StreamsTurn

LEMMA ContextsKept ==
    ASSUME Types, Types', adapter' = adapter, NEW l \in Lanes, LaneInOrder(lanes[l]),
           KeepsContext(lanes[l]), LaneStep(l)
    PROVE  KeepsContext(lanes'[l])
<1>1. PICK K : K = lanes'[l]
  OBVIOUS
<1>2. PICK L : L = lanes[l]
  OBVIOUS
<1>3. /\ L.wire \in Seq(Requests) /\ KeepsContext(L) /\ (~L.up => L.wire = <<>>)
      /\ L.active.run \in Runs
  BY <1>2, LaneFields DEF LaneInOrder, LaneRecords
<1> SUFFICES KeepsContext(K)
  BY <1>1
<1>4. CASE SameWork(K, L)
  BY <1>3, <1>4, SameContexts DEF SameWork
<1>5. CASE Quits(K)
  BY <1>5, NoContexts DEF Quits, Bare
<1>6. CASE Loses(K, L)
  BY <1>6, NoContexts DEF Loses, Bare
<1>7. CASE Hears(K, L)
  BY <1>3, <1>7, SameContexts DEF Hears
<1>8. CASE Wakes(K, L)
  BY <1>8, NoContexts DEF Wakes, Bare
<1>9. CASE Interrupts(K, L)
  <2>1. PICK m : m = [do |-> "interrupt", run |-> L.active.run]
    OBVIOUS
  <2>2. m \in Requests /\ m.do # "start" /\ Writes(K, L, m) /\ K.prints = L.prints
    BY <1>3, <1>9, <2>1 DEF Requests, Interrupts
  <2>3. ~Omits(m) /\ \A th : ~Gives(m, th)
    BY <2>2 DEF Omits, Gives
  <2>4. adapter = "stdio" => K.prints = {}
    BY <1>3, <2>2 DEF KeepsContext
  <2> QED
    BY <1>3, <2>2, <2>3, <2>4, WritesContexts
<1>10. CASE AgentSteps(K, L)
  BY <1>3, <1>10, AgentContexts
<1>11. ASSUME NEW t \in DOMAIN turns, OwnerSteps(t, K, L)
       PROVE  KeepsContext(K)
  <2>0. \A attempt \in {1, 2} : Run(t, attempt) \in Runs
    <3>1. t \in 0 .. MaxTurns
      BY OwnRunType DEF Cancellers
    <3> QED
      BY <3>1 DEF Run, Runs
  <2>1. CASE Opens(t, K, L)
    <3>1. PICK m : m = Request("initialize", t, turns[t].attempt)
      OBVIOUS
    <3>2. turns[t].attempt \in {1, 2}
      BY TurnIsKnown DEF TurnRecords
    <3>3. m \in Requests /\ m.do # "start"
      BY <2>0, <3>1, <3>2, RequestIsOne
    <3>4. K.wire = Append(<<>>, m) /\ K.prints = {}
      BY <2>1, <3>1 DEF Opens
    <3> QED
      BY <3>3, <3>4, FirstContexts DEF Omits
  <2>2. CASE \E do \in {"models", "thread"} : AsksFor(do, t, K, L)
    <3>1. PICK do \in {"models", "thread"}, attempt \in {1, 2} :
             AsksFor(do, t, K, L) /\ Writes(K, L, Request(do, t, attempt))
      BY <2>2 DEF AsksFor
    <3>2. PICK m : m = Request(do, t, attempt)
      OBVIOUS
    <3>3. m \in Requests /\ m.do # "start"
      BY <2>0, <3>2, RequestIsOne
    <3>4. Writes(K, L, m) /\ K.prints = L.prints /\ adapter # "stdio"
      BY <3>1, <3>2 DEF AsksFor
    <3>5. ~Omits(m) /\ \A th : ~Gives(m, th)
      BY <3>3 DEF Omits, Gives
    <3> QED
      BY <1>3, <3>3, <3>4, <3>5, WritesContexts
  <2>3. CASE StartsTurn(t, K, L)
    BY <1>1, <1>2, <2>3, StartContexts
  <2>4. CASE StartsReading(t, K, L)
    BY <1>3, <2>4, SameContexts DEF StartsReading
  <2>5. CASE StreamsTurn(t, K, L)
    BY <1>1, <1>2, <2>5, StreamContexts
  <2> QED
    BY <1>11, <2>1, <2>2, <2>3, <2>4, <2>5 DEF OwnerSteps
<1> QED
  BY <1>1, <1>2, <1>4, <1>5, <1>6, <1>7, <1>8, <1>9, <1>10, <1>11 DEF LaneStep

LEMMA ContextKeptStays ==
    ASSUME InOrder, StepForm, Types', ContextKept
    PROVE  ContextKept'
<1>1. adapter' = adapter
  BY StepsKeep DEF InOrder, Places, TurnsKept
<1>2. ASSUME NEW l \in Lanes PROVE KeepsContext(lanes'[l])
  BY <1>1, LaneSteps, ContextsKept DEF InOrder, LanesInOrder, LaneInOrder, ContextKept
<1>3. ASSUME NEW l \in Lanes PROVE KeepsContext(lanes[l])'
  <2>1. KeepsContext(lanes'[l])
    BY <1>2
  <2> QED
    BY <1>1, <2>1 DEF KeepsContext, Believes, OmitsRightly
<1> QED
  BY <1>3 DEF ContextKept

-----------------------------------------------------------------------------
(***************************************************************************)
(* The work for a turn: from the wire to the agent and its last event      *)
(***************************************************************************)
IsStart(L, r) == \E i \in DOMAIN L.wire : L.wire[i].do = "start" /\ L.wire[i].run = r
IsRunning(L, r) == \E i \in DOMAIN L.running : L.running[i] = r
IsActive(L, r) == r # NoRun /\ L.active.run = r
IsDone(L, r) == \E i \in DOMAIN L.events : L.events[i].is = "completed" /\ L.events[i].run = r
IsAnswered(L, r) ==
    \E i \in DOMAIN L.events : L.events[i].do \in {"start", "interrupt"} /\ L.events[i].run = r
IsInterrupting(L, r) ==
    \E i \in DOMAIN L.wire : L.wire[i].do = "interrupt" /\ L.wire[i].run = r

IsBegun(L, r) == IsRunning(L, r) \/ IsActive(L, r) \/ IsInterrupting(L, r) \/ IsAnswered(L, r)
Works(L, r) ==
    IsStart(L, r) \/ IsRunning(L, r) \/ IsActive(L, r) \/ (adapter # "codex" /\ IsDone(L, r))

\* All work of K was there in L, but for what is in own.
WorkFrom(K, L, own) ==
    /\ \A r : IsStart(K, r) => IsStart(L, r) \/ r \in own
    /\ \A r : IsRunning(K, r) => IsRunning(L, r) \/ IsStart(L, r)
    /\ \A r : IsActive(K, r) => IsActive(L, r) \/ (r \in own /\ IsAnswered(L, r))
    /\ \A r : IsDone(K, r) => IsDone(L, r) \/ IsRunning(L, r)
    /\ \A r : IsInterrupting(K, r) => IsInterrupting(L, r) \/ IsActive(L, r)
    /\ \A r : IsAnswered(K, r) => IsAnswered(L, r) \/ IsStart(L, r) \/ IsInterrupting(L, r)
                                  \/ IsRunning(L, r)

LEMMA NoWorkInBare ==
    ASSUME NEW K, Bare(K), NEW r
    PROVE  ~IsStart(K, r) /\ ~IsRunning(K, r) /\ ~IsDone(K, r) /\ ~IsAnswered(K, r)
           /\ ~IsInterrupting(K, r)
<1>1. DOMAIN <<>> = {}
  BY EmptySeq
<1> QED
  BY <1>1 DEF Bare, IsStart, IsRunning, IsDone, IsAnswered, IsInterrupting

LEMMA NoneActive ==
    ASSUME NEW K, K.active = NoTurn, NEW r
    PROVE  ~IsActive(K, r)
BY DEF IsActive, NoTurn

\* Of a message that is written, and of an event that is read.
LEMMA WrittenWork ==
    ASSUME NEW K, NEW L, L.wire \in Seq(Requests), NEW m \in Requests, Writes(K, L, m), NEW r
    PROVE  /\ IsStart(K, r) => IsStart(L, r) \/ (m.do = "start" /\ r = m.run)
           /\ IsInterrupting(K, r) => IsInterrupting(L, r) \/ (m.do = "interrupt" /\ r = m.run)
           /\ IsRunning(K, r) => IsRunning(L, r)
           /\ IsActive(K, r) => IsActive(L, r)
<1>1. K.wire = L.wire \/ K.wire = Append(L.wire, m)
  BY DEF Writes
<1>2. \A i \in DOMAIN K.wire : (\E j \in DOMAIN L.wire : K.wire[i] = L.wire[j]) \/ K.wire[i] = m
  BY <1>1, WrittenFrom
<1>3. K.running = L.running /\ K.active = L.active
  BY DEF Writes
<1> QED
  BY <1>2, <1>3 DEF IsStart, IsInterrupting, IsRunning, IsActive

LEMMA OnlyWritten ==
    ASSUME NEW K, NEW m \in Requests, K.wire = Append(<<>>, m), NEW r
    PROVE  /\ IsStart(K, r) => m.do = "start" /\ r = m.run
           /\ IsInterrupting(K, r) => m.do = "interrupt" /\ r = m.run
<1>1. \A i \in DOMAIN Append(<<>>, m) : Append(<<>>, m)[i] = m
  BY OnlyFrom
<1>2. \A i \in DOMAIN K.wire : K.wire[i] = m
  BY <1>1
<1> QED
  BY <1>2 DEF IsStart, IsInterrupting

LEMMA ReadWork ==
    ASSUME NEW K, NEW L, L.events \in Seq(Events), ReadsOne(K, L), NEW r
    PROVE  /\ IsDone(K, r) => IsDone(L, r)
           /\ IsAnswered(K, r) => IsAnswered(L, r)
<1>1. \A i \in DOMAIN K.events : \E j \in DOMAIN L.events : K.events[i] = L.events[j]
  <2>1. CASE K.events = L.events
    BY <2>1
  <2>2. CASE L.events # <<>> /\ K.events = Tail(L.events)
    BY <2>2, TailFrom
  <2> QED
    BY <2>1, <2>2 DEF ReadsOne
<1> QED
  BY <1>1 DEF IsDone, IsAnswered

LEMMA OneMoreEvent ==
    ASSUME NEW K, NEW L, L.events \in Seq(Events), NEW e \in Events,
           K.events = Append(L.events, e), NEW r
    PROVE  /\ IsDone(K, r) => IsDone(L, r) \/ (e.is = "completed" /\ r = e.run)
           /\ IsAnswered(K, r) => IsAnswered(L, r) \/ (e.do \in {"start", "interrupt"} /\ r = e.run)
<1>1. \A i \in DOMAIN K.events : (\E j \in DOMAIN L.events : K.events[i] = L.events[j]) \/ K.events[i] = e
  BY AppendedFrom
<1> QED
  BY <1>1 DEF IsDone, IsAnswered

LEMMA TakenWork ==
    ASSUME NEW K, NEW L, L.wire \in Seq(Requests), L.wire # <<>>, K.wire = Tail(L.wire), NEW r
    PROVE  /\ IsStart(K, r) => IsStart(L, r)
           /\ IsInterrupting(K, r) => IsInterrupting(L, r)
           /\ Head(L.wire).do = "start" => IsStart(L, Head(L.wire).run)
           /\ Head(L.wire).do = "interrupt" => IsInterrupting(L, Head(L.wire).run)
           /\ Head(L.wire) \in Requests
<1>1. \A i \in DOMAIN K.wire : \E j \in DOMAIN L.wire : K.wire[i] = L.wire[j]
  BY TailFrom
<1>2. 1 \in DOMAIN L.wire /\ L.wire[1] = Head(L.wire) /\ Head(L.wire) \in Requests
  BY TailProperties
<1> QED
  BY <1>1, <1>2 DEF IsStart, IsInterrupting

LEMMA FewerRunning ==
    ASSUME NEW K, NEW L, L.running \in Seq(Runs), NEW run, K.running = Without(L.running, run), NEW r
    PROVE  IsRunning(K, r) => IsRunning(L, r)
<1>1. \A j \in DOMAIN K.running : \E i \in DOMAIN L.running : K.running[j] = L.running[i]
  BY WithoutProperties
<1> QED
  BY <1>1 DEF IsRunning

LEMMA MoreRunning ==
    ASSUME NEW K, NEW L, L.running \in Seq(Runs), NEW run \in Runs,
           K.running = Append(L.running, run), NEW r
    PROVE  IsRunning(K, r) => IsRunning(L, r) \/ r = run
<1>1. \A i \in DOMAIN K.running : (\E j \in DOMAIN L.running : K.running[i] = L.running[j]) \/ K.running[i] = run
  BY AppendedFrom
<1> QED
  BY <1>1 DEF IsRunning

LEMMA AgentWork ==
    ASSUME NEW K, NEW L, L \in LaneRecords, AgentSteps(K, L)
    PROVE  WorkFrom(K, L, {})
<1>1. /\ L.wire \in Seq(Requests) /\ L.events \in Seq(Events) /\ L.running \in Seq(Runs)
      /\ K.active = L.active
  BY DEF LaneRecords, AgentSteps, SamePlace
<1>2. DOMAIN <<>> = {}
  BY EmptySeq
<1>3. \A r : IsActive(K, r) => IsActive(L, r)
  BY <1>1 DEF IsActive
<1>4. L.wire # <<>> => Head(L.wire) \in Requests
  BY <1>1, TailProperties
<1> DEFINE q == Head(L.wire)
<1>5. ASSUME NEW ok \in BOOLEAN, L.wire # <<>>
      PROVE  /\ Response(q, ok) \in Events /\ Response(q, ok).is = "response"
             /\ Response(q, ok).do = q.do /\ Response(q, ok).run = q.run /\ Response(q, ok).ok = ok
  BY <1>4, <1>5 DEF Response, Events, Requests
<1>6. ASSUME NEW run \in Runs, NEW ok \in BOOLEAN
      PROVE  /\ Completed(run, ok) \in Events /\ Completed(run, ok).is = "completed"
             /\ Completed(run, ok).do = "start" /\ Completed(run, ok).run = run
  BY <1>6 DEF Completed, Events
<1>7. CASE Answered(K, L)
  <2>1. ASSUME NEW r
        PROVE  /\ IsStart(K, r) => IsStart(L, r)
               /\ IsInterrupting(K, r) => IsInterrupting(L, r)
               /\ IsRunning(K, r) => IsRunning(L, r)
               /\ IsDone(K, r) => IsDone(L, r)
               /\ IsAnswered(K, r) => IsAnswered(L, r)
    <3>1. PICK e \in Events : e = Response(q, TRUE) /\ e.is = "response" /\ e.do = q.do
      BY <1>5, <1>7 DEF Answered
    <3>2. K.events = Append(L.events, e) /\ K.wire = Tail(L.wire) /\ L.wire # <<>>
          /\ K.running = L.running /\ q.do \notin {"start", "interrupt"}
      BY <1>7, <3>1 DEF Answered
    <3>3. (IsDone(K, r) => IsDone(L, r)) /\ (IsAnswered(K, r) => IsAnswered(L, r))
      BY <1>1, <3>1, <3>2, OneMoreEvent, ZenonT(30)
    <3> QED
      BY <1>1, <3>2, <3>3, TakenWork DEF IsRunning
  <2> QED
    BY <1>3, <2>1 DEF WorkFrom
<1>8. CASE TakesTurn(K, L)
  <2>0. q.do = "start" /\ q.run \in Runs /\ K.wire = Tail(L.wire) /\ L.wire # <<>>
        /\ K.running = Append(L.running, q.run)
    BY <1>4, <1>8 DEF TakesTurn, Requests
  <2>1. ASSUME NEW r
        PROVE  /\ IsStart(K, r) => IsStart(L, r)
               /\ IsInterrupting(K, r) => IsInterrupting(L, r)
               /\ IsRunning(K, r) => IsRunning(L, r) \/ IsStart(L, r)
               /\ IsDone(K, r) => IsDone(L, r)
               /\ IsAnswered(K, r) => IsAnswered(L, r) \/ IsStart(L, r)
    <3>1. /\ IsStart(K, r) => IsStart(L, r)
          /\ IsInterrupting(K, r) => IsInterrupting(L, r)
          /\ IsStart(L, q.run)
      BY <1>1, <2>0, TakenWork
    <3>2. IsRunning(K, r) => IsRunning(L, r) \/ r = q.run
      BY <1>1, <2>0, MoreRunning
    <3>3. (IsDone(K, r) => IsDone(L, r)) /\ (IsAnswered(K, r) => IsAnswered(L, r) \/ r = q.run)
      <4>1. CASE K.events = L.events
        BY <4>1 DEF IsDone, IsAnswered
      <4>2. CASE K.events = Append(L.events, Response(q, TRUE))
        <5>1. PICK e \in Events : e = Response(q, TRUE) /\ e.is = "response" /\ e.run = q.run
          BY <1>5, <2>0
        <5> QED
          BY <1>1, <4>2, <5>1, OneMoreEvent
      <4> QED
        BY <1>8, <4>1, <4>2 DEF TakesTurn
    <3> QED
      BY <3>1, <3>2, <3>3
  <2> QED
    BY <1>3, <2>1 DEF WorkFrom
<1>9. CASE Refuses(K, L)
  <2>0. q.do = "start" /\ K.wire = Tail(L.wire) /\ L.wire # <<>> /\ K.running = L.running
    BY <1>9 DEF Refuses
  <2>1. ASSUME NEW r
        PROVE  /\ IsStart(K, r) => IsStart(L, r)
               /\ IsInterrupting(K, r) => IsInterrupting(L, r)
               /\ IsRunning(K, r) => IsRunning(L, r)
               /\ IsDone(K, r) => IsDone(L, r)
               /\ IsAnswered(K, r) => IsAnswered(L, r) \/ IsStart(L, r)
    <3>1. /\ IsStart(K, r) => IsStart(L, r)
          /\ IsInterrupting(K, r) => IsInterrupting(L, r)
          /\ IsStart(L, q.run)
      BY <1>1, <2>0, TakenWork
    <3>2. PICK e \in Events : e = Response(q, FALSE) /\ e.is = "response" /\ e.run = q.run
      BY <1>5, <2>0
    <3>3. K.events = Append(L.events, e)
      BY <1>9, <3>2 DEF Refuses
    <3>4. (IsDone(K, r) => IsDone(L, r)) /\ (IsAnswered(K, r) => IsAnswered(L, r) \/ r = q.run)
      BY <1>1, <3>2, <3>3, OneMoreEvent
    <3> QED
      BY <2>0, <3>1, <3>4 DEF IsRunning
  <2> QED
    BY <1>3, <2>1 DEF WorkFrom
<1>10. CASE IsInterrupted(K, L)
  <2>0. q.do = "interrupt" /\ q.run \in Runs /\ K.wire = Tail(L.wire) /\ L.wire # <<>>
    BY <1>4, <1>10 DEF IsInterrupted, Requests
  <2>1. ASSUME NEW r
        PROVE  /\ IsStart(K, r) => IsStart(L, r)
               /\ IsInterrupting(K, r) => IsInterrupting(L, r)
               /\ IsRunning(K, r) => IsRunning(L, r)
               /\ IsDone(K, r) => IsDone(L, r) \/ IsRunning(L, r)
               /\ IsAnswered(K, r) => IsAnswered(L, r) \/ IsInterrupting(L, r)
    <3>1. /\ IsStart(K, r) => IsStart(L, r)
          /\ IsInterrupting(K, r) => IsInterrupting(L, r)
          /\ IsInterrupting(L, q.run)
      BY <1>1, <2>0, TakenWork
    <3>2. CASE /\ \E i \in DOMAIN L.running : L.running[i] = q.run
               /\ K.running = Without(L.running, q.run)
               /\ K.events = Append(Append(L.events, Completed(q.run, FALSE)), Response(q, TRUE))
      <4>1. PICK e \in Events : /\ e = Completed(q.run, FALSE) /\ e.is = "completed" /\ e.run = q.run
        BY <1>6, <2>0
      <4>2. PICK f \in Events : f = Response(q, TRUE) /\ f.is = "response" /\ f.run = q.run
        BY <1>5, <2>0
      <4>3. PICK M : M = [events |-> Append(L.events, e)]
        OBVIOUS
      <4>4. M.events = Append(L.events, e) /\ M.events \in Seq(Events)
            /\ K.events = Append(M.events, f)
        BY <1>1, <3>2, <4>1, <4>2, <4>3, AppendedProperties
      <4>5. /\ IsDone(M, r) => IsDone(L, r) \/ r = q.run
            /\ IsAnswered(M, r) => IsAnswered(L, r) \/ r = q.run
        <5>1. /\ IsDone(M, r) => IsDone(L, r) \/ (e.is = "completed" /\ r = e.run)
              /\ IsAnswered(M, r) => IsAnswered(L, r) \/ (e.do \in {"start", "interrupt"} /\ r = e.run)
          BY <1>1, <4>4, OneMoreEvent
        <5> QED
          BY <4>1, <5>1
      <4>6. /\ IsDone(K, r) => IsDone(M, r)
            /\ IsAnswered(K, r) => IsAnswered(M, r) \/ r = q.run
        BY <4>2, <4>4, OneMoreEvent
      <4>7. IsRunning(L, q.run)
        BY <3>2 DEF IsRunning
      <4>8. IsRunning(K, r) => IsRunning(L, r)
        BY <1>1, <3>2, FewerRunning
      <4> QED
        BY <3>1, <4>5, <4>6, <4>7, <4>8
    <3>3. CASE K.running = L.running /\ \E ok \in BOOLEAN : K.events = Append(L.events, Response(q, ok))
      <4>1. PICK ok \in BOOLEAN : K.events = Append(L.events, Response(q, ok))
        BY <3>3
      <4>2. PICK e \in Events : e = Response(q, ok) /\ e.is = "response" /\ e.run = q.run
        BY <1>5, <2>0
      <4>3. (IsDone(K, r) => IsDone(L, r)) /\ (IsAnswered(K, r) => IsAnswered(L, r) \/ r = q.run)
        BY <1>1, <4>1, <4>2, OneMoreEvent
      <4> QED
        BY <3>1, <3>3, <4>3 DEF IsRunning
    <3> QED
      BY <1>10, <3>2, <3>3 DEF IsInterrupted
  <2> QED
    BY <1>3, <2>1 DEF WorkFrom
<1>11. CASE Finishes(K, L)
  <2>1. ASSUME NEW r
        PROVE  /\ IsStart(K, r) => IsStart(L, r)
               /\ IsInterrupting(K, r) => IsInterrupting(L, r)
               /\ IsRunning(K, r) => IsRunning(L, r)
               /\ IsDone(K, r) => IsDone(L, r) \/ IsRunning(L, r)
               /\ IsAnswered(K, r) => IsAnswered(L, r) \/ IsRunning(L, r)
    <3>1. PICK run \in Runs, ok \in BOOLEAN :
             /\ \E i \in DOMAIN L.running : L.running[i] = run
             /\ K.running = Without(L.running, run) /\ K.events = Append(L.events, Completed(run, ok))
             /\ K.wire = L.wire
      BY <1>11 DEF Finishes
    <3>2. PICK e \in Events : e = Completed(run, ok) /\ e.is = "completed" /\ e.run = run
      BY <1>6
    <3>3. (IsDone(K, r) => IsDone(L, r) \/ r = run) /\ (IsAnswered(K, r) => IsAnswered(L, r) \/ r = run)
      BY <1>1, <3>1, <3>2, OneMoreEvent, ZenonT(30)
    <3>4. IsRunning(K, r) => IsRunning(L, r)
      BY <1>1, <3>1, FewerRunning
    <3> QED
      BY <3>1, <3>3, <3>4 DEF IsRunning, IsStart, IsInterrupting
  <2> QED
    BY <1>3, <2>1 DEF WorkFrom
<1>12. CASE Crashes(K, L)
  BY <1>2, <1>3, <1>12 DEF Crashes, WorkFrom, IsStart, IsInterrupting, IsRunning, IsDone, IsAnswered
<1>13. CASE Garbles(K, L)
  <2>1. ASSUME NEW r
        PROVE  /\ IsDone(K, r) => IsDone(L, r)
               /\ IsAnswered(K, r) => IsAnswered(L, r)
    <3>1. PICK e \in Events : e = GarbledEvent /\ e.is = "garbled" /\ e.do = "none"
      <4>1. GarbledEvent \in Events /\ GarbledEvent.is = "garbled" /\ GarbledEvent.do = "none"
        BY NoRunIsARun DEF GarbledEvent, Events
      <4> QED
        BY <4>1
    <3> QED
      BY <1>1, <1>13, <3>1, OneMoreEvent DEF Garbles
  <2> QED
    BY <1>3, <1>13, <2>1 DEF WorkFrom, Garbles, IsStart, IsInterrupting, IsRunning
<1> QED
  BY <1>7, <1>8, <1>9, <1>10, <1>11, <1>12, <1>13 DEF AgentSteps

LEMMA NothingMore ==
    ASSUME NEW K, NEW L, K.wire = L.wire, K.running = L.running,
           K.active = L.active \/ K.active = NoTurn, K.events = L.events
    PROVE  WorkFrom(K, L, {})
BY NoneActive DEF WorkFrom, IsStart, IsRunning, IsActive, IsDone, IsInterrupting, IsAnswered

LEMMA BareWork ==
    ASSUME NEW K, NEW L, Bare(K), K.active = NoTurn \/ K.active = L.active
    PROVE  WorkFrom(K, L, {})
BY NoWorkInBare, NoneActive DEF WorkFrom, IsActive

LEMMA HeardWork ==
    ASSUME NEW K, NEW L, L.events \in Seq(Events), Hears(K, L)
    PROVE  WorkFrom(K, L, {})
<1>1. \A r : (IsDone(K, r) => IsDone(L, r)) /\ (IsAnswered(K, r) => IsAnswered(L, r))
  BY ReadWork DEF Hears, ReadsOne
<1> QED
  BY <1>1, NoneActive DEF Hears, WorkFrom, IsStart, IsRunning, IsActive, IsInterrupting

\* A message is written and perhaps an event read.
LEMMA WritesWork ==
    ASSUME NEW K, NEW L, L.wire \in Seq(Requests), L.events \in Seq(Events),
           NEW m \in Requests, Writes(K, L, m), ReadsOne(K, L), NEW own,
           m.do = "start" => own = {m.run},
           m.do = "interrupt" => IsActive(L, m.run)
    PROVE  WorkFrom(K, L, own)
<1>1. ASSUME NEW r
      PROVE  /\ (IsDone(K, r) => IsDone(L, r)) /\ (IsAnswered(K, r) => IsAnswered(L, r))
             /\ IsStart(K, r) => IsStart(L, r) \/ (m.do = "start" /\ r = m.run)
             /\ IsInterrupting(K, r) => IsInterrupting(L, r) \/ (m.do = "interrupt" /\ r = m.run)
             /\ IsRunning(K, r) => IsRunning(L, r)
             /\ IsActive(K, r) => IsActive(L, r)
  BY ReadWork, WrittenWork
<1> QED
  BY <1>1 DEF WorkFrom

\* The holder of the lane, at work for a new turn.
Begins(t, l) ==
    /\ t \in DOMAIN turns /\ turns[t].lane = l /\ InLane(t) /\ Holds(t, l) /\ ~turns[t].aborted
    /\ turns[t].pc \in {"waiting", "initialize", "thread", "start"}

LEMMA RunOfTurn ==
    ASSUME Types, NEW t \in DOMAIN turns
    PROVE  \A attempt \in {1, 2} : Run(t, attempt) \in Runs
<1>1. t \in 0 .. MaxTurns
  BY OwnRunType DEF Cancellers
<1> QED
  BY <1>1 DEF Run, Runs

\* Before the turn itself there is nothing to work at.
LEMMA AsksWork ==
    ASSUME Types, NEW t \in DOMAIN turns, NEW K \in LaneRecords, NEW L \in LaneRecords,
           Opens(t, K, L) \/ \E do \in {"models", "thread"} : AsksFor(do, t, K, L)
    PROVE  WorkFrom(K, L, {})
<1>1. /\ L.wire \in Seq(Requests) /\ L.events \in Seq(Events)
  BY DEF LaneRecords
<1>2. DOMAIN <<>> = {}
  BY EmptySeq
<1>0. \A attempt \in {1, 2} : Run(t, attempt) \in Runs
  BY RunOfTurn
<1>3. CASE Opens(t, K, L)
  <2>1. PICK m : m = Request("initialize", t, turns[t].attempt)
    OBVIOUS
  <2>2. turns[t].attempt \in {1, 2}
    BY TurnIsKnown DEF TurnRecords
  <2>3. m \in Requests /\ m.do = "initialize"
    BY <1>0, <2>1, <2>2, RequestIsOne
  <2>4. K.wire = Append(<<>>, m) /\ K.events = <<>> /\ K.running = <<>> /\ K.active = NoTurn
    BY <1>3, <2>1 DEF Opens
  <2>5. \A r : ~IsStart(K, r) /\ ~IsInterrupting(K, r)
    BY <2>3, <2>4, OnlyWritten
  <2>6. WorkFrom(K, L, {})
    BY <1>2, <2>4, <2>5, NoneActive DEF WorkFrom, IsRunning, IsDone, IsAnswered
  <2> QED
    BY <2>6
<1>4. CASE \E do \in {"models", "thread"} : AsksFor(do, t, K, L)
  <2>1. PICK do \in {"models", "thread"}, attempt \in {1, 2} :
           AsksFor(do, t, K, L) /\ Writes(K, L, Request(do, t, attempt))
    BY <1>4 DEF AsksFor
  <2>2. PICK m : m = Request(do, t, attempt)
    OBVIOUS
  <2>3. m \in Requests /\ m.do \notin {"start", "interrupt"}
    BY <1>0, <2>2, RequestIsOne
  <2>4. Writes(K, L, m) /\ ReadsOne(K, L)
    BY <2>1, <2>2 DEF AsksFor
  <2>5. PICK own : own = {}
    OBVIOUS
  <2>6. WorkFrom(K, L, own)
    BY <1>1, <2>3, <2>4, WritesWork
  <2> QED
    BY <2>5, <2>6
<1> QED
  BY <1>3, <1>4

LEMMA OwnerWork ==
    ASSUME Types, Types', NEW t \in DOMAIN turns, NEW K \in LaneRecords, NEW L \in LaneRecords,
           OwnerSteps(t, K, L)
    PROVE  /\ turns[t].pc \in {"waiting", "initialize", "thread", "start"}
           /\ \/ WorkFrom(K, L, {})
              \/ /\ StartsTurn(t, K, L) \/ StartsReading(t, K, L) \/ StreamsTurn(t, K, L)
                 /\ WorkFrom(K, L, {OwnRun(t)})
<1>1. /\ L.wire \in Seq(Requests) /\ L.events \in Seq(Events)
  BY DEF LaneRecords
<1>2. DOMAIN <<>> = {}
  BY EmptySeq
<1>3. CASE Opens(t, K, L)
  BY <1>3, AsksWork DEF Opens
<1>4. CASE \E do \in {"models", "thread"} : AsksFor(do, t, K, L)
  BY <1>4, AsksWork DEF AsksFor
<1>5. CASE StartsTurn(t, K, L)
  <2>1. PICK x \in K.threads :
           Writes(K, L, StartTurn(t, turns[t], x.thread, <<x.thread, turns[t].ctx>> \in L.prints))
    BY <1>5 DEF StartsTurn
  <2>2. x.thread \in Runs
    BY DEF LaneRecords, ThreadRecords
  <2>3. PICK omits \in BOOLEAN : omits = (<<x.thread, turns[t].ctx>> \in L.prints)
    <3>1. (<<x.thread, turns[t].ctx>> \in L.prints) \in BOOLEAN
      OBVIOUS
    <3> QED
      BY <3>1, Zenon
  <2>4. PICK m : m = StartTurn(t, turns[t], x.thread, omits)
    OBVIOUS
  <2>5. m \in Requests /\ m.do = "start" /\ m.run = OwnRun(t)
    BY <2>2, <2>4, StartsWithIts
  <2>6. Writes(K, L, m) /\ ReadsOne(K, L)
    BY <1>5, <2>1, <2>3, <2>4 DEF StartsTurn
  <2>7. PICK own : own = {OwnRun(t)}
    OBVIOUS
  <2>8. WorkFrom(K, L, own)
    BY <1>1, <2>5, <2>6, <2>7, WritesWork
  <2> QED
    BY <1>5, <2>7, <2>8 DEF StartsTurn
<1>6. CASE StartsReading(t, K, L)
  <2>1. \A r : (IsDone(K, r) => IsDone(L, r)) /\ (IsAnswered(K, r) => IsAnswered(L, r))
    BY <1>1, <1>6, ReadWork DEF StartsReading, ReadsOne
  <2>2. IsAnswered(L, OwnRun(t))
    <3>1. 1 \in DOMAIN L.events /\ L.events[1] = Head(L.events)
      BY <1>1, <1>6, TailProperties DEF StartsReading
    <3> QED
      BY <1>6, <3>1 DEF StartsReading, IsAnswered
  <2>3. \A r : IsActive(K, r) => r = OwnRun(t)
    BY <1>6 DEF StartsReading, IsActive
  <2>4. WorkFrom(K, L, {OwnRun(t)})
    BY <1>6, <2>1, <2>2, <2>3 DEF StartsReading, WorkFrom, IsStart, IsRunning, IsInterrupting
  <2> QED
    BY <1>6, <2>4 DEF StartsReading
<1>7. CASE StreamsTurn(t, K, L)
  <2>1. PICK omits \in BOOLEAN :
           \/ Writes(K, L, StartTurn(t, turns[t], NoRun, omits)) /\ K.events = L.events
           \/ K.wire = Append(<<>>, StartTurn(t, turns[t], NoRun, omits)) /\ K.events = <<>>
              /\ K.running = <<>>
    <3>1. PICK o \in BOOLEAN : o = (adapter = "claude" /\ <<NoRun, turns[t].ctx>> \in L.prints)
      <4>1. (adapter = "claude" /\ <<NoRun, turns[t].ctx>> \in L.prints) \in BOOLEAN
        OBVIOUS
      <4> QED
        BY <4>1, Zenon
    <3>2. \/ Writes(K, L, StartTurn(t, turns[t], NoRun, o)) /\ K.events = L.events
          \/ K.wire = Append(<<>>, StartTurn(t, turns[t], NoRun, FALSE)) /\ K.events = <<>>
             /\ K.running = <<>>
      BY <1>7, <3>1 DEF StreamsTurn
    <3> QED
      BY <3>2
  <2>2. PICK m : m = StartTurn(t, turns[t], NoRun, omits)
    OBVIOUS
  <2>3. m \in Requests /\ m.do = "start" /\ m.run = OwnRun(t)
    BY <2>2, NoRunIsARun, StartsWithIts
  <2>4. PICK own : own = {OwnRun(t)}
    OBVIOUS
  <2>5. CASE Writes(K, L, m) /\ K.events = L.events
    <3>1. WorkFrom(K, L, own)
      BY <1>1, <2>3, <2>4, <2>5, WritesWork DEF ReadsOne
    <3> QED
      BY <1>7, <2>4, <3>1 DEF StreamsTurn
  <2>6. CASE K.wire = Append(<<>>, m) /\ K.events = <<>> /\ K.running = <<>>
    <3>1. \A r : (IsStart(K, r) => r = OwnRun(t)) /\ ~IsInterrupting(K, r)
      BY <2>3, <2>6, OnlyWritten
    <3>2. K.active = L.active
      BY <1>7 DEF StreamsTurn
    <3>3. WorkFrom(K, L, {OwnRun(t)})
      BY <1>2, <2>6, <3>1, <3>2 DEF WorkFrom, IsRunning, IsDone, IsAnswered, IsActive
    <3> QED
      BY <1>7, <3>3 DEF StreamsTurn
  <2> QED
    BY <2>1, <2>2, <2>5, <2>6
<1> QED
  BY <1>3, <1>4, <1>5, <1>6, <1>7 DEF OwnerSteps

\* The steps that are not the holder's.
OthersSteps(K, L) ==
    SameWork(K, L) \/ Quits(K) \/ Loses(K, L) \/ Hears(K, L) \/ Wakes(K, L)
    \/ Interrupts(K, L) \/ AgentSteps(K, L)

LEMMA OthersWork ==
    ASSUME NEW K \in LaneRecords, NEW L \in LaneRecords, OthersSteps(K, L)
    PROVE  WorkFrom(K, L, {})
<1>1. /\ L.wire \in Seq(Requests) /\ L.events \in Seq(Events)
  BY DEF LaneRecords
<1>2. CASE SameWork(K, L)
  BY <1>2, NothingMore DEF SameWork
<1>3. CASE Quits(K)
  BY <1>3, BareWork DEF Quits
<1>4. CASE Loses(K, L)
  BY <1>4, BareWork DEF Loses
<1>5. CASE Hears(K, L)
  BY <1>1, <1>5, HeardWork
<1>6. CASE Wakes(K, L)
  BY <1>6, BareWork DEF Wakes
<1>7. CASE Interrupts(K, L)
  <2>1. PICK m : m = [do |-> "interrupt", run |-> L.active.run]
    OBVIOUS
  <2>2. m \in Requests /\ m.do = "interrupt" /\ m.run = L.active.run
    BY <2>1 DEF LaneRecords, Requests
  <2>3. Writes(K, L, m) /\ ReadsOne(K, L) /\ IsActive(L, m.run)
    BY <1>7, <2>1, <2>2 DEF Interrupts, ReadsOne, IsActive
  <2>4. PICK own : own = {}
    OBVIOUS
  <2>5. WorkFrom(K, L, own)
    BY <1>1, <2>2, <2>3, WritesWork
  <2> QED
    BY <2>4, <2>5
<1>8. CASE AgentSteps(K, L)
  BY <1>8, AgentWork
<1> QED
  BY <1>2, <1>3, <1>4, <1>5, <1>6, <1>7, <1>8 DEF OthersSteps

\* The holder goes on with its turn.
GoesOnAs(t, pc, K, L) ==
    \/ pc = "initialize" /\ Opens(t, K, L)
    \/ pc \in {"models", "thread"} /\ AsksFor(pc, t, K, L)
    \/ pc = "start" /\ StartsTurn(t, K, L)
    \/ pc = "reading" /\ (StartsReading(t, K, L) \/ StreamsTurn(t, K, L))

OwnerMoves(t, l) ==
    /\ BusyForm(t) /\ turns[t].lane = l /\ lanes'[l].queue = lanes[l].queue
    /\ \E pc \in Pcs : /\ MovesTo(t, pc, turns[t].attempt, turns[t].answer)
                       /\ GoesOnAs(t, pc, lanes'[l], lanes[l])

\* The steps that are not a turn's move from one state of its work to the next.
LaneForm(l) ==
    \/ OthersSteps(lanes'[l], lanes[l])
    \/ \E t \in DOMAIN turns : OwnerMoves(t, l)

LEMMA BusyLaneForm ==
    ASSUME NEW t \in DOMAIN turns, BusyForm(t)
    PROVE  LaneForm(turns[t].lane)
<1>1. PICK l : l = turns[t].lane
  OBVIOUS
<1>2. PICK K : K = lanes'[l]
  OBVIOUS
<1>3. PICK L : L = lanes[l]
  OBVIOUS
<1>4. {"initialize", "models", "thread", "start", "reading"} \subseteq Pcs
  BY DEF Pcs, Busy
<1>5. TurnForm(t)
  BY DEF BusyForm, TurnMoves
<1>6. \/ SameWork(K, L) \/ Quits(K) \/ Loses(K, L) \/ Hears(K, L)
      \/ /\ K.queue = L.queue
         /\ \E pc \in {"initialize", "models", "thread", "start", "reading"} :
               MovesTo(t, pc, turns[t].attempt, turns[t].answer) /\ GoesOnAs(t, pc, K, L)
  BY <1>1, <1>2, <1>3, <1>5 DEF TurnForm, StopsWith, GoesOnAs
<1>7. CASE SameWork(K, L) \/ Quits(K) \/ Loses(K, L) \/ Hears(K, L)
  BY <1>1, <1>2, <1>3, <1>7 DEF LaneForm, OthersSteps
<1>8. CASE /\ K.queue = L.queue
           /\ \E pc \in {"initialize", "models", "thread", "start", "reading"} :
               MovesTo(t, pc, turns[t].attempt, turns[t].answer) /\ GoesOnAs(t, pc, K, L)
  <2>1. \E pc \in Pcs : MovesTo(t, pc, turns[t].attempt, turns[t].answer) /\ GoesOnAs(t, pc, K, L)
    BY <1>4, <1>8
  <2>2. OwnerMoves(t, l)
    BY <1>1, <1>2, <1>3, <1>8, <2>1 DEF OwnerMoves
  <2> QED
    BY <1>1, <2>2 DEF LaneForm
<1> QED
  BY <1>6, <1>7, <1>8

LEMMA LaneForms ==
    ASSUME Types, StepForm, NEW l \in Lanes
    PROVE  LaneForm(l)
<1>1. CASE \E a, new : Calling(a, new)
  BY <1>1, SameWorkHere DEF Calling, LaneForm, OthersSteps
<1>2. CASE \E f \in Lanes : WarmMoves(f)
  BY <1>2, SameWorkHere DEF WarmMoves, LaneForm, OthersSteps
<1>3. CASE \E t \in DOMAIN turns : AwaitMoves(t) /\ ~turns[t].aborted
  BY <1>3, SameWorkHere DEF AwaitMoves, LaneForm, OthersSteps
<1>4. CASE \E t \in DOMAIN turns : DropMoves(t)
  BY <1>4, SameWorkHere, EmptyLaneQuits DEF DropMoves, LaneForm, OthersSteps
<1>5. ASSUME NEW t \in DOMAIN turns, NEW k \in Lanes, EnterMoves(t, k), ~turns[t].aborted
      PROVE  SameWork(lanes'[l], lanes[l]) \/ Quits(lanes'[l])
  <2>1. CASE l = k
    BY <1>5, <2>1 DEF EnterMoves, EntersLane
  <2>2. CASE l # k
    <3>1. adapter \in {"codex", "claude", "stdio"}
      BY BackendsAssumption DEF Types
    <3>2. lanes'[l] = lanes[l] \/ lanes'[l] = EmptyLane
      BY <1>5, <2>2, <3>1 DEF EnterMoves
    <3> QED
      BY <3>2, SameWorkHere, EmptyLaneQuits
  <2> QED
    BY <2>1, <2>2
<1>6. ASSUME NEW t \in DOMAIN turns, BusyForm(t) PROVE LaneForm(l)
  <2>1. CASE l # turns[t].lane
    BY <1>6, <2>1, SameWorkHere DEF BusyForm, TurnMoves, LaneForm, OthersSteps
  <2>2. CASE l = turns[t].lane
    BY <1>6, <2>2, BusyLaneForm
  <2> QED
    BY <2>1, <2>2
<1>7. ASSUME NEW c \in Cancellers, CancelForm(c) PROVE LaneForm(l)
  <2>1. CASE lanes' = lanes
    BY <2>1, SameWorkHere DEF LaneForm, OthersSteps
  <2>2. CASE CancelAtLane(c)
    <3>1. CASE l # Head(cancels[c].left)
      BY <2>2, <3>1, SameWorkHere DEF CancelAtLane, LaneForm, OthersSteps
    <3>2. CASE l = Head(cancels[c].left)
      BY <2>2, <3>2 DEF CancelAtLane, LaneForm, OthersSteps
    <3> QED
      BY <3>1, <3>2
  <2> QED
    BY <1>7, <2>1, <2>2 DEF CancelForm, CancelMoves
<1>8. CASE \E k \in Lanes : AgentForm(k)
  BY <1>8, SameWorkHere DEF AgentForm, LaneForm, OthersSteps
<1> QED
  BY <1>1, <1>2, <1>3, <1>4, <1>5, <1>6, <1>7, <1>8 DEF StepForm, OtherForm, LaneForm, OthersSteps

\* A turn sets an agent to work, or hears that it has.
SetsToWork(t, l) ==
    /\ Begins(t, l)
    /\ \E pc \in {"start", "reading"} :
          /\ MovesTo(t, pc, turns[t].attempt, turns[t].answer)
          /\ pc = "reading" \/ adapter = "codex"
    /\ StartsTurn(t, lanes'[l], lanes[l]) \/ StartsReading(t, lanes'[l], lanes[l])
       \/ StreamsTurn(t, lanes'[l], lanes[l])
    /\ WorkFrom(lanes'[l], lanes[l], {OwnRun(t)})

LaneWork(l) == WorkFrom(lanes'[l], lanes[l], {}) \/ \E t \in DOMAIN turns : SetsToWork(t, l)

LEMMA OwnersWork ==
    ASSUME Types, Types', NEW t \in DOMAIN turns, NEW l \in Lanes, OwnerMoves(t, l)
    PROVE  LaneWork(l)
<1>1. PICK K \in LaneRecords : K = lanes'[l]
  BY DEF Types
<1>2. PICK L \in LaneRecords : L = lanes[l]
  BY DEF Types
<1>3. PICK pc \in Pcs : MovesTo(t, pc, turns[t].attempt, turns[t].answer) /\ GoesOnAs(t, pc, K, L)
  BY <1>1, <1>2 DEF OwnerMoves
<1>4. OwnerSteps(t, K, L)
  BY <1>3 DEF GoesOnAs, OwnerSteps
<1>5. /\ turns[t].pc \in {"waiting", "initialize", "thread", "start"}
      /\ \/ WorkFrom(K, L, {})
         \/ /\ StartsTurn(t, K, L) \/ StartsReading(t, K, L) \/ StreamsTurn(t, K, L)
            /\ WorkFrom(K, L, {OwnRun(t)})
  BY <1>4, OwnerWork
<1>6. Begins(t, l)
  BY <1>5 DEF OwnerMoves, BusyForm, Begins
<1>7. CASE WorkFrom(K, L, {})
  BY <1>1, <1>2, <1>7 DEF LaneWork
<1>8. CASE pc \in {"initialize", "models", "thread"}
  <2>1. WorkFrom(K, L, {})
    <3>1. Opens(t, K, L) \/ \E do \in {"models", "thread"} : AsksFor(do, t, K, L)
      BY <1>3, <1>8 DEF GoesOnAs
    <3> QED
      BY <3>1, AsksWork
  <2> QED
    BY <1>7, <2>1
<1>9. CASE pc \in {"start", "reading"} /\ ~WorkFrom(K, L, {})
  <2>1. pc = "reading" \/ adapter = "codex"
    BY <1>3 DEF GoesOnAs, StartsTurn, Opens, AsksFor
  <2>2. SetsToWork(t, l)
    BY <1>1, <1>2, <1>3, <1>5, <1>6, <1>9, <2>1 DEF SetsToWork
  <2> QED
    BY <2>2 DEF LaneWork
<1> QED
  BY <1>3, <1>7, <1>8, <1>9 DEF GoesOnAs

LEMMA LaneWorks ==
    ASSUME Types, Types', StepForm, NEW l \in Lanes
    PROVE  LaneWork(l)
<1>1. PICK K \in LaneRecords : K = lanes'[l]
  BY DEF Types
<1>2. PICK L \in LaneRecords : L = lanes[l]
  BY DEF Types
<1>3. LaneForm(l)
  BY LaneForms
<1>4. CASE \E t \in DOMAIN turns : OwnerMoves(t, l)
  BY <1>4, OwnersWork
<1>5. CASE OthersSteps(K, L)
  <2>1. WorkFrom(K, L, {})
    BY <1>5, OthersWork
  <2> QED
    BY <1>1, <1>2, <2>1 DEF LaneWork
<1> QED
  BY <1>1, <1>2, <1>3, <1>4, <1>5 DEF LaneForm

-----------------------------------------------------------------------------
(***************************************************************************)
(* All work in a lane is for a turn that went through it                   *)
(***************************************************************************)
AtWork == {"start", "reading"} \cup Ended

\* The same attempt of the same turn, still at work or over.
WorksOn(t) ==
    /\ t \in DOMAIN turns' /\ turns'[t].pc \in AtWork /\ turns'[t].lane = turns[t].lane
    /\ turns'[t].attempt = turns[t].attempt

LEMMA MovedAtWork ==
    ASSUME NEW t \in DOMAIN turns, turns[t].pc \in AtWork,
           NEW u \in DOMAIN turns, NEW pc, NEW attempt, NEW answer, MovesTo(u, pc, attempt, answer),
           u = t => pc \in AtWork /\ attempt = turns[t].attempt
    PROVE  WorksOn(t)
<1>1. CASE u = t
  BY <1>1 DEF MovesTo, WorksOn
<1>2. CASE u # t
  BY <1>2 DEF MovesTo, WorksOn
<1> QED
  BY <1>1, <1>2

LEMMA TurnAtWork ==
    ASSUME Types, CancelsInOrder, StepForm, NEW t \in DOMAIN turns, turns[t].pc \in AtWork
    PROVE  WorksOn(t) \/ Quits(lanes'[turns[t].lane])
<1>0. /\ turns[t].pc \in {"start", "reading", "done", "failed", "dropped"}
      /\ {"done", "failed", "dropped", "start", "reading"} \subseteq AtWork
  BY DEF AtWork, Ended
<1>1. turns' = turns => WorksOn(t)
  BY DEF WorksOn
<1>2. CASE \E a, new : Calling(a, new)
  BY <1>2, CallingKeeps DEF TurnsKept, WorksOn
<1>3. ASSUME NEW u \in DOMAIN turns, AwaitMoves(u) PROVE WorksOn(t)
  BY <1>0, <1>3 DEF AwaitMoves, WorksOn
<1>4. ASSUME NEW u \in DOMAIN turns, DropMoves(u) PROVE WorksOn(t)
  BY <1>0, <1>4, MovedAtWork DEF DropMoves
<1>5. ASSUME NEW u \in DOMAIN turns, NEW l \in Lanes, EnterMoves(u, l) PROVE WorksOn(t)
  BY <1>0, <1>5 DEF EnterMoves, EntersLane, WorksOn
<1>6. ASSUME NEW u \in DOMAIN turns, BusyForm(u) PROVE WorksOn(t) \/ Quits(lanes'[turns[t].lane])
  <2>1. TurnForm(u)
    BY <1>6 DEF BusyForm, TurnMoves
  <2>2. PICK K : K = lanes'[turns[u].lane]
    OBVIOUS
  <2>3. PICK L : L = lanes[turns[u].lane]
    OBVIOUS
  <2>4. \/ turns' = turns
        \/ Quits(K) /\ \E answer : MovesTo(u, "waiting", 2, answer)
        \/ \E pc \in {"done", "failed"} : \E answer : MovesTo(u, pc, turns[u].attempt, answer)
        \/ \E pc : /\ MovesTo(u, pc, turns[u].attempt, turns[u].answer)
                   /\ turns[u].pc = "start" => pc = "reading"
                   /\ turns[u].pc \in {"waiting", "initialize", "thread", "start"}
    BY <2>1, <2>2, <2>3 DEF TurnForm, Opens, AsksFor, StartsTurn, StartsReading, StreamsTurn
  <2>5. CASE Quits(K) /\ \E answer : MovesTo(u, "waiting", 2, answer)
    <3>1. CASE u = t
      BY <2>2, <2>5, <3>1
    <3>2. CASE u # t
      BY <2>5, <3>2, MovedAtWork
    <3> QED
      BY <3>1, <3>2
  <2>6. CASE \E pc \in {"done", "failed"} : \E answer : MovesTo(u, pc, turns[u].attempt, answer)
    BY <1>0, <2>6, MovedAtWork
  <2>7. ASSUME NEW pc, MovesTo(u, pc, turns[u].attempt, turns[u].answer),
               turns[u].pc = "start" => pc = "reading",
               turns[u].pc \in {"waiting", "initialize", "thread", "start"}
        PROVE  WorksOn(t)
    BY <1>0, <2>7, MovedAtWork
  <2> QED
    BY <1>1, <2>4, <2>5, <2>6, <2>7
<1>7. ASSUME NEW c \in Cancellers, CancelForm(c) PROVE WorksOn(t)
  <2>1. turns' = turns \/ CancelEnds(c)
    BY <1>7 DEF CancelForm, CancelMoves, CancelAtLane, CancelPasses, CancelStaysAt
  <2>2. CASE CancelEnds(c) /\ c # 0
    <3>1. c \in DOMAIN turns /\ turns[c].pc = "cancelling"
      BY <1>7, <2>2 DEF CancelsInOrder, CancelForm
    <3> QED
      BY <1>0, <2>2, <3>1, MovedAtWork DEF CancelEnds
  <2>3. CASE CancelEnds(c) /\ c = 0
    <3>1. turns' = turns
      BY <2>3 DEF CancelEnds
    <3> QED
      BY <1>1, <3>1
  <2> QED
    BY <1>1, <2>1, <2>2, <2>3
<1> QED
  BY <1>1, <1>2, <1>3, <1>4, <1>5, <1>6, <1>7 DEF StepForm, OtherForm, WarmMoves, AgentForm

Known(L, r) == IsStart(L, r) \/ IsBegun(L, r) \/ IsDone(L, r)
Its(r, l) ==
    \E t \in DOMAIN turns : r = OwnRun(t) /\ turns[t].lane = l /\ turns[t].pc \in AtWork
WorkIsKnown == \A l \in Lanes : \A r : Known(lanes[l], r) => Its(r, l)

LEMMA KnownFrom ==
    ASSUME NEW K, NEW L, NEW own, WorkFrom(K, L, own), NEW r, Known(K, r)
    PROVE  Known(L, r) \/ r \in own
BY DEF WorkFrom, Known, IsBegun

LEMMA NothingKnown ==
    ASSUME NEW K, Quits(K), NEW r
    PROVE  ~Known(K, r)
BY NoWorkInBare, NoneActive DEF Quits, Known, IsBegun

LEMMA StillIts ==
    ASSUME Types, CancelsInOrder, StepForm, NEW l \in Lanes, NEW r, Its(r, l), Known(lanes'[l], r)
    PROVE  Its(r, l)'
<1>1. PICK t \in DOMAIN turns : r = OwnRun(t) /\ turns[t].lane = l /\ turns[t].pc \in AtWork
  BY DEF Its
<1>2. ~Quits(lanes'[turns[t].lane])
  BY <1>1, NothingKnown
<1>3. WorksOn(t)
  BY <1>1, <1>2, TurnAtWork
<1>4. OwnRun(t)' = OwnRun(t)
  BY <1>3 DEF WorksOn, OwnRun
<1> QED
  BY <1>1, <1>3, <1>4 DEF WorksOn, Its

LEMMA NowIts ==
    ASSUME NEW t \in DOMAIN turns, NEW l \in Lanes, SetsToWork(t, l), NEW r, r = OwnRun(t)
    PROVE  Its(r, l)'
<1>1. PICK pc \in {"start", "reading"} : MovesTo(t, pc, turns[t].attempt, turns[t].answer)
  BY DEF SetsToWork
<1>2. /\ turns'[t].pc \in AtWork /\ turns'[t].lane = l /\ OwnRun(t)' = OwnRun(t)
      /\ t \in DOMAIN turns'
  BY <1>1 DEF SetsToWork, Begins, MovesTo, OwnRun, AtWork
<1> QED
  BY <1>2 DEF Its

LEMMA WorkIsKnownStays ==
    ASSUME InOrder, Types', StepForm, WorkIsKnown
    PROVE  WorkIsKnown'
<1> SUFFICES ASSUME NEW l \in Lanes, NEW r, Known(lanes'[l], r)
             PROVE  Its(r, l)'
  BY DEF WorkIsKnown
<1>1. Types /\ CancelsInOrder
  BY DEF InOrder, Places
<1>2. LaneWork(l)
  BY <1>1, LaneWorks
<1>3. CASE Known(lanes[l], r)
  BY <1>1, <1>3, StillIts DEF WorkIsKnown
<1>4. CASE ~Known(lanes[l], r)
  <2>1. ~WorkFrom(lanes'[l], lanes[l], {})
    BY <1>4, KnownFrom
  <2>2. PICK t \in DOMAIN turns : SetsToWork(t, l)
    BY <1>2, <2>1 DEF LaneWork
  <2>3. r = OwnRun(t)
    BY <1>4, <2>2, KnownFrom DEF SetsToWork
  <2> QED
    BY <2>2, <2>3, NowIts
<1> QED
  BY <1>3, <1>4

\* Who is in a lane was there before, or enters it.
LEMMA TurnInFrom ==
    ASSUME Types, CancelsInOrder, StepForm, NEW t, NEW l \in Lanes, TurnIn(t, l)'
    PROVE  TurnIn(t, l) \/ (t \in DOMAIN turns /\ EnterMoves(t, l) /\ ~turns[t].aborted)
<1>0. /\ t \in DOMAIN turns' /\ turns'[t].lane = l
      /\ turns'[t].pc \in {"waiting", "initialize", "models", "thread", "start", "reading"}
  BY DEF TurnIn, InLane, Busy
<1>1. turns' = turns => TurnIn(t, l)
  BY DEF TurnIn, InLane
<1>2. ASSUME NEW a, NEW new, Calling(a, new) PROVE TurnIn(t, l)
  <2>1. CASE t \in DOMAIN turns
    BY <1>0, <1>2, <2>1, CallingKeeps DEF TurnIn, InLane, Busy
  <2>2. CASE t \notin DOMAIN turns
    <3>1. turns'[t].lane = 0
      BY <1>0, <1>2, <2>2 DEF Calling, Adds
    <3> QED
      BY <1>0, <3>1 DEF Lanes
  <2> QED
    BY <2>1, <2>2
<1>3. ASSUME NEW u \in DOMAIN turns, AwaitMoves(u) PROVE TurnIn(t, l)
  BY <1>0, <1>3 DEF AwaitMoves, TurnIn, InLane, Busy
<1>4. ASSUME NEW u \in DOMAIN turns, DropMoves(u) PROVE TurnIn(t, l)
  BY <1>0, <1>4 DEF DropMoves, MovesTo, TurnIn, InLane, Busy
<1>5. ASSUME NEW u \in DOMAIN turns, NEW k \in Lanes, EnterMoves(u, k), ~turns[u].aborted
      PROVE  TurnIn(t, l) \/ (t \in DOMAIN turns /\ EnterMoves(t, l) /\ ~turns[t].aborted)
  <2>1. /\ DOMAIN turns' = DOMAIN turns /\ turns'[u].lane = k
        /\ \A x \in DOMAIN turns : x # u => turns'[x] = turns[x]
    BY <1>5 DEF EnterMoves, EntersLane
  <2>2. CASE t = u
    <3>1. k = l
      BY <1>0, <2>1, <2>2
    <3> QED
      BY <1>5, <2>2, <3>1
  <2>3. CASE t # u
    BY <1>0, <2>1, <2>3 DEF TurnIn, InLane, Busy
  <2> QED
    BY <2>2, <2>3
<1>6. ASSUME NEW u \in DOMAIN turns, BusyForm(u) PROVE TurnIn(t, l)
  <2>1. turns' = turns \/ \E pc, attempt, answer : MovesTo(u, pc, attempt, answer)
    BY <1>6, BusyQueue DEF BusyForm, TurnMoves
  <2>2. InLane(u)
    BY <1>6 DEF BusyForm
  <2> QED
    BY <1>0, <1>1, <2>1, <2>2 DEF MovesTo, TurnIn, InLane, Busy
<1>7. ASSUME NEW c \in Cancellers, CancelForm(c) PROVE TurnIn(t, l)
  <2>1. turns' = turns \/ CancelEnds(c)
    BY <1>7 DEF CancelForm, CancelMoves, CancelAtLane, CancelPasses, CancelStaysAt
  <2>2. CASE CancelEnds(c) /\ c # 0
    BY <1>0, <2>2 DEF CancelEnds, MovesTo, TurnIn, InLane, Busy
  <2>3. CASE CancelEnds(c) /\ c = 0
    BY <1>1, <2>3 DEF CancelEnds
  <2> QED
    BY <1>1, <2>1, <2>2, <2>3
<1> QED
  BY <1>1, <1>2, <1>3, <1>4, <1>5, <1>6, <1>7 DEF StepForm, OtherForm, WarmMoves, AgentForm

\* Work for a turn, by its number.
WorksFor(x, l) == \E r : r[1] = x /\ Works(lanes[l], r)

LEMMA WorksIsKnown ==
    ASSUME NEW L, NEW r, Works(L, r)
    PROVE  Known(L, r)
BY DEF Works, Known, IsBegun

LEMMA WorkersAreTurns ==
    ASSUME Types, WorkIsKnown, NEW l \in Lanes, NEW x, WorksFor(x, l)
    PROVE  /\ x \in DOMAIN turns /\ Works(lanes[l], OwnRun(x)) /\ turns[x].lane = l
           /\ turns[x].pc \in AtWork
<1>1. PICK r : r[1] = x /\ Works(lanes[l], r)
  BY DEF WorksFor
<1>2. PICK t \in DOMAIN turns : r = OwnRun(t) /\ turns[t].lane = l /\ turns[t].pc \in AtWork
  BY <1>1, WorksIsKnown DEF WorkIsKnown, Its
<1>3. r[1] = t
  BY <1>2, OwnRunType
<1> QED
  BY <1>1, <1>2, <1>3

LEMMA WorksForFrom ==
    ASSUME InOrder, Types', StepForm, WorkIsKnown, NEW l \in Lanes, NEW x, WorksFor(x, l)'
    PROVE  x \in DOMAIN turns /\ (WorksFor(x, l) \/ SetsToWork(x, l))
<1>1. PICK r : r[1] = x /\ Works(lanes[l], r)'
  BY DEF WorksFor
<1>0. Types /\ adapter' = adapter
  BY StepsKeep DEF InOrder, Places, TurnsKept
<1>2. LaneWork(l)
  BY <1>0, LaneWorks
<1>3. \A own : WorkFrom(lanes'[l], lanes[l], own) => Works(lanes[l], r) \/ r \in own
  BY <1>0, <1>1 DEF WorkFrom, Works
<1>4. CASE Works(lanes[l], r)
  <2>1. WorksFor(x, l)
    BY <1>1, <1>4 DEF WorksFor
  <2> QED
    BY <1>0, <2>1, WorkersAreTurns
<1>5. CASE ~Works(lanes[l], r)
  <2>1. ~WorkFrom(lanes'[l], lanes[l], {})
    BY <1>3, <1>5
  <2>2. PICK t \in DOMAIN turns : SetsToWork(t, l)
    BY <1>2, <2>1 DEF LaneWork
  <2>3. r = OwnRun(t)
    BY <1>3, <1>5, <2>2 DEF SetsToWork
  <2>4. x = t
    BY <1>0, <1>1, <2>3, OwnRunType
  <2> QED
    BY <2>2, <2>4
<1> QED
  BY <1>4, <1>5

-----------------------------------------------------------------------------
(***************************************************************************)
(* claude_app: a process works for one session                             *)
(***************************************************************************)
\* The agent of a lane is told, or is about to be, of a session.
Tells(L, s) ==
    \/ \E u \in L.users : u[2] = s
    \/ \E i \in DOMAIN L.wire : L.wire[i].do = "start" /\ L.wire[i].session = s
Serves(l, s) == \E t \in DOMAIN turns : turns[t].session = s /\ (TurnIn(t, l) \/ WorksFor(t, l))
SlotOf(l, s) == slots.session = s /\ l \in {slots.discovery, slots.patch}
Has(l, s) == Tells(lanes[l], s) \/ Serves(l, s) \/ SlotOf(l, s)

OneSession ==
    adapter = "claude" =>
        \A l \in Lanes : \A s, v : Has(l, s) /\ Has(l, v) => s = v

LEMMA ToldFrom ==
    ASSUME InOrder, Types', StepForm, NEW l \in Lanes, NEW s, Tells(lanes'[l], s)
    PROVE  Has(l, s)
<1>1. FromBefore(l)
  <2>1. LaneStep(l) /\ LaneInOrder(lanes[l]) /\ Types
    BY LaneSteps DEF InOrder, LanesInOrder, LaneInOrder
  <2> QED
    BY <2>1, ContentsFrom
<1>2. CASE \E u \in lanes'[l].users : u[2] = s
  <2>1. PICK u \in lanes'[l].users : u[2] = s
    BY <1>2
  <2>2. CASE u \in lanes[l].users
    BY <2>1, <2>2 DEF Has, Tells
  <2>3. CASE u \notin lanes[l].users
    <3>1. PICK j \in DOMAIN lanes[l].wire :
             lanes[l].wire[j].do = "start" /\ u = <<lanes[l].wire[j].thread, lanes[l].wire[j].session>>
      BY <1>1, <2>1, <2>3 DEF FromBefore
    <3>2. lanes[l].wire[j].session = s
      BY <2>1, <3>1
    <3> QED
      BY <3>1, <3>2 DEF Has, Tells
  <2> QED
    BY <2>2, <2>3
<1>3. CASE \E i \in DOMAIN lanes'[l].wire : lanes'[l].wire[i].do = "start" /\ lanes'[l].wire[i].session = s
  <2>1. PICK i \in DOMAIN lanes'[l].wire : lanes'[l].wire[i].do = "start" /\ lanes'[l].wire[i].session = s
    BY <1>3
  <2>2. \/ \E j \in DOMAIN lanes[l].wire : lanes'[l].wire[i] = lanes[l].wire[j]
        \/ \E t \in DOMAIN turns : AsksForTurn(t, l, lanes'[l].wire[i])
    BY <1>1, <2>1 DEF FromBefore
  <2>3. CASE \E j \in DOMAIN lanes[l].wire : lanes'[l].wire[i] = lanes[l].wire[j]
    BY <2>1, <2>3 DEF Has, Tells
  <2>4. CASE \E t \in DOMAIN turns : AsksForTurn(t, l, lanes'[l].wire[i])
    BY <2>1, <2>4 DEF Has, Serves, AsksForTurn, TurnIn
  <2> QED
    BY <2>2, <2>3, <2>4
<1> QED
  BY <1>2, <1>3 DEF Tells

LEMMA ServesFrom ==
    ASSUME InOrder, Types', StepForm, WorkIsKnown, NEW l \in Lanes, NEW s, Serves(l, s)'
    PROVE  Has(l, s) \/ \E t \in DOMAIN turns : EnterMoves(t, l) /\ s = turns[t].session
<1>0. Types /\ CancelsInOrder /\ TurnsKept
  BY StepsKeep DEF InOrder, Places
<1>1. PICK t \in DOMAIN turns' : turns'[t].session = s /\ (TurnIn(t, l)' \/ WorksFor(t, l)')
  BY DEF Serves
<1>2. CASE TurnIn(t, l)'
  <2>1. t \in DOMAIN turns /\ (TurnIn(t, l) \/ EnterMoves(t, l))
    BY <1>0, <1>2, TurnInFrom DEF TurnIn
  <2>2. turns[t].session = s
    BY <1>0, <1>1, <2>1 DEF TurnsKept
  <2> QED
    BY <2>1, <2>2 DEF Has, Serves
<1>3. CASE WorksFor(t, l)'
  <2>1. t \in DOMAIN turns /\ (WorksFor(t, l) \/ SetsToWork(t, l))
    BY <1>3, WorksForFrom
  <2>2. turns[t].session = s
    BY <1>0, <1>1, <2>1 DEF TurnsKept
  <2>3. WorksFor(t, l) \/ TurnIn(t, l)
    BY <2>1 DEF SetsToWork, Begins, TurnIn
  <2> QED
    BY <2>1, <2>2, <2>3 DEF Has, Serves
<1> QED
  BY <1>1, <1>2, <1>3

LEMMA SlotFrom ==
    ASSUME InOrder, StepForm, NEW l \in Lanes, adapter = "claude", NEW s, SlotOf(l, s)'
    PROVE  Has(l, s) \/ \E t \in DOMAIN turns : EnterMoves(t, l) /\ s = turns[t].session
<1>0. 0 \notin Lanes
  BY DEF Lanes
<1>1. CASE slots' = slots
  BY <1>1 DEF SlotOf, Has
<1>2. CASE \E f \in Lanes : WarmMoves(f)
  BY <1>0, <1>2 DEF WarmMoves, SlotOf
<1>3. ASSUME NEW t \in DOMAIN turns, NEW k \in Lanes, EnterMoves(t, k), slots' # slots
      PROVE  SlotOf(l, s) \/ (k = l /\ s = turns[t].session)
  <2>1. TakesSlot(turns[t].session, k)
    BY <1>3 DEF EnterMoves
  <2> QED
    BY <1>0, <1>3, <2>1 DEF TakesSlot, SlotOf
<1> QED
  BY <1>1, <1>2, <1>3, SlotsSame DEF Has

\* Nobody has a lane that is empty, or spawned ahead of its session.
LEMMA NobodyHas ==
    ASSUME InOrder, WorkIsKnown, adapter = "claude", NEW l \in Lanes, NEW s,
           (lanes[l] = EmptyLane /\ l \notin Referenced) \/ (l = slots.warm /\ slots.warm # 0)
    PROVE  ~Has(l, s)
<1>0. /\ Types /\ LaneInOrder(lanes[l]) /\ DOMAIN <<>> = {} /\ 0 \notin Lanes
      /\ TurnsInOrder
  BY EmptySeq DEF InOrder, LanesInOrder, LaneInOrder, Places, Lanes
<1>1. /\ lanes[l].queue = <<>> /\ lanes[l].wire = <<>> /\ lanes[l].running = <<>>
      /\ lanes[l].users = {} /\ \A i \in DOMAIN lanes[l].events : lanes[l].events[i].is # "completed"
      /\ l \notin {slots.discovery, slots.patch}
  <2>1. CASE lanes[l] = EmptyLane /\ l \notin Referenced
    BY <1>0, <2>1 DEF EmptyLane, Referenced
  <2>2. CASE l = slots.warm /\ slots.warm # 0
    BY <1>0, <2>2 DEF InOrder, SlotsInOrder, Unspoken
  <2> QED
    BY <2>1, <2>2
<1>2. ~Tells(lanes[l], s) /\ ~SlotOf(l, s)
  BY <1>0, <1>1 DEF Tells, SlotOf
<1>3. \A r : ~Works(lanes[l], r)
  <2>1. lanes[l].active = NoTurn
    BY <1>0 DEF LaneInOrder
  <2> QED
    BY <1>0, <1>1, <2>1, NoneActive DEF Works, IsStart, IsRunning, IsDone
<1>4. \A t \in DOMAIN turns : ~TurnIn(t, l)
  BY <1>0, <1>1 DEF TurnIn, TurnsInOrder, Queued
<1> QED
  BY <1>2, <1>3, <1>4 DEF Has, Serves, WorksFor

LEMMA EntersItsOwn ==
    ASSUME InOrder, WorkIsKnown, OneSession, adapter = "claude", NEW l \in Lanes,
           NEW t \in DOMAIN turns, EnterMoves(t, l), NEW s, Has(l, s)
    PROVE  s = turns[t].session
<1>1. ~((lanes[l] = EmptyLane /\ l \notin Referenced) \/ (l = slots.warm /\ slots.warm # 0))
  BY NobodyHas
<1>2. TakesSlot(turns[t].session, l)
  BY DEF EnterMoves
<1>3. SlotOf(l, turns[t].session)
  BY <1>1, <1>2 DEF TakesSlot, SlotOf
<1> QED
  BY <1>3 DEF OneSession, Has

LEMMA OneEnters ==
    ASSUME NEW l \in Lanes, NEW t \in DOMAIN turns, NEW u \in DOMAIN turns,
           EnterMoves(t, l), EnterMoves(u, l)
    PROVE  t = u
BY DEF EnterMoves, EntersLane

LEMMA OneSessionStays ==
    ASSUME InOrder, Types', StepForm, WorkIsKnown, OneSession
    PROVE  OneSession'
<1>0. adapter' = adapter
  BY StepsKeep DEF InOrder, Places, TurnsKept
<1> SUFFICES ASSUME adapter = "claude", NEW l \in Lanes, NEW s, NEW v, Has(l, s)', Has(l, v)'
             PROVE  s = v
  BY <1>0 DEF OneSession
<1>1. ASSUME NEW x, Has(l, x)'
      PROVE  Has(l, x) \/ \E t \in DOMAIN turns : EnterMoves(t, l) /\ x = turns[t].session
  <2>1. Tells(lanes'[l], x) \/ Serves(l, x)' \/ SlotOf(l, x)'
    BY <1>1 DEF Has
  <2> QED
    BY <2>1, ToldFrom, ServesFrom, SlotFrom
<1>2. Has(l, s) \/ \E t \in DOMAIN turns : EnterMoves(t, l) /\ s = turns[t].session
  BY <1>1
<1>3. Has(l, v) \/ \E t \in DOMAIN turns : EnterMoves(t, l) /\ v = turns[t].session
  BY <1>1
<1>4. CASE Has(l, s) /\ Has(l, v)
  BY <1>4 DEF OneSession
<1> QED
  BY <1>2, <1>3, <1>4, EntersItsOwn, OneEnters

-----------------------------------------------------------------------------
(***************************************************************************)
(* A prompt leaves out only what its conversation has                      *)
(***************************************************************************)
ContextInv ==
    InOrder /\ OneThread /\ CodexOwn /\ ContextKept /\ WorkIsKnown /\ OneSession

LEMMA InitContext == Init => ContextInv
<1> SUFFICES ASSUME Init PROVE ContextInv
  OBVIOUS
<1>1. /\ turns = <<>> /\ DOMAIN turns = {} /\ \A l \in Lanes : lanes[l] = EmptyLane
      /\ slots.discovery = 0 /\ slots.patch = 0 /\ 0 \notin Lanes
  BY EmptySeq DEF Init, Lanes
<1>2. Quits(EmptyLane) /\ DOMAIN <<>> = {} /\ ~EmptyLane.up /\ EmptyLane.prints = {}
      /\ EmptyLane.threads = {} /\ EmptyLane.users = {} /\ EmptyLane.wire = <<>>
  BY EmptyLaneQuits, EmptySeq DEF EmptyLane
<1>3. InOrder
  BY InitInOrder
<1>4. OneThread /\ CodexOwn /\ ContextKept
  BY <1>1, <1>2 DEF OneThread, CodexOwn, OwnThreads, ContextKept, KeepsContext
<1>5. WorkIsKnown
  BY <1>1, <1>2, NothingKnown DEF WorkIsKnown
<1>6. OneSession
  <2>1. ASSUME NEW l \in Lanes, NEW s PROVE ~Has(l, s)
    BY <1>1, <1>2 DEF Has, Tells, Serves, SlotOf
  <2> QED
    BY <2>1 DEF OneSession
<1> QED
  BY <1>3, <1>4, <1>5, <1>6 DEF ContextInv

LEMMA ContextStutters ==
    ASSUME ContextInv, UNCHANGED vars
    PROVE  ContextInv'
<1>1. UNCHANGED <<adapter, turns, lanes, slots, cancels, spec, faults>>
  BY DEF vars
<1>2. InOrder'
  BY OrderStutters DEF ContextInv
<1>3. OneThread' /\ CodexOwn'
  BY <1>1 DEF ContextInv, OneThread, CodexOwn
<1>4. ContextKept'
  <2>1. ASSUME NEW L PROVE KeepsContext(L)' <=> KeepsContext(L)
    BY <1>1 DEF KeepsContext
  <2> QED
    BY <1>1, <2>1 DEF ContextInv, ContextKept, KeepsContext
<1>5. WorkIsKnown'
  BY <1>1 DEF ContextInv, WorkIsKnown, Known, IsBegun, IsStart, IsRunning, IsActive, IsDone,
              IsAnswered, IsInterrupting, Its, OwnRun
<1>6. OneSession'
  <2>1. \A x, l : WorksFor(x, l)' <=> WorksFor(x, l)
    BY <1>1 DEF WorksFor, Works, IsStart, IsRunning, IsActive, IsDone
  <2>2. \A x, l : TurnIn(x, l)' <=> TurnIn(x, l)
    BY <1>1 DEF TurnIn, InLane
  <2>3. \A l, s : Has(l, s)' <=> Has(l, s)
    BY <1>1, <2>1, <2>2 DEF Has, Tells, Serves, SlotOf
  <2> QED
    BY <1>1, <2>3 DEF ContextInv, OneSession
<1> QED
  BY <1>2, <1>3, <1>4, <1>5, <1>6 DEF ContextInv

LEMMA ContextStays ==
    ASSUME ContextInv, [Next]_vars
    PROVE  ContextInv'
<1>1. CASE Next
  <2>1. InOrder'
    BY OrderStays DEF ContextInv
  <2>2. Types' /\ StepForm
    BY <1>1, NextStepForm DEF ContextInv
  <2>3. OneThread' /\ CodexOwn' /\ ContextKept'
    BY <2>2, OneThreadStays, CodexOwnStays, ContextKeptStays DEF ContextInv
  <2>4. WorkIsKnown' /\ OneSession'
    BY <2>2, WorkIsKnownStays, OneSessionStays DEF ContextInv
  <2> QED
    BY <2>1, <2>3, <2>4 DEF ContextInv
<1>2. CASE UNCHANGED vars
  BY <1>2, ContextStutters
<1> QED
  BY <1>1, <1>2

LEMMA TypesAreOK ==
    ASSUME ContextInv
    PROVE  TypeOK
<1>0. Types /\ Places /\ LanesInOrder /\ EngineInOrder /\ OneThread
  BY DEF ContextInv, InOrder
<1>1. ASSUME NEW t \in DOMAIN turns
      PROVE  /\ turns[t].pc \in Ended \cup Busy \cup {"called", "cancelling", "awaiting", "waiting"}
             /\ turns[t].lane \in Lanes \cup {0} /\ turns[t].awaits \in 0 .. Len(turns)
  BY <1>0, TurnIsKnown DEF TurnRecords, Pcs, EngineInOrder
<1>2. ASSUME NEW l \in Lanes
      PROVE  /\ IsInjective(lanes[l].queue) /\ ToSet(lanes[l].queue) \subseteq Cancellers
             /\ lanes[l].up => lanes[l].spawned
             /\ \A x, y \in lanes[l].threads : x.key = y.key => x = y
  <2>1. lanes[l].queue \in Seq(Cancellers)
    BY <1>0 DEF Types, LaneRecords
  <2>2. ToSet(lanes[l].queue) \subseteq Cancellers
    BY <2>1, LenProperties, ElementOfSeq DEF ToSet
  <2> QED
    BY <1>0, <2>2 DEF Places, QueuesInOrder, LanesInOrder, OneThread
<1>3. ToSet(<<slots.discovery, slots.patch, slots.warm>>) \subseteq Lanes \cup {0}
  BY <1>0 DEF Types, SlotRecords, ToSet
<1>4. \A s \in Sessions : spec[s] \in 0 .. Len(turns)
  <2>1. Len(turns) \in Nat /\ DOMAIN turns = 1 .. Len(turns)
    BY <1>0, LenProperties DEF Types
  <2>2. \A s \in Sessions : spec[s] = 0 \/ spec[s] \in DOMAIN turns
    BY <1>0 DEF EngineInOrder
  <2> QED
    BY <2>1, <2>2
<1> QED
  BY <1>1, <1>2, <1>3, <1>4 DEF TypeOK

LEMMA ContextIsKnownNow ==
    ASSUME ContextInv
    PROVE  ContextIsKnown
<1>1. ASSUME NEW l \in Lanes, NEW u \in lanes[l].users, NEW v \in lanes[l].users,
             adapter # "stdio", u[1] = v[1]
      PROVE  u[2] = v[2]
  <2>0. adapter \in {"codex", "claude"}
    BY <1>1, BackendsAssumption DEF ContextInv, InOrder, Types
  <2>1. CASE adapter = "codex"
    BY <1>1, <2>1 DEF ContextInv, CodexOwn, OwnThreads, ThreadOf
  <2>2. CASE adapter = "claude"
    <3>1. Has(l, u[2]) /\ Has(l, v[2])
      BY <1>1 DEF Has, Tells
    <3> QED
      BY <2>2, <3>1 DEF ContextInv, OneSession
  <2> QED
    BY <2>0, <2>1, <2>2
<1>2. ConversationsAreOwn
  BY <1>1 DEF ConversationsAreOwn
<1>3. ASSUME NEW l \in Lanes, NEW i \in DOMAIN lanes[l].wire, lanes[l].wire[i].do = "start",
             lanes[l].wire[i].omits
      PROVE  LastContext(lanes[l], lanes[l].wire[i].thread, i) \in {{lanes[l].wire[i].ctx}, {"refused"}}
  BY <1>3 DEF ContextInv, ContextKept, KeepsContext, Omits, OmitsRightly
<1> QED
  BY <1>2, <1>3, TypesAreOK DEF ContextIsKnown

\* A prompt says that its source context is unchanged only in a conversation of the very
\* process it is written to that was given this context last, and a conversation is never
\* another session's: whatever was cancelled, timed out, refused or lost in between.
THEOREM ContextIsAlwaysKnown == Spec => []ContextIsKnown
<1>1. Init => ContextInv
  BY InitContext
<1>2. ContextInv /\ [Next]_vars => ContextInv'
  BY ContextStays
<1>3. ContextInv => ContextIsKnown
  BY ContextIsKnownNow
<1> QED
  BY <1>1, <1>2, <1>3, PTL DEF Spec

\* A lane's queue holds each caller once, a living process is a spawned one, a conversation
\* has one thread, and turns, slots and speculations name lanes and turns there are.
THEOREM TypesAreAlwaysOK == Spec => []TypeOK
<1>1. Init => ContextInv
  BY InitContext
<1>2. ContextInv /\ [Next]_vars => ContextInv'
  BY ContextStays
<1>3. ContextInv => TypeOK
  BY TypesAreOK
<1> QED
  BY <1>1, <1>2, <1>3, PTL DEF Spec

-----------------------------------------------------------------------------
(***************************************************************************)
(* A run is started once, and is over when its interrupt is answered       *)
(***************************************************************************)
StartsOnce(w) ==
    \A i, j \in DOMAIN w :
        w[i].do = "start" /\ w[j].do = "start" /\ w[i].run = w[j].run => i = j
Stopped(e) == e.is = "response" /\ e.do = "interrupt" /\ e.ok

RunsInOrder(L) ==
    /\ \A r : IsStart(L, r) => ~IsBegun(L, r)
    /\ StartsOnce(L.wire)
    /\ IsInjective(L.running)
    /\ \A i \in DOMAIN L.events : Stopped(L.events[i]) => ~IsRunning(L, L.events[i].run)

LEMMA StartsOnceInTail ==
    ASSUME NEW s \in Seq(Requests), s # <<>>, StartsOnce(s)
    PROVE  /\ StartsOnce(Tail(s))
           /\ Head(s).do = "start" =>
                 \A i \in DOMAIN Tail(s) : Tail(s)[i].do = "start" => Tail(s)[i].run # Head(s).run
<1>1. /\ DOMAIN s = 1 .. Len(s) /\ Len(s) \in Nat \ {0} /\ s[1] = Head(s)
      /\ DOMAIN Tail(s) = 1 .. Len(s) - 1
      /\ \A i \in DOMAIN Tail(s) : i + 1 \in DOMAIN s /\ Tail(s)[i] = s[i + 1]
  BY TailProperties
<1>2. \A i, j \in DOMAIN Tail(s) : i + 1 = j + 1 => i = j
  BY <1>1
<1>3. \A i \in DOMAIN Tail(s) : i + 1 # 1
  BY <1>1
<1>4. 1 \in DOMAIN s
  BY <1>1
<1> QED
  BY <1>1, <1>2, <1>3, <1>4 DEF StartsOnce

LEMMA StartsOnceAppended ==
    ASSUME NEW s \in Seq(Requests), NEW m \in Requests, StartsOnce(s),
           m.do = "start" => \A i \in DOMAIN s : s[i].do = "start" => s[i].run # m.run
    PROVE  StartsOnce(Append(s, m))
<1> DEFINE a == Append(s, m)
<1>1. /\ Len(s) \in Nat /\ DOMAIN s = 1 .. Len(s) /\ DOMAIN a = 1 .. Len(s) + 1
      /\ a[Len(s) + 1] = m /\ \A i \in DOMAIN s : a[i] = s[i]
  BY AppendedProperties
<1> HIDE DEF a
<1>2. \A i \in DOMAIN a : i \in DOMAIN s \/ i = Len(s) + 1
  BY <1>1
<1>3. ASSUME NEW i \in DOMAIN a, NEW j \in DOMAIN a, a[i].do = "start", a[j].do = "start",
             a[i].run = a[j].run
      PROVE  i = j
  BY <1>1, <1>2, <1>3 DEF StartsOnce
<1> QED
  BY <1>3 DEF StartsOnce, a

LEMMA StartsOnceAlone ==
    ASSUME NEW m \in Requests
    PROVE  StartsOnce(Append(<<>>, m)) /\ StartsOnce(<<>>)
<1>1. <<>> \in Seq(Requests) /\ DOMAIN <<>> = {}
  BY EmptySeq
<1>2. StartsOnce(<<>>)
  BY <1>1 DEF StartsOnce
<1>3. m.do = "start" => \A i \in DOMAIN <<>> : <<>>[i].do = "start" => <<>>[i].run # m.run
  BY <1>1
<1> QED
  BY <1>1, <1>2, <1>3, StartsOnceAppended

LEMMA InjectiveAppended ==
    ASSUME NEW s \in Seq(Runs), NEW r \in Runs, IsInjective(s), \A i \in DOMAIN s : s[i] # r
    PROVE  IsInjective(Append(s, r))
<1> DEFINE a == Append(s, r)
<1>1. /\ Len(s) \in Nat /\ DOMAIN s = 1 .. Len(s) /\ DOMAIN a = 1 .. Len(s) + 1
      /\ a[Len(s) + 1] = r /\ \A i \in DOMAIN s : a[i] = s[i]
  BY AppendedProperties
<1> HIDE DEF a
<1>2. \A i \in DOMAIN a : i \in DOMAIN s \/ i = Len(s) + 1
  BY <1>1
<1>3. IsInjective(a)
  BY <1>1, <1>2 DEF IsInjective
<1> QED
  BY <1>3 DEF a

\* Nothing is started, begun or answered that was not.
LEMMA NoNewRuns ==
    ASSUME NEW K, NEW L, RunsInOrder(L), StartsOnce(K.wire), IsInjective(K.running),
           \A r : IsStart(K, r) => IsStart(L, r),
           \A r : IsBegun(K, r) => IsBegun(L, r),
           \A r : IsRunning(K, r) => IsRunning(L, r),
           \A i \in DOMAIN K.events : Stopped(K.events[i]) =>
              (\E j \in DOMAIN L.events : K.events[i] = L.events[j]) \/ ~IsRunning(K, K.events[i].run)
    PROVE  RunsInOrder(K)
BY DEF RunsInOrder

LEMMA BareRuns ==
    ASSUME NEW K, Bare(K)
    PROVE  RunsInOrder(K)
<1>1. DOMAIN <<>> = {}
  BY EmptySeq
<1> QED
  BY <1>1, NoWorkInBare DEF Bare, RunsInOrder, StartsOnce, IsInjective

LEMMA EventsRead ==
    ASSUME NEW K, NEW L, L.events \in Seq(Events), ReadsOne(K, L)
    PROVE  \A i \in DOMAIN K.events : \E j \in DOMAIN L.events : K.events[i] = L.events[j]
<1>1. CASE K.events = L.events
  BY <1>1
<1>2. CASE L.events # <<>> /\ K.events = Tail(L.events)
  BY <1>2, TailFrom
<1> QED
  BY <1>1, <1>2 DEF ReadsOne

\* Nothing is written.
LEMMA ReadRuns ==
    ASSUME NEW K, NEW L, L.events \in Seq(Events), RunsInOrder(L), ReadsOne(K, L),
           K.wire = L.wire, K.running = L.running,
           \A r : IsActive(K, r) => IsBegun(L, r)
    PROVE  RunsInOrder(K)
<1>1. \A i \in DOMAIN K.events : \E j \in DOMAIN L.events : K.events[i] = L.events[j]
  BY EventsRead
<1>2. ASSUME NEW r
      PROVE  /\ IsStart(K, r) => IsStart(L, r)
             /\ IsRunning(K, r) => IsRunning(L, r)
             /\ IsInterrupting(K, r) => IsInterrupting(L, r)
             /\ IsAnswered(K, r) => IsAnswered(L, r)
  BY ReadWork DEF IsStart, IsRunning, IsInterrupting
<1>3. \A r : IsBegun(K, r) => IsBegun(L, r)
  BY <1>2 DEF IsBegun
<1>4. StartsOnce(K.wire) /\ IsInjective(K.running)
  BY DEF RunsInOrder
<1> QED
  BY <1>1, <1>2, <1>3, <1>4, NoNewRuns

\* A message is written.
LEMMA WrittenRuns ==
    ASSUME NEW K, NEW L, L.wire \in Seq(Requests), L.events \in Seq(Events), RunsInOrder(L),
           NEW m \in Requests, Writes(K, L, m), ReadsOne(K, L),
           m.do = "start" => ~Known(L, m.run),
           m.do = "interrupt" => IsBegun(L, m.run)
    PROVE  RunsInOrder(K)
<1>1. \A i \in DOMAIN K.events : \E j \in DOMAIN L.events : K.events[i] = L.events[j]
  BY EventsRead
<1>2. ASSUME NEW r
      PROVE  /\ IsStart(K, r) => IsStart(L, r) \/ (m.do = "start" /\ r = m.run)
             /\ IsInterrupting(K, r) => IsInterrupting(L, r) \/ (m.do = "interrupt" /\ r = m.run)
             /\ IsRunning(K, r) => IsRunning(L, r)
             /\ IsActive(K, r) => IsActive(L, r)
             /\ IsAnswered(K, r) => IsAnswered(L, r)
  BY ReadWork, WrittenWork
<1>3. \A r : IsBegun(K, r) => IsBegun(L, r)
  BY <1>2 DEF IsBegun
<1>4. \A r : IsStart(K, r) => ~IsBegun(K, r)
  BY <1>2, <1>3 DEF RunsInOrder, Known
<1>5. StartsOnce(K.wire)
  <2>1. m.do = "start" => \A i \in DOMAIN L.wire : L.wire[i].do = "start" => L.wire[i].run # m.run
    BY DEF Known, IsStart
  <2>2. StartsOnce(L.wire)
    BY DEF RunsInOrder
  <2>3. StartsOnce(Append(L.wire, m))
    BY <2>1, <2>2, StartsOnceAppended
  <2> QED
    BY <2>2, <2>3 DEF Writes
<1>6. IsInjective(K.running)
  BY DEF Writes, RunsInOrder
<1> QED
  BY <1>1, <1>2, <1>4, <1>5, <1>6 DEF RunsInOrder

\* A message is written to a new process.
LEMMA FirstRuns ==
    ASSUME NEW K, NEW m \in Requests, K.wire = Append(<<>>, m), K.events = <<>>, K.running = <<>>,
           K.active = NoTurn, m.do # "interrupt"
    PROVE  RunsInOrder(K)
<1>1. DOMAIN <<>> = {}
  BY EmptySeq
<1>2. \A r : ~IsBegun(K, r)
  BY <1>1, OnlyWritten, NoneActive DEF IsBegun, IsRunning, IsAnswered
<1>3. StartsOnce(K.wire) /\ IsInjective(K.running)
  BY <1>1, StartsOnceAlone DEF IsInjective
<1> QED
  BY <1>1, <1>2, <1>3 DEF RunsInOrder

LEMMA AgentRuns ==
    ASSUME NEW K, NEW L, L \in LaneRecords, AgentSteps(K, L), RunsInOrder(L)
    PROVE  RunsInOrder(K)
<1>1. /\ L.wire \in Seq(Requests) /\ L.events \in Seq(Events) /\ L.running \in Seq(Runs)
      /\ K.active = L.active
  BY DEF LaneRecords, AgentSteps, SamePlace
<1>2. DOMAIN <<>> = {}
  BY EmptySeq
<1>3. /\ \A r : IsActive(K, r) => IsActive(L, r)
      /\ \A r : IsStart(L, r) => ~IsBegun(L, r)
      /\ StartsOnce(L.wire) /\ IsInjective(L.running)
      /\ \A i \in DOMAIN L.events : Stopped(L.events[i]) => ~IsRunning(L, L.events[i].run)
  BY <1>1 DEF IsActive, RunsInOrder
<1>4. L.wire # <<>> =>
        /\ Head(L.wire) \in Requests /\ Tail(L.wire) \in Seq(Requests) /\ StartsOnce(Tail(L.wire))
        /\ Head(L.wire).do = "start" =>
              \A i \in DOMAIN Tail(L.wire) :
                 Tail(L.wire)[i].do = "start" => Tail(L.wire)[i].run # Head(L.wire).run
  BY <1>1, <1>3, TailProperties, StartsOnceInTail
<1> DEFINE q == Head(L.wire)
<1>5. ASSUME NEW ok \in BOOLEAN, L.wire # <<>>
      PROVE  /\ Response(q, ok) \in Events /\ Response(q, ok).is = "response"
             /\ Response(q, ok).do = q.do /\ Response(q, ok).run = q.run /\ Response(q, ok).ok = ok
  BY <1>4, <1>5 DEF Response, Events, Requests
<1>6. ASSUME NEW run \in Runs, NEW ok \in BOOLEAN
      PROVE  /\ Completed(run, ok) \in Events /\ Completed(run, ok).is = "completed"
             /\ Completed(run, ok).do = "start" /\ Completed(run, ok).run = run
  BY <1>6 DEF Completed, Events
<1>7. ASSUME NEW e \in Events, K.events = Append(L.events, e)
      PROVE  \A i \in DOMAIN K.events : (\E j \in DOMAIN L.events : K.events[i] = L.events[j]) \/ K.events[i] = e
  BY <1>1, <1>7, AppendedFrom
<1>8. CASE Answered(K, L)
  <2>1. PICK e \in Events : e = Response(q, TRUE) /\ e.is = "response" /\ e.do = q.do
    BY <1>5, <1>8 DEF Answered
  <2>2. K.events = Append(L.events, e) /\ K.wire = Tail(L.wire) /\ L.wire # <<>>
        /\ K.running = L.running /\ q.do \notin {"start", "interrupt"}
    BY <1>8, <2>1 DEF Answered
  <2>3. \A i \in DOMAIN K.events : (\E j \in DOMAIN L.events : K.events[i] = L.events[j]) \/ ~Stopped(K.events[i])
    BY <1>7, <2>1, <2>2 DEF Stopped
  <2>4. ASSUME NEW r
        PROVE  /\ IsStart(K, r) => IsStart(L, r)
               /\ IsInterrupting(K, r) => IsInterrupting(L, r)
               /\ IsRunning(K, r) => IsRunning(L, r)
               /\ IsAnswered(K, r) => IsAnswered(L, r)
    BY <1>1, <2>1, <2>2, TakenWork, OneMoreEvent DEF IsRunning
  <2>5. \A r : IsBegun(K, r) => IsBegun(L, r)
    BY <1>3, <2>4 DEF IsBegun
  <2>6. StartsOnce(K.wire) /\ IsInjective(K.running)
    BY <1>3, <1>4, <2>2
  <2> QED
    BY <2>3, <2>4, <2>5, <2>6, NoNewRuns
<1>9. CASE TakesTurn(K, L)
  <2>0. q.do = "start" /\ q.run \in Runs /\ K.wire = Tail(L.wire) /\ L.wire # <<>>
        /\ K.running = Append(L.running, q.run)
    BY <1>4, <1>9 DEF TakesTurn, Requests
  <2>1. ASSUME NEW r
        PROVE  /\ IsStart(K, r) => IsStart(L, r) /\ r # q.run
               /\ IsInterrupting(K, r) => IsInterrupting(L, r)
               /\ IsRunning(K, r) => IsRunning(L, r) \/ r = q.run
               /\ IsAnswered(K, r) => IsAnswered(L, r) \/ r = q.run
    <3>1. /\ IsStart(K, r) => IsStart(L, r)
          /\ IsInterrupting(K, r) => IsInterrupting(L, r)
      BY <1>1, <2>0, TakenWork
    <3>2. IsStart(K, r) => r # q.run
      BY <1>4, <2>0 DEF IsStart
    <3>3. IsRunning(K, r) => IsRunning(L, r) \/ r = q.run
      BY <1>1, <2>0, MoreRunning
    <3>4. IsAnswered(K, r) => IsAnswered(L, r) \/ r = q.run
      <4>1. CASE K.events = L.events
        BY <4>1 DEF IsAnswered
      <4>2. CASE K.events = Append(L.events, Response(q, TRUE))
        <5>1. PICK e \in Events : e = Response(q, TRUE) /\ e.is = "response" /\ e.run = q.run
          BY <1>5, <2>0
        <5> QED
          BY <1>1, <4>2, <5>1, OneMoreEvent
      <4> QED
        BY <1>9, <4>1, <4>2 DEF TakesTurn
    <3> QED
      BY <3>1, <3>2, <3>3, <3>4
  <2>2. IsStart(L, q.run) /\ ~IsBegun(L, q.run)
    BY <1>1, <1>3, <2>0, TakenWork
  <2>3. \A r : IsStart(K, r) => ~IsBegun(K, r)
    BY <1>3, <2>1 DEF IsBegun
  <2>4. IsInjective(K.running) /\ StartsOnce(K.wire)
    <3>1. \A i \in DOMAIN L.running : L.running[i] # q.run
      BY <2>2 DEF IsBegun, IsRunning
    <3> QED
      BY <1>1, <1>3, <1>4, <2>0, <3>1, InjectiveAppended
  <2>5. \A i \in DOMAIN K.events : (\E j \in DOMAIN L.events : K.events[i] = L.events[j]) \/ ~Stopped(K.events[i])
    <3>1. CASE K.events = L.events
      BY <3>1
    <3>2. CASE K.events = Append(L.events, Response(q, TRUE))
      <4>1. PICK e \in Events : e = Response(q, TRUE) /\ e.is = "response" /\ e.do = q.do
        BY <1>5, <2>0
      <4> QED
        BY <1>7, <2>0, <3>2, <4>1 DEF Stopped
    <3> QED
      BY <1>9, <3>1, <3>2 DEF TakesTurn
  <2>6. ASSUME NEW i \in DOMAIN K.events, Stopped(K.events[i]), IsRunning(K, K.events[i].run)
        PROVE  FALSE
    <3>1. PICK j \in DOMAIN L.events : K.events[i] = L.events[j]
      BY <2>5, <2>6
    <3>2. Stopped(L.events[j]) /\ ~IsRunning(L, L.events[j].run) /\ IsRunning(K, L.events[j].run)
      BY <1>3, <2>6, <3>1
    <3>3. L.events[j].run = q.run
      BY <2>1, <3>2
    <3> QED
      BY <2>2, <3>2, <3>3 DEF IsBegun, IsAnswered, Stopped
  <2> QED
    BY <2>3, <2>4, <2>6 DEF RunsInOrder
<1>10. CASE Refuses(K, L)
  <2>0. q.do = "start" /\ K.wire = Tail(L.wire) /\ L.wire # <<>> /\ K.running = L.running
        /\ K.events = Append(L.events, Response(q, FALSE))
    BY <1>10 DEF Refuses
  <2>1. PICK e \in Events : e = Response(q, FALSE) /\ e.is = "response" /\ e.do = q.do /\ e.run = q.run
    BY <1>5, <2>0
  <2>2. ASSUME NEW r
        PROVE  /\ IsStart(K, r) => IsStart(L, r) /\ r # q.run
               /\ IsInterrupting(K, r) => IsInterrupting(L, r)
               /\ IsRunning(K, r) => IsRunning(L, r)
               /\ IsAnswered(K, r) => IsAnswered(L, r) \/ r = q.run
    <3>1. /\ IsStart(K, r) => IsStart(L, r)
          /\ IsInterrupting(K, r) => IsInterrupting(L, r)
      BY <1>1, <2>0, TakenWork
    <3>2. IsStart(K, r) => r # q.run
      BY <1>4, <2>0 DEF IsStart
    <3>3. IsAnswered(K, r) => IsAnswered(L, r) \/ r = q.run
      BY <1>1, <2>0, <2>1, OneMoreEvent
    <3> QED
      BY <2>0, <3>1, <3>2, <3>3 DEF IsRunning
  <2>3. \A r : IsStart(K, r) => ~IsBegun(K, r)
    BY <1>3, <2>2 DEF IsBegun
  <2>4. IsInjective(K.running) /\ StartsOnce(K.wire)
    BY <1>3, <1>4, <2>0
  <2>5. \A i \in DOMAIN K.events : (\E j \in DOMAIN L.events : K.events[i] = L.events[j]) \/ ~Stopped(K.events[i])
    BY <1>7, <2>0, <2>1 DEF Stopped
  <2> QED
    BY <1>3, <2>2, <2>3, <2>4, <2>5 DEF RunsInOrder
<1>11. CASE IsInterrupted(K, L)
  <2>0. q.do = "interrupt" /\ K.wire = Tail(L.wire) /\ L.wire # <<>> /\ q.run \in Runs
    BY <1>4, <1>11 DEF IsInterrupted, Requests
  <2>1. ASSUME NEW r
        PROVE  /\ IsStart(K, r) => IsStart(L, r)
               /\ IsInterrupting(K, r) => IsInterrupting(L, r)
    BY <1>1, <2>0, TakenWork
  <2>2. IsInterrupting(L, q.run) /\ StartsOnce(K.wire)
    BY <1>1, <1>4, <2>0, TakenWork
  <2>3. CASE /\ \E i \in DOMAIN L.running : L.running[i] = q.run
             /\ K.running = Without(L.running, q.run)
             /\ K.events = Append(Append(L.events, Completed(q.run, FALSE)), Response(q, TRUE))
    <3>1. PICK a \in Events : a = Completed(q.run, FALSE) /\ a.is = "completed" /\ a.run = q.run
      BY <1>6, <2>0
    <3>2. PICK b \in Events : b = Response(q, TRUE) /\ b.run = q.run /\ b.do = "interrupt"
      BY <1>5, <2>0
    <3>3. PICK s \in Seq(Events) : s = Append(L.events, a)
      BY <1>1, AppendedProperties
    <3>4. K.events = Append(s, b)
      BY <2>3, <3>1, <3>2, <3>3
    <3>5. \A i \in DOMAIN s : (\E j \in DOMAIN L.events : s[i] = L.events[j]) \/ s[i] = a
      BY <1>1, <3>3, AppendedFrom
    <3>6. \A i \in DOMAIN K.events : (\E j \in DOMAIN s : K.events[i] = s[j]) \/ K.events[i] = b
      BY <3>4, AppendedFrom
    <3>7. \A i \in DOMAIN K.events :
             (\E j \in DOMAIN L.events : K.events[i] = L.events[j]) \/ K.events[i] = a \/ K.events[i] = b
      BY <3>5, <3>6
    <3>8. IsInjective(K.running) /\ ~IsRunning(K, q.run)
      BY <1>1, <1>3, <2>3, WithoutProperties DEF IsRunning
    <3>9. \A r : IsRunning(K, r) => IsRunning(L, r)
      BY <1>1, <2>3, FewerRunning
    <3>10. IsRunning(L, q.run)
      BY <2>3 DEF IsRunning
    <3>11. \A r : IsAnswered(K, r) => IsAnswered(L, r) \/ r = q.run
      BY <3>1, <3>2, <3>7 DEF IsAnswered
    <3>12. \A r : IsBegun(K, r) => IsBegun(L, r)
      BY <1>3, <2>1, <3>9, <3>10, <3>11 DEF IsBegun
    <3>13. \A i \in DOMAIN K.events : Stopped(K.events[i]) =>
              (\E j \in DOMAIN L.events : K.events[i] = L.events[j]) \/ ~IsRunning(K, K.events[i].run)
      BY <3>1, <3>2, <3>7, <3>8 DEF Stopped
    <3> QED
      BY <2>1, <2>2, <3>8, <3>9, <3>12, <3>13, NoNewRuns
  <2>4. CASE /\ \A i \in DOMAIN L.running : L.running[i] # q.run
             /\ K.running = L.running
             /\ \E ok \in BOOLEAN : K.events = Append(L.events, Response(q, ok))
    <3>1. PICK ok \in BOOLEAN : K.events = Append(L.events, Response(q, ok))
      BY <2>4
    <3>2. PICK e \in Events : e = Response(q, ok) /\ e.run = q.run
      BY <1>5, <2>0
    <3>3. K.events = Append(L.events, e)
      BY <3>1, <3>2
    <3>4. \A r : IsRunning(K, r) => IsRunning(L, r)
      BY <2>4 DEF IsRunning
    <3>5. ~IsRunning(K, q.run) /\ IsInjective(K.running)
      BY <1>3, <2>4 DEF IsRunning
    <3>6. \A r : IsAnswered(K, r) => IsAnswered(L, r) \/ r = q.run
      BY <1>1, <3>2, <3>3, OneMoreEvent
    <3>7. \A r : IsBegun(K, r) => IsBegun(L, r)
      BY <1>3, <2>1, <2>2, <3>4, <3>6 DEF IsBegun
    <3>8. \A i \in DOMAIN K.events : Stopped(K.events[i]) =>
              (\E j \in DOMAIN L.events : K.events[i] = L.events[j]) \/ ~IsRunning(K, K.events[i].run)
      BY <1>7, <3>2, <3>3, <3>5
    <3> QED
      BY <2>1, <2>2, <3>4, <3>5, <3>7, <3>8, NoNewRuns
  <2> QED
    BY <1>11, <2>3, <2>4 DEF IsInterrupted
<1>12. CASE Finishes(K, L)
  <2>1. PICK run \in Runs, ok \in BOOLEAN :
           /\ \E i \in DOMAIN L.running : L.running[i] = run
           /\ K.running = Without(L.running, run) /\ K.events = Append(L.events, Completed(run, ok))
           /\ K.wire = L.wire
    BY <1>12 DEF Finishes
  <2>2. PICK e \in Events : e = Completed(run, ok) /\ e.is = "completed" /\ e.run = run
    BY <1>6
  <2>3. K.events = Append(L.events, e) /\ IsRunning(L, run)
    BY <2>1, <2>2 DEF IsRunning
  <2>4. IsInjective(K.running) /\ StartsOnce(K.wire)
    BY <1>1, <1>3, <2>1, WithoutProperties
  <2>5. ASSUME NEW r
        PROVE  /\ IsStart(K, r) => IsStart(L, r)
               /\ IsInterrupting(K, r) => IsInterrupting(L, r)
               /\ IsRunning(K, r) => IsRunning(L, r)
               /\ IsAnswered(K, r) => IsAnswered(L, r) \/ r = run
    <3>1. IsRunning(K, r) => IsRunning(L, r)
      BY <1>1, <2>1, FewerRunning
    <3>2. IsAnswered(K, r) => IsAnswered(L, r) \/ r = run
      BY <1>1, <2>2, <2>3, OneMoreEvent
    <3> QED
      BY <2>1, <3>1, <3>2 DEF IsStart, IsInterrupting
  <2>6. \A r : IsBegun(K, r) => IsBegun(L, r)
    BY <1>3, <2>3, <2>5 DEF IsBegun
  <2>7. \A i \in DOMAIN K.events : (\E j \in DOMAIN L.events : K.events[i] = L.events[j]) \/ ~Stopped(K.events[i])
    BY <1>7, <2>2, <2>3 DEF Stopped
  <2> QED
    BY <2>4, <2>5, <2>6, <2>7, NoNewRuns
<1>13. CASE Crashes(K, L)
  <2>1. K.running = <<>> /\ K.wire = <<>> /\ K.events = L.events
    BY <1>13 DEF Crashes
  <2>2. \A r : ~IsStart(K, r) /\ ~IsRunning(K, r)
    BY <1>2, <2>1 DEF IsStart, IsRunning
  <2>3. StartsOnce(K.wire) /\ IsInjective(K.running)
    BY <1>2, <2>1 DEF StartsOnce, IsInjective
  <2> QED
    BY <2>2, <2>3 DEF RunsInOrder
<1>14. CASE Garbles(K, L)
  <2>1. PICK e \in Events : e = GarbledEvent /\ e.is = "garbled" /\ e.do = "none"
    BY ResponseTypes DEF GarbledEvent
  <2>2. K.events = Append(L.events, e) /\ K.wire = L.wire /\ K.running = L.running
    BY <1>14, <2>1 DEF Garbles
  <2>3. \A i \in DOMAIN K.events : (\E j \in DOMAIN L.events : K.events[i] = L.events[j]) \/ ~Stopped(K.events[i])
    BY <1>7, <2>1, <2>2 DEF Stopped
  <2>4. ASSUME NEW r
        PROVE  /\ IsStart(K, r) => IsStart(L, r)
               /\ IsInterrupting(K, r) => IsInterrupting(L, r)
               /\ IsRunning(K, r) => IsRunning(L, r)
               /\ IsAnswered(K, r) => IsAnswered(L, r)
    BY <1>1, <2>1, <2>2, OneMoreEvent DEF IsStart, IsInterrupting, IsRunning
  <2>5. \A r : IsBegun(K, r) => IsBegun(L, r)
    BY <1>3, <2>4 DEF IsBegun
  <2>6. StartsOnce(K.wire) /\ IsInjective(K.running)
    BY <1>3, <2>2
  <2> QED
    BY <2>3, <2>4, <2>5, <2>6, NoNewRuns
<1> QED
  BY <1>8, <1>9, <1>10, <1>11, <1>12, <1>13, <1>14 DEF AgentSteps

LEMMA NotYetKnown ==
    ASSUME Types, WorkIsKnown, NEW t \in DOMAIN turns, turns[t].lane \in Lanes, turns[t].pc \notin AtWork
    PROVE  ~Known(lanes[turns[t].lane], OwnRun(t))
BY DEF WorkIsKnown, Its, OwnRun, Run

LEMMA OthersRuns ==
    ASSUME NEW K, NEW L, L \in LaneRecords, OthersSteps(K, L), RunsInOrder(L)
    PROVE  RunsInOrder(K)
<1>1. L.wire \in Seq(Requests) /\ L.events \in Seq(Events) /\ L.active.run \in Runs
  BY DEF LaneRecords
<1>2. ASSUME K.wire = L.wire, K.running = L.running, ReadsOne(K, L), K.active \in {L.active, NoTurn}
      PROVE  RunsInOrder(K)
  <2>1. \A r : IsActive(K, r) => IsActive(L, r)
    BY <1>2, NoneActive DEF IsActive
  <2> QED
    BY <1>1, <1>2, <2>1, ReadRuns DEF IsBegun
<1>3. CASE SameWork(K, L)
  BY <1>2, <1>3 DEF SameWork, ReadsOne
<1>4. CASE Quits(K) \/ Loses(K, L) \/ Wakes(K, L)
  BY <1>4, BareRuns DEF Quits, Loses, Wakes
<1>5. CASE Hears(K, L)
  BY <1>2, <1>5 DEF Hears, ReadsOne
<1>6. CASE Interrupts(K, L)
  <2>1. PICK m \in Requests : m = [do |-> "interrupt", run |-> L.active.run]
                              /\ m.do = "interrupt" /\ m.run = L.active.run
    <3>1. [do |-> "interrupt", run |-> L.active.run] \in Requests
      BY <1>1 DEF Requests
    <3> QED
      BY <3>1
  <2>2. Writes(K, L, m) /\ ReadsOne(K, L) /\ IsBegun(L, m.run)
    BY <1>6, <2>1 DEF Interrupts, ReadsOne, IsBegun, IsActive
  <2> QED
    BY <1>1, <2>1, <2>2, WrittenRuns
<1>7. CASE AgentSteps(K, L)
  BY <1>7, AgentRuns
<1> QED
  BY <1>3, <1>4, <1>5, <1>6, <1>7 DEF OthersSteps

LEMMA OwnerRuns ==
    ASSUME Types, Types', WorkIsKnown, NEW t \in DOMAIN turns, turns[t].lane \in Lanes,
           NEW K, NEW L, K = lanes'[turns[t].lane], L = lanes[turns[t].lane], LaneInOrder(L),
           OwnerSteps(t, K, L), RunsInOrder(L)
    PROVE  RunsInOrder(K)
<1>1. /\ L.wire \in Seq(Requests) /\ L.events \in Seq(Events) /\ K.threads \subseteq ThreadRecords
      /\ L.active = NoTurn \/ adapter = "codex"
  BY DEF Types, LaneRecords, LaneInOrder
<1>2. turns[t].attempt \in {1, 2} /\ \A attempt \in {1, 2} : Run(t, attempt) \in Runs
  BY RunOfTurn, TurnIsKnown DEF TurnRecords
<1>3. CASE Opens(t, K, L)
  <2>1. PICK m \in Requests : m = Request("initialize", t, turns[t].attempt) /\ m.do = "initialize"
    BY <1>2, RequestIsOne
  <2>2. K.wire = Append(<<>>, m) /\ K.events = <<>> /\ K.running = <<>> /\ K.active = NoTurn
    BY <1>3, <2>1 DEF Opens
  <2> QED
    BY <2>1, <2>2, FirstRuns
<1>4. ASSUME NEW do \in {"models", "thread"}, AsksFor(do, t, K, L)
      PROVE  RunsInOrder(K)
  <2>1. PICK attempt \in {1, 2} : Writes(K, L, Request(do, t, attempt))
    BY <1>4 DEF AsksFor
  <2>2. PICK m \in Requests : m = Request(do, t, attempt) /\ m.do = do
    BY <1>2, RequestIsOne
  <2>3. Writes(K, L, m) /\ ReadsOne(K, L) /\ m.do \notin {"start", "interrupt"}
    BY <1>4, <2>1, <2>2 DEF AsksFor
  <2> QED
    BY <1>1, <2>3, WrittenRuns
<1>5. CASE StartsTurn(t, K, L)
  <2>1. PICK x \in K.threads :
           Writes(K, L, StartTurn(t, turns[t], x.thread, <<x.thread, turns[t].ctx>> \in L.prints))
    BY <1>5 DEF StartsTurn
  <2>2. x.thread \in Runs
    BY <1>1 DEF ThreadRecords
  <2>3. (<<x.thread, turns[t].ctx>> \in L.prints) \in BOOLEAN
    OBVIOUS
  <2>4. PICK b \in BOOLEAN : b = (<<x.thread, turns[t].ctx>> \in L.prints)
    BY <2>3, Zenon
  <2>5. PICK m \in Requests : m = StartTurn(t, turns[t], x.thread, b) /\ m.do = "start" /\ m.run = OwnRun(t)
    BY <2>2, StartsWithIts
  <2>6. Writes(K, L, m)
    BY <2>1, <2>4, <2>5, Zenon
  <2>7. ReadsOne(K, L) /\ turns[t].pc \notin AtWork
    BY <1>5 DEF StartsTurn, AtWork, Ended
  <2> QED
    BY <1>1, <2>5, <2>6, <2>7, WrittenRuns, NotYetKnown
<1>6. CASE StartsReading(t, K, L)
  <2>1. /\ K.wire = L.wire /\ K.running = L.running /\ ReadsOne(K, L)
        /\ L.events # <<>> /\ Head(L.events).do = "start" /\ Head(L.events).run = OwnRun(t)
        /\ K.active.run = OwnRun(t)
    BY <1>6 DEF StartsReading, ReadsOne
  <2>2. IsAnswered(L, OwnRun(t))
    BY <1>1, <2>1, TailProperties DEF IsAnswered
  <2>3. \A r : IsActive(K, r) => IsBegun(L, r)
    BY <2>1, <2>2 DEF IsActive, IsBegun
  <2> QED
    BY <1>1, <2>1, <2>3, ReadRuns
<1>7. CASE StreamsTurn(t, K, L)
  <2>0. turns[t].pc \notin AtWork /\ adapter # "codex" /\ K.active = L.active /\ K.active = NoTurn
    BY <1>1, <1>7 DEF StreamsTurn, AtWork, Ended
  <2>1. CASE /\ K.events = L.events
             /\ Writes(K, L, StartTurn(t, turns[t], NoRun, adapter = "claude" /\ <<NoRun, turns[t].ctx>> \in L.prints))
    <3>1. (adapter = "claude" /\ <<NoRun, turns[t].ctx>> \in L.prints) \in BOOLEAN
      OBVIOUS
    <3>2. PICK b \in BOOLEAN : b = (adapter = "claude" /\ <<NoRun, turns[t].ctx>> \in L.prints)
      BY <3>1, Zenon
    <3>3. PICK m \in Requests : m = StartTurn(t, turns[t], NoRun, b) /\ m.do = "start" /\ m.run = OwnRun(t)
      BY NoRunIsARun, StartsWithIts
    <3>4. Writes(K, L, m)
      BY <2>1, <3>2, <3>3, Zenon
    <3>5. ReadsOne(K, L)
      BY <2>1 DEF ReadsOne
    <3> QED
      BY <1>1, <2>0, <3>3, <3>4, <3>5, WrittenRuns, NotYetKnown
  <2>2. CASE /\ K.wire = Append(<<>>, StartTurn(t, turns[t], NoRun, FALSE))
             /\ K.events = <<>> /\ K.running = <<>>
    <3>0. PICK b \in BOOLEAN : b = FALSE
      OBVIOUS
    <3>1. PICK m \in Requests : m = StartTurn(t, turns[t], NoRun, b) /\ m.do = "start"
      BY NoRunIsARun, StartsWithIts
    <3>2. K.wire = Append(<<>>, m)
      BY <2>2, <3>0, <3>1
    <3> QED
      BY <2>0, <2>2, <3>1, <3>2, FirstRuns
  <2> QED
    BY <1>7, <2>1, <2>2 DEF StreamsTurn
<1> QED
  BY <1>3, <1>4, <1>5, <1>6, <1>7 DEF OwnerSteps

RunsAreInOrder == \A l \in Lanes : RunsInOrder(lanes[l])

LEMMA RunsStayInOrder ==
    ASSUME InOrder, Types', StepForm, WorkIsKnown, RunsAreInOrder
    PROVE  RunsAreInOrder'
<1> SUFFICES ASSUME NEW l \in Lanes PROVE RunsInOrder(lanes'[l])
  BY DEF RunsAreInOrder
<1>1. Types /\ lanes[l] \in LaneRecords /\ LaneInOrder(lanes[l]) /\ RunsInOrder(lanes[l])
  BY LaneFields DEF InOrder, LanesInOrder, LaneInOrder, RunsAreInOrder
<1>2. CASE OthersSteps(lanes'[l], lanes[l])
  BY <1>1, <1>2, OthersRuns
<1>3. CASE \E t \in DOMAIN turns : OwnerMoves(t, l)
  <2>1. PICK t \in DOMAIN turns : OwnerMoves(t, l)
    BY <1>3
  <2>2. turns[t].lane = l /\ OwnerSteps(t, lanes'[l], lanes[l])
    BY <2>1 DEF OwnerMoves, GoesOnAs, OwnerSteps
  <2> QED
    BY <1>1, <2>2, OwnerRuns
<1> QED
  BY <1>1, <1>2, <1>3, LaneForms DEF LaneForm

-----------------------------------------------------------------------------
(***************************************************************************)
(* claude_app and stdio_agent: a run has one result, which ends it         *)
(***************************************************************************)
ResultsDiffer(s) ==
    \A i, j \in DOMAIN s :
        s[i].is = "completed" /\ s[j].is = "completed" /\ s[i].run = s[j].run => i = j

DoneOnce(L) ==
    /\ \A r : IsDone(L, r) => ~IsStart(L, r) /\ ~IsRunning(L, r)
    /\ ResultsDiffer(L.events)

EachIsDoneOnce == adapter # "codex" => \A l \in Lanes : DoneOnce(lanes[l])

LEMMA ResultsDifferInTail ==
    ASSUME NEW s \in Seq(Events), s # <<>>, ResultsDiffer(s)
    PROVE  /\ ResultsDiffer(Tail(s))
           /\ Head(s).is = "completed" =>
                 \A i \in DOMAIN Tail(s) : Tail(s)[i].is = "completed" => Tail(s)[i].run # Head(s).run
<1>1. /\ DOMAIN s = 1 .. Len(s) /\ Len(s) \in Nat \ {0} /\ s[1] = Head(s)
      /\ DOMAIN Tail(s) = 1 .. Len(s) - 1
      /\ \A i \in DOMAIN Tail(s) : i + 1 \in DOMAIN s /\ Tail(s)[i] = s[i + 1]
  BY TailProperties
<1>2. \A i, j \in DOMAIN Tail(s) : i + 1 = j + 1 => i = j
  BY <1>1
<1>3. \A i \in DOMAIN Tail(s) : i + 1 # 1
  BY <1>1
<1>4. 1 \in DOMAIN s
  BY <1>1
<1> QED
  BY <1>1, <1>2, <1>3, <1>4 DEF ResultsDiffer

LEMMA OneMoreResult ==
    ASSUME NEW s \in Seq(Events), NEW e \in Events, ResultsDiffer(s),
           e.is = "completed" => \A i \in DOMAIN s : s[i].is = "completed" => s[i].run # e.run
    PROVE  ResultsDiffer(Append(s, e))
<1> DEFINE a == Append(s, e)
<1>1. /\ Len(s) \in Nat /\ DOMAIN s = 1 .. Len(s) /\ DOMAIN a = 1 .. Len(s) + 1
      /\ a[Len(s) + 1] = e /\ \A i \in DOMAIN s : a[i] = s[i]
  BY AppendedProperties
<1> HIDE DEF a
<1>2. \A i \in DOMAIN a : i \in DOMAIN s \/ i = Len(s) + 1
  BY <1>1
<1>3. ASSUME NEW i \in DOMAIN a, NEW j \in DOMAIN a, a[i].is = "completed", a[j].is = "completed",
             a[i].run = a[j].run
      PROVE  i = j
  BY <1>1, <1>2, <1>3 DEF ResultsDiffer
<1> QED
  BY <1>3 DEF ResultsDiffer, a

\* No result comes, and what is begun anew has none.
LEMMA NoResultComes ==
    ASSUME NEW K, NEW L, NEW own, WorkFrom(K, L, own), DoneOnce(L), \A r \in own : ~IsDone(L, r),
           \A r : IsDone(K, r) => IsDone(L, r), ResultsDiffer(K.events)
    PROVE  DoneOnce(K)
BY DEF WorkFrom, DoneOnce

LEMMA ResultsRead ==
    ASSUME NEW K, NEW L, L.events \in Seq(Events), ReadsOne(K, L) \/ K.events = <<>>,
           ResultsDiffer(L.events)
    PROVE  ResultsDiffer(K.events) /\ \A r : IsDone(K, r) => IsDone(L, r)
<1>1. CASE ReadsOne(K, L)
  <2>1. \A r : IsDone(K, r) => IsDone(L, r)
    BY <1>1, ReadWork
  <2>2. CASE K.events = L.events
    BY <2>1, <2>2
  <2>3. CASE L.events # <<>> /\ K.events = Tail(L.events)
    BY <2>1, <2>3, ResultsDifferInTail
  <2> QED
    BY <1>1, <2>2, <2>3 DEF ReadsOne
<1>2. CASE K.events = <<>>
  BY <1>2, EmptySeq DEF ResultsDiffer, IsDone
<1> QED
  BY <1>1, <1>2

\* A run that ends was running, and does so no more.
LEMMA ResultComes ==
    ASSUME NEW K, NEW L \in LaneRecords, WorkFrom(K, L, {}), RunsInOrder(L), DoneOnce(L),
           NEW run, IsRunning(L, run), K.running = Without(L.running, run),
           \A r : IsDone(K, r) => IsDone(L, r) \/ r = run,
           ResultsDiffer(K.events)
    PROVE  DoneOnce(K)
<1>1. L.running \in Seq(Runs) /\ IsInjective(L.running)
  BY DEF LaneRecords, RunsInOrder
<1>2. ~IsRunning(K, run)
  BY <1>1, WithoutProperties DEF IsRunning
<1>3. ~IsStart(K, run)
  BY DEF RunsInOrder, IsBegun, WorkFrom
<1> QED
  BY <1>2, <1>3 DEF DoneOnce, WorkFrom

LEMMA AgentResults ==
    ASSUME NEW K, NEW L \in LaneRecords, AgentSteps(K, L), RunsInOrder(L), DoneOnce(L)
    PROVE  DoneOnce(K)
<1>1. L.wire \in Seq(Requests) /\ L.events \in Seq(Events) /\ ResultsDiffer(L.events)
  BY DEF LaneRecords, DoneOnce
<1>2. WorkFrom(K, L, {})
  BY AgentWork
<1> DEFINE q == Head(L.wire)
<1>3. ASSUME NEW ok \in BOOLEAN, L.wire # <<>>
      PROVE  Response(q, ok) \in Events /\ Response(q, ok).is = "response" /\ q.run \in Runs
  <2>1. q \in Requests
    BY <1>1, <1>3, TailProperties
  <2> QED
    BY <1>3, <2>1 DEF Response, Events, Requests
<1>4. ASSUME NEW run \in Runs, NEW ok \in BOOLEAN
      PROVE  /\ Completed(run, ok) \in Events /\ Completed(run, ok).is = "completed"
             /\ Completed(run, ok).run = run
  BY <1>4 DEF Completed, Events
<1>5. ASSUME NEW e \in Events, e.is # "completed", K.events = Append(L.events, e)
      PROVE  DoneOnce(K)
  <2>1. ResultsDiffer(K.events)
    BY <1>1, <1>5, OneMoreResult
  <2>2. \A r : IsDone(K, r) => IsDone(L, r)
    BY <1>1, <1>5, OneMoreEvent
  <2> QED
    BY <1>2, <2>1, <2>2, NoResultComes
<1>6. ASSUME K.events = L.events PROVE DoneOnce(K)
  BY <1>1, <1>2, <1>6, ResultsRead, NoResultComes DEF ReadsOne
\* The run that ends, and what may come after it.
<1>7. ASSUME NEW run \in Runs, NEW ok \in BOOLEAN, IsRunning(L, run),
             K.running = Without(L.running, run),
             \/ K.events = Append(L.events, Completed(run, ok))
             \/ \E b \in Events : b.is # "completed" /\
                   K.events = Append(Append(L.events, Completed(run, ok)), b)
      PROVE  DoneOnce(K)
  <2>1. PICK e \in Events : e = Completed(run, ok) /\ e.is = "completed" /\ e.run = run
    BY <1>4
  <2>2. PICK s \in Seq(Events) : s = Append(L.events, e)
    BY <1>1, AppendedProperties
  <2>3. \A i \in DOMAIN L.events : L.events[i].is = "completed" => L.events[i].run # e.run
    BY <1>7, <2>1 DEF DoneOnce, IsDone
  <2>4. ResultsDiffer(s)
    BY <1>1, <2>2, <2>3, OneMoreResult
  <2>5. \A i \in DOMAIN s : (\E j \in DOMAIN L.events : s[i] = L.events[j]) \/ s[i] = e
    BY <1>1, <2>2, AppendedFrom
  <2>6. /\ ResultsDiffer(K.events)
        /\ \A i \in DOMAIN K.events : K.events[i].is = "completed" => \E j \in DOMAIN s : K.events[i] = s[j]
    <3>1. CASE K.events = s
      BY <2>4, <3>1
    <3>2. ASSUME NEW b \in Events, b.is # "completed", K.events = Append(s, b)
          PROVE  /\ ResultsDiffer(K.events)
                 /\ \A i \in DOMAIN K.events :
                       K.events[i].is = "completed" => \E j \in DOMAIN s : K.events[i] = s[j]
      <4>1. \A i \in DOMAIN K.events : (\E j \in DOMAIN s : K.events[i] = s[j]) \/ K.events[i] = b
        BY <3>2, AppendedFrom
      <4> QED
        BY <2>4, <3>2, <4>1, OneMoreResult
    <3> QED
      BY <1>7, <2>1, <2>2, <3>1, <3>2
  <2>7. \A r : IsDone(K, r) => IsDone(L, r) \/ r = run
    BY <2>1, <2>5, <2>6 DEF IsDone
  <2> QED
    BY <1>2, <1>7, <2>6, <2>7, ResultComes
<1>8. CASE Answered(K, L)
  BY <1>3, <1>5, <1>8 DEF Answered
<1>9. CASE TakesTurn(K, L)
  BY <1>3, <1>5, <1>6, <1>9 DEF TakesTurn
<1>10. CASE Refuses(K, L)
  BY <1>3, <1>5, <1>10 DEF Refuses
<1>11. CASE IsInterrupted(K, L)
  <2>1. CASE /\ \E i \in DOMAIN L.running : L.running[i] = q.run
             /\ K.running = Without(L.running, q.run)
             /\ K.events = Append(Append(L.events, Completed(q.run, FALSE)), Response(q, TRUE))
    <3>1. q.run \in Runs /\ Response(q, TRUE) \in Events /\ Response(q, TRUE).is = "response"
      BY <1>3, <1>11 DEF IsInterrupted
    <3>2. IsRunning(L, q.run) /\ K.running = Without(L.running, q.run)
      BY <2>1 DEF IsRunning
    <3>3. \E b \in Events : b.is # "completed" /\
             K.events = Append(Append(L.events, Completed(q.run, FALSE)), b)
      BY <2>1, <3>1
    <3> HIDE DEF q
    <3> QED
      BY <1>7, <3>1, <3>2, <3>3
  <2>2. CASE \E ok \in BOOLEAN : K.events = Append(L.events, Response(q, ok))
    BY <1>3, <1>5, <1>11, <2>2 DEF IsInterrupted
  <2> QED
    BY <1>11, <2>1, <2>2 DEF IsInterrupted
<1>12. CASE Finishes(K, L)
  BY <1>7, <1>12 DEF Finishes, IsRunning
<1>13. CASE Crashes(K, L)
  BY <1>6, <1>13 DEF Crashes
<1>14. CASE Garbles(K, L)
  <2>1. GarbledEvent \in Events /\ GarbledEvent.is # "completed"
    BY ResponseTypes DEF GarbledEvent
  <2> QED
    BY <1>5, <1>14, <2>1 DEF Garbles
<1> QED
  BY <1>8, <1>9, <1>10, <1>11, <1>12, <1>13, <1>14 DEF AgentSteps

LEMMA EachStaysDoneOnce ==
    ASSUME InOrder, Types', StepForm, WorkIsKnown, RunsAreInOrder, EachIsDoneOnce
    PROVE  EachIsDoneOnce'
<1> SUFFICES ASSUME adapter' # "codex", NEW l \in Lanes PROVE DoneOnce(lanes'[l])
  BY DEF EachIsDoneOnce
<1>0. Types /\ adapter # "codex"
  BY StepsKeep DEF InOrder, Places, TurnsKept
<1>1. PICK K \in LaneRecords : K = lanes'[l]
  BY DEF Types
<1>2. PICK L \in LaneRecords : L = lanes[l]
  BY <1>0 DEF Types
<1>3. DoneOnce(L) /\ RunsInOrder(L) /\ L.events \in Seq(Events) /\ ResultsDiffer(L.events)
  BY <1>0, <1>2 DEF EachIsDoneOnce, RunsAreInOrder, DoneOnce, LaneRecords
<1>4. CASE OthersSteps(K, L)
  <2>1. CASE AgentSteps(K, L)
    BY <1>1, <1>3, <2>1, AgentResults
  <2>2. CASE ReadsOne(K, L) \/ K.events = <<>>
    <3>1. WorkFrom(K, L, {})
      BY <1>4, OthersWork
    <3>2. ResultsDiffer(K.events) /\ \A r : IsDone(K, r) => IsDone(L, r)
      BY <1>3, <2>2, ResultsRead
    <3> QED
      BY <1>1, <1>3, <3>1, <3>2, NoResultComes
  <2>3. AgentSteps(K, L) \/ ReadsOne(K, L) \/ K.events = <<>>
    BY <1>4 DEF OthersSteps, SameWork, Quits, Loses, Hears, Wakes, Interrupts, Bare, ReadsOne
  <2> QED
    BY <2>1, <2>2, <2>3
<1>5. CASE \E t \in DOMAIN turns : OwnerMoves(t, l)
  <2>1. PICK t \in DOMAIN turns : OwnerMoves(t, l)
    BY <1>5
  <2>2. turns[t].lane = l /\ StreamsTurn(t, K, L)
    BY <1>0, <1>1, <1>2, <2>1 DEF OwnerMoves, GoesOnAs, Opens, AsksFor, StartsTurn, StartsReading
  <2>3. PICK own : own = {OwnRun(t)}
    OBVIOUS
  <2>4. WorkFrom(K, L, {}) \/ WorkFrom(K, L, own)
    BY <1>0, <2>2, <2>3, OwnerWork DEF OwnerSteps
  <2>5. \A r \in own : ~IsDone(L, r)
    <3>1. turns[t].pc \notin AtWork
      BY <2>2 DEF StreamsTurn, AtWork, Ended
    <3>2. ~Known(L, OwnRun(t))
      BY <1>0, <1>2, <2>2, <3>1, NotYetKnown
    <3> QED
      BY <2>3, <3>2 DEF Known
  <2>6. ReadsOne(K, L) \/ K.events = <<>>
    BY <2>2 DEF StreamsTurn, ReadsOne
  <2>7. ResultsDiffer(K.events) /\ \A r : IsDone(K, r) => IsDone(L, r)
    BY <1>3, <2>6, ResultsRead
  <2>8. PICK none : none = {}
    OBVIOUS
  <2>9. (WorkFrom(K, L, none) \/ WorkFrom(K, L, own)) /\ \A r \in none : ~IsDone(L, r)
    BY <2>4, <2>8
  <2> QED
    BY <1>1, <1>3, <2>5, <2>7, <2>9, NoResultComes
<1> QED
  BY <1>0, <1>1, <1>2, <1>4, <1>5, LaneForms DEF LaneForm

-----------------------------------------------------------------------------
(***************************************************************************)
(* Who cancels while a turn is on its way to a lane                        *)
(***************************************************************************)
\* A speculation is recorded as the session's, and nobody cancels when it is made.
CallStep ==
    \E a, new :
        /\ Calling(a, new)
        /\ \A s \in Sessions : spec'[s] \in {spec[s], 0, Len(turns) + 1}
        /\ \A t \in new : turns'[t].spec => a = 0 /\ \A c \in Cancellers : ~Active(c)

LEMMA NextCalls ==
    ASSUME InOrder, Next
    PROVE  OtherForm \/ CallStep
<1>0. /\ Types /\ Counted /\ Places /\ EngineInOrder /\ SlotsInOrder
      /\ spec \in [Sessions -> 0 .. MaxTurns] /\ adapter \in {"codex", "claude", "stdio"}
  BY BackendsAssumption DEF InOrder, Types
<1>1. SUFFICES ASSUME Calls PROVE OtherForm \/ CallStep
  BY NextForms
<1>2. ASSUME NEW s \in Sessions, NEW conv \in Conversations, NEW ctx \in Contexts, Ask(s, conv, ctx)
      PROVE  CallStep
  <2>1. /\ \E a : Calling(a, {Len(turns) + 1})
        /\ ~turns'[Len(turns) + 1].spec
        /\ \A x \in Sessions : spec'[x] = spec[x] \/ (x = s /\ spec'[x] = 0)
    BY <1>0, <1>2, AskSteps
  <2> QED
    BY <2>1 DEF CallStep
<1>3. ASSUME NEW s \in Sessions, Speculate(s)
      PROVE  CallStep
  <2>1. /\ Calling(0, {Len(turns) + 1}) /\ spec' = [spec EXCEPT ![s] = Len(turns) + 1]
        /\ \A c \in Cancellers : ~Active(c)
    BY <1>0, <1>3, SpeculateSteps
  <2>2. \A x \in Sessions : spec'[x] \in {spec[x], 0, Len(turns) + 1}
    BY <1>0, <2>1
  <2> QED
    BY <2>1, <2>2 DEF CallStep
<1>4. ASSUME NEW t \in DOMAIN turns, AbortPending(t)
      PROVE  CallStep
  BY <1>0, <1>4, AbortPendingSteps DEF CallStep
<1>5. ASSUME NEW s \in Sessions, CancelSpeculation(s)
      PROVE  CallStep
  <2>1. (\E a : Calling(a, {})) /\ spec' = [spec EXCEPT ![s] = 0]
    BY <1>0, <1>5, CancelSpeculationSteps
  <2>2. \A x \in Sessions : spec'[x] \in {spec[x], 0, Len(turns) + 1}
    BY <1>0, <2>1
  <2> QED
    BY <2>1, <2>2 DEF CallStep
<1>6. CASE WarmUp
  <2>1. CASE adapter = "claude"
    BY <1>0, <1>6, <2>1, ClaudeWarmsUp DEF OtherForm, WarmMoves
  <2>2. CASE adapter # "claude"
    <3>1. Calling(0, {Len(turns) + 1}) /\ ~turns'[Len(turns) + 1].spec /\ spec' = spec
      BY <1>0, <1>6, <2>2, CodexWarmsUp
    <3> QED
      BY <3>1 DEF CallStep
  <2> QED
    BY <2>1, <2>2
<1> QED
  BY <1>1, <1>2, <1>3, <1>4, <1>5, <1>6 DEF Calls

\* claude_app: a turn that cancels before it begins goes to lanes of the session's slot.
CancelsOwnSlots ==
    adapter = "claude" =>
        \A c \in Cancellers : \A l \in Lanes :
            c # 0 /\ Active(c) /\ ~turns[c].aborted /\ Given(c, l) =>
                slots.session = cancels[c].session /\ l \in {slots.discovery, slots.patch}

LEMMA ActiveCallers ==
    ASSUME InOrder, NEW c \in Cancellers, c # 0, Active(c)
    PROVE  c \in DOMAIN turns /\ turns[c].pc = "cancelling" /\ Main(c) /\ Live(c)
           /\ turns[c].session = cancels[c].session
BY DEF InOrder, Places, CancelsInOrder, EngineInOrder, Live, Ended

\* While a turn cancels, no other is on its way to a lane of claude_app or stdio_agent.
LEMMA CallersAreAlone ==
    ASSUME InOrder, adapter # "codex", NEW c \in Cancellers, c # 0, Active(c),
           NEW t \in DOMAIN turns, turns[t].pc = "called"
    PROVE  FALSE
<1>1. EngineInOrder
  BY DEF InOrder
<1>2. c \in DOMAIN turns /\ turns[c].pc = "cancelling" /\ Main(c) /\ Live(c)
  BY ActiveCallers
<1>3. turns[t].spec \/ Main(t)
  BY <1>1 DEF EngineInOrder, Main, Ordinary
<1>4. Live(t)
  BY DEF Live, Ended
<1> QED
  BY <1>1, <1>2, <1>3, <1>4 DEF EngineInOrder

LEMMA CancelsOwnSlotsStay ==
    ASSUME InOrder, Types', StepForm, CancelsOwnSlots
    PROVE  CancelsOwnSlots'
<1>0. Types /\ CancelsInOrder /\ TurnsKept
  BY StepsKeep DEF InOrder, Places
<1> SUFFICES ASSUME adapter = "claude", NEW c \in Cancellers, NEW l \in Lanes,
                    c # 0, Active(c)', ~turns'[c].aborted, Given(c, l)'
             PROVE  slots'.session = cancels'[c].session /\ l \in {slots'.discovery, slots'.patch}
  BY <1>0 DEF CancelsOwnSlots, TurnsKept
<1>1. CASE OtherForm
  <2>1. Given(c, l) /\ Active(c) /\ cancels'[c].session = cancels[c].session
    BY <1>1, GivenShrinks, StepsAreQuiet DEF QuietMoves, Active
  <2>2. c \in DOMAIN turns
    BY <2>1, ActiveCallers
  <2>3. ~turns[c].aborted
    BY <1>0, <2>2 DEF TurnsKept
  <2>4. slots.session = cancels[c].session /\ l \in {slots.discovery, slots.patch}
    BY <2>1, <2>3 DEF CancelsOwnSlots
  <2>5. CASE slots' = slots
    BY <2>1, <2>4, <2>5
  <2>6. CASE \E f \in Lanes : WarmMoves(f)
    <3>1. slots.discovery = 0 /\ slots.patch = 0 /\ l # 0
      BY <2>6 DEF WarmMoves, Lanes
    <3> QED
      BY <2>4, <3>1
  <2>7. CASE \E t \in DOMAIN turns, k \in Lanes : EnterMoves(t, k)
    BY <2>1, <2>7, CallersAreAlone DEF EnterMoves, EntersLane
  <2> QED
    BY <2>5, <2>6, <2>7, SlotsSame
<1>2. CASE \E a, new : Calling(a, new)
  <2>1. PICK a, new : Calling(a, new)
    BY <1>2
  <2>2. slots' = slots
    BY <2>1 DEF Calling
  <2>3. CASE cancels'[c] = cancels[c]
    <3>1. Given(c, l) /\ Active(c)
      BY <2>3 DEF Given, Active
    <3>2. c \in DOMAIN turns
      BY <3>1, ActiveCallers
    <3>3. ~turns[c].aborted
      BY <1>0, <3>2 DEF TurnsKept
    <3> QED
      BY <2>2, <2>3, <3>1, <3>3 DEF CancelsOwnSlots
  <2>4. CASE cancels'[c] # cancels[c]
    <3>1. ~Given(c, l)
      <4>1. cancels[c].step = "idle"
        BY <2>1, <2>4, <1>0 DEF Calling, Starts0, Types
      <4>2. cancels[c].left = <<>> /\ DOMAIN <<>> = {}
        BY <1>0, <4>1, EmptySeq DEF CancelsInOrder
      <4> QED
        BY <4>2 DEF Given
    <3> QED
      BY <2>1, <2>2, <3>1, CallGives
  <2> QED
    BY <2>3, <2>4
<1> QED
  BY <1>1, <1>2 DEF StepForm

-----------------------------------------------------------------------------
(***************************************************************************)
(* codex_app: the active turn of a process                                 *)
(***************************************************************************)
\* It is being read, or was dropped before the agent was done with it.
ActiveTurns ==
    adapter = "codex" =>
        \A l \in Lanes : LET r == lanes[l].active.run IN
            r # NoRun => r[1] \in DOMAIN turns /\ turns[r[1]].pc \in {"reading", "dropped"}
                         /\ turns[r[1]].lane = l

LEMMA ActiveFrom ==
    ASSUME Types, StepForm, NEW l \in Lanes
    PROVE  \/ lanes'[l].active \in {lanes[l].active, NoTurn}
           \/ \E t \in DOMAIN turns :
                 /\ lanes'[l].active.run = OwnRun(t) /\ turns[t].lane = l
                 /\ MovesTo(t, "reading", turns[t].attempt, turns[t].answer)
<1>1. CASE OthersSteps(lanes'[l], lanes[l])
  BY <1>1 DEF OthersSteps, SameWork, Quits, Loses, Hears, Wakes, Interrupts, Writes, AgentSteps, SamePlace
<1>2. CASE \E t \in DOMAIN turns : OwnerMoves(t, l)
  <2>1. PICK t \in DOMAIN turns : OwnerMoves(t, l)
    BY <1>2
  <2>2. PICK pc \in Pcs : /\ MovesTo(t, pc, turns[t].attempt, turns[t].answer)
                          /\ GoesOnAs(t, pc, lanes'[l], lanes[l])
    BY <2>1 DEF OwnerMoves
  <2>3. turns[t].lane = l
    BY <2>1 DEF OwnerMoves
  <2>4. CASE pc = "reading" /\ StartsReading(t, lanes'[l], lanes[l])
    BY <2>2, <2>3, <2>4 DEF StartsReading
  <2>5. CASE Opens(t, lanes'[l], lanes[l])
    BY <2>5 DEF Opens
  <2>6. CASE AsksFor(pc, t, lanes'[l], lanes[l])
    BY <2>6 DEF AsksFor, Writes
  <2>7. CASE StartsTurn(t, lanes'[l], lanes[l])
    BY <2>7 DEF StartsTurn, Writes
  <2>8. CASE StreamsTurn(t, lanes'[l], lanes[l])
    BY <2>8 DEF StreamsTurn
  <2> QED
    BY <2>2, <2>4, <2>5, <2>6, <2>7, <2>8 DEF GoesOnAs
<1> QED
  BY <1>1, <1>2, LaneForms DEF LaneForm

\* A turn that is read is read on, or its lane has no active turn any more.
LEMMA ReadingStays ==
    ASSUME InOrder, StepForm, adapter = "codex", NEW t \in DOMAIN turns,
           turns[t].pc \in {"reading", "dropped"}
    PROVE  \/ turns'[t].pc \in {"reading", "dropped"} /\ turns'[t].lane = turns[t].lane
           \/ lanes'[turns[t].lane].active = NoTurn
<1>0. Types
  BY DEF InOrder
<1>1. CASE \E a, new : Calling(a, new)
  BY <1>0, <1>1, CallingKeeps
<1>2. CASE \E f \in Lanes : WarmMoves(f)
  BY <1>2 DEF WarmMoves
<1>3. CASE \E u \in DOMAIN turns : AwaitMoves(u) /\ ~turns[u].aborted
  BY <1>3 DEF AwaitMoves
<1>4. CASE \E u \in DOMAIN turns : DropMoves(u)
  BY <1>4 DEF DropMoves, MovesTo
<1>5. CASE \E u \in DOMAIN turns, l \in Lanes : EnterMoves(u, l) /\ ~turns[u].aborted
  BY <1>5 DEF EnterMoves, EntersLane
<1>6. CASE \E u \in DOMAIN turns : BusyForm(u)
  <2>1. PICK u \in DOMAIN turns : BusyForm(u)
    BY <1>6
  <2>2. TurnForm(u) /\ InLane(u)
    BY <2>1 DEF BusyForm, TurnMoves
  <2>3. CASE u # t
    BY <2>2, <2>3 DEF TurnForm, MovesTo
  <2>4. CASE u = t
    <3>1. turns[t].pc = "reading"
      BY <2>2, <2>4 DEF InLane, Busy
    <3> DEFINE K == lanes'[turns[t].lane]
               L == lanes[turns[t].lane]
    <3>2. CASE turns' = turns
      BY <3>1, <3>2
    <3>3. CASE Quits(K)
      BY <3>3 DEF Quits
    <3>4. ASSUME NEW pc, NEW answer, StopsWith(t, pc, answer, K, L)
          PROVE  K.active = NoTurn
      BY <3>1, <3>4 DEF StopsWith, Loses, Quits
    <3>5. ~Opens(t, K, L) /\ ~StartsTurn(t, K, L) /\ ~StartsReading(t, K, L) /\ ~StreamsTurn(t, K, L)
          /\ \A do : ~AsksFor(do, t, K, L)
      BY <3>1 DEF Opens, StartsTurn, StartsReading, StreamsTurn, AsksFor
    <3> QED
      BY <2>2, <2>4, <3>2, <3>3, <3>4, <3>5 DEF TurnForm
  <2> QED
    BY <2>3, <2>4
<1>7. CASE \E c \in Cancellers : CancelForm(c)
  BY <1>7, CancelTurns
<1>8. CASE \E l \in Lanes : AgentForm(l)
  BY <1>8 DEF AgentForm
<1> QED
  BY <1>1, <1>2, <1>3, <1>4, <1>5, <1>6, <1>7, <1>8 DEF StepForm, OtherForm

LEMMA ActiveTurnsStay ==
    ASSUME InOrder, Types', StepForm, ActiveTurns
    PROVE  ActiveTurns'
<1>0. Types /\ TurnsKept
  BY StepsKeep DEF InOrder, Places
<1> SUFFICES ASSUME adapter = "codex", NEW l \in Lanes, NEW r, r = lanes'[l].active.run, r # NoRun
             PROVE  r[1] \in DOMAIN turns' /\ turns'[r[1]].pc \in {"reading", "dropped"}
                    /\ turns'[r[1]].lane = l
  BY <1>0 DEF ActiveTurns, TurnsKept
<1>1. CASE lanes'[l].active = NoTurn
  BY <1>1 DEF NoTurn
<1>2. CASE lanes'[l].active = lanes[l].active /\ lanes'[l].active # NoTurn
  <2>1. r = lanes[l].active.run
    BY <1>2
  <2>2. r[1] \in DOMAIN turns /\ turns[r[1]].pc \in {"reading", "dropped"} /\ turns[r[1]].lane = l
    BY <2>1 DEF ActiveTurns
  <2> QED
    BY <1>0, <1>2, <2>2, ReadingStays DEF TurnsKept
<1>3. CASE \E t \in DOMAIN turns :
              /\ lanes'[l].active.run = OwnRun(t) /\ turns[t].lane = l
              /\ MovesTo(t, "reading", turns[t].attempt, turns[t].answer)
  BY <1>3 DEF MovesTo, OwnRun, Run
<1> QED
  BY <1>0, <1>1, <1>2, <1>3, ActiveFrom

\* Who has interrupted a turn waits for the answer as long as the turn is active.
InterruptsActive ==
    \A c \in Cancellers :
        cancels[c].step = "interrupt" => lanes[Head(cancels[c].left)].active.run # NoRun

LEMMA HeldActive ==
    ASSUME InOrder, StepForm, NEW c \in Cancellers, cancels[c].step = "interrupt",
           cancels'[c] = cancels[c]
    PROVE  lanes'[Head(cancels[c].left)].active = lanes[Head(cancels[c].left)].active
<1> DEFINE k == Head(cancels[c].left)
<1>0. Types /\ CancelsInOrder /\ TurnsInOrder
  BY DEF InOrder, Places
<1>1. adapter = "codex" /\ Holds(c, k) /\ k \in Lanes /\ cancels[c].left # <<>>
  BY <1>0, HeldLane DEF CancelsInOrder
<1>2. c # 0 => turns[c].pc = "cancelling"
  BY <1>0 DEF CancelsInOrder, Active
<1> HIDE DEF k
<1>3. CASE \E a, new : Calling(a, new)
  BY <1>3 DEF Calling, k
<1>4. CASE \E f \in Lanes : WarmMoves(f)
  BY <1>1, <1>4 DEF WarmMoves
<1>5. CASE \E u \in DOMAIN turns : AwaitMoves(u) /\ ~turns[u].aborted
  BY <1>5 DEF AwaitMoves, k
<1>6. CASE \E u \in DOMAIN turns : DropMoves(u)
  BY <1>1, <1>6 DEF DropMoves, SameWork, k
<1>7. CASE \E u \in DOMAIN turns, l \in Lanes : EnterMoves(u, l) /\ ~turns[u].aborted
  BY <1>1, <1>7 DEF EnterMoves, EntersLane, SameWork, k
<1>8. CASE \E u \in DOMAIN turns : BusyForm(u)
  <2>1. PICK u \in DOMAIN turns : BusyForm(u)
    BY <1>8
  <2>2. InLane(u) /\ Holds(u, turns[u].lane) /\ \A m \in Lanes : m # turns[u].lane => lanes'[m] = lanes[m]
    BY <2>1 DEF BusyForm, TurnMoves
  <2>3. u # 0
    BY <1>0, TurnIsKnown
  <2>4. turns[u].lane # k
    BY <1>1, <1>2, <2>2, <2>3 DEF Holds, InLane, Busy
  <2> QED
    BY <1>1, <2>2, <2>4 DEF k
<1>9. CASE \E d \in Cancellers : CancelForm(d)
  <2>1. PICK d \in Cancellers : CancelForm(d)
    BY <1>9
  <2>2. CASE d = c
    <3>1. CancelAtLane(c)
      BY <1>1, <2>1, <2>2 DEF CancelForm, CancelMoves
    <3>2. cancels'[c].step = "interrupt"
      OBVIOUS
    <3> QED
      BY <3>1, <3>2, NoCancelType DEF CancelAtLane, CancelEnds, CancelPasses
  <2>3. CASE d # c
    <3>1. CASE cancels[d].left = <<>>
      BY <2>1, <3>1 DEF CancelForm, CancelMoves, k
    <3>2. CASE cancels[d].left # <<>>
      <4>1. CancelAtLane(d)
        BY <2>1, <3>1, <3>2 DEF CancelForm, CancelMoves
      <4>2. CASE Head(cancels[d].left) # k
        BY <1>1, <4>1, <4>2 DEF CancelAtLane, k
      <4>3. CASE Head(cancels[d].left) = k
        <5>1. cancels[d].step \notin {"locking", "interrupt"}
          BY <1>1, <2>1, <2>3, <4>3 DEF CancelForm, Holds
        <5> QED
          BY <4>1, <4>3, <5>1 DEF CancelAtLane, SameWork, k
      <4> QED
        BY <4>2, <4>3
    <3> QED
      BY <3>1, <3>2
  <2> QED
    BY <2>2, <2>3
<1>10. CASE \E l \in Lanes : AgentForm(l)
  BY <1>1, <1>10 DEF AgentForm, AgentSteps, SamePlace, k
<1> QED
  BY <1>3, <1>4, <1>5, <1>6, <1>7, <1>8, <1>9, <1>10 DEF StepForm, OtherForm

LEMMA InterruptsActiveStay ==
    ASSUME InOrder, StepForm, InterruptsActive
    PROVE  InterruptsActive'
<1> SUFFICES ASSUME NEW c \in Cancellers, cancels'[c].step = "interrupt"
             PROVE  lanes'[Head(cancels'[c].left)].active.run # NoRun
  BY DEF InterruptsActive
<1>0. Types
  BY DEF InOrder
<1>1. CASE cancels'[c] = cancels[c]
  BY <1>1, HeldActive DEF InterruptsActive
<1>2. CASE cancels'[c] # cancels[c]
  <2>1. CASE \E a, new : Calling(a, new)
    BY <1>0, <1>2, <2>1 DEF Calling, Starts0, Types
  <2>2. CASE \E u \in DOMAIN turns : DropMoves(u)
    BY <1>2, <2>2, NoCancelType DEF DropMoves
  <2>3. CASE \E d \in Cancellers : CancelForm(d)
    <3>1. CancelForm(c)
      BY <1>2, <2>3, CancelTurns
    <3>2. CancelAtLane(c) \/ CancelEnds(c)
      BY <3>1 DEF CancelForm, CancelMoves
    <3>3. CancelAtLane(c) /\ ~CancelEnds(c) /\ ~CancelPasses(c)
      BY <3>2, NoCancelType DEF CancelEnds, CancelPasses
    <3>4. CASE cancels[c].step = "locking" /\ Interrupts(lanes'[Head(cancels[c].left)], lanes[Head(cancels[c].left)])
               /\ CancelStaysAt(c, "interrupt")
      BY <3>4 DEF Interrupts, Writes, CancelStaysAt
    <3>5. CASE cancels[c].step = "interrupt" /\ lanes'[Head(cancels[c].left)].active = lanes[Head(cancels[c].left)].active
               /\ CancelStaysAt(c, "interrupt")
      BY <3>5 DEF CancelStaysAt, InterruptsActive
    <3> QED
      BY <3>3, <3>4, <3>5 DEF CancelAtLane, CancelStaysAt
  <2>4. CASE UNCHANGED cancels
    BY <1>2, <2>4
  <2> QED
    BY <2>1, <2>2, <2>3, <2>4 DEF StepForm, OtherForm, WarmMoves, AwaitMoves, EnterMoves, EntersLane,
       BusyForm, AgentForm
<1> QED
  BY <1>1, <1>2

-----------------------------------------------------------------------------
(***************************************************************************)
(* What a step does to one turn, and to one queue                          *)
(***************************************************************************)
SamePlaceOf(x) ==
    /\ turns'[x].pc = turns[x].pc /\ turns'[x].lane = turns[x].lane
    /\ turns'[x].attempt = turns[x].attempt

LEMMA TurnWays ==
    ASSUME InOrder, StepForm, NEW x \in DOMAIN turns
    PROVE  \/ SamePlaceOf(x)
           \/ AwaitMoves(x) \/ DropMoves(x) \/ BusyForm(x)
           \/ \E l \in Lanes : EnterMoves(x, l)
           \/ turns[x].pc = "cancelling" /\ turns'[x].pc = "called"
<1>0. Types
  BY DEF InOrder
<1>1. CASE \E a, new : Calling(a, new)
  BY <1>0, <1>1, CallingKeeps DEF SamePlaceOf
<1>2. CASE \E f \in Lanes : WarmMoves(f)
  BY <1>2 DEF WarmMoves, SamePlaceOf
<1>3. CASE \E u \in DOMAIN turns : AwaitMoves(u) /\ ~turns[u].aborted
  <2>1. PICK u \in DOMAIN turns : AwaitMoves(u)
    BY <1>3
  <2> QED
    BY <2>1 DEF AwaitMoves, SamePlaceOf
<1>4. CASE \E u \in DOMAIN turns : DropMoves(u)
  <2>1. PICK u \in DOMAIN turns : DropMoves(u)
    BY <1>4
  <2>2. u # x => turns'[x] = turns[x]
    BY <2>1 DEF DropMoves, MovesTo
  <2> QED
    BY <2>1, <2>2 DEF SamePlaceOf
<1>5. CASE \E u \in DOMAIN turns, l \in Lanes : EnterMoves(u, l) /\ ~turns[u].aborted
  <2>1. PICK u \in DOMAIN turns, l \in Lanes : EnterMoves(u, l)
    BY <1>5
  <2> QED
    BY <2>1, SMTT(30) DEF EnterMoves, EntersLane, SamePlaceOf
<1>6. CASE \E u \in DOMAIN turns : BusyForm(u)
  <2>1. PICK u \in DOMAIN turns : BusyForm(u)
    BY <1>6
  <2>2. TurnForm(u)
    BY <2>1 DEF BusyForm, TurnMoves
  <2>3. u # x => turns'[x] = turns[x]
    BY <2>2 DEF TurnForm, MovesTo
  <2> QED
    BY <2>1, <2>3 DEF SamePlaceOf
<1>7. CASE \E c \in Cancellers : CancelForm(c)
  BY <1>7, CancelTurns DEF SamePlaceOf
<1>8. CASE \E l \in Lanes : AgentForm(l)
  BY <1>8 DEF AgentForm, SamePlaceOf
<1> QED
  BY <1>1, <1>2, <1>3, <1>4, <1>5, <1>6, <1>7, <1>8 DEF StepForm, OtherForm

LEMMA DroppedStays ==
    ASSUME InOrder, StepForm, NEW x \in DOMAIN turns, turns[x].pc = "dropped"
    PROVE  turns'[x].pc = "dropped"
BY TurnWays DEF SamePlaceOf, MovesTo, AwaitMoves, DropMoves, Live, Ended, BusyForm, InLane, Busy, EnterMoves, EntersLane

Before(x, y, q) == \E i, j \in DOMAIN q : i < j /\ q[i] = x /\ q[j] = y

LEMMA BeforeOps ==
    ASSUME NEW q \in Seq(Cancellers), NEW x, NEW y
    PROVE  /\ q # <<>> /\ Before(x, y, Tail(q)) => Before(x, y, q)
           /\ \A z \in Cancellers : Before(x, y, Append(q, z)) => Before(x, y, q) \/ (z = y /\ In(x, q))
           /\ \A z : Before(x, y, Without(q, z)) => Before(x, y, q)
           /\ IsInjective(q) => ~Before(x, x, q)
           /\ Before(x, y, q) => In(x, q) /\ In(y, q)
           /\ Heads(x, q) /\ In(y, q) /\ x # y => Before(x, y, q)
<1>1. ASSUME q # <<>>, Before(x, y, Tail(q)) PROVE Before(x, y, q)
  <2>1. PICK i \in DOMAIN Tail(q), j \in DOMAIN Tail(q) : i < j /\ Tail(q)[i] = x /\ Tail(q)[j] = y
    BY <1>1 DEF Before
  <2>2. /\ i + 1 \in DOMAIN q /\ Tail(q)[i] = q[i + 1] /\ j + 1 \in DOMAIN q /\ Tail(q)[j] = q[j + 1]
        /\ i \in Nat /\ j \in Nat
    BY <1>1, TailProperties
  <2> QED
    BY <2>1, <2>2 DEF Before
<1>2. ASSUME NEW z \in Cancellers, Before(x, y, Append(q, z))
      PROVE  Before(x, y, q) \/ (z = y /\ In(x, q))
  <2>1. PICK i \in DOMAIN Append(q, z), j \in DOMAIN Append(q, z) :
           i < j /\ Append(q, z)[i] = x /\ Append(q, z)[j] = y
    BY <1>2 DEF Before
  <2>2. /\ DOMAIN q = 1 .. Len(q) /\ DOMAIN Append(q, z) = 1 .. Len(q) + 1 /\ Len(q) \in Nat
        /\ Append(q, z)[Len(q) + 1] = z
        /\ \A k \in DOMAIN q : Append(q, z)[k] = q[k]
    BY AppendedProperties
  <2>3. i \in DOMAIN q /\ (j \in DOMAIN q \/ j = Len(q) + 1)
    BY <2>1, <2>2
  <2> QED
    BY <2>1, <2>2, <2>3 DEF Before, In
<1>3. ASSUME NEW z, Before(x, y, Without(q, z)) PROVE Before(x, y, q)
  <2>1. PICK i \in DOMAIN Without(q, z), j \in DOMAIN Without(q, z) :
           i < j /\ Without(q, z)[i] = x /\ Without(q, z)[j] = y
    BY <1>3 DEF Before
  <2>2. \E k, n \in DOMAIN q : k < n /\ Without(q, z)[i] = q[k] /\ Without(q, z)[j] = q[n]
    BY <2>1, WithoutProperties
  <2> QED
    BY <2>1, <2>2 DEF Before
<1>4. ASSUME IsInjective(q), Before(x, x, q) PROVE FALSE
  <2>1. PICK i \in DOMAIN q, j \in DOMAIN q : i < j /\ q[i] = x /\ q[j] = x
    BY <1>4 DEF Before
  <2>2. i = j /\ i \in Nat
    BY <1>4, <2>1, LenProperties DEF IsInjective
  <2> QED
    BY <2>1, <2>2
<1>5. Before(x, y, q) => In(x, q) /\ In(y, q)
  BY DEF Before, In
<1>6. ASSUME Heads(x, q), In(y, q), x # y PROVE Before(x, y, q)
  <2>1. PICK j \in DOMAIN q : q[j] = y
    BY <1>6 DEF In
  <2>2. q # <<>> /\ q[1] = x /\ DOMAIN q = 1 .. Len(q) /\ Len(q) \in Nat \ {0}
    BY <1>6, TailProperties DEF Heads
  <2>3. j # 1 /\ j \in 1 .. Len(q)
    BY <1>6, <2>1, <2>2
  <2>4. 1 \in DOMAIN q /\ 1 < j
    BY <2>2, <2>3
  <2> QED
    BY <2>1, <2>2, <2>4 DEF Before
<1> QED
  BY <1>1, <1>2, <1>3, <1>4, <1>5, <1>6

\* Who is added to a queue enters the lane, or goes there to cancel.
LEMMA QueueSteps ==
    ASSUME InOrder, StepForm, NEW l \in Lanes
    PROVE  LET q == lanes[l].queue
               w == lanes'[l].queue IN
           \/ w = q \/ (q # <<>> /\ w = Tail(q)) \/ \E z : w = Without(q, z)
           \/ \E z \in DOMAIN turns : EnterMoves(z, l) /\ ~turns[z].aborted /\ w = Append(q, z)
           \/ \E z \in Cancellers : CancelForm(z) /\ cancels[z].step = "next" /\ w = Append(q, z)
<1>0. Types
  BY DEF InOrder
<1>1. CASE \E a, new : Calling(a, new)
  BY <1>1 DEF Calling
<1>2. CASE \E f \in Lanes : WarmMoves(f)
  BY <1>2 DEF WarmMoves, EmptyLane
<1>3. CASE \E u \in DOMAIN turns : AwaitMoves(u) /\ ~turns[u].aborted
  BY <1>3 DEF AwaitMoves
<1>4. CASE \E u \in DOMAIN turns : DropMoves(u)
  BY <1>4 DEF DropMoves
<1>5. CASE \E u \in DOMAIN turns, k \in Lanes : EnterMoves(u, k) /\ ~turns[u].aborted
  <2>1. PICK u \in DOMAIN turns, k \in Lanes : EnterMoves(u, k) /\ ~turns[u].aborted
    BY <1>5
  <2>2. CASE k = l
    BY <2>1, <2>2 DEF EnterMoves, EntersLane
  <2>3. CASE k # l
    <3>1. lanes'[l] = lanes[l] \/ (lanes'[l] = EmptyLane /\ lanes[l].queue = <<>>)
      BY <1>0, <2>1, <2>3, BackendsAssumption DEF EnterMoves, Types
    <3> QED
      BY <3>1 DEF EmptyLane
  <2> QED
    BY <2>2, <2>3
<1>6. CASE \E u \in DOMAIN turns : BusyForm(u)
  <2>1. PICK u \in DOMAIN turns : BusyForm(u)
    BY <1>6
  <2>2. TurnForm(u) /\ lanes[turns[u].lane].queue # <<>>
        /\ \A m \in Lanes : m # turns[u].lane => lanes'[m] = lanes[m]
    BY <2>1 DEF BusyForm, TurnMoves
  <2>3. CASE turns[u].lane = l
    BY <2>2, <2>3, BusyQueue
  <2> QED
    BY <2>2, <2>3
<1>7. CASE \E c \in Cancellers : CancelForm(c)
  <2>1. PICK c \in Cancellers : CancelForm(c)
    BY <1>7
  <2> DEFINE k == Head(cancels[c].left)
  <2>2. CASE lanes' = lanes
    BY <2>2
  <2>3. CASE cancels[c].left # <<>> /\ k # l
    BY <2>1, <2>3, CancelQueues
  <2>4. CASE cancels[c].left # <<>> /\ k = l
    <3>1. \/ lanes' = lanes
          \/ cancels[c].step = "next" /\ lanes'[l].queue = Append(lanes[l].queue, c)
          \/ lanes'[l].queue = lanes[l].queue
          \/ cancels[c].step # "next" /\ lanes'[l].queue = Tail(lanes[l].queue)
      BY <2>1, <2>4, CancelQueues
    <3>2. cancels[c].step \in {"idle", "next", "locking", "interrupt"}
      BY <1>0 DEF Types, CancelRecords
    <3>3. cancels[c].step # "next" => Holds(c, l)
      BY <2>1, <2>4, <3>2 DEF CancelForm, Active
    <3> QED
      BY <2>1, <3>1, <3>3 DEF Holds
  <2> QED
    BY <2>1, <2>2, <2>3, <2>4, CancelQueues
<1>8. CASE \E k \in Lanes : AgentForm(k)
  <2>1. PICK k \in Lanes : AgentForm(k)
    BY <1>8
  <2> QED
    BY <2>1 DEF AgentForm, AgentSteps, SamePlace
<1> QED
  BY <1>1, <1>2, <1>3, <1>4, <1>5, <1>6, <1>7, <1>8 DEF StepForm, OtherForm

\* One is before another in a queue: it was so, or the other has just come.
LEMMA BeforeSteps ==
    ASSUME InOrder, StepForm, NEW l \in Lanes, NEW x, NEW y, Before(x, y, lanes'[l].queue)
    PROVE  \/ Before(x, y, lanes[l].queue)
           \/ In(x, lanes[l].queue) /\ y \in DOMAIN turns /\ EnterMoves(y, l) /\ ~turns[y].aborted
           \/ In(x, lanes[l].queue) /\ y \in Cancellers /\ CancelForm(y) /\ cancels[y].step = "next"
<1>1. Types /\ Places
  BY DEF InOrder
<1>2. lanes[l].queue \in Seq(Cancellers) /\ IsInjective(lanes[l].queue)
  BY <1>1, PlacesByElement
<1>3. \A z \in DOMAIN turns : z \in Cancellers
  BY <1>1, OwnRunType
<1>4. PICK q : q = lanes[l].queue
  OBVIOUS
<1>5. PICK w : w = lanes'[l].queue
  OBVIOUS
<1>6. /\ q # <<>> /\ Before(x, y, Tail(q)) => Before(x, y, q)
      /\ \A z \in Cancellers : Before(x, y, Append(q, z)) => Before(x, y, q) \/ (z = y /\ In(x, q))
      /\ \A z : Before(x, y, Without(q, z)) => Before(x, y, q)
  BY <1>2, <1>4, BeforeOps
<1>7. \/ w = q \/ (q # <<>> /\ w = Tail(q)) \/ \E z : w = Without(q, z)
      \/ \E z \in DOMAIN turns : EnterMoves(z, l) /\ ~turns[z].aborted /\ w = Append(q, z)
      \/ \E z \in Cancellers : CancelForm(z) /\ cancels[z].step = "next" /\ w = Append(q, z)
  BY <1>4, <1>5, QueueSteps
<1>8. Before(x, y, w)
  BY <1>5
<1> QED
  BY <1>3, <1>4, <1>6, <1>7, <1>8

-----------------------------------------------------------------------------
(***************************************************************************)
(* Who is responsible for the work of an aborted turn                      *)
(***************************************************************************)
\* A cancellation of its session has still to come to the lane.
Covers(c, x, l) ==
    /\ Active(c) /\ cancels[c].session = turns[x].session /\ Given(c, l)
    /\ c # 0 => ~turns[c].aborted
    /\ ~Before(c, x, lanes[l].queue)

\* The lane of a slot that claude_app has given up ends with the turn.
Orphan(x, l) ==
    /\ adapter = "claude" /\ TurnIn(x, l) /\ l \notin Referenced
    /\ \A c \in Cancellers : ~Given(c, l)
    /\ turns[x].pc = "waiting" \/ \A y : In(y, lanes[l].queue) => y = x

Pending(x, l) == WorksFor(x, l) \/ (adapter # "codex" /\ TurnIn(x, l))

Covered ==
    \A l \in Lanes : \A x \in DOMAIN turns :
        turns[x].aborted /\ Pending(x, l) =>
            (\E c \in Cancellers : Covers(c, x, l)) \/ Orphan(x, l)

\* Only codex_app sends other requests than turns.
OnlyReads ==
    adapter # "codex" =>
        \A t \in DOMAIN turns : turns[t].pc \in Busy => turns[t].pc = "reading"

LEMMA OnlyReadsStay ==
    ASSUME InOrder, Types', StepForm, OnlyReads
    PROVE  OnlyReads'
<1> SUFFICES ASSUME adapter' # "codex", NEW t \in DOMAIN turns', turns'[t].pc \in Busy
             PROVE  turns'[t].pc = "reading"
  BY DEF OnlyReads
<1>0. Types /\ CancelsInOrder
  BY DEF InOrder, Places
<1>1. adapter' = adapter /\ adapter # "codex"
  BY <1>0, StepsKeep DEF TurnsKept
<1>2. CASE t \notin DOMAIN turns
  <2>1. PICK a, new : Calling(a, new)
    <3>1. OtherForm => DOMAIN turns' = DOMAIN turns
      BY StepsAreQuiet DEF QuietMoves
    <3> QED
      BY <1>2, <3>1 DEF StepForm
  <2>2. Adds(new) /\ t \in new
    BY <1>2, <2>1 DEF Calling, Adds
  <2> QED
    BY <2>2 DEF Adds, Busy
<1>3. CASE t \in DOMAIN turns
  <2>1. CASE SamePlaceOf(t)
    BY <1>1, <1>3, <2>1 DEF SamePlaceOf, OnlyReads
  <2>2. CASE BusyForm(t)
    <3>1. TurnForm(t)
      BY <2>2 DEF BusyForm, TurnMoves
    <3>2. turns' = turns \/ turns'[t].pc \in {"failed", "done", "reading"}
      BY <1>1, <3>1 DEF TurnForm, MovesTo, Opens, AsksFor, StartsTurn, StartsReading
    <3> QED
      BY <1>1, <1>3, <3>2 DEF OnlyReads, Busy
  <2>3. AwaitMoves(t) \/ DropMoves(t) => FALSE
    BY DEF AwaitMoves, DropMoves, MovesTo, Busy
  <2>4. (\E l \in Lanes : EnterMoves(t, l)) => FALSE
    BY DEF EnterMoves, EntersLane, Busy
  <2> QED
    BY <1>3, <2>1, <2>2, <2>3, <2>4, TurnWays DEF Busy
<1> QED
  BY <1>2, <1>3

\* claude_app: nobody cancels the session of a turn that is in the lane another enters.
LEMMA EntersAlone ==
    ASSUME InOrder, WorkIsKnown, OneSession, adapter = "claude", NEW l \in Lanes,
           NEW y \in DOMAIN turns, EnterMoves(y, l), ~turns[y].aborted,
           NEW x \in DOMAIN turns, Pending(x, l),
           NEW c \in Cancellers, Active(c), cancels[c].session = turns[x].session
    PROVE  FALSE
<1>0. Types /\ EngineInOrder
  BY DEF InOrder
<1>1. turns[y].pc = "called" /\ Live(y)
  BY DEF EnterMoves, EntersLane, Live, Ended
<1>2. c = 0
  BY <1>0, <1>1, CallersAreAlone
<1>3. turns[y].conv # "warm" /\ turns[y].spec \in BOOLEAN
  BY <1>0, TurnIsKnown DEF EngineInOrder, TurnRecords
<1>4. turns[y].spec
  BY <1>0, <1>1, <1>2, <1>3 DEF EngineInOrder, Main, Ordinary
<1>5. cancels[c].session # turns[y].session
  BY <1>0, <1>1, <1>4 DEF EngineInOrder
<1>6. Has(l, turns[x].session)
  BY DEF Has, Serves, Pending
<1> QED
  BY <1>5, <1>6, EntersItsOwn

LEMMA NobodyAborted ==
    ASSUME InOrder, WorkIsKnown, OneSession, Covered, adapter = "claude", NEW l \in Lanes,
           NEW y \in DOMAIN turns, EnterMoves(y, l), ~turns[y].aborted,
           NEW x \in DOMAIN turns, Pending(x, l), turns[x].aborted
    PROVE  FALSE
<1>1. \A c \in Cancellers : ~Covers(c, x, l)
  BY EntersAlone DEF Covers
<1>2. Orphan(x, l)
  BY <1>1 DEF Covered
<1>3. lanes[l] = EmptyLane
  BY <1>2 DEF Orphan, EnterMoves
<1>4. Queued(x, l)
  BY <1>2 DEF Orphan, TurnIn, InOrder, Places, TurnsInOrder
<1> QED
  BY <1>3, <1>4, EmptySeq DEF Queued, EmptyLane

-----------------------------------------------------------------------------
(***************************************************************************)
(* claude_app and stdio_agent: whose results a process still has to give   *)
(***************************************************************************)
\* A lane works for the turn that reads, for turns that missed their result, and for turns
\* that were dropped.
ReadsOwn ==
    adapter # "codex" =>
        \A l \in Lanes : \A x : WorksFor(x, l) =>
            turns[x].pc \in {"reading", "dropped"} \/ MissedItsResult(x)

\* claude_app: behind a turn that was dropped there is nobody in the lane.
LeavesNobody ==
    adapter = "claude" =>
        \A l \in Lanes : \A x : WorksFor(x, l) /\ turns[x].pc = "dropped" => \A y : ~TurnIn(y, l)

\* claude_app: only a speculation that is nobody's any more, and is not aborted, has a turn
\* behind it.
IsLeft(x, y) ==
    /\ turns[x].spec /\ ~turns[x].aborted
    /\ turns[y].spec => spec[turns[x].session] # x

InTurn ==
    adapter = "claude" =>
        \A l \in Lanes : \A x, y \in DOMAIN turns :
            Before(x, y, lanes[l].queue) /\ TurnIn(x, l) /\ TurnIn(y, l) => IsLeft(x, y)

\* Only the holder of a lane reads an answer there.
LEMMA AnswerStays ==
    ASSUME InOrder, StepForm, NEW t \in DOMAIN turns
    PROVE  turns'[t].answer = turns[t].answer \/ BusyForm(t)
<1>0. Types
  BY DEF InOrder
<1>1. CASE \E a, new : Calling(a, new)
  BY <1>0, <1>1, CallingKeeps
<1>2. CASE OtherForm
  <2>1. CASE \E f \in Lanes : WarmMoves(f)
    BY <2>1 DEF WarmMoves
  <2>2. CASE \E u \in DOMAIN turns : AwaitMoves(u) /\ ~turns[u].aborted
    BY <2>2 DEF AwaitMoves
  <2>3. CASE \E u \in DOMAIN turns : DropMoves(u)
    BY <2>3 DEF DropMoves, MovesTo
  <2>4. CASE \E u \in DOMAIN turns, l \in Lanes : EnterMoves(u, l) /\ ~turns[u].aborted
    BY <2>4 DEF EnterMoves, EntersLane
  <2>5. CASE \E u \in DOMAIN turns : BusyForm(u)
    <3>1. PICK u \in DOMAIN turns : BusyForm(u)
      BY <2>5
    <3>2. u # t => turns'[t] = turns[t]
      BY <3>1, BusyQueue DEF BusyForm, TurnMoves, MovesTo
    <3> QED
      BY <3>1, <3>2
  <2>6. CASE \E c \in Cancellers : CancelForm(c)
    BY <2>6, CancelTurns
  <2>7. CASE \E k \in Lanes : AgentForm(k)
    BY <2>7 DEF AgentForm
  <2> QED
    BY <1>2, <2>1, <2>2, <2>3, <2>4, <2>5, <2>6, <2>7 DEF OtherForm
<1> QED
  BY <1>1, <1>2 DEF StepForm

\* A turn that stops reading had its own result, or missed it: the line it ended by was
\* no result, or another turn's.
LEMMA HadOrMissed ==
    ASSUME InOrder, WorkIsKnown, EachIsDoneOnce, adapter # "codex", adapter' = adapter,
           NEW t \in DOMAIN turns, BusyForm(t), turns[t].pc = "reading", turns'[t].pc # "reading",
           NEW l \in Lanes, turns[t].lane = l, WorksFor(t, l)'
    PROVE  MissedItsResult(t)'
<1>1. l = turns[t].lane
  OBVIOUS
<1>2. PICK L : L = lanes[l]
  OBVIOUS
<1>3. PICK K : K = lanes'[l]
  OBVIOUS
<1>4. Types /\ L.events \in Seq(Events) /\ LaneInOrder(L) /\ L.active = NoTurn /\ DoneOnce(L)
  BY <1>1, <1>2, LaneFields DEF InOrder, LanesInOrder, LaneInOrder, EachIsDoneOnce
<1>5. PICK r : r[1] = t /\ Works(lanes[l], r)'
  BY DEF WorksFor
<1>6. IsStart(K, r) \/ IsRunning(K, r) \/ IsActive(K, r) \/ IsDone(K, r)
  BY <1>3, <1>5 DEF Works
<1>7. TurnForm(t)
  BY DEF BusyForm, TurnMoves
<1>8. \/ Quits(K) \/ Loses(K, L)
      \/ \E answer : /\ turns'[t].answer = answer /\ Hears(K, L) /\ K.active = L.active
                     /\ EndsBy(answer, Head(L.events))
      \/ ~L.up /\ SameWork(K, L) /\ L.events = <<>>
  BY <1>1, <1>2, <1>3, <1>7
     DEF TurnForm, StopsWith, MovesTo, Opens, AsksFor, StartsTurn, StartsReading, StreamsTurn
<1>9. CASE Quits(K)
  BY <1>6, <1>9, NothingKnown DEF Known, IsBegun
<1>10. CASE Loses(K, L)
  BY <1>4, <1>6, <1>10, NoWorkInBare, NoneActive DEF Loses
<1>11. CASE ~L.up /\ SameWork(K, L) /\ L.events = <<>>
  BY <1>4, <1>6, <1>11, EmptySeq, NoneActive
     DEF SameWork, LaneInOrder, IsStart, IsRunning, IsDone
<1>12. ASSUME NEW answer, turns'[t].answer = answer, Hears(K, L), K.active = L.active,
              EndsBy(answer, Head(L.events))
       PROVE  MissedItsResult(t)'
  <2>1. t # 0 /\ t \in Nat
    BY <1>4, TurnIsKnown
  <2>2. CASE answer = Misread
    BY <1>12, <2>1, <2>2, MisreadIsARun DEF MissedItsResult
  <2>3. CASE Head(L.events).is = "completed" /\ answer = Head(L.events).run
    <3>1. 1 \in DOMAIN L.events /\ L.events[1] = Head(L.events) /\ L.events # <<>>
          /\ K.events = Tail(L.events)
      BY <1>4, <1>12, TailProperties DEF Hears
    <3>2. IsDone(L, answer)
      BY <2>3, <3>1 DEF IsDone
    <3>3. PICK u \in DOMAIN turns : answer = OwnRun(u)
      BY <1>1, <1>2, <3>2 DEF WorkIsKnown, Its, Known
    <3>4. answer[1] = u /\ answer # NoRun
      BY <1>4, <3>3, OwnRunType
    <3>5. CASE u # t
      BY <1>12, <3>4, <3>5 DEF MissedItsResult
    <3>6. CASE u = t
      <4>1. IsDone(K, r) => IsDone(L, r)
        BY <1>4, <1>12, ReadWork DEF Hears, ReadsOne
      <4>2. IsStart(L, r) \/ IsRunning(L, r) \/ IsDone(L, r)
        BY <1>4, <1>6, <1>12, <4>1, NoneActive DEF Hears, IsStart, IsRunning
      <4>3. PICK v \in DOMAIN turns : r = OwnRun(v)
        BY <1>1, <1>2, <4>2 DEF WorkIsKnown, Its, Known, IsBegun
      <4>4. r = answer
        BY <1>4, <1>5, <3>3, <3>6, <4>3, OwnRunType
      <4>5. ~IsStart(L, r) /\ ~IsRunning(L, r)
        BY <1>4, <3>2, <4>4 DEF DoneOnce
      <4>6. IsDone(K, r)
        BY <1>4, <1>6, <1>12, <4>5, NoneActive DEF Hears, IsStart, IsRunning
      <4>7. \A i \in DOMAIN Tail(L.events) :
               Tail(L.events)[i].is = "completed" => Tail(L.events)[i].run # answer
        BY <1>4, <2>3, <3>1, ResultsDifferInTail DEF DoneOnce
      <4> QED
        BY <3>1, <4>4, <4>6, <4>7 DEF IsDone
    <3> QED
      BY <3>5, <3>6
  <2> QED
    BY <1>12, <2>2, <2>3 DEF EndsBy
<1> QED
  BY <1>8, <1>9, <1>10, <1>11, <1>12

LEMMA ReadsOwnStays ==
    ASSUME InOrder, Types', StepForm, WorkIsKnown, OnlyReads, EachIsDoneOnce, ReadsOwn
    PROVE  ReadsOwn'
<1> SUFFICES ASSUME adapter' # "codex", NEW l \in Lanes, NEW x, WorksFor(x, l)'
             PROVE  turns'[x].pc \in {"reading", "dropped"} \/ MissedItsResult(x)'
  BY DEF ReadsOwn
<1>0. Types /\ CancelsInOrder /\ adapter # "codex" /\ adapter' = adapter
  BY StepsKeep DEF InOrder, Places, TurnsKept
<1>1. x \in DOMAIN turns /\ (WorksFor(x, l) \/ SetsToWork(x, l))
  BY WorksForFrom
<1>2. CASE SetsToWork(x, l)
  BY <1>0, <1>2 DEF SetsToWork, MovesTo
<1>3. CASE WorksFor(x, l) /\ turns[x].pc = "dropped"
  BY <1>1, <1>3, DroppedStays
<1>4. CASE WorksFor(x, l) /\ turns[x].pc = "reading"
  <2>1. turns[x].lane = l
    BY <1>0, <1>4, WorkersAreTurns
  <2>2. CASE SamePlaceOf(x)
    BY <1>4, <2>2 DEF SamePlaceOf
  <2>3. CASE DropMoves(x)
    BY <2>3 DEF DropMoves, MovesTo
  <2>4. CASE BusyForm(x)
    <3>1. turns'[x].pc # "reading" => MissedItsResult(x)'
      BY <1>0, <1>1, <1>4, <2>1, <2>4, HadOrMissed
    <3> QED
      BY <3>1
  <2>5. ~AwaitMoves(x) /\ (\A m \in Lanes : ~EnterMoves(x, m)) /\ turns[x].pc # "cancelling"
    BY <1>4 DEF AwaitMoves, EnterMoves, EntersLane
  <2> QED
    BY <1>1, <2>2, <2>3, <2>4, <2>5, TurnWays
<1>5. CASE WorksFor(x, l) /\ turns[x].pc \notin {"reading", "dropped"}
  <2>1. MissedItsResult(x)
    BY <1>0, <1>5 DEF ReadsOwn
  <2>2. turns[x].pc \in AtWork
    BY <1>0, <1>5, WorkersAreTurns
  <2>3. turns[x].pc \notin {"waiting"} \cup Busy
    BY <1>0, <1>1, <1>5, <2>2 DEF OnlyReads, AtWork, Ended, Busy
  <2>4. ~BusyForm(x)
    BY <2>3 DEF BusyForm, InLane
  <2>5. turns'[x].answer = turns[x].answer
    BY <1>1, <2>4, AnswerStays
  <2> QED
    BY <2>1, <2>5 DEF MissedItsResult
<1> QED
  BY <1>1, <1>2, <1>3, <1>4, <1>5

LEMMA NobodyBehind ==
    ASSUME InOrder, InTurn, adapter = "claude", NEW l \in Lanes, NEW x \in DOMAIN turns,
           turns[x].aborted, TurnIn(x, l), Holds(x, l), NEW y, TurnIn(y, l)
    PROVE  y = x
<1>1. Types /\ Places
  BY DEF InOrder
<1>2. SUFFICES ASSUME y # x PROVE FALSE
  OBVIOUS
<1>3. Heads(x, lanes[l].queue) /\ lanes[l].queue \in Seq(Cancellers)
  BY <1>1, PlacesByElement
<1>4. y \in DOMAIN turns /\ In(y, lanes[l].queue)
  BY <1>1, PlacesByElement DEF TurnIn, Places, TurnsInOrder
<1>5. PICK q : q = lanes[l].queue
  OBVIOUS
<1>6. Before(x, y, q)
  BY <1>2, <1>3, <1>4, <1>5, BeforeOps
<1> QED
  BY <1>4, <1>5, <1>6 DEF InTurn, IsLeft

LEMMA LeavesNobodyStays ==
    ASSUME InOrder, Types', StepForm, WorkIsKnown, OneSession, Covered, InTurn, LeavesNobody
    PROVE  LeavesNobody'
<1> SUFFICES ASSUME adapter' = "claude", NEW l \in Lanes, NEW x, WorksFor(x, l)',
                    turns'[x].pc = "dropped", NEW y, TurnIn(y, l)'
             PROVE  FALSE
  BY DEF LeavesNobody
<1>0. Types /\ CancelsInOrder /\ adapter = "claude" /\ adapter' = adapter
  BY StepsKeep DEF InOrder, Places, TurnsKept
<1>1. x \in DOMAIN turns /\ (WorksFor(x, l) \/ SetsToWork(x, l))
  BY WorksForFrom
<1>2. CASE SetsToWork(x, l)
  BY <1>2 DEF SetsToWork, MovesTo
<1>3. CASE WorksFor(x, l) /\ turns[x].pc = "dropped"
  <2>1. turns[x].aborted
    BY <1>1, <1>3 DEF InOrder, Places, TurnsInOrder
  <2>2. ~TurnIn(y, l)
    BY <1>0, <1>3 DEF LeavesNobody
  <2>3. y \in DOMAIN turns /\ EnterMoves(y, l) /\ ~turns[y].aborted
    BY <1>0, <2>2, TurnInFrom
  <2> QED
    BY <1>0, <1>1, <1>3, <2>1, <2>3, NobodyAborted DEF Pending
<1>4. CASE WorksFor(x, l) /\ turns[x].pc # "dropped"
  <2>1. DropMoves(x)
    BY <1>1, <1>4, TurnWays
       DEF SamePlaceOf, AwaitMoves, BusyForm, TurnMoves, TurnForm, StopsWith, MovesTo, Opens, AsksFor,
           StartsTurn, StartsReading, StreamsTurn, EnterMoves, EntersLane
  <2>2. turns[x].aborted /\ Live(x) /\ \A z \in DOMAIN turns : z # x => turns'[z] = turns[z]
    BY <2>1 DEF DropMoves, MovesTo
  <2>3. turns[x].lane = l /\ turns[x].pc \in AtWork
    BY <1>0, <1>4, WorkersAreTurns
  <2>4. TurnIn(x, l) /\ Holds(x, l)
    BY <1>1, <2>2, <2>3 DEF InOrder, Places, TurnsInOrder, AtWork, Busy, TurnIn, InLane, Live
  <2>5. y # x
    BY DEF TurnIn, InLane, Busy
  <2>6. CASE TurnIn(y, l)
    BY <1>0, <1>1, <2>2, <2>4, <2>5, <2>6, NobodyBehind
  <2>7. CASE y \in DOMAIN turns /\ EnterMoves(y, l)
    BY <2>2, <2>5, <2>7 DEF EnterMoves, EntersLane
  <2> QED
    BY <1>0, <2>6, <2>7, TurnInFrom
<1> QED
  BY <1>1, <1>2, <1>3, <1>4

\* Who is on the way to a lane, or cancels, is not in it.
LEMMA NotInLane ==
    ASSUME InOrder, NEW l \in Lanes, NEW x \in DOMAIN turns, turns[x].pc = "called",
           In(x, lanes[l].queue)
    PROVE  FALSE
<1>1. Types /\ Places
  BY DEF InOrder
<1>2. TurnIn(x, l) \/ CancelIn(x, l)
  BY <1>1, PlacesByElement
<1>3. cancels[x].step = "idle"
  BY <1>1, TurnOrCanceller DEF Places
<1> QED
  BY <1>2, <1>3 DEF TurnIn, InLane, Busy, CancelIn

\* A turn enters behind another.
LEMMA EntersBehind ==
    ASSUME InOrder, WorkIsKnown, OneSession, Covered, adapter = "claude", NEW l \in Lanes,
           NEW x \in DOMAIN turns, TurnIn(x, l),
           NEW y \in DOMAIN turns, EnterMoves(y, l), ~turns[y].aborted
    PROVE  IsLeft(x, y) /\ x # y
<1>0. Types /\ EngineInOrder
  BY DEF InOrder
<1>1. turns[y].pc = "called" /\ Live(y) /\ Live(x) /\ x # y
  BY DEF EnterMoves, EntersLane, TurnIn, InLane, Busy, Live, Ended
<1>2. Pending(x, l)
  BY DEF Pending
<1>3. ~turns[x].aborted
  BY <1>2, NobodyAborted
<1>4. /\ turns[y].conv # "warm" /\ turns[x].conv # "warm"
      /\ turns[y].spec \in BOOLEAN /\ turns[x].spec \in BOOLEAN
  BY <1>0, TurnIsKnown DEF EngineInOrder, TurnRecords
<1>5. turns[x].spec
  <2>1. SUFFICES ASSUME Main(x) PROVE FALSE
    BY <1>4 DEF Main, Ordinary
  <2>2. CASE turns[y].spec
    BY <1>0, <1>1, <2>1, <2>2 DEF EngineInOrder
  <2>3. CASE Main(y)
    BY <1>0, <1>1, <2>1, <2>3 DEF EngineInOrder
  <2> QED
    BY <1>4, <2>2, <2>3 DEF Main, Ordinary
<1>6. ASSUME turns[y].spec PROVE spec[turns[x].session] # x
  <2>1. spec[turns[y].session] = y
    BY <1>0, <1>1, <1>6 DEF EngineInOrder
  <2>2. Has(l, turns[x].session)
    BY <1>2 DEF Has, Serves, Pending
  <2>3. turns[x].session = turns[y].session
    BY <2>2, EntersItsOwn
  <2> QED
    BY <1>1, <2>1, <2>3
<1> QED
  BY <1>1, <1>3, <1>5, <1>6 DEF IsLeft

\* It is so as long as both are in the lane.
LEMMA LeftStays ==
    ASSUME InOrder, Types', OtherForm \/ CallStep, adapter = "claude",
           NEW x \in DOMAIN turns, NEW y \in DOMAIN turns, Live(y), IsLeft(x, y)
    PROVE  IsLeft(x, y)'
<1>0. Types /\ EngineInOrder
  BY DEF InOrder
<1>1. CASE OtherForm
  BY <1>1, StepsAreQuiet DEF QuietMoves, IsLeft
<1>2. CASE CallStep
  <2>1. PICK a, new : /\ Calling(a, new)
                      /\ \A s \in Sessions : spec'[s] \in {spec[s], 0, Len(turns) + 1}
    BY <1>2 DEF CallStep
  <2>2. /\ turns'[x].spec = turns[x].spec /\ turns'[y].spec = turns[y].spec
        /\ turns'[x].session = turns[x].session
    BY <1>0, <2>1, CallingKeeps DEF TurnsKept
  <2>3. turns[x].session \in Sessions /\ turns[x].conv = "goal"
    BY <1>0, TurnIsKnown DEF EngineInOrder, TurnRecords, SessionNames, IsLeft
  <2>4. x # a
    <3>1. SUFFICES ASSUME x = a PROVE FALSE
      OBVIOUS
    <3>2. a # 0
      BY <1>0, <3>1, TurnIsKnown
    <3>3. spec[turns[x].session] = x /\ \A o \in Asked : ~Live(o)
      BY <2>1, <3>1, <3>2 DEF Calling, IsLeft
    <3>4. y \in Asked \/ turns[y].spec
      BY DEF Asked, Ordinary
    <3> QED
      BY <3>3, <3>4 DEF IsLeft
  <2>5. turns[y].spec => spec'[turns[x].session] # x
    <3>1. x \in Nat \ {0} /\ x <= Len(turns) /\ Len(turns) \in Nat
      BY <1>0, TurnIsKnown
    <3>2. x # 0 /\ x # Len(turns) + 1
      BY <3>1
    <3> QED
      BY <2>1, <2>3, <3>2 DEF IsLeft
  <2>6. turns'[x] = turns[x]
    BY <2>1, <2>4 DEF Calling, AbortsOne
  <2> QED
    BY <2>2, <2>5, <2>6 DEF IsLeft
<1> QED
  BY <1>1, <1>2

LEMMA InTurnStays ==
    ASSUME InOrder, Types', StepForm, OtherForm \/ CallStep, WorkIsKnown, OneSession, Covered, InTurn
    PROVE  InTurn'
<1> SUFFICES ASSUME adapter' = "claude", NEW l \in Lanes, NEW x \in DOMAIN turns', NEW y \in DOMAIN turns',
                    Before(x, y, lanes'[l].queue), TurnIn(x, l)', TurnIn(y, l)'
             PROVE  IsLeft(x, y)'
  BY DEF InTurn
<1>0. Types /\ Places /\ CancelsInOrder /\ adapter = "claude"
  BY StepsKeep DEF InOrder, Places, TurnsKept
<1>1. \/ TurnIn(x, l)
      \/ x \in DOMAIN turns /\ EnterMoves(x, l) /\ ~turns[x].aborted
  BY <1>0, TurnInFrom
<1>2. \/ TurnIn(y, l)
      \/ y \in DOMAIN turns /\ EnterMoves(y, l) /\ ~turns[y].aborted
  BY <1>0, TurnInFrom
<1>3. x \in DOMAIN turns /\ y \in DOMAIN turns
  BY <1>1, <1>2 DEF TurnIn
<1>4. In(x, lanes[l].queue) => TurnIn(x, l)
  BY <1>1, NotInLane DEF EnterMoves, EntersLane
<1>5. PICK q : q = lanes[l].queue
  OBVIOUS
<1>6. q \in Seq(Cancellers)
  BY <1>0, <1>5, PlacesByElement
<1>7. CASE Before(x, y, q)
  <2>1. In(x, q) /\ In(y, q)
    BY <1>6, <1>7, BeforeOps
  <2>2. TurnIn(x, l) /\ TurnIn(y, l)
    BY <1>2, <1>4, <1>5, <2>1, NotInLane DEF EnterMoves, EntersLane
  <2>3. IsLeft(x, y) /\ Live(y)
    BY <1>0, <1>3, <1>5, <1>7, <2>2 DEF InTurn, TurnIn, InLane, Live, Busy, Ended
  <2> QED
    BY <1>0, <1>3, <2>3, LeftStays
<1>8. CASE In(x, q) /\ EnterMoves(y, l) /\ ~turns[y].aborted
  <2>1. IsLeft(x, y) /\ Live(y)
    BY <1>0, <1>3, <1>4, <1>5, <1>8, EntersBehind DEF EnterMoves, EntersLane, Live, Ended
  <2> QED
    BY <1>0, <1>3, <2>1, LeftStays
<1>9. CASE y \in Cancellers /\ CancelForm(y)
  <2>1. y # 0
    BY <1>0, <1>3, TurnIsKnown
  <2>2. turns[y].pc = "cancelling"
    BY <1>9, <2>1, ActiveCallers DEF CancelForm
  <2>3. turns'[y].pc \in {"cancelling", "called"}
    BY <1>3, <1>9, <2>2, CancelTurns
  <2> QED
    BY <2>3 DEF TurnIn, InLane, Busy
<1> QED
  BY <1>5, <1>7, <1>8, <1>9, BeforeSteps

-----------------------------------------------------------------------------
(***************************************************************************)
(* The work of an aborted turn is always somebody's to end                 *)
(***************************************************************************)
LEMMA PendingFrom ==
    ASSUME InOrder, Types', StepForm, WorkIsKnown, NEW l \in Lanes, NEW x, Pending(x, l)'
    PROVE  /\ x \in DOMAIN turns
           /\ Pending(x, l) \/ (~turns[x].aborted /\ turns'[x].aborted = turns[x].aborted)
<1>0. Types /\ CancelsInOrder /\ adapter' = adapter
  BY StepsKeep DEF InOrder, Places, TurnsKept
<1>1. CASE WorksFor(x, l)'
  <2>1. x \in DOMAIN turns /\ (WorksFor(x, l) \/ SetsToWork(x, l))
    BY <1>1, WorksForFrom
  <2>2. SetsToWork(x, l) => ~turns[x].aborted /\ turns'[x].aborted = turns[x].aborted
    BY DEF SetsToWork, Begins, MovesTo
  <2> QED
    BY <2>1, <2>2 DEF Pending
<1>2. CASE adapter' # "codex" /\ TurnIn(x, l)'
  <2>1. TurnIn(x, l) \/ (x \in DOMAIN turns /\ EnterMoves(x, l) /\ ~turns[x].aborted)
    BY <1>0, <1>2, TurnInFrom
  <2>2. EnterMoves(x, l) => turns'[x].aborted = turns[x].aborted
    BY DEF EnterMoves, EntersLane
  <2>3. TurnIn(x, l) => x \in DOMAIN turns /\ Pending(x, l)
    BY <1>0, <1>2 DEF Pending, TurnIn
  <2> QED
    BY <2>1, <2>2, <2>3
<1> QED
  BY <1>1, <1>2 DEF Pending

\* Who is aborted with work to end was at work before.
LEMMA PendingBefore ==
    ASSUME InOrder, Types', StepForm, WorkIsKnown, NEW l \in Lanes, NEW x,
           Pending(x, l)', turns'[x].aborted
    PROVE  /\ x \in DOMAIN turns /\ Pending(x, l)
           /\ turns[x].aborted \/ \E new : Calling(x, new)
<1>0. Types
  BY DEF InOrder
<1>1. x \in DOMAIN turns /\ Pending(x, l)
  BY PendingFrom
<1>2. CASE OtherForm
  <2>1. turns'[x].aborted = turns[x].aborted
    BY <1>1, <1>2, StepsAreQuiet DEF QuietMoves
  <2> QED
    BY <1>1, <2>1
<1>3. CASE \E a, new : Calling(a, new)
  <2>1. PICK a, new : Calling(a, new)
    BY <1>3
  <2>2. x # a => turns'[x] = turns[x]
    BY <1>1, <2>1 DEF Calling, AbortsOne
  <2> QED
    BY <1>1, <2>1, <2>2
<1> QED
  BY <1>2, <1>3 DEF StepForm

\* Its lane.
LEMMA PendingLane ==
    ASSUME Types, SlotsInOrder, WorkIsKnown, NEW l \in Lanes, NEW x, Pending(x, l)
    PROVE  /\ x \in DOMAIN turns /\ turns[x].lane = l /\ turns[x].pc \in {"waiting"} \cup Busy \cup Ended
           /\ adapter = "codex" => l \in {1, 2}
           /\ adapter = "stdio" => l = 1
<1>1. CASE WorksFor(x, l)
  <2>1. x \in DOMAIN turns /\ turns[x].lane = l /\ turns[x].pc \in AtWork
    BY <1>1, WorkersAreTurns
  <2>2. l # 0
    BY DEF Lanes
  <2> QED
    BY <2>1, <2>2 DEF SlotsInOrder, AtWork, Busy
<1>2. CASE TurnIn(x, l)
  <2>2. l # 0
    BY DEF Lanes
  <2> QED
    BY <1>2, <2>2 DEF SlotsInOrder, TurnIn, InLane
<1> QED
  BY <1>1, <1>2 DEF Pending

\* A cancellation that begins goes wherever its session may be at work.
LEMMA RouteCovers ==
    ASSUME InOrder, Types', NEW a, NEW new, Calling(a, new), NEW l \in Lanes, NEW x \in DOMAIN turns,
           NEW d \in Cancellers, Starts0(d, turns[x].session),
           d # 0 => d \in new,
           adapter = "codex" => l \in {1, 2}, adapter = "stdio" => l = 1,
           adapter = "claude" => slots.session = turns[x].session /\ l \in {slots.discovery, slots.patch}
    PROVE  Covers(d, x, l)'
<1>0. Types /\ Places /\ adapter \in {"codex", "claude", "stdio"}
  BY BackendsAssumption DEF InOrder, Types
<1>1. /\ turns'[x].session = turns[x].session /\ UNCHANGED <<adapter, lanes, slots>>
      /\ \A t \in new : t \notin DOMAIN turns
  BY <1>0, CallingKeeps DEF TurnsKept
<1>2. PICK route \in CancelRoutes(turns[x].session) :
         /\ cancels[d].step = "idle"
         /\ cancels' = [cancels EXCEPT ![d] = [step |-> "next", session |-> turns[x].session, left |-> route]]
  BY DEF Starts0
<1>3. cancels'[d].step = "next" /\ cancels'[d].session = turns[x].session /\ cancels'[d].left = route
  BY <1>0, <1>2 DEF Types
<1>4. \E i \in DOMAIN route : route[i] = l
  <2>1. turns[x].session \in SessionNames
    BY <1>0, TurnIsKnown DEF TurnRecords
  <2>2. l # 0
    BY DEF Lanes
  <2>3. CASE adapter = "codex"
    <3>1. route = <<1, 2>>
      BY <1>0, <1>2, <2>1, <2>3, RouteTypes
    <3> QED
      BY <2>3, <3>1
  <2>4. CASE adapter = "stdio"
    <3>1. route = <<1>>
      BY <1>0, <1>2, <2>1, <2>4, RouteTypes
    <3> QED
      BY <2>4, <3>1
  <2>5. CASE adapter = "claude"
    <3>1. \A k \in {slots.discovery, slots.patch} \ {0} :
             slots.session = turns[x].session => \E i \in DOMAIN route : route[i] = k
      BY <1>0, <1>2, <2>1, <2>5, RouteTypes, ZenonT(30)
    <3>2. l \in {slots.discovery, slots.patch} \ {0} /\ slots.session = turns[x].session
      BY <2>2, <2>5
    <3> QED
      BY <3>1, <3>2
  <2> QED
    BY <1>0, <2>3, <2>4, <2>5
<1>5. ~Before(d, x, lanes[l].queue)
  <2>1. In(d, lanes[l].queue) => TurnIn(d, l) \/ CancelIn(d, l)
    BY <1>0, PlacesByElement
  <2>2. ~CancelIn(d, l) /\ ~TurnIn(d, l)
    <3>1. d \notin DOMAIN turns
      BY <1>0, <1>1, TurnIsKnown
    <3> QED
      BY <1>2, <3>1 DEF TurnIn, CancelIn
  <2> QED
    BY <2>1, <2>2 DEF Before, In
<1>6. d # 0 => ~turns'[d].aborted
  BY DEF Calling, Adds
<1>7. Given(d, l)'
  BY <1>3, <1>4 DEF Given
<1> QED
  BY <1>1, <1>3, <1>5, <1>6, <1>7 DEF Covers, Active

\* A call keeps what covers a turn, unless it is the cancellation of a turn it aborts.
LEMMA OldCovers ==
    ASSUME InOrder, Types', NEW a, NEW new, Calling(a, new), CancelsOwnSlots, NEW l \in Lanes,
           NEW x \in DOMAIN turns,
           adapter = "codex" => l \in {1, 2}, adapter = "stdio" => l = 1,
           NEW c \in Cancellers, Covers(c, x, l)
    PROVE  \E d \in Cancellers : Covers(d, x, l)'
<1>0. Types /\ Places
  BY DEF InOrder
<1>1. /\ turns'[x].session = turns[x].session /\ UNCHANGED <<adapter, lanes, slots>>
      /\ a \in DOMAIN turns \cup {0}
  BY <1>0, CallingKeeps DEF TurnsKept, Calling
<1>2. CASE a = 0
  <2>1. cancels' = cancels
    BY <1>2 DEF Calling
  <2>2. c # 0 => turns'[c] = turns[c]
    <3>1. c # 0 => c \in DOMAIN turns
      BY ActiveCallers DEF Covers
    <3> QED
      BY <1>2, <3>1 DEF Calling, AbortsOne
  <2> QED
    BY <1>1, <2>1, <2>2 DEF Covers, Active, Given
<1>3. CASE a # 0
  <2>1. PICK d \in Cancellers : Starts0(d, turns[a].session) /\ (d # 0 => d \in new)
    BY <1>3 DEF Calling
  <2>2. c = a
    BY <1>3 DEF Calling, Covers
  <2>3. turns[a].session = turns[x].session /\ turns[a].session = cancels[a].session
    BY <1>3, <2>2, ActiveCallers DEF Covers
  <2>4. adapter = "claude" => slots.session = turns[x].session /\ l \in {slots.discovery, slots.patch}
    BY <1>3, <2>2, <2>3 DEF CancelsOwnSlots, Covers
  <2>5. Covers(d, x, l)'
    BY <2>1, <2>3, <2>4, RouteCovers
  <2> QED
    BY <2>5
<1> QED
  BY <1>2, <1>3

LEMMA OldOrphan ==
    ASSUME InOrder, Types', NEW a, NEW new, Calling(a, new), NEW l \in Lanes,
           NEW x \in DOMAIN turns, Orphan(x, l)
    PROVE  Orphan(x, l)'
<1>0. Types
  BY DEF InOrder
<1>1. /\ UNCHANGED <<adapter, lanes, slots>> /\ turns'[x].pc = turns[x].pc
      /\ turns'[x].lane = turns[x].lane /\ x \in DOMAIN turns'
  BY <1>0, CallingKeeps DEF TurnsKept
<1>2. ASSUME NEW c \in Cancellers, Given(c, l)' PROVE FALSE
  BY <1>2, CallGives DEF Orphan, Referenced
<1> QED
  BY <1>1, <1>2 DEF Orphan, TurnIn, InLane, Referenced

\* Nobody but a turn is in its lane, when the lane is not in the slot and nobody comes to cancel.
LEMMA AbortedAlone ==
    ASSUME InOrder, InTurn, adapter = "claude", NEW a, NEW new, Calling(a, new), a # 0,
           NEW l \in Lanes, TurnIn(a, l), turns[a].pc # "waiting", \A c \in Cancellers : ~Given(c, l),
           NEW y, In(y, lanes[l].queue)
    PROVE  y = a
<1>0. Types /\ Places /\ a \in DOMAIN turns
  BY DEF InOrder, Calling
<1>1. SUFFICES ASSUME y # a PROVE FALSE
  OBVIOUS
<1>2. PICK q : q = lanes[l].queue
  OBVIOUS
<1>3. q \in Seq(Cancellers) /\ (\A c : In(c, q) => TurnIn(c, l) \/ CancelIn(c, l))
      /\ (Holds(a, l) => Heads(a, q)) /\ y \in Cancellers
  BY <1>0, <1>2, PlacesByElement, QueueOps
<1>4. Holds(a, l)
  BY <1>0 DEF TurnIn, InLane, Places, TurnsInOrder
<1>5. Before(a, y, q)
  BY <1>1, <1>2, <1>3, <1>4, BeforeOps
<1>6. ~CancelIn(y, l)
  <2> SUFFICES ASSUME CancelIn(y, l) PROVE FALSE
    OBVIOUS
  <2>1. cancels[y].left \in Seq(Lanes)
    BY <1>0, <1>3 DEF Types, CancelRecords
  <2>2. Given(y, l)
    BY <2>1, TailProperties DEF CancelIn, Given
  <2> QED
    BY <1>3, <2>2
<1>7. TurnIn(y, l)
  BY <1>2, <1>3, <1>6
<1>8. IsLeft(a, y) /\ y \in DOMAIN turns
  BY <1>0, <1>2, <1>5, <1>7 DEF InTurn, TurnIn
<1>9. spec[turns[a].session] = a /\ \A o \in Asked : ~Live(o)
  BY <1>8 DEF Calling, IsLeft
<1>10. y \in Asked
  BY <1>8, <1>9 DEF IsLeft, Asked, Ordinary
<1> QED
  BY <1>7, <1>9, <1>10 DEF TurnIn, InLane, Live, Busy, Ended

\* claude_app: a turn that is aborted outside the slot of its session.
LEMMA NowOrphan ==
    ASSUME InOrder, Types', WorkIsKnown, OneSession, CancelsOwnSlots, adapter = "claude",
           InTurn, NEW a, NEW new, Calling(a, new), a # 0, ~turns[a].aborted,
           NEW l \in Lanes, Pending(a, l), l \notin {slots.discovery, slots.patch}
    PROVE  Orphan(a, l)'
<1>0. Types /\ Places /\ a \in DOMAIN turns /\ SlotsInOrder
  BY DEF InOrder, Calling
<1>1. l \notin Referenced
  <2>1. Has(l, turns[a].session)
    BY <1>0 DEF Has, Serves, Pending
  <2>2. l # 0
    BY DEF Lanes
  <2>3. l # slots.warm
    BY <2>1, <2>2, NobodyHas
  <2> QED
    BY <2>3 DEF Referenced
<1>2. TurnIn(a, l)
  <2>1. turns[a].lane = l
    BY <1>0, PendingLane
  <2>2. Live(a)
    BY DEF Calling
  <2>3. WorksFor(a, l) => turns[a].pc \in AtWork
    BY <1>0, WorkersAreTurns
  <2> QED
    BY <1>0, <2>1, <2>2, <2>3 DEF Pending, TurnIn, InLane, Busy, AtWork, Live
<1>3. ASSUME NEW c \in Cancellers, Given(c, l) PROVE FALSE
  <2>1. Active(c)
    BY <1>3, EmptySeq DEF InOrder, Places, CancelsInOrder, Active, Given
  <2>2. c = a
    BY <2>1 DEF Calling
  <2> QED
    BY <1>3, <2>1, <2>2 DEF CancelsOwnSlots
<1>4. turns[a].pc = "waiting" \/ \A y : In(y, lanes[l].queue) => y = a
  BY <1>2, <1>3, AbortedAlone
<1>5. Orphan(a, l)
  BY <1>1, <1>2, <1>3, <1>4 DEF Orphan
<1> QED
  BY <1>0, <1>5, OldOrphan

LEMMA CallingCovers ==
    ASSUME InOrder, Types', StepForm, WorkIsKnown, OneSession, CancelsOwnSlots, InTurn, Covered,
           NEW a, NEW new, Calling(a, new)
    PROVE  Covered'
<1> SUFFICES ASSUME NEW l \in Lanes, NEW x \in DOMAIN turns', turns'[x].aborted, Pending(x, l)'
             PROVE  (\E c \in Cancellers : Covers(c, x, l)') \/ Orphan(x, l)'
  BY DEF Covered
<1>0. Types /\ SlotsInOrder
  BY DEF InOrder
<1>1. x \in DOMAIN turns /\ Pending(x, l)
  BY PendingBefore
<1>2. (adapter = "codex" => l \in {1, 2}) /\ (adapter = "stdio" => l = 1)
  BY <1>0, <1>1, PendingLane
<1>3. CASE turns[x].aborted
  <2>1. (\E c \in Cancellers : Covers(c, x, l)) \/ Orphan(x, l)
    BY <1>1, <1>3 DEF Covered
  <2> QED
    BY <1>1, <1>2, <2>1, OldCovers, OldOrphan
<1>4. CASE ~turns[x].aborted
  <2>1. x = a
    BY <1>1, <1>4 DEF Calling, AbortsOne
  <2>2. a # 0
    BY <1>0, <1>1, <2>1, TurnIsKnown
  <2>3. PICK d \in Cancellers : Starts0(d, turns[a].session) /\ (d # 0 => d \in new)
    BY <2>2 DEF Calling
  <2>4. CASE adapter # "claude" \/ (slots.session = turns[x].session /\ l \in {slots.discovery, slots.patch})
    <3>1. Covers(d, x, l)'
      BY <1>1, <1>2, <2>1, <2>3, <2>4, RouteCovers
    <3> QED
      BY <3>1
  <2>5. CASE adapter = "claude" /\ l \notin {slots.discovery, slots.patch}
    BY <1>1, <1>4, <2>1, <2>2, <2>5, NowOrphan
  <2>6. CASE adapter = "claude" /\ slots.session # turns[x].session /\ l \in {slots.discovery, slots.patch}
    <3>1. Has(l, turns[x].session) /\ Has(l, slots.session)
      BY <1>1, <2>6 DEF Has, Serves, SlotOf, Pending
    <3> QED
      BY <2>6, <3>1 DEF OneSession
  <2> QED
    BY <2>4, <2>5, <2>6
<1> QED
  BY <1>3, <1>4

\* codex_app: the agents work for one aborted turn at most.
OneAborted ==
    adapter = "codex" =>
        \A l, m \in Lanes : \A x, y : WorksFor(x, l) /\ WorksFor(y, m)
                                       /\ turns[x].aborted /\ turns[y].aborted => x = y

LEMMA OneAbortedStays ==
    ASSUME InOrder, Types', StepForm, WorkIsKnown, Covered, OneAborted
    PROVE  OneAborted'
<1> SUFFICES ASSUME adapter' = "codex", NEW l \in Lanes, NEW m \in Lanes, NEW x, NEW y,
                    WorksFor(x, l)', WorksFor(y, m)', turns'[x].aborted, turns'[y].aborted, x # y
             PROVE  FALSE
  BY DEF OneAborted
<1>0. Types /\ CancelsInOrder /\ adapter = "codex"
  BY StepsKeep DEF InOrder, Places, TurnsKept
<1>1. Pending(x, l)' /\ Pending(y, m)'
  BY DEF Pending
<1>2. /\ x \in DOMAIN turns /\ WorksFor(x, l) /\ (turns[x].aborted \/ \E new : Calling(x, new))
      /\ y \in DOMAIN turns /\ WorksFor(y, m) /\ (turns[y].aborted \/ \E new : Calling(y, new))
  BY <1>0, <1>1, PendingBefore DEF Pending
\* A turn is aborted while the agents still work for another that was.
<1>3. ASSUME NEW u \in DOMAIN turns, NEW v \in DOMAIN turns, u # v, NEW k \in Lanes, NEW n \in Lanes,
             WorksFor(u, k), WorksFor(v, n), turns[v].aborted, NEW new, Calling(u, new)
      PROVE  FALSE
  <2>1. PICK c \in Cancellers : Covers(c, v, n)
    BY <1>0, <1>3 DEF Covered, Pending, Orphan
  <2>2. u # 0
    BY <1>0, <1>3, TurnIsKnown
  <2>3. c = u
    BY <1>3, <2>1, <2>2 DEF Calling, Covers
  <2>4. turns[u].pc = "cancelling"
    BY <2>1, <2>2, <2>3, ActiveCallers DEF Covers
  <2>5. turns[u].pc \in AtWork
    BY <1>0, <1>3, WorkersAreTurns
  <2> QED
    BY <2>4, <2>5 DEF AtWork, Ended
<1>4. CASE turns[x].aborted /\ turns[y].aborted
  BY <1>0, <1>2, <1>4 DEF OneAborted
<1>5. CASE ~turns[x].aborted
  <2>1. PICK new : Calling(x, new)
    BY <1>2, <1>5
  <2>2. turns'[y] = turns[y]
    BY <1>2, <2>1 DEF Calling, AbortsOne
  <2> QED
    BY <1>2, <1>3, <2>1, <2>2
<1>6. CASE ~turns[y].aborted
  <2>1. PICK new : Calling(y, new)
    BY <1>2, <1>6
  <2>2. turns'[x] = turns[x]
    BY <1>2, <2>1 DEF Calling, AbortsOne
  <2> QED
    BY <1>2, <1>3, <2>1, <2>2
<1> QED
  BY <1>4, <1>5, <1>6

-----------------------------------------------------------------------------
(***************************************************************************)
(* The other steps, for one turn and lane                                  *)
(***************************************************************************)
IsCovered(x, l) == (\E c \in Cancellers : Covers(c, x, l)) \/ Orphan(x, l)

\* Nothing changes for the turn, its lane and those who cancel but what is out of the queue.
LEMMA SameCover ==
    ASSUME NEW l \in Lanes, NEW x \in DOMAIN turns, x \in DOMAIN turns', turns'[x] = turns[x],
           adapter' = adapter,
           \A c : Before(c, x, lanes'[l].queue) => Before(c, x, lanes[l].queue),
           NEW c \in Cancellers, cancels'[c] = cancels[c],
           c # 0 /\ ~turns[c].aborted => ~turns'[c].aborted, Covers(c, x, l)
    PROVE  Covers(c, x, l)'
BY DEF Covers, Active, Given

LEMMA SameOrphan ==
    ASSUME InOrder, OtherForm, NEW l \in Lanes, NEW x \in DOMAIN turns, x \in DOMAIN turns', turns'[x] = turns[x],
           \A y : In(y, lanes'[l].queue) => In(y, lanes[l].queue),
           l \notin Referenced', Orphan(x, l)
    PROVE  Orphan(x, l)'
<1>1. adapter' = adapter
  BY StepsAreQuiet DEF QuietMoves
<1>2. \A c \in Cancellers : ~Given(c, l)'
  BY GivenShrinks DEF Orphan
<1>3. turns[x].pc = "waiting" \/ \A y : In(y, lanes'[l].queue) => y = x
  BY DEF Orphan
<1> QED
  BY <1>1, <1>2, <1>3 DEF Orphan, TurnIn, InLane

\* What is taken out of a queue.
LEMMA QueueLess ==
    ASSUME NEW q \in Seq(Cancellers), IsInjective(q), NEW w,
           w = q \/ (q # <<>> /\ w = Tail(q)) \/ \E z : w = Without(q, z), NEW x
    PROVE  /\ \A y : In(y, w) => In(y, q)
           /\ \A c : Before(c, x, w) => Before(c, x, q)
<1>1. /\ q # <<>> => \A y : In(y, Tail(q)) <=> In(y, q) /\ y # Head(q)
      /\ \A z : \A y : In(y, Without(q, z)) <=> In(y, q) /\ y # z
  BY QueueOps
<1>2. ASSUME NEW c PROVE Before(c, x, w) => Before(c, x, q)
  <2>1. /\ q # <<>> /\ Before(c, x, Tail(q)) => Before(c, x, q)
        /\ \A z : Before(c, x, Without(q, z)) => Before(c, x, q)
    BY BeforeOps
  <2> QED
    BY <2>1
<1> QED
  BY <1>1, <1>2

\* The lane keeps its queue or loses some of it, and nobody's cancellation changes.
LEMMA KeepsCover ==
    ASSUME InOrder, OtherForm, NEW l \in Lanes, NEW x \in DOMAIN turns, x \in DOMAIN turns',
           turns'[x] = turns[x],
           LET q == lanes[l].queue
               w == lanes'[l].queue IN
           w = q \/ (q # <<>> /\ w = Tail(q)) \/ \E z : w = Without(q, z),
           \A c \in Cancellers : Active(c) /\ ~(c # 0 /\ turns[c].aborted) => cancels'[c] = cancels[c],
           l \notin Referenced => l \notin Referenced',
           IsCovered(x, l)
    PROVE  IsCovered(x, l)'
<1>0. Types /\ Places
  BY DEF InOrder
<1>1. PICK q : q = lanes[l].queue
  OBVIOUS
<1>2. PICK w : w = lanes'[l].queue
  OBVIOUS
<1>3. q \in Seq(Cancellers) /\ IsInjective(q)
  BY <1>0, <1>1, PlacesByElement
<1>4. w = q \/ (q # <<>> /\ w = Tail(q)) \/ \E z : w = Without(q, z)
  BY <1>1, <1>2
<1>5. (\A y : In(y, w) => In(y, q)) /\ \A c : Before(c, x, w) => Before(c, x, q)
  BY <1>3, <1>4, QueueLess
<1>6. adapter' = adapter /\ \A t \in DOMAIN turns : turns'[t].aborted = turns[t].aborted
  BY StepsAreQuiet DEF QuietMoves
<1>7. ASSUME NEW c \in Cancellers, Covers(c, x, l) PROVE Covers(c, x, l)'
  <2>1. cancels'[c] = cancels[c]
    BY <1>7 DEF Covers
  <2>2. c # 0 => ~turns'[c].aborted
    <3>1. c # 0 => c \in DOMAIN turns
      BY <1>7, ActiveCallers DEF Covers
    <3> QED
      BY <1>6, <1>7, <3>1 DEF Covers
  <2> QED
    BY <1>1, <1>2, <1>5, <1>6, <1>7, <2>1, <2>2 DEF Covers, Active, Given
<1>8. ASSUME Orphan(x, l) PROVE Orphan(x, l)'
  <2>1. l \notin Referenced'
    BY <1>8 DEF Orphan
  <2> QED
    BY <1>1, <1>2, <1>5, <1>8, <2>1, SameOrphan
<1> QED
  BY <1>7, <1>8 DEF IsCovered

LEMMA WarmCovers ==
    ASSUME InOrder, OtherForm, WorkIsKnown, NEW l \in Lanes, NEW x \in DOMAIN turns, Pending(x, l),
           IsCovered(x, l), NEW f, WarmMoves(f)
    PROVE  IsCovered(x, l)'
<1>1. l # f
  <2>1. Has(l, turns[x].session)
    BY DEF Has, Serves, Pending
  <2> QED
    BY <2>1, NobodyHas DEF WarmMoves
<1>2. l # 0
  BY DEF Lanes
<1> QED
  BY <1>1, <1>2, KeepsCover DEF WarmMoves, Referenced

LEMMA AwaitCovers ==
    ASSUME InOrder, OtherForm, WorkIsKnown, NEW l \in Lanes, NEW x \in DOMAIN turns, Pending(x, l),
           IsCovered(x, l), NEW t \in DOMAIN turns, AwaitMoves(t)
    PROVE  IsCovered(x, l)'
<1>1. turns[x].pc # "awaiting"
  BY PendingLane DEF InOrder, Busy, Ended
<1> QED
  BY <1>1, KeepsCover DEF AwaitMoves, Referenced

LEMMA BusyCovers ==
    ASSUME InOrder, OtherForm, NEW l \in Lanes, NEW x \in DOMAIN turns, turns[x].aborted,
           IsCovered(x, l), NEW t \in DOMAIN turns, BusyForm(t)
    PROVE  IsCovered(x, l)'
<1>1. /\ x # t /\ TurnForm(t) /\ lanes[turns[t].lane].queue # <<>>
      /\ \A m \in Lanes : m # turns[t].lane => lanes'[m] = lanes[m]
      /\ UNCHANGED <<adapter, slots, cancels>>
  BY DEF BusyForm, TurnMoves
<1>2. turns'[x] = turns[x] /\ x \in DOMAIN turns'
  BY <1>1, BusyQueue DEF MovesTo
<1>3. lanes'[l].queue = lanes[l].queue \/ (lanes[l].queue # <<>> /\ lanes'[l].queue = Tail(lanes[l].queue))
  BY <1>1, BusyQueue
<1>4. LET q == lanes[l].queue
          w == lanes'[l].queue IN
      w = q \/ (q # <<>> /\ w = Tail(q)) \/ \E z : w = Without(q, z)
  BY <1>3
<1>5. l \notin Referenced => l \notin Referenced'
  BY <1>1 DEF Referenced
<1> QED
  BY <1>1, <1>2, <1>4, <1>5, KeepsCover

LEMMA AgentCovers ==
    ASSUME InOrder, OtherForm, NEW l \in Lanes, NEW x \in DOMAIN turns,
           IsCovered(x, l), NEW k \in Lanes, AgentForm(k)
    PROVE  IsCovered(x, l)'
<1>1. lanes'[l].queue = lanes[l].queue
  BY DEF AgentForm, AgentSteps, SamePlace
<1> QED
  BY <1>1, KeepsCover DEF AgentForm, Referenced

LEMMA EmptyPending ==
    ASSUME NEW l \in Lanes, NEW x, lanes'[l] = EmptyLane
    PROVE  ~WorksFor(x, l)'
BY EmptyLaneQuits, NothingKnown DEF WorksFor, Works, Known, IsBegun

LEMMA EnterCovers ==
    ASSUME InOrder, OtherForm, WorkIsKnown, NEW l \in Lanes, NEW x \in DOMAIN turns, turns[x].aborted,
           Pending(x, l)', IsCovered(x, l),
           NEW u \in DOMAIN turns, ~turns[u].aborted, NEW m \in Lanes, EnterMoves(u, m)
    PROVE  IsCovered(x, l)'
<1>0. Types /\ Places
  BY DEF InOrder
<1>1. x # u /\ turns'[x] = turns[x] /\ x \in DOMAIN turns' /\ UNCHANGED <<adapter, cancels>>
  BY DEF EnterMoves, EntersLane
<1>2. l # 0
  BY DEF Lanes
<1>3. CASE l # m
  <2>1. lanes'[l] = lanes[l]
    <3>1. SUFFICES ASSUME lanes'[l] = EmptyLane, lanes[l].queue = <<>> PROVE FALSE
      BY <1>0, <1>3, BackendsAssumption DEF EnterMoves, Types
    <3>2. TurnIn(x, l)'
      BY <3>1, EmptyPending DEF Pending
    <3>3. TurnIn(x, l)
      BY <1>1, <3>2 DEF TurnIn, InLane
    <3> QED
      BY <3>1, <3>3, EmptySeq DEF Places, TurnsInOrder, TurnIn, Queued, InOrder
  <2>2. l \notin Referenced => l \notin Referenced'
    BY <1>0, <1>2, <1>3, BackendsAssumption DEF EnterMoves, TakesSlot, Referenced, Types
  <2> QED
    BY <1>1, <2>1, <2>2, KeepsCover
<1>4. CASE l = m
  <2>1. ~Orphan(x, l)
    <3> SUFFICES ASSUME Orphan(x, l) PROVE FALSE
      OBVIOUS
    <3>1. lanes[l] = EmptyLane
      BY <1>4 DEF Orphan, EnterMoves
    <3> QED
      BY <3>1, EmptySeq DEF Orphan, TurnIn, Places, TurnsInOrder, Queued, EmptyLane, InOrder
  <2>2. PICK c \in Cancellers : Covers(c, x, l)
    BY <2>1 DEF IsCovered
  <2>3. c # 0 => ~turns'[c].aborted
    <3>1. c # 0 => c \in DOMAIN turns
      BY <2>2, ActiveCallers DEF Covers
    <3> QED
      BY <2>2, <3>1 DEF Covers, EnterMoves, EntersLane
  <2>4. ~Before(c, x, lanes'[l].queue)
    <3>1. PICK q : q = lanes[l].queue
      OBVIOUS
    <3>2. lanes'[l].queue = Append(q, u) /\ q \in Seq(Cancellers) /\ u \in Cancellers
      BY <1>0, <1>4, <3>1, PlacesByElement, OwnRunType DEF EnterMoves, EntersLane
    <3>3. Before(c, x, Append(q, u)) => Before(c, x, q) \/ (u = x /\ In(c, q))
      BY <3>2, BeforeOps
    <3> QED
      BY <1>1, <2>2, <3>1, <3>2, <3>3 DEF Covers
  <2>5. Covers(c, x, l)'
    BY <1>1, <2>2, <2>3, <2>4 DEF Covers, Active, Given
  <2> QED
    BY <2>5 DEF IsCovered
<1> QED
  BY <1>3, <1>4

LEMMA DropCovers ==
    ASSUME InOrder, Types', OtherForm, WorkIsKnown, NEW l \in Lanes, NEW x \in DOMAIN turns, turns[x].aborted,
           Pending(x, l)', IsCovered(x, l), NEW t \in DOMAIN turns, DropMoves(t)
    PROVE  IsCovered(x, l)'
<1>0. Types /\ Places /\ t # 0
  BY TurnIsKnown DEF InOrder
<1>1. /\ lanes'[l].queue = Without(lanes[l].queue, t) /\ UNCHANGED <<adapter, slots>>
      /\ \A c \in Cancellers : c # t => cancels'[c] = cancels[c]
      /\ \A u \in DOMAIN turns : u # t => turns'[u] = turns[u]
      /\ DOMAIN turns' = DOMAIN turns /\ turns[t].aborted
      /\ turns'[t].session = turns[t].session
  BY DEF DropMoves, MovesTo
<1>2. CASE x # t
  BY <1>0, <1>1, <1>2, KeepsCover DEF Referenced
<1>3. CASE x = t
  <2>1. WorksFor(x, l)'
    BY <1>3 DEF DropMoves, MovesTo, Pending, TurnIn, InLane, Busy
  <2>2. WorksFor(x, l)
    <3>1. StepForm
      BY DEF StepForm
    <3> QED
      BY <2>1, <3>1, WorksForFrom DEF SetsToWork, Begins
  <2>3. turns[x].pc # "waiting"
    BY <1>0, <2>2, WorkersAreTurns DEF AtWork, Ended
  <2>4. ~Orphan(x, l)
    <3> SUFFICES ASSUME Orphan(x, l) PROVE FALSE
      OBVIOUS
    <3>1. \A y : In(y, lanes[l].queue) => y = x
      BY <2>3 DEF Orphan
    <3>2. PICK q : q = lanes[l].queue
      OBVIOUS
    <3>3. q \in Seq(Cancellers) /\ IsInjective(q) /\ Without(q, t) \in Seq(Cancellers)
      BY <1>0, <3>2, PlacesByElement, WithoutProperties
    <3>4. \A y : ~In(y, Without(q, t))
      BY <1>3, <3>1, <3>2, <3>3, QueueOps
    <3>5. Without(q, t) = <<>>
      BY <3>3, <3>4, TailProperties DEF In
    <3>6. lanes'[l] = EmptyLane
      BY <1>1, <3>2, <3>5 DEF Orphan, DropMoves
    <3> QED
      BY <2>1, <3>6, EmptyPending
  <2>5. PICK c \in Cancellers : Covers(c, x, l)
    BY <2>4 DEF IsCovered
  <2>6. c # t /\ (c # 0 => c \in DOMAIN turns)
    BY <1>0, <1>1, <2>5, ActiveCallers DEF Covers
  <2>7. ~Before(c, x, lanes'[l].queue)
    <3>1. PICK q : q = lanes[l].queue
      OBVIOUS
    <3>2. q \in Seq(Cancellers)
      BY <1>0, <3>1, PlacesByElement
    <3>3. Before(c, x, Without(q, t)) => Before(c, x, q)
      BY <3>2, BeforeOps
    <3> QED
      BY <1>1, <2>5, <3>1, <3>3 DEF Covers
  <2>8. Covers(c, x, l)'
    BY <1>1, <1>3, <2>5, <2>6, <2>7 DEF Covers, Active, Given
  <2> QED
    BY <2>8 DEF IsCovered
<1> QED
  BY <1>2, <1>3

\* codex_app: the active turn that a cancellation finds in a lane is the aborted one.
LEMMA HeldAborted ==
    ASSUME InOrder, WorkIsKnown, ActiveTurns, OneAborted, adapter = "codex",
           NEW c \in Cancellers, Active(c), NEW k \in Lanes, Holds(c, k),
           lanes[k].active.run # NoRun,
           NEW l \in Lanes, NEW x, WorksFor(x, l), turns[x].aborted
    PROVE  k = l /\ lanes[k].active.run = OwnRun(x)
<1>0. Types /\ Places
  BY DEF InOrder
<1>1. PICK r : r = lanes[k].active.run
  OBVIOUS
<1>2. r # NoRun /\ r[1] \in DOMAIN turns /\ turns[r[1]].pc \in {"reading", "dropped"} /\ turns[r[1]].lane = k
  BY <1>1 DEF ActiveTurns
<1>3. IsActive(lanes[k], r)
  BY <1>1, <1>2 DEF IsActive
<1>4. WorksFor(r[1], k)
  BY <1>3 DEF WorksFor, Works
<1>5. turns[r[1]].pc # "reading"
  <2> SUFFICES ASSUME turns[r[1]].pc = "reading" PROVE FALSE
    OBVIOUS
  <2>1. Holds(r[1], k)
    BY <1>0, <1>2 DEF Places, TurnsInOrder, Busy
  <2>2. r[1] = c
    BY <2>1 DEF Holds
  <2>3. c # 0
    BY <1>0, <1>2, <2>2, TurnIsKnown
  <2> QED
    BY <2>2, <2>3, ActiveCallers
<1>6. turns[r[1]].aborted
  BY <1>0, <1>2, <1>5 DEF Places, TurnsInOrder
<1>7. x = r[1]
  BY <1>4, <1>6 DEF OneAborted
<1>8. k = l
  BY <1>0, <1>2, <1>7, WorkersAreTurns
<1>9. PICK t \in DOMAIN turns : r = OwnRun(t)
  BY <1>3 DEF WorkIsKnown, Known, IsBegun, Its
<1>10. OwnRun(t)[1] = t
  BY <1>0, OwnRunType
<1> QED
  BY <1>1, <1>7, <1>8, <1>9, <1>10

\* Who cancels is not at work.
LEMMA CancelKeepsTurn ==
    ASSUME InOrder, WorkIsKnown, NEW l \in Lanes, NEW x \in DOMAIN turns, Pending(x, l),
           NEW d \in Cancellers, CancelForm(d)
    PROVE  turns'[x] = turns[x] /\ x # d /\ x \in DOMAIN turns'
<1>0. Types
  BY DEF InOrder
<1>1. turns[x].pc # "cancelling" /\ x # 0
  BY <1>0, PendingLane, TurnIsKnown DEF InOrder, Busy, Ended
<1>2. x # d
  BY <1>1, ActiveCallers DEF CancelForm
<1> QED
  BY <1>2, CancelTurns

\* What the other cancellations cover, and what is nobody's.
LEMMA OthersCover ==
    ASSUME InOrder, OtherForm, WorkIsKnown, NEW l \in Lanes, NEW x \in DOMAIN turns, Pending(x, l),
           NEW d \in Cancellers, CancelForm(d)
    PROVE  /\ \A c \in Cancellers : c # d /\ Covers(c, x, l) => Covers(c, x, l)'
           /\ Orphan(x, l) => Orphan(x, l)'
           /\ ~Before(d, x, lanes[l].queue) => ~Before(d, x, lanes'[l].queue)
<1>0. Types /\ Places
  BY DEF InOrder
<1>1. turns'[x] = turns[x] /\ x # d /\ x \in DOMAIN turns'
  BY CancelKeepsTurn
<1>2. /\ UNCHANGED <<adapter, slots>> /\ \A c \in Cancellers : c # d => cancels'[c] = cancels[c]
      /\ \A t \in DOMAIN turns : turns'[t].aborted = turns[t].aborted
  BY CancelTurns
<1>3. PICK q : q = lanes[l].queue
  OBVIOUS
<1>4. PICK w : w = lanes'[l].queue
  OBVIOUS
<1>5. q \in Seq(Cancellers) /\ IsInjective(q)
  BY <1>0, <1>3, PlacesByElement
<1>6. w = q \/ (q # <<>> /\ w = Tail(q)) \/ (w = Append(q, d) /\ Given(d, l))
  <2> DEFINE k == Head(cancels[d].left)
  <2>1. CASE lanes' = lanes
    BY <1>3, <1>4, <2>1
  <2>2. CASE cancels[d].left # <<>>
    <3>1. cancels[d].left \in Seq(Lanes)
      BY <1>0 DEF Types, CancelRecords
    <3>2. Given(d, k)
      BY <2>2, <3>1, TailProperties DEF Given
    <3>3. cancels[d].step # "next" => Holds(d, k)
      <4>1. cancels[d].step \in {"idle", "next", "locking", "interrupt"}
        BY <1>0 DEF Types, CancelRecords
      <4> QED
        BY <4>1 DEF CancelForm, Active
    <3>4. CASE k # l
      BY <1>3, <1>4, <2>2, <3>4, CancelQueues
    <3>5. CASE k = l
      <4>1. \/ lanes' = lanes
            \/ cancels[d].step = "next" /\ lanes'[l].queue = Append(lanes[l].queue, d)
            \/ lanes'[l].queue = lanes[l].queue
            \/ cancels[d].step # "next" /\ lanes'[l].queue = Tail(lanes[l].queue)
        BY <3>5, CancelQueues
      <4> QED
        BY <1>3, <1>4, <3>2, <3>3, <3>5, <4>1 DEF Holds
    <3> QED
      BY <3>4, <3>5
  <2> QED
    BY <2>1, <2>2, CancelQueues
<1>7. \A c : Before(c, x, w) => Before(c, x, q)
  <2>1. /\ q # <<>> => \A c : Before(c, x, Tail(q)) => Before(c, x, q)
        /\ \A c : Before(c, x, Append(q, d)) => Before(c, x, q) \/ (d = x /\ In(c, q))
    BY <1>5, BeforeOps
  <2> QED
    BY <1>1, <1>6, <2>1
<1>8. ASSUME NEW c \in Cancellers, c # d, Covers(c, x, l) PROVE Covers(c, x, l)'
  <2>1. c # 0 => c \in DOMAIN turns
    BY <1>8, ActiveCallers DEF Covers
  <2> QED
    BY <1>1, <1>2, <1>3, <1>4, <1>7, <1>8, <2>1 DEF Covers, Active, Given
<1>9. ASSUME Orphan(x, l) PROVE Orphan(x, l)'
  <2>1. \A y : In(y, w) => In(y, q)
    <3>1. q # <<>> => \A y : In(y, Tail(q)) <=> In(y, q) /\ y # Head(q)
      BY <1>5, QueueOps
    <3> QED
      BY <1>6, <1>9, <3>1 DEF Orphan
  <2>2. l \notin Referenced'
    BY <1>2, <1>9 DEF Orphan, Referenced
  <2> QED
    BY <1>1, <1>3, <1>4, <1>9, <2>1, <2>2, SameOrphan
<1> QED
  BY <1>3, <1>4, <1>7, <1>8, <1>9

\* The steps of a cancellation, by what becomes of it.
LEMMA CancelWays ==
    ASSUME InOrder, NEW d \in Cancellers, CancelForm(d), NEW k, k = Head(cancels[d].left)
    PROVE  \/ cancels[d].left = <<>>
           \/ /\ cancels[d].left # <<>> /\ k \in Lanes
              /\ \/ CancelStaysAt(d, "locking") \/ CancelStaysAt(d, "interrupt")
                 \/ /\ CancelEnds(d) /\ Quits(lanes'[k]) /\ Holds(d, k)
                    /\ adapter = "codex" /\ (KnowsIts(d, lanes[k]) \/ cancels[d].step = "interrupt")
                 \/ /\ CancelPasses(d) /\ Holds(d, k)
                    /\ \/ Quits(lanes'[k])
                       \/ ~lanes[k].spawned /\ SameWork(lanes'[k], lanes[k])
                       \/ /\ cancels[d].step = "interrupt" /\ Hears(lanes'[k], lanes[k])
                          /\ lanes'[k].active = NoTurn
                          /\ Stopped(Head(lanes[k].events))
                          /\ Head(lanes[k].events).run = lanes[k].active.run
<1>1. CASE cancels[d].left # <<>> /\ CancelAtLane(d)
  <2>1. cancels[d].step = "interrupt" => adapter = "codex"
    BY DEF InOrder, Places, CancelsInOrder
  <2> QED
    BY <1>1, <2>1 DEF CancelAtLane, CancelForm, KnowsIts, Stopped
<1> QED
  BY <1>1 DEF CancelForm, CancelMoves

LEMMA QuitsPending ==
    ASSUME NEW l \in Lanes, NEW x, Quits(lanes'[l])
    PROVE  ~WorksFor(x, l)'
BY NothingKnown DEF WorksFor, Works, Known, IsBegun

\* What there is to do for a turn whose lane has no process.
LEMMA UnspawnedPending ==
    ASSUME InOrder, NEW l \in Lanes, NEW x, ~lanes[l].spawned, SameWork(lanes'[l], lanes[l])
    PROVE  ~WorksFor(x, l)'
<1>1. PICK K : K = lanes'[l]
  OBVIOUS
<1>2. K.wire = <<>> /\ K.running = <<>> /\ K.events = <<>> /\ K.active = NoTurn
  BY <1>1 DEF InOrder, LanesInOrder, SameWork
<1>3. ASSUME NEW r PROVE ~IsStart(K, r) /\ ~IsRunning(K, r) /\ ~IsActive(K, r) /\ ~IsDone(K, r)
  BY <1>2, EmptySeq DEF IsStart, IsRunning, IsActive, IsDone, NoTurn
<1> QED
  BY <1>1, <1>3 DEF WorksFor, Works

\* An interrupt that was answered leaves nothing to do for its turn.
LEMMA InterruptedPending ==
    ASSUME InOrder, WorkIsKnown, NEW l \in Lanes, RunsInOrder(lanes[l]), adapter = "codex", adapter' = adapter,
           Hears(lanes'[l], lanes[l]), lanes'[l].active = NoTurn,
           Stopped(Head(lanes[l].events)), Head(lanes[l].events).run = lanes[l].active.run,
           NEW x \in DOMAIN turns, lanes[l].active.run = OwnRun(x), WorksFor(x, l)'
    PROVE  FALSE
<1>0. Types /\ OwnRun(x) # NoRun
  BY OwnRunType DEF InOrder
<1>1. PICK K : K = lanes'[l]
  OBVIOUS
<1>2. PICK L : L = lanes[l]
  OBVIOUS
<1>3. L.events \in Seq(Events) /\ L.events # <<>> /\ K.wire = L.wire /\ K.running = L.running
      /\ K.active = NoTurn
  BY <1>0, <1>1, <1>2, LaneFields DEF Hears
<1>4. PICK r : r[1] = x /\ (IsStart(K, r) \/ IsRunning(K, r))
  BY <1>1, <1>3 DEF WorksFor, Works, IsActive, NoTurn
<1>5. IsStart(L, r) \/ IsRunning(L, r)
  BY <1>3, <1>4 DEF IsStart, IsRunning
<1>6. PICK t \in DOMAIN turns : r = OwnRun(t)
  BY <1>2, <1>5 DEF WorkIsKnown, Known, IsBegun, Its
<1>7. r = OwnRun(x)
  BY <1>0, <1>4, <1>6, OwnRunType
<1>8. L.active.run = r /\ IsActive(L, r)
  BY <1>0, <1>2, <1>7 DEF IsActive
<1>9. ~IsStart(L, r)
  BY <1>2, <1>8 DEF RunsInOrder, IsBegun
<1>10. ~IsRunning(L, r)
  <2>1. 1 \in DOMAIN L.events /\ L.events[1] = Head(L.events)
    BY <1>3, TailProperties
  <2>2. Stopped(L.events[1]) /\ L.events[1].run = r
    BY <1>2, <1>8, <2>1
  <2> QED
    BY <1>2, <2>1, <2>2 DEF RunsInOrder
<1> QED
  BY <1>5, <1>9, <1>10

LEMMA OwnCover ==
    ASSUME InOrder, OtherForm, WorkIsKnown, RunsAreInOrder, ActiveTurns, InterruptsActive, OneAborted,
           NEW l \in Lanes, NEW x \in DOMAIN turns, turns[x].aborted, Pending(x, l), Pending(x, l)',
           NEW d \in Cancellers, CancelForm(d), Covers(d, x, l)
    PROVE  Covers(d, x, l)'
<1>0. Types /\ Places
  BY DEF InOrder
<1>1. turns'[x] = turns[x] /\ x # d /\ x \in DOMAIN turns'
  BY CancelKeepsTurn
<1>2. /\ UNCHANGED <<adapter, slots>>
      /\ \A t \in DOMAIN turns : turns'[t].aborted = turns[t].aborted
  BY CancelTurns
<1>3. ~Before(d, x, lanes'[l].queue)
  BY OthersCover DEF Covers
<1>4. d # 0 => ~turns'[d].aborted
  BY <1>2, ActiveCallers DEF Covers
<1>5. PICK left : left = cancels[d].left
  OBVIOUS
<1>6. left \in Seq(Lanes) /\ left # <<>>
  BY <1>0, <1>5, EmptySeq DEF Types, CancelRecords, Covers, Given
<1>7. PICK k : k = Head(left)
  OBVIOUS
<1>8. CASE CancelStaysAt(d, "locking") \/ CancelStaysAt(d, "interrupt")
  BY <1>1, <1>3, <1>4, <1>8 DEF CancelStaysAt, Covers, Active, Given
\* It knows of the aborted turn's work, if it knows of any.
<1>9. ASSUME adapter = "codex", k \in Lanes, Holds(d, k),
             KnowsIts(d, lanes[k]) \/ cancels[d].step = "interrupt"
      PROVE  k = l /\ lanes[k].active.run = OwnRun(x)
  <2>1. lanes[k].active.run # NoRun
    BY <1>5, <1>7, <1>9 DEF KnowsIts, InterruptsActive
  <2>2. WorksFor(x, l) /\ Active(d)
    BY <1>9 DEF Pending, Covers
  <2> QED
    BY <1>9, <2>1, <2>2, HeldAborted
<1>10. CASE /\ k \in Lanes /\ CancelEnds(d) /\ Quits(lanes'[k]) /\ Holds(d, k)
            /\ adapter = "codex" /\ (KnowsIts(d, lanes[k]) \/ cancels[d].step = "interrupt")
  <2>1. k = l
    BY <1>9, <1>10
  <2> QED
    BY <1>2, <1>10, <2>1, QuitsPending DEF Pending
<1>11. CASE /\ k \in Lanes /\ CancelPasses(d) /\ Holds(d, k)
            /\ \/ Quits(lanes'[k])
               \/ ~lanes[k].spawned /\ SameWork(lanes'[k], lanes[k])
               \/ /\ cancels[d].step = "interrupt" /\ Hears(lanes'[k], lanes[k])
                  /\ lanes'[k].active = NoTurn
                  /\ Stopped(Head(lanes[k].events))
                  /\ Head(lanes[k].events).run = lanes[k].active.run
  <2>1. k # l
    <3> SUFFICES ASSUME k = l PROVE FALSE
      OBVIOUS
    <3>1. ~TurnIn(x, l)
      <4> SUFFICES ASSUME TurnIn(x, l) PROVE FALSE
        OBVIOUS
      <4>1. PICK q : q = lanes[l].queue
        OBVIOUS
      <4>2. q \in Seq(Cancellers) /\ Heads(d, q) /\ In(x, q)
        BY <1>0, <1>11, <4>1, PlacesByElement DEF TurnIn, Places, TurnsInOrder
      <4>3. Before(d, x, q)
        BY <1>1, <4>2, BeforeOps
      <4> QED
        BY <4>1, <4>3 DEF Covers
    <3>2. WorksFor(x, l)'
      BY <1>1, <3>1 DEF Pending, TurnIn, InLane
    <3>3. CASE cancels[d].step = "interrupt" /\ Hears(lanes'[k], lanes[k]) /\ lanes'[k].active = NoTurn
               /\ Stopped(Head(lanes[k].events))
               /\ Head(lanes[k].events).run = lanes[k].active.run
      <4>1. adapter = "codex"
        BY <3>3 DEF InOrder, Places, CancelsInOrder
      <4>2. lanes[l].active.run = OwnRun(x)
        BY <1>9, <1>11, <3>3, <4>1
      <4> QED
        BY <1>2, <3>2, <3>3, <4>1, <4>2, InterruptedPending DEF RunsAreInOrder
    <3> QED
      BY <1>11, <3>2, <3>3, QuitsPending, UnspawnedPending
  <2>2. cancels'[d].left = Tail(left) /\ cancels'[d].step = "next" /\ cancels'[d].session = cancels[d].session
    BY <1>5, <1>11 DEF CancelPasses
  <2>3. Given(d, l)'
    <3>1. PICK i \in DOMAIN left : left[i] = l
      BY <1>5 DEF Covers, Given
    <3>2. left[1] = k /\ DOMAIN left = 1 .. Len(left) /\ Len(left) \in Nat \ {0}
          /\ DOMAIN Tail(left) = 1 .. Len(left) - 1
          /\ \A j \in DOMAIN Tail(left) : Tail(left)[j] = left[j + 1]
      BY <1>6, <1>7, TailProperties
    <3>3. i \in 1 .. Len(left) /\ i # 1
      BY <2>1, <3>1, <3>2
    <3>4. i - 1 \in 1 .. Len(left) - 1 /\ (i - 1) + 1 = i
      BY <3>2, <3>3
    <3>5. Tail(left)[i - 1] = l
      BY <3>1, <3>2, <3>4
    <3> QED
      BY <2>2, <3>2, <3>4, <3>5 DEF Given
  <2> QED
    BY <1>1, <1>3, <1>4, <2>2, <2>3 DEF Covers, Active
<1> QED
  BY <1>5, <1>6, <1>7, <1>8, <1>10, <1>11, CancelWays

LEMMA CancelCovers ==
    ASSUME InOrder, OtherForm, WorkIsKnown, RunsAreInOrder, ActiveTurns, InterruptsActive, OneAborted,
           NEW l \in Lanes, NEW x \in DOMAIN turns, turns[x].aborted, Pending(x, l), Pending(x, l)',
           IsCovered(x, l), NEW d \in Cancellers, CancelForm(d)
    PROVE  IsCovered(x, l)'
BY OthersCover, OwnCover DEF IsCovered

LEMMA CoveredStays ==
    ASSUME InOrder, Types', StepForm, WorkIsKnown, OneSession, RunsAreInOrder, ActiveTurns,
           InterruptsActive, OneAborted, CancelsOwnSlots, InTurn, Covered
    PROVE  Covered'
<1>1. CASE \E a, new : Calling(a, new)
  BY <1>1, CallingCovers
<1>2. CASE OtherForm
  <2> SUFFICES ASSUME NEW l \in Lanes, NEW x \in DOMAIN turns', turns'[x].aborted, Pending(x, l)'
               PROVE  IsCovered(x, l)'
    BY DEF Covered, IsCovered
  <2>1. x \in DOMAIN turns /\ Pending(x, l)
    BY PendingBefore
  <2>2. turns[x].aborted
    BY <1>2, <2>1, StepsAreQuiet DEF QuietMoves
  <2>3. IsCovered(x, l)
    BY <2>1, <2>2 DEF Covered, IsCovered
  <2>4. CASE \E f \in Lanes : WarmMoves(f)
    BY <1>2, <2>1, <2>3, <2>4, WarmCovers
  <2>5. CASE \E t \in DOMAIN turns : AwaitMoves(t) /\ ~turns[t].aborted
    BY <1>2, <2>1, <2>3, <2>5, AwaitCovers
  <2>6. CASE \E t \in DOMAIN turns : DropMoves(t)
    BY <1>2, <2>1, <2>2, <2>3, <2>6, DropCovers
  <2>7. CASE \E t \in DOMAIN turns, m \in Lanes : EnterMoves(t, m) /\ ~turns[t].aborted
    BY <1>2, <2>1, <2>2, <2>3, <2>7, EnterCovers
  <2>8. CASE \E t \in DOMAIN turns : BusyForm(t)
    BY <1>2, <2>1, <2>2, <2>3, <2>8, BusyCovers
  <2>9. CASE \E c \in Cancellers : CancelForm(c)
    BY <1>2, <2>1, <2>2, <2>3, <2>9, CancelCovers
  <2>10. CASE \E m \in Lanes : AgentForm(m)
    BY <1>2, <2>1, <2>3, <2>10, AgentCovers
  <2> QED
    BY <1>2, <2>4, <2>5, <2>6, <2>7, <2>8, <2>9, <2>10 DEF OtherForm
<1> QED
  BY <1>1, <1>2 DEF StepForm

-----------------------------------------------------------------------------
(***************************************************************************)
(* Cancelled work stops                                                    *)
(***************************************************************************)
WorkInv ==
    /\ ContextInv
    /\ RunsAreInOrder /\ EachIsDoneOnce /\ ActiveTurns /\ InterruptsActive /\ OneAborted
    /\ CancelsOwnSlots /\ OnlyReads /\ ReadsOwn /\ InTurn /\ LeavesNobody
    /\ Covered

LEMMA InitWork == Init => WorkInv
<1> SUFFICES ASSUME Init PROVE WorkInv
  OBVIOUS
<1>1. /\ turns = <<>> /\ DOMAIN turns = {} /\ \A l \in Lanes : lanes[l] = EmptyLane
      /\ \A c \in Cancellers : cancels[c] = NoCancel
  BY EmptySeq DEF Init
<1>2. Quits(EmptyLane) /\ DOMAIN <<>> = {} /\ EmptyLane.active = NoTurn /\ EmptyLane.queue = <<>>
      /\ EmptyLane.wire = <<>> /\ EmptyLane.running = <<>> /\ EmptyLane.events = <<>>
  BY EmptyLaneQuits, EmptySeq DEF EmptyLane
<1>3. ContextInv /\ RunsInOrder(EmptyLane) /\ DoneOnce(EmptyLane)
  <2>1. DoneOnce(EmptyLane)
    BY <1>2 DEF DoneOnce, IsDone, ResultsDiffer
  <2> QED
    BY <1>2, <2>1, InitContext, BareRuns DEF Quits
<1>4. RunsAreInOrder /\ EachIsDoneOnce
  BY <1>1, <1>3 DEF RunsAreInOrder, EachIsDoneOnce
<1>5. ActiveTurns
  BY <1>1, <1>2 DEF ActiveTurns, NoTurn
<1>6. InterruptsActive /\ CancelsOwnSlots
  BY <1>1 DEF InterruptsActive, CancelsOwnSlots, NoCancel, Active
<1>7. \A l \in Lanes : \A x : ~WorksFor(x, l)
  <2>1. ContextInv /\ Types
    BY <1>3 DEF ContextInv, InOrder
  <2> QED
    BY <1>1, <2>1, WorkersAreTurns DEF ContextInv
<1>8. OneAborted /\ ReadsOwn /\ InTurn /\ LeavesNobody
  BY <1>1, <1>7 DEF OneAborted, ReadsOwn, InTurn, LeavesNobody
<1>9. OnlyReads /\ Covered
  BY <1>1 DEF OnlyReads, Covered
<1> QED
  BY <1>3, <1>4, <1>5, <1>6, <1>8, <1>9 DEF WorkInv

LEMMA WorkStutters ==
    ASSUME WorkInv, UNCHANGED vars
    PROVE  WorkInv'
<1>1. UNCHANGED <<adapter, turns, lanes, slots, cancels, spec, faults>>
  BY DEF vars
<1>2. ContextInv'
  BY ContextStutters DEF WorkInv
<1>3. RunsAreInOrder' /\ EachIsDoneOnce'
  BY <1>1 DEF WorkInv, RunsAreInOrder, EachIsDoneOnce
<1>4. ActiveTurns' /\ InterruptsActive'
  BY <1>1 DEF WorkInv, ActiveTurns, InterruptsActive
<1>5. \A x, l : WorksFor(x, l)' <=> WorksFor(x, l)
  BY <1>1 DEF WorksFor, Works, IsStart, IsRunning, IsActive, IsDone
<1>6. \A x, l : TurnIn(x, l)' <=> TurnIn(x, l)
  BY <1>1 DEF TurnIn, InLane
<1>7. OneAborted'
  BY <1>1, <1>5 DEF WorkInv, OneAborted
<1>8. CancelsOwnSlots' /\ OnlyReads'
  BY <1>1 DEF WorkInv, CancelsOwnSlots, OnlyReads, Active, Given
<1>9. ReadsOwn' /\ InTurn' /\ LeavesNobody'
  BY <1>1, <1>5, <1>6 DEF WorkInv, ReadsOwn, InTurn, LeavesNobody, IsLeft, MissedItsResult
<1>10. Covered'
  <2>1. \A x, l : Pending(x, l)' <=> Pending(x, l)
    BY <1>1, <1>5, <1>6 DEF Pending
  <2>2. \A x, l : Orphan(x, l)' <=> Orphan(x, l)
    BY <1>1, <1>6 DEF Orphan, Referenced, Given
  <2>3. \A c, x, l : Covers(c, x, l)' <=> Covers(c, x, l)
    BY <1>1 DEF Covers, Active, Given
  <2> QED
    BY <1>1, <2>1, <2>2, <2>3 DEF WorkInv, Covered
<1> QED
  BY <1>2, <1>3, <1>4, <1>7, <1>8, <1>9, <1>10 DEF WorkInv

LEMMA WorkStays ==
    ASSUME WorkInv, [Next]_vars
    PROVE  WorkInv'
<1>1. CASE Next
  <2>0. InOrder /\ WorkIsKnown /\ OneSession
    BY DEF WorkInv, ContextInv
  <2>1. ContextInv'
    BY ContextStays DEF WorkInv
  <2>2. Types' /\ Counted' /\ StepForm /\ (OtherForm \/ CallStep)
    BY <1>1, <2>0, NextStepForm, NextForms, NextCalls
  <2>3. RunsAreInOrder' /\ EachIsDoneOnce' /\ ActiveTurns' /\ InterruptsActive'
    BY <2>0, <2>2, RunsStayInOrder, EachStaysDoneOnce, ActiveTurnsStay, InterruptsActiveStay DEF WorkInv
  <2>4. OneAborted'
    BY <2>0, <2>2, OneAbortedStays DEF WorkInv
  <2>5. CancelsOwnSlots' /\ OnlyReads'
    BY <2>0, <2>2, CancelsOwnSlotsStay, OnlyReadsStay DEF WorkInv
  <2>6. ReadsOwn' /\ InTurn' /\ LeavesNobody'
    BY <2>0, <2>2, ReadsOwnStays, InTurnStays, LeavesNobodyStays DEF WorkInv
  <2>7. Covered'
    BY <2>0, <2>2, CoveredStays DEF WorkInv
  <2> QED
    BY <2>1, <2>3, <2>4, <2>5, <2>6, <2>7 DEF WorkInv
<1>2. CASE UNCHANGED vars
  BY <1>2, WorkStutters
<1> QED
  BY <1>1, <1>2

LEMMA CancelledWorkStopsNow ==
    ASSUME WorkInv
    PROVE  CancelledWorkStops
<1> SUFFICES ASSUME NEW l \in Lanes, NEW run \in ToSet(lanes[l].running), turns[run[1]].pc = "dropped"
             PROVE  \E c \in Cancellers :
                       cancels[c].step # "idle" /\ cancels[c].session = turns[run[1]].session
  BY DEF CancelledWorkStops
<1>0. InOrder /\ WorkIsKnown /\ Types
  BY DEF WorkInv, ContextInv, InOrder
<1>1. WorksFor(run[1], l)
  BY DEF ToSet, WorksFor, Works, IsRunning
<1>2. run[1] \in DOMAIN turns
  BY <1>0, <1>1, WorkersAreTurns
<1>3. turns[run[1]].aborted
  BY <1>0, <1>2 DEF InOrder, Places, TurnsInOrder
<1>4. ~Orphan(run[1], l)
  BY DEF Orphan, TurnIn, InLane, Busy
<1>5. PICK c \in Cancellers : Covers(c, run[1], l)
  BY <1>1, <1>2, <1>3, <1>4 DEF WorkInv, Covered, Pending
<1> QED
  BY <1>5 DEF Covers, Active

\* When a cancellation has returned, no agent works for a turn that was aborted: it was
\* interrupted, its process was ended, or another cancellation of its session is under way.
THEOREM CancelledWorkAlwaysStops == Spec => []CancelledWorkStops
<1>1. Init => WorkInv
  BY InitWork
<1>2. WorkInv /\ [Next]_vars => WorkInv'
  BY WorkStays
<1>3. WorkInv => CancelledWorkStops
  BY CancelledWorkStopsNow
<1> QED
  BY <1>1, <1>2, <1>3, PTL DEF Spec

-----------------------------------------------------------------------------
(***************************************************************************)
(* A turn is answered by the agent's work for it                           *)
(***************************************************************************)
\* Who reads an answer holds the lane, and the answer is the result of a run there.
LEMMA ReadsAResult ==
    ASSUME WorkInv, StepForm, NEW t \in DOMAIN turns,
           turns'[t].answer \notin {NoRun, Misread, turns[t].answer}
    PROVE  /\ turns[t].lane \in Lanes /\ Holds(t, turns[t].lane) /\ TurnIn(t, turns[t].lane)
           /\ adapter = "codex" => turns'[t].answer[1] = t
           /\ adapter # "codex" => WorksFor(turns'[t].answer[1], turns[t].lane)
<1>0. InOrder /\ Types
  BY DEF WorkInv, ContextInv, InOrder
<1>1. BusyForm(t)
  BY <1>0, AnswerStays
<1>2. PICK l \in Lanes : l = turns[t].lane
  BY <1>1 DEF BusyForm
<1>3. PICK L : L = lanes[l]
  OBVIOUS
<1>4. TurnForm(t) /\ Holds(t, l) /\ TurnIn(t, l)
  BY <1>1, <1>2 DEF BusyForm, TurnMoves, TurnIn
<1>5. PICK answer : /\ answer = turns'[t].answer
                    /\ L.events # <<>> /\ Head(L.events).is = "completed" /\ answer = Head(L.events).run
                    /\ adapter = "codex" => answer = OwnRun(t)
  BY <1>2, <1>3, <1>4 DEF TurnForm, StopsWith, MovesTo
<1>6. adapter = "codex" => answer[1] = t
  BY <1>0, <1>5, OwnRunType
<1>7. ASSUME adapter # "codex" PROVE WorksFor(answer[1], l)
  <2>1. L.events \in Seq(Events)
    BY <1>0, <1>3, LaneFields
  <2>2. 1 \in DOMAIN L.events /\ L.events[1] = Head(L.events)
    BY <1>5, <2>1, TailProperties
  <2> QED
    BY <1>3, <1>5, <1>7, <2>2 DEF WorksFor, Works, IsDone
<1> QED
  BY <1>2, <1>4, <1>5, <1>6, <1>7

LEMMA AnswerIsOwn ==
    ASSUME WorkInv, StepForm, NEW t \in DOMAIN turns,
           turns'[t].answer \notin {NoRun, Misread, turns[t].answer}
    PROVE  \/ turns'[t].answer[1] = t
           \/ adapter # "codex" /\ MissedItsResult(turns'[t].answer[1])
           \/ BeforeItsCancellation(turns'[t].answer[1])
<1>0. /\ InOrder /\ Types /\ Places /\ WorkIsKnown /\ ReadsOwn /\ LeavesNobody /\ Covered
      /\ adapter \in {"codex", "claude", "stdio"}
  BY BackendsAssumption DEF WorkInv, ContextInv, InOrder, Types
<1>1. PICK l \in Lanes : l = turns[t].lane
  BY ReadsAResult
<1>2. PICK o : o = turns'[t].answer[1]
  OBVIOUS
<1>3. Holds(t, l) /\ TurnIn(t, l) /\ (adapter = "codex" => o = t) /\ (adapter # "codex" => WorksFor(o, l))
  BY <1>1, <1>2, ReadsAResult
<1>4. SUFFICES ASSUME adapter # "codex", ~MissedItsResult(o), o # t PROVE BeforeItsCancellation(o)
  BY <1>2, <1>3
<1>5. o \in DOMAIN turns /\ turns[o].lane = l /\ turns[o].pc \in {"reading", "dropped"}
  BY <1>0, <1>3, <1>4, WorkersAreTurns DEF ReadsOwn
<1>6. turns[o].pc = "dropped" /\ turns[o].aborted
  <2>1. turns[o].pc = "reading" => Holds(o, l)
    BY <1>0, <1>5 DEF Places, TurnsInOrder, Busy
  <2>2. turns[o].pc = "dropped"
    BY <1>3, <1>4, <1>5, <2>1 DEF Holds
  <2> QED
    BY <1>0, <1>5, <2>2 DEF Places, TurnsInOrder
<1>7. adapter = "stdio"
  BY <1>0, <1>3, <1>4, <1>6 DEF LeavesNobody
<1>8. PICK c \in Cancellers : Covers(c, o, l)
  BY <1>0, <1>3, <1>4, <1>5, <1>6, <1>7 DEF Covered, Pending, Orphan
<1>9. cancels[c].step \in {"next", "locking"}
  <2>1. cancels[c].step \in {"idle", "next", "locking", "interrupt"} /\ cancels[c].step # "idle"
    BY <1>0, <1>8 DEF Types, CancelRecords, Covers, Active
  <2>2. cancels[c].step # "interrupt"
    BY <1>0, <1>7 DEF Places, CancelsInOrder
  <2> QED
    BY <2>1, <2>2
<1> QED
  BY <1>6, <1>7, <1>8, <1>9 DEF BeforeItsCancellation, Covers

\* The result a turn ends with is the agent's work for it, and never a late result of a turn
\* that was cancelled, timed out or failed before it: in codex_app whatever happens; in
\* claude_app and stdio_agent unless an earlier turn of the process was ended by a line that
\* was not its result; and in stdio_agent before the cancellation of an aborted turn has come
\* to the lane.
THEOREM AnswersAreAlwaysOwn == Spec => AnswersAreOwn
<1>1. Init => WorkInv
  BY InitWork
<1>2. WorkInv /\ [Next]_vars => WorkInv'
  BY WorkStays
<1>3. WorkInv /\ [Next]_vars =>
         [\A t \in DOMAIN turns :
             LET answer == turns'[t].answer IN
             answer \notin {NoRun, Misread, turns[t].answer} =>
                 \/ answer[1] = t
                 \/ adapter # "codex" /\ MissedItsResult(answer[1])
                 \/ BeforeItsCancellation(answer[1])]_vars
  <2>1. ASSUME WorkInv, Next, NEW t \in DOMAIN turns,
               turns'[t].answer \notin {NoRun, Misread, turns[t].answer}
        PROVE  \/ turns'[t].answer[1] = t
               \/ adapter # "codex" /\ MissedItsResult(turns'[t].answer[1])
               \/ BeforeItsCancellation(turns'[t].answer[1])
    <3>1. StepForm
      BY <2>1, NextStepForm DEF WorkInv, ContextInv
    <3> QED
      BY <2>1, <3>1, AnswerIsOwn
  <2> QED
    BY <2>1
<1> QED
  BY <1>1, <1>2, <1>3, PTL DEF Spec, AnswersAreOwn
===============================================================================

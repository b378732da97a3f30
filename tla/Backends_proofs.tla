--------------------------- MODULE Backends_proofs ----------------------------
(***************************************************************************)
(* Lemmas about the persistent agents, for any number of sessions, turns,  *)
(* speculations and faults: what every step does to a turn, a lane and the *)
(* cancellers, and the order that turns, queues, lanes and slots stay in.  *)
(***************************************************************************)
EXTENDS Backends, SequenceTheorems, FiniteSetTheorems, TLAPS

-----------------------------------------------------------------------------
(***************************************************************************)
(* What the variables hold                                                 *)
(***************************************************************************)
SessionNames == Sessions \cup {NoSession}
Prints == Contexts \cup {"none"}
Runs == (0 .. MaxTurns) \X (0 .. 2)
Pcs == Ended \cup Busy \cup {"called", "cancelling", "awaiting", "waiting"}
Convs == {"discover", "goal", "warm"}

TurnRecords ==
    [session : SessionNames, conv : Convs, ctx : Prints, spec : BOOLEAN, pc : Pcs,
     lane : Lanes \cup {0}, attempt : {1, 2}, aborted : BOOLEAN,
     awaits : 0 .. MaxTurns, answer : Runs]

Requests ==
    [do : {"initialize", "models", "thread", "interrupt"}, run : Runs]
    \cup [do : {"start"}, run : Runs, thread : Runs, ctx : Prints, omits : BOOLEAN,
          session : SessionNames]

Events ==
    [is : {"response", "completed", "garbled"},
     do : {"initialize", "models", "thread", "start", "interrupt", "none"},
     run : Runs, ok : BOOLEAN]

ThreadRecords == [key : SessionNames \X Convs, thread : Runs]

LaneRecords ==
    [queue : Seq(Cancellers), up : BOOLEAN, spawned : BOOLEAN,
     threads : SUBSET ThreadRecords, prints : SUBSET (Runs \X Prints),
     active : [run : Runs, session : SessionNames], wire : Seq(Requests),
     events : Seq(Events), running : Seq(Runs),
     known : SUBSET (Runs \X (Prints \cup {"refused"})),
     users : SUBSET (Runs \X SessionNames)]

CancelRecords ==
    [step : {"idle", "next", "locking", "interrupt"}, session : SessionNames, left : Seq(Lanes)]

SlotRecords ==
    [session : SessionNames, discovery : Lanes \cup {0}, patch : Lanes \cup {0},
     warm : Lanes \cup {0}]

\* The bounds on how often the daemon calls: the calls have numbers in Turns.
Counted ==
    /\ Cardinality(Asked) <= MaxAsks
    /\ Cardinality(DOMAIN turns \ Asked) <= MaxSpeculations

Types ==
    /\ adapter \in Adapters
    /\ turns \in Seq(TurnRecords) /\ Len(turns) <= MaxTurns
    /\ lanes \in [Lanes -> LaneRecords]
    /\ slots \in SlotRecords
    /\ cancels \in [Cancellers -> CancelRecords]
    /\ spec \in [Sessions -> 0 .. MaxTurns]
    /\ faults \in Nat

-----------------------------------------------------------------------------
(***************************************************************************)
(* Sequences                                                               *)
(***************************************************************************)
\* One position is taken out of a sequence.
LEMMA RemoveAtProperties ==
    ASSUME NEW S, NEW s \in Seq(S), NEW i \in 1 .. Len(s)
    PROVE  /\ RemoveAt(s, i) \in Seq(S) /\ Len(RemoveAt(s, i)) = Len(s) - 1
           /\ \A j \in 1 .. Len(s) - 1 :
                 RemoveAt(s, i)[j] = IF j < i THEN s[j] ELSE s[j + 1]
<1> DEFINE front == SubSeq(s, 1, i - 1)
           back == SubSeq(s, i + 1, Len(s))
<1>1. Len(s) \in Nat /\ i \in Int /\ \A j \in 1 .. Len(s) : s[j] \in S
  BY LenProperties, ElementOfSeq
<1>2. /\ front \in Seq(S) /\ Len(front) = i - 1
      /\ \A j \in 1 .. i - 1 : front[j] = s[j]
  <2>1. \A j \in 1 .. i - 1 : s[j] \in S
    BY <1>1
  <2>2. /\ front \in Seq(S) /\ Len(front) = IF 1 <= i - 1 THEN (i - 1) - 1 + 1 ELSE 0
        /\ \A j \in 1 .. (i - 1) - 1 + 1 : front[j] = s[1 + j - 1]
    BY <1>1, <2>1, SubSeqProperties
  <2> HIDE DEF front
  <2> QED
    BY <1>1, <2>2
<1>3. /\ back \in Seq(S) /\ Len(back) = Len(s) - i
      /\ \A j \in 1 .. Len(s) - i : back[j] = s[i + j]
  <2>1. \A j \in i + 1 .. Len(s) : s[j] \in S
    BY <1>1
  <2>2. /\ back \in Seq(S)
        /\ Len(back) = IF i + 1 <= Len(s) THEN Len(s) - (i + 1) + 1 ELSE 0
        /\ \A j \in 1 .. Len(s) - (i + 1) + 1 : back[j] = s[(i + 1) + j - 1]
    BY <1>1, <2>1, SubSeqProperties
  <2> HIDE DEF back
  <2> QED
    BY <1>1, <2>2
<1>4. RemoveAt(s, i) = front \o back
  BY DEF RemoveAt
<1> HIDE DEF front, back
<1>5. /\ front \o back \in Seq(S) /\ Len(front \o back) = Len(front) + Len(back)
      /\ \A j \in 1 .. Len(front) + Len(back) : (front \o back)[j] =
             IF j <= Len(front) THEN front[j] ELSE back[j - Len(front)]
  BY <1>2, <1>3, ConcatProperties
<1>6. Len(front) + Len(back) = Len(s) - 1
  BY <1>1, <1>2, <1>3
<1>7. ASSUME NEW j \in 1 .. Len(s) - 1
      PROVE  (front \o back)[j] = IF j < i THEN s[j] ELSE s[j + 1]
  <2>1. CASE j < i
    BY <1>1, <1>2, <1>5, <1>6, <2>1
  <2>2. CASE ~(j < i)
    <3>1. j - (i - 1) \in 1 .. Len(s) - i /\ i + (j - (i - 1)) = j + 1
      BY <1>1, <2>2
    <3>2. (front \o back)[j] = back[j - (i - 1)]
      BY <1>1, <1>2, <1>5, <1>6, <2>2
    <3> QED
      BY <1>3, <2>2, <3>1, <3>2
  <2> QED
    BY <2>1, <2>2
<1> QED
  BY <1>4, <1>5, <1>6, <1>7

\* A position of Without(s, x) as a position of s.
LEMMA WithoutProperties ==
    ASSUME NEW S, NEW s \in Seq(S), NEW x
    PROVE  /\ Without(s, x) \in Seq(S)
           /\ \A j \in DOMAIN Without(s, x) :
                 \E i \in DOMAIN s : i >= j /\ Without(s, x)[j] = s[i]
           /\ \A j, k \in DOMAIN Without(s, x) : j < k =>
                 \E i, n \in DOMAIN s :
                    i < n /\ Without(s, x)[j] = s[i] /\ Without(s, x)[k] = s[n]
           /\ IsInjective(s) =>
                 /\ IsInjective(Without(s, x))
                 /\ \A j \in DOMAIN Without(s, x) : Without(s, x)[j] # x
           /\ \A i \in DOMAIN s : s[i] # x => \E j \in DOMAIN Without(s, x) : Without(s, x)[j] = s[i]
           /\ s # <<>> /\ Head(s) # x => Without(s, x) # <<>> /\ Head(Without(s, x)) = Head(s)
           /\ Len(Without(s, x)) <= Len(s)
<1>1. Len(s) \in Nat /\ DOMAIN s = 1 .. Len(s)
  BY LenProperties
<1>2. CASE \A i \in DOMAIN s : s[i] # x
  <2>1. Without(s, x) = s
    BY <1>2 DEF Without
  <2> QED
    BY <1>1, <1>2, <2>1
<1>3. CASE \E i \in DOMAIN s : s[i] = x
  <2> DEFINE k == CHOOSE i \in DOMAIN s : s[i] = x
             rest == RemoveAt(s, k)
  <2>1. k \in 1 .. Len(s) /\ s[k] = x
    BY <1>1, <1>3
  <2>2. Without(s, x) = rest
    BY <1>3 DEF Without
  <2> HIDE DEF k
  <2>3. /\ rest \in Seq(S) /\ Len(rest) = Len(s) - 1
        /\ \A j \in 1 .. Len(s) - 1 : rest[j] = IF j < k THEN s[j] ELSE s[j + 1]
    BY <2>1, RemoveAtProperties
  <2> HIDE DEF rest
  <2>4. DOMAIN rest = 1 .. Len(s) - 1
    BY <2>3, LenProperties
  <2> DEFINE place(j) == IF j < k THEN j ELSE j + 1
  <2>5. \A j \in DOMAIN rest : place(j) \in DOMAIN s /\ place(j) # k /\ place(j) >= j
                              /\ rest[j] = s[place(j)]
    BY <1>1, <2>1, <2>3, <2>4
  <2>6. \A i, j \in DOMAIN rest : (i < j => place(i) < place(j)) /\ (place(i) = place(j) => i = j)
    BY <1>1, <2>1, <2>4
  <2>7. \A i \in DOMAIN s : i # k => \E j \in DOMAIN rest : place(j) = i
    <3> SUFFICES ASSUME NEW i \in DOMAIN s, i # k
                 PROVE  \E j \in DOMAIN rest : place(j) = i
      OBVIOUS
    <3>1. CASE i < k
      <4>1. i \in DOMAIN rest /\ place(i) = i
        BY <1>1, <2>1, <2>4, <3>1
      <4> QED
        BY <4>1
    <3>2. CASE ~(i < k)
      <4>1. i - 1 \in DOMAIN rest /\ place(i - 1) = i
        BY <1>1, <2>1, <2>4, <3>2
      <4> QED
        BY <4>1
    <3> QED
      BY <3>1, <3>2
  <2> HIDE DEF place
  <2>8. ASSUME IsInjective(s)
        PROVE  IsInjective(rest) /\ \A j \in DOMAIN rest : rest[j] # x
    <3>1. \A i, j \in DOMAIN rest : rest[i] = rest[j] => place(i) = place(j)
      BY <2>5, <2>8 DEF IsInjective
    <3>2. \A j \in DOMAIN rest : rest[j] # x
      BY <1>1, <2>1, <2>5, <2>8 DEF IsInjective
    <3> QED
      BY <2>6, <3>1, <3>2 DEF IsInjective
  <2>9. \A i \in DOMAIN s : s[i] # x => \E j \in DOMAIN rest : rest[j] = s[i]
    BY <2>1, <2>5, <2>7
  <2>10. ASSUME s # <<>>, Head(s) # x
         PROVE  rest # <<>> /\ Head(rest) = Head(s)
    <3>1. Head(s) = s[1] /\ k # 1 /\ k > 1
      BY <1>1, <2>1, <2>10, EmptySeq
    <3>2. Len(s) - 1 >= 1 /\ rest[1] = s[1]
      BY <1>1, <2>1, <2>3, <3>1
    <3> QED
      BY <2>3, <2>4, <3>1, <3>2, EmptySeq
  <2>11. Len(rest) <= Len(s)
    BY <1>1, <2>3
  <2>12. \A j, n \in DOMAIN rest : j < n =>
            \E i, m \in DOMAIN s : i < m /\ rest[j] = s[i] /\ rest[n] = s[m]
    BY <2>5, <2>6
  <2> QED
    BY <2>2, <2>3, <2>5, <2>8, <2>9, <2>10, <2>11, <2>12
<1> QED
  BY <1>2, <1>3

\* The positions of a tail, and of a sequence with one more element.
LEMMA TailProperties ==
    ASSUME NEW S, NEW s \in Seq(S), s # <<>>
    PROVE  /\ Head(s) \in S /\ Tail(s) \in Seq(S)
           /\ Len(s) \in Nat \ {0} /\ DOMAIN s = 1 .. Len(s) /\ s[1] = Head(s)
           /\ Len(Tail(s)) = Len(s) - 1 /\ DOMAIN Tail(s) = 1 .. Len(s) - 1
           /\ \A i \in DOMAIN Tail(s) : i + 1 \in DOMAIN s /\ Tail(s)[i] = s[i + 1]
<1>1. /\ Head(s) \in S /\ Tail(s) \in Seq(S) /\ Len(Tail(s)) = Len(s) - 1
      /\ \A i \in 1 .. Len(Tail(s)) : Tail(s)[i] = s[i + 1]
  BY HeadTailProperties
<1>2. DOMAIN Tail(s) = 1 .. Len(Tail(s)) /\ DOMAIN s = 1 .. Len(s) /\ Len(s) \in Nat \ {0}
  BY <1>1, LenProperties, EmptySeq
<1> QED
  BY <1>1, <1>2

LEMMA AppendedProperties ==
    ASSUME NEW S, NEW s \in Seq(S), NEW x \in S
    PROVE  /\ Append(s, x) \in Seq(S) /\ Append(s, x) # <<>>
           /\ Len(s) \in Nat /\ Len(Append(s, x)) = Len(s) + 1
           /\ DOMAIN s = 1 .. Len(s) /\ DOMAIN Append(s, x) = 1 .. Len(s) + 1
           /\ Append(s, x)[Len(s) + 1] = x
           /\ \A i \in DOMAIN s : Append(s, x)[i] = s[i]
           /\ Head(Append(s, x)) = IF s = <<>> THEN x ELSE Head(s)
<1>1. /\ Append(s, x) \in Seq(S) /\ Len(Append(s, x)) = Len(s) + 1
      /\ \A i \in 1 .. Len(s) : Append(s, x)[i] = s[i]
      /\ Append(s, x)[Len(s) + 1] = x
  BY AppendProperties
<1>2. DOMAIN s = 1 .. Len(s) /\ Len(s) \in Nat /\ DOMAIN Append(s, x) = 1 .. Len(s) + 1
  BY <1>1, LenProperties
<1>3. Append(s, x) # <<>>
  BY <1>1, <1>2, EmptySeq
<1>4. Head(Append(s, x)) = IF s = <<>> THEN x ELSE Head(s)
  BY <1>1, <1>2, EmptySeq
<1> QED
  BY <1>1, <1>2, <1>3, <1>4
-----------------------------------------------------------------------------
(***************************************************************************)
(* What is done to a lane                                                  *)
(***************************************************************************)
LEMMA NoRunIsARun == NoRun \in Runs /\ NoSession \in SessionNames
                     /\ NoTurn \in [run : Runs, session : SessionNames]
BY BackendsAssumption DEF NoRun, Runs, MaxTurns, NoTurn, SessionNames

LEMMA MisreadIsARun == Misread \in Runs /\ Misread # NoRun /\ Misread[1] = 0
BY BackendsAssumption DEF Misread, NoRun, Runs, MaxTurns

LEMMA EmptyLaneType == EmptyLane \in LaneRecords
<1>1. \A S : <<>> \in Seq(S)
  BY EmptySeq
<1> QED
  BY <1>1, NoRunIsARun DEF EmptyLane, LaneRecords

\* Nothing of a lane is left but its queue.
Bare(K) ==
    /\ K.wire = <<>> /\ K.events = <<>> /\ K.running = <<>>
    /\ K.known = {} /\ K.users = {}

LEMMA ClearedLane ==
    ASSUME NEW L \in LaneRecords
    PROVE  LET K == ClearConversation(L) IN
           /\ K \in LaneRecords /\ K.queue = L.queue
           /\ K.up = L.up /\ K.spawned = L.spawned /\ K.wire = L.wire
           /\ K.events = L.events /\ K.running = L.running /\ K.known = L.known
           /\ K.users = L.users
           /\ K.threads = {} /\ K.prints = {} /\ K.active = NoTurn
BY NoRunIsARun DEF ClearConversation, LaneRecords

LEMMA LaneWithoutProcess ==
    ASSUME NEW L \in LaneRecords
    PROVE  LET K == WithoutProcess(L) IN
           /\ K \in LaneRecords /\ K.queue = L.queue
           /\ ~K.up /\ ~K.spawned /\ Bare(K)
           /\ K.threads = L.threads /\ K.prints = L.prints /\ K.active = L.active
<1>1. \A S : <<>> \in Seq(S)
  BY EmptySeq
<1> QED
  BY <1>1 DEF WithoutProcess, LaneRecords, Bare

LEMMA InvalidatedLane ==
    ASSUME NEW L \in LaneRecords
    PROVE  LET K == InvalidateProcess(L) IN
           /\ K \in LaneRecords /\ K.queue = L.queue
           /\ ~K.up /\ ~K.spawned /\ Bare(K)
           /\ K.threads = {} /\ K.prints = {} /\ K.active = NoTurn
           /\ KillProcess(L) = K
BY LaneWithoutProcess, ClearedLane DEF InvalidateProcess, KillProcess, Bare

LEMMA SpawnedLane ==
    ASSUME NEW L \in LaneRecords
    PROVE  LET K == Spawned(L) IN
           /\ K \in LaneRecords /\ K.queue = L.queue
           /\ K.up /\ K.spawned /\ Bare(K)
           /\ K.threads = L.threads /\ K.prints = L.prints /\ K.active = L.active
<1>1. WithoutProcess(L) \in LaneRecords
  BY LaneWithoutProcess
<1> QED
  BY <1>1, LaneWithoutProcess, ZenonT(30) DEF Spawned, LaneRecords, Bare

\* K is L but for its queue.
SameWork(K, L) ==
    /\ K.up = L.up /\ K.spawned = L.spawned /\ K.wire = L.wire
    /\ K.events = L.events /\ K.running = L.running /\ K.known = L.known
    /\ K.users = L.users
    /\ K.threads = L.threads /\ K.prints = L.prints /\ K.active = L.active

LEMMA FreedLane ==
    ASSUME NEW L \in LaneRecords, L.queue # <<>>
    PROVE  Freed(L) \in LaneRecords /\ SameWork(Freed(L), L) /\ Freed(L).queue = Tail(L.queue)
<1>1. L.queue \in Seq(Cancellers)
  BY DEF LaneRecords
<1>2. Tail(L.queue) \in Seq(Cancellers)
  BY <1>1, TailProperties
<1> QED
  BY <1>2 DEF Freed, LaneRecords, SameWork

LEMMA QueuedLane ==
    ASSUME NEW L \in LaneRecords, NEW q \in Seq(Cancellers)
    PROVE  LET K == [L EXCEPT !.queue = q] IN
           K \in LaneRecords /\ SameWork(K, L) /\ K.queue = q
BY DEF LaneRecords, SameWork

\* All but the wire, and what is new on the wire.
LEMMA SentLane ==
    ASSUME NEW L \in LaneRecords, NEW m \in Requests
    PROVE  LET K == Sent(L, m) IN
           /\ K \in LaneRecords /\ K.queue = L.queue
           /\ K.up = L.up /\ K.spawned = L.spawned
           /\ K.wire = IF L.up THEN Append(L.wire, m) ELSE L.wire
           /\ K.events = L.events /\ K.running = L.running /\ K.known = L.known
           /\ K.users = L.users
           /\ K.threads = L.threads /\ K.prints = L.prints /\ K.active = L.active
<1>1. L.wire \in Seq(Requests)
  BY DEF LaneRecords
<1>2. Append(L.wire, m) \in Seq(Requests)
  BY <1>1, AppendedProperties
<1>3. CASE L.up
  BY <1>2, <1>3 DEF Sent, LaneRecords
<1>4. CASE ~L.up
  BY <1>4 DEF Sent
<1> QED
  BY <1>3, <1>4

\* The first event is read.
LEMMA ReadLane ==
    ASSUME NEW L \in LaneRecords, L.events # <<>>
    PROVE  LET K == [L EXCEPT !.events = Tail(@)] IN
           /\ K \in LaneRecords /\ K.queue = L.queue
           /\ K.up = L.up /\ K.spawned = L.spawned /\ K.wire = L.wire
           /\ K.events = Tail(L.events) /\ K.running = L.running /\ K.known = L.known
           /\ K.users = L.users
           /\ K.threads = L.threads /\ K.prints = L.prints /\ K.active = L.active
           /\ Head(L.events) \in Events
<1>1. L.events \in Seq(Events)
  BY DEF LaneRecords
<1>2. Tail(L.events) \in Seq(Events) /\ Head(L.events) \in Events
  BY <1>1, TailProperties
<1> QED
  BY <1>2 DEF LaneRecords

LEMMA ReapedLane ==
    ASSUME NEW ls \in [Lanes -> LaneRecords], NEW st, NEW l \in Lanes
    PROVE  /\ Reaped(ls, st) \in [Lanes -> LaneRecords]
           /\ Reaped(ls, st)[l] \in {ls[l], EmptyLane}
           /\ Reaped(ls, st)[l] # ls[l] =>
                adapter = "claude" /\ ls[l].queue = <<>> /\ l \notin {st.discovery, st.patch, st.warm}
           /\ adapter = "claude" /\ ls[l].queue = <<>> /\ l \notin {st.discovery, st.patch, st.warm} =>
                Reaped(ls, st)[l] = EmptyLane
           /\ ls[l].queue # <<>> => Reaped(ls, st)[l] = ls[l]
           /\ Reaped(ls, st)[l].queue = ls[l].queue
<1>1. EmptyLane.queue = <<>>
  BY DEF EmptyLane
<1> QED
  BY <1>1, EmptyLaneType DEF Reaped
-----------------------------------------------------------------------------
(***************************************************************************)
(* Where turns and cancellations are                                       *)
(***************************************************************************)
InLane(t) == turns[t].pc \in {"waiting"} \cup Busy
Active(c) == cancels[c].step # "idle"
Main(t) == Ordinary(t) /\ turns[t].conv # "warm"
Queued(c, l) == \E i \in DOMAIN lanes[l].queue : lanes[l].queue[i] = c

TurnIn(c, l) == c \in DOMAIN turns /\ InLane(c) /\ turns[c].lane = l
CancelIn(c, l) ==
    /\ cancels[c].step \in {"locking", "interrupt"}
    /\ cancels[c].left # <<>> /\ Head(cancels[c].left) = l

\* Who is in a queue waits there, once, for as long as it needs the lane.
QueuesInOrder ==
    \A l \in Lanes :
        /\ IsInjective(lanes[l].queue)
        /\ \A i \in DOMAIN lanes[l].queue :
              TurnIn(lanes[l].queue[i], l) \/ CancelIn(lanes[l].queue[i], l)

TurnsInOrder ==
    \A t \in DOMAIN turns :
        /\ InLane(t) => turns[t].lane \in Lanes /\ Queued(t, turns[t].lane)
        /\ turns[t].pc \in Busy => Holds(t, turns[t].lane)
        /\ turns[t].lane = 0 \/ turns[t].pc \in Ended \/ InLane(t)
        /\ turns[t].pc = "dropped" => turns[t].aborted

CancelsInOrder ==
    \A c \in Cancellers :
        /\ cancels[c].step = "idle" => cancels[c].left = <<>>
        /\ cancels[c].step \in {"locking", "interrupt"} =>
              cancels[c].left # <<>> /\ Queued(c, Head(cancels[c].left))
        /\ cancels[c].step = "interrupt" =>
              adapter = "codex" /\ Holds(c, Head(cancels[c].left))
        /\ c # 0 /\ Active(c) =>
              /\ c \in DOMAIN turns /\ turns[c].pc = "cancelling"
              /\ turns[c].session = cancels[c].session

Places == QueuesInOrder /\ TurnsInOrder /\ CancelsInOrder

-----------------------------------------------------------------------------
(***************************************************************************)
(* The steps of the turn that holds a lane                                 *)
(***************************************************************************)
OwnLane(t) == lanes[turns[t].lane]
OwnRun(t) == Run(t, turns[t].attempt)

\* The turn goes on, or is over, and leaves K.
GoesOn(t, pc, attempt, K) ==
    /\ turns' = [turns EXCEPT ![t].pc = pc, ![t].attempt = attempt]
    /\ lanes' = [lanes EXCEPT ![turns[t].lane] = K]
Over(t, pc, answer, K) ==
    /\ turns' = [turns EXCEPT ![t].pc = pc, ![t].answer = answer]
    /\ lanes' = Reaped([lanes EXCEPT ![turns[t].lane] = Freed(K)], slots)

Kills(t) ==
    \/ /\ adapter = "codex" /\ turns[t].attempt = 1 /\ turns[t].conv # "warm"
       /\ GoesOn(t, "waiting", 2, InvalidateProcess(OwnLane(t)))
    \/ Over(t, "failed", NoRun, InvalidateProcess(OwnLane(t)))

\* K is lane L when its first event is read.
AfterEvent(L, K) ==
    /\ L.events # <<>> /\ K.events = Tail(L.events)
    /\ K.queue = L.queue /\ K.up = L.up /\ K.spawned = L.spawned /\ K.wire = L.wire
    /\ K.running = L.running /\ K.known = L.known /\ K.users = L.users
    /\ K.threads = L.threads /\ K.prints = L.prints

Ignores(t) ==
    LET L == OwnLane(t) IN
    /\ L.events # <<>> /\ turns' = turns
    /\ lanes' = [lanes EXCEPT ![turns[t].lane] = [L EXCEPT !.events = Tail(@)]]
    /\ adapter # "codex" => Head(L.events).is = "garbled"

\* The line a turn of claude_app or stdio_agent ends by.
EndsBy(answer, e) ==
    \/ e.is = "completed" /\ answer = e.run
    \/ e.is = "garbled" /\ answer = Misread

Stops(t) ==
    LET L == OwnLane(t) IN
    \E pc \in {"done", "failed"}, answer \in Runs, K \in LaneRecords :
        /\ Over(t, pc, answer, K)
        /\ answer \notin {NoRun, Misread} =>
              Head(L.events).is = "completed" /\ answer = Head(L.events).run
        /\ \/ /\ AfterEvent(L, K) /\ adapter = "codex"
              /\ K.active = IF turns[t].pc = "reading" THEN NoTurn ELSE L.active
              /\ answer # NoRun => answer = OwnRun(t)
           \/ /\ AfterEvent(L, K) /\ adapter # "codex" /\ EndsBy(answer, Head(L.events))
              /\ K.active = L.active
           \/ adapter = "claude" /\ K = WithoutProcess(L) /\ answer = NoRun
           \/ adapter = "stdio" /\ ~L.up /\ K = L /\ answer = NoRun /\ L.events = <<>>
           \/ adapter = "stdio" /\ ~L.up /\ K = L /\ answer = NoRun /\ turns[t].pc = "waiting"

Initializes(t) ==
    /\ adapter = "codex" /\ turns[t].pc = "waiting" /\ ~OwnLane(t).spawned
    /\ GoesOn(t, "initialize", turns[t].attempt,
              Sent(Spawned(ClearConversation(OwnLane(t))),
                   Request("initialize", t, turns[t].attempt)))

\* The lane from which codex_app's next request is sent.
Base(t, B) ==
    LET L == OwnLane(t) IN
    /\ B \in LaneRecords /\ B.active = L.active
    /\ \/ turns[t].pc = "waiting" /\ B = L
       \/ /\ turns[t].pc = "initialize" /\ AfterEvent(L, B)
       \/ /\ turns[t].pc = "thread"
          /\ AfterEvent(L, [B EXCEPT !.threads = L.threads])
          /\ B.threads = L.threads \cup {[key |-> ThreadKey(turns[t]), thread |-> OwnRun(t)]}

Asks(t) ==
    \E B \in LaneRecords, do \in {"models", "thread"}, attempt \in {1, 2} :
        /\ adapter = "codex" /\ Base(t, B)
        /\ do = "thread" => \A x \in B.threads : x.key # ThreadKey(turns[t])
        /\ GoesOn(t, do, turns[t].attempt, Sent(B, Request(do, t, attempt)))

Starts(t) ==
    \E B \in LaneRecords : \E x \in B.threads :
        LET print == <<x.thread, turns[t].ctx>>
            others == {p \in B.prints : p[1] # x.thread} IN
        /\ adapter = "codex" /\ Base(t, B) /\ x.key = ThreadKey(turns[t])
        /\ GoesOn(t, "start", turns[t].attempt,
                  Sent([B EXCEPT !.prints = others \cup {print}],
                       StartTurn(t, turns[t], x.thread, print \in B.prints)))

BeginsToRead(t) ==
    LET L == OwnLane(t) IN
    /\ adapter = "codex" /\ turns[t].pc = "start" /\ L.events # <<>>
    /\ LET e == Head(L.events) IN
       e.is = "response" /\ e.do = "start" /\ e.run = OwnRun(t)
    /\ GoesOn(t, "reading", turns[t].attempt,
              [L EXCEPT !.events = Tail(@),
                        !.active = [run |-> OwnRun(t), session |-> turns[t].session]])

\* claude_app and stdio_agent, on the process there is or on a new one.
Streams(t) ==
    LET L == OwnLane(t)
        print == <<NoRun, turns[t].ctx>> IN
    \E B \in LaneRecords, omits \in BOOLEAN :
        /\ adapter # "codex" /\ turns[t].pc = "waiting"
        /\ \/ L.spawned /\ B = L
           \/ ~L.up /\ adapter = "claude" /\ B = [Spawned(L) EXCEPT !.prints = {}]
           \/ ~L.spawned /\ adapter = "stdio" /\ B = Spawned(L)
        /\ omits = (adapter = "claude" /\ print \in B.prints)
        /\ GoesOn(t, "reading", turns[t].attempt,
                  Sent(IF adapter = "claude" THEN [B EXCEPT !.prints = {print}] ELSE B,
                       StartTurn(t, turns[t], NoRun, omits)))

TurnSteps(t) ==
    Kills(t) \/ Ignores(t) \/ Stops(t) \/ Initializes(t) \/ Asks(t) \/ Starts(t)
    \/ BeginsToRead(t) \/ Streams(t)

\* A turn of the sequence, and its number.
LEMMA TurnIsKnown ==
    ASSUME Types, NEW t \in DOMAIN turns
    PROVE  turns[t] \in TurnRecords /\ t \in Nat \ {0} /\ t <= Len(turns) /\ Len(turns) \in Nat
BY LenProperties, ElementOfSeq DEF Types

LEMMA BusyTurn ==
    ASSUME Types, Places, NEW t \in DOMAIN turns,
           turns[t].pc \in Busy \/ (turns[t].pc = "waiting" /\ Holds(t, turns[t].lane))
    PROVE  /\ turns[t].lane \in Lanes /\ OwnLane(t) \in LaneRecords
           /\ OwnLane(t).queue # <<>> /\ Head(OwnLane(t).queue) = t
           /\ Holds(t, turns[t].lane)
<1>1. turns[t].lane \in Lanes /\ Holds(t, turns[t].lane)
  BY DEF Places, TurnsInOrder, InLane
<1> QED
  BY <1>1 DEF Types, OwnLane, Holds

LEMMA ProceedsSteps ==
    ASSUME Types, NEW t \in DOMAIN turns, NEW B \in LaneRecords, adapter = "codex",
           Base(t, B), Proceeds(t, turns[t].lane, B)
    PROVE  Kills(t) \/ Asks(t) \/ Starts(t)
<1>0. turns[t] \in TurnRecords
  BY TurnIsKnown
<1>1. CASE WriteFails(B) /\ TransportFails(t, turns[t].lane)
  BY <1>1 DEF TransportFails, Fails, Ends, Kills, GoesOn, Over, OwnLane
<1>2. CASE turns[t].conv = "warm" /\ Goes(t, turns[t].lane, "models", Sent(B, Request("models", t, 1)))
  <2>1. GoesOn(t, "models", turns[t].attempt, Sent(B, Request("models", t, 1)))
    BY <1>0, <1>2 DEF Goes, GoesOn, TurnRecords, Types
  <2> QED
    BY <2>1 DEF Asks
<1>3. CASE /\ {x \in B.threads : x.key = ThreadKey(turns[t])} = {}
           /\ AsksThread(t, turns[t].lane, B)
  <2>1. GoesOn(t, "thread", turns[t].attempt, Sent(B, Request("thread", t, turns[t].attempt)))
    BY <1>0, <1>3 DEF Goes, GoesOn, TurnRecords, Types, AsksThread
  <2>2. \A x \in B.threads : x.key # ThreadKey(turns[t])
    BY <1>3
  <2>3. turns[t].attempt \in {1, 2}
    BY <1>0 DEF TurnRecords
  <2> QED
    BY <2>1, <2>2, <2>3 DEF Asks
<1>4. CASE \E x \in B.threads : x.key = ThreadKey(turns[t])
                               /\ AsksTurn(t, turns[t].lane, B, x.thread)
  <2>1. PICK x \in B.threads : x.key = ThreadKey(turns[t]) /\ AsksTurn(t, turns[t].lane, B, x.thread)
    BY <1>4
  <2> DEFINE print == <<x.thread, turns[t].ctx>>
             K == Sent([B EXCEPT !.prints = {p \in B.prints : p[1] # x.thread} \cup {print}],
                       StartTurn(t, turns[t], x.thread, print \in B.prints))
  <2>2. Goes(t, turns[t].lane, "start", K)
    BY <2>1 DEF AsksTurn
  <2> HIDE DEF K
  <2>3. GoesOn(t, "start", turns[t].attempt, K)
    BY <1>0, <2>2 DEF Goes, GoesOn, TurnRecords, Types
  <2> QED
    BY <2>1, <2>3 DEF Starts, K
<1> QED
  BY <1>1, <1>2, <1>3, <1>4 DEF Proceeds
\* A process that is gone has nothing to read or to do.
LanesInOrder ==
    \A l \in Lanes :
        /\ lanes[l].up => lanes[l].spawned
        /\ ~lanes[l].up => lanes[l].wire = <<>> /\ lanes[l].running = <<>>
        /\ ~lanes[l].spawned => lanes[l].events = <<>> /\ lanes[l].active = NoTurn
        /\ adapter # "codex" => lanes[l].active = NoTurn

LEMMA CodexBeginSteps ==
    ASSUME Types, Places, NEW t \in DOMAIN turns, adapter = "codex",
           turns[t].pc = "waiting", Holds(t, turns[t].lane), CodexBegins(t, turns[t].lane)
    PROVE  TurnSteps(t)
<1>0. turns[t] \in TurnRecords /\ OwnLane(t) \in LaneRecords
  BY TurnIsKnown, BusyTurn
<1>1. CASE ~OwnLane(t).spawned
  <2> DEFINE K == Sent(Spawned(ClearConversation(OwnLane(t))),
                       Request("initialize", t, turns[t].attempt))
  <2>1. Goes(t, turns[t].lane, "initialize", K)
    BY <1>1 DEF CodexBegins, OwnLane
  <2> HIDE DEF K
  <2>2. GoesOn(t, "initialize", turns[t].attempt, K)
    BY <1>0, <2>1 DEF Goes, GoesOn, TurnRecords, Types
  <2> QED
    BY <1>1, <2>2 DEF K, Initializes, TurnSteps
<1>2. CASE OwnLane(t).spawned
  <2>1. Proceeds(t, turns[t].lane, OwnLane(t))
    BY <1>2 DEF CodexBegins, OwnLane
  <2>2. Base(t, OwnLane(t))
    BY <1>0 DEF Base
  <2> QED
    BY <1>0, <2>1, <2>2, ProceedsSteps DEF TurnSteps
<1> QED
  BY <1>1, <1>2

LEMMA OwnRunType ==
    ASSUME Types, NEW t \in DOMAIN turns
    PROVE  /\ OwnRun(t) \in Runs /\ Run(t, 1) \in Runs /\ t \in Cancellers /\ t \in Turns
           /\ OwnRun(t) # NoRun /\ OwnRun(t)[1] = t /\ OwnRun(t)[2] = turns[t].attempt
<1>1. MaxTurns \in Nat
  BY BackendsAssumption DEF MaxTurns
<1>2. t \in 1 .. MaxTurns /\ turns[t].attempt \in {1, 2}
  BY <1>1, TurnIsKnown DEF Types, TurnRecords
<1> QED
  BY <1>1, <1>2 DEF OwnRun, Run, Runs, Cancellers, Turns, NoRun

LEMMA CodexReadSteps ==
    ASSUME Types, Places, NEW t \in DOMAIN turns, adapter = "codex",
           turns[t].pc \in Busy, OwnLane(t).events # <<>>, CodexReads(t, turns[t].lane)
    PROVE  TurnSteps(t)
<1> DEFINE L == OwnLane(t)
           e == Head(L.events)
           R == [L EXCEPT !.events = Tail(@)]
           over == [R EXCEPT !.active = NoTurn]
           thread == [key |-> ThreadKey(turns[t]), thread |-> e.run]
           l == turns[t].lane
<1>0. turns[t] \in TurnRecords /\ L \in LaneRecords /\ l \in Lanes /\ L = lanes[l]
  BY TurnIsKnown, BusyTurn DEF OwnLane
<1>1. /\ R \in LaneRecords /\ AfterEvent(L, R) /\ R.active = L.active /\ e \in Events
  BY <1>0, ReadLane DEF AfterEvent
<1>2. over \in LaneRecords /\ over.active = NoTurn /\ AfterEvent(L, over)
  <2>1. over \in LaneRecords
    BY <1>1, NoRunIsARun DEF LaneRecords
  <2> QED
    BY <1>1, <2>1 DEF AfterEvent, LaneRecords
<1>3. NoRun \in Runs /\ OwnRun(t) \in Runs /\ OwnRun(t) # NoRun
  BY NoRunIsARun, OwnRunType
<1>4. CASE e.is = "garbled" /\ turns[t].pc = "initialize" /\ TransportFails(t, l)
  BY <1>4 DEF TransportFails, Fails, Ends, Kills, GoesOn, Over, OwnLane, TurnSteps
<1>5. ASSUME NEW K \in LaneRecords, AfterEvent(L, K),
             K.active = IF turns[t].pc = "reading" THEN NoTurn ELSE L.active,
             NEW pc \in {"done", "failed"}, NEW answer \in {NoRun, OwnRun(t)},
             answer # NoRun => e.is = "completed" /\ answer = e.run,
             Ends(t, l, pc, answer, K)
      PROVE  Stops(t)
  <2>1. Over(t, pc, answer, K)
    BY <1>5 DEF Ends, Over
  <2> QED
    BY <1>3, <1>5, <2>1 DEF Stops
<1>6. CASE e.is = "garbled" /\ turns[t].pc = "reading" /\ Fails(t, l, over)
  BY <1>2, <1>3, <1>5, <1>6 DEF Fails, TurnSteps
<1>7. CASE e.is = "garbled" /\ turns[t].pc \notin {"initialize", "reading"} /\ Fails(t, l, R)
  BY <1>1, <1>3, <1>5, <1>7 DEF Fails, TurnSteps
<1>8. CASE turns[t].pc = "reading" /\ Completes(t, e) /\ Ends(t, l, "done", e.run, over)
  <2>1. e.is = "completed" /\ e.run = OwnRun(t)
    BY <1>8 DEF Completes, OwnRun
  <2> QED
    BY <1>2, <1>3, <1>5, <1>8, <2>1 DEF TurnSteps
<1>9. CASE turns[t].pc = "reading" /\ Completes(t, e) /\ Fails(t, l, over)
  BY <1>2, <1>3, <1>5, <1>9 DEF Fails, TurnSteps
<1>10. CASE Awaited(t, e) /\ turns[t].pc = "initialize" /\ Proceeds(t, l, R)
  <2>1. Base(t, R)
    BY <1>1, <1>10 DEF Base
  <2> QED
    BY <1>1, <1>10, <2>1, ProceedsSteps DEF TurnSteps
<1>11. CASE Awaited(t, e) /\ turns[t].pc = "models" /\ Ends(t, l, "done", NoRun, R)
  BY <1>1, <1>3, <1>5, <1>11 DEF TurnSteps
<1>12. CASE /\ Awaited(t, e) /\ turns[t].pc = "thread"
            /\ Proceeds(t, l, [R EXCEPT !.threads = @ \cup {thread}])
  <2> DEFINE B == [R EXCEPT !.threads = @ \cup {thread}]
  <2>1. e.run = OwnRun(t)
    BY <1>12 DEF Awaited, OwnRun
  <2>2. thread \in ThreadRecords
    BY <1>0, <1>3, <2>1 DEF ThreadRecords, TurnRecords, ThreadKey
  <2>3. B \in LaneRecords /\ B.active = L.active
    BY <1>1, <2>2 DEF LaneRecords
  <2>4. R.threads = L.threads
    BY <1>1 DEF AfterEvent
  <2>5. B.threads = L.threads \cup {[key |-> ThreadKey(turns[t]), thread |-> OwnRun(t)]}
    BY <1>1, <2>1, <2>4 DEF LaneRecords
  <2>6. [B EXCEPT !.threads = L.threads] = R
    BY <1>1, <2>4 DEF LaneRecords
  <2>7. Base(t, B)
    BY <1>1, <1>12, <2>3, <2>5, <2>6 DEF Base
  <2> HIDE DEF B
  <2> QED
    BY <1>12, <2>3, <2>7, ProceedsSteps DEF TurnSteps, B
<1>13. CASE /\ Awaited(t, e) /\ turns[t].pc = "start"
            /\ Goes(t, l, "reading", [R EXCEPT !.active = [run |-> e.run, session |-> turns[t].session]])
  <2>1. e.is = "response" /\ e.do = "start" /\ e.run = OwnRun(t)
    BY <1>13 DEF Awaited, OwnRun
  <2> DEFINE K == [L EXCEPT !.events = Tail(@),
                            !.active = [run |-> OwnRun(t), session |-> turns[t].session]]
  <2>2. Goes(t, l, "reading", K)
    BY <1>13, <2>1
  <2> HIDE DEF K
  <2>3. GoesOn(t, "reading", turns[t].attempt, K)
    BY <1>0, <2>2 DEF Goes, GoesOn, TurnRecords, Types
  <2> QED
    BY <1>13, <2>1, <2>3 DEF K, BeginsToRead, TurnSteps
<1>14. CASE Awaited(t, e) /\ turns[t].pc = "start" /\ Fails(t, l, R)
  BY <1>1, <1>3, <1>5, <1>14 DEF Fails, TurnSteps
<1>15. CASE /\ e.is # "garbled"
            /\ lanes' = [lanes EXCEPT ![l] = R] /\ UNCHANGED turns
  BY <1>15 DEF Ignores, TurnSteps
<1> HIDE DEF R, over, thread
<1> QED
  BY <1>0, <1>4, <1>6, <1>7, <1>8, <1>9, <1>10, <1>11, <1>12, <1>13, <1>14, <1>15
  DEF CodexReads, R, over, thread
LEMMA StartTurnType ==
    ASSUME Types, NEW t \in DOMAIN turns, NEW thread \in Runs, NEW omits \in BOOLEAN
    PROVE  /\ StartTurn(t, turns[t], thread, omits) \in Requests
           /\ StartTurn(t, turns[t], thread, omits).do = "start"
           /\ StartTurn(t, turns[t], thread, omits).run = OwnRun(t)
           /\ StartTurn(t, turns[t], thread, omits).thread = thread
           /\ StartTurn(t, turns[t], thread, omits).ctx = turns[t].ctx
           /\ StartTurn(t, turns[t], thread, omits).omits = omits
           /\ StartTurn(t, turns[t], thread, omits).session = turns[t].session
<1>1. turns[t] \in TurnRecords /\ OwnRun(t) \in Runs
  BY TurnIsKnown, OwnRunType
<1> QED
  BY <1>1 DEF StartTurn, Requests, TurnRecords, OwnRun

LEMMA StreamBeginSteps ==
    ASSUME Types, Places, LanesInOrder, NEW t \in DOMAIN turns, adapter \in {"claude", "stdio"},
           turns[t].pc = "waiting", Holds(t, turns[t].lane),
           \/ adapter = "claude" /\ ClaudeBegins(t, turns[t].lane)
           \/ adapter = "stdio" /\ StdioBegins(t, turns[t].lane)
    PROVE  TurnSteps(t)
<1> DEFINE l == turns[t].lane
           L == OwnLane(t)
           print == <<NoRun, turns[t].ctx>>
           clean == [Spawned(L) EXCEPT !.prints = {}]
           kept(K) == [K EXCEPT !.prints = {print}]
<1>0. turns[t] \in TurnRecords /\ L \in LaneRecords /\ l \in Lanes /\ L = lanes[l]
  BY TurnIsKnown, BusyTurn DEF OwnLane
<1>1. L.up => L.spawned
  BY <1>0 DEF LanesInOrder
<1>2. Spawned(L) \in LaneRecords /\ Spawned(L).up
  BY <1>0, SpawnedLane
<1>3. clean \in LaneRecords /\ clean.prints = {}
  BY <1>2 DEF LaneRecords
<1>4. ASSUME NEW K \in LaneRecords, Goes(t, l, "reading", K)
      PROVE  GoesOn(t, "reading", turns[t].attempt, K)
  BY <1>0, <1>4 DEF Goes, GoesOn, TurnRecords, Types
<1>5. ASSUME NEW B \in LaneRecords, NEW omits \in BOOLEAN
      PROVE  /\ Sent(B, StartTurn(t, turns[t], NoRun, omits)) \in LaneRecords
             /\ Sent(kept(B), StartTurn(t, turns[t], NoRun, omits)) \in LaneRecords
  <2>1. StartTurn(t, turns[t], NoRun, omits) \in Requests
    BY StartTurnType, NoRunIsARun
  <2>2. print \in Runs \X Prints
    BY <1>0, NoRunIsARun DEF TurnRecords
  <2>3. kept(B) \in LaneRecords
    BY <2>2 DEF LaneRecords
  <2> HIDE DEF kept
  <2> QED
    BY <2>1, <2>3, SentLane
<1>6. ASSUME adapter = "claude", NEW B \in LaneRecords, NEW omits \in BOOLEAN,
             (B = L /\ L.spawned) \/ (B = clean /\ ~L.up), omits = (print \in B.prints),
             Goes(t, l, "reading", Sent(kept(B), StartTurn(t, turns[t], NoRun, omits)))
      PROVE  Streams(t)
  <2>1. GoesOn(t, "reading", turns[t].attempt, Sent(kept(B), StartTurn(t, turns[t], NoRun, omits)))
    BY <1>4, <1>5, <1>6
  <2> HIDE DEF clean
  <2> QED
    BY <1>6, <2>1 DEF Streams, clean
<1>7. ASSUME adapter = "stdio", NEW B \in LaneRecords,
             (B = L /\ L.spawned) \/ (B = Spawned(L) /\ ~L.spawned),
             Goes(t, l, "reading", Sent(B, StartTurn(t, turns[t], NoRun, FALSE)))
      PROVE  Streams(t)
  <2>1. GoesOn(t, "reading", turns[t].attempt, Sent(B, StartTurn(t, turns[t], NoRun, FALSE)))
    BY <1>4, <1>5, <1>7
  <2> QED
    BY <1>7, <2>1 DEF Streams
<1>8. CASE adapter = "claude" /\ ClaudeBegins(t, l)
  <2> DEFINE B == IF L.spawned THEN L ELSE clean
  <2>0. B \in LaneRecords /\ ((B = L /\ L.spawned) \/ (B = clean /\ ~L.up))
    BY <1>0, <1>1, <1>3
  <2>1. \/ Goes(t, l, "reading", Sent(kept(B), StartTurn(t, turns[t], NoRun, print \in B.prints)))
        \/ WriteFails(B) /\ Goes(t, l, "reading", Sent(kept(clean), StartTurn(t, turns[t], NoRun, FALSE)))
    BY <1>0, <1>8 DEF ClaudeBegins
  <2>2. WriteFails(B) => ~L.up
    <3>1. clean.up
      BY <1>2 DEF LaneRecords
    <3> QED
      BY <2>0, <3>1 DEF WriteFails
  <2>3. FALSE = (print \in clean.prints)
    BY <1>3
  <2>6. (print \in B.prints) \in BOOLEAN
    OBVIOUS
  <2>7. Goes(t, l, "reading", Sent(kept(B), StartTurn(t, turns[t], NoRun, print \in B.prints)))
        => Streams(t)
    BY <1>6, <1>8, <2>0, <2>6
  <2> HIDE DEF B, clean, kept, print
  <2>4. CASE Goes(t, l, "reading", Sent(kept(B), StartTurn(t, turns[t], NoRun, print \in B.prints)))
    BY <2>4, <2>7 DEF TurnSteps
  <2>5. CASE /\ WriteFails(B)
             /\ Goes(t, l, "reading", Sent(kept(clean), StartTurn(t, turns[t], NoRun, FALSE)))
    BY <1>3, <1>6, <1>8, <2>2, <2>3, <2>5 DEF TurnSteps
  <2> QED
    BY <2>1, <2>4, <2>5
<1>9. CASE adapter = "stdio" /\ StdioBegins(t, l)
  <2> DEFINE B == IF L.spawned THEN L ELSE Spawned(L)
  <2>0. B \in LaneRecords /\ ((B = L /\ L.spawned) \/ (B = Spawned(L) /\ ~L.spawned))
    BY <1>0, <1>2
  <2>1. \/ Goes(t, l, "reading", Sent(B, StartTurn(t, turns[t], NoRun, FALSE)))
        \/ WriteFails(B) /\ Fails(t, l, B)
    BY <1>0, <1>9 DEF StdioBegins
  <2>2. WriteFails(B) => B = L /\ ~L.up
    BY <1>2, <2>0 DEF WriteFails
  <2> HIDE DEF B
  <2>3. CASE Goes(t, l, "reading", Sent(B, StartTurn(t, turns[t], NoRun, FALSE)))
    BY <1>7, <1>9, <2>0, <2>3 DEF TurnSteps
  <2>4. CASE WriteFails(B) /\ Fails(t, l, B)
    <3>1. Over(t, "failed", NoRun, L)
      BY <2>2, <2>4 DEF Fails, Ends, Over
    <3> QED
      BY <1>0, <1>9, <2>2, <2>4, <3>1, NoRunIsARun DEF Stops, TurnSteps
  <2> QED
    BY <2>1, <2>3, <2>4
<1> QED
  BY <1>8, <1>9

LEMMA StreamReadSteps ==
    ASSUME Types, Places, NEW t \in DOMAIN turns, adapter \in {"claude", "stdio"},
           turns[t].pc \in Busy, OwnLane(t).events # <<>>, StreamReads(t, turns[t].lane)
    PROVE  TurnSteps(t)
<1> DEFINE L == OwnLane(t)
           e == Head(L.events)
           R == [L EXCEPT !.events = Tail(@)]
           l == turns[t].lane
<1>0. turns[t] \in TurnRecords /\ L \in LaneRecords /\ l \in Lanes /\ L = lanes[l]
  BY TurnIsKnown, BusyTurn DEF OwnLane
<1>1. /\ R \in LaneRecords /\ AfterEvent(L, R) /\ R.active = L.active /\ e \in Events
  BY <1>0, ReadLane DEF AfterEvent
<1>2. e.run \in Runs /\ NoRun \in Runs /\ Misread \in Runs
  BY <1>1, NoRunIsARun, MisreadIsARun DEF Events
<1>3. CASE e.is = "garbled" /\ lanes' = [lanes EXCEPT ![l] = R] /\ UNCHANGED turns
  BY <1>3 DEF Ignores, TurnSteps
<1>4. ASSUME NEW pc \in {"done", "failed"}, NEW answer \in {Misread, e.run}, EndsBy(answer, e),
             Ends(t, l, pc, answer, R)
      PROVE  Stops(t)
  <2>1. Over(t, pc, answer, R)
    BY <1>4 DEF Ends, Over
  <2>2. answer \in Runs /\ (answer # Misread => e.is = "completed" /\ answer = e.run)
    BY <1>2, <1>4 DEF EndsBy
  <2> HIDE DEF R
  <2> QED
    BY <1>0, <1>1, <1>2, <1>4, <2>1, <2>2 DEF Stops
<1>5. ASSUME NEW pc \in {"done", "failed"}, e.is = "completed", Ends(t, l, pc, e.run, R)
      PROVE  TurnSteps(t)
  BY <1>4, <1>5 DEF EndsBy, TurnSteps
<1>6. ASSUME NEW pc \in {"done", "failed"}, e.is = "garbled", Ends(t, l, pc, Misread, R)
      PROVE  TurnSteps(t)
  BY <1>4, <1>6 DEF EndsBy, TurnSteps
<1> HIDE DEF R
<1>7. \/ e.is = "garbled" /\ lanes' = [lanes EXCEPT ![l] = R] /\ UNCHANGED turns
      \/ \E pc \in {"done", "failed"} : e.is = "garbled" /\ Ends(t, l, pc, Misread, R)
      \/ \E pc \in {"done", "failed"} : e.is = "completed" /\ Ends(t, l, pc, e.run, R)
  BY <1>0 DEF StreamReads, R
<1> QED
  BY <1>3, <1>5, <1>6, <1>7

\* Whatever the turn that holds a lane does is one of TurnSteps.
LEMMA BusySteps ==
    ASSUME Types, Places, LanesInOrder, NEW t \in DOMAIN turns,
           Begin(t) \/ Read(t) \/ EndOfFile(t) \/ Timeout(t)
    PROVE  /\ TurnSteps(t) /\ UNCHANGED <<adapter, slots, cancels, spec, faults>>
           /\ turns[t].pc \in Busy \/ (turns[t].pc = "waiting" /\ Holds(t, turns[t].lane))
           /\ InLane(t)
<1>0. adapter \in {"codex", "claude", "stdio"}
  BY BackendsAssumption DEF Types
<1>1. CASE Begin(t)
  <2>1. CASE adapter = "codex"
    BY <1>1, <2>1, CodexBeginSteps DEF Begin, Rest, InLane
  <2>2. CASE adapter # "codex"
    BY <1>0, <1>1, <2>2, StreamBeginSteps DEF Begin, Rest, InLane
  <2> QED
    BY <2>1, <2>2
<1>2. CASE Read(t)
  <2>1. CASE adapter = "codex"
    BY <1>2, <2>1, CodexReadSteps DEF Read, Rest, InLane, OwnLane
  <2>2. CASE adapter # "codex"
    BY <1>0, <1>2, <2>2, StreamReadSteps DEF Read, Rest, InLane, OwnLane
  <2> QED
    BY <2>1, <2>2
<1>3. CASE EndOfFile(t)
  <2>0. OwnLane(t) \in LaneRecords /\ NoRun \in Runs /\ turns[t].pc \in Busy
    BY <1>3, BusyTurn, NoRunIsARun DEF EndOfFile
  <2>1. CASE adapter = "codex"
    BY <1>3, <2>0, <2>1 DEF EndOfFile, TransportFails, Fails, Ends, Kills, GoesOn, Over,
      OwnLane, TurnSteps, Rest, InLane
  <2>2. CASE adapter = "claude"
    <3>1. Over(t, "failed", NoRun, WithoutProcess(OwnLane(t)))
      BY <1>3, <2>2 DEF EndOfFile, Fails, Ends, Over, OwnLane
    <3>2. WithoutProcess(OwnLane(t)) \in LaneRecords
      BY <2>0, LaneWithoutProcess
    <3> QED
      BY <1>3, <2>0, <2>2, <3>1, <3>2 DEF Stops, TurnSteps, EndOfFile, Rest, InLane
  <2>3. CASE adapter = "stdio"
    <3>1. /\ Over(t, "failed", NoRun, OwnLane(t))
          /\ OwnLane(t).events = <<>> /\ ~OwnLane(t).up
      BY <1>3, <2>3 DEF EndOfFile, Fails, Ends, Over, OwnLane
    <3> QED
      BY <1>3, <2>0, <2>3, <3>1 DEF Stops, TurnSteps, EndOfFile, Rest, InLane
  <2> QED
    BY <1>0, <2>1, <2>2, <2>3
<1>4. CASE Timeout(t)
  <2>1. OwnLane(t) \in LaneRecords /\ turns[t].pc \in Busy
    BY <1>4, BusyTurn DEF Timeout
  <2>2. KillProcess(OwnLane(t)) = InvalidateProcess(OwnLane(t))
    BY DEF KillProcess
  <2>3. Over(t, "failed", NoRun, InvalidateProcess(OwnLane(t)))
    BY <1>4, <2>2 DEF Timeout, Fails, Ends, Over, OwnLane
  <2> QED
    BY <1>4, <2>1, <2>3 DEF Timeout, Kills, TurnSteps, Rest, InLane
<1> QED
  BY <1>1, <1>2, <1>3, <1>4

-----------------------------------------------------------------------------
(***************************************************************************)
(* The calls: a turn is added, another is aborted                          *)
(***************************************************************************)
\* The largest of a set of numbers that has a bound.
LEMMA MaxIsIn ==
    ASSUME NEW n \in Nat, NEW T, T \subseteq 1 .. n, T # {}
    PROVE  Max(T) \in T /\ \A y \in T : Max(T) >= y
<1> DEFINE below == {n - x : x \in T}
<1>1. below \subseteq Nat /\ below # {}
  <2>1. \A x \in T : n - x \in Nat
    OBVIOUS
  <2>2. PICK x \in T : TRUE
    OBVIOUS
  <2>3. n - x \in below
    OBVIOUS
  <2> QED
    BY <2>1, <2>3
<1> HIDE DEF below
<1>2. PICK m \in below : \A y \in below : ~ (<<y, m>> \in OpToRel(<, Nat))
  BY <1>1, NatLessThanWellFounded, WFMin
<1>3. \A y \in below : ~(y < m)
  BY <1>1, <1>2, Zenon DEF OpToRel
<1>4. \A y \in below : m <= y
  BY <1>1, <1>3
<1>5. PICK x \in T : m = n - x
  BY DEF below
<1>6. \A y \in T : x >= y
  <2> SUFFICES ASSUME NEW y \in T PROVE x >= y
    OBVIOUS
  <2>1. n - y \in below
    BY DEF below
  <2>2. n - x <= n - y
    BY <1>4, <1>5, <2>1
  <2> QED
    BY <2>2
<1> QED
  BY <1>6 DEF Max

\* The turns, but for one that is aborted; and perhaps a new one.
Marked(r) == [r EXCEPT !.aborted = TRUE]
AbortsOne(a) ==
    \A t \in DOMAIN turns : turns'[t] = IF t = a THEN Marked(turns[t]) ELSE turns[t]
Adds(new) ==
    /\ DOMAIN turns' = DOMAIN turns \cup new
    /\ new \subseteq {Len(turns) + 1}
    /\ \A t \in new :
          /\ turns'[t] \in TurnRecords /\ turns'[t].lane = 0 /\ turns'[t].attempt = 1
          /\ ~turns'[t].aborted /\ turns'[t].answer = NoRun
          /\ turns'[t].pc \in {"called", "cancelling", "awaiting"}
          /\ turns'[t].awaits \in 0 .. Len(turns)

Starts0(c, s) ==
    \E route \in CancelRoutes(s) :
        /\ cancels[c].step = "idle"
        /\ cancels' = [cancels EXCEPT ![c] = [step |-> "next", session |-> s, left |-> route]]

LEMMA ViaRoute ==
    ASSUME NEW x \in Lanes \cup {0}, NEW y \in Lanes \cup {0}, NEW r,
           r = Via(x) \o Via(y) \/ r = Via(y) \o Via(x)
    PROVE  /\ r \in Seq(Lanes) /\ \A i \in DOMAIN r : r[i] \in {x, y}
           /\ \A l \in {x, y} \ {0} : \E i \in DOMAIN r : r[i] = l
<1>0. 0 \notin Lanes
  BY DEF Lanes
<1>2. ASSUME NEW l \in {x, y}, l # 0, r = <<l>>, {x, y} \ {0} = {l}
      PROVE  /\ r \in Seq(Lanes) /\ \A i \in DOMAIN r : r[i] \in {x, y}
             /\ \A m \in {x, y} \ {0} : \E i \in DOMAIN r : r[i] = m
  <2>1. DOMAIN <<l>> = {1} /\ <<l>>[1] = l /\ <<l>> \in Seq(Lanes)
    BY <1>2
  <2> QED
    BY <1>2, <2>1
<1>3. ASSUME NEW l \in Lanes, NEW m \in Lanes, {l, m} = {x, y}, r = <<l>> \o <<m>>
      PROVE  /\ r \in Seq(Lanes) /\ \A i \in DOMAIN r : r[i] \in {x, y}
             /\ \A n \in {x, y} \ {0} : \E i \in DOMAIN r : r[i] = n
  <2>0. ASSUME NEW z \in Lanes
        PROVE  <<z>> \in Seq(Lanes) /\ Len(<<z>>) = 1 /\ <<z>>[1] = z
    OBVIOUS
  <2>1. r \in Seq(Lanes) /\ Len(r) = 2 /\ r[1] = l /\ r[2] = m
    BY <1>3, <2>0, ConcatProperties
  <2>2. DOMAIN r = 1 .. 2
    BY <2>1, LenProperties
  <2>3. r[1] = l /\ r[2] = m
    BY <2>1
  <2>4. \A i \in DOMAIN r : r[i] \in {l, m}
    BY <2>2, <2>3
  <2>5. \A n \in {l, m} : \E i \in DOMAIN r : r[i] = n
    BY <2>2, <2>3
  <2> QED
    BY <1>3, <2>1, <2>4, <2>5
<1>4. CASE x = 0 /\ y = 0
  <2>1. r = <<>>
    BY <1>4 DEF Via
  <2>2. <<>> \in Seq(Lanes) /\ DOMAIN <<>> = {}
    BY EmptySeq
  <2>3. r \in Seq(Lanes) /\ DOMAIN r = {}
    BY <2>1, <2>2
  <2>4. {x, y} \ {0} = {}
    BY <1>4
  <2> QED
    BY <2>3, <2>4
<1>5. CASE x # 0 /\ y = 0
  <2>1. r = <<x>>
    BY <1>5 DEF Via
  <2>2. {x, y} \ {0} = {x}
    BY <1>5
  <2> QED
    BY <1>2, <1>5, <2>1, <2>2
<1>6. CASE x = 0 /\ y # 0
  <2>1. r = <<y>>
    BY <1>6 DEF Via
  <2>2. {x, y} \ {0} = {y}
    BY <1>6
  <2> QED
    BY <1>2, <1>6, <2>1, <2>2
<1>7. CASE x # 0 /\ y # 0
  <2>1. r = <<x>> \o <<y>> \/ r = <<y>> \o <<x>>
    <3>1. Via(x) = <<x>> /\ Via(y) = <<y>>
      BY <1>7 DEF Via
    <3> QED
      BY <3>1
  <2>2. {y, x} = {x, y} /\ x \in Lanes /\ y \in Lanes
    BY <1>7
  <2> QED
    BY <1>3, <2>1, <2>2
<1> QED
  BY <1>4, <1>5, <1>6, <1>7

LEMMA RouteTypes ==
    ASSUME Types, NEW s \in SessionNames, NEW route \in CancelRoutes(s)
    PROVE  /\ route \in Seq(Lanes)
           /\ adapter = "codex" => route = <<1, 2>>
           /\ adapter = "stdio" => route = <<1>>
           /\ adapter = "claude" =>
                /\ \A i \in DOMAIN route :
                      slots.session = s /\ route[i] \in {slots.discovery, slots.patch}
                /\ \A l \in {slots.discovery, slots.patch} \ {0} :
                      slots.session = s => \E i \in DOMAIN route : route[i] = l
<1>0. adapter \in {"codex", "claude", "stdio"} /\ 1 \in Lanes /\ 2 \in Lanes /\ 0 \notin Lanes
      /\ slots.discovery \in Lanes \cup {0} /\ slots.patch \in Lanes \cup {0}
  BY BackendsAssumption DEF Types, Lanes, SlotRecords
<1>1. CASE adapter = "codex"
  <2>1. route = <<1, 2>>
    BY <1>1 DEF CancelRoutes
  <2>2. <<1, 2>> \in Seq(Lanes)
    BY <1>0
  <2> QED
    BY <1>1, <2>1, <2>2
<1>2. CASE adapter = "stdio"
  <2>1. route = <<1>>
    BY <1>2 DEF CancelRoutes
  <2>2. <<1>> \in Seq(Lanes)
    BY <1>0
  <2> QED
    BY <1>2, <2>1, <2>2
<1>3. CASE adapter = "claude" /\ slots.session # s
  <2>1. route = <<>>
    BY <1>3 DEF CancelRoutes
  <2> QED
    BY <1>3, <2>1, EmptySeq
<1>4. CASE adapter = "claude" /\ slots.session = s
  <2> DEFINE d == slots.discovery
             p == slots.patch
  <2>1. route \in {Via(d) \o Via(p), Via(p) \o Via(d)}
    BY <1>4 DEF CancelRoutes
  <2>3. d \in Lanes \cup {0} /\ p \in Lanes \cup {0}
    BY <1>0
  <2> HIDE DEF d, p
  <2>4. /\ route \in Seq(Lanes) /\ \A i \in DOMAIN route : route[i] \in {d, p}
        /\ \A l \in {d, p} \ {0} : \E i \in DOMAIN route : route[i] = l
    BY <2>1, <2>3, ViaRoute
  <2> QED
    BY <1>4, <2>4 DEF d, p
<1> QED
  BY <1>0, <1>1, <1>2, <1>3, <1>4

\* What the engine does with turns, speculations and cancellations.
EngineInOrder ==
    /\ \A t \in DOMAIN turns :
          /\ turns[t].pc \in {"cancelling", "awaiting"} => Main(t)
          /\ turns[t].spec => turns[t].conv = "goal"
          /\ turns[t].conv = "warm" <=> turns[t].session = NoSession
          /\ turns[t].conv = "warm" => adapter = "codex"
          /\ turns[t].awaits \in 0 .. Len(turns)
    /\ \A t, u \in DOMAIN turns : Main(t) /\ Main(u) /\ Live(t) /\ Live(u) => t = u
    /\ \A t, u \in DOMAIN turns : turns[t].spec /\ turns[t].pc = "called" /\ Main(u) => ~Live(u)
    /\ \A t \in DOMAIN turns : Main(t) /\ Live(t) /\ ~turns[t].aborted => ~Active(0)
    /\ \A t \in DOMAIN turns : turns[t].spec /\ turns[t].pc = "called" /\ ~turns[t].aborted =>
          /\ spec[turns[t].session] = t
          /\ \A c \in Cancellers : Active(c) => cancels[c].session # turns[t].session
    /\ \A s \in Sessions : spec[s] # 0 =>
          /\ spec[s] \in DOMAIN turns /\ turns[spec[s]].spec
          /\ turns[spec[s]].session = s /\ ~turns[spec[s]].aborted

\* A call adds turns of new, and aborts turn a unless it is 0.
Calling(a, new) ==
    /\ a \in DOMAIN turns \cup {0} /\ AbortsOne(a) /\ Adds(new)
    /\ a = 0 => cancels' = cancels
    /\ a # 0 =>
         /\ Live(a) /\ cancels[0].step = "idle"
         /\ \E c \in Cancellers :
               /\ Starts0(c, turns[a].session)
               /\ c # 0 => c \in new /\ turns'[c].pc = "cancelling"
                                     /\ turns'[c].session = turns[a].session
         \* Nobody else cancels, or is on the way to a lane.
         /\ \A c \in Cancellers : Active(c) => c = a
         /\ turns[a].spec => spec[turns[a].session] = a /\ \A o \in Asked : ~Live(o)
         /\ ~turns[a].spec => Main(a) /\ ~turns[a].aborted
    /\ UNCHANGED <<adapter, lanes, slots, faults>>

LEMMA NewTurnType ==
    ASSUME NEW s \in SessionNames, NEW conv \in Convs, NEW ctx \in Prints, NEW isSpec \in BOOLEAN
    PROVE  LET r == NewTurn(s, conv, ctx, isSpec) IN
           /\ r \in TurnRecords
           /\ r.session = s /\ r.conv = conv /\ r.ctx = ctx /\ r.spec = isSpec
           /\ r.pc = "called" /\ r.lane = 0 /\ r.attempt = 1 /\ r.aborted = FALSE
           /\ r.awaits = 0 /\ r.answer = NoRun
<1>1. MaxTurns \in Nat
  BY BackendsAssumption DEF MaxTurns
<1> QED
  BY <1>1, NoRunIsARun DEF NewTurn, TurnRecords, Pcs

\* One more turn.
LEMMA AddedTurn ==
    ASSUME Types, Counted, NEW r \in TurnRecords, r.awaits \in 0 .. Len(turns),
           r.lane = 0, r.attempt = 1, ~r.aborted, r.answer = NoRun,
           r.pc \in {"called", "cancelling", "awaiting"},
           NEW ts \in Seq(TurnRecords), Len(ts) = Len(turns),
           NEW a \in DOMAIN turns \cup {0},
           \A t \in DOMAIN turns :
              ts[t] = IF t = a THEN Marked(turns[t]) ELSE turns[t],
           turns' = Append(ts, r),
           r.spec => Cardinality(DOMAIN turns \ Asked) < MaxSpeculations,
           ~r.spec => Cardinality(Asked) < MaxAsks
    PROVE  /\ turns' \in Seq(TurnRecords) /\ Len(turns') <= MaxTurns /\ Counted'
           /\ AbortsOne(a) /\ Adds({Len(turns) + 1})
           /\ Len(turns') = Len(turns) + 1 /\ Len(turns) + 1 \in Cancellers
           /\ Len(turns) < MaxTurns
<1> DEFINE n == Len(turns)
           D == DOMAIN turns
<1>1. /\ turns' \in Seq(TurnRecords) /\ n \in Nat /\ Len(turns') = n + 1
      /\ D = 1 .. n /\ DOMAIN turns' = 1 .. n + 1 /\ turns'[n + 1] = r
      /\ \A t \in D : turns'[t] = ts[t]
  <2>1. turns \in Seq(TurnRecords)
    BY DEF Types
  <2>2. DOMAIN turns = 1 .. Len(turns) /\ Len(turns) \in Nat
    BY <2>1, LenProperties
  <2> QED
    BY <2>1, <2>2, AppendedProperties, LenProperties
<1>2. DOMAIN turns' = D \cup {n + 1} /\ n + 1 \notin D
  BY <1>1
<1>3. AbortsOne(a)
  BY <1>1 DEF AbortsOne
<1>4. Adds({n + 1})
  BY <1>1, <1>2 DEF Adds
<1>5. \A t \in D : turns[t] \in TurnRecords
  BY TurnIsKnown
<1>6. \A t \in D : turns'[t].spec = turns[t].spec
  BY <1>3, <1>5, ZenonT(30) DEF AbortsOne, Marked, TurnRecords
<1>7. IsFiniteSet(D) /\ Cardinality(D) = n
  <2>1. IsFiniteSet(1 .. n) /\ Cardinality(1 .. n) = n
    <3>1. n \in Nat /\ n \in Int /\ 1 \in Int
      BY <1>1
    <3> HIDE DEF n
    <3>2. IsFiniteSet(1 .. n) /\ Cardinality(1 .. n) = IF 1 > n THEN 0 ELSE n - 1 + 1
      BY <3>1, FS_Interval
    <3> QED
      BY <3>1, <3>2
  <2> QED
    BY <1>1, <2>1
<1> DEFINE rest == D \ Asked
<1>11. Cardinality(Asked) <= MaxAsks /\ Cardinality(rest) <= MaxSpeculations
  BY DEF Counted
<1>12. IF r.spec THEN Cardinality(rest) < MaxSpeculations ELSE Cardinality(Asked) < MaxAsks
  OBVIOUS
<1>13. MaxAsks \in Nat /\ MaxSpeculations \in Nat /\ MaxTurns = MaxAsks + MaxSpeculations
  BY BackendsAssumption DEF MaxTurns
<1>8. /\ IsFiniteSet(Asked) /\ IsFiniteSet(rest) /\ Cardinality(Asked) \in Nat
      /\ Cardinality(rest) \in Nat /\ Cardinality(Asked) + Cardinality(rest) = n
  <2>1. Asked \subseteq D /\ D \cap Asked = Asked
    BY DEF Asked
  <2>2. IsFiniteSet(Asked) /\ IsFiniteSet(rest)
        /\ Cardinality(rest) = Cardinality(D) - Cardinality(D \cap Asked)
    BY <1>7, <2>1, FS_Subset, FS_Difference
  <2>3. Cardinality(Asked) \in Nat /\ Cardinality(rest) \in Nat
    BY <2>2, FS_CardinalityType
  <2>4. Cardinality(rest) = n - Cardinality(Asked)
    BY <1>7, <2>1, <2>2
  <2> QED
    BY <1>1, <2>2, <2>3, <2>4
<1>9. CASE r.spec
  <2>1. Asked' = Asked /\ (DOMAIN turns \ Asked)' = rest \cup {n + 1}
    BY <1>1, <1>2, <1>6, <1>9 DEF Asked, Ordinary
  <2> HIDE DEF rest
  <2>2. Cardinality(rest \cup {n + 1}) = Cardinality(rest) + 1
    <3>1. n + 1 \notin rest
      BY <1>2 DEF rest
    <3> QED
      BY <1>8, <3>1, FS_AddElement
  <2>3. Cardinality(Asked') <= MaxAsks /\ Cardinality((DOMAIN turns \ Asked)') <= MaxSpeculations
    <3>1. Cardinality(Asked) <= MaxAsks /\ Cardinality(rest \cup {n + 1}) <= MaxSpeculations
      BY <1>8, <1>9, <1>11, <1>12, <1>13, <2>2
    <3> QED
      BY <2>1, <3>1
  <2>4. n + 1 <= MaxTurns /\ n < MaxTurns
    <3> HIDE DEF n
    <3> QED
      BY <1>1, <1>8, <1>9, <1>11, <1>12, <1>13
  <2> QED
    BY <1>1, <1>3, <1>4, <1>13, <2>3, <2>4 DEF Cancellers, Counted
<1>10. CASE ~r.spec
  <2>1. Asked' = Asked \cup {n + 1} /\ (DOMAIN turns \ Asked)' = rest
    BY <1>1, <1>2, <1>6, <1>10 DEF Asked, Ordinary
  <2> HIDE DEF rest
  <2>2. Cardinality(Asked \cup {n + 1}) = Cardinality(Asked) + 1
    <3>1. n + 1 \notin Asked
      BY <1>2 DEF Asked
    <3> QED
      BY <1>8, <3>1, FS_AddElement
  <2>3. Cardinality(Asked') <= MaxAsks /\ Cardinality((DOMAIN turns \ Asked)') <= MaxSpeculations
    <3>1. Cardinality(Asked \cup {n + 1}) <= MaxAsks /\ Cardinality(rest) <= MaxSpeculations
      BY <1>8, <1>10, <1>11, <1>12, <1>13, <2>2
    <3> QED
      BY <2>1, <3>1
  <2>4. n + 1 <= MaxTurns /\ n < MaxTurns
    <3> HIDE DEF n
    <3> QED
      BY <1>1, <1>8, <1>10, <1>11, <1>12, <1>13
  <2> QED
    BY <1>1, <1>3, <1>4, <1>13, <2>3, <2>4 DEF Cancellers, Counted
<1> QED
  BY <1>9, <1>10

\* The same turns; one of them may have changed.
LEMMA ChangedTurn ==
    ASSUME Types, Counted, NEW t \in DOMAIN turns, NEW r \in TurnRecords,
           r.spec = turns[t].spec, turns' = [turns EXCEPT ![t] = r]
    PROVE  /\ turns' \in Seq(TurnRecords) /\ Len(turns') = Len(turns) /\ Len(turns') <= MaxTurns
           /\ DOMAIN turns' = DOMAIN turns /\ turns'[t] = r
           /\ \A u \in DOMAIN turns : u # t => turns'[u] = turns[u]
           /\ Counted'
<1>0. turns \in Seq(TurnRecords) /\ Len(turns) <= MaxTurns
  BY DEF Types
<1>1. Len(turns) \in Nat /\ DOMAIN turns = 1 .. Len(turns)
  BY <1>0, LenProperties
<1>2. /\ turns' \in Seq(TurnRecords) /\ Len(turns') = Len(turns)
      /\ \A u \in 1 .. Len(turns) : turns'[u] = IF u = t THEN r ELSE turns[u]
  BY <1>0, <1>1, ExceptSeq
<1>3. DOMAIN turns' = DOMAIN turns
  BY <1>1, <1>2, LenProperties
<1>4. Asked' = Asked
  BY <1>1, <1>2, <1>3 DEF Asked, Ordinary
<1> QED
  BY <1>0, <1>1, <1>2, <1>3, <1>4 DEF Counted

LEMMA SameTurnsCounted ==
    ASSUME Counted, turns' = turns
    PROVE  Counted'
BY DEF Counted, Asked, Ordinary

\* Without a turn under way there is no cancellation but the main loop's.
LEMMA NobodyCancels ==
    ASSUME Types, Places, EngineInOrder, cancels[0].step = "idle"
    PROVE  /\ \A c \in Cancellers : Active(c) =>
                 c \in DOMAIN turns /\ Main(c) /\ Live(c) /\ c \in Asked /\ turns[c].pc = "cancelling"
           /\ (\A o \in Asked : ~Live(o)) => \A c \in Cancellers : ~Active(c)
           /\ \A c \in Cancellers : c \notin DOMAIN turns => cancels[c].step = "idle"
<1>1. ASSUME NEW c \in Cancellers, Active(c)
      PROVE  c \in DOMAIN turns /\ Main(c) /\ Live(c) /\ c \in Asked /\ turns[c].pc = "cancelling"
  <2>1. c # 0
    BY <1>1 DEF Active
  <2>2. c \in DOMAIN turns /\ turns[c].pc = "cancelling"
    BY <1>1, <2>1 DEF Places, CancelsInOrder
  <2>3. Main(c) /\ Live(c)
    BY <2>2 DEF EngineInOrder, Live, Ended
  <2> QED
    BY <2>2, <2>3 DEF Main, Asked
<1> QED
  BY <1>1 DEF Active

\* Turn a is marked.
LEMMA AbortedTurn ==
    ASSUME Types, NEW a \in DOMAIN turns
    PROVE  /\ Aborted(turns, a) \in Seq(TurnRecords) /\ Len(Aborted(turns, a)) = Len(turns)
           /\ Marked(turns[a]) \in TurnRecords
           /\ \A t \in DOMAIN turns : Aborted(turns, a)[t] =
                 IF t = a THEN Marked(turns[t]) ELSE turns[t]
<1>1. turns \in Seq(TurnRecords) /\ a \in 1 .. Len(turns) /\ turns[a] \in TurnRecords
  BY TurnIsKnown DEF Types
<1>2. [turns[a] EXCEPT !.aborted = TRUE] \in TurnRecords
  BY <1>1 DEF TurnRecords
<1> DEFINE r == [turns[a] EXCEPT !.aborted = TRUE]
<1>3. Aborted(turns, a) = [turns EXCEPT ![a] = r]
  BY DEF Aborted
<1> HIDE DEF r
<1>4. DOMAIN turns = 1 .. Len(turns)
  BY <1>1, LenProperties
<1>5. /\ [turns EXCEPT ![a] = r] \in Seq(TurnRecords)
      /\ Len([turns EXCEPT ![a] = r]) = Len(turns)
      /\ \A j \in 1 .. Len(turns) : [turns EXCEPT ![a] = r][j] = IF j = a THEN r ELSE turns[j]
  BY <1>1, <1>2, ExceptSeq DEF r
<1> QED
  BY <1>2, <1>3, <1>4, <1>5 DEF r, Marked

LEMMA CancellingSteps ==
    ASSUME Types, NEW c \in Cancellers, NEW s \in SessionNames,
           cancels[c].step = "idle", Cancelling(c, s)
    PROVE  Starts0(c, s) /\ cancels' \in [Cancellers -> CancelRecords]
<1>1. PICK route \in CancelRoutes(s) :
         cancels' = [cancels EXCEPT ![c] = [step |-> "next", session |-> s, left |-> route]]
  BY DEF Cancelling
<1>2. route \in Seq(Lanes)
  BY RouteTypes
<1>3. [step |-> "next", session |-> s, left |-> route] \in CancelRecords
  BY <1>2 DEF CancelRecords
<1> QED
  BY <1>1, <1>3 DEF Starts0, Types

\* The turn a new request finds before it, and what becomes of it.
LEMMA AskSteps ==
    ASSUME Types, Counted, Places, EngineInOrder,
           NEW s \in Sessions, NEW conv \in Conversations, NEW ctx \in Contexts, Ask(s, conv, ctx)
    PROVE  /\ Types' /\ Counted'
           /\ \E a : Calling(a, {Len(turns) + 1}) /\ (a # 0 => a = spec[s] /\ spec'[s] = 0)
           /\ Len(turns') = Len(turns) + 1
           /\ LET r == turns'[Len(turns) + 1] IN
              /\ r.session = s /\ r.conv = conv /\ ~r.spec
              /\ r.awaits \in 0 .. Len(turns) /\ r.pc \in {"called", "cancelling", "awaiting"}
           /\ \A x \in Sessions : spec'[x] = spec[x] \/ (x = s /\ spec'[x] = 0)
           /\ \A c \in Cancellers : ~Active(c)
           /\ \A t \in DOMAIN turns : Main(t) => ~Live(t)
           /\ \A t \in DOMAIN turns : turns[t].pc # "called"
<1> DEFINE n == Len(turns)
           turn == NewTurn(s, conv, ctx, FALSE)
           old == spec[s]
<1>0. /\ s \in SessionNames /\ conv \in Convs /\ ctx \in Prints /\ conv # "warm"
      /\ spec \in [Sessions -> 0 .. MaxTurns] /\ old \in 0 .. MaxTurns
      /\ cancels \in [Cancellers -> CancelRecords] /\ cancels[0].step = "idle"
  BY DEF SessionNames, Conversations, Convs, Prints, Types, Ask, MainIsIdle
<1>2. /\ n \in Nat /\ turns \in Seq(TurnRecords) /\ DOMAIN turns = 1 .. n
      /\ n <= MaxTurns /\ MaxTurns \in Nat
  <2>1. turns \in Seq(TurnRecords) /\ Len(turns) <= MaxTurns
    BY DEF Types
  <2>2. Len(turns) \in Nat /\ DOMAIN turns = 1 .. Len(turns)
    BY <2>1, LenProperties
  <2>3. MaxTurns \in Nat
    BY BackendsAssumption DEF MaxTurns
  <2> QED
    BY <2>1, <2>2, <2>3
<1>1. /\ turn \in TurnRecords /\ turn.session = s /\ turn.conv = conv /\ turn.spec = FALSE
      /\ turn.pc = "called" /\ turn.lane = 0 /\ turn.attempt = 1 /\ turn.aborted = FALSE
      /\ turn.awaits = 0 /\ turn.answer = NoRun
  BY <1>0, <1>2, NoRunIsARun DEF NewTurn, TurnRecords, Pcs
<1>3. /\ \A o \in Asked : ~Live(o)
      /\ \A c \in Cancellers : ~Active(c)
      /\ \A c \in Cancellers : c \notin DOMAIN turns => cancels[c].step = "idle"
      /\ Cardinality(Asked) < MaxAsks
      /\ UNCHANGED <<adapter, lanes, slots, faults>>
  BY <1>0, NobodyCancels DEF Ask
<1>4. old # 0 => old \in DOMAIN turns /\ turns[old].spec /\ turns[old].session = s
  BY DEF EngineInOrder
<1> DEFINE Done ==
             /\ Types' /\ Counted'
             /\ \E a : Calling(a, {Len(turns) + 1}) /\ (a # 0 => a = spec[s] /\ spec'[s] = 0)
             /\ Len(turns') = Len(turns) + 1
             /\ LET r == turns'[Len(turns) + 1] IN
                /\ r.session = s /\ r.conv = conv /\ ~r.spec
                /\ r.awaits \in 0 .. Len(turns) /\ r.pc \in {"called", "cancelling", "awaiting"}
             /\ \A x \in Sessions : spec'[x] = spec[x] \/ (x = s /\ spec'[x] = 0)
<1>12. /\ \A t \in DOMAIN turns : Main(t) => ~Live(t)
       /\ \A t \in DOMAIN turns : turns[t].pc # "called"
  BY <1>3 DEF Main, Asked, Ask
<1> SUFFICES Done
  BY <1>3, <1>12 DEF Done
<1> HIDE DEF turn
<1>5. ASSUME NEW r \in TurnRecords, r.session = s, r.conv = conv, ~r.spec,
             r.awaits \in 0 .. n, r.lane = 0, r.attempt = 1, ~r.aborted, r.answer = NoRun,
             r.pc \in {"called", "cancelling", "awaiting"},
             NEW a \in DOMAIN turns \cup {0}, NEW ts \in Seq(TurnRecords), Len(ts) = n,
             \A t \in DOMAIN turns :
                ts[t] = IF t = a THEN Marked(turns[t]) ELSE turns[t],
             turns' = Append(ts, r),
             a = 0 => cancels' = cancels,
             a # 0 => /\ a = old /\ Live(a) /\ r.pc = "cancelling"
                      /\ Cancelling(n + 1, s) /\ spec' = [spec EXCEPT ![s] = 0],
             spec' = spec \/ spec' = [spec EXCEPT ![s] = 0]
      PROVE  Done
  <2>1. /\ turns' \in Seq(TurnRecords) /\ Len(turns') <= MaxTurns /\ Counted'
        /\ AbortsOne(a) /\ Adds({n + 1}) /\ turns'[n + 1] = r
        /\ Len(turns') = n + 1 /\ n + 1 \in Cancellers
    <3>1. /\ r.spec => Cardinality(DOMAIN turns \ Asked) < MaxSpeculations
          /\ ~r.spec => Cardinality(Asked) < MaxAsks
      BY <1>3, <1>5
    <3>2. /\ r.awaits \in 0 .. Len(turns) /\ r.lane = 0 /\ r.attempt = 1 /\ ~r.aborted
          /\ r.answer = NoRun /\ r.pc \in {"called", "cancelling", "awaiting"}
          /\ Len(ts) = Len(turns) /\ turns' = Append(ts, r)
          /\ \A t \in DOMAIN turns :
                ts[t] = IF t = a THEN Marked(turns[t]) ELSE turns[t]
      BY <1>5
    <3>3. turns'[n + 1] = r
      BY <1>5, AppendProperties
    <3>4. /\ turns' \in Seq(TurnRecords) /\ Len(turns') <= MaxTurns /\ Counted'
          /\ AbortsOne(a) /\ Adds({n + 1}) /\ Len(turns') = n + 1 /\ n + 1 \in Cancellers
      BY <3>1, <3>2, AddedTurn
    <3> QED
      BY <3>3, <3>4
  <2>2. spec' \in [Sessions -> 0 .. MaxTurns]
        /\ \A x \in Sessions : spec'[x] = spec[x] \/ (x = s /\ spec'[x] = 0)
    <3>1. CASE spec' = spec
      BY <1>0, <3>1
    <3>2. CASE spec' = [spec EXCEPT ![s] = 0]
      <4>1. 0 \in 0 .. MaxTurns
        BY <1>2
      <4> QED
        BY <1>0, <3>2, <4>1
    <3> QED
      BY <1>5, <3>1, <3>2
  <2>3. CASE a = 0
    <3>1. cancels' \in [Cancellers -> CancelRecords] /\ Calling(a, {n + 1})
      BY <1>0, <1>3, <1>5, <2>1, <2>3 DEF Calling
    <3>2. Types'
      BY <1>3, <2>1, <2>2, <3>1 DEF Types
    <3> QED
      BY <1>5, <2>1, <2>2, <2>3, <3>1, <3>2
  <2>4. CASE a # 0
    <3>1. n + 1 # 0 /\ n + 1 \notin DOMAIN turns /\ cancels[n + 1].step = "idle"
      BY <1>2, <1>3, <2>1
    <3>2. Starts0(n + 1, s) /\ cancels' \in [Cancellers -> CancelRecords]
      BY <1>0, <1>5, <2>1, <2>4, <3>1, CancellingSteps
    <3>3. turns[a].session = s /\ turns[a].spec /\ a = spec[s] /\ Live(a) /\ spec'[s] = 0
      BY <1>0, <1>4, <1>5, <2>4
    <3>4. Calling(a, {n + 1})
      BY <1>0, <1>3, <1>5, <2>1, <2>4, <3>2, <3>3 DEF Calling
    <3>5. Types'
      BY <1>3, <2>1, <2>2, <3>2 DEF Types
    <3> QED
      BY <1>5, <2>1, <2>2, <2>4, <3>3, <3>4, <3>5
  <2> QED
    BY <2>3, <2>4
<1> HIDE DEF Done
<1>11. /\ 0 \in 0 .. n /\ 0 \in DOMAIN turns \cup {0}
       /\ \A t \in DOMAIN turns :
             turns[t] = IF t = 0 THEN Marked(turns[t]) ELSE turns[t]
  BY <1>2
<1>6. CASE turns' = Append(turns, turn) /\ UNCHANGED <<spec, cancels>>
  BY <1>1, <1>2, <1>5, <1>6, <1>11
<1>7. CASE spec' = [spec EXCEPT ![s] = 0] /\ turns' = Append(turns, turn) /\ UNCHANGED cancels
  BY <1>1, <1>2, <1>5, <1>7, <1>11
<1>8. CASE /\ old # 0 /\ Live(old) /\ spec' = [spec EXCEPT ![s] = 0]
           /\ turns' = Append(Aborted(turns, old), [turn EXCEPT !.pc = "cancelling"])
           /\ Cancelling(n + 1, s)
  <2> DEFINE r == [turn EXCEPT !.pc = "cancelling"]
  <2>1. /\ r \in TurnRecords /\ r.session = s /\ r.conv = conv /\ ~r.spec
        /\ r.awaits \in 0 .. n /\ r.lane = 0 /\ r.attempt = 1 /\ ~r.aborted /\ r.answer = NoRun
        /\ r.pc = "cancelling"
    BY <1>1, <1>2 DEF TurnRecords, Pcs
  <2>2. /\ Aborted(turns, old) \in Seq(TurnRecords) /\ Len(Aborted(turns, old)) = n
        /\ \A t \in DOMAIN turns : Aborted(turns, old)[t] =
              IF t = old THEN Marked(turns[t]) ELSE turns[t]
    BY <1>4, <1>8, AbortedTurn
  <2>3. old \in DOMAIN turns \cup {0} /\ turns' = Append(Aborted(turns, old), r)
    BY <1>4, <1>8
  <2> HIDE DEF r
  <2> QED
    BY <1>5, <1>8, <2>1, <2>2, <2>3
<1>9. CASE /\ old # 0 /\ spec' = [spec EXCEPT ![s] = 0]
           /\ turns' = Append(turns, [turn EXCEPT !.pc = "awaiting", !.awaits = old])
           /\ UNCHANGED cancels
  <2> DEFINE r == [turn EXCEPT !.pc = "awaiting", !.awaits = old]
  <2>1. old \in 0 .. n /\ old \in 0 .. MaxTurns
    BY <1>0, <1>2, <1>4, <1>9
  <2>2. /\ r \in TurnRecords /\ r.session = s /\ r.conv = conv /\ ~r.spec
        /\ r.awaits \in 0 .. n /\ r.lane = 0 /\ r.attempt = 1 /\ ~r.aborted /\ r.answer = NoRun
        /\ r.pc = "awaiting"
    BY <1>1, <2>1 DEF TurnRecords, Pcs
  <2>3. turns' = Append(turns, r)
    BY <1>9
  <2> HIDE DEF r
  <2> QED
    BY <1>2, <1>5, <1>9, <1>11, <2>2, <2>3
<1>10. /\ n + 1 = Len(turns) + 1
       /\ \/ turns' = Append(turns, turn) /\ UNCHANGED <<spec, cancels>>
          \/ /\ spec' = [spec EXCEPT ![s] = 0]
             /\ turns' = Append(turns, turn) /\ UNCHANGED cancels
          \/ /\ old # 0 /\ Live(old) /\ spec' = [spec EXCEPT ![s] = 0]
             /\ turns' = Append(Aborted(turns, old), [turn EXCEPT !.pc = "cancelling"])
             /\ Cancelling(n + 1, s)
          \/ /\ old # 0 /\ spec' = [spec EXCEPT ![s] = 0]
             /\ turns' = Append(turns, [turn EXCEPT !.pc = "awaiting", !.awaits = old])
             /\ UNCHANGED cancels
  BY DEF Ask, turn
<1> QED
  BY <1>6, <1>7, <1>8, <1>9, <1>10

\* One more turn, and no other that is aborted.
LEMMA AppendedTurn ==
    ASSUME Types, Counted, NEW r \in TurnRecords, r.awaits = 0,
           r.lane = 0, r.attempt = 1, ~r.aborted, r.answer = NoRun, r.pc = "called",
           turns' = Append(turns, r),
           r.spec => Cardinality(DOMAIN turns \ Asked) < MaxSpeculations,
           ~r.spec => Cardinality(Asked) < MaxAsks
    PROVE  /\ turns' \in Seq(TurnRecords) /\ Len(turns') <= MaxTurns /\ Counted'
           /\ AbortsOne(0) /\ Adds({Len(turns) + 1})
           /\ Len(turns') = Len(turns) + 1 /\ Len(turns) + 1 \in Cancellers
           /\ Len(turns) < MaxTurns
<1>1. turns \in Seq(TurnRecords) /\ 0 \in DOMAIN turns \cup {0}
  BY DEF Types
<1>2. Len(turns) \in Nat /\ DOMAIN turns = 1 .. Len(turns)
  BY <1>1, LenProperties
<1>3. /\ r.awaits \in 0 .. Len(turns) /\ r.pc \in {"called", "cancelling", "awaiting"}
      /\ \A t \in DOMAIN turns : turns[t] = IF t = 0 THEN Marked(turns[t]) ELSE turns[t]
  BY <1>2
<1> QED
  BY <1>1, <1>3, AddedTurn

LEMMA SpeculateSteps ==
    ASSUME Types, Counted, Places, EngineInOrder, NEW s \in Sessions, Speculate(s)
    PROVE  /\ Types' /\ Counted' /\ Calling(0, {Len(turns) + 1})
           /\ Len(turns') = Len(turns) + 1
           /\ LET r == turns'[Len(turns) + 1] IN
              r.session = s /\ r.conv = "goal" /\ r.spec /\ r.awaits = 0 /\ r.pc = "called"
           /\ spec' = [spec EXCEPT ![s] = Len(turns) + 1]
           /\ \A c \in Cancellers : ~Active(c)
           /\ \A t \in DOMAIN turns : Main(t) => ~Live(t)
<1> DEFINE mine == {o \in Asked : turns[o].session = s}
           r == NewTurn(s, "goal", turns[Max(mine)].ctx, TRUE)
           n == Len(turns)
<1>1. turns \in Seq(TurnRecords) /\ n \in Nat /\ DOMAIN turns = 1 .. n /\ n <= MaxTurns
      /\ spec \in [Sessions -> 0 .. MaxTurns] /\ cancels[0].step = "idle"
  BY LenProperties DEF Types, Speculate
<1>2. Max(mine) \in DOMAIN turns
  <2>1. mine # {} /\ mine \subseteq 1 .. n
    BY <1>1 DEF Speculate, Asked
  <2> HIDE DEF mine, n
  <2>2. Max(mine) \in mine
    BY <1>1, <2>1, MaxIsIn
  <2> QED
    BY <1>1, <2>1, <2>2
<1>3. /\ turns' = Append(turns, r) /\ spec' = [spec EXCEPT ![s] = n + 1]
      /\ UNCHANGED <<adapter, lanes, slots, cancels, faults>>
      /\ Cardinality(DOMAIN turns \ Asked) < MaxSpeculations
      /\ \A o \in Asked : turns[o].conv # "warm" => ~Live(o)
  BY DEF Speculate
<1> DEFINE ctx == turns[Max(mine)].ctx
<1>4. ctx \in Prints
  BY <1>2, TurnIsKnown DEF TurnRecords
<1> HIDE DEF ctx
<1>5. /\ r \in TurnRecords /\ r.session = s /\ r.conv = "goal" /\ r.spec = TRUE
      /\ r.pc = "called" /\ r.lane = 0 /\ r.attempt = 1 /\ r.aborted = FALSE
      /\ r.awaits = 0 /\ r.answer = NoRun
  <2>1. MaxTurns \in Nat /\ s \in SessionNames
    BY BackendsAssumption DEF MaxTurns, SessionNames
  <2>2. r = NewTurn(s, "goal", ctx, TRUE)
    BY DEF ctx
  <2> HIDE DEF r
  <2> QED
    BY <1>4, <2>1, <2>2, NoRunIsARun DEF NewTurn, TurnRecords, Pcs, Convs
<1> HIDE DEF r
<1>6. /\ turns' \in Seq(TurnRecords) /\ Len(turns') <= MaxTurns /\ Counted'
      /\ AbortsOne(0) /\ Adds({n + 1}) /\ Len(turns') = n + 1 /\ n + 1 \in Cancellers
      /\ n < MaxTurns
  BY <1>3, <1>5, AppendedTurn
<1>7. turns'[n + 1] = r
  BY <1>1, <1>3, <1>5, AppendProperties
<1>8. Calling(0, {n + 1})
  BY <1>3, <1>6 DEF Calling
<1>9. spec' \in [Sessions -> 0 .. MaxTurns]
  <2>1. n + 1 \in 0 .. MaxTurns
    BY <1>1, <1>6, BackendsAssumption DEF MaxTurns
  <2> QED
    BY <1>1, <1>3, <2>1
<1>10. Types'
  BY <1>3, <1>6, <1>9 DEF Types
<1>11. \A t \in DOMAIN turns : Main(t) => ~Live(t)
  BY <1>3 DEF Main, Asked
<1>12. \A c \in Cancellers : ~Active(c)
  BY <1>1, <1>11, NobodyCancels
<1> QED
  BY <1>3, <1>5, <1>6, <1>7, <1>8, <1>10, <1>11, <1>12

LEMMA AbortPendingSteps ==
    ASSUME Types, Counted, Places, EngineInOrder, NEW t \in DOMAIN turns, AbortPending(t)
    PROVE  /\ Types' /\ Counted' /\ Calling(t, {}) /\ Len(turns') = Len(turns)
           /\ Main(t) /\ Live(t) /\ ~turns[t].aborted
           /\ Starts0(0, turns[t].session) /\ spec' = spec
<1>1. /\ turns' = Aborted(turns, t) /\ Cancelling(0, turns[t].session)
      /\ MainIsIdle /\ Live(t) /\ Ordinary(t) /\ ~turns[t].aborted
      /\ UNCHANGED <<adapter, lanes, slots, spec, faults>> /\ cancels[0].step = "idle"
      /\ turns[t] \in TurnRecords
  BY TurnIsKnown DEF AbortPending, MainIsIdle
<1>2. Main(t)
  BY <1>1 DEF MainIsIdle, Main
<1>3. /\ turns' \in Seq(TurnRecords) /\ Len(turns') = Len(turns)
      /\ Marked(turns[t]) \in TurnRecords
      /\ \A u \in DOMAIN turns : turns'[u] = IF u = t THEN Marked(turns[u]) ELSE turns[u]
  BY <1>1, AbortedTurn
<1>4. /\ DOMAIN turns' = DOMAIN turns /\ Len(turns') <= MaxTurns /\ AbortsOne(t) /\ Adds({})
  BY <1>3, LenProperties DEF Types, AbortsOne, Adds
<1>5. Counted'
  <2>1. \A u \in DOMAIN turns : turns'[u].spec = turns[u].spec
    BY <1>1, <1>3, TurnIsKnown DEF Marked, TurnRecords
  <2>2. Asked' = Asked
    BY <1>4, <2>1 DEF Asked, Ordinary
  <2> QED
    BY <1>4, <2>2 DEF Counted
<1>6. 0 \in Cancellers /\ turns[t].session \in SessionNames
  BY <1>1, BackendsAssumption DEF Cancellers, MaxTurns, TurnRecords
<1>7. Starts0(0, turns[t].session) /\ cancels' \in [Cancellers -> CancelRecords]
  BY <1>1, <1>6, CancellingSteps
<1>8. ASSUME NEW c \in Cancellers, Active(c)
      PROVE  c = t
  <2>1. c \in DOMAIN turns /\ Main(c) /\ Live(c)
    BY <1>1, <1>8, NobodyCancels
  <2> QED
    BY <1>1, <1>2, <2>1 DEF EngineInOrder
<1>9. ~turns[t].spec /\ t # 0
  BY <1>1, TurnIsKnown DEF Ordinary
<1>10. Calling(t, {})
  BY <1>1, <1>2, <1>4, <1>6, <1>7, <1>8, <1>9 DEF Calling
<1>11. Types'
  BY <1>1, <1>3, <1>4, <1>7 DEF Types
<1> QED
  BY <1>1, <1>2, <1>3, <1>5, <1>7, <1>10, <1>11

LEMMA CancelSpeculationSteps ==
    ASSUME Types, Counted, Places, EngineInOrder, NEW s \in Sessions, CancelSpeculation(s)
    PROVE  /\ Types' /\ Counted' /\ Len(turns') = Len(turns)
           /\ Calling(IF Live(spec[s]) THEN spec[s] ELSE 0, {})
           /\ Live(spec[s]) => Starts0(0, s)
           /\ spec' = [spec EXCEPT ![s] = 0] /\ spec[s] # 0
           /\ \A o \in Asked : ~Live(o)
<1> DEFINE a == spec[s]
<1>1. /\ a \in DOMAIN turns /\ turns[a].spec /\ turns[a].session = s /\ ~turns[a].aborted
      /\ a # 0 /\ spec' = [spec EXCEPT ![s] = 0] /\ UNCHANGED <<adapter, lanes, slots, faults>>
      /\ spec \in [Sessions -> 0 .. MaxTurns] /\ cancels[0].step = "idle"
      /\ \A o \in Asked : ~Live(o)
  BY DEF CancelSpeculation, EngineInOrder, Types, MainIsIdle
<1>2. spec' \in [Sessions -> 0 .. MaxTurns]
  <2>1. 0 \in 0 .. MaxTurns
    BY BackendsAssumption DEF MaxTurns
  <2> QED
    BY <1>1, <2>1
<1>3. CASE ~Live(a)
  <2>1. turns' = turns /\ cancels' = cancels
    BY <1>3 DEF CancelSpeculation
  <2>2. Types' /\ Counted'
    BY <1>1, <1>2, <2>1, SameTurnsCounted DEF Types
  <2>3. \A t \in DOMAIN turns : t # 0
    BY TurnIsKnown
  <2>4. Calling(0, {})
    BY <1>1, <2>1, <2>3 DEF Calling, AbortsOne, Adds
  <2> QED
    BY <1>1, <1>3, <2>1, <2>2, <2>4
<1>4. CASE Live(a)
  <2>0. turns' = Aborted(turns, a) /\ Cancelling(0, s)
    BY <1>4 DEF CancelSpeculation
  <2> HIDE DEF a
  <2>1. /\ turns' \in Seq(TurnRecords) /\ Len(turns') = Len(turns)
        /\ \A u \in DOMAIN turns : turns'[u] = IF u = a THEN Marked(turns[u]) ELSE turns[u]
    BY <1>1, <2>0, AbortedTurn
  <2>2. /\ DOMAIN turns' = DOMAIN turns /\ Len(turns') <= MaxTurns /\ AbortsOne(a) /\ Adds({})
    BY <2>1, LenProperties DEF Types, AbortsOne, Adds
  <2>3. Counted'
    <3>1. \A u \in DOMAIN turns : turns'[u].spec = turns[u].spec
      BY <2>1, TurnIsKnown, ZenonT(30) DEF Marked, TurnRecords
    <3>2. Asked' = Asked
      BY <2>2, <3>1 DEF Asked, Ordinary
    <3> QED
      BY <2>2, <3>2 DEF Counted
  <2>4. 0 \in Cancellers /\ s \in SessionNames
    BY BackendsAssumption DEF Cancellers, MaxTurns, SessionNames
  <2>5. Starts0(0, s) /\ cancels' \in [Cancellers -> CancelRecords]
    BY <1>1, <2>0, <2>4, CancellingSteps
  <2>6. \A c \in Cancellers : ~Active(c)
    BY <1>1, NobodyCancels
  <2>7. Calling(a, {})
    BY <1>1, <1>4, <2>2, <2>4, <2>5, <2>6 DEF Calling, a
  <2>8. Types'
    BY <1>1, <1>2, <2>1, <2>2, <2>5 DEF Types
  <2> QED
    BY <1>1, <1>4, <2>1, <2>3, <2>5, <2>7, <2>8 DEF a
<1> QED
  BY <1>3, <1>4

-----------------------------------------------------------------------------
(***************************************************************************)
(* The agents                                                              *)
(***************************************************************************)
\* What a step of an agent leaves alone.
SamePlace(K, L) ==
    /\ K.queue = L.queue /\ K.spawned = L.spawned
    /\ K.threads = L.threads /\ K.prints = L.prints /\ K.active = L.active

Answered(K, L) ==
    LET r == Head(L.wire) IN
    /\ L.up /\ K.up /\ L.wire # <<>> /\ r.do \in {"initialize", "models", "thread"}
    /\ K.wire = Tail(L.wire) /\ K.events = Append(L.events, Response(r, TRUE))
    /\ K.running = L.running /\ K.known = L.known /\ K.users = L.users

TakesTurn(K, L) ==
    LET r == Head(L.wire) IN
    /\ L.up /\ K.up /\ L.wire # <<>> /\ r.do = "start"
    /\ K.wire = Tail(L.wire) /\ K.running = Append(L.running, r.run)
    /\ K.users = L.users \cup {<<r.thread, r.session>>}
    /\ K.known = IF r.omits THEN L.known ELSE Told(L.known, r.thread, r.ctx)
    /\ K.events = IF adapter = "codex" THEN Append(L.events, Response(r, TRUE)) ELSE L.events

Refuses(K, L) ==
    LET r == Head(L.wire) IN
    /\ L.up /\ K.up /\ L.wire # <<>> /\ r.do = "start" /\ adapter = "codex"
    /\ K.wire = Tail(L.wire) /\ K.events = Append(L.events, Response(r, FALSE))
    /\ K.known = Told(L.known, r.thread, "refused")
    /\ K.running = L.running /\ K.users = L.users

IsInterrupted(K, L) ==
    LET r == Head(L.wire) IN
    /\ L.up /\ K.up /\ L.wire # <<>> /\ r.do = "interrupt"
    /\ K.wire = Tail(L.wire) /\ K.known = L.known /\ K.users = L.users
    /\ \/ /\ \E i \in DOMAIN L.running : L.running[i] = r.run
          /\ K.running = Without(L.running, r.run)
          /\ K.events = Append(Append(L.events, Completed(r.run, FALSE)), Response(r, TRUE))
       \/ /\ \A i \in DOMAIN L.running : L.running[i] # r.run
          /\ K.running = L.running
          /\ \E ok \in BOOLEAN : K.events = Append(L.events, Response(r, ok))

Finishes(K, L) ==
    \E run \in Runs, ok \in BOOLEAN :
        /\ \E i \in DOMAIN L.running : L.running[i] = run
        /\ adapter = "codex" \/ run = Head(L.running)
        /\ K.running = Without(L.running, run) /\ K.events = Append(L.events, Completed(run, ok))
        /\ K.up = L.up /\ K.wire = L.wire /\ K.known = L.known /\ K.users = L.users

Crashes(K, L) ==
    /\ ~K.up /\ K.running = <<>> /\ K.wire = <<>>
    /\ K.events = L.events /\ K.known = L.known /\ K.users = L.users

GarbledEvent == [is |-> "garbled", do |-> "none", run |-> NoRun, ok |-> FALSE]
Garbles(K, L) ==
    /\ L.up /\ K.up /\ K.events = Append(L.events, GarbledEvent)
    /\ K.wire = L.wire /\ K.running = L.running /\ K.known = L.known /\ K.users = L.users

AgentSteps(K, L) ==
    /\ SamePlace(K, L)
    /\ \/ Answered(K, L) \/ TakesTurn(K, L) \/ Refuses(K, L) \/ IsInterrupted(K, L)
       \/ Finishes(K, L) \/ Crashes(K, L) \/ Garbles(K, L)

LEMMA ResponseTypes ==
    /\ \A r \in Requests, ok \in BOOLEAN : Response(r, ok) \in Events
    /\ \A run \in Runs, ok \in BOOLEAN : Completed(run, ok) \in Events
    /\ GarbledEvent \in Events
BY NoRunIsARun DEF Requests, Events, Response, Completed, GarbledEvent

\* The messages of an agent come after what is not yet read.
LEMMA AddedEvents ==
    ASSUME NEW s \in Seq(Events), NEW a \in Events, NEW b \in Events
    PROVE  s \o <<>> = s /\ s \o <<a>> = Append(s, a) /\ s \o <<a, b>> = Append(Append(s, a), b)
<1>1. s \o <<>> = s
  BY ConcatEmptySeq
<1>2. s \o <<a>> = Append(s, a)
  OBVIOUS
<1>3. s \o <<a, b>> = Append(Append(s, a), b)
  OBVIOUS
<1> QED
  BY <1>1, <1>2, <1>3

LEMMA AgentTakesSteps ==
    ASSUME Types, NEW l \in Lanes, AgentTakes(l)
    PROVE  /\ lanes'[l] \in LaneRecords /\ AgentSteps(lanes'[l], lanes[l])
           /\ \E K \in LaneRecords : lanes' = [lanes EXCEPT ![l] = K]
           /\ UNCHANGED <<adapter, turns, slots, cancels, spec>> /\ faults' \in Nat
<1> DEFINE L == lanes[l]
           r == Head(L.wire)
           T == [L EXCEPT !.wire = Tail(@)]
<1>1. /\ L \in LaneRecords /\ lanes \in [Lanes -> LaneRecords] /\ L.up /\ L.wire # <<>>
      /\ L.wire \in Seq(Requests) /\ L.events \in Seq(Events) /\ L.running \in Seq(Runs)
      /\ faults \in Nat /\ UNCHANGED <<adapter, turns, slots, cancels, spec>>
  BY DEF Types, AgentTakes, LaneRecords
<1>2. r \in Requests /\ Tail(L.wire) \in Seq(Requests)
  BY <1>1, TailProperties
<1>3. /\ T \in LaneRecords /\ T.wire = Tail(L.wire) /\ T.events = L.events
      /\ T.running = L.running /\ T.known = L.known /\ T.users = L.users /\ T.up = L.up
      /\ SamePlace(T, L)
  BY <1>1, <1>2 DEF LaneRecords, SamePlace
<1> HIDE DEF T
<1>4. ASSUME NEW B \in LaneRecords, SamePlace(B, L), B.events = L.events,
             NEW m, L.events \o m \in Seq(Events),
             lanes' = [lanes EXCEPT ![l] = [B EXCEPT !.events = @ \o m]]
      PROVE  /\ lanes'[l] \in LaneRecords /\ SamePlace(lanes'[l], L)
             /\ lanes'[l].events = L.events \o m /\ lanes'[l].wire = B.wire
             /\ lanes'[l].running = B.running /\ lanes'[l].known = B.known
             /\ lanes'[l].users = B.users /\ lanes'[l].up = B.up
             /\ \E K \in LaneRecords : lanes' = [lanes EXCEPT ![l] = K]
  <2> DEFINE K == [B EXCEPT !.events = @ \o m]
  <2>1. /\ K \in LaneRecords /\ SamePlace(K, L) /\ K.events = L.events \o m /\ K.wire = B.wire
        /\ K.running = B.running /\ K.known = B.known /\ K.users = B.users /\ K.up = B.up
    BY <1>4 DEF LaneRecords, SamePlace
  <2>2. lanes' = [lanes EXCEPT ![l] = K]
    BY <1>4
  <2> HIDE DEF K
  <2>3. lanes'[l] = K
    BY <1>1, <2>2
  <2> QED
    BY <2>1, <2>2, <2>3
<1>5. ASSUME NEW a \in Events, NEW b \in Events
      PROVE  /\ L.events \o <<a>> = Append(L.events, a) /\ Append(L.events, a) \in Seq(Events)
             /\ L.events \o <<a, b>> = Append(Append(L.events, a), b)
             /\ Append(Append(L.events, a), b) \in Seq(Events)
             /\ L.events \o <<>> = L.events
  BY <1>1, AddedEvents, AppendProperties
<1>6. \A ok \in BOOLEAN : Response(r, ok) \in Events /\ Completed(r.run, ok) \in Events
  BY <1>2, ResponseTypes DEF Requests
<1>7. CASE /\ r.do \in {"initialize", "models", "thread"}
           /\ lanes' = [lanes EXCEPT ![l] = [T EXCEPT !.events = @ \o <<Response(r, TRUE)>>]]
           /\ UNCHANGED faults
  <2>1. Response(r, TRUE) \in Events
    BY <1>6
  <2> HIDE DEF r, L
  <2> DEFINE m == <<Response(r, TRUE)>>
  <2>2. L.events \o m = Append(L.events, Response(r, TRUE)) /\ L.events \o m \in Seq(Events)
    BY <1>5, <2>1
  <2> HIDE DEF m
  <2>3. lanes' = [lanes EXCEPT ![l] = [T EXCEPT !.events = @ \o m]]
    BY <1>7 DEF m
  <2>4. /\ lanes'[l] \in LaneRecords /\ SamePlace(lanes'[l], L)
        /\ lanes'[l].events = L.events \o m /\ lanes'[l].wire = T.wire
        /\ lanes'[l].running = T.running /\ lanes'[l].known = T.known
        /\ lanes'[l].users = T.users /\ lanes'[l].up = T.up
        /\ \E K \in LaneRecords : lanes' = [lanes EXCEPT ![l] = K]
    BY <1>3, <1>4, <2>2, <2>3
  <2>5. Answered(lanes'[l], L)
    BY <1>1, <1>3, <1>7, <2>2, <2>4 DEF Answered, r
  <2> QED
    BY <1>1, <1>7, <2>4, <2>5 DEF AgentSteps, L
<1>8. CASE /\ r.do = "start" /\ UNCHANGED faults
           /\ lanes' = [lanes EXCEPT ![l] = [Started(T, r) EXCEPT !.events =
                           @ \o (IF adapter = "codex" THEN <<Response(r, TRUE)>> ELSE <<>>)]]
  <2> DEFINE S == Started(T, r)
             m == IF adapter = "codex" THEN <<Response(r, TRUE)>> ELSE <<>>
  <2>1. /\ r.run \in Runs /\ r.thread \in Runs /\ r.ctx \in Prints /\ r.session \in SessionNames
        /\ r.omits \in BOOLEAN
    BY <1>2, <1>8 DEF Requests
  <2>2. Append(L.running, r.run) \in Seq(Runs)
    BY <1>1, <2>1, AppendProperties
  <2>3. Told(T.known, r.thread, r.ctx) \in SUBSET (Runs \X (Prints \cup {"refused"}))
    <3>1. T.known \in SUBSET (Runs \X (Prints \cup {"refused"}))
      BY <1>3 DEF LaneRecords
    <3> QED
      BY <2>1, <3>1 DEF Told
  <2>4. /\ S.running = Append(L.running, r.run) /\ S.wire = Tail(L.wire)
        /\ S.known = IF r.omits THEN L.known ELSE Told(L.known, r.thread, r.ctx)
        /\ S.users = L.users \cup {<<r.thread, r.session>>}
        /\ S.events = L.events /\ S.up = L.up
        /\ SamePlace(S, L)
    BY <1>3 DEF Started, LaneRecords, SamePlace
  <2>5. S \in LaneRecords
    <3>1. <<r.thread, r.session>> \in Runs \X SessionNames
      BY <2>1
    <3> QED
      BY <1>3, <2>2, <2>3, <3>1 DEF Started, LaneRecords
  <2>6. lanes' = [lanes EXCEPT ![l] = [S EXCEPT !.events = @ \o m]]
    BY <1>8
  <2>7. Response(r, TRUE) \in Events
    BY <1>6
  <2>8. /\ L.events \o m \in Seq(Events)
        /\ L.events \o m = IF adapter = "codex" THEN Append(L.events, Response(r, TRUE)) ELSE L.events
    <3>1. CASE adapter = "codex"
      <4>1. m = <<Response(r, TRUE)>>
        BY <3>1
      <4> HIDE DEF m, r, L
      <4> QED
        BY <1>5, <2>7, <3>1, <4>1
    <3>2. CASE adapter # "codex"
      <4>1. m = <<>>
        BY <3>2
      <4> HIDE DEF m, r, L
      <4> QED
        BY <1>1, <1>5, <2>7, <3>2, <4>1 DEF L
    <3> QED
      BY <3>1, <3>2
  <2> HIDE DEF S, m, r, L
  <2>9. /\ lanes'[l] \in LaneRecords /\ SamePlace(lanes'[l], L)
        /\ lanes'[l].events = L.events \o m /\ lanes'[l].wire = S.wire
        /\ lanes'[l].running = S.running /\ lanes'[l].known = S.known
        /\ lanes'[l].users = S.users /\ lanes'[l].up = S.up
        /\ \E K \in LaneRecords : lanes' = [lanes EXCEPT ![l] = K]
    BY <1>4, <2>4, <2>5, <2>6, <2>8
  <2>10. TakesTurn(lanes'[l], L)
    BY <1>1, <1>8, <2>4, <2>8, <2>9 DEF TakesTurn, r
  <2> QED
    BY <1>1, <1>8, <2>9, <2>10 DEF AgentSteps, L
<1>9. CASE /\ r.do = "start" /\ adapter = "codex" /\ faults' = faults + 1
           /\ lanes' = [lanes EXCEPT ![l] =
                 [[T EXCEPT !.known = Told(@, r.thread, "refused")] EXCEPT !.events =
                     @ \o <<Response(r, FALSE)>>]]
  <2> DEFINE S == [T EXCEPT !.known = Told(@, r.thread, "refused")]
             m == <<Response(r, FALSE)>>
  <2>1. r.thread \in Runs
    BY <1>2, <1>9 DEF Requests
  <2>2. Told(T.known, r.thread, "refused") \in SUBSET (Runs \X (Prints \cup {"refused"}))
    <3>1. T.known \in SUBSET (Runs \X (Prints \cup {"refused"}))
      BY <1>3 DEF LaneRecords
    <3> QED
      BY <2>1, <3>1 DEF Told
  <2>3. /\ S \in LaneRecords /\ S.wire = Tail(L.wire) /\ S.running = L.running
        /\ S.known = Told(L.known, r.thread, "refused") /\ S.users = L.users
        /\ S.events = L.events /\ S.up = L.up /\ SamePlace(S, L)
    BY <1>3, <2>2 DEF LaneRecords, SamePlace
  <2>4. lanes' = [lanes EXCEPT ![l] = [S EXCEPT !.events = @ \o m]]
    BY <1>9
  <2>5. Response(r, FALSE) \in Events
    BY <1>6
  <2> HIDE DEF S, r, L
  <2>6. L.events \o m = Append(L.events, Response(r, FALSE)) /\ L.events \o m \in Seq(Events)
    BY <1>5, <2>5
  <2> HIDE DEF m
  <2>7. /\ lanes'[l] \in LaneRecords /\ SamePlace(lanes'[l], L)
        /\ lanes'[l].events = L.events \o m /\ lanes'[l].wire = S.wire
        /\ lanes'[l].running = S.running /\ lanes'[l].known = S.known
        /\ lanes'[l].users = S.users /\ lanes'[l].up = S.up
        /\ \E K \in LaneRecords : lanes' = [lanes EXCEPT ![l] = K]
    BY <1>4, <2>3, <2>4, <2>6
  <2>8. Refuses(lanes'[l], L)
    BY <1>1, <1>9, <2>3, <2>6, <2>7 DEF Refuses, r
  <2>9. faults' \in Nat
    BY <1>1, <1>9
  <2> QED
    BY <1>1, <2>7, <2>8, <2>9 DEF AgentSteps, L
<1>10. CASE /\ r.do = "interrupt" /\ UNCHANGED faults /\ Contains(T.running, r.run)
            /\ lanes' = [lanes EXCEPT ![l] =
                  [[T EXCEPT !.running = Without(@, r.run)] EXCEPT !.events =
                      @ \o <<Completed(r.run, FALSE), Response(r, TRUE)>>]]
  <2> DEFINE S == [T EXCEPT !.running = Without(@, r.run)]
             m == <<Completed(r.run, FALSE), Response(r, TRUE)>>
  <2>0. \E i \in DOMAIN L.running : L.running[i] = r.run
    BY <1>1, <1>3, <1>10, LenProperties DEF Contains
  <2>1. Without(L.running, r.run) \in Seq(Runs)
    BY <1>1, WithoutProperties
  <2>2. /\ S \in LaneRecords /\ S.wire = Tail(L.wire) /\ S.running = Without(L.running, r.run)
        /\ S.known = L.known /\ S.users = L.users
        /\ S.events = L.events /\ S.up = L.up /\ SamePlace(S, L)
    BY <1>3, <2>1 DEF LaneRecords, SamePlace
  <2>3. lanes' = [lanes EXCEPT ![l] = [S EXCEPT !.events = @ \o m]]
    BY <1>10
  <2>4. Response(r, TRUE) \in Events /\ Completed(r.run, FALSE) \in Events
    BY <1>6
  <2> HIDE DEF S, r, L
  <2>5. /\ L.events \o m = Append(Append(L.events, Completed(r.run, FALSE)), Response(r, TRUE))
        /\ L.events \o m \in Seq(Events)
    BY <1>5, <2>4
  <2> HIDE DEF m
  <2>6. /\ lanes'[l] \in LaneRecords /\ SamePlace(lanes'[l], L)
        /\ lanes'[l].events = L.events \o m /\ lanes'[l].wire = S.wire
        /\ lanes'[l].running = S.running /\ lanes'[l].known = S.known
        /\ lanes'[l].users = S.users /\ lanes'[l].up = S.up
        /\ \E K \in LaneRecords : lanes' = [lanes EXCEPT ![l] = K]
    BY <1>4, <2>2, <2>3, <2>5
  <2>7. IsInterrupted(lanes'[l], L)
    BY <1>1, <1>10, <2>0, <2>2, <2>5, <2>6 DEF IsInterrupted, r
  <2> QED
    BY <1>1, <1>10, <2>6, <2>7 DEF AgentSteps, L
<1>11. CASE /\ r.do = "interrupt" /\ UNCHANGED faults /\ ~Contains(T.running, r.run)
            /\ \E ok \in BOOLEAN :
                  lanes' = [lanes EXCEPT ![l] = [T EXCEPT !.events = @ \o <<Response(r, ok)>>]]
  <2>1. PICK ok \in BOOLEAN :
           lanes' = [lanes EXCEPT ![l] = [T EXCEPT !.events = @ \o <<Response(r, ok)>>]]
    BY <1>11
  <2> DEFINE m == <<Response(r, ok)>>
  <2>2. Response(r, ok) \in Events
    BY <1>6
  <2>3. \A i \in DOMAIN L.running : L.running[i] # r.run
    BY <1>1, <1>3, <1>11, LenProperties DEF Contains
  <2> HIDE DEF r, L
  <2>4. L.events \o m = Append(L.events, Response(r, ok)) /\ L.events \o m \in Seq(Events)
    BY <1>5, <2>2
  <2>5. lanes' = [lanes EXCEPT ![l] = [T EXCEPT !.events = @ \o m]]
    BY <2>1
  <2> HIDE DEF m
  <2>6. /\ lanes'[l] \in LaneRecords /\ SamePlace(lanes'[l], L)
        /\ lanes'[l].events = L.events \o m /\ lanes'[l].wire = T.wire
        /\ lanes'[l].running = T.running /\ lanes'[l].known = T.known
        /\ lanes'[l].users = T.users /\ lanes'[l].up = T.up
        /\ \E K \in LaneRecords : lanes' = [lanes EXCEPT ![l] = K]
    BY <1>3, <1>4, <2>4, <2>5
  <2>7. IsInterrupted(lanes'[l], L)
    BY <1>1, <1>3, <1>11, <2>3, <2>4, <2>6 DEF IsInterrupted, r
  <2> QED
    BY <1>1, <1>11, <2>6, <2>7 DEF AgentSteps, L
<1> QED
  BY <1>7, <1>8, <1>9, <1>10, <1>11 DEF AgentTakes, T

LEMMA AgentFinishesSteps ==
    ASSUME Types, NEW l \in Lanes, AgentFinishes(l)
    PROVE  /\ lanes'[l] \in LaneRecords /\ AgentSteps(lanes'[l], lanes[l])
           /\ \E K \in LaneRecords : lanes' = [lanes EXCEPT ![l] = K]
           /\ UNCHANGED <<adapter, turns, slots, cancels, spec>> /\ faults' \in Nat
<1> DEFINE L == lanes[l]
<1>1. /\ L \in LaneRecords /\ lanes \in [Lanes -> LaneRecords]
      /\ L.events \in Seq(Events) /\ L.running \in Seq(Runs) /\ faults \in Nat
  BY DEF Types, LaneRecords
<1>2. PICK run \in ToSet(L.running), ok \in BOOLEAN :
        /\ adapter = "codex" \/ run = Head(L.running)
        /\ lanes' = [lanes EXCEPT ![l].running = Without(@, run),
                                  ![l].events = Append(@, Completed(run, ok))]
        /\ UNCHANGED <<adapter, turns, slots, cancels, spec, faults>>
  BY DEF AgentFinishes
<1> DEFINE K == [L EXCEPT !.running = Without(@, run), !.events = Append(@, Completed(run, ok))]
<1>3. run \in Runs /\ \E i \in DOMAIN L.running : L.running[i] = run
  BY <1>1, <1>2, ElementOfSeq, LenProperties DEF ToSet
<1>4. Without(L.running, run) \in Seq(Runs) /\ Append(L.events, Completed(run, ok)) \in Seq(Events)
  BY <1>1, <1>3, WithoutProperties, ResponseTypes, AppendProperties
<1>5. /\ K \in LaneRecords /\ SamePlace(K, L) /\ K.running = Without(L.running, run)
      /\ K.events = Append(L.events, Completed(run, ok))
      /\ K.up = L.up /\ K.wire = L.wire /\ K.known = L.known /\ K.users = L.users
  BY <1>1, <1>4 DEF LaneRecords, SamePlace
<1>6. lanes' = [lanes EXCEPT ![l] = K]
  BY <1>1, <1>2
<1> HIDE DEF K
<1>7. lanes'[l] = K
  BY <1>1, <1>6
<1>8. Finishes(K, L)
  BY <1>2, <1>3, <1>5 DEF Finishes
<1> QED
  BY <1>1, <1>2, <1>5, <1>6, <1>7, <1>8 DEF AgentSteps

LEMMA AgentFaultsSteps ==
    ASSUME Types, NEW l \in Lanes, AgentFaults(l)
    PROVE  /\ lanes'[l] \in LaneRecords /\ AgentSteps(lanes'[l], lanes[l])
           /\ \E K \in LaneRecords : lanes' = [lanes EXCEPT ![l] = K]
           /\ UNCHANGED <<adapter, turns, slots, cancels, spec>> /\ faults' \in Nat
<1> DEFINE L == lanes[l]
<1>1. /\ L \in LaneRecords /\ lanes \in [Lanes -> LaneRecords]
      /\ L.events \in Seq(Events) /\ L.running \in Seq(Runs) /\ L.up
      /\ UNCHANGED <<adapter, turns, slots, cancels, spec>>
  BY DEF Types, LaneRecords, AgentFaults
<1>2. faults' \in Nat
  BY DEF Types, AgentFaults
<1>3. ASSUME lanes' = [lanes EXCEPT ![l].up = FALSE, ![l].running = <<>>, ![l].wire = <<>>]
      PROVE  /\ lanes'[l] \in LaneRecords /\ AgentSteps(lanes'[l], lanes[l])
             /\ \E K \in LaneRecords : lanes' = [lanes EXCEPT ![l] = K]
  <2> DEFINE K == [L EXCEPT !.up = FALSE, !.running = <<>>, !.wire = <<>>]
  <2>1. /\ K \in LaneRecords /\ SamePlace(K, L) /\ Crashes(K, L)
    BY <1>1, EmptySeq DEF LaneRecords, SamePlace, Crashes
  <2>2. lanes' = [lanes EXCEPT ![l] = K]
    BY <1>1, <1>3
  <2> HIDE DEF K
  <2>3. lanes'[l] = K
    BY <1>1, <2>2
  <2> QED
    BY <2>1, <2>2, <2>3 DEF AgentSteps
<1>4. ASSUME lanes' = [lanes EXCEPT ![l].events = Append(@, GarbledEvent)]
      PROVE  /\ lanes'[l] \in LaneRecords /\ AgentSteps(lanes'[l], lanes[l])
             /\ \E K \in LaneRecords : lanes' = [lanes EXCEPT ![l] = K]
  <2> DEFINE K == [L EXCEPT !.events = Append(@, GarbledEvent)]
  <2>1. Append(L.events, GarbledEvent) \in Seq(Events)
    BY <1>1, ResponseTypes, AppendProperties
  <2>2. /\ K \in LaneRecords /\ SamePlace(K, L) /\ Garbles(K, L)
    BY <1>1, <1>4, <2>1 DEF LaneRecords, SamePlace, Garbles
  <2>3. lanes' = [lanes EXCEPT ![l] = K]
    BY <1>1, <1>4
  <2> HIDE DEF K
  <2>4. lanes'[l] = K
    BY <1>1, <2>3
  <2> QED
    BY <2>2, <2>3, <2>4 DEF AgentSteps
<1> QED
  BY <1>1, <1>2, <1>3, <1>4 DEF AgentFaults, GarbledEvent

LEMMA AgentLane ==
    ASSUME Types, NEW l \in Lanes, AgentTakes(l) \/ AgentFinishes(l) \/ AgentFaults(l)
    PROVE  /\ AgentSteps(lanes'[l], lanes[l])
           /\ \A m \in Lanes : m # l => lanes'[m] = lanes[m]
           /\ UNCHANGED <<adapter, turns, slots, cancels, spec>>
           /\ Types'
<1>1. /\ lanes'[l] \in LaneRecords /\ AgentSteps(lanes'[l], lanes[l])
      /\ \E K \in LaneRecords : lanes' = [lanes EXCEPT ![l] = K]
      /\ UNCHANGED <<adapter, turns, slots, cancels, spec>> /\ faults' \in Nat
  BY AgentTakesSteps, AgentFinishesSteps, AgentFaultsSteps
<1>2. lanes \in [Lanes -> LaneRecords]
  BY DEF Types
<1>3. PICK K \in LaneRecords : lanes' = [lanes EXCEPT ![l] = K]
  BY <1>1
<1>4. lanes' \in [Lanes -> LaneRecords] /\ \A m \in Lanes : m # l => lanes'[m] = lanes[m]
  BY <1>2, <1>3
<1> QED
  BY <1>1, <1>4 DEF Types

-----------------------------------------------------------------------------
(***************************************************************************)
(* claude_app's slots                                                      *)
(***************************************************************************)
Given(c, l) == \E i \in DOMAIN cancels[c].left : cancels[c].left[i] = l

\* Nobody has talked to the process of a lane.
Unspoken(l) ==
    LET L == lanes[l] IN
    /\ L.queue = <<>> /\ L.wire = <<>> /\ L.running = <<>> /\ L.users = {}
    /\ \A i \in DOMAIN L.events : L.events[i].is # "completed"
    /\ \A c \in Cancellers : ~Given(c, l)

\* A slot has lanes of its own, the warm one is new, and what nobody refers to is gone.
SlotsInOrder ==
    /\ slots.discovery # 0 => slots.discovery \notin {slots.patch, slots.warm}
    /\ slots.patch # 0 => slots.patch # slots.warm
    /\ slots.warm # 0 => adapter = "claude" /\ Unspoken(slots.warm)
    /\ adapter = "claude" => \A l \in Lanes :
          l \notin Referenced /\ lanes[l].queue = <<>> => lanes[l] = EmptyLane
    /\ adapter = "stdio" => \A t \in DOMAIN turns : turns[t].lane \in {0, 1}
    /\ adapter = "codex" => \A t \in DOMAIN turns : turns[t].lane \in {0, 1, 2}

\* When one lane changes, the others that are reaped were empty already.
LEMMA SettledLanes ==
    ASSUME Types, SlotsInOrder, NEW l \in Lanes, NEW K \in LaneRecords,
           lanes' = Reaped([lanes EXCEPT ![l] = K], slots)
    PROVE  /\ lanes' \in [Lanes -> LaneRecords]
           /\ \A m \in Lanes : m # l => lanes'[m] = lanes[m]
           /\ lanes'[l] = K \/ (adapter = "claude" /\ lanes'[l] = EmptyLane /\ K.queue = <<>>
                                /\ l \notin Referenced)
           /\ lanes'[l].queue = K.queue
           /\ adapter = "claude" /\ l \notin Referenced /\ K.queue = <<>> => lanes'[l] = EmptyLane
<1> DEFINE ls == [lanes EXCEPT ![l] = K]
<1>1. lanes \in [Lanes -> LaneRecords]
  BY DEF Types
<1>2. ls \in [Lanes -> LaneRecords] /\ ls[l] = K /\ \A m \in Lanes : m # l => ls[m] = lanes[m]
  BY <1>1
<1>3. lanes' = Reaped(ls, slots)
  OBVIOUS
<1> HIDE DEF ls
<1>4. ASSUME NEW m \in Lanes
      PROVE  /\ lanes' \in [Lanes -> LaneRecords]
             /\ lanes'[m] \in {ls[m], EmptyLane}
             /\ lanes'[m] # ls[m] =>
                  adapter = "claude" /\ ls[m].queue = <<>> /\ m \notin Referenced
             /\ adapter = "claude" /\ ls[m].queue = <<>> /\ m \notin Referenced => lanes'[m] = EmptyLane
             /\ lanes'[m].queue = ls[m].queue
  <2>1. /\ Reaped(ls, slots) \in [Lanes -> LaneRecords]
        /\ Reaped(ls, slots)[m] \in {ls[m], EmptyLane}
        /\ Reaped(ls, slots)[m] # ls[m] =>
             adapter = "claude" /\ ls[m].queue = <<>> /\ m \notin {slots.discovery, slots.patch, slots.warm}
        /\ adapter = "claude" /\ ls[m].queue = <<>> /\ m \notin {slots.discovery, slots.patch, slots.warm} =>
             Reaped(ls, slots)[m] = EmptyLane
        /\ Reaped(ls, slots)[m].queue = ls[m].queue
    BY <1>2, ReapedLane
  <2> QED
    BY <1>3, <2>1, Zenon DEF Referenced
<1>5. \A m \in Lanes : m # l => lanes'[m] = lanes[m]
  BY <1>2, <1>4 DEF SlotsInOrder
<1> QED
  BY <1>2, <1>4, <1>5

-----------------------------------------------------------------------------
(***************************************************************************)
(* What a step does to a lane: from L to K                                 *)
(***************************************************************************)
\* The process is gone, with its conversations.
Quits(K) ==
    /\ ~K.up /\ ~K.spawned /\ Bare(K)
    /\ K.threads = {} /\ K.prints = {} /\ K.active = NoTurn

\* The process is gone; claude_app forgets its conversations with the next.
Loses(K, L) ==
    /\ adapter = "claude" /\ ~K.up /\ ~K.spawned /\ Bare(K)
    /\ K.threads = L.threads /\ K.prints = L.prints /\ K.active = L.active

Hears(K, L) ==
    /\ L.events # <<>> /\ K.events = Tail(L.events)
    /\ K.up = L.up /\ K.spawned = L.spawned /\ K.wire = L.wire
    /\ K.running = L.running /\ K.known = L.known /\ K.users = L.users
    /\ K.threads = L.threads /\ K.prints = L.prints /\ K.active \in {L.active, NoTurn}

Wakes(K, L) ==
    /\ adapter = "claude" /\ K.up /\ K.spawned /\ Bare(K)
    /\ K.threads = {} /\ K.prints = {} /\ K.active = NoTurn

Writes(K, L, m) ==
    /\ K.up = L.up /\ K.spawned = L.spawned
    /\ K.wire = IF L.up THEN Append(L.wire, m) ELSE L.wire
    /\ K.running = L.running /\ K.known = L.known /\ K.users = L.users
    /\ K.active = L.active

Interrupts(K, L) ==
    /\ adapter = "codex" /\ L.active.run # NoRun
    /\ Writes(K, L, [do |-> "interrupt", run |-> L.active.run])
    /\ K.events = L.events /\ K.threads = L.threads /\ K.prints = L.prints

ReadsOne(K, L) == K.events = L.events \/ (L.events # <<>> /\ K.events = Tail(L.events))
OwnThread(t) == [key |-> ThreadKey(turns[t]), thread |-> OwnRun(t)]
Learns(t, K, L) ==
    K.threads = L.threads
    \/ (turns[t].pc = "thread" /\ K.threads = L.threads \cup {OwnThread(t)})

Opens(t, K, L) ==
    /\ adapter = "codex" /\ turns[t].pc = "waiting" /\ ~L.spawned
    /\ K.up /\ K.spawned
    /\ K.wire = Append(<<>>, Request("initialize", t, turns[t].attempt))
    /\ K.events = <<>> /\ K.running = <<>> /\ K.known = {} /\ K.users = {}
    /\ K.threads = {} /\ K.prints = {} /\ K.active = NoTurn

AsksFor(do, t, K, L) ==
    /\ adapter = "codex" /\ turns[t].pc \in {"waiting", "initialize", "thread"}
    /\ \E attempt \in {1, 2} : Writes(K, L, Request(do, t, attempt))
    /\ ReadsOne(K, L) /\ Learns(t, K, L) /\ K.prints = L.prints
    /\ do = "thread" => \A x \in K.threads : x.key # ThreadKey(turns[t])

StartsTurn(t, K, L) ==
    /\ adapter = "codex" /\ turns[t].pc \in {"waiting", "initialize", "thread"}
    /\ ReadsOne(K, L) /\ Learns(t, K, L)
    /\ \E x \in K.threads :
          LET print == <<x.thread, turns[t].ctx>> IN
          /\ x.key = ThreadKey(turns[t])
          /\ Writes(K, L, StartTurn(t, turns[t], x.thread, print \in L.prints))
          /\ K.prints = {p \in L.prints : p[1] # x.thread} \cup {print}

StartsReading(t, K, L) ==
    /\ adapter = "codex" /\ turns[t].pc = "start" /\ L.events # <<>>
    /\ Head(L.events).is = "response" /\ Head(L.events).do = "start"
    /\ Head(L.events).run = OwnRun(t)
    /\ K.up = L.up /\ K.spawned = L.spawned /\ K.wire = L.wire /\ K.events = Tail(L.events)
    /\ K.running = L.running /\ K.known = L.known /\ K.users = L.users
    /\ K.threads = L.threads /\ K.prints = L.prints
    /\ K.active = [run |-> OwnRun(t), session |-> turns[t].session]

\* On the process there is, or on a new one.
StreamsTurn(t, K, L) ==
    LET print == <<NoRun, turns[t].ctx>> IN
    /\ adapter \in {"claude", "stdio"} /\ turns[t].pc = "waiting"
    /\ K.threads = L.threads /\ K.active = L.active
    /\ K.prints = IF adapter = "claude" THEN {print} ELSE L.prints
    /\ \/ /\ L.spawned /\ K.events = L.events
          /\ Writes(K, L, StartTurn(t, turns[t], NoRun, adapter = "claude" /\ print \in L.prints))
       \/ /\ ~L.up /\ K.up /\ K.spawned
          /\ K.wire = Append(<<>>, StartTurn(t, turns[t], NoRun, FALSE))
          /\ K.events = <<>> /\ K.running = <<>> /\ K.known = {} /\ K.users = {}

\* A turn moves on; the others stay where they are.
MovesTo(t, pc, attempt, answer) ==
    /\ DOMAIN turns' = DOMAIN turns
    /\ \A u \in DOMAIN turns : u # t => turns'[u] = turns[u]
    /\ turns'[t].pc = pc /\ turns'[t].attempt = attempt /\ turns'[t].answer = answer
    /\ turns'[t].session = turns[t].session /\ turns'[t].conv = turns[t].conv
    /\ turns'[t].ctx = turns[t].ctx /\ turns'[t].spec = turns[t].spec
    /\ turns'[t].lane = turns[t].lane /\ turns'[t].aborted = turns[t].aborted
    /\ turns'[t].awaits = turns[t].awaits

LEMMA MovedTurn ==
    ASSUME Types, Counted, NEW t \in DOMAIN turns, NEW pc \in Pcs, NEW attempt \in {1, 2},
           NEW answer \in Runs,
           turns' = [turns EXCEPT ![t] =
                        [turns[t] EXCEPT !.pc = pc, !.attempt = attempt, !.answer = answer]]
    PROVE  /\ MovesTo(t, pc, attempt, answer) /\ turns' \in Seq(TurnRecords)
           /\ Len(turns') = Len(turns) /\ Len(turns') <= MaxTurns /\ Counted'
<1> DEFINE r == [turns[t] EXCEPT !.pc = pc, !.attempt = attempt, !.answer = answer]
<1>1. turns[t] \in TurnRecords
  BY TurnIsKnown
<1>2. /\ r \in TurnRecords /\ r.pc = pc /\ r.attempt = attempt /\ r.answer = answer
      /\ r.session = turns[t].session /\ r.conv = turns[t].conv
      /\ r.ctx = turns[t].ctx /\ r.spec = turns[t].spec
      /\ r.lane = turns[t].lane /\ r.aborted = turns[t].aborted /\ r.awaits = turns[t].awaits
  BY <1>1 DEF TurnRecords
<1>3. turns' = [turns EXCEPT ![t] = r]
  OBVIOUS
<1> HIDE DEF r
<1>4. /\ turns' \in Seq(TurnRecords) /\ Len(turns') = Len(turns) /\ Len(turns') <= MaxTurns
      /\ DOMAIN turns' = DOMAIN turns /\ turns'[t] = r
      /\ \A u \in DOMAIN turns : u # t => turns'[u] = turns[u]
      /\ Counted'
  BY <1>2, <1>3, ChangedTurn
<1> QED
  BY <1>2, <1>4 DEF MovesTo

LEMMA GoesOnMoves ==
    ASSUME Types, Counted, NEW t \in DOMAIN turns, turns[t].lane \in Lanes, NEW pc \in Pcs,
           NEW attempt \in {1, 2}, NEW K \in LaneRecords, GoesOn(t, pc, attempt, K)
    PROVE  /\ MovesTo(t, pc, attempt, turns[t].answer)
           /\ turns' \in Seq(TurnRecords) /\ Len(turns') <= MaxTurns /\ Counted'
           /\ lanes' \in [Lanes -> LaneRecords] /\ lanes'[turns[t].lane] = K
           /\ \A m \in Lanes : m # turns[t].lane => lanes'[m] = lanes[m]
<1>1. turns[t] \in TurnRecords /\ lanes \in [Lanes -> LaneRecords]
  BY TurnIsKnown DEF Types
<1>2. turns[t].answer \in Runs
  BY <1>1 DEF TurnRecords
<1>3. turns' = [turns EXCEPT ![t] =
                  [turns[t] EXCEPT !.pc = pc, !.attempt = attempt, !.answer = turns[t].answer]]
  <2>1. [turns[t] EXCEPT !.pc = pc, !.attempt = attempt, !.answer = turns[t].answer]
        = [turns[t] EXCEPT !.pc = pc, !.attempt = attempt]
    BY <1>1 DEF TurnRecords
  <2> QED
    BY <2>1 DEF GoesOn
<1>4. /\ MovesTo(t, pc, attempt, turns[t].answer) /\ turns' \in Seq(TurnRecords)
      /\ Len(turns') <= MaxTurns /\ Counted'
  BY <1>2, <1>3, MovedTurn
<1>5. lanes' = [lanes EXCEPT ![turns[t].lane] = K]
  BY DEF GoesOn
<1> QED
  BY <1>1, <1>4, <1>5

LEMMA OverMoves ==
    ASSUME Types, Counted, SlotsInOrder, NEW t \in DOMAIN turns, turns[t].lane \in Lanes,
           NEW pc \in Pcs, NEW answer \in Runs, NEW K \in LaneRecords, K.queue # <<>>,
           Over(t, pc, answer, K)
    PROVE  LET l == turns[t].lane IN
           /\ MovesTo(t, pc, turns[t].attempt, answer)
           /\ turns' \in Seq(TurnRecords) /\ Len(turns') <= MaxTurns /\ Counted'
           /\ lanes' \in [Lanes -> LaneRecords]
           /\ SameWork(lanes'[l], K)
              \/ (adapter = "claude" /\ lanes'[l] = EmptyLane /\ Tail(K.queue) = <<>>
                  /\ l \notin Referenced)
           /\ lanes'[l].queue = Tail(K.queue)
           /\ \A m \in Lanes : m # l => lanes'[m] = lanes[m]
<1>1. turns[t] \in TurnRecords /\ lanes \in [Lanes -> LaneRecords]
  BY TurnIsKnown DEF Types
<1>2. turns[t].attempt \in {1, 2}
  BY <1>1 DEF TurnRecords
<1>3. turns' = [turns EXCEPT ![t] =
                  [turns[t] EXCEPT !.pc = pc, !.attempt = turns[t].attempt, !.answer = answer]]
  <2>1. [turns[t] EXCEPT !.pc = pc, !.attempt = turns[t].attempt, !.answer = answer]
        = [turns[t] EXCEPT !.pc = pc, !.answer = answer]
    BY <1>1 DEF TurnRecords
  <2> QED
    BY <2>1 DEF Over
<1>4. /\ MovesTo(t, pc, turns[t].attempt, answer) /\ turns' \in Seq(TurnRecords)
      /\ Len(turns') <= MaxTurns /\ Counted'
  BY <1>2, <1>3, MovedTurn
<1>5. Freed(K) \in LaneRecords /\ SameWork(Freed(K), K) /\ Freed(K).queue = Tail(K.queue)
  BY FreedLane
<1>6. lanes' = Reaped([lanes EXCEPT ![turns[t].lane] = Freed(K)], slots)
  BY DEF Over
<1> DEFINE l == turns[t].lane
           F == Freed(K)
<1> HIDE DEF F
<1>7. /\ lanes' \in [Lanes -> LaneRecords]
      /\ \A m \in Lanes : m # l => lanes'[m] = lanes[m]
      /\ lanes'[l] = F \/ (adapter = "claude" /\ lanes'[l] = EmptyLane /\ F.queue = <<>>
                                /\ l \notin Referenced)
      /\ lanes'[l].queue = F.queue
  BY <1>5, <1>6, SettledLanes DEF F
<1> QED
  BY <1>4, <1>5, <1>7 DEF F

\* The answer, and what is left of the lane.
StopsWith(t, pc, answer, K, L) ==
    /\ K.queue = Tail(L.queue)
    /\ answer \notin {NoRun, Misread} =>
          /\ pc \in {"done", "failed"}
          /\ L.events # <<>> /\ Head(L.events).is = "completed"
          /\ answer = Head(L.events).run
    /\ adapter = "codex" /\ answer # NoRun => answer = OwnRun(t)
    /\ \/ /\ adapter = "codex" /\ Hears(K, L)
          /\ K.active = IF turns[t].pc = "reading" THEN NoTurn ELSE L.active
       \/ /\ adapter # "codex" /\ Hears(K, L) /\ EndsBy(answer, Head(L.events))
          /\ K.active = L.active
       \/ Loses(K, L)
       \/ /\ adapter = "stdio" /\ ~L.up /\ SameWork(K, L)
          /\ L.events = <<>> \/ turns[t].pc = "waiting"
       \/ /\ adapter = "claude" /\ Quits(K) /\ turns[t].lane \notin Referenced

TurnForm(t) ==
    LET l == turns[t].lane
        L == lanes[l]
        K == lanes'[l]
        stays(pc) == /\ MovesTo(t, pc, turns[t].attempt, turns[t].answer)
                     /\ K.queue = L.queue IN
    \/ /\ turns' = turns /\ K.queue = L.queue /\ Hears(K, L) /\ K.active = L.active
       /\ adapter # "codex" => Head(L.events).is = "garbled"
    \/ /\ adapter = "codex" /\ turns[t].attempt = 1 /\ turns[t].conv # "warm"
       /\ MovesTo(t, "waiting", 2, turns[t].answer) /\ Quits(K) /\ K.queue = L.queue
    \/ MovesTo(t, "failed", turns[t].attempt, NoRun) /\ Quits(K) /\ K.queue = Tail(L.queue)
    \/ \E pc \in {"done", "failed"}, answer \in Runs :
          MovesTo(t, pc, turns[t].attempt, answer) /\ StopsWith(t, pc, answer, K, L)
    \/ stays("initialize") /\ Opens(t, K, L)
    \/ \E do \in {"models", "thread"} : stays(do) /\ AsksFor(do, t, K, L)
    \/ stays("start") /\ StartsTurn(t, K, L)
    \/ stays("reading") /\ StartsReading(t, K, L)
    \/ stays("reading") /\ StreamsTurn(t, K, L)

\* What every one of these steps does.
TurnMoves(t) ==
    /\ turns' \in Seq(TurnRecords) /\ Len(turns') <= MaxTurns /\ Counted'
    /\ lanes' \in [Lanes -> LaneRecords]
    /\ \A m \in Lanes : m # turns[t].lane => lanes'[m] = lanes[m]
    /\ TurnForm(t)

LEMMA EmptyLaneQuits == Quits(EmptyLane)
BY DEF Quits, Bare, EmptyLane

LEMMA KillsForm ==
    ASSUME Types, Counted, Places, SlotsInOrder, NEW t \in DOMAIN turns,
           turns[t].pc \in Busy \/ (turns[t].pc = "waiting" /\ Holds(t, turns[t].lane)), Kills(t)
    PROVE  TurnMoves(t)
<1> DEFINE l == turns[t].lane
           K == InvalidateProcess(OwnLane(t))
<1>1. /\ l \in Lanes /\ OwnLane(t) \in LaneRecords /\ OwnLane(t).queue # <<>>
      /\ turns[t] \in TurnRecords /\ OwnLane(t) = lanes[l]
  BY BusyTurn, TurnIsKnown DEF OwnLane
<1>2. K \in LaneRecords /\ K.queue = lanes[l].queue /\ Quits(K)
  BY <1>1, InvalidatedLane DEF Quits
<1>3. NoRun \in Runs /\ {"waiting", "failed"} \subseteq Pcs
  BY NoRunIsARun DEF Pcs, Ended
<1>4. CASE /\ adapter = "codex" /\ turns[t].attempt = 1 /\ turns[t].conv # "warm"
           /\ GoesOn(t, "waiting", 2, K)
  <2> HIDE DEF K
  <2>1. /\ MovesTo(t, "waiting", 2, turns[t].answer)
        /\ turns' \in Seq(TurnRecords) /\ Len(turns') <= MaxTurns /\ Counted'
        /\ lanes' \in [Lanes -> LaneRecords] /\ lanes'[l] = K
        /\ \A m \in Lanes : m # l => lanes'[m] = lanes[m]
    BY <1>1, <1>2, <1>3, <1>4, GoesOnMoves
  <2> QED
    BY <1>2, <1>4, <2>1 DEF TurnMoves, TurnForm
<1>5. CASE Over(t, "failed", NoRun, K)
  <2> HIDE DEF K
  <2>1. /\ MovesTo(t, "failed", turns[t].attempt, NoRun)
        /\ turns' \in Seq(TurnRecords) /\ Len(turns') <= MaxTurns /\ Counted'
        /\ lanes' \in [Lanes -> LaneRecords]
        /\ SameWork(lanes'[l], K) \/ lanes'[l] = EmptyLane
        /\ lanes'[l].queue = Tail(K.queue)
        /\ \A m \in Lanes : m # l => lanes'[m] = lanes[m]
    BY <1>1, <1>2, <1>3, <1>5, OverMoves
  <2>2. Quits(lanes'[l])
    BY <1>2, <2>1, EmptyLaneQuits DEF SameWork, Quits, Bare
  <2> QED
    BY <1>2, <2>1, <2>2 DEF TurnMoves, TurnForm
<1> QED
  BY <1>4, <1>5 DEF Kills

LEMMA IgnoresForm ==
    ASSUME Types, Counted, Places, NEW t \in DOMAIN turns,
           turns[t].pc \in Busy \/ (turns[t].pc = "waiting" /\ Holds(t, turns[t].lane)), Ignores(t)
    PROVE  TurnMoves(t)
<1> DEFINE l == turns[t].lane
           L == lanes[l]
           K == [L EXCEPT !.events = Tail(@)]
<1>1. /\ l \in Lanes /\ L \in LaneRecords /\ OwnLane(t) = L /\ L.events # <<>>
      /\ lanes \in [Lanes -> LaneRecords]
  BY BusyTurn DEF OwnLane, Ignores, Types
<1>2. K \in LaneRecords /\ Hears(K, L) /\ K.queue = L.queue /\ K.active = L.active
  BY <1>1, ReadLane DEF Hears
<1>3. turns' = turns /\ lanes' = [lanes EXCEPT ![l] = K] /\ (adapter # "codex" => Head(L.events).is = "garbled")
  BY <1>1 DEF Ignores
<1> HIDE DEF K
<1>4. lanes' \in [Lanes -> LaneRecords] /\ lanes'[l] = K /\ \A m \in Lanes : m # l => lanes'[m] = lanes[m]
  BY <1>1, <1>2, <1>3
<1>5. turns' \in Seq(TurnRecords) /\ Len(turns') <= MaxTurns /\ Counted'
  BY <1>3, SameTurnsCounted DEF Types
<1> QED
  BY <1>2, <1>3, <1>4, <1>5 DEF TurnMoves, TurnForm

LEMMA StopsForm ==
    ASSUME Types, Counted, Places, SlotsInOrder, NEW t \in DOMAIN turns,
           turns[t].pc \in Busy \/ (turns[t].pc = "waiting" /\ Holds(t, turns[t].lane)), Stops(t)
    PROVE  TurnMoves(t)
<1> DEFINE l == turns[t].lane
           L == lanes[l]
<1>1. /\ l \in Lanes /\ L \in LaneRecords /\ OwnLane(t) = L /\ L.queue # <<>>
  BY BusyTurn DEF OwnLane
<1>2. PICK pc \in {"done", "failed"}, answer \in Runs, K \in LaneRecords :
        /\ Over(t, pc, answer, K)
        /\ answer \notin {NoRun, Misread} =>
              Head(L.events).is = "completed" /\ answer = Head(L.events).run
        /\ \/ /\ AfterEvent(L, K) /\ adapter = "codex"
              /\ K.active = IF turns[t].pc = "reading" THEN NoTurn ELSE L.active
              /\ answer # NoRun => answer = OwnRun(t)
           \/ /\ AfterEvent(L, K) /\ adapter # "codex" /\ EndsBy(answer, Head(L.events))
              /\ K.active = L.active
           \/ adapter = "claude" /\ K = WithoutProcess(L) /\ answer = NoRun
           \/ adapter = "stdio" /\ ~L.up /\ K = L /\ answer = NoRun /\ L.events = <<>>
           \/ adapter = "stdio" /\ ~L.up /\ K = L /\ answer = NoRun /\ turns[t].pc = "waiting"
  BY <1>1, ZenonT(30) DEF Stops
<1>3. K.queue = L.queue
  BY <1>1, <1>2, LaneWithoutProcess DEF AfterEvent
<1>4. pc \in Pcs
  BY <1>2 DEF Pcs, Ended
<1>5. /\ MovesTo(t, pc, turns[t].attempt, answer)
      /\ turns' \in Seq(TurnRecords) /\ Len(turns') <= MaxTurns /\ Counted'
      /\ lanes' \in [Lanes -> LaneRecords]
      /\ SameWork(lanes'[l], K)
         \/ (adapter = "claude" /\ lanes'[l] = EmptyLane /\ Tail(K.queue) = <<>>
                  /\ l \notin Referenced)
      /\ lanes'[l].queue = Tail(K.queue)
      /\ \A m \in Lanes : m # l => lanes'[m] = lanes[m]
  BY <1>1, <1>2, <1>3, <1>4, OverMoves
<1> SUFFICES StopsWith(t, pc, answer, lanes'[l], L)
  BY <1>5 DEF TurnMoves, TurnForm
<1>6. lanes'[l].queue = Tail(L.queue)
  BY <1>3, <1>5
<1>7. answer # NoRun => pc = "done" \/ pc = "failed"
  BY <1>2
<1>8. answer # NoRun => L.events # <<>>
  <2> HIDE DEF l, L
  <2> QED
    BY <1>2 DEF AfterEvent
<1>9. adapter = "codex" /\ answer # NoRun => answer = OwnRun(t)
  BY <1>2
<1>10. CASE SameWork(lanes'[l], K)
  <2> DEFINE M == lanes'[l]
  <2>1. AfterEvent(L, K) /\ K.active \in {L.active, NoTurn} => Hears(M, L) /\ M.active = K.active
    BY <1>10 DEF SameWork, AfterEvent, Hears
  <2>2. adapter = "claude" /\ K = WithoutProcess(L) => Loses(M, L)
    BY <1>1, <1>10, LaneWithoutProcess DEF SameWork, Loses, Bare
  <2> HIDE DEF M, L, l
  <2>3. \/ /\ adapter = "codex" /\ Hears(M, L)
           /\ M.active = IF turns[t].pc = "reading" THEN NoTurn ELSE L.active
        \/ /\ adapter # "codex" /\ Hears(M, L) /\ EndsBy(answer, Head(L.events))
           /\ M.active = L.active
        \/ Loses(M, L)
        \/ /\ adapter = "stdio" /\ ~L.up /\ SameWork(M, L)
           /\ L.events = <<>> \/ turns[t].pc = "waiting"
    BY <1>2, <1>10, <2>1, <2>2 DEF M
  <2> QED
    BY <1>2, <1>6, <1>7, <1>8, <1>9, <2>3 DEF StopsWith, M, L
<1>11. CASE adapter = "claude" /\ lanes'[l] = EmptyLane /\ l \notin Referenced
  BY <1>2, <1>6, <1>7, <1>8, <1>9, <1>11, EmptyLaneQuits DEF StopsWith
<1> QED
  BY <1>5, <1>10, <1>11

\* The lane a codex request is written to, and the turn that holds it.
LEMMA BaseLane ==
    ASSUME Types, NEW t \in DOMAIN turns, NEW B \in LaneRecords, OwnLane(t) \in LaneRecords, Base(t, B)
    PROVE  LET L == lanes[turns[t].lane] IN
           /\ B.queue = L.queue /\ B.up = L.up /\ B.spawned = L.spawned /\ B.wire = L.wire
           /\ B.running = L.running /\ B.known = L.known /\ B.users = L.users
           /\ B.active = L.active /\ B.prints = L.prints
           /\ ReadsOne(B, L) /\ Learns(t, B, L)
           /\ turns[t].pc \in {"waiting", "initialize", "thread"}
<1> DEFINE L == lanes[turns[t].lane]
<1>1. L = OwnLane(t) /\ L \in LaneRecords
  BY DEF OwnLane
<1>2. CASE turns[t].pc = "waiting" /\ B = L
  BY <1>2 DEF ReadsOne, Learns
<1>3. CASE turns[t].pc = "initialize" /\ AfterEvent(L, B)
  BY <1>3 DEF ReadsOne, Learns, AfterEvent, Base, OwnLane
<1>4. CASE /\ turns[t].pc = "thread" /\ AfterEvent(L, [B EXCEPT !.threads = L.threads])
           /\ B.threads = L.threads \cup {OwnThread(t)}
  <2> DEFINE D == [B EXCEPT !.threads = L.threads]
  <2>1. /\ D.queue = B.queue /\ D.up = B.up /\ D.spawned = B.spawned /\ D.wire = B.wire
        /\ D.running = B.running /\ D.known = B.known /\ D.users = B.users
        /\ D.prints = B.prints /\ D.events = B.events
    BY DEF LaneRecords
  <2>2. AfterEvent(L, D)
    BY <1>4
  <2> HIDE DEF D
  <2> QED
    BY <1>4, <2>1, <2>2 DEF ReadsOne, Learns, AfterEvent, Base, OwnLane
<1> QED
  BY <1>1, <1>2, <1>3, <1>4 DEF Base, OwnThread

LEMMA InitializesForm ==
    ASSUME Types, Counted, Places, NEW t \in DOMAIN turns,
           turns[t].pc \in Busy \/ (turns[t].pc = "waiting" /\ Holds(t, turns[t].lane)), Initializes(t)
    PROVE  TurnMoves(t)
<1> DEFINE l == turns[t].lane
           L == lanes[l]
           C == ClearConversation(L)
           S == Spawned(C)
           m == Request("initialize", t, turns[t].attempt)
           K == Sent(S, m)
<1>1. /\ l \in Lanes /\ L \in LaneRecords /\ OwnLane(t) = L
      /\ turns[t] \in TurnRecords /\ OwnRun(t) \in Runs
  BY BusyTurn, TurnIsKnown, OwnRunType DEF OwnLane
<1>2. adapter = "codex" /\ turns[t].pc = "waiting" /\ ~L.spawned
      /\ GoesOn(t, "initialize", turns[t].attempt, K)
  BY <1>1 DEF Initializes
<1>3. C \in LaneRecords /\ C.queue = L.queue /\ C.threads = {} /\ C.prints = {} /\ C.active = NoTurn
  BY <1>1, ClearedLane
<1> HIDE DEF C
<1>4. /\ S \in LaneRecords /\ S.queue = L.queue /\ S.up /\ S.spawned /\ Bare(S)
      /\ S.threads = {} /\ S.prints = {} /\ S.active = NoTurn
  BY <1>3, SpawnedLane
<1> HIDE DEF S
<1>5. m \in Requests
  BY <1>1 DEF Request, Requests, OwnRun
<1> HIDE DEF m
<1>6. K \in LaneRecords /\ K.queue = L.queue /\ Opens(t, K, L)
  <2>1. /\ K \in LaneRecords /\ K.queue = S.queue /\ K.up = S.up /\ K.spawned = S.spawned
        /\ K.wire = IF S.up THEN Append(S.wire, m) ELSE S.wire
        /\ K.events = S.events /\ K.running = S.running /\ K.known = S.known
        /\ K.users = S.users
        /\ K.threads = S.threads /\ K.prints = S.prints /\ K.active = S.active
    BY <1>4, <1>5, SentLane
  <2> HIDE DEF K
  <2>2. K.wire = Append(<<>>, m) /\ m = Request("initialize", t, turns[t].attempt)
    BY <1>4, <2>1 DEF Bare, m
  <2> QED
    BY <1>2, <1>4, <2>1, <2>2 DEF Opens, Bare
<1>7. "initialize" \in Pcs /\ turns[t].attempt \in {1, 2}
  BY <1>1 DEF Pcs, Busy, TurnRecords
<1> HIDE DEF K
<1>8. /\ MovesTo(t, "initialize", turns[t].attempt, turns[t].answer)
      /\ turns' \in Seq(TurnRecords) /\ Len(turns') <= MaxTurns /\ Counted'
      /\ lanes' \in [Lanes -> LaneRecords] /\ lanes'[l] = K
      /\ \A k \in Lanes : k # l => lanes'[k] = lanes[k]
  BY <1>1, <1>2, <1>6, <1>7, GoesOnMoves
<1> QED
  BY <1>6, <1>8 DEF TurnMoves, TurnForm

LEMMA AsksForm ==
    ASSUME Types, Counted, Places, NEW t \in DOMAIN turns,
           turns[t].pc \in Busy \/ (turns[t].pc = "waiting" /\ Holds(t, turns[t].lane)), Asks(t)
    PROVE  TurnMoves(t)
<1> DEFINE l == turns[t].lane
           L == lanes[l]
<1>1. PICK B \in LaneRecords, do \in {"models", "thread"}, attempt \in {1, 2} :
        /\ adapter = "codex" /\ Base(t, B)
        /\ do = "thread" => \A x \in B.threads : x.key # ThreadKey(turns[t])
        /\ GoesOn(t, do, turns[t].attempt, Sent(B, Request(do, t, attempt)))
  BY DEF Asks
<1> DEFINE m == Request(do, t, attempt)
           K == Sent(B, m)
<1>2. /\ l \in Lanes /\ L \in LaneRecords /\ OwnLane(t) = L /\ turns[t] \in TurnRecords
  BY BusyTurn, TurnIsKnown DEF OwnLane
<1>3. m \in Requests
  <2>1. Run(t, attempt) \in Runs
    <3>1. t \in 0 .. MaxTurns /\ attempt \in 0 .. 2
      BY <1>1, OwnRunType DEF Cancellers
    <3> QED
      BY <3>1 DEF Run, Runs
  <2> QED
    BY <1>1, <2>1 DEF Request, Requests
<1>4. /\ B.queue = L.queue /\ B.up = L.up /\ B.spawned = L.spawned /\ B.wire = L.wire
      /\ B.running = L.running /\ B.known = L.known /\ B.users = L.users
      /\ B.active = L.active /\ B.prints = L.prints
      /\ ReadsOne(B, L) /\ Learns(t, B, L)
      /\ turns[t].pc \in {"waiting", "initialize", "thread"}
  BY <1>1, <1>2, BaseLane
<1>5. /\ K \in LaneRecords /\ K.queue = L.queue
      /\ K.up = L.up /\ K.spawned = L.spawned
      /\ K.wire = IF L.up THEN Append(L.wire, m) ELSE L.wire
      /\ K.running = L.running /\ K.known = L.known /\ K.users = L.users
      /\ K.events = B.events /\ K.threads = B.threads /\ K.prints = L.prints /\ K.active = L.active
  BY <1>1, <1>3, <1>4, SentLane
<1> HIDE DEF K
<1>6. AsksFor(do, t, K, L)
  <2>1. \E a \in {1, 2} : Writes(K, L, Request(do, t, a))
    BY <1>1, <1>5 DEF Writes
  <2>2. ReadsOne(K, L) /\ Learns(t, K, L)
    BY <1>4, <1>5 DEF ReadsOne, Learns
  <2> QED
    BY <1>1, <1>4, <1>5, <2>1, <2>2 DEF AsksFor
<1>7. do \in Pcs /\ turns[t].attempt \in {1, 2}
  BY <1>1, <1>2 DEF Pcs, Busy, TurnRecords
<1>8. GoesOn(t, do, turns[t].attempt, K)
  BY <1>1 DEF K
<1>9. /\ MovesTo(t, do, turns[t].attempt, turns[t].answer)
      /\ turns' \in Seq(TurnRecords) /\ Len(turns') <= MaxTurns /\ Counted'
      /\ lanes' \in [Lanes -> LaneRecords] /\ lanes'[l] = K
      /\ \A k \in Lanes : k # l => lanes'[k] = lanes[k]
  BY <1>2, <1>5, <1>7, <1>8, GoesOnMoves
<1> QED
  BY <1>1, <1>5, <1>6, <1>9 DEF TurnMoves, TurnForm

LEMMA StartsForm ==
    ASSUME Types, Counted, Places, NEW t \in DOMAIN turns,
           turns[t].pc \in Busy \/ (turns[t].pc = "waiting" /\ Holds(t, turns[t].lane)), Starts(t)
    PROVE  TurnMoves(t)
<1> DEFINE l == turns[t].lane
           L == lanes[l]
<1>1. PICK B \in LaneRecords : \E x \in B.threads :
        LET print == <<x.thread, turns[t].ctx>>
            others == {p \in B.prints : p[1] # x.thread} IN
        /\ adapter = "codex" /\ Base(t, B) /\ x.key = ThreadKey(turns[t])
        /\ GoesOn(t, "start", turns[t].attempt,
                  Sent([B EXCEPT !.prints = others \cup {print}],
                       StartTurn(t, turns[t], x.thread, print \in B.prints)))
  BY DEF Starts
<1>2. PICK x \in B.threads :
        LET print == <<x.thread, turns[t].ctx>>
            others == {p \in B.prints : p[1] # x.thread} IN
        /\ adapter = "codex" /\ Base(t, B) /\ x.key = ThreadKey(turns[t])
        /\ GoesOn(t, "start", turns[t].attempt,
                  Sent([B EXCEPT !.prints = others \cup {print}],
                       StartTurn(t, turns[t], x.thread, print \in B.prints)))
  BY <1>1
<1> DEFINE print == <<x.thread, turns[t].ctx>>
           others == {p \in B.prints : p[1] # x.thread}
           D == [B EXCEPT !.prints = others \cup {print}]
           m == StartTurn(t, turns[t], x.thread, print \in B.prints)
           K == Sent(D, m)
<1>3. /\ l \in Lanes /\ L \in LaneRecords /\ OwnLane(t) = L /\ turns[t] \in TurnRecords
  BY BusyTurn, TurnIsKnown DEF OwnLane
<1>4. /\ B.queue = L.queue /\ B.up = L.up /\ B.spawned = L.spawned /\ B.wire = L.wire
      /\ B.running = L.running /\ B.known = L.known /\ B.users = L.users
      /\ B.active = L.active /\ B.prints = L.prints
      /\ ReadsOne(B, L) /\ Learns(t, B, L)
      /\ turns[t].pc \in {"waiting", "initialize", "thread"}
  BY <1>2, <1>3, BaseLane
<1>5. x.thread \in Runs /\ turns[t].ctx \in Prints /\ (print \in B.prints) \in BOOLEAN
  BY <1>3 DEF LaneRecords, ThreadRecords, TurnRecords
<1>6. m \in Requests
  BY <1>5, StartTurnType
<1>7. /\ D \in LaneRecords /\ D.queue = B.queue /\ D.up = B.up /\ D.spawned = B.spawned
      /\ D.wire = B.wire /\ D.running = B.running /\ D.known = B.known /\ D.users = B.users
      /\ D.active = B.active /\ D.threads = B.threads /\ D.events = B.events
      /\ D.prints = others \cup {print}
  <2>1. others \cup {print} \in SUBSET (Runs \X Prints)
    BY <1>5 DEF LaneRecords
  <2> HIDE DEF others, print
  <2> QED
    BY <2>1 DEF LaneRecords
<1>8. GoesOn(t, "start", turns[t].attempt, K)
  BY <1>2
<1> HIDE DEF D, m
<1>9. /\ K \in LaneRecords /\ K.queue = L.queue
      /\ K.up = L.up /\ K.spawned = L.spawned
      /\ K.wire = IF L.up THEN Append(L.wire, m) ELSE L.wire
      /\ K.running = L.running /\ K.known = L.known /\ K.users = L.users
      /\ K.events = B.events /\ K.threads = B.threads /\ K.prints = others \cup {print}
      /\ K.active = L.active
  BY <1>4, <1>6, <1>7, SentLane
<1> HIDE DEF K
<1>10. StartsTurn(t, K, L)
  <2>1. Writes(K, L, StartTurn(t, turns[t], x.thread, print \in L.prints))
    BY <1>4, <1>9 DEF Writes, m
  <2>2. ReadsOne(K, L) /\ Learns(t, K, L)
    BY <1>4, <1>9 DEF ReadsOne, Learns
  <2>3. K.prints = {p \in L.prints : p[1] # x.thread} \cup {<<x.thread, turns[t].ctx>>}
    BY <1>4, <1>9
  <2>4. x \in K.threads /\ x.key = ThreadKey(turns[t]) /\ adapter = "codex"
    BY <1>2, <1>9
  <2> QED
    BY <1>4, <2>1, <2>2, <2>3, <2>4 DEF StartsTurn
<1>11. "start" \in Pcs /\ turns[t].attempt \in {1, 2}
  BY <1>3 DEF Pcs, Busy, TurnRecords
<1>12. /\ MovesTo(t, "start", turns[t].attempt, turns[t].answer)
      /\ turns' \in Seq(TurnRecords) /\ Len(turns') <= MaxTurns /\ Counted'
      /\ lanes' \in [Lanes -> LaneRecords] /\ lanes'[l] = K
      /\ \A k \in Lanes : k # l => lanes'[k] = lanes[k]
  BY <1>3, <1>8, <1>9, <1>11, GoesOnMoves
<1> QED
  BY <1>9, <1>10, <1>12 DEF TurnMoves, TurnForm

LEMMA BeginsToReadForm ==
    ASSUME Types, Counted, Places, NEW t \in DOMAIN turns,
           turns[t].pc \in Busy \/ (turns[t].pc = "waiting" /\ Holds(t, turns[t].lane)), BeginsToRead(t)
    PROVE  TurnMoves(t)
<1> DEFINE l == turns[t].lane
           L == lanes[l]
           K == [L EXCEPT !.events = Tail(@), !.active = [run |-> OwnRun(t), session |-> turns[t].session]]
<1>1. /\ l \in Lanes /\ L \in LaneRecords /\ OwnLane(t) = L /\ turns[t] \in TurnRecords
      /\ OwnRun(t) \in Runs
  BY BusyTurn, TurnIsKnown, OwnRunType DEF OwnLane
<1>2. /\ adapter = "codex" /\ turns[t].pc = "start" /\ L.events # <<>>
      /\ Head(L.events).is = "response" /\ Head(L.events).do = "start"
      /\ Head(L.events).run = OwnRun(t)
      /\ GoesOn(t, "reading", turns[t].attempt, K)
  BY <1>1 DEF BeginsToRead
<1>3. K \in LaneRecords /\ K.queue = L.queue /\ StartsReading(t, K, L)
  <2>1. L.events \in Seq(Events) /\ turns[t].session \in SessionNames
    BY <1>1 DEF LaneRecords, TurnRecords
  <2>2. Tail(L.events) \in Seq(Events)
    BY <1>2, <2>1, TailProperties
  <2> QED
    BY <1>1, <1>2, <2>1, <2>2 DEF LaneRecords, StartsReading
<1> HIDE DEF K
<1>4. "reading" \in Pcs /\ turns[t].attempt \in {1, 2}
  BY <1>1 DEF Pcs, Busy, TurnRecords
<1>5. /\ MovesTo(t, "reading", turns[t].attempt, turns[t].answer)
      /\ turns' \in Seq(TurnRecords) /\ Len(turns') <= MaxTurns /\ Counted'
      /\ lanes' \in [Lanes -> LaneRecords] /\ lanes'[l] = K
      /\ \A k \in Lanes : k # l => lanes'[k] = lanes[k]
  BY <1>1, <1>2, <1>3, <1>4, GoesOnMoves
<1> QED
  BY <1>3, <1>5 DEF TurnMoves, TurnForm

LEMMA StreamsForm ==
    ASSUME Types, Counted, Places, LanesInOrder, NEW t \in DOMAIN turns,
           turns[t].pc \in Busy \/ (turns[t].pc = "waiting" /\ Holds(t, turns[t].lane)), Streams(t)
    PROVE  TurnMoves(t)
<1> DEFINE l == turns[t].lane
           L == lanes[l]
           print == <<NoRun, turns[t].ctx>>
<1>1. PICK B \in LaneRecords, omits \in BOOLEAN :
        /\ adapter # "codex" /\ turns[t].pc = "waiting"
        /\ \/ L.spawned /\ B = L
           \/ ~L.up /\ adapter = "claude" /\ B = [Spawned(L) EXCEPT !.prints = {}]
           \/ ~L.spawned /\ adapter = "stdio" /\ B = Spawned(L)
        /\ omits = (adapter = "claude" /\ print \in B.prints)
        /\ GoesOn(t, "reading", turns[t].attempt,
                  Sent(IF adapter = "claude" THEN [B EXCEPT !.prints = {print}] ELSE B,
                       StartTurn(t, turns[t], NoRun, omits)))
  BY DEF Streams, OwnLane
<1> DEFINE D == IF adapter = "claude" THEN [B EXCEPT !.prints = {print}] ELSE B
           m == StartTurn(t, turns[t], NoRun, omits)
           K == Sent(D, m)
<1>2. /\ l \in Lanes /\ L \in LaneRecords /\ OwnLane(t) = L /\ turns[t] \in TurnRecords
      /\ adapter \in {"claude", "stdio"}
  BY <1>1, BusyTurn, TurnIsKnown, BackendsAssumption DEF OwnLane, Types
<1>3. turns[t].ctx \in Prints /\ NoRun \in Runs
  BY <1>2, NoRunIsARun DEF TurnRecords
<1>4. m \in Requests
  BY <1>1, <1>3, StartTurnType
<1>5. \/ L.spawned /\ B = L
      \/ /\ ~L.up /\ B.up /\ B.spawned /\ Bare(B) /\ B.queue = L.queue
         /\ B.threads = L.threads /\ B.active = L.active
         /\ adapter = "claude" => B.prints = {}
         /\ adapter = "stdio" => B.prints = L.prints
  <2> DEFINE S == Spawned(L)
  <2>1. /\ S \in LaneRecords /\ S.queue = L.queue /\ S.up /\ S.spawned /\ Bare(S)
        /\ S.threads = L.threads /\ S.prints = L.prints /\ S.active = L.active
    BY <1>2, SpawnedLane
  <2>2. ~L.spawned => ~L.up
    BY <1>2 DEF LanesInOrder
  <2> HIDE DEF S, L
  <2>3. CASE ~L.up /\ adapter = "claude" /\ B = [S EXCEPT !.prints = {}]
    <3>1. /\ B.queue = S.queue /\ B.up = S.up /\ B.spawned = S.spawned /\ B.wire = S.wire
          /\ B.events = S.events /\ B.running = S.running /\ B.known = S.known /\ B.users = S.users
          /\ B.threads = S.threads /\ B.active = S.active /\ B.prints = {}
      BY <2>1, <2>3 DEF LaneRecords
    <3> QED
      BY <2>1, <2>3, <3>1 DEF Bare
  <2>4. CASE ~L.spawned /\ adapter = "stdio" /\ B = S
    BY <2>1, <2>2, <2>4
  <2> QED
    BY <1>1, <2>3, <2>4 DEF S, L
<1>6. /\ D \in LaneRecords /\ D.queue = B.queue /\ D.up = B.up /\ D.spawned = B.spawned
      /\ D.wire = B.wire /\ D.running = B.running /\ D.known = B.known /\ D.users = B.users
      /\ D.active = B.active /\ D.threads = B.threads /\ D.events = B.events
      /\ D.prints = IF adapter = "claude" THEN {print} ELSE B.prints
  <2>1. {print} \in SUBSET (Runs \X Prints)
    BY <1>3
  <2> HIDE DEF print
  <2> QED
    BY <1>2, <2>1 DEF LaneRecords
<1>7. GoesOn(t, "reading", turns[t].attempt, K)
  BY <1>1
<1> HIDE DEF D
<1>8. /\ K \in LaneRecords /\ K.queue = B.queue
      /\ K.up = B.up /\ K.spawned = B.spawned
      /\ K.wire = IF B.up THEN Append(B.wire, m) ELSE B.wire
      /\ K.running = B.running /\ K.known = B.known /\ K.users = B.users
      /\ K.events = B.events /\ K.threads = B.threads /\ K.active = B.active
      /\ K.prints = IF adapter = "claude" THEN {print} ELSE B.prints
  BY <1>4, <1>6, SentLane
<1> HIDE DEF K
<1>9. K.queue = L.queue /\ StreamsTurn(t, K, L)
  <2>1. CASE L.spawned /\ B = L
    <3>1. m = StartTurn(t, turns[t], NoRun, adapter = "claude" /\ print \in L.prints)
      BY <1>1, <2>1
    <3>2. Writes(K, L, m) /\ K.events = L.events /\ K.threads = L.threads /\ K.active = L.active
          /\ K.prints = IF adapter = "claude" THEN {print} ELSE L.prints
      BY <1>8, <2>1 DEF Writes
    <3> QED
      BY <1>1, <1>2, <1>8, <2>1, <3>1, <3>2 DEF StreamsTurn
  <2>2. CASE /\ ~L.up /\ B.up /\ B.spawned /\ Bare(B) /\ B.queue = L.queue
             /\ B.threads = L.threads /\ B.active = L.active
             /\ adapter = "claude" => B.prints = {}
             /\ adapter = "stdio" => B.prints = L.prints
    <3>1. ~omits
      BY <1>1, <1>2, <2>2
    <3>2. m = StartTurn(t, turns[t], NoRun, FALSE)
      BY <1>1, <3>1
    <3>3. /\ K.wire = Append(<<>>, m) /\ K.up /\ K.spawned
          /\ K.events = <<>> /\ K.running = <<>> /\ K.known = {} /\ K.users = {}
          /\ K.threads = L.threads /\ K.active = L.active
          /\ K.prints = IF adapter = "claude" THEN {print} ELSE L.prints
      BY <1>2, <1>8, <2>2 DEF Bare
    <3> QED
      BY <1>1, <1>2, <1>8, <2>2, <3>2, <3>3 DEF StreamsTurn
  <2> QED
    BY <1>5, <2>1, <2>2
<1>10. "reading" \in Pcs /\ turns[t].attempt \in {1, 2}
  BY <1>2 DEF Pcs, Busy, TurnRecords
<1>11. /\ MovesTo(t, "reading", turns[t].attempt, turns[t].answer)
      /\ turns' \in Seq(TurnRecords) /\ Len(turns') <= MaxTurns /\ Counted'
      /\ lanes' \in [Lanes -> LaneRecords] /\ lanes'[l] = K
      /\ \A k \in Lanes : k # l => lanes'[k] = lanes[k]
  BY <1>2, <1>7, <1>8, <1>10, GoesOnMoves
<1> QED
  BY <1>9, <1>11 DEF TurnMoves, TurnForm

\* Whatever the turn that holds a lane does.
LEMMA BusyMoves ==
    ASSUME Types, Counted, Places, LanesInOrder, SlotsInOrder, NEW t \in DOMAIN turns,
           Begin(t) \/ Read(t) \/ EndOfFile(t) \/ Timeout(t)
    PROVE  /\ TurnMoves(t) /\ UNCHANGED <<adapter, slots, cancels, spec, faults>> /\ Types'
           /\ turns[t].lane \in Lanes /\ InLane(t) /\ Holds(t, turns[t].lane)
           /\ lanes[turns[t].lane].queue # <<>> /\ Head(lanes[turns[t].lane].queue) = t
           /\ lanes[turns[t].lane] \in LaneRecords
<1>1. /\ TurnSteps(t) /\ UNCHANGED <<adapter, slots, cancels, spec, faults>>
      /\ turns[t].pc \in Busy \/ (turns[t].pc = "waiting" /\ Holds(t, turns[t].lane))
      /\ InLane(t)
  BY BusySteps
<1>2. /\ turns[t].lane \in Lanes /\ OwnLane(t) \in LaneRecords
      /\ OwnLane(t).queue # <<>> /\ Head(OwnLane(t).queue) = t /\ Holds(t, turns[t].lane)
  BY <1>1, BusyTurn
<1>3. TurnMoves(t)
  BY <1>1, KillsForm, IgnoresForm, StopsForm, InitializesForm, AsksForm, StartsForm,
     BeginsToReadForm, StreamsForm DEF TurnSteps
<1>4. Types'
  BY <1>1, <1>3 DEF Types, TurnMoves
<1> QED
  BY <1>1, <1>2, <1>3, <1>4 DEF OwnLane

-----------------------------------------------------------------------------
(***************************************************************************)
(* The other steps                                                         *)
(***************************************************************************)
\* A call that a turn waited for is over.
AwaitMoves(t) ==
    /\ turns[t].pc = "awaiting"
    /\ DOMAIN turns' = DOMAIN turns
    /\ \A u \in DOMAIN turns : u # t => turns'[u] = turns[u]
    /\ turns'[t].pc \in {"done", "called"} /\ turns'[t].awaits = 0
    /\ turns'[t].attempt = turns[t].attempt /\ turns'[t].answer = turns[t].answer
    /\ turns'[t].session = turns[t].session /\ turns'[t].conv = turns[t].conv
    /\ turns'[t].ctx = turns[t].ctx /\ turns'[t].spec = turns[t].spec
    /\ turns'[t].lane = turns[t].lane /\ turns'[t].aborted = turns[t].aborted
    /\ UNCHANGED <<adapter, lanes, slots, cancels, spec, faults>>

LEMMA AwaitEndsMoves ==
    ASSUME Types, Counted, NEW t \in DOMAIN turns, AwaitEnds(t)
    PROVE  Types' /\ Counted' /\ AwaitMoves(t)
<1> DEFINE pc == IF turns[turns[t].awaits].pc = "done" THEN "done" ELSE "called"
           r == [turns[t] EXCEPT !.pc = pc, !.awaits = 0]
<1>1. turns[t] \in TurnRecords /\ pc \in {"done", "called"} /\ pc \in Pcs /\ 0 \in 0 .. MaxTurns
  BY TurnIsKnown, BackendsAssumption DEF Pcs, Ended, MaxTurns
<1>2. /\ turns[t].pc = "awaiting" /\ turns' = [turns EXCEPT ![t].pc = pc, ![t].awaits = 0]
      /\ UNCHANGED <<adapter, lanes, slots, cancels, spec, faults>>
  BY DEF AwaitEnds
<1> HIDE DEF pc
<1>3. /\ r \in TurnRecords /\ r.pc = pc /\ r.awaits = 0 /\ r.attempt = turns[t].attempt
      /\ r.answer = turns[t].answer
      /\ r.session = turns[t].session /\ r.conv = turns[t].conv
      /\ r.ctx = turns[t].ctx /\ r.spec = turns[t].spec
      /\ r.lane = turns[t].lane /\ r.aborted = turns[t].aborted
  BY <1>1 DEF TurnRecords
<1>4. turns' = [turns EXCEPT ![t] = r]
  BY <1>2
<1> HIDE DEF r
<1>5. /\ turns' \in Seq(TurnRecords) /\ Len(turns') = Len(turns) /\ Len(turns') <= MaxTurns
      /\ DOMAIN turns' = DOMAIN turns /\ turns'[t] = r
      /\ \A u \in DOMAIN turns : u # t => turns'[u] = turns[u]
      /\ Counted'
  BY <1>3, <1>4, ChangedTurn
<1>6. AwaitMoves(t)
  BY <1>1, <1>2, <1>3, <1>5 DEF AwaitMoves
<1> QED
  BY <1>2, <1>5, <1>6 DEF Types

LEMMA UnusedLane ==
    ASSUME Types, SlotsInOrder, adapter = "claude", Unused # {}
    PROVE  /\ FreshLane \in Unused /\ FreshLane \in Lanes /\ FreshLane \notin Referenced
           /\ lanes[FreshLane] = EmptyLane /\ FreshLane # 0
           /\ \A c \in Cancellers : ~Given(c, FreshLane)
<1>1. FreshLane \in Unused
  BY DEF FreshLane
<1>2. FreshLane \in Lanes /\ FreshLane \notin Referenced /\ lanes[FreshLane].queue = <<>>
  BY <1>1 DEF Unused
<1>3. ASSUME NEW c \in Cancellers PROVE ~Given(c, FreshLane)
  <2>1. ~Contains(cancels[c].left, FreshLane)
    BY <1>1 DEF Unused
  <2>2. cancels[c].left \in Seq(Lanes)
    BY DEF Types, CancelRecords
  <2>3. DOMAIN cancels[c].left = 1 .. Len(cancels[c].left)
    BY <2>2, LenProperties
  <2> QED
    BY <2>1, <2>3 DEF Contains, Given
<1>4. FreshLane # 0
  BY <1>2 DEF Lanes
<1> QED
  BY <1>1, <1>2, <1>3, <1>4 DEF SlotsInOrder

\* claude_app's warm process.
LEMMA ClaudeWarmsUp ==
    ASSUME Types, Counted, SlotsInOrder, WarmUp, adapter = "claude"
    PROVE  /\ Types' /\ Counted' /\ UNCHANGED <<adapter, turns, cancels, spec, faults>>
           /\ \E f \in Lanes :
                 /\ f \notin Referenced /\ lanes[f] = EmptyLane /\ \A c \in Cancellers : ~Given(c, f)
                 /\ slots'.warm = f /\ slots'.session = slots.session
                 /\ slots.discovery = 0 /\ slots.patch = 0 /\ slots.warm = 0
                 /\ slots'.discovery = 0 /\ slots'.patch = 0
                 /\ Wakes(lanes'[f], lanes[f]) /\ lanes'[f].queue = <<>>
                 /\ \A m \in Lanes : m # f => lanes'[m] = lanes[m]
<1> DEFINE f == FreshLane
           S == Spawned(lanes[f])
<1>1. /\ Referenced = {0} /\ Unused # {} /\ slots' = [slots EXCEPT !.warm = f]
      /\ lanes' = [lanes EXCEPT ![f] = S]
      /\ UNCHANGED <<adapter, turns, cancels, spec, faults>>
  BY DEF WarmUp
<1>2. /\ f \in Lanes /\ f \notin Referenced /\ lanes[f] = EmptyLane
      /\ \A c \in Cancellers : ~Given(c, f)
  BY <1>1, UnusedLane
<1>3. lanes \in [Lanes -> LaneRecords] /\ lanes[f] \in LaneRecords /\ slots \in SlotRecords
  BY <1>2 DEF Types
<1>4. /\ S \in LaneRecords /\ S.queue = lanes[f].queue /\ S.up /\ S.spawned /\ Bare(S)
      /\ S.threads = lanes[f].threads /\ S.prints = lanes[f].prints /\ S.active = lanes[f].active
  BY <1>3, SpawnedLane
<1> HIDE DEF S
<1> HIDE DEF f
<1>5. lanes' \in [Lanes -> LaneRecords] /\ lanes'[f] = S /\ \A m \in Lanes : m # f => lanes'[m] = lanes[m]
  BY <1>1, <1>2, <1>3, <1>4
<1>6. /\ slots' \in SlotRecords /\ slots'.warm = f /\ slots'.session = slots.session
      /\ slots'.discovery = slots.discovery /\ slots'.patch = slots.patch
  BY <1>1, <1>2, <1>3 DEF SlotRecords
<1>7. slots.discovery = 0 /\ slots.patch = 0 /\ slots.warm = 0
  BY <1>1 DEF Referenced
<1>8. Wakes(lanes'[f], lanes[f]) /\ lanes'[f].queue = <<>>
  BY <1>2, <1>4, <1>5 DEF Wakes, EmptyLane
<1>9. Types' /\ Counted'
  BY <1>1, <1>5, <1>6, SameTurnsCounted DEF Types
<1> QED
  BY <1>1, <1>2, <1>5, <1>6, <1>7, <1>8, <1>9

\* codex_app's warm-up is a turn of nobody's session.
LEMMA CodexWarmsUp ==
    ASSUME Types, Counted, Places, EngineInOrder, WarmUp, adapter # "claude"
    PROVE  /\ adapter = "codex" /\ Types' /\ Counted' /\ Calling(0, {Len(turns) + 1})
           /\ Len(turns') = Len(turns) + 1
           /\ LET r == turns'[Len(turns) + 1] IN
              r.session = NoSession /\ r.conv = "warm" /\ ~r.spec /\ r.awaits = 0 /\ r.pc = "called"
           /\ spec' = spec
<1> DEFINE r == NewTurn(NoSession, "warm", "none", FALSE)
<1>1. /\ adapter = "codex" /\ Cardinality(Asked) < MaxAsks /\ turns' = Append(turns, r)
      /\ UNCHANGED <<adapter, lanes, slots, cancels, spec, faults>>
  BY DEF WarmUp
<1>2. NoSession \in SessionNames /\ "warm" \in Convs /\ "none" \in Prints /\ FALSE \in BOOLEAN
  BY DEF SessionNames, Convs, Prints
<1>3. /\ r \in TurnRecords
      /\ r.session = NoSession /\ r.conv = "warm" /\ r.spec = FALSE
      /\ r.pc = "called" /\ r.lane = 0 /\ r.attempt = 1 /\ r.aborted = FALSE
      /\ r.awaits = 0 /\ r.answer = NoRun
  <2>1. MaxTurns \in Nat
    BY BackendsAssumption DEF MaxTurns
  <2> QED
    BY <1>2, <2>1, NoRunIsARun DEF NewTurn, TurnRecords, Pcs
<1> HIDE DEF r
<1>4. /\ turns' \in Seq(TurnRecords) /\ Len(turns') <= MaxTurns /\ Counted'
      /\ AbortsOne(0) /\ Adds({Len(turns) + 1})
      /\ Len(turns') = Len(turns) + 1
  BY <1>1, <1>3, AppendedTurn
<1>5. turns'[Len(turns) + 1] = r
  BY <1>1, <1>3, AppendProperties DEF Types
<1>6. Calling(0, {Len(turns) + 1})
  BY <1>1, <1>4 DEF Calling
<1>7. Types'
  BY <1>1, <1>4 DEF Types
<1> QED
  BY <1>1, <1>3, <1>4, <1>5, <1>6, <1>7

\* An aborted task lets go of what it holds.
DropMoves(t) ==
    /\ Live(t) /\ turns[t].aborted
    /\ MovesTo(t, "dropped", turns[t].attempt, turns[t].answer)
    /\ cancels'[t] = NoCancel /\ \A c \in Cancellers : c # t => cancels'[c] = cancels[c]
    /\ \A l \in Lanes :
          /\ lanes'[l].queue = Without(lanes[l].queue, t)
          /\ SameWork(lanes'[l], lanes[l])
             \/ (adapter = "claude" /\ lanes'[l] = EmptyLane /\ l \notin Referenced
                 /\ lanes'[l].queue = <<>>)
          /\ adapter = "claude" /\ l \notin Referenced /\ lanes'[l].queue = <<>> =>
                lanes'[l] = EmptyLane
    /\ UNCHANGED <<adapter, slots, spec, faults>>

LEMMA NoCancelType ==
    /\ NoCancel \in CancelRecords /\ NoCancel.step = "idle" /\ NoCancel.left = <<>>
    /\ NoCancel.session = NoSession
BY NoRunIsARun, EmptySeq DEF NoCancel, CancelRecords

LEMMA DroppedMoves ==
    ASSUME Types, Counted, NEW t \in DOMAIN turns, Dropped(t)
    PROVE  Types' /\ Counted' /\ DropMoves(t)
<1> DEFINE ls == [l \in Lanes |-> [lanes[l] EXCEPT !.queue = Without(@, t)]]
<1>1. /\ turns[t] \in TurnRecords /\ lanes \in [Lanes -> LaneRecords] /\ t \in Cancellers
      /\ cancels \in [Cancellers -> CancelRecords]
  BY TurnIsKnown, OwnRunType DEF Types
<1>2. /\ Live(t) /\ turns[t].aborted /\ turns' = [turns EXCEPT ![t].pc = "dropped"]
      /\ cancels' = [cancels EXCEPT ![t] = NoCancel] /\ lanes' = Reaped(ls, slots)
      /\ UNCHANGED <<adapter, slots, spec, faults>>
  BY DEF Dropped
<1>3. /\ MovesTo(t, "dropped", turns[t].attempt, turns[t].answer) /\ turns' \in Seq(TurnRecords)
      /\ Len(turns') <= MaxTurns /\ Counted'
  <2>1. turns[t].attempt \in {1, 2} /\ turns[t].answer \in Runs /\ "dropped" \in Pcs
    BY <1>1 DEF TurnRecords, Pcs, Ended
  <2>2. [turns[t] EXCEPT !.pc = "dropped", !.attempt = turns[t].attempt, !.answer = turns[t].answer]
        = [turns[t] EXCEPT !.pc = "dropped"]
    BY <1>1 DEF TurnRecords
  <2>3. turns' = [turns EXCEPT ![t] =
          [turns[t] EXCEPT !.pc = "dropped", !.attempt = turns[t].attempt, !.answer = turns[t].answer]]
    BY <1>2, <2>2
  <2> QED
    BY <2>1, <2>3, MovedTurn
<1>4. cancels' \in [Cancellers -> CancelRecords] /\ cancels'[t] = NoCancel
      /\ \A c \in Cancellers : c # t => cancels'[c] = cancels[c]
  BY <1>1, <1>2, NoCancelType
<1>5. ASSUME NEW l \in Lanes
      PROVE  ls[l] \in LaneRecords /\ SameWork(ls[l], lanes[l]) /\ ls[l].queue = Without(lanes[l].queue, t)
  <2>1. lanes[l] \in LaneRecords /\ lanes[l].queue \in Seq(Cancellers)
    BY <1>1 DEF LaneRecords
  <2> DEFINE q == Without(lanes[l].queue, t)
  <2>2. q \in Seq(Cancellers)
    BY <2>1, WithoutProperties
  <2> HIDE DEF q
  <2>3. LET K == [lanes[l] EXCEPT !.queue = q] IN
        K \in LaneRecords /\ SameWork(K, lanes[l]) /\ K.queue = q
    BY <2>1, <2>2, QueuedLane
  <2>4. ls[l] = [lanes[l] EXCEPT !.queue = q]
    BY DEF q
  <2> QED
    BY <2>3, <2>4 DEF q
<1>6. ls \in [Lanes -> LaneRecords]
  <2> DEFINE f(l) == [lanes[l] EXCEPT !.queue = Without(@, t)]
  <2>1. \A l \in Lanes : f(l) \in LaneRecords
    BY <1>5
  <2> HIDE DEF f
  <2>2. [l \in Lanes |-> f(l)] \in [Lanes -> LaneRecords]
    BY <2>1
  <2> QED
    BY <2>2 DEF f
<1> HIDE DEF ls
<1>7. lanes' \in [Lanes -> LaneRecords]
  <2>1. 1 \in Lanes
    BY BackendsAssumption DEF Lanes
  <2> QED
    BY <1>2, <1>6, <2>1, ReapedLane
<1>8. ASSUME NEW l \in Lanes
      PROVE  /\ lanes'[l].queue = Without(lanes[l].queue, t)
             /\ SameWork(lanes'[l], lanes[l])
                \/ (adapter = "claude" /\ lanes'[l] = EmptyLane /\ l \notin Referenced
                    /\ lanes'[l].queue = <<>>)
             /\ adapter = "claude" /\ l \notin Referenced /\ lanes'[l].queue = <<>> =>
                   lanes'[l] = EmptyLane
  <2>1. /\ Reaped(ls, slots)[l] \in {ls[l], EmptyLane}
        /\ Reaped(ls, slots)[l] # ls[l] =>
             adapter = "claude" /\ ls[l].queue = <<>> /\ l \notin {slots.discovery, slots.patch, slots.warm}
        /\ adapter = "claude" /\ ls[l].queue = <<>> /\ l \notin {slots.discovery, slots.patch, slots.warm} =>
             Reaped(ls, slots)[l] = EmptyLane
        /\ Reaped(ls, slots)[l].queue = ls[l].queue
    BY <1>6, ReapedLane
  <2>2. Referenced = {slots.discovery, slots.patch, slots.warm}
    BY DEF Referenced
  <2>3. lanes'[l] = Reaped(ls, slots)[l]
    BY <1>2
  <2>4. lanes'[l].queue = ls[l].queue
    BY <2>1, <2>3
  <2> QED
    BY <1>5, <2>1, <2>2, <2>3, <2>4, Zenon
<1>9. DropMoves(t)
  BY <1>2, <1>3, <1>4, <1>8 DEF DropMoves
<1> QED
  BY <1>2, <1>3, <1>4, <1>7, <1>9 DEF Types

\* The end of a cancellation, or its way to the next lane.
CancelEnds(c) ==
    /\ cancels'[c] = NoCancel /\ \A d \in Cancellers : d # c => cancels'[d] = cancels[d]
    /\ c = 0 => turns' = turns
    /\ c # 0 => MovesTo(c, "called", turns[c].attempt, turns[c].answer)

CancelPasses(c) ==
    /\ cancels'[c].step = "next" /\ cancels'[c].session = cancels[c].session
    /\ cancels'[c].left = Tail(cancels[c].left)
    /\ \A d \in Cancellers : d # c => cancels'[d] = cancels[d]
    /\ turns' = turns

CancelStaysAt(c, step) ==
    /\ cancels'[c].step = step /\ cancels'[c].session = cancels[c].session
    /\ cancels'[c].left = cancels[c].left
    /\ \A d \in Cancellers : d # c => cancels'[d] = cancels[d]
    /\ turns' = turns

LEMMA CancelEndsMoves ==
    ASSUME Types, Counted, CancelsInOrder, NEW c \in Cancellers, Active(c), CancelDone(c)
    PROVE  /\ CancelEnds(c) /\ cancels' \in [Cancellers -> CancelRecords]
           /\ turns' \in Seq(TurnRecords) /\ Len(turns') <= MaxTurns /\ Counted'
<1>1. cancels' \in [Cancellers -> CancelRecords] /\ cancels'[c] = NoCancel
      /\ \A d \in Cancellers : d # c => cancels'[d] = cancels[d]
  BY NoCancelType DEF Types, CancelDone
<1>2. CASE c = 0
  BY <1>1, <1>2, SameTurnsCounted DEF CancelDone, CancelEnds, Types
<1>3. CASE c # 0
  <2>1. c \in DOMAIN turns
    BY <1>3 DEF CancelsInOrder
  <2>2. turns[c] \in TurnRecords
    BY <2>1, TurnIsKnown
  <2>3. turns[c].attempt \in {1, 2} /\ turns[c].answer \in Runs /\ "called" \in Pcs
    BY <2>2 DEF TurnRecords, Pcs
  <2>4. [turns[c] EXCEPT !.pc = "called", !.attempt = turns[c].attempt, !.answer = turns[c].answer]
        = [turns[c] EXCEPT !.pc = "called"]
    BY <2>2 DEF TurnRecords
  <2>5. turns' = [turns EXCEPT ![c] =
          [turns[c] EXCEPT !.pc = "called", !.attempt = turns[c].attempt, !.answer = turns[c].answer]]
    BY <1>3, <2>4 DEF CancelDone
  <2>6. /\ MovesTo(c, "called", turns[c].attempt, turns[c].answer) /\ turns' \in Seq(TurnRecords)
        /\ Len(turns') <= MaxTurns /\ Counted'
    BY <2>1, <2>3, <2>5, MovedTurn
  <2> QED
    BY <1>1, <1>3, <2>6 DEF CancelEnds
<1> QED
  BY <1>2, <1>3

LEMMA CancelChanges ==
    ASSUME Types, NEW c \in Cancellers
    PROVE  /\ \A step \in {"idle", "next", "locking", "interrupt"} :
                cancels' = [cancels EXCEPT ![c].step = step] /\ turns' = turns =>
                   CancelStaysAt(c, step) /\ cancels' \in [Cancellers -> CancelRecords]
           /\ NextLane(c) /\ cancels[c].left # <<>> =>
                CancelPasses(c) /\ cancels' \in [Cancellers -> CancelRecords]
<1>1. cancels \in [Cancellers -> CancelRecords] /\ cancels[c] \in CancelRecords
  BY DEF Types
<1>2. ASSUME NEW step \in {"idle", "next", "locking", "interrupt"},
             cancels' = [cancels EXCEPT ![c].step = step], turns' = turns
      PROVE  CancelStaysAt(c, step) /\ cancels' \in [Cancellers -> CancelRecords]
  <2>1. cancels' = [cancels EXCEPT ![c] = [cancels[c] EXCEPT !.step = step]]
    BY <1>2
  <2>2. [cancels[c] EXCEPT !.step = step] \in CancelRecords
    BY <1>1 DEF CancelRecords
  <2>3. cancels' \in [Cancellers -> CancelRecords] /\ cancels'[c] = [cancels[c] EXCEPT !.step = step]
        /\ \A d \in Cancellers : d # c => cancels'[d] = cancels[d]
    BY <1>1, <2>1, <2>2
  <2> QED
    BY <1>1, <1>2, <2>3 DEF CancelStaysAt, CancelRecords
<1>3. ASSUME NextLane(c), cancels[c].left # <<>>
      PROVE  CancelPasses(c) /\ cancels' \in [Cancellers -> CancelRecords]
  <2> DEFINE r == [cancels[c] EXCEPT !.step = "next", !.left = Tail(@)]
  <2>1. cancels[c].left \in Seq(Lanes)
    BY <1>1 DEF CancelRecords
  <2>2. Tail(cancels[c].left) \in Seq(Lanes)
    BY <1>3, <2>1, TailProperties
  <2>3. r \in CancelRecords /\ r.step = "next" /\ r.left = Tail(cancels[c].left)
        /\ r.session = cancels[c].session
    BY <1>1, <2>2 DEF CancelRecords
  <2>4. cancels' = [cancels EXCEPT ![c] = r] /\ turns' = turns
    BY <1>3 DEF NextLane
  <2> HIDE DEF r
  <2>5. cancels' \in [Cancellers -> CancelRecords] /\ cancels'[c] = r
        /\ \A d \in Cancellers : d # c => cancels'[d] = cancels[d]
    BY <1>1, <2>3, <2>4
  <2> QED
    BY <2>3, <2>4, <2>5 DEF CancelPasses
<1> QED
  BY <1>2, <1>3

\* What a cancellation does at the lane it has come to.
KnowsIts(c, L) == adapter = "codex" /\ L.active.run # NoRun /\ L.active.session = cancels[c].session

CancelAtLane(c) ==
    LET l == Head(cancels[c].left)
        L == lanes[l]
        K == lanes'[l]
        answers(e) == e.is = "response" /\ e.do = "interrupt" /\ e.run = L.active.run IN
    /\ l \in Lanes /\ \A m \in Lanes : m # l => lanes'[m] = lanes[m]
    /\ \/ /\ cancels[c].step = "next" /\ SameWork(K, L) /\ K.queue = Append(L.queue, c)
          /\ CancelStaysAt(c, "locking")
       \/ /\ cancels[c].step = "locking" /\ KnowsIts(c, L) /\ Interrupts(K, L)
          /\ K.queue = L.queue /\ CancelStaysAt(c, "interrupt")
       \/ /\ cancels[c].step = "locking" /\ KnowsIts(c, L) /\ ~L.up
          /\ Quits(K) /\ K.queue = Tail(L.queue) /\ CancelEnds(c)
       \/ /\ cancels[c].step = "locking" /\ ~KnowsIts(c, L)
          /\ Quits(K) \/ (~L.spawned /\ SameWork(K, L))
          /\ K.queue = Tail(L.queue) /\ CancelPasses(c)
       \/ /\ cancels[c].step = "interrupt" /\ Quits(K) /\ K.queue = Tail(L.queue) /\ CancelEnds(c)
       \/ /\ cancels[c].step = "interrupt" /\ Hears(K, L) /\ K.active = NoTurn
          /\ answers(Head(L.events)) /\ Head(L.events).ok
          /\ K.queue = Tail(L.queue) /\ CancelPasses(c)
       \/ /\ cancels[c].step = "interrupt" /\ Hears(K, L) /\ K.active = L.active
          /\ K.queue = L.queue /\ CancelStaysAt(c, "interrupt")

CancelMoves(c) ==
    /\ UNCHANGED <<adapter, slots, spec, faults>>
    /\ \/ cancels[c].step = "next" /\ cancels[c].left = <<>> /\ CancelEnds(c) /\ lanes' = lanes
       \/ cancels[c].left # <<>> /\ CancelAtLane(c)

LEMMA CancelGoesOnMoves ==
    ASSUME Types, Counted, CancelsInOrder, NEW c \in Cancellers, CancelGoesOn(c)
    PROVE  Types' /\ Counted' /\ CancelMoves(c)
<1> DEFINE left == cancels[c].left
           l == Head(left)
<1>1. /\ cancels[c].step = "next" /\ Active(c) /\ UNCHANGED <<adapter, slots, spec, faults>>
      /\ left \in Seq(Lanes) /\ lanes \in [Lanes -> LaneRecords]
  BY DEF CancelGoesOn, Active, Types, CancelRecords
<1>2. CASE left = <<>>
  <2>1. CancelDone(c) /\ UNCHANGED lanes
    BY <1>2 DEF CancelGoesOn
  <2>2. /\ CancelEnds(c) /\ cancels' \in [Cancellers -> CancelRecords]
        /\ turns' \in Seq(TurnRecords) /\ Len(turns') <= MaxTurns /\ Counted'
    BY <1>1, <2>1, CancelEndsMoves
  <2> QED
    BY <1>1, <1>2, <2>1, <2>2 DEF CancelMoves, Types
<1>3. CASE left # <<>>
  <2> DEFINE q == Append(lanes[l].queue, c)
             K == [lanes[l] EXCEPT !.queue = q]
  <2>1. /\ lanes' = [lanes EXCEPT ![l].queue = Append(@, c)]
        /\ cancels' = [cancels EXCEPT ![c].step = "locking"] /\ turns' = turns
    BY <1>3 DEF CancelGoesOn
  <2>2. l \in Lanes
    BY <1>1, <1>3, TailProperties
  <2>3. lanes[l] \in LaneRecords /\ q \in Seq(Cancellers)
    BY <1>1, <2>2, AppendProperties DEF LaneRecords
  <2>4. lanes' = [lanes EXCEPT ![l] = K]
    BY <2>1
  <2> HIDE DEF q
  <2>5. K \in LaneRecords /\ SameWork(K, lanes[l]) /\ K.queue = q
    BY <2>3, QueuedLane
  <2> HIDE DEF K, l
  <2>6. lanes' \in [Lanes -> LaneRecords] /\ lanes'[l] = K /\ \A m \in Lanes : m # l => lanes'[m] = lanes[m]
    BY <1>1, <2>2, <2>4, <2>5
  <2>7. CancelStaysAt(c, "locking") /\ cancels' \in [Cancellers -> CancelRecords]
    BY <2>1, CancelChanges
  <2>8. CancelAtLane(c)
    BY <1>1, <2>2, <2>5, <2>6, <2>7 DEF CancelAtLane, q, l
  <2> QED
    BY <1>1, <1>3, <2>1, <2>6, <2>7, <2>8, SameTurnsCounted DEF CancelMoves, Types
<1> QED
  BY <1>2, <1>3

LEMMA HeldLane ==
    ASSUME Types, NEW c \in Cancellers, cancels[c].left # <<>>
    PROVE  LET l == Head(cancels[c].left) IN
           /\ l \in Lanes /\ lanes[l] \in LaneRecords
           /\ lanes \in [Lanes -> LaneRecords]
<1>1. cancels[c].left \in Seq(Lanes) /\ lanes \in [Lanes -> LaneRecords]
  BY DEF Types, CancelRecords
<1>2. Head(cancels[c].left) \in Lanes
  BY <1>1, TailProperties
<1> QED
  BY <1>1, <1>2

LEMMA CancelLaneMoves ==
    ASSUME Types, Counted, CancelsInOrder, SlotsInOrder, NEW c \in Cancellers, CancelLane(c)
    PROVE  Types' /\ Counted' /\ CancelMoves(c)
<1> DEFINE l == Head(cancels[c].left)
           L == lanes[l]
<1>1. /\ cancels[c].step = "locking" /\ Active(c) /\ UNCHANGED <<adapter, slots, spec, faults>>
      /\ cancels[c].left # <<>> /\ Holds(c, l)
  BY DEF CancelLane, Active, CancelsInOrder
<1>2. l \in Lanes /\ L \in LaneRecords /\ lanes \in [Lanes -> LaneRecords] /\ L.queue # <<>>
      /\ Head(L.queue) = c
  BY <1>1, HeldLane DEF Holds
<1>3. CASE /\ KnowsIts(c, L)
           /\ lanes' = Reaped([lanes EXCEPT ![l] =
                          Sent(L, [do |-> "interrupt", run |-> L.active.run])], slots)
           /\ cancels' = [cancels EXCEPT ![c].step = "interrupt"] /\ UNCHANGED turns
  <2> DEFINE m == [do |-> "interrupt", run |-> L.active.run]
             K == Sent(L, m)
  <2>1. m \in Requests
    BY <1>2 DEF LaneRecords, Requests
  <2>2. lanes' = Reaped([lanes EXCEPT ![l] = K], slots)
    BY <1>3
  <2> HIDE DEF m
  <2>3. /\ K \in LaneRecords /\ K.queue = L.queue
        /\ K.up = L.up /\ K.spawned = L.spawned
        /\ K.wire = IF L.up THEN Append(L.wire, m) ELSE L.wire
        /\ K.events = L.events /\ K.running = L.running /\ K.known = L.known
        /\ K.users = L.users
        /\ K.threads = L.threads /\ K.prints = L.prints /\ K.active = L.active
    BY <1>2, <2>1, SentLane
  <2> HIDE DEF K
  <2>4. /\ lanes' \in [Lanes -> LaneRecords] /\ \A k \in Lanes : k # l => lanes'[k] = lanes[k]
        /\ lanes'[l] = K
    BY <1>2, <1>3, <2>2, <2>3, SettledLanes DEF KnowsIts
  <2>5. Interrupts(K, L)
    BY <1>3, <2>3 DEF Interrupts, Writes, KnowsIts, m
  <2>6. CancelStaysAt(c, "interrupt") /\ cancels' \in [Cancellers -> CancelRecords]
    BY <1>3, CancelChanges
  <2>7. CancelAtLane(c)
    BY <1>1, <1>2, <1>3, <2>3, <2>4, <2>5, <2>6 DEF CancelAtLane
  <2> QED
    BY <1>1, <1>3, <2>4, <2>6, <2>7, SameTurnsCounted DEF CancelMoves, Types
<1>4. ASSUME NEW M \in LaneRecords, Quits(M) \/ (~L.spawned /\ SameWork(M, L)), M.queue = L.queue,
             lanes' = Reaped([lanes EXCEPT ![l] = Freed(M)], slots)
      PROVE  /\ lanes' \in [Lanes -> LaneRecords] /\ \A k \in Lanes : k # l => lanes'[k] = lanes[k]
             /\ Quits(lanes'[l]) \/ (~L.spawned /\ SameWork(lanes'[l], L))
             /\ Quits(M) => Quits(lanes'[l])
             /\ lanes'[l].queue = Tail(L.queue)
  <2> DEFINE K == Freed(M)
  <2>1. K \in LaneRecords /\ SameWork(K, M) /\ K.queue = Tail(L.queue)
    BY <1>2, <1>4, FreedLane
  <2>2. lanes' = Reaped([lanes EXCEPT ![l] = K], slots)
    BY <1>4
  <2> HIDE DEF K
  <2>3. /\ lanes' \in [Lanes -> LaneRecords] /\ \A k \in Lanes : k # l => lanes'[k] = lanes[k]
        /\ lanes'[l] = K \/ lanes'[l] = EmptyLane
        /\ lanes'[l].queue = K.queue
    BY <1>2, <2>1, <2>2, SettledLanes
  <2>4. Quits(M) => Quits(K)
    BY <2>1 DEF SameWork, Quits, Bare
  <2>5. SameWork(M, L) => SameWork(K, L)
    BY <2>1 DEF SameWork
  <2> QED
    BY <1>4, <2>1, <2>3, <2>4, <2>5, EmptyLaneQuits
<1>5. CASE /\ KnowsIts(c, L) /\ ~L.up
           /\ lanes' = Reaped([lanes EXCEPT ![l] = Freed(InvalidateProcess(L))], slots)
           /\ CancelDone(c)
  <2> DEFINE M == InvalidateProcess(L)
  <2>1. M \in LaneRecords /\ Quits(M) /\ M.queue = L.queue
    BY <1>2, InvalidatedLane DEF Quits
  <2>2. lanes' = Reaped([lanes EXCEPT ![l] = Freed(M)], slots)
    BY <1>5
  <2> HIDE DEF M
  <2>3. /\ lanes' \in [Lanes -> LaneRecords] /\ \A k \in Lanes : k # l => lanes'[k] = lanes[k]
        /\ Quits(lanes'[l]) /\ lanes'[l].queue = Tail(L.queue)
    BY <1>4, <2>1, <2>2
  <2>4. /\ CancelEnds(c) /\ cancels' \in [Cancellers -> CancelRecords]
        /\ turns' \in Seq(TurnRecords) /\ Len(turns') <= MaxTurns /\ Counted'
    BY <1>1, <1>5, CancelEndsMoves
  <2>5. CancelAtLane(c)
    BY <1>1, <1>2, <1>5, <2>3, <2>4 DEF CancelAtLane
  <2> QED
    BY <1>1, <2>3, <2>4, <2>5 DEF CancelMoves, Types
<1>6. CASE /\ ~KnowsIts(c, L)
           /\ lanes' = Reaped([lanes EXCEPT ![l] =
                          Freed(IF L.spawned THEN KillProcess(L) ELSE L)], slots)
           /\ NextLane(c)
  <2> DEFINE M == IF L.spawned THEN KillProcess(L) ELSE L
  <2>1. M \in LaneRecords /\ M.queue = L.queue /\ (Quits(M) \/ (~L.spawned /\ SameWork(M, L)))
    BY <1>2, InvalidatedLane, ZenonT(30) DEF Quits, SameWork
  <2>2. lanes' = Reaped([lanes EXCEPT ![l] = Freed(M)], slots)
    BY <1>6
  <2> HIDE DEF M
  <2>3. /\ lanes' \in [Lanes -> LaneRecords] /\ \A k \in Lanes : k # l => lanes'[k] = lanes[k]
        /\ Quits(lanes'[l]) \/ (~L.spawned /\ SameWork(lanes'[l], L))
        /\ lanes'[l].queue = Tail(L.queue)
    BY <1>4, <2>1, <2>2
  <2>4. CancelPasses(c) /\ cancels' \in [Cancellers -> CancelRecords] /\ turns' = turns
    BY <1>1, <1>6, CancelChanges DEF NextLane
  <2>5. CancelAtLane(c)
    BY <1>1, <1>2, <1>6, <2>3, <2>4 DEF CancelAtLane
  <2> QED
    BY <1>1, <2>3, <2>4, <2>5, SameTurnsCounted DEF CancelMoves, Types
<1> QED
  BY <1>3, <1>5, <1>6 DEF CancelLane, KnowsIts, WriteFails

LEMMA CancelReadsMoves ==
    ASSUME Types, Counted, CancelsInOrder, NEW c \in Cancellers, CancelReads(c)
    PROVE  Types' /\ Counted' /\ CancelMoves(c)
<1> DEFINE l == Head(cancels[c].left)
           L == lanes[l]
           rest == [L EXCEPT !.events = Tail(@), !.active = NoTurn]
           e == Head(L.events)
           answered == e.is = "response" /\ e.do = "interrupt" /\ e.run = L.active.run
<1>1. /\ cancels[c].step = "interrupt" /\ Active(c) /\ UNCHANGED <<adapter, slots, spec, faults>>
      /\ cancels[c].left # <<>> /\ Holds(c, l)
  BY DEF CancelReads, Active, CancelsInOrder
<1>2. l \in Lanes /\ L \in LaneRecords /\ lanes \in [Lanes -> LaneRecords] /\ L.queue # <<>>
      /\ Head(L.queue) = c /\ L.events \in Seq(Events)
  BY <1>1, HeldLane DEF Holds, LaneRecords
<1>3. CASE lanes' = [lanes EXCEPT ![l] = Freed(InvalidateProcess(L))] /\ CancelDone(c)
  <2> DEFINE M == InvalidateProcess(L)
             K == Freed(M)
  <2>1. M \in LaneRecords /\ Quits(M) /\ M.queue = L.queue
    BY <1>2, InvalidatedLane DEF Quits
  <2> HIDE DEF M
  <2>2. K \in LaneRecords /\ SameWork(K, M) /\ K.queue = Tail(L.queue)
    BY <1>2, <2>1, FreedLane
  <2>3. Quits(K)
    BY <2>1, <2>2 DEF SameWork, Quits, Bare
  <2>4. lanes' = [lanes EXCEPT ![l] = K]
    BY <1>3 DEF M
  <2> HIDE DEF K
  <2>5. /\ lanes' \in [Lanes -> LaneRecords] /\ \A k \in Lanes : k # l => lanes'[k] = lanes[k]
        /\ lanes'[l] = K
    BY <1>2, <2>2, <2>4
  <2>6. /\ CancelEnds(c) /\ cancels' \in [Cancellers -> CancelRecords]
        /\ turns' \in Seq(TurnRecords) /\ Len(turns') <= MaxTurns /\ Counted'
    BY <1>1, <1>3, CancelEndsMoves
  <2>7. CancelAtLane(c)
    BY <1>1, <1>2, <2>2, <2>3, <2>5, <2>6 DEF CancelAtLane
  <2> QED
    BY <1>1, <2>5, <2>6, <2>7 DEF CancelMoves, Types
<1>4. CASE L.events # <<>> /\ answered /\ e.ok /\ lanes' = [lanes EXCEPT ![l] = Freed(rest)] /\ NextLane(c)
  <2> DEFINE K == Freed(rest)
  <2>1. /\ rest \in LaneRecords /\ Hears(rest, L) /\ rest.active = NoTurn /\ rest.queue = L.queue
    <3>1. Tail(L.events) \in Seq(Events) /\ NoTurn \in [run : Runs, session : SessionNames]
      BY <1>2, <1>4, TailProperties, NoRunIsARun
    <3> QED
      BY <1>2, <1>4, <3>1 DEF LaneRecords, Hears
  <2> HIDE DEF rest
  <2>2. K \in LaneRecords /\ SameWork(K, rest) /\ K.queue = Tail(L.queue)
    BY <1>2, <2>1, FreedLane
  <2>3. Hears(K, L) /\ K.active = NoTurn
    BY <2>1, <2>2 DEF SameWork, Hears
  <2>4. lanes' = [lanes EXCEPT ![l] = K]
    BY <1>4
  <2> HIDE DEF K
  <2>5. /\ lanes' \in [Lanes -> LaneRecords] /\ \A k \in Lanes : k # l => lanes'[k] = lanes[k]
        /\ lanes'[l] = K
    BY <1>2, <2>2, <2>4
  <2>6. CancelPasses(c) /\ cancels' \in [Cancellers -> CancelRecords] /\ turns' = turns
    BY <1>1, <1>4, CancelChanges DEF NextLane
  <2>7. CancelAtLane(c)
    BY <1>1, <1>2, <1>4, <2>2, <2>3, <2>5, <2>6 DEF CancelAtLane
  <2> QED
    BY <1>1, <2>5, <2>6, <2>7, SameTurnsCounted DEF CancelMoves, Types
<1>5. CASE L.events # <<>> /\ lanes' = [lanes EXCEPT ![l].events = Tail(@)] /\ UNCHANGED <<cancels, turns>>
  <2> DEFINE K == [L EXCEPT !.events = Tail(@)]
  <2>1. K \in LaneRecords /\ Hears(K, L) /\ K.active = L.active /\ K.queue = L.queue
    BY <1>2, <1>5, ReadLane DEF Hears
  <2>2. lanes' = [lanes EXCEPT ![l] = K]
    BY <1>5
  <2> HIDE DEF K
  <2>3. /\ lanes' \in [Lanes -> LaneRecords] /\ \A k \in Lanes : k # l => lanes'[k] = lanes[k]
        /\ lanes'[l] = K
    BY <1>2, <2>1, <2>2
  <2>4. CancelStaysAt(c, "interrupt")
    BY <1>1, <1>5 DEF CancelStaysAt
  <2>5. CancelAtLane(c)
    BY <1>1, <1>2, <2>1, <2>3, <2>4 DEF CancelAtLane
  <2> QED
    BY <1>1, <1>5, <2>3, <2>5, SameTurnsCounted DEF CancelMoves, Types
<1>6. KillProcess(L) = InvalidateProcess(L)
  BY DEF KillProcess
<1> QED
  BY <1>3, <1>4, <1>5, <1>6 DEF CancelReads

\* Where a turn waits: at the lane of its conversation.
EntersLane(t, l) ==
    /\ turns[t].pc = "called"
    /\ DOMAIN turns' = DOMAIN turns
    /\ \A u \in DOMAIN turns : u # t => turns'[u] = turns[u]
    /\ turns'[t].pc = "waiting" /\ turns'[t].lane = l
    /\ turns'[t].attempt = turns[t].attempt /\ turns'[t].answer = turns[t].answer
    /\ turns'[t].session = turns[t].session /\ turns'[t].conv = turns[t].conv
    /\ turns'[t].ctx = turns[t].ctx /\ turns'[t].spec = turns[t].spec
    /\ turns'[t].aborted = turns[t].aborted /\ turns'[t].awaits = turns[t].awaits
    /\ SameWork(lanes'[l], lanes[l]) /\ lanes'[l].queue = Append(lanes[l].queue, t)
    /\ UNCHANGED <<adapter, cancels, spec, faults>>

\* claude_app's slot as the turn leaves it.
TakesSlot(s, l) ==
    LET same == slots.session = s IN
    /\ slots'.session = s
    /\ \/ same /\ slots' = slots /\ l \in {slots.discovery, slots.patch} /\ l # 0
       \/ /\ ~same \/ slots.discovery = 0
          /\ slots.warm # 0 /\ l = slots.warm
          /\ slots'.discovery = l /\ slots'.warm = 0
          /\ slots'.patch = IF same THEN slots.patch ELSE 0
       \/ /\ ~same \/ slots.discovery = 0
          /\ slots.warm = 0 /\ l \notin Referenced /\ lanes[l] = EmptyLane
          /\ slots'.discovery = l /\ slots'.warm = 0
          /\ slots'.patch = IF same THEN slots.patch ELSE 0
       \/ /\ ~same \/ slots.patch = 0
          /\ l \notin Referenced /\ lanes[l] = EmptyLane
          /\ slots'.patch = l /\ slots'.warm = slots.warm
          /\ slots'.discovery = IF same THEN slots.discovery ELSE 0

EnterMoves(t, l) ==
    /\ EntersLane(t, l)
    /\ adapter = "codex" => l \in {1, 2} /\ slots' = slots /\ \A m \in Lanes : m # l => lanes'[m] = lanes[m]
    /\ adapter = "stdio" => l = 1 /\ slots' = slots /\ \A m \in Lanes : m # l => lanes'[m] = lanes[m]
    /\ adapter = "claude" =>
         /\ TakesSlot(turns[t].session, l)
         /\ lanes[l] = EmptyLane \/ l \in Referenced
         /\ l \notin Referenced => \A c \in Cancellers : ~Given(c, l)
         /\ \A m \in Lanes : m # l =>
               \/ lanes'[m] = lanes[m] /\ (lanes[m].queue # <<>> \/ m \in Referenced')
               \/ lanes'[m] = EmptyLane /\ lanes[m].queue = <<>> /\ m \notin Referenced'

LEMMA SlotChoice ==
    ASSUME Types, SlotsInOrder, adapter = "claude", NEW s \in SessionNames,
           NEW phase \in {"discovery", "patch"}, Unused # {}, slots' = Slot(s, phase)
    PROVE  /\ slots' \in SlotRecords /\ Slot(s, phase)[phase] \in Lanes
           /\ TakesSlot(s, Slot(s, phase)[phase])
           /\ Slot(s, phase)[phase] \notin Referenced =>
                /\ lanes[Slot(s, phase)[phase]] = EmptyLane
                /\ \A c \in Cancellers : ~Given(c, Slot(s, phase)[phase])
<1> DEFINE mine == SlotsOf(s)
           same == slots.session = s
           f == FreshLane
<1>1. /\ slots \in SlotRecords /\ slots.discovery \in Lanes \cup {0} /\ slots.patch \in Lanes \cup {0}
      /\ slots.warm \in Lanes \cup {0}
  BY DEF Types, SlotRecords
<1>2. /\ mine \in SlotRecords /\ mine.session = s /\ mine.warm = slots.warm
      /\ mine.discovery = (IF same THEN slots.discovery ELSE 0)
      /\ mine.patch = (IF same THEN slots.patch ELSE 0)
      /\ same => mine = slots
  BY <1>1 DEF SlotsOf, SlotRecords
<1>3. f \in Lanes /\ f \notin Referenced /\ lanes[f] = EmptyLane /\ f # 0
      /\ \A c \in Cancellers : ~Given(c, f)
  BY UnusedLane
<1>4. slots.warm # 0 => lanes[slots.warm].queue = <<>>
  BY DEF SlotsInOrder, Unspoken
<1> DEFINE idle == mine.warm # 0 /\ lanes[mine.warm].queue = <<>>
<1>5. idle <=> slots.warm # 0
  BY <1>2, <1>4
<1>6. Referenced = {slots.discovery, slots.patch, slots.warm}
  BY DEF Referenced
<1>7. CASE mine[phase] # 0
  <2>1. Slot(s, phase) = mine
    BY <1>7 DEF Slot
  <2>2. same
    BY <1>2, <1>7
  <2>3. mine[phase] \in Lanes /\ mine[phase] \in {slots.discovery, slots.patch}
    BY <1>1, <1>2, <1>7, <2>2
  <2> QED
    BY <1>1, <1>2, <1>6, <1>7, <2>1, <2>2, <2>3 DEF TakesSlot
<1>8. CASE mine[phase] = 0 /\ phase = "discovery" /\ idle
  <2> DEFINE st == [mine EXCEPT !.discovery = mine.warm, !.warm = 0]
  <2>1. Slot(s, phase) = st
    BY <1>8 DEF Slot
  <2>2. /\ st \in SlotRecords /\ st[phase] = slots.warm /\ st.session = s /\ st.warm = 0
        /\ st.discovery = slots.warm /\ st.patch = (IF same THEN slots.patch ELSE 0)
    BY <1>1, <1>2, <1>8 DEF SlotRecords
  <2>3. ~same \/ slots.discovery = 0
    BY <1>2, <1>8
  <2> HIDE DEF st
  <2> QED
    BY <1>1, <1>5, <1>6, <1>8, <2>1, <2>2, <2>3 DEF TakesSlot
<1>9. CASE mine[phase] = 0 /\ phase = "discovery" /\ ~idle
  <2> DEFINE st == [mine EXCEPT !.discovery = f, !.warm = 0]
  <2>1. Slot(s, phase) = st
    BY <1>9 DEF Slot
  <2>2. /\ st \in SlotRecords /\ st[phase] = f /\ st.session = s /\ st.warm = 0
        /\ st.discovery = f /\ st.patch = (IF same THEN slots.patch ELSE 0)
    BY <1>1, <1>2, <1>3, <1>9 DEF SlotRecords
  <2>3. (~same \/ slots.discovery = 0) /\ slots.warm = 0
    BY <1>2, <1>5, <1>9
  <2> HIDE DEF st, f
  <2> QED
    BY <1>1, <1>3, <1>9, <2>1, <2>2, <2>3 DEF TakesSlot
<1>10. CASE mine[phase] = 0 /\ phase = "patch"
  <2> DEFINE st == [mine EXCEPT !.patch = f]
  <2>1. Slot(s, phase) = st
    BY <1>10 DEF Slot
  <2>2. /\ st \in SlotRecords /\ st[phase] = f /\ st.session = s /\ st.warm = slots.warm
        /\ st.patch = f /\ st.discovery = (IF same THEN slots.discovery ELSE 0)
    BY <1>1, <1>2, <1>3, <1>10 DEF SlotRecords
  <2>3. ~same \/ slots.patch = 0
    BY <1>2, <1>10
  <2> HIDE DEF st, f
  <2> QED
    BY <1>1, <1>3, <1>10, <2>1, <2>2, <2>3 DEF TakesSlot
<1> QED
  BY <1>7, <1>8, <1>9, <1>10

LEMMA EnteringTurn ==
    ASSUME Types, Counted, NEW t \in DOMAIN turns, turns[t].pc = "called", NEW l \in Lanes,
           turns' = [turns EXCEPT ![t].pc = "waiting", ![t].lane = l]
    PROVE  /\ turns' \in Seq(TurnRecords) /\ Len(turns') <= MaxTurns /\ Counted'
           /\ DOMAIN turns' = DOMAIN turns
           /\ \A u \in DOMAIN turns : u # t => turns'[u] = turns[u]
           /\ turns'[t].pc = "waiting" /\ turns'[t].lane = l
           /\ turns'[t].attempt = turns[t].attempt /\ turns'[t].answer = turns[t].answer
           /\ turns'[t].session = turns[t].session /\ turns'[t].conv = turns[t].conv
           /\ turns'[t].ctx = turns[t].ctx /\ turns'[t].spec = turns[t].spec
           /\ turns'[t].aborted = turns[t].aborted /\ turns'[t].awaits = turns[t].awaits
<1> DEFINE r == [turns[t] EXCEPT !.pc = "waiting", !.lane = l]
<1>1. turns[t] \in TurnRecords /\ "waiting" \in Pcs
  BY TurnIsKnown DEF Pcs
<1>2. /\ r \in TurnRecords /\ r.pc = "waiting" /\ r.lane = l
      /\ r.attempt = turns[t].attempt /\ r.answer = turns[t].answer
      /\ r.session = turns[t].session /\ r.conv = turns[t].conv
      /\ r.ctx = turns[t].ctx /\ r.spec = turns[t].spec
      /\ r.aborted = turns[t].aborted /\ r.awaits = turns[t].awaits
  BY <1>1 DEF TurnRecords
<1>3. turns' = [turns EXCEPT ![t] = r]
  OBVIOUS
<1> HIDE DEF r
<1>4. /\ turns' \in Seq(TurnRecords) /\ Len(turns') = Len(turns) /\ Len(turns') <= MaxTurns
      /\ DOMAIN turns' = DOMAIN turns /\ turns'[t] = r
      /\ \A u \in DOMAIN turns : u # t => turns'[u] = turns[u]
      /\ Counted'
  BY <1>2, <1>3, ChangedTurn
<1> QED
  BY <1>2, <1>4

LEMMA EnterSteps ==
    ASSUME Types, Counted, SlotsInOrder, EngineInOrder, NEW t \in DOMAIN turns, Enter(t)
    PROVE  Types' /\ Counted' /\ \E l \in Lanes : EnterMoves(t, l)
<1> DEFINE phase == Phase(turns[t].conv)
           st == IF adapter = "claude" THEN Slot(turns[t].session, phase) ELSE slots
           l == CASE adapter = "claude" -> st[phase]
                  [] adapter = "codex" -> LaneOf(turns[t].conv)
                  [] OTHER -> 1
           q == Append(lanes[l].queue, t)
           K == [lanes[l] EXCEPT !.queue = q]
           ls == [lanes EXCEPT ![l] = K]
<1>1. /\ turns[t].pc = "called" /\ (adapter = "claude" => Unused # {}) /\ slots' = st
      /\ lanes' = Reaped(ls, st)
      /\ turns' = [turns EXCEPT ![t].pc = "waiting", ![t].lane = l]
      /\ UNCHANGED <<adapter, cancels, spec, faults>>
  BY DEF Enter
<1>2. /\ turns[t] \in TurnRecords /\ turns[t].session \in SessionNames /\ t \in Cancellers
      /\ phase \in {"discovery", "patch"} /\ adapter \in {"codex", "claude", "stdio"}
      /\ lanes \in [Lanes -> LaneRecords] /\ slots \in SlotRecords
      /\ 1 \in Lanes /\ 2 \in Lanes
  BY TurnIsKnown, OwnRunType, BackendsAssumption DEF Types, TurnRecords, Phase, Lanes
<1> HIDE DEF phase
<1>3. /\ l \in Lanes /\ st \in SlotRecords
      /\ adapter = "codex" => l \in {1, 2} /\ slots' = slots
      /\ adapter = "stdio" => l = 1 /\ slots' = slots
      /\ adapter = "claude" =>
           /\ TakesSlot(turns[t].session, l)
           /\ l \notin Referenced => lanes[l] = EmptyLane /\ \A c \in Cancellers : ~Given(c, l)
  <2>1. CASE adapter = "claude"
    <3>1. st = Slot(turns[t].session, phase) /\ l = st[phase]
      BY <2>1
    <3> HIDE DEF st, l
    <3>2. slots' = Slot(turns[t].session, phase)
      BY <1>1, <3>1
    <3> DEFINE s == turns[t].session
    <3>3. s \in SessionNames
      BY <1>2
    <3> HIDE DEF s
    <3>4. slots' = Slot(s, phase) /\ l = Slot(s, phase)[phase]
      BY <3>1, <3>2 DEF s
    <3>5. /\ slots' \in SlotRecords /\ Slot(s, phase)[phase] \in Lanes
          /\ TakesSlot(s, Slot(s, phase)[phase])
          /\ Slot(s, phase)[phase] \notin Referenced =>
                /\ lanes[Slot(s, phase)[phase]] = EmptyLane
                /\ \A c \in Cancellers : ~Given(c, Slot(s, phase)[phase])
      BY <1>1, <1>2, <2>1, <3>3, <3>4, SlotChoice
    <3> QED
      BY <1>1, <2>1, <3>4, <3>5 DEF s
  <2>2. CASE adapter = "codex"
    <3>1. st = slots /\ l = LaneOf(turns[t].conv)
      BY <2>2
    <3>2. l \in {1, 2}
      BY <3>1 DEF LaneOf
    <3> HIDE DEF st, l
    <3> QED
      BY <1>1, <1>2, <2>2, <3>1, <3>2
  <2>3. CASE adapter = "stdio"
    <3>1. st = slots /\ l = 1
      BY <2>3
    <3> HIDE DEF st, l
    <3> QED
      BY <1>1, <1>2, <2>3, <3>1
  <2> QED
    BY <1>2, <2>1, <2>2, <2>3
<1> HIDE DEF st, l
<1>4. lanes[l] \in LaneRecords /\ q \in Seq(Cancellers) /\ q # <<>>
  <2>1. lanes[l] \in LaneRecords /\ lanes[l].queue \in Seq(Cancellers)
    BY <1>2, <1>3 DEF LaneRecords
  <2> QED
    BY <1>2, <2>1, AppendedProperties
<1> HIDE DEF q
<1>5. K \in LaneRecords /\ SameWork(K, lanes[l]) /\ K.queue = q
  BY <1>4, QueuedLane
<1> HIDE DEF K
<1>6. ls \in [Lanes -> LaneRecords] /\ ls[l] = K /\ \A m \in Lanes : m # l => ls[m] = lanes[m]
  BY <1>2, <1>3, <1>5
<1> HIDE DEF ls
<1>7. ASSUME NEW m \in Lanes
      PROVE  /\ lanes' \in [Lanes -> LaneRecords]
             /\ \/ lanes'[m] = ls[m] /\ (ls[m].queue # <<>> \/ m \in Referenced' \/ adapter # "claude")
                \/ (lanes'[m] = EmptyLane /\ adapter = "claude" /\ ls[m].queue = <<>> /\ m \notin Referenced')
  <2>1. /\ Reaped(ls, st) \in [Lanes -> LaneRecords]
        /\ Reaped(ls, st)[m] \in {ls[m], EmptyLane}
        /\ Reaped(ls, st)[m] # ls[m] =>
             adapter = "claude" /\ ls[m].queue = <<>> /\ m \notin {st.discovery, st.patch, st.warm}
        /\ adapter = "claude" /\ ls[m].queue = <<>> /\ m \notin {st.discovery, st.patch, st.warm} =>
             Reaped(ls, st)[m] = EmptyLane
    BY <1>6, ReapedLane
  <2>2. Referenced' = {st.discovery, st.patch, st.warm}
    BY <1>1 DEF Referenced
  <2> QED
    BY <1>1, <2>1, <2>2, Zenon
<1>8. lanes'[l] = K
  BY <1>3, <1>4, <1>5, <1>6, <1>7
<1>9. /\ turns' \in Seq(TurnRecords) /\ Len(turns') <= MaxTurns /\ Counted' /\ EntersLane(t, l)
  <2>1. turns' = [turns EXCEPT ![t].pc = "waiting", ![t].lane = l]
    BY <1>1
  <2>2. /\ turns' \in Seq(TurnRecords) /\ Len(turns') <= MaxTurns /\ Counted'
        /\ DOMAIN turns' = DOMAIN turns
        /\ \A u \in DOMAIN turns : u # t => turns'[u] = turns[u]
        /\ turns'[t].pc = "waiting" /\ turns'[t].lane = l
        /\ turns'[t].attempt = turns[t].attempt /\ turns'[t].answer = turns[t].answer
        /\ turns'[t].session = turns[t].session /\ turns'[t].conv = turns[t].conv
        /\ turns'[t].ctx = turns[t].ctx /\ turns'[t].spec = turns[t].spec
        /\ turns'[t].aborted = turns[t].aborted /\ turns'[t].awaits = turns[t].awaits
    BY <1>1, <1>3, <2>1, EnteringTurn
  <2> QED
    BY <1>1, <1>5, <1>8, <2>2 DEF EntersLane, q
<1>10. EnterMoves(t, l)
  <2>1. adapter # "claude" => \A m \in Lanes : m # l => lanes'[m] = lanes[m]
    BY <1>6, <1>7
  <2>2. ASSUME adapter = "claude", NEW m \in Lanes, m # l
        PROVE  \/ lanes'[m] = lanes[m] /\ (lanes[m].queue # <<>> \/ m \in Referenced')
               \/ lanes'[m] = EmptyLane /\ lanes[m].queue = <<>> /\ m \notin Referenced'
    <3>1. ls[m] = lanes[m]
      BY <1>6, <2>2
    <3> QED
      BY <1>7, <2>2, <3>1
  <2> QED
    BY <1>3, <1>9, <2>1, <2>2 DEF EnterMoves
<1>11. slots' \in SlotRecords /\ lanes' \in [Lanes -> LaneRecords]
  BY <1>1, <1>3, <1>7
<1> QED
  BY <1>1, <1>3, <1>9, <1>10, <1>11 DEF Types

-----------------------------------------------------------------------------
(***************************************************************************)
(* Every step, in the form in which it is reasoned about                   *)
(***************************************************************************)
InOrder == Types /\ Counted /\ Places /\ LanesInOrder /\ EngineInOrder /\ SlotsInOrder

WarmMoves(f) ==
    /\ adapter = "claude" /\ UNCHANGED <<adapter, turns, cancels, spec, faults>>
    /\ f \in Lanes /\ f \notin Referenced /\ lanes[f] = EmptyLane /\ \A c \in Cancellers : ~Given(c, f)
    /\ slots'.warm = f /\ slots'.session = slots.session
    /\ slots.discovery = 0 /\ slots.patch = 0 /\ slots.warm = 0
    /\ slots'.discovery = 0 /\ slots'.patch = 0
    /\ Wakes(lanes'[f], lanes[f]) /\ lanes'[f].queue = <<>>
    /\ \A m \in Lanes : m # f => lanes'[m] = lanes[m]

BusyForm(t) ==
    /\ ~turns[t].aborted /\ TurnMoves(t) /\ UNCHANGED <<adapter, slots, cancels, spec, faults>>
    /\ turns[t].lane \in Lanes /\ InLane(t) /\ Holds(t, turns[t].lane)
    /\ lanes[turns[t].lane].queue # <<>> /\ Head(lanes[turns[t].lane].queue) = t
    /\ lanes[turns[t].lane] \in LaneRecords

CancelForm(c) ==
    /\ CancelMoves(c) /\ Active(c)
    /\ cancels[c].step \in {"locking", "interrupt"} => Holds(c, Head(cancels[c].left))

AgentForm(l) ==
    /\ AgentSteps(lanes'[l], lanes[l])
    /\ \A m \in Lanes : m # l => lanes'[m] = lanes[m]
    /\ UNCHANGED <<adapter, turns, slots, cancels, spec>>

OtherForm ==
    \/ \E f \in Lanes : WarmMoves(f)
    \/ \E t \in DOMAIN turns : AwaitMoves(t) /\ ~turns[t].aborted
    \/ \E t \in DOMAIN turns : DropMoves(t)
    \/ \E t \in DOMAIN turns, l \in Lanes : EnterMoves(t, l) /\ ~turns[t].aborted
    \/ \E t \in DOMAIN turns : BusyForm(t)
    \/ \E c \in Cancellers : CancelForm(c)
    \/ \E l \in Lanes : AgentForm(l)

StepForm == OtherForm \/ \E a, new : Calling(a, new)

LEMMA CallForms ==
    ASSUME InOrder, Calls
    PROVE  /\ Types' /\ Counted'
           /\ (\E a, new : Calling(a, new)) \/ (\E f \in Lanes : WarmMoves(f))
<1> USE DEF InOrder
<1>1. CASE \E s \in Sessions, conv \in Conversations, ctx \in Contexts : Ask(s, conv, ctx)
  BY <1>1, AskSteps
<1>2. CASE \E s \in Sessions : Speculate(s)
  BY <1>2, SpeculateSteps
<1>3. CASE \E t \in DOMAIN turns : AbortPending(t)
  BY <1>3, AbortPendingSteps
<1>4. CASE \E s \in Sessions : CancelSpeculation(s)
  BY <1>4, CancelSpeculationSteps
<1>5. CASE WarmUp
  <2>1. CASE adapter = "claude"
    BY <1>5, <2>1, ClaudeWarmsUp DEF WarmMoves
  <2>2. CASE adapter # "claude"
    BY <1>5, <2>2, CodexWarmsUp
  <2> QED
    BY <2>1, <2>2
<1> QED
  BY <1>1, <1>2, <1>3, <1>4, <1>5 DEF Calls

LEMMA NextForms ==
    ASSUME InOrder, Next
    PROVE  Types' /\ Counted' /\ (OtherForm \/ (Calls /\ \E a, new : Calling(a, new)))
<1> USE DEF InOrder
<1>1. CASE Calls
  BY <1>1, CallForms DEF OtherForm
<1>2. CASE Agent
  <2>1. PICK l \in Lanes : AgentTakes(l) \/ AgentFinishes(l) \/ AgentFaults(l)
    BY <1>2 DEF Agent
  <2>2. /\ AgentForm(l) /\ UNCHANGED turns /\ Types'
    BY <2>1, AgentLane DEF AgentForm
  <2> QED
    BY <2>2, SameTurnsCounted DEF OtherForm
<1>3. ASSUME NEW t \in DOMAIN turns, ~turns[t].aborted, Begin(t) \/ Read(t) \/ EndOfFile(t) \/ Timeout(t)
      PROVE  Types' /\ Counted' /\ OtherForm
  <2>1. /\ TurnMoves(t) /\ UNCHANGED <<adapter, slots, cancels, spec, faults>> /\ Types'
        /\ turns[t].lane \in Lanes /\ InLane(t) /\ Holds(t, turns[t].lane)
        /\ lanes[turns[t].lane].queue # <<>> /\ Head(lanes[turns[t].lane].queue) = t
        /\ lanes[turns[t].lane] \in LaneRecords
    BY <1>3, BusyMoves
  <2>2. BusyForm(t) /\ Counted'
    BY <1>3, <2>1 DEF BusyForm, TurnMoves
  <2> QED
    BY <2>1, <2>2 DEF OtherForm
<1>4. ASSUME NEW t \in Turns, Steps(t) PROVE Types' /\ Counted' /\ OtherForm
  <2>1. t \in DOMAIN turns
    BY <1>4 DEF Steps
  <2>2. CASE Dropped(t)
    BY <2>1, <2>2, DroppedMoves DEF OtherForm
  <2>3. CASE ~turns[t].aborted /\ AwaitEnds(t)
    BY <2>1, <2>3, AwaitEndsMoves DEF OtherForm
  <2>4. CASE ~turns[t].aborted /\ Enter(t)
    BY <2>1, <2>4, EnterSteps DEF OtherForm
  <2> QED
    BY <1>3, <1>4, <2>1, <2>2, <2>3, <2>4 DEF Steps
<1>5. ASSUME NEW t \in Turns, Expires(t) PROVE Types' /\ Counted' /\ OtherForm
  BY <1>3, <1>5 DEF Expires
<1>6. ASSUME NEW c \in Cancellers, CancelSteps(c) PROVE Types' /\ Counted' /\ OtherForm
  <2>1. CancelsInOrder
    BY DEF Places
  <2>2. Types' /\ Counted' /\ CancelMoves(c)
    BY <1>6, <2>1, CancelGoesOnMoves, CancelLaneMoves, CancelReadsMoves DEF CancelSteps
  <2>3. Active(c)
    BY <1>6 DEF CancelSteps, Active, CancelGoesOn, CancelLane, CancelReads
  <2>4. cancels[c].step \in {"locking", "interrupt"} => Holds(c, Head(cancels[c].left))
    BY <1>6, <2>1 DEF CancelSteps, CancelGoesOn, CancelLane, CancelReads, CancelsInOrder
  <2> QED
    BY <2>2, <2>3, <2>4 DEF CancelForm, OtherForm
<1> QED
  BY <1>1, <1>2, <1>4, <1>5, <1>6 DEF Next
LEMMA NextStepForm ==
    ASSUME InOrder, Next
    PROVE  Types' /\ Counted' /\ StepForm
BY NextForms DEF StepForm

\* What the turn that holds a lane does to it.
OwnerSteps(t, K, L) ==
    \/ Opens(t, K, L)
    \/ \E do \in {"models", "thread"} : AsksFor(do, t, K, L)
    \/ StartsTurn(t, K, L) \/ StartsReading(t, K, L) \/ StreamsTurn(t, K, L)

LaneStep(l) ==
    LET K == lanes'[l]
        L == lanes[l] IN
    \/ SameWork(K, L) \/ Quits(K) \/ Loses(K, L) \/ Hears(K, L) \/ Wakes(K, L)
    \/ Interrupts(K, L) \/ AgentSteps(K, L)
    \/ \E t \in DOMAIN turns :
          /\ turns[t].lane = l /\ InLane(t) /\ Holds(t, l) /\ ~turns[t].aborted
          /\ OwnerSteps(t, K, L)

\* A turn is the same call as before.
TurnsKept ==
    /\ adapter' = adapter
    /\ \A t \in DOMAIN turns :
          /\ t \in DOMAIN turns'
          /\ turns'[t].session = turns[t].session /\ turns'[t].conv = turns[t].conv
          /\ turns'[t].ctx = turns[t].ctx /\ turns'[t].spec = turns[t].spec
          /\ turns[t].aborted => turns'[t].aborted

LEMMA SameWorkHere == \A L : SameWork(L, L)
BY DEF SameWork

LEMMA MarkedTurn ==
    ASSUME NEW r \in TurnRecords
    PROVE  /\ Marked(r).session = r.session /\ Marked(r).conv = r.conv /\ Marked(r).ctx = r.ctx
           /\ Marked(r).spec = r.spec /\ Marked(r).pc = r.pc /\ Marked(r).lane = r.lane
           /\ Marked(r).attempt = r.attempt /\ Marked(r).awaits = r.awaits
           /\ Marked(r).answer = r.answer /\ Marked(r).aborted
BY DEF Marked, TurnRecords

LEMMA CallingKeeps ==
    ASSUME Types, NEW a, NEW new, Calling(a, new)
    PROVE  /\ TurnsKept /\ UNCHANGED <<adapter, lanes, slots, faults>>
           /\ \A t \in DOMAIN turns :
                 /\ turns'[t].pc = turns[t].pc /\ turns'[t].lane = turns[t].lane
                 /\ turns'[t].attempt = turns[t].attempt /\ turns'[t].answer = turns[t].answer
                 /\ turns'[t].awaits = turns[t].awaits
                 /\ turns'[t].aborted = (turns[t].aborted \/ t = a)
           /\ DOMAIN turns' = DOMAIN turns \cup new /\ new \subseteq {Len(turns) + 1}
           /\ \A t \in new : t \notin DOMAIN turns
<1>1. /\ UNCHANGED <<adapter, lanes, slots, faults>> /\ AbortsOne(a) /\ Adds(new)
  BY DEF Calling
<1>2. /\ DOMAIN turns' = DOMAIN turns \cup new /\ new \subseteq {Len(turns) + 1}
  BY <1>1 DEF Adds
<1>3. Len(turns) \in Nat /\ DOMAIN turns = 1 .. Len(turns)
  BY LenProperties DEF Types
<1>4. \A t \in new : t \notin DOMAIN turns
  BY <1>2, <1>3
<1>5. ASSUME NEW t \in DOMAIN turns
      PROVE  /\ t \in DOMAIN turns'
             /\ turns'[t].session = turns[t].session /\ turns'[t].conv = turns[t].conv
             /\ turns'[t].ctx = turns[t].ctx /\ turns'[t].spec = turns[t].spec
             /\ turns'[t].pc = turns[t].pc /\ turns'[t].lane = turns[t].lane
             /\ turns'[t].attempt = turns[t].attempt /\ turns'[t].answer = turns[t].answer
             /\ turns'[t].awaits = turns[t].awaits
             /\ turns'[t].aborted = (turns[t].aborted \/ t = a)
  <2>1. turns[t] \in TurnRecords
    BY TurnIsKnown
  <2>2. turns[t].aborted \in BOOLEAN
    BY <2>1 DEF TurnRecords
  <2>3. CASE t = a
    <3>1. turns'[t] = Marked(turns[t])
      BY <1>1, <2>3 DEF AbortsOne
    <3>2. turns'[t].aborted = TRUE
      BY <2>1, <3>1 DEF Marked, TurnRecords
    <3>3. /\ turns'[t].session = turns[t].session /\ turns'[t].conv = turns[t].conv
          /\ turns'[t].ctx = turns[t].ctx /\ turns'[t].spec = turns[t].spec
          /\ turns'[t].pc = turns[t].pc /\ turns'[t].lane = turns[t].lane
          /\ turns'[t].attempt = turns[t].attempt /\ turns'[t].answer = turns[t].answer
          /\ turns'[t].awaits = turns[t].awaits
      BY <2>1, <3>1, MarkedTurn
    <3>4. t \in DOMAIN turns'
      BY <1>2
    <3> QED
      BY <2>3, <3>2, <3>3, <3>4
  <2>4. CASE t # a
    <3>1. turns'[t] = turns[t]
      BY <1>1, <2>4 DEF AbortsOne
    <3> QED
      BY <1>2, <2>2, <2>4, <3>1
  <2> QED
    BY <2>3, <2>4
<1> QED
  BY <1>1, <1>2, <1>4, <1>5 DEF TurnsKept

LEMMA MovesKeep ==
    ASSUME NEW t \in DOMAIN turns, NEW pc, NEW attempt, NEW answer, MovesTo(t, pc, attempt, answer),
           adapter' = adapter
    PROVE  TurnsKept
BY DEF MovesTo, TurnsKept

LEMMA TurnFormKeeps ==
    ASSUME NEW t \in DOMAIN turns, TurnForm(t), adapter' = adapter
    PROVE  TurnsKept
<1>1. CASE turns' = turns
  BY <1>1 DEF TurnsKept
<1>2. CASE \E pc, attempt, answer : MovesTo(t, pc, attempt, answer)
  BY <1>2, MovesKeep
<1>3. turns' = turns \/ \E pc, attempt, answer : MovesTo(t, pc, attempt, answer)
  BY DEF TurnForm
<1> QED
  BY <1>1, <1>2, <1>3

LEMMA StepsKeep ==
    ASSUME Types, CancelsInOrder, StepForm
    PROVE  TurnsKept
<1>1. CASE \E a, new : Calling(a, new)
  BY <1>1, CallingKeeps
<1>2. CASE \E f \in Lanes : WarmMoves(f)
  BY <1>2 DEF WarmMoves, TurnsKept
<1>3. CASE \E t \in DOMAIN turns : AwaitMoves(t) /\ ~turns[t].aborted
  BY <1>3 DEF AwaitMoves, TurnsKept
<1>4. CASE \E t \in DOMAIN turns : DropMoves(t)
  BY <1>4, MovesKeep DEF DropMoves
<1>5. CASE \E t \in DOMAIN turns, l \in Lanes : EnterMoves(t, l) /\ ~turns[t].aborted
  BY <1>5 DEF EnterMoves, EntersLane, TurnsKept
<1>6. CASE \E t \in DOMAIN turns : BusyForm(t)
  BY <1>6, TurnFormKeeps DEF BusyForm, TurnMoves
<1>7. ASSUME NEW c \in Cancellers, CancelForm(c) PROVE TurnsKept
  <2>1. adapter' = adapter
    BY <1>7 DEF CancelForm, CancelMoves
  <2>2. CASE turns' = turns
    BY <2>1, <2>2 DEF TurnsKept
  <2>3. CASE CancelEnds(c)
    <3>1. CASE c = 0
      BY <2>2, <2>3, <3>1 DEF CancelEnds
    <3>2. CASE c # 0
      <4>1. c \in DOMAIN turns
        BY <1>7, <3>2 DEF CancelsInOrder, CancelForm
      <4> QED
        BY <2>1, <2>3, <3>2, <4>1, MovesKeep DEF CancelEnds
    <3> QED
      BY <3>1, <3>2
  <2>4. turns' = turns \/ CancelEnds(c)
    BY <1>7 DEF CancelForm, CancelMoves, CancelAtLane, CancelPasses, CancelStaysAt
  <2> QED
    BY <2>2, <2>3, <2>4
<1>8. CASE \E l \in Lanes : AgentForm(l)
  BY <1>8 DEF AgentForm, TurnsKept
<1> QED
  BY <1>1, <1>2, <1>3, <1>4, <1>5, <1>6, <1>7, <1>8 DEF StepForm, OtherForm

LEMMA LaneSteps ==
    ASSUME Types, StepForm, NEW l \in Lanes
    PROVE  LaneStep(l)
<1>1. CASE \E a, new : Calling(a, new)
  BY <1>1, SameWorkHere DEF Calling, LaneStep
<1>2. CASE \E f \in Lanes : WarmMoves(f)
  BY <1>2, SameWorkHere DEF WarmMoves, LaneStep
<1>3. CASE \E t \in DOMAIN turns : AwaitMoves(t) /\ ~turns[t].aborted
  BY <1>3, SameWorkHere DEF AwaitMoves, LaneStep
<1>4. CASE \E t \in DOMAIN turns : DropMoves(t)
  BY <1>4, SameWorkHere, EmptyLaneQuits DEF DropMoves, LaneStep
<1>5. ASSUME NEW t \in DOMAIN turns, NEW k \in Lanes, EnterMoves(t, k), ~turns[t].aborted
      PROVE  SameWork(lanes'[l], lanes[l]) \/ Quits(lanes'[l])
  <2>1. CASE l = k
    BY <1>5, <2>1 DEF EnterMoves, EntersLane
  <2>2. CASE l # k
    <3>1. adapter \in {"codex", "claude", "stdio"}
      BY BackendsAssumption DEF Types
    <3>2. lanes'[l] = lanes[l] \/ lanes'[l] = EmptyLane
      BY <1>5, <2>2, <3>1 DEF EnterMoves
    <3> QED
      BY <3>2, SameWorkHere, EmptyLaneQuits
  <2> QED
    BY <2>1, <2>2
<1>6. ASSUME NEW t \in DOMAIN turns, BusyForm(t) PROVE LaneStep(l)
  <2>1. CASE l # turns[t].lane
    BY <1>6, <2>1, SameWorkHere DEF BusyForm, TurnMoves, LaneStep
  <2>2. CASE l = turns[t].lane
    <3> DEFINE K == lanes'[l]
               L == lanes[l]
    <3>1. /\ InLane(t) /\ Holds(t, l) /\ ~turns[t].aborted
      BY <1>6, <2>2 DEF BusyForm
    <3>2. \/ SameWork(K, L) \/ Quits(K) \/ Loses(K, L) \/ Hears(K, L) \/ OwnerSteps(t, K, L)
      BY <1>6, <2>2 DEF BusyForm, TurnMoves, TurnForm, StopsWith, OwnerSteps
    <3> HIDE DEF K, L
    <3> QED
      BY <2>2, <3>1, <3>2 DEF LaneStep, K, L
  <2> QED
    BY <2>1, <2>2
<1>7. ASSUME NEW c \in Cancellers, CancelForm(c) PROVE LaneStep(l)
  <2>1. CASE lanes' = lanes
    BY <2>1, SameWorkHere DEF LaneStep
  <2>2. CASE CancelAtLane(c)
    <3>1. CASE l # Head(cancels[c].left)
      BY <2>2, <3>1, SameWorkHere DEF CancelAtLane, LaneStep
    <3>2. CASE l = Head(cancels[c].left)
      BY <2>2, <3>2 DEF CancelAtLane, LaneStep
    <3> QED
      BY <3>1, <3>2
  <2> QED
    BY <1>7, <2>1, <2>2 DEF CancelForm, CancelMoves
<1>8. CASE \E k \in Lanes : AgentForm(k)
  BY <1>8, SameWorkHere DEF AgentForm, LaneStep
<1> QED
  BY <1>1, <1>2, <1>3, <1>4, <1>5, <1>6, <1>7, <1>8 DEF StepForm, OtherForm, LaneStep

LEMMA LaneFields ==
    ASSUME Types, NEW l \in Lanes
    PROVE  /\ lanes[l] \in LaneRecords
           /\ lanes[l].wire \in Seq(Requests) /\ lanes[l].events \in Seq(Events)
           /\ lanes[l].running \in Seq(Runs) /\ lanes[l].queue \in Seq(Cancellers)
           /\ lanes[l].threads \in SUBSET ThreadRecords
           /\ lanes[l].prints \in SUBSET (Runs \X Prints)
           /\ lanes[l].known \in SUBSET (Runs \X (Prints \cup {"refused"}))
           /\ lanes[l].users \in SUBSET (Runs \X SessionNames)
BY DEF Types, LaneRecords

LaneInOrder(L) ==
    /\ L.up => L.spawned
    /\ ~L.up => L.wire = <<>> /\ L.running = <<>>
    /\ ~L.spawned => L.events = <<>> /\ L.active = NoTurn
    /\ adapter # "codex" => L.active = NoTurn

LEMMA KeepsLaneInOrder ==
    ASSUME Types, Types', adapter' = adapter, NEW l \in Lanes, LaneInOrder(lanes[l]), LaneStep(l)
    PROVE  LaneInOrder(lanes'[l])
<1> DEFINE K == lanes'[l]
           L == lanes[l]
<1>1. /\ L.wire \in Seq(Requests) /\ L.events \in Seq(Events) /\ L.running \in Seq(Runs)
      /\ LaneInOrder(L)
  BY LaneFields
<1>2. \A i \in DOMAIN L.running : L.up
  BY <1>1, EmptySeq DEF LaneInOrder
<1> SUFFICES LaneInOrder(K)
  OBVIOUS
<1> HIDE DEF K, L
<1>3. CASE SameWork(K, L)
  BY <1>1, <1>3 DEF SameWork, LaneInOrder
<1>4. CASE Quits(K)
  BY <1>4 DEF Quits, Bare, LaneInOrder
<1>5. CASE Loses(K, L)
  BY <1>1, <1>5 DEF Loses, Bare, LaneInOrder
<1>6. CASE Hears(K, L)
  BY <1>1, <1>6 DEF Hears, LaneInOrder
<1>7. CASE Wakes(K, L)
  BY <1>7 DEF Wakes, LaneInOrder
<1>8. CASE Interrupts(K, L)
  BY <1>1, <1>8, NoRunIsARun DEF Interrupts, Writes, LaneInOrder, NoTurn
<1>9. CASE AgentSteps(K, L)
  <2>1. K.up => K.spawned
    BY <1>1, <1>9 DEF AgentSteps, SamePlace, LaneInOrder, Answered, TakesTurn, Refuses,
                      IsInterrupted, Finishes, Crashes, Garbles
  <2>2. ~K.up => K.wire = <<>> /\ K.running = <<>>
    BY <1>1, <1>2, <1>9 DEF AgentSteps, LaneInOrder, Answered, TakesTurn, Refuses,
                      IsInterrupted, Finishes, Crashes, Garbles
  <2>3. ~K.spawned => K.events = <<>> /\ K.active = NoTurn
    BY <1>1, <1>2, <1>9 DEF AgentSteps, SamePlace, LaneInOrder, Answered, TakesTurn, Refuses,
                      IsInterrupted, Finishes, Crashes, Garbles
  <2>4. adapter # "codex" => K.active = NoTurn
    BY <1>1, <1>9 DEF AgentSteps, SamePlace, LaneInOrder
  <2> QED
    BY <2>1, <2>2, <2>3, <2>4 DEF LaneInOrder
<1>10. ASSUME NEW t \in DOMAIN turns, OwnerSteps(t, K, L)
       PROVE  LaneInOrder(K)
  <2>1. CASE Opens(t, K, L)
    BY <2>1 DEF Opens, LaneInOrder
  <2>2. CASE \E do \in {"models", "thread"} : AsksFor(do, t, K, L)
    BY <1>1, <2>2 DEF AsksFor, Writes, ReadsOne, LaneInOrder
  <2>3. CASE StartsTurn(t, K, L)
    BY <1>1, <2>3 DEF StartsTurn, Writes, ReadsOne, LaneInOrder
  <2>4. CASE StartsReading(t, K, L)
    BY <1>1, <2>4 DEF StartsReading, LaneInOrder
  <2>5. CASE StreamsTurn(t, K, L)
    BY <1>1, <2>5 DEF StreamsTurn, Writes, LaneInOrder
  <2> QED
    BY <1>10, <2>1, <2>2, <2>3, <2>4, <2>5 DEF OwnerSteps
<1> QED
  BY <1>3, <1>4, <1>5, <1>6, <1>7, <1>8, <1>9, <1>10 DEF LaneStep, K, L

LEMMA LanesStayInOrder ==
    ASSUME InOrder, StepForm, Types'
    PROVE  LanesInOrder'
<1>1. TurnsKept
  BY StepsKeep DEF InOrder, Places
<1>2. adapter' = adapter
  BY <1>1 DEF TurnsKept
<1>3. ASSUME NEW l \in Lanes PROVE LaneInOrder(lanes'[l])
  <2>1. LaneInOrder(lanes[l])
    BY DEF InOrder, LanesInOrder, LaneInOrder
  <2> QED
    BY <1>2, <2>1, LaneSteps, KeepsLaneInOrder DEF InOrder
<1> QED
  BY <1>2, <1>3 DEF LanesInOrder, LaneInOrder

-----------------------------------------------------------------------------
(***************************************************************************)
(* Turns and cancellations stay in their places                            *)
(***************************************************************************)
In(c, q) == \E i \in DOMAIN q : q[i] = c
Heads(c, q) == q # <<>> /\ Head(q) = c

LEMMA QueueOps ==
    ASSUME NEW q \in Seq(Cancellers), IsInjective(q)
    PROVE  /\ \A x \in Cancellers : ~In(x, q) =>
                /\ IsInjective(Append(q, x))
                /\ \A c : In(c, Append(q, x)) <=> In(c, q) \/ c = x
                /\ \A c : Heads(c, q) => Heads(c, Append(q, x))
           /\ q # <<>> => /\ IsInjective(Tail(q))
                          /\ \A c : In(c, Tail(q)) <=> In(c, q) /\ c # Head(q)
           /\ \A x : /\ IsInjective(Without(q, x))
                     /\ \A c : In(c, Without(q, x)) <=> In(c, q) /\ c # x
                     /\ \A c : Heads(c, q) /\ c # x => Heads(c, Without(q, x))
           /\ \A c : Heads(c, q) => In(c, q)
           /\ \A c : In(c, q) => c \in Cancellers
<1>1. ASSUME NEW x \in Cancellers, ~In(x, q)
      PROVE  /\ IsInjective(Append(q, x))
             /\ \A c : In(c, Append(q, x)) <=> In(c, q) \/ c = x
             /\ \A c : Heads(c, q) => Heads(c, Append(q, x))
  <2> DEFINE a == Append(q, x)
  <2>1. /\ a \in Seq(Cancellers) /\ a # <<>> /\ Len(q) \in Nat
        /\ DOMAIN q = 1 .. Len(q) /\ DOMAIN a = 1 .. Len(q) + 1
        /\ a[Len(q) + 1] = x /\ \A i \in DOMAIN q : a[i] = q[i]
        /\ Head(a) = IF q = <<>> THEN x ELSE Head(q)
    BY AppendedProperties
  <2> HIDE DEF a
  <2>2. \A i \in DOMAIN a : i \in DOMAIN q \/ i = Len(q) + 1
    BY <2>1
  <2>3. Len(q) + 1 \in DOMAIN a /\ \A i \in DOMAIN q : i \in DOMAIN a
    BY <2>1
  <2>4. IsInjective(a)
    BY <1>1, <2>1, <2>2 DEF IsInjective, In
  <2>5. \A c : In(c, a) <=> In(c, q) \/ c = x
    BY <2>1, <2>2, <2>3 DEF In
  <2>6. \A c : Heads(c, q) => Heads(c, a)
    BY <2>1 DEF Heads
  <2> QED
    BY <2>4, <2>5, <2>6 DEF a
<1>2. ASSUME q # <<>>
      PROVE  IsInjective(Tail(q)) /\ \A c : In(c, Tail(q)) <=> In(c, q) /\ c # Head(q)
  <2> DEFINE a == Tail(q)
  <2>1. /\ Len(q) \in Nat \ {0} /\ DOMAIN q = 1 .. Len(q) /\ q[1] = Head(q)
        /\ DOMAIN a = 1 .. Len(q) - 1
        /\ \A i \in DOMAIN a : i + 1 \in DOMAIN q /\ a[i] = q[i + 1]
    BY <1>2, TailProperties
  <2> HIDE DEF a
  <2>2. \A i, j \in DOMAIN a : i + 1 = j + 1 => i = j
    BY <2>1
  <2>3. IsInjective(a)
    BY <2>1, <2>2 DEF IsInjective
  <2>4. ASSUME NEW i \in DOMAIN a PROVE a[i] # Head(q) /\ In(a[i], q)
    <3>1. i + 1 # 1 /\ i + 1 \in DOMAIN q /\ 1 \in DOMAIN q
      BY <2>1
    <3> QED
      BY <2>1, <3>1 DEF IsInjective, In
  <2>5. ASSUME NEW i \in DOMAIN q, q[i] # Head(q) PROVE In(q[i], a)
    <3>1. i - 1 \in DOMAIN a /\ (i - 1) + 1 = i
      BY <2>1, <2>5
    <3> QED
      BY <2>1, <3>1 DEF In
  <2>6. \A c : In(c, a) <=> In(c, q) /\ c # Head(q)
    BY <2>4, <2>5 DEF In
  <2> QED
    BY <2>3, <2>6 DEF a
<1>3. ASSUME NEW x
      PROVE  /\ IsInjective(Without(q, x))
             /\ \A c : In(c, Without(q, x)) <=> In(c, q) /\ c # x
             /\ \A c : Heads(c, q) /\ c # x => Heads(c, Without(q, x))
  <2> DEFINE w == Without(q, x)
  <2>1. /\ \A j \in DOMAIN w : \E i \in DOMAIN q : i >= j /\ w[j] = q[i]
        /\ IsInjective(w) /\ \A j \in DOMAIN w : w[j] # x
        /\ \A i \in DOMAIN q : q[i] # x => \E j \in DOMAIN w : w[j] = q[i]
        /\ q # <<>> /\ Head(q) # x => w # <<>> /\ Head(w) = Head(q)
    BY WithoutProperties
  <2> HIDE DEF w
  <2>2. \A c : In(c, w) <=> In(c, q) /\ c # x
    BY <2>1 DEF In
  <2>3. \A c : Heads(c, q) /\ c # x => Heads(c, w)
    BY <2>1 DEF Heads
  <2> QED
    BY <2>1, <2>2, <2>3 DEF w
<1>4. ASSUME NEW c, Heads(c, q) PROVE In(c, q)
  <2>1. 1 \in DOMAIN q /\ q[1] = c
    BY <1>4, TailProperties DEF Heads
  <2> QED
    BY <2>1 DEF In
<1>5. \A c : In(c, q) => c \in Cancellers
  BY ElementOfSeq, LenProperties DEF In
<1> QED
  BY <1>1, <1>2, <1>3, <1>4, <1>5

\* The same about every lane, by its elements.
LEMMA PlacesByElement ==
    ASSUME Types, Places, NEW l \in Lanes
    PROVE  /\ lanes[l].queue \in Seq(Cancellers) /\ IsInjective(lanes[l].queue)
           /\ \A c : In(c, lanes[l].queue) => TurnIn(c, l) \/ CancelIn(c, l)
           /\ \A c : Queued(c, l) <=> In(c, lanes[l].queue)
           /\ \A c : Holds(c, l) <=> Heads(c, lanes[l].queue)
BY LaneFields DEF Places, QueuesInOrder, In, Queued, Holds, Heads

LEMMA PlacesByElementPrimed ==
    ASSUME \A l \in Lanes : IsInjective(lanes'[l].queue),
           \A l \in Lanes : \A c : In(c, lanes'[l].queue) => TurnIn(c, l)' \/ CancelIn(c, l)'
    PROVE  QueuesInOrder'
BY DEF QueuesInOrder, In

\* A turn on the way to a lane, or at it, is no canceller.
LEMMA TurnOrCanceller ==
    ASSUME Types, CancelsInOrder, NEW t \in DOMAIN turns, turns[t].pc # "cancelling"
    PROVE  cancels[t].step = "idle" /\ t \in Cancellers /\ t # 0
<1>1. t \in Cancellers /\ t # 0
  BY TurnIsKnown, OwnRunType
<1> QED
  BY <1>1 DEF CancelsInOrder, Active

\* The places again, by the elements of the queues.
PlacesIn ==
    /\ \A l \in Lanes : IsInjective(lanes[l].queue)
    /\ \A l \in Lanes : \A c : In(c, lanes[l].queue) => TurnIn(c, l) \/ CancelIn(c, l)
    /\ \A t \in DOMAIN turns :
          /\ InLane(t) => turns[t].lane \in Lanes /\ In(t, lanes[turns[t].lane].queue)
          /\ turns[t].pc \in Busy => Heads(t, lanes[turns[t].lane].queue)
          /\ turns[t].lane = 0 \/ turns[t].pc \in Ended \/ InLane(t)
          /\ turns[t].pc = "dropped" => turns[t].aborted
    /\ \A c \in Cancellers :
          /\ cancels[c].step = "idle" => cancels[c].left = <<>>
          /\ cancels[c].step \in {"locking", "interrupt"} =>
                cancels[c].left # <<>> /\ In(c, lanes[Head(cancels[c].left)].queue)
          /\ cancels[c].step = "interrupt" =>
                adapter = "codex" /\ Heads(c, lanes[Head(cancels[c].left)].queue)
          /\ c # 0 /\ Active(c) =>
                /\ c \in DOMAIN turns /\ turns[c].pc = "cancelling"
                /\ turns[c].session = cancels[c].session

LEMMA PlacesAreIn == Places <=> PlacesIn
BY DEF Places, PlacesIn, QueuesInOrder, TurnsInOrder, CancelsInOrder, In, Heads, Queued, Holds

LEMMA PlacesAreInPrimed == PlacesIn' => Places'
BY DEF Places, PlacesIn, QueuesInOrder, TurnsInOrder, CancelsInOrder, In, Heads, Queued, Holds

LEMMA LaneOfTurn ==
    ASSUME Types, NEW t \in DOMAIN turns
    PROVE  turns[t].pc \in Pcs /\ turns[t].lane \in Lanes \cup {0} /\ turns[t].aborted \in BOOLEAN
           /\ 0 \notin Lanes
BY TurnIsKnown DEF TurnRecords, Lanes

LEMMA CallingPlaces ==
    ASSUME InOrder, NEW a, NEW new, Calling(a, new)
    PROVE  PlacesIn'
<1>1. PlacesIn
  BY PlacesAreIn DEF InOrder
<1>2. /\ TurnsKept /\ UNCHANGED <<adapter, lanes, slots, faults>>
      /\ \A t \in DOMAIN turns :
            /\ turns'[t].pc = turns[t].pc /\ turns'[t].lane = turns[t].lane
            /\ turns'[t].session = turns[t].session
            /\ turns'[t].aborted = (turns[t].aborted \/ t = a)
      /\ DOMAIN turns' = DOMAIN turns \cup new
      /\ \A t \in new : t \notin DOMAIN turns
  <2>1. Types
    BY DEF InOrder
  <2>2. /\ TurnsKept /\ UNCHANGED <<adapter, lanes, slots, faults>>
        /\ \A t \in DOMAIN turns :
              /\ turns'[t].pc = turns[t].pc /\ turns'[t].lane = turns[t].lane
              /\ turns'[t].aborted = (turns[t].aborted \/ t = a)
        /\ DOMAIN turns' = DOMAIN turns \cup new
        /\ \A t \in new : t \notin DOMAIN turns
    BY <2>1, CallingKeeps
  <2>3. \A t \in DOMAIN turns : turns'[t].session = turns[t].session
    BY <2>2 DEF TurnsKept
  <2> QED
    BY <2>2, <2>3
<1>3. \A t \in new : turns'[t].lane = 0 /\ turns'[t].pc \in {"called", "cancelling", "awaiting"}
  BY DEF Calling, Adds
<1>4. ASSUME a # 0
      PROVE  \E c \in Cancellers :
                /\ cancels[c].step = "idle" /\ cancels'[c].step = "next"
                /\ cancels'[c].session = turns[a].session
                /\ \A d \in Cancellers : d # c => cancels'[d] = cancels[d]
                /\ c # 0 => c \in new /\ turns'[c].pc = "cancelling" /\ turns'[c].session = turns[a].session
  <2>1. PICK c \in Cancellers :
          /\ Starts0(c, turns[a].session)
          /\ c # 0 => c \in new /\ turns'[c].pc = "cancelling" /\ turns'[c].session = turns[a].session
    BY <1>4 DEF Calling
  <2>2. cancels \in [Cancellers -> CancelRecords]
    BY DEF InOrder, Types
  <2>3. PICK route \in CancelRoutes(turns[a].session) :
          /\ cancels[c].step = "idle"
          /\ cancels' = [cancels EXCEPT ![c] = [step |-> "next", session |-> turns[a].session, left |-> route]]
    BY <2>1 DEF Starts0
  <2> QED
    BY <2>1, <2>2, <2>3
<1>5. \A c \in Cancellers : cancels'[c] = cancels[c] \/
         (/\ cancels[c].step = "idle" /\ cancels'[c].step = "next"
          /\ c # 0 => c \in new /\ turns'[c].pc = "cancelling" /\ turns'[c].session = cancels'[c].session)
  <2>1. CASE a = 0
    BY <2>1 DEF Calling
  <2>2. CASE a # 0
    BY <1>4, <2>2
  <2> QED
    BY <2>1, <2>2
<1>6. \A c, l : TurnIn(c, l) => TurnIn(c, l)'
  BY <1>2 DEF TurnIn, InLane
<1>7. ASSUME NEW l \in Lanes, NEW c, In(c, lanes[l].queue), CancelIn(c, l) PROVE CancelIn(c, l)'
  <2>1. c \in Cancellers
    BY <1>7, PlacesByElement, QueueOps DEF InOrder
  <2> QED
    BY <1>5, <1>7, <2>1 DEF CancelIn
<1>8. ASSUME NEW t \in DOMAIN turns'
      PROVE  /\ InLane(t)' => turns'[t].lane \in Lanes /\ In(t, lanes[turns'[t].lane].queue)
             /\ turns'[t].pc \in Busy => Heads(t, lanes[turns'[t].lane].queue)
             /\ turns'[t].lane = 0 \/ turns'[t].pc \in Ended \/ InLane(t)'
             /\ turns'[t].pc = "dropped" => turns'[t].aborted
  <2>1. CASE t \in DOMAIN turns
    BY <1>1, <1>2, <2>1 DEF PlacesIn, InLane
  <2>2. CASE t \in new
    BY <1>3, <2>2 DEF InLane, Busy
  <2> QED
    BY <1>2, <2>1, <2>2
<1>9. ASSUME NEW c \in Cancellers
      PROVE  /\ cancels'[c].step = "idle" => cancels'[c].left = <<>>
             /\ cancels'[c].step \in {"locking", "interrupt"} =>
                  cancels'[c].left # <<>> /\ In(c, lanes[Head(cancels'[c].left)].queue)
             /\ cancels'[c].step = "interrupt" =>
                  adapter = "codex" /\ Heads(c, lanes[Head(cancels'[c].left)].queue)
             /\ c # 0 /\ Active(c)' =>
                  /\ c \in DOMAIN turns' /\ turns'[c].pc = "cancelling"
                  /\ turns'[c].session = cancels'[c].session
  BY <1>1, <1>2, <1>5 DEF PlacesIn, Active
<1> QED
  BY <1>1, <1>2, <1>6, <1>7, <1>8, <1>9 DEF PlacesIn

LEMMA WarmPlaces ==
    ASSUME InOrder, NEW f \in Lanes, WarmMoves(f)
    PROVE  PlacesIn'
<1>1. PlacesIn
  BY PlacesAreIn DEF InOrder
<1>2. /\ UNCHANGED <<adapter, turns, cancels>>
      /\ \A l \in Lanes : lanes'[l].queue = lanes[l].queue
  BY DEF WarmMoves, EmptyLane
<1>3. \A c, l : (TurnIn(c, l)' <=> TurnIn(c, l)) /\ (CancelIn(c, l)' <=> CancelIn(c, l))
  BY <1>2 DEF TurnIn, InLane, CancelIn
<1>4. \A c \in Cancellers : cancels[c].left # <<>> => Head(cancels[c].left) \in Lanes
  BY HeldLane DEF InOrder
<1>5. \A t \in DOMAIN turns : turns[t].pc \in Busy => turns[t].lane \in Lanes
  BY <1>1 DEF PlacesIn, InLane
<1> QED
  BY <1>1, <1>2, <1>3, <1>4, <1>5 DEF PlacesIn, InLane, Active

LEMMA AwaitPlaces ==
    ASSUME InOrder, NEW t \in DOMAIN turns, AwaitMoves(t)
    PROVE  PlacesIn'
<1>1. PlacesIn
  BY PlacesAreIn DEF InOrder
<1>2. /\ UNCHANGED <<adapter, lanes, cancels>> /\ DOMAIN turns' = DOMAIN turns
      /\ \A u \in DOMAIN turns : u # t => turns'[u] = turns[u]
      /\ turns[t].pc = "awaiting" /\ turns'[t].pc \in {"done", "called"}
      /\ turns'[t].lane = turns[t].lane
  BY DEF AwaitMoves
<1>3. turns[t].lane = 0 /\ ~InLane(t) /\ ~InLane(t)'
  BY <1>1, <1>2 DEF PlacesIn, InLane, Ended, Busy
<1>4. cancels[t].step = "idle"
  BY <1>2, TurnOrCanceller DEF InOrder, Places
<1>5. \A c, l : (TurnIn(c, l)' <=> TurnIn(c, l)) /\ (CancelIn(c, l)' <=> CancelIn(c, l))
  BY <1>2, <1>3 DEF TurnIn, InLane, CancelIn
<1>6. ASSUME NEW u \in DOMAIN turns
      PROVE  /\ InLane(u)' => turns'[u].lane \in Lanes /\ In(u, lanes[turns'[u].lane].queue)
             /\ turns'[u].pc \in Busy => Heads(u, lanes[turns'[u].lane].queue)
             /\ turns'[u].lane = 0 \/ turns'[u].pc \in Ended \/ InLane(u)'
             /\ turns'[u].pc = "dropped" => turns'[u].aborted
  BY <1>1, <1>2, <1>3 DEF PlacesIn, InLane, Busy
<1>7. \A c \in Cancellers : c # 0 /\ Active(c) => c # t
  BY <1>4 DEF Active
<1> QED
  BY <1>1, <1>2, <1>5, <1>6, <1>7 DEF PlacesIn, Active

LEMMA DropPlaces ==
    ASSUME InOrder, NEW t \in DOMAIN turns, DropMoves(t)
    PROVE  PlacesIn'
<1>1. PlacesIn
  BY PlacesAreIn DEF InOrder
<1>2. /\ UNCHANGED adapter /\ DOMAIN turns' = DOMAIN turns
      /\ \A u \in DOMAIN turns : u # t => turns'[u] = turns[u]
      /\ turns'[t].pc = "dropped" /\ turns'[t].aborted
      /\ cancels'[t] = NoCancel /\ \A c \in Cancellers : c # t => cancels'[c] = cancels[c]
  BY DEF DropMoves, MovesTo
<1>3. ASSUME NEW l \in Lanes
      PROVE  /\ IsInjective(lanes'[l].queue)
             /\ \A c : In(c, lanes'[l].queue) <=> In(c, lanes[l].queue) /\ c # t
             /\ \A c : Heads(c, lanes[l].queue) /\ c # t => Heads(c, lanes'[l].queue)
  <2>1. lanes[l].queue \in Seq(Cancellers) /\ IsInjective(lanes[l].queue)
    BY <1>1, LaneFields DEF PlacesIn, InOrder
  <2>2. lanes'[l].queue = Without(lanes[l].queue, t)
    BY DEF DropMoves
  <2> QED
    BY <2>1, <2>2, QueueOps
<1>4. ASSUME NEW l \in Lanes, NEW c, In(c, lanes'[l].queue) PROVE TurnIn(c, l)' \/ CancelIn(c, l)'
  <2>1. In(c, lanes[l].queue) /\ c # t
    BY <1>3, <1>4
  <2>2. c \in Cancellers /\ (TurnIn(c, l) \/ CancelIn(c, l))
    BY <1>1, <2>1, PlacesByElement, QueueOps DEF PlacesIn, InOrder
  <2> QED
    BY <1>2, <2>1, <2>2 DEF TurnIn, InLane, CancelIn
<1>5. ASSUME NEW u \in DOMAIN turns
      PROVE  /\ InLane(u)' => turns'[u].lane \in Lanes /\ In(u, lanes'[turns'[u].lane].queue)
             /\ turns'[u].pc \in Busy => Heads(u, lanes'[turns'[u].lane].queue)
             /\ turns'[u].lane = 0 \/ turns'[u].pc \in Ended \/ InLane(u)'
             /\ turns'[u].pc = "dropped" => turns'[u].aborted
  <2>1. CASE u = t
    BY <1>2, <2>1 DEF InLane, Busy, Ended
  <2>2. CASE u # t
    BY <1>1, <1>2, <1>3, <2>2 DEF PlacesIn, InLane
  <2> QED
    BY <2>1, <2>2
<1>6. ASSUME NEW c \in Cancellers
      PROVE  /\ cancels'[c].step = "idle" => cancels'[c].left = <<>>
             /\ cancels'[c].step \in {"locking", "interrupt"} =>
                  cancels'[c].left # <<>> /\ In(c, lanes'[Head(cancels'[c].left)].queue)
             /\ cancels'[c].step = "interrupt" =>
                  adapter = "codex" /\ Heads(c, lanes'[Head(cancels'[c].left)].queue)
             /\ c # 0 /\ Active(c)' =>
                  /\ c \in DOMAIN turns' /\ turns'[c].pc = "cancelling"
                  /\ turns'[c].session = cancels'[c].session
  <2>1. CASE c = t
    BY <1>2, <2>1, NoCancelType DEF Active
  <2>2. CASE c # t
    <3>1. cancels[c].left # <<>> => Head(cancels[c].left) \in Lanes
      BY HeldLane DEF InOrder
    <3>2. cancels'[c] = cancels[c] /\ (c # 0 /\ Active(c)' => Active(c))
      BY <1>2, <2>2 DEF Active
    <3>3. /\ cancels[c].step = "idle" => cancels[c].left = <<>>
          /\ cancels[c].step \in {"locking", "interrupt"} =>
                cancels[c].left # <<>> /\ In(c, lanes[Head(cancels[c].left)].queue)
          /\ cancels[c].step = "interrupt" =>
                adapter = "codex" /\ Heads(c, lanes[Head(cancels[c].left)].queue)
          /\ c # 0 /\ Active(c) =>
                /\ c \in DOMAIN turns /\ turns[c].pc = "cancelling"
                /\ turns[c].session = cancels[c].session
      BY <1>1 DEF PlacesIn
    <3>4. cancels[c].step \in {"locking", "interrupt"} =>
             In(c, lanes'[Head(cancels[c].left)].queue)
      BY <1>3, <2>2, <3>1, <3>3
    <3>5. cancels[c].step = "interrupt" => Heads(c, lanes'[Head(cancels[c].left)].queue)
      BY <1>3, <2>2, <3>1, <3>3
    <3>6. c # 0 /\ Active(c) => c \in DOMAIN turns' /\ turns'[c] = turns[c]
      BY <1>2, <2>2, <3>3
    <3> QED
      BY <3>2, <3>3, <3>4, <3>5, <3>6
  <2> QED
    BY <2>1, <2>2
<1> QED
  BY <1>2, <1>3, <1>4, <1>5, <1>6 DEF PlacesIn

\* What is said of each canceller.
CancellerIn(c) ==
    /\ cancels[c].step = "idle" => cancels[c].left = <<>>
    /\ cancels[c].step \in {"locking", "interrupt"} =>
          cancels[c].left # <<>> /\ In(c, lanes[Head(cancels[c].left)].queue)
    /\ cancels[c].step = "interrupt" =>
          adapter = "codex" /\ Heads(c, lanes[Head(cancels[c].left)].queue)
    /\ c # 0 /\ Active(c) =>
          /\ c \in DOMAIN turns /\ turns[c].pc = "cancelling"
          /\ turns[c].session = cancels[c].session

\* One that does not move.
LEMMA SameCanceller ==
    ASSUME Types, PlacesIn, NEW c \in Cancellers, cancels'[c] = cancels[c], adapter' = adapter,
           \A l \in Lanes : CancelIn(c, l) /\ In(c, lanes[l].queue) => In(c, lanes'[l].queue),
           \A l \in Lanes : CancelIn(c, l) /\ Heads(c, lanes[l].queue) => Heads(c, lanes'[l].queue),
           c # 0 /\ Active(c) => c \in DOMAIN turns' /\ turns'[c] = turns[c]
    PROVE  CancellerIn(c)'
<1> DEFINE l == Head(cancels[c].left)
<1>1. cancels[c].left # <<>> => l \in Lanes
  BY HeldLane
<1>2. CancellerIn(c)
  BY DEF PlacesIn, CancellerIn
<1>3. cancels[c].step \in {"locking", "interrupt"} =>
        cancels[c].left # <<>> /\ CancelIn(c, l) /\ l \in Lanes /\ In(c, lanes'[l].queue)
  BY <1>1, <1>2 DEF CancellerIn, CancelIn
<1>4. cancels[c].step = "interrupt" => adapter = "codex" /\ Heads(c, lanes'[l].queue)
  BY <1>1, <1>2, <1>3 DEF CancellerIn
<1>5. Active(c)' => Active(c)
  BY DEF Active
<1> QED
  BY <1>2, <1>3, <1>4, <1>5 DEF CancellerIn

LEMMA EnterPlaces ==
    ASSUME InOrder, NEW t \in DOMAIN turns, NEW k \in Lanes, EnterMoves(t, k)
    PROVE  PlacesIn'
<1>1. PlacesIn /\ Types
  BY PlacesAreIn DEF InOrder
<1>2. /\ UNCHANGED <<adapter, cancels>> /\ DOMAIN turns' = DOMAIN turns
      /\ \A u \in DOMAIN turns : u # t => turns'[u] = turns[u]
      /\ turns[t].pc = "called" /\ turns'[t].pc = "waiting" /\ turns'[t].lane = k
      /\ lanes'[k].queue = Append(lanes[k].queue, t)
  BY DEF EnterMoves, EntersLane
<1>3. ASSUME NEW m \in Lanes, m # k PROVE lanes'[m].queue = lanes[m].queue
  <2>1. adapter \in {"codex", "claude", "stdio"}
    BY <1>1, BackendsAssumption DEF Types
  <2>2. lanes'[m] = lanes[m] \/ (lanes'[m] = EmptyLane /\ lanes[m].queue = <<>>)
    BY <1>3, <2>1 DEF EnterMoves
  <2> QED
    BY <2>2 DEF EmptyLane
<1>4. cancels[t].step = "idle" /\ t \in Cancellers
  BY <1>2, TurnOrCanceller DEF InOrder, Places
<1>5. ~In(t, lanes[k].queue)
  BY <1>1, <1>2, <1>4 DEF PlacesIn, TurnIn, InLane, CancelIn, Busy
<1>6. /\ IsInjective(lanes'[k].queue)
      /\ \A c : In(c, lanes'[k].queue) <=> In(c, lanes[k].queue) \/ c = t
      /\ \A c : Heads(c, lanes[k].queue) => Heads(c, lanes'[k].queue)
  <2>1. lanes[k].queue \in Seq(Cancellers) /\ IsInjective(lanes[k].queue)
    BY <1>1, LaneFields DEF PlacesIn
  <2> QED
    BY <1>2, <1>4, <1>5, <2>1, QueueOps
<1>7. ASSUME NEW l \in Lanes
      PROVE  /\ IsInjective(lanes'[l].queue)
             /\ \A c : In(c, lanes[l].queue) => In(c, lanes'[l].queue)
             /\ \A c : Heads(c, lanes[l].queue) => Heads(c, lanes'[l].queue)
             /\ \A c : In(c, lanes'[l].queue) => In(c, lanes[l].queue) \/ (c = t /\ l = k)
  BY <1>1, <1>3, <1>6 DEF PlacesIn
<1>8. ASSUME NEW l \in Lanes, NEW c, In(c, lanes'[l].queue) PROVE TurnIn(c, l)' \/ CancelIn(c, l)'
  <2>1. CASE c = t /\ l = k
    BY <1>2, <2>1 DEF TurnIn, InLane
  <2>2. CASE In(c, lanes[l].queue)
    <3>1. TurnIn(c, l) \/ CancelIn(c, l)
      BY <1>1, <2>2 DEF PlacesIn
    <3>2. TurnIn(c, l) => c # t
      BY <1>2 DEF TurnIn, InLane, Busy
    <3> QED
      BY <1>2, <3>1, <3>2 DEF TurnIn, InLane, CancelIn
  <2> QED
    BY <1>7, <1>8, <2>1, <2>2
<1>9. ASSUME NEW u \in DOMAIN turns
      PROVE  /\ InLane(u)' => turns'[u].lane \in Lanes /\ In(u, lanes'[turns'[u].lane].queue)
             /\ turns'[u].pc \in Busy => Heads(u, lanes'[turns'[u].lane].queue)
             /\ turns'[u].lane = 0 \/ turns'[u].pc \in Ended \/ InLane(u)'
             /\ turns'[u].pc = "dropped" => turns'[u].aborted
  <2>1. CASE u = t
    BY <1>2, <1>6, <2>1 DEF InLane, Busy
  <2>2. CASE u # t
    BY <1>1, <1>2, <1>7, <2>2 DEF PlacesIn, InLane
  <2> QED
    BY <2>1, <2>2
<1>10. ASSUME NEW c \in Cancellers PROVE CancellerIn(c)'
  <2>1. c # 0 /\ Active(c) => c \in DOMAIN turns' /\ turns'[c] = turns[c]
    <3>1. Active(c) => c # t
      BY <1>4 DEF Active
    <3> QED
      BY <1>1, <1>2, <3>1 DEF PlacesIn
  <2> QED
    BY <1>1, <1>2, <1>7, <2>1, SameCanceller
<1> QED
  BY <1>2, <1>7, <1>8, <1>9, <1>10 DEF PlacesIn, CancellerIn

\* Whether the turn keeps its place or gives it up.
LEMMA BusyQueue ==
    ASSUME NEW t, TurnForm(t)
    PROVE  LET l == turns[t].lane IN
           \/ lanes'[l].queue = lanes[l].queue /\ turns' = turns
           \/ /\ lanes'[l].queue = lanes[l].queue
              /\ \E pc \in {"waiting"} \cup Busy : \E attempt, answer : MovesTo(t, pc, attempt, answer)
           \/ /\ lanes'[l].queue = Tail(lanes[l].queue)
              /\ \E pc \in {"done", "failed"} : \E attempt, answer : MovesTo(t, pc, attempt, answer)
BY DEF TurnForm, StopsWith, Busy

LEMMA BusyPlaces ==
    ASSUME InOrder, NEW t \in DOMAIN turns, BusyForm(t)
    PROVE  PlacesIn'
<1> DEFINE k == turns[t].lane
<1>1. PlacesIn /\ Types
  BY PlacesAreIn DEF InOrder
<1>2. /\ UNCHANGED <<adapter, cancels>> /\ InLane(t) /\ k \in Lanes
      /\ \A m \in Lanes : m # k => lanes'[m].queue = lanes[m].queue
      /\ lanes[k].queue # <<>> /\ Head(lanes[k].queue) = t
  BY DEF BusyForm, TurnMoves
<1>3. cancels[t].step = "idle" /\ t \in Cancellers
  <2>1. turns[t].pc # "cancelling"
    BY <1>2 DEF InLane, Busy
  <2> QED
    BY <2>1, TurnOrCanceller DEF InOrder, Places
<1>4. \A c \in Cancellers : cancels[c].left # <<>> => Head(cancels[c].left) \in Lanes
  BY <1>1, HeldLane
<1>5. CASE lanes'[k].queue = lanes[k].queue /\ turns' = turns
  <2>1. \A l \in Lanes : lanes'[l].queue = lanes[l].queue
    BY <1>2, <1>5
  <2>2. \A c, l : (TurnIn(c, l)' <=> TurnIn(c, l)) /\ (CancelIn(c, l)' <=> CancelIn(c, l))
    BY <1>2, <1>5 DEF TurnIn, InLane, CancelIn
  <2>3. \A u \in DOMAIN turns : turns[u].pc \in Busy => turns[u].lane \in Lanes
    BY <1>1 DEF PlacesIn, InLane
  <2> QED
    BY <1>1, <1>2, <1>4, <1>5, <2>1, <2>2, <2>3 DEF PlacesIn, InLane, Active
<1>6. ASSUME lanes'[k].queue = lanes[k].queue, NEW pc \in {"waiting"} \cup Busy, NEW attempt, NEW answer,
             MovesTo(t, pc, attempt, answer)
      PROVE  PlacesIn'
  <2>1. \A l \in Lanes : lanes'[l].queue = lanes[l].queue
    BY <1>2, <1>6
  <2>2. /\ DOMAIN turns' = DOMAIN turns
        /\ \A u \in DOMAIN turns : u # t => turns'[u] = turns[u]
        /\ turns'[t].pc \in {"waiting"} \cup Busy /\ turns'[t].lane = k
    BY <1>6 DEF MovesTo
  <2>3. \A c, l : (TurnIn(c, l)' <=> TurnIn(c, l)) /\ (CancelIn(c, l)' <=> CancelIn(c, l))
    BY <1>2, <2>2 DEF TurnIn, InLane, CancelIn
  <2>4. ASSUME NEW u \in DOMAIN turns
        PROVE  /\ InLane(u)' => turns'[u].lane \in Lanes /\ In(u, lanes'[turns'[u].lane].queue)
               /\ turns'[u].pc \in Busy => Heads(u, lanes'[turns'[u].lane].queue)
               /\ turns'[u].lane = 0 \/ turns'[u].pc \in Ended \/ InLane(u)'
               /\ turns'[u].pc = "dropped" => turns'[u].aborted
    <3>1. CASE u = t
      <4>1. In(t, lanes[k].queue) /\ Heads(t, lanes[k].queue)
        BY <1>1, <1>2 DEF PlacesIn, Heads
      <4> QED
        BY <1>2, <2>1, <2>2, <3>1, <4>1 DEF InLane, Busy
    <3>2. CASE u # t
      <4>1. turns[u].pc \in Busy => turns[u].lane \in Lanes
        BY <1>1 DEF PlacesIn, InLane
      <4> QED
        BY <1>1, <2>1, <2>2, <3>2, <4>1 DEF PlacesIn, InLane
    <3> QED
      BY <3>1, <3>2
  <2>5. \A c \in Cancellers : c # 0 /\ Active(c) => c # t
    BY <1>3 DEF Active
  <2> QED
    BY <1>1, <1>2, <1>4, <2>1, <2>2, <2>3, <2>4, <2>5 DEF PlacesIn, Active
<1>7. ASSUME lanes'[k].queue = Tail(lanes[k].queue), NEW pc \in {"done", "failed"}, NEW attempt, NEW answer,
             MovesTo(t, pc, attempt, answer)
      PROVE  PlacesIn'
  <2>1. /\ DOMAIN turns' = DOMAIN turns
        /\ \A u \in DOMAIN turns : u # t => turns'[u] = turns[u]
        /\ turns'[t].pc \in {"done", "failed"}
    BY <1>7 DEF MovesTo
  <2>2. IsInjective(lanes'[k].queue)
        /\ \A c : In(c, lanes'[k].queue) <=> In(c, lanes[k].queue) /\ c # t
    <3>1. lanes[k].queue \in Seq(Cancellers) /\ IsInjective(lanes[k].queue)
      BY <1>1, <1>2, LaneFields DEF PlacesIn
    <3> QED
      BY <1>2, <1>7, <3>1, QueueOps
  <2>3. \A c \in Cancellers : ~Heads(c, lanes[k].queue) \/ c = t
    BY <1>2 DEF Heads
  <2>4. ~CancelIn(t, k)
    BY <1>3 DEF CancelIn
  <2>5. ASSUME NEW l \in Lanes, NEW c, In(c, lanes'[l].queue) PROVE TurnIn(c, l)' \/ CancelIn(c, l)'
    <3>1. In(c, lanes[l].queue) /\ (l = k => c # t)
      BY <1>2, <2>2, <2>5
    <3>2. TurnIn(c, l) \/ CancelIn(c, l)
      BY <1>1, <3>1 DEF PlacesIn
    <3>3. TurnIn(c, l) => c # t
      BY <3>1 DEF TurnIn
    <3> QED
      BY <1>2, <2>1, <3>2, <3>3 DEF TurnIn, InLane, CancelIn
  <2>6. ASSUME NEW u \in DOMAIN turns
        PROVE  /\ InLane(u)' => turns'[u].lane \in Lanes /\ In(u, lanes'[turns'[u].lane].queue)
               /\ turns'[u].pc \in Busy => Heads(u, lanes'[turns'[u].lane].queue)
               /\ turns'[u].lane = 0 \/ turns'[u].pc \in Ended \/ InLane(u)'
               /\ turns'[u].pc = "dropped" => turns'[u].aborted
    <3>1. CASE u = t
      BY <2>1, <3>1 DEF InLane, Busy, Ended
    <3>2. CASE u # t
      <4>1. turns'[u] = turns[u]
        BY <2>1, <3>2
      <4>2. turns[u].pc \in Busy => turns[u].lane \in Lanes /\ turns[u].lane # k
        <5>1. turns[u].pc \in Busy => Heads(u, lanes[turns[u].lane].queue) /\ turns[u].lane \in Lanes
          BY <1>1 DEF PlacesIn, InLane
        <5> QED
          BY <1>2, <3>2, <5>1 DEF Heads
      <4>3. InLane(u) => turns[u].lane \in Lanes /\ In(u, lanes[turns[u].lane].queue)
        BY <1>1 DEF PlacesIn
      <4>4. InLane(u) => In(u, lanes'[turns[u].lane].queue)
        BY <1>2, <2>2, <3>2, <4>3
      <4> QED
        BY <1>1, <1>2, <4>1, <4>2, <4>3, <4>4 DEF PlacesIn, InLane
    <3> QED
      BY <3>1, <3>2
  <2>7. ASSUME NEW c \in Cancellers
        PROVE  /\ cancels'[c].step \in {"locking", "interrupt"} =>
                    cancels'[c].left # <<>> /\ In(c, lanes'[Head(cancels'[c].left)].queue)
               /\ cancels'[c].step = "interrupt" =>
                    adapter' = "codex" /\ Heads(c, lanes'[Head(cancels'[c].left)].queue)
               /\ c # 0 /\ Active(c)' =>
                    /\ c \in DOMAIN turns' /\ turns'[c].pc = "cancelling"
                    /\ turns'[c].session = cancels'[c].session
    <3>1. Active(c) => c # t
      BY <1>3 DEF Active
    <3>2. cancels[c].step = "interrupt" => Head(cancels[c].left) # k
      BY <1>1, <1>2, <3>1 DEF PlacesIn, Heads, Active
    <3>3. cancels[c].step \in {"locking", "interrupt"} =>
             In(c, lanes'[Head(cancels[c].left)].queue)
      BY <1>1, <1>2, <1>4, <2>2, <3>1 DEF PlacesIn, Active
    <3> QED
      BY <1>1, <1>2, <1>4, <2>1, <3>1, <3>2, <3>3 DEF PlacesIn, Active
  <2>8. \A l \in Lanes : IsInjective(lanes'[l].queue)
    BY <1>1, <1>2, <2>2 DEF PlacesIn
  <2>9. \A c \in Cancellers : cancels'[c].step = "idle" => cancels'[c].left = <<>>
    BY <1>1, <1>2 DEF PlacesIn
  <2> QED
    BY <2>1, <2>5, <2>6, <2>7, <2>8, <2>9 DEF PlacesIn
<1> HIDE DEF k
<1>8. \/ lanes'[k].queue = lanes[k].queue /\ turns' = turns
      \/ /\ lanes'[k].queue = lanes[k].queue
         /\ \E pc \in {"waiting"} \cup Busy : \E attempt, answer : MovesTo(t, pc, attempt, answer)
      \/ /\ lanes'[k].queue = Tail(lanes[k].queue)
         /\ \E pc \in {"done", "failed"} : \E attempt, answer : MovesTo(t, pc, attempt, answer)
  <2>1. TurnForm(t)
    BY DEF BusyForm, TurnMoves
  <2> QED
    BY <2>1, BusyQueue DEF k
<1> QED
  BY <1>5, <1>6, <1>7, <1>8

\* What a cancellation does to the queues and to itself.
LEMMA CancelQueues ==
    ASSUME InOrder, NEW c \in Cancellers, CancelForm(c)
    PROVE  LET k == Head(cancels[c].left) IN
           \/ lanes' = lanes /\ CancelEnds(c) /\ cancels[c].step = "next"
           \/ /\ k \in Lanes /\ cancels[c].left # <<>> /\ \A m \in Lanes : m # k => lanes'[m] = lanes[m]
              /\ \/ /\ cancels[c].step = "next" /\ CancelStaysAt(c, "locking")
                    /\ lanes'[k].queue = Append(lanes[k].queue, c)
                 \/ /\ cancels[c].step # "next" /\ CancelStaysAt(c, "interrupt") /\ adapter = "codex"
                    /\ lanes'[k].queue = lanes[k].queue
                 \/ /\ cancels[c].step # "next" /\ (CancelEnds(c) \/ CancelPasses(c))
                    /\ lanes'[k].queue = Tail(lanes[k].queue)
<1>1. cancels[c].step = "interrupt" => adapter = "codex"
  BY DEF InOrder, Places, CancelsInOrder
<1> QED
  BY <1>1 DEF CancelForm, CancelMoves, CancelAtLane, KnowsIts

\* The turns while one cancellation goes on.
LEMMA CancelTurns ==
    ASSUME InOrder, NEW c \in Cancellers, CancelForm(c)
    PROVE  /\ UNCHANGED <<adapter, slots, spec>> /\ DOMAIN turns' = DOMAIN turns
           /\ \A u \in DOMAIN turns : turns'[u] = turns[u]
                \/ /\ u = c /\ c # 0 /\ CancelEnds(c) /\ turns[u].pc = "cancelling"
                   /\ turns'[u].pc = "called" /\ turns'[u].lane = turns[u].lane
                   /\ turns'[u].session = turns[u].session /\ turns'[u].aborted = turns[u].aborted
                   /\ turns'[u].conv = turns[u].conv /\ turns'[u].spec = turns[u].spec
                   /\ turns'[u].awaits = turns[u].awaits /\ turns'[u].answer = turns[u].answer
                   /\ turns'[u].attempt = turns[u].attempt
           /\ \A d \in Cancellers : d # c => cancels'[d] = cancels[d]
<1>1. c # 0 => c \in DOMAIN turns /\ turns[c].pc = "cancelling"
  BY DEF InOrder, Places, CancelsInOrder, CancelForm
<1>2. \/ turns' = turns /\ \A d \in Cancellers : d # c => cancels'[d] = cancels[d]
      \/ CancelEnds(c)
  BY DEF CancelForm, CancelMoves, CancelAtLane, CancelPasses, CancelStaysAt
<1>3. UNCHANGED <<adapter, slots, spec>>
  BY DEF CancelForm, CancelMoves
<1>4. CASE CancelEnds(c) /\ c # 0
  BY <1>1, <1>3, <1>4 DEF CancelEnds, MovesTo
<1>5. CASE CancelEnds(c) /\ c = 0
  BY <1>3, <1>5 DEF CancelEnds
<1> QED
  BY <1>2, <1>3, <1>4, <1>5

LEMMA CancelPlaces ==
    ASSUME InOrder, NEW c \in Cancellers, CancelForm(c)
    PROVE  PlacesIn'
<1> DEFINE k == Head(cancels[c].left)
<1>1. PlacesIn /\ Types
  BY PlacesAreIn DEF InOrder
<1>2. /\ UNCHANGED adapter /\ DOMAIN turns' = DOMAIN turns
      /\ \A u \in DOMAIN turns : turns'[u] = turns[u]
           \/ /\ u = c /\ turns[u].pc = "cancelling"
              /\ turns'[u].pc = "called" /\ turns'[u].lane = turns[u].lane
      /\ \A d \in Cancellers : d # c => cancels'[d] = cancels[d]
  BY CancelTurns
<1>3. Active(c) /\ (c # 0 => c \in DOMAIN turns /\ turns[c].pc = "cancelling")
  BY <1>1 DEF PlacesIn, CancelForm
<1>4. ~TurnIn(c, 0) /\ \A l : ~TurnIn(c, l) /\ ~TurnIn(c, l)'
  BY <1>1, <1>2, <1>3, TurnIsKnown DEF TurnIn, InLane, Busy, Types
<1>5. cancels[c].step # "next" /\ cancels[c].left # <<>> => Heads(c, lanes[k].queue)
  <2>1. cancels[c] \in CancelRecords
    BY <1>1 DEF Types
  <2>2. cancels[c].step \in {"next", "locking", "interrupt"}
    BY <1>3, <2>1 DEF Active, CancelRecords
  <2> QED
    BY <2>2 DEF CancelForm, Holds, Heads
<1>6. \A l \in Lanes : In(c, lanes[l].queue) =>
        cancels[c].step \in {"locking", "interrupt"} /\ cancels[c].left # <<>> /\ l = k
  BY <1>1, <1>4 DEF PlacesIn, CancelIn
<1>7. ASSUME NEW l \in Lanes PROVE lanes[l].queue \in Seq(Cancellers) /\ IsInjective(lanes[l].queue)
  BY <1>1, LaneFields DEF PlacesIn
<1>8. /\ \A l \in Lanes : l # k => lanes'[l].queue = lanes[l].queue
      /\ \/ /\ CancelEnds(c) /\ cancels[c].step = "next" /\ \A l \in Lanes : lanes'[l].queue = lanes[l].queue
         \/ /\ k \in Lanes /\ cancels[c].step = "next" /\ CancelStaysAt(c, "locking") /\ cancels[c].left # <<>>
            /\ lanes'[k].queue = Append(lanes[k].queue, c)
         \/ /\ k \in Lanes /\ Heads(c, lanes[k].queue) /\ CancelStaysAt(c, "interrupt") /\ adapter = "codex"
            /\ lanes'[k].queue = lanes[k].queue /\ cancels[c].left # <<>>
         \/ /\ k \in Lanes /\ Heads(c, lanes[k].queue) /\ (CancelEnds(c) \/ CancelPasses(c))
            /\ lanes'[k].queue = Tail(lanes[k].queue)
  BY <1>5, CancelQueues
<1> HIDE DEF k
<1>9. ASSUME NEW l \in Lanes
      PROVE  /\ IsInjective(lanes'[l].queue)
             /\ \A d : d # c => (In(d, lanes'[l].queue) <=> In(d, lanes[l].queue))
             /\ \A d : d # c /\ Heads(d, lanes[l].queue) => Heads(d, lanes'[l].queue)
             /\ In(c, lanes'[l].queue) =>
                  l = k /\ cancels'[c].step \in {"locking", "interrupt"} /\ cancels'[c].left # <<>>
                  /\ cancels'[c].left = cancels[c].left
  <2>1. CASE l # k
    BY <1>6, <1>7, <1>8, <2>1
  <2>2. CASE /\ l = k /\ lanes'[k].queue = lanes[k].queue /\ CancelStaysAt(c, "interrupt")
             /\ cancels[c].left # <<>>
    BY <1>6, <1>7, <1>8, <2>2 DEF CancelStaysAt
  <2>3. CASE /\ l = k /\ cancels[c].step = "next" /\ CancelStaysAt(c, "locking")
             /\ cancels[c].left # <<>> /\ lanes'[k].queue = Append(lanes[k].queue, c)
    <3>1. ~In(c, lanes[k].queue)
      BY <1>6, <2>3
    <3>2. /\ IsInjective(lanes'[k].queue)
          /\ \A d : In(d, lanes'[k].queue) <=> In(d, lanes[k].queue) \/ d = c
          /\ \A d : Heads(d, lanes[k].queue) => Heads(d, lanes'[k].queue)
      BY <1>7, <2>3, <3>1, QueueOps
    <3> QED
      BY <2>3, <3>2 DEF CancelStaysAt
  <2>4. CASE l = k /\ Heads(c, lanes[k].queue) /\ lanes'[k].queue = Tail(lanes[k].queue)
    <3>1. /\ IsInjective(lanes'[k].queue)
          /\ \A d : In(d, lanes'[k].queue) <=> In(d, lanes[k].queue) /\ d # c
      BY <1>7, <2>4, QueueOps DEF Heads
    <3> QED
      BY <2>4, <3>1 DEF Heads
  <2>5. CASE /\ l = k /\ cancels[c].step = "next"
             /\ lanes'[l].queue = lanes[l].queue
    <3>1. ~In(c, lanes[l].queue)
      BY <1>6, <2>5
    <3> QED
      BY <1>7, <2>5, <3>1
  <2> QED
    BY <1>8, <2>1, <2>2, <2>3, <2>4, <2>5
<1>10. ASSUME NEW l \in Lanes, NEW x, In(x, lanes'[l].queue) PROVE TurnIn(x, l)' \/ CancelIn(x, l)'
  <2>1. CASE x = c
    BY <1>9, <1>10, <2>1 DEF CancelIn, k
  <2>2. CASE x # c
    <3>1. In(x, lanes[l].queue) /\ x \in Cancellers
      BY <1>7, <1>9, <1>10, <2>2, QueueOps
    <3>2. TurnIn(x, l) \/ CancelIn(x, l)
      BY <1>1, <3>1 DEF PlacesIn
    <3> QED
      BY <1>2, <2>2, <3>1, <3>2 DEF TurnIn, InLane, CancelIn
  <2> QED
    BY <2>1, <2>2
<1>11. ASSUME NEW u \in DOMAIN turns
       PROVE  /\ InLane(u)' => turns'[u].lane \in Lanes /\ In(u, lanes'[turns'[u].lane].queue)
              /\ turns'[u].pc \in Busy => Heads(u, lanes'[turns'[u].lane].queue)
              /\ turns'[u].lane = 0 \/ turns'[u].pc \in Ended \/ InLane(u)'
              /\ turns'[u].pc = "dropped" => turns'[u].aborted
  <2>1. CASE u = c /\ turns'[u].pc = "called"
    <3>1. turns[u].lane = 0 /\ turns'[u].lane = 0
      BY <1>1, <1>2, <1>3, <2>1 DEF PlacesIn, InLane, Busy, Ended
    <3> QED
      BY <2>1, <3>1 DEF InLane, Busy
  <2>2. CASE turns'[u] = turns[u]
    <3>1. InLane(u) => u # c
      BY <1>3, TurnIsKnown, <1>1 DEF InLane, Busy
    <3>2. InLane(u) => turns[u].lane \in Lanes /\ In(u, lanes[turns[u].lane].queue)
      BY <1>1 DEF PlacesIn
    <3>3. InLane(u) => In(u, lanes'[turns[u].lane].queue)
      BY <1>9, <3>1, <3>2
    <3>4. turns[u].pc \in Busy => InLane(u) /\ Heads(u, lanes[turns[u].lane].queue)
      BY <1>1 DEF PlacesIn, InLane
    <3>5. turns[u].pc \in Busy => Heads(u, lanes'[turns[u].lane].queue)
      BY <1>9, <3>1, <3>2, <3>4
    <3> QED
      BY <1>1, <2>2, <3>2, <3>3, <3>5 DEF PlacesIn, InLane
  <2> QED
    BY <1>2, <2>1, <2>2
<1>12. ASSUME NEW d \in Cancellers PROVE CancellerIn(d)'
  <2>1. CASE d # c
    <3>1. d # 0 /\ Active(d) => d \in DOMAIN turns' /\ turns'[d] = turns[d]
      BY <1>1, <1>2, <2>1 DEF PlacesIn
    <3> QED
      BY <1>1, <1>2, <1>9, <2>1, <3>1, SameCanceller
  <2>2. CASE d = c
    <3>1. CASE CancelEnds(c)
      BY <2>2, <3>1, NoCancelType DEF CancelEnds, CancellerIn, Active
    <3>2. CASE CancelPasses(c)
      BY <1>1, <1>3, <2>2, <3>2 DEF CancelPasses, CancellerIn, Active, PlacesIn
    <3>3. CASE /\ k \in Lanes /\ CancelStaysAt(c, "locking") /\ cancels[c].left # <<>>
               /\ cancels[c].step = "next" /\ lanes'[k].queue = Append(lanes[k].queue, c)
      <4>1. In(c, lanes'[k].queue)
        <5>1. ~In(c, lanes[k].queue)
          BY <1>6, <3>3
        <5> QED
          BY <1>7, <3>3, <5>1, QueueOps
      <4> QED
        BY <1>1, <1>3, <2>2, <3>3, <4>1 DEF CancelStaysAt, CancellerIn, Active, PlacesIn, k
    <3>4. CASE /\ k \in Lanes /\ Heads(c, lanes[k].queue) /\ CancelStaysAt(c, "interrupt") /\ adapter = "codex"
               /\ lanes'[k].queue = lanes[k].queue /\ cancels[c].left # <<>>
      <4>1. In(c, lanes[k].queue)
        BY <1>7, <3>4, QueueOps
      <4> QED
        BY <1>1, <1>2, <1>3, <2>2, <3>4, <4>1 DEF CancelStaysAt, CancellerIn, Active, PlacesIn, k
    <3> QED
      BY <1>8, <3>1, <3>2, <3>3, <3>4
  <2> QED
    BY <2>1, <2>2
<1> QED
  BY <1>2, <1>9, <1>10, <1>11, <1>12 DEF PlacesIn, CancellerIn

LEMMA AgentPlaces ==
    ASSUME InOrder, NEW k \in Lanes, AgentForm(k)
    PROVE  PlacesIn'
<1>1. PlacesIn
  BY PlacesAreIn DEF InOrder
<1>2. /\ UNCHANGED <<adapter, turns, cancels>>
      /\ \A l \in Lanes : lanes'[l].queue = lanes[l].queue
  BY DEF AgentForm, AgentSteps, SamePlace
<1>3. \A c, l : (TurnIn(c, l)' <=> TurnIn(c, l)) /\ (CancelIn(c, l)' <=> CancelIn(c, l))
  BY <1>2 DEF TurnIn, InLane, CancelIn
<1>4. \A c \in Cancellers : cancels[c].left # <<>> => Head(cancels[c].left) \in Lanes
  BY HeldLane DEF InOrder
<1>5. \A t \in DOMAIN turns : turns[t].pc \in Busy => turns[t].lane \in Lanes
  BY <1>1 DEF PlacesIn, InLane
<1> QED
  BY <1>1, <1>2, <1>3, <1>4, <1>5 DEF PlacesIn, InLane, Active

LEMMA PlacesStay ==
    ASSUME InOrder, StepForm
    PROVE  Places'
BY CallingPlaces, WarmPlaces, AwaitPlaces, DropPlaces, EnterPlaces, BusyPlaces, CancelPlaces,
   AgentPlaces, PlacesAreInPrimed DEF StepForm, OtherForm

-----------------------------------------------------------------------------
(***************************************************************************)
(* The engine stays in order                                               *)
(***************************************************************************)
\* No new turn, cancellation or speculation, and none comes back.
QuietMoves ==
    /\ UNCHANGED <<adapter, spec>> /\ DOMAIN turns' = DOMAIN turns
    /\ \A t \in DOMAIN turns :
          /\ turns'[t].session = turns[t].session /\ turns'[t].conv = turns[t].conv
          /\ turns'[t].spec = turns[t].spec /\ turns'[t].aborted = turns[t].aborted
          /\ turns'[t].awaits \in {turns[t].awaits, 0}
          /\ turns[t].pc \in Ended => turns'[t].pc \in Ended
          /\ turns'[t].pc \in {"cancelling", "awaiting"} => turns[t].pc = turns'[t].pc
          /\ turns'[t].pc = "called" => turns[t].pc \in {"called", "cancelling", "awaiting"}
    /\ \A c \in Cancellers :
          cancels'[c].step # "idle" =>
             cancels[c].step # "idle" /\ cancels'[c].session = cancels[c].session

LEMMA SameLength ==
    ASSUME Types, Types', DOMAIN turns' = DOMAIN turns
    PROVE  Len(turns') = Len(turns)
<1>1. /\ Len(turns) \in Nat /\ DOMAIN turns = 1 .. Len(turns)
      /\ Len(turns') \in Nat /\ DOMAIN turns' = 1 .. Len(turns')
  BY LenProperties DEF Types
<1>2. ASSUME NEW m \in Nat, NEW n \in Nat, 1 .. m = 1 .. n PROVE m = n
  <2>1. m # 0 => m \in 1 .. n
    BY <1>2
  <2>2. n # 0 => n \in 1 .. m
    BY <1>2
  <2> QED
    BY <2>1, <2>2
<1> QED
  BY <1>1, <1>2

LEMMA QuietEngine ==
    ASSUME Types, Types', EngineInOrder, QuietMoves
    PROVE  EngineInOrder'
<1>1. \A t \in DOMAIN turns' : t \in DOMAIN turns /\ (Live(t)' => Live(t)) /\ (Main(t)' <=> Main(t))
  BY DEF QuietMoves, Live, Main, Ordinary
<1>2. \A c \in Cancellers : Active(c)' => Active(c) /\ cancels'[c].session = cancels[c].session
  BY DEF QuietMoves, Active
<1>3. 0 \in Cancellers /\ Len(turns) \in Nat /\ Len(turns') = Len(turns)
  BY SameLength, BackendsAssumption, LenProperties DEF Cancellers, MaxTurns, Types, QuietMoves
<1>4. \A t \in DOMAIN turns :
          /\ turns'[t].pc \in {"cancelling", "awaiting"} => Main(t)'
          /\ turns'[t].spec => turns'[t].conv = "goal"
          /\ turns'[t].conv = "warm" <=> turns'[t].session = NoSession
          /\ turns'[t].conv = "warm" => adapter' = "codex"
          /\ turns'[t].awaits \in 0 .. Len(turns')
  BY <1>1, <1>3 DEF QuietMoves, EngineInOrder
<1>5. \A t, u \in DOMAIN turns : Main(t)' /\ Main(u)' /\ Live(t)' /\ Live(u)' => t = u
  BY <1>1 DEF QuietMoves, EngineInOrder
<1>6. \A t \in DOMAIN turns : turns'[t].spec /\ turns'[t].pc = "called" => turns[t].spec /\ turns[t].pc = "called"
  BY DEF QuietMoves, EngineInOrder, Main, Ordinary
<1>7. \A t, u \in DOMAIN turns : turns'[t].spec /\ turns'[t].pc = "called" /\ Main(u)' => ~Live(u)'
  BY <1>1, <1>6 DEF QuietMoves, EngineInOrder
<1>8. \A t \in DOMAIN turns : Main(t)' /\ Live(t)' /\ ~turns'[t].aborted => ~Active(0)'
  BY <1>1, <1>2, <1>3 DEF QuietMoves, EngineInOrder
<1>9. \A t \in DOMAIN turns : turns'[t].spec /\ turns'[t].pc = "called" /\ ~turns'[t].aborted =>
          /\ spec'[turns'[t].session] = t
          /\ \A c \in Cancellers : Active(c)' => cancels'[c].session # turns'[t].session
  BY <1>2, <1>6 DEF QuietMoves, EngineInOrder
<1>10. \A s \in Sessions : spec'[s] # 0 =>
          /\ spec'[s] \in DOMAIN turns /\ turns'[spec'[s]].spec
          /\ turns'[spec'[s]].session = s /\ ~turns'[spec'[s]].aborted
  BY DEF QuietMoves, EngineInOrder
<1>11. DOMAIN turns' = DOMAIN turns
  BY DEF QuietMoves
<1> QED
  BY <1>4, <1>5, <1>7, <1>8, <1>9, <1>10, <1>11 DEF EngineInOrder

LEMMA MovesAreQuiet ==
    ASSUME NEW t \in DOMAIN turns, NEW pc, NEW attempt, NEW answer, MovesTo(t, pc, attempt, answer),
           turns[t].pc \in Ended => pc \in Ended, pc \notin {"cancelling", "awaiting", "called"},
           UNCHANGED <<adapter, spec>>,
           \A c \in Cancellers : cancels'[c] = cancels[c] \/ cancels'[c] = NoCancel
    PROVE  QuietMoves
<1>1. NoCancel.step = "idle"
  BY NoCancelType
<1> QED
  BY <1>1 DEF MovesTo, QuietMoves

LEMMA StepsAreQuiet ==
    ASSUME InOrder, OtherForm
    PROVE  QuietMoves
<1>2. CASE \E f \in Lanes : WarmMoves(f)
  BY <1>2 DEF WarmMoves, QuietMoves
<1>3. CASE \E t \in DOMAIN turns : AwaitMoves(t) /\ ~turns[t].aborted
  BY <1>3 DEF AwaitMoves, QuietMoves, Ended
<1>4. CASE \E t \in DOMAIN turns : DropMoves(t)
  BY <1>4, MovesAreQuiet DEF DropMoves, Ended
<1>5. CASE \E t \in DOMAIN turns, l \in Lanes : EnterMoves(t, l) /\ ~turns[t].aborted
  BY <1>5 DEF EnterMoves, EntersLane, QuietMoves, Ended
<1>6. ASSUME NEW t \in DOMAIN turns, BusyForm(t) PROVE QuietMoves
  <2>1. /\ TurnForm(t) /\ InLane(t) /\ UNCHANGED <<adapter, spec, cancels>>
    BY <1>6 DEF BusyForm, TurnMoves
  <2>2. turns[t].pc \notin Ended
    BY <2>1 DEF InLane, Busy, Ended
  <2>3. \/ turns' = turns
        \/ \E pc, attempt, answer : pc \notin {"cancelling", "awaiting", "called"}
                                    /\ MovesTo(t, pc, attempt, answer)
    BY <2>1 DEF TurnForm
  <2>4. CASE turns' = turns
    BY <2>1, <2>4 DEF QuietMoves
  <2> QED
    BY <2>1, <2>2, <2>3, <2>4, MovesAreQuiet
<1>7. ASSUME NEW c \in Cancellers, CancelForm(c) PROVE QuietMoves
  <2>1. /\ UNCHANGED <<adapter, spec>> /\ DOMAIN turns' = DOMAIN turns
        /\ \A u \in DOMAIN turns : turns'[u] = turns[u]
             \/ /\ turns[u].pc = "cancelling" /\ turns'[u].pc = "called"
                /\ turns'[u].session = turns[u].session /\ turns'[u].aborted = turns[u].aborted
                /\ turns'[u].conv = turns[u].conv /\ turns'[u].spec = turns[u].spec
                /\ turns'[u].awaits = turns[u].awaits
        /\ \A d \in Cancellers : d # c => cancels'[d] = cancels[d]
    BY <1>7, CancelTurns
  <2>2. Active(c) /\ (cancels'[c].step # "idle" => cancels'[c].session = cancels[c].session)
    BY <1>7, CancelQueues, NoCancelType DEF CancelForm, CancelEnds, CancelPasses, CancelStaysAt
  <2> QED
    BY <2>1, <2>2 DEF QuietMoves, Ended, Active
<1>8. CASE \E l \in Lanes : AgentForm(l)
  BY <1>8 DEF AgentForm, QuietMoves
<1> QED
  BY <1>2, <1>3, <1>4, <1>5, <1>6, <1>7, <1>8 DEF StepForm, OtherForm

\* The engine, said of each turn and session.
TurnInOrder(t) ==
    /\ turns[t].pc \in {"cancelling", "awaiting"} => Main(t)
    /\ turns[t].spec => turns[t].conv = "goal"
    /\ turns[t].conv = "warm" <=> turns[t].session = NoSession
    /\ turns[t].conv = "warm" => adapter = "codex"
    /\ turns[t].awaits \in 0 .. Len(turns)
CalledAlone(t) ==
    turns[t].spec /\ turns[t].pc = "called" /\ ~turns[t].aborted =>
       /\ spec[turns[t].session] = t
       /\ \A c \in Cancellers : Active(c) => cancels[c].session # turns[t].session
SpecInOrder(s) ==
    spec[s] # 0 => /\ spec[s] \in DOMAIN turns /\ turns[spec[s]].spec
                   /\ turns[spec[s]].session = s /\ ~turns[spec[s]].aborted

LEMMA EngineByTurn ==
    EngineInOrder <=>
       /\ \A t \in DOMAIN turns : TurnInOrder(t) /\ CalledAlone(t)
       /\ \A t, u \in DOMAIN turns : Main(t) /\ Main(u) /\ Live(t) /\ Live(u) => t = u
       /\ \A t, u \in DOMAIN turns : turns[t].spec /\ turns[t].pc = "called" /\ Main(u) => ~Live(u)
       /\ \A t \in DOMAIN turns : Main(t) /\ Live(t) /\ ~turns[t].aborted => ~Active(0)
       /\ \A s \in Sessions : SpecInOrder(s)
BY DEF EngineInOrder, TurnInOrder, CalledAlone, SpecInOrder

LEMMA EngineByTurnPrimed ==
    ASSUME \A t \in DOMAIN turns' : TurnInOrder(t)' /\ CalledAlone(t)',
           \A t, u \in DOMAIN turns' : Main(t)' /\ Main(u)' /\ Live(t)' /\ Live(u)' => t = u,
           \A t, u \in DOMAIN turns' : turns'[t].spec /\ turns'[t].pc = "called" /\ Main(u)' => ~Live(u)',
           \A t \in DOMAIN turns' : Main(t)' /\ Live(t)' /\ ~turns'[t].aborted => ~Active(0)',
           \A s \in Sessions : SpecInOrder(s)'
    PROVE  EngineInOrder'
BY DEF EngineInOrder, TurnInOrder, CalledAlone, SpecInOrder

\* The turns there were, after a call.
LEMMA OldTurns ==
    ASSUME InOrder, Types', NEW a, NEW new, Calling(a, new)
    PROVE  /\ DOMAIN turns' = DOMAIN turns \cup new /\ new \subseteq {Len(turns) + 1}
           /\ \A t \in new : t \notin DOMAIN turns
           /\ Len(turns) <= Len(turns') /\ Len(turns) \in Nat /\ Len(turns') \in Nat
           /\ UNCHANGED <<adapter, lanes, slots, faults>>
           /\ \A t \in DOMAIN turns :
                 /\ TurnInOrder(t)' /\ t \in DOMAIN turns'
                 /\ Main(t)' <=> Main(t)
                 /\ Live(t)' <=> Live(t)
                 /\ turns'[t].pc = turns[t].pc /\ turns'[t].session = turns[t].session
                 /\ turns'[t].spec = turns[t].spec
                 /\ turns'[t].aborted = (turns[t].aborted \/ t = a)
<1>1. Types
  BY DEF InOrder
<1>2. /\ TurnsKept /\ UNCHANGED <<adapter, lanes, slots, faults>>
      /\ \A t \in DOMAIN turns :
            /\ turns'[t].pc = turns[t].pc
            /\ turns'[t].awaits = turns[t].awaits
            /\ turns'[t].aborted = (turns[t].aborted \/ t = a)
      /\ DOMAIN turns' = DOMAIN turns \cup new /\ new \subseteq {Len(turns) + 1}
      /\ \A t \in new : t \notin DOMAIN turns
  BY <1>1, CallingKeeps
<1>3. Len(turns) <= Len(turns') /\ Len(turns) \in Nat /\ Len(turns') \in Nat
  <2>1. /\ Len(turns) \in Nat /\ DOMAIN turns = 1 .. Len(turns)
        /\ Len(turns') \in Nat /\ DOMAIN turns' = 1 .. Len(turns')
    BY <1>1, LenProperties DEF Types
  <2>2. Len(turns) # 0 => Len(turns) \in 1 .. Len(turns')
    BY <1>2, <2>1
  <2> QED
    BY <2>1, <2>2
<1>4. ASSUME NEW t \in DOMAIN turns
      PROVE  /\ TurnInOrder(t)' /\ t \in DOMAIN turns'
             /\ Main(t)' <=> Main(t)
             /\ Live(t)' <=> Live(t)
             /\ turns'[t].session = turns[t].session /\ turns'[t].spec = turns[t].spec
  <2>1. TurnInOrder(t)
    BY EngineByTurn DEF InOrder
  <2>2. turns[t].awaits \in 0 .. Len(turns')
    BY <1>3, <2>1 DEF TurnInOrder
  <2> QED
    BY <1>2, <2>1, <2>2 DEF TurnInOrder, TurnsKept, Main, Ordinary, Live
<1> QED
  BY <1>2, <1>3, <1>4

LEMMA OldAndNew ==
    ASSUME InOrder, Types', NEW a, NEW n, Calling(a, {n})
    PROVE  /\ DOMAIN turns' = DOMAIN turns \cup {n} /\ n \notin DOMAIN turns
           /\ Len(turns) <= Len(turns') /\ Len(turns) \in Nat /\ Len(turns') \in Nat
           /\ UNCHANGED <<adapter, lanes, slots, faults>>
           /\ \A t \in DOMAIN turns :
                 /\ TurnInOrder(t)' /\ (Main(t)' <=> Main(t)) /\ (Live(t)' <=> Live(t))
                 /\ turns'[t].pc = turns[t].pc /\ turns'[t].session = turns[t].session
                 /\ turns'[t].spec = turns[t].spec /\ turns'[t].aborted = (turns[t].aborted \/ t = a)
<1>1. PICK new : new = {n}
  OBVIOUS
<1>2. Calling(a, new)
  BY <1>1
<1>3. /\ DOMAIN turns' = DOMAIN turns \cup new /\ \A t \in new : t \notin DOMAIN turns
      /\ Len(turns) <= Len(turns') /\ Len(turns) \in Nat /\ Len(turns') \in Nat
      /\ UNCHANGED <<adapter, lanes, slots, faults>>
      /\ \A t \in DOMAIN turns :
            /\ TurnInOrder(t)' /\ (Main(t)' <=> Main(t)) /\ (Live(t)' <=> Live(t))
            /\ turns'[t].pc = turns[t].pc /\ turns'[t].session = turns[t].session
            /\ turns'[t].spec = turns[t].spec /\ turns'[t].aborted = (turns[t].aborted \/ t = a)
  BY <1>2, OldTurns
<1> QED
  BY <1>1, <1>3

LEMMA AskEngine ==
    ASSUME InOrder, NEW s \in Sessions, NEW conv \in Conversations, NEW ctx \in Contexts, Ask(s, conv, ctx)
    PROVE  EngineInOrder'
<1>0. PICK n : n = Len(turns) + 1
  OBVIOUS
<1>1. /\ Types'
      /\ \E a : Calling(a, {n}) /\ (a # 0 => a = spec[s] /\ spec'[s] = 0)
      /\ turns'[n].session = s /\ turns'[n].conv = conv /\ ~turns'[n].spec
      /\ turns'[n].awaits \in 0 .. Len(turns) /\ turns'[n].pc \in {"called", "cancelling", "awaiting"}
      /\ \A x \in Sessions : spec'[x] = spec[x] \/ (x = s /\ spec'[x] = 0)
      /\ \A c \in Cancellers : ~Active(c)
      /\ \A t \in DOMAIN turns : Main(t) => ~Live(t)
      /\ \A t \in DOMAIN turns : turns[t].pc # "called"
  BY <1>0, AskSteps DEF InOrder
<1>2. PICK a : Calling(a, {n}) /\ (a # 0 => a = spec[s] /\ spec'[s] = 0)
  BY <1>1
<1>3. /\ DOMAIN turns' = DOMAIN turns \cup {n} /\ n \notin DOMAIN turns
      /\ Len(turns) <= Len(turns') /\ Len(turns) \in Nat /\ Len(turns') \in Nat
      /\ \A t \in DOMAIN turns :
            /\ TurnInOrder(t)' /\ (Main(t)' <=> Main(t)) /\ (Live(t)' <=> Live(t))
            /\ turns'[t].pc = turns[t].pc /\ turns'[t].session = turns[t].session
            /\ turns'[t].spec = turns[t].spec /\ turns'[t].aborted = (turns[t].aborted \/ t = a)
  BY <1>1, <1>2, OldAndNew
<1>4. ~Active(0)'
  <2>1. cancels' = cancels \/ Cancelling(n, s)
    BY <1>0 DEF Ask
  <2>2. n # 0 /\ 0 \in Cancellers
    BY <1>0, <1>3, BackendsAssumption DEF Cancellers, MaxTurns
  <2>3. cancels'[0] = cancels[0]
    BY <2>1, <2>2 DEF Cancelling, InOrder, Types
  <2> QED
    BY <1>1, <2>2, <2>3 DEF Active
<1>5. TurnInOrder(n)' /\ CalledAlone(n)'
  <2>1. conv # "warm" /\ s # NoSession
    BY BackendsAssumption DEF Conversations
  <2>2. turns'[n].awaits \in 0 .. Len(turns')
    BY <1>1, <1>3
  <2> QED
    BY <1>1, <2>1, <2>2 DEF TurnInOrder, CalledAlone, Main, Ordinary
<1>6. \A x \in Sessions : SpecInOrder(x)'
  <2>1. SUFFICES ASSUME NEW x \in Sessions, spec'[x] # 0
                 PROVE  /\ spec'[x] \in DOMAIN turns' /\ turns'[spec'[x]].spec
                        /\ turns'[spec'[x]].session = x /\ ~turns'[spec'[x]].aborted
    BY DEF SpecInOrder
  <2>2. spec'[x] = spec[x] /\ (a # 0 => x # s)
    BY <1>1, <1>2, <2>1
  <2>3. SpecInOrder(x) /\ SpecInOrder(s)
    BY EngineByTurn DEF InOrder
  <2>4. spec[x] # a
    BY <1>2, <2>1, <2>2, <2>3 DEF SpecInOrder
  <2> QED
    BY <1>3, <2>1, <2>2, <2>3, <2>4 DEF SpecInOrder
<1>7. \A t \in DOMAIN turns' : TurnInOrder(t)' /\ CalledAlone(t)'
  BY <1>1, <1>3, <1>5 DEF CalledAlone
<1> QED
  BY <1>1, <1>3, <1>4, <1>6, <1>7, EngineByTurnPrimed
LEMMA SpeculateEngine ==
    ASSUME InOrder, NEW s \in Sessions, Speculate(s)
    PROVE  EngineInOrder'
<1>0. PICK n : n = Len(turns) + 1
  OBVIOUS
<1>1. /\ Types' /\ Calling(0, {n})
      /\ turns'[n].session = s /\ turns'[n].conv = "goal" /\ turns'[n].spec
      /\ turns'[n].awaits = 0 /\ turns'[n].pc = "called"
      /\ spec' = [spec EXCEPT ![s] = n] /\ cancels' = cancels /\ spec[s] = 0
      /\ \A c \in Cancellers : ~Active(c)
      /\ \A t \in DOMAIN turns : Main(t) => ~Live(t)
  BY <1>0, SpeculateSteps DEF InOrder, Speculate
<1>2. /\ DOMAIN turns' = DOMAIN turns \cup {n} /\ n \notin DOMAIN turns
      /\ Len(turns) <= Len(turns') /\ Len(turns) \in Nat /\ Len(turns') \in Nat
      /\ \A t \in DOMAIN turns :
            /\ TurnInOrder(t)' /\ (Main(t)' <=> Main(t)) /\ (Live(t)' <=> Live(t))
            /\ turns'[t].pc = turns[t].pc /\ turns'[t].session = turns[t].session
            /\ turns'[t].spec = turns[t].spec /\ turns'[t].aborted = (turns[t].aborted \/ t = 0)
  BY <1>1, OldAndNew
<1>3. 0 \notin DOMAIN turns /\ 0 \in Cancellers /\ ~turns'[n].aborted /\ 0 \in 0 .. Len(turns')
      /\ spec \in [Sessions -> 0 .. MaxTurns]
  <2>1. DOMAIN turns = 1 .. Len(turns) /\ spec \in [Sessions -> 0 .. MaxTurns]
    BY LenProperties DEF InOrder, Types
  <2> QED
    BY <1>1, <1>2, <2>1, BackendsAssumption DEF Calling, Adds, Cancellers, MaxTurns
<1>4. \A c \in Cancellers : ~Active(c)'
  BY <1>1 DEF Active
<1>5. \A x \in Sessions : spec'[x] = IF x = s THEN n ELSE spec[x]
  BY <1>1, <1>3
<1>6. ASSUME NEW t \in DOMAIN turns PROVE CalledAlone(t)'
  <2>1. CalledAlone(t) /\ TurnInOrder(t) /\ turns[t].session \in SessionNames
    BY EngineByTurn, TurnIsKnown DEF InOrder, TurnRecords
  <2>2. turns[t].spec => turns[t].session \in Sessions
    BY <2>1 DEF TurnInOrder, SessionNames
  <2> QED
    <3>1. /\ t # 0 /\ turns'[t].pc = turns[t].pc /\ turns'[t].session = turns[t].session
          /\ turns'[t].spec = turns[t].spec /\ (turns[t].aborted => turns'[t].aborted)
      BY <1>2, <1>3
    <3>2. ASSUME turns'[t].spec, turns'[t].pc = "called", ~turns'[t].aborted
          PROVE  spec'[turns'[t].session] = t
      <4>1. spec[turns[t].session] = t /\ turns[t].session \in Sessions
        BY <2>1, <2>2, <3>1, <3>2 DEF CalledAlone
      <4>2. turns[t].session # s
        BY <1>1, <3>1, <4>1
      <4> QED
        BY <1>5, <3>1, <4>1, <4>2
    <3> QED
      BY <1>4, <3>2 DEF CalledAlone
<1>7. CalledAlone(n)' /\ TurnInOrder(n)' /\ ~Main(n)'
  <2>1. s # NoSession
    BY BackendsAssumption
  <2> QED
    BY <1>1, <1>3, <1>4, <1>5, <2>1 DEF TurnInOrder, CalledAlone, Main, Ordinary
<1>8. \A x \in Sessions : SpecInOrder(x)'
  <2>1. \A x \in Sessions : SpecInOrder(x)
    BY EngineByTurn DEF InOrder
  <2> QED
    <3>1. SUFFICES ASSUME NEW x \in Sessions, spec'[x] # 0
                   PROVE  /\ spec'[x] \in DOMAIN turns' /\ turns'[spec'[x]].spec
                          /\ turns'[spec'[x]].session = x /\ ~turns'[spec'[x]].aborted
      BY DEF SpecInOrder
    <3>2. CASE x = s
      BY <1>1, <1>2, <1>3, <1>5, <3>2
    <3>3. CASE x # s
      <4>1. spec'[x] = spec[x]
        BY <1>5, <3>3
      <4>2. /\ spec[x] \in DOMAIN turns /\ turns[spec[x]].spec /\ spec[x] # 0
            /\ turns[spec[x]].session = x /\ ~turns[spec[x]].aborted
        BY <2>1, <3>1, <4>1 DEF SpecInOrder
      <4> QED
        BY <1>2, <4>1, <4>2
    <3> QED
      BY <3>2, <3>3
<1> QED
  BY <1>1, <1>2, <1>3, <1>4, <1>6, <1>7, <1>8, EngineByTurnPrimed

LEMMA AbortPendingEngine ==
    ASSUME InOrder, NEW a \in DOMAIN turns, AbortPending(a)
    PROVE  EngineInOrder'
<1>1. /\ Types' /\ Calling(a, {}) /\ Main(a) /\ Live(a) /\ ~turns[a].aborted /\ spec' = spec
  BY AbortPendingSteps DEF InOrder
<1>2. /\ DOMAIN turns' = DOMAIN turns
      /\ \A t \in DOMAIN turns :
            /\ TurnInOrder(t)' /\ (Main(t)' <=> Main(t)) /\ (Live(t)' <=> Live(t))
            /\ turns'[t].pc = turns[t].pc /\ turns'[t].session = turns[t].session
            /\ turns'[t].spec = turns[t].spec /\ turns'[t].aborted = (turns[t].aborted \/ t = a)
  <2>1. PICK new : new = {}
    OBVIOUS
  <2>2. Calling(a, new) /\ DOMAIN turns' = DOMAIN turns \cup new
    BY <1>1, <2>1, OldTurns
  <2> QED
    BY <1>1, <2>1, <2>2, OldTurns
<1>3. EngineInOrder
  BY DEF InOrder
<1>4. \A t \in DOMAIN turns : CalledAlone(t)'
  BY <1>1, <1>2, <1>3 DEF EngineInOrder, CalledAlone
<1>5. \A t \in DOMAIN turns' : Main(t)' /\ Live(t)' /\ ~turns'[t].aborted => ~Active(0)'
  BY <1>1, <1>2, <1>3, ZenonT(30) DEF EngineInOrder
<1>6. \A s \in Sessions : SpecInOrder(s)'
  BY <1>1, <1>2, <1>3, ZenonT(30) DEF EngineInOrder, SpecInOrder, Main, Ordinary
<1> QED
  BY <1>2, <1>3, <1>4, <1>5, <1>6, EngineByTurnPrimed DEF EngineInOrder

LEMMA CancelSpeculationEngine ==
    ASSUME InOrder, NEW s \in Sessions, CancelSpeculation(s)
    PROVE  EngineInOrder'
<1>0. PICK a : a = IF Live(spec[s]) THEN spec[s] ELSE 0
  OBVIOUS
<1>1. /\ Types' /\ Calling(a, {}) /\ (Live(spec[s]) => Starts0(0, s)) /\ spec[s] # 0
      /\ spec' = [spec EXCEPT ![s] = 0] /\ \A o \in Asked : ~Live(o)
      /\ cancels[0].step = "idle" /\ (~Live(spec[s]) => cancels' = cancels)
  BY <1>0, CancelSpeculationSteps DEF InOrder, CancelSpeculation, MainIsIdle
<1>2. /\ DOMAIN turns' = DOMAIN turns
      /\ \A t \in DOMAIN turns :
            /\ TurnInOrder(t)' /\ (Main(t)' <=> Main(t)) /\ (Live(t)' <=> Live(t))
            /\ turns'[t].pc = turns[t].pc /\ turns'[t].session = turns[t].session
            /\ turns'[t].spec = turns[t].spec /\ turns'[t].aborted = (turns[t].aborted \/ t = a)
  <2>1. PICK new : new = {}
    OBVIOUS
  <2>2. Calling(a, new) /\ DOMAIN turns' = DOMAIN turns \cup new
    BY <1>1, <2>1, OldTurns
  <2> QED
    BY <1>1, <2>1, <2>2, OldTurns
<1>3. EngineInOrder /\ spec \in [Sessions -> 0 .. MaxTurns] /\ cancels \in [Cancellers -> CancelRecords]
  BY DEF InOrder, Types
<1>4. \A t \in DOMAIN turns : Main(t) => ~Live(t)
  BY <1>1 DEF Main, Asked
<1>5. \A c \in Cancellers : ~Active(c)
  BY <1>1, NobodyCancels DEF InOrder
<1>6. \A c \in Cancellers : Active(c)' => cancels'[c].session = s
  BY <1>1, <1>3, <1>5 DEF Starts0, Active
<1>7. \A x \in Sessions : spec'[x] = IF x = s THEN 0 ELSE spec[x]
  BY <1>1, <1>3
<1>8. ASSUME NEW t \in DOMAIN turns, turns'[t].spec, turns'[t].pc = "called", ~turns'[t].aborted
      PROVE  /\ spec'[turns'[t].session] = t
             /\ \A c \in Cancellers : Active(c)' => cancels'[c].session # turns'[t].session
  <2>1. /\ turns[t].spec /\ turns[t].pc = "called" /\ ~turns[t].aborted /\ t # a
        /\ turns'[t].session = turns[t].session
    BY <1>2, <1>8
  <2>2. spec[turns[t].session] = t /\ turns[t].session \in Sessions
    <3>1. CalledAlone(t) /\ TurnInOrder(t) /\ turns[t].session \in SessionNames
      BY EngineByTurn, TurnIsKnown DEF InOrder, TurnRecords
    <3> QED
      BY <2>1, <3>1 DEF CalledAlone, TurnInOrder, SessionNames
  <2>3. turns[t].session # s
    <3>1. Live(t)
      BY <2>1 DEF Live, Ended
    <3> QED
      BY <1>0, <2>1, <2>2, <3>1
  <2> QED
    BY <1>6, <1>7, <2>1, <2>2, <2>3
<1>9. \A x \in Sessions : SpecInOrder(x)'
  <2>1. SUFFICES ASSUME NEW x \in Sessions, spec'[x] # 0
                 PROVE  /\ spec'[x] \in DOMAIN turns' /\ turns'[spec'[x]].spec
                        /\ turns'[spec'[x]].session = x /\ ~turns'[spec'[x]].aborted
    BY DEF SpecInOrder
  <2>2. x # s /\ spec'[x] = spec[x]
    BY <1>7, <2>1
  <2>3. /\ spec[x] \in DOMAIN turns /\ turns[spec[x]].spec
        /\ turns[spec[x]].session = x /\ ~turns[spec[x]].aborted
        /\ turns[spec[s]].session = s
    BY <1>1, <1>3, <2>1, <2>2 DEF EngineInOrder
  <2>4. spec[x] # a
    BY <1>0, <2>1, <2>2, <2>3
  <2> QED
    BY <1>2, <2>2, <2>3, <2>4
<1>10. \A t \in DOMAIN turns : CalledAlone(t)'
  BY <1>8 DEF CalledAlone
<1> QED
  BY <1>2, <1>4, <1>9, <1>10, EngineByTurnPrimed
LEMMA WarmUpEngine ==
    ASSUME InOrder, Types', WarmUp, adapter # "claude"
    PROVE  EngineInOrder'
<1>0. PICK n : n = Len(turns) + 1
  OBVIOUS
<1>1. /\ adapter = "codex" /\ Calling(0, {n}) /\ spec' = spec
      /\ turns'[n].session = NoSession /\ turns'[n].conv = "warm" /\ ~turns'[n].spec
      /\ turns'[n].awaits = 0 /\ turns'[n].pc = "called"
  BY <1>0, CodexWarmsUp DEF InOrder
<1>2. /\ DOMAIN turns' = DOMAIN turns \cup {n} /\ n \notin DOMAIN turns
      /\ Len(turns) <= Len(turns') /\ Len(turns) \in Nat /\ Len(turns') \in Nat
      /\ UNCHANGED <<adapter, lanes, slots, faults>>
      /\ \A t \in DOMAIN turns :
            /\ TurnInOrder(t)' /\ (Main(t)' <=> Main(t)) /\ (Live(t)' <=> Live(t))
            /\ turns'[t].pc = turns[t].pc /\ turns'[t].session = turns[t].session
            /\ turns'[t].spec = turns[t].spec /\ turns'[t].aborted = (turns[t].aborted \/ t = 0)
  BY <1>1, OldAndNew, ZenonT(30)
<1>3. cancels' = cancels
  BY <1>1 DEF Calling
<1>4. EngineInOrder
  BY DEF InOrder
<1>5. 0 \notin DOMAIN turns /\ 0 \in 0 .. Len(turns')
  <2>1. DOMAIN turns = 1 .. Len(turns)
    BY LenProperties DEF InOrder, Types
  <2> QED
    BY <1>2, <2>1
<1>6. TurnInOrder(n)' /\ CalledAlone(n)' /\ ~Main(n)'
  BY <1>1, <1>2, <1>5 DEF TurnInOrder, CalledAlone, Main
<1>7. \A t \in DOMAIN turns : turns[t].aborted <=> turns'[t].aborted
  BY <1>2, <1>5
<1>8. \A t \in DOMAIN turns : CalledAlone(t)'
  BY <1>1, <1>2, <1>3, <1>4, <1>7 DEF EngineInOrder, CalledAlone, Active
<1>9. \A s \in Sessions : SpecInOrder(s)'
  BY <1>1, <1>2, <1>4, <1>7 DEF EngineInOrder, SpecInOrder
<1>10. \A t \in DOMAIN turns' : TurnInOrder(t)' /\ CalledAlone(t)'
  BY <1>2, <1>6, <1>8
<1>11. \A t, u \in DOMAIN turns' : Main(t)' /\ Main(u)' /\ Live(t)' /\ Live(u)' => t = u
  BY <1>2, <1>4, <1>6 DEF EngineInOrder
<1>12. \A t, u \in DOMAIN turns' : turns'[t].spec /\ turns'[t].pc = "called" /\ Main(u)' => ~Live(u)'
  BY <1>1, <1>2, <1>4, <1>6 DEF EngineInOrder
<1>13. \A t \in DOMAIN turns' : Main(t)' /\ Live(t)' /\ ~turns'[t].aborted => ~Active(0)'
  BY <1>2, <1>3, <1>4, <1>6, <1>7 DEF EngineInOrder, Active
<1> QED
  BY <1>9, <1>10, <1>11, <1>12, <1>13, EngineByTurnPrimed

LEMMA EngineStays ==
    ASSUME InOrder, Next, Types'
    PROVE  EngineInOrder'
<1>1. CASE OtherForm
  BY <1>1, StepsAreQuiet, QuietEngine DEF InOrder
<1>2. CASE Calls
  <2>1. CASE WarmUp /\ adapter = "claude"
    <3>1. \E f \in Lanes : WarmMoves(f)
      BY <2>1, ClaudeWarmsUp DEF WarmMoves, InOrder
    <3> QED
      BY <1>1, <3>1 DEF OtherForm
  <2> QED
    BY <1>2, <2>1, AskEngine, SpeculateEngine, AbortPendingEngine, CancelSpeculationEngine,
       WarmUpEngine DEF Calls
<1> QED
  BY <1>1, <1>2, NextForms

-----------------------------------------------------------------------------
(***************************************************************************)
(* The slots stay in order                                                 *)
(***************************************************************************)
\* claude_app's lanes that nobody refers to are gone once they are free.
Settled ==
    \A l \in Lanes : l \notin Referenced /\ lanes[l].queue = <<>> => lanes[l] = EmptyLane

LEMMA ReapedIsSettled ==
    ASSUME adapter = "claude", NEW ls, lanes' = Reaped(ls, slots), slots' = slots
    PROVE  Settled'
<1>1. ASSUME NEW l \in Lanes, l \notin Referenced', lanes'[l].queue = <<>>
      PROVE  lanes'[l] = EmptyLane
  <2>1. l \notin {slots.discovery, slots.patch, slots.warm}
    BY <1>1 DEF Referenced
  <2>2. lanes'[l] = IF ls[l].queue = <<>> THEN EmptyLane ELSE ls[l]
    BY <2>1 DEF Reaped
  <2> QED
    BY <1>1, <2>2
<1> QED
  BY <1>1 DEF Settled

LEMMA BusySettles ==
    ASSUME InOrder, adapter = "claude", NEW t \in DOMAIN turns,
           Begin(t) \/ Read(t) \/ EndOfFile(t) \/ Timeout(t), BusyForm(t)
    PROVE  Settled'
<1> DEFINE l == turns[t].lane
<1>1. /\ l \in Lanes /\ UNCHANGED slots /\ lanes[l].queue # <<>>
      /\ \A m \in Lanes : m # l => lanes'[m] = lanes[m]
      /\ lanes \in [Lanes -> LaneRecords] /\ lanes[l] \in LaneRecords
  BY DEF BusyForm, TurnMoves, InOrder, Types
<1>2. Settled
  BY DEF Settled, InOrder, SlotsInOrder
<1>3. CASE lanes'[l].queue = lanes[l].queue
  BY <1>1, <1>2, <1>3 DEF Settled, Referenced
<1>4. CASE \E ls : lanes' = Reaped(ls, slots)
  BY <1>1, <1>4, ReapedIsSettled
<1>5. CASE Begin(t)
  <2>1. turns' = [turns EXCEPT ![t].pc = "reading"]
    BY <1>5 DEF Begin, ClaudeBegins, Goes
  <2>2. turns'[t].pc = "reading"
    BY <2>1, TurnIsKnown DEF TurnRecords, InOrder, Types
  <2>3. TurnForm(t)
    BY DEF BusyForm, TurnMoves
  <2>4. \A pc \in {"done", "failed"} : \A attempt, answer : ~MovesTo(t, pc, attempt, answer)
    BY <2>2 DEF MovesTo
  <2> QED
    BY <1>3, <2>3, <2>4, BusyQueue
<1>6. CASE Read(t)
  <2>1. StreamReads(t, l)
    BY <1>6 DEF Read
  <2> QED
    <3>1. CASE lanes' = [lanes EXCEPT ![l] = [lanes[l] EXCEPT !.events = Tail(@)]]
      BY <1>1, <1>3, <3>1 DEF LaneRecords
    <3>2. CASE \E pc, answer, L : Ends(t, l, pc, answer, L)
      BY <1>4, <3>2 DEF Ends
    <3> QED
      BY <2>1, <3>1, <3>2 DEF StreamReads, Fails
<1>7. CASE EndOfFile(t)
  BY <1>4, <1>7 DEF EndOfFile, Ends, Fails
<1>8. CASE Timeout(t)
  BY <1>4, <1>8 DEF Timeout, Ends, Fails
<1> QED
  BY <1>5, <1>6, <1>7, <1>8
LEMMA CancelSettles ==
    ASSUME InOrder, adapter = "claude", NEW c \in Cancellers, CancelSteps(c), CancelForm(c)
    PROVE  Settled'
<1> DEFINE k == Head(cancels[c].left)
<1>1. UNCHANGED slots /\ Settled
  BY DEF CancelForm, CancelMoves, Settled, InOrder, SlotsInOrder
<1>2. CASE \E ls : lanes' = Reaped(ls, slots)
  BY <1>1, <1>2, ReapedIsSettled
<1>3. CASE CancelGoesOn(c)
  <2>1. CASE lanes' = lanes
    BY <1>1, <2>1 DEF Settled, Referenced
  <2>2. CASE /\ k \in Lanes /\ lanes'[k].queue = Append(lanes[k].queue, c)
             /\ \A m \in Lanes : m # k => lanes'[m] = lanes[m]
    <3>1. lanes[k].queue \in Seq(Cancellers)
      BY <2>2, LaneFields DEF InOrder
    <3>2. Append(lanes[k].queue, c) # <<>>
      BY <3>1, AppendedProperties
    <3>3. lanes'[k].queue # <<>>
      BY <2>2, <3>2
    <3> QED
      BY <1>1, <2>2, <3>3 DEF Settled, Referenced
  <2>3. cancels[c].step = "next"
    BY <1>3 DEF CancelGoesOn
  <2>4. \/ lanes' = lanes
        \/ /\ k \in Lanes /\ lanes'[k].queue = Append(lanes[k].queue, c)
           /\ \A m \in Lanes : m # k => lanes'[m] = lanes[m]
    BY <2>3, CancelQueues
  <2> QED
    BY <2>1, <2>2, <2>4
<1>4. CASE CancelLane(c)
  BY <1>2, <1>4 DEF CancelLane
<1>5. CASE CancelReads(c)
  BY <1>5 DEF CancelReads, InOrder, Places, CancelsInOrder
<1> QED
  BY <1>3, <1>4, <1>5 DEF CancelSteps

LEMMA AgentSettles ==
    ASSUME InOrder, Types', adapter = "claude", NEW k \in Lanes, AgentForm(k)
    PROVE  Settled'
<1>1. UNCHANGED slots /\ Settled /\ AgentSteps(lanes'[k], lanes[k])
      /\ \A m \in Lanes : m # k => lanes'[m] = lanes[m]
  BY DEF AgentForm, Settled, InOrder, SlotsInOrder
<1>2. lanes'[k] \in LaneRecords
  BY DEF Types
<1>3. ASSUME lanes[k] = EmptyLane PROVE lanes'[k] = EmptyLane
  <2> DEFINE K == lanes'[k]
  <2>1. AgentSteps(K, EmptyLane) /\ K \in LaneRecords
    BY <1>1, <1>2, <1>3
  <2> HIDE DEF K
  <2>2. SamePlace(K, EmptyLane) /\ Crashes(K, EmptyLane)
    BY <2>1, EmptySeq DEF AgentSteps, EmptyLane, Answered, TakesTurn, Refuses, IsInterrupted, Finishes, Garbles
  <2>3. K = EmptyLane
    BY <2>1, <2>2 DEF SamePlace, Crashes, EmptyLane, LaneRecords
  <2> QED
    BY <2>3 DEF K
<1>4. lanes'[k].queue = lanes[k].queue
  BY <1>1 DEF AgentSteps, SamePlace
<1> QED
  BY <1>1, <1>3, <1>4 DEF Settled, Referenced

LEMMA SettledStays ==
    ASSUME InOrder, Next, Types', adapter = "claude"
    PROVE  Settled'
<1>0. Settled /\ Types
  BY DEF Settled, InOrder, SlotsInOrder
<1>1. CASE Calls
  <2>1. CASE \E a, new : Calling(a, new)
    BY <1>0, <2>1 DEF Calling, Settled, Referenced
  <2>2. ASSUME NEW f \in Lanes, WarmMoves(f) PROVE Settled'
    <3>1. \A m \in Lanes : m \notin Referenced' => m # f /\ lanes'[m] = lanes[m] /\ m \notin Referenced
      <4>1. \A m \in Lanes : m # 0
        BY DEF Lanes
      <4> QED
        BY <2>2, <4>1 DEF WarmMoves, Referenced
    <3> QED
      BY <1>0, <3>1 DEF Settled
  <2> QED
    BY <1>1, <2>1, <2>2, CallForms
<1>2. ASSUME NEW l \in Lanes, AgentTakes(l) \/ AgentFinishes(l) \/ AgentFaults(l) PROVE Settled'
  <2>1. AgentForm(l)
    BY <1>0, <1>2, AgentLane DEF AgentForm
  <2> QED
    BY <2>1, AgentSettles
<1>3. ASSUME NEW t \in DOMAIN turns, ~turns[t].aborted, Begin(t) \/ Read(t) \/ EndOfFile(t) \/ Timeout(t)
      PROVE  Settled'
  <2>1. /\ TurnMoves(t) /\ UNCHANGED <<adapter, slots, cancels, spec, faults>> /\ Types'
        /\ turns[t].lane \in Lanes /\ InLane(t) /\ Holds(t, turns[t].lane)
        /\ lanes[turns[t].lane].queue # <<>> /\ Head(lanes[turns[t].lane].queue) = t
        /\ lanes[turns[t].lane] \in LaneRecords
    BY <1>3, BusyMoves DEF InOrder
  <2> QED
    BY <1>3, <2>1, BusySettles DEF BusyForm
<1>4. ASSUME NEW t \in Turns, Steps(t) PROVE Settled'
  <2>1. t \in DOMAIN turns
    BY <1>4 DEF Steps
  <2>2. CASE Dropped(t)
    <3>1. DropMoves(t)
      BY <2>1, <2>2, DroppedMoves DEF InOrder
    <3> QED
      BY <3>1 DEF DropMoves, Settled, Referenced
  <2>3. CASE AwaitEnds(t)
    BY <1>0, <2>3 DEF AwaitEnds, Settled, Referenced
  <2>4. CASE ~turns[t].aborted /\ Enter(t)
    <3>1. PICK k \in Lanes : EnterMoves(t, k)
      BY <2>1, <2>4, EnterSteps DEF InOrder
    <3>2. lanes'[k].queue # <<>>
      BY <2>1, <3>1, LaneFields, AppendedProperties, OwnRunType, SMTT(30) DEF EnterMoves, EntersLane, InOrder
    <3>3. \A m \in Lanes : m # k /\ m \notin Referenced' /\ lanes'[m].queue = <<>> => lanes'[m] = EmptyLane
      BY <3>1 DEF EnterMoves
    <3> QED
      BY <3>2, <3>3 DEF Settled
  <2>5. CASE ~turns[t].aborted /\ (Begin(t) \/ Read(t) \/ EndOfFile(t))
    BY <1>3, <2>1, <2>5
  <2>6. Dropped(t) \/ (~turns[t].aborted /\ (AwaitEnds(t) \/ Enter(t) \/ Begin(t) \/ Read(t) \/ EndOfFile(t)))
    BY <1>4 DEF Steps
  <2> QED
    BY <2>2, <2>3, <2>4, <2>5, <2>6
<1>5. ASSUME NEW t \in Turns, Expires(t) PROVE Settled'
  BY <1>3, <1>5 DEF Expires
<1>6. ASSUME NEW c \in Cancellers, CancelSteps(c) PROVE Settled'
  <2>1. CancelsInOrder
    BY DEF InOrder, Places
  <2>2. CancelMoves(c)
    BY <1>6, <2>1, CancelGoesOnMoves, CancelLaneMoves, CancelReadsMoves DEF CancelSteps, InOrder
  <2>3. Active(c)
    BY <1>6 DEF CancelSteps, Active, CancelGoesOn, CancelLane, CancelReads
  <2>4. cancels[c].step \in {"locking", "interrupt"} => Holds(c, Head(cancels[c].left))
    BY <1>6, <2>1 DEF CancelSteps, CancelGoesOn, CancelLane, CancelReads, CancelsInOrder
  <2> QED
    BY <1>6, <2>2, <2>3, <2>4, CancelSettles DEF CancelForm
<1> QED
  BY <1>1, <1>2, <1>4, <1>5, <1>6 DEF Next, Agent

\* Only a call sends a cancellation to more lanes.
LEMMA GivenShrinks ==
    ASSUME InOrder, OtherForm, NEW c \in Cancellers, NEW l \in Lanes, Given(c, l)'
    PROVE  Given(c, l)
<1>1. CASE cancels'[c] = cancels[c]
  BY <1>1 DEF Given
<1>2. CASE cancels'[c] = NoCancel
  BY <1>2, NoCancelType, EmptySeq DEF Given
<1>3. CASE cancels'[c].left = cancels[c].left
  BY <1>3 DEF Given
<1>4. CASE cancels[c].left # <<>> /\ cancels'[c].left = Tail(cancels[c].left)
  <2> DEFINE q == cancels[c].left
  <2>1. q \in Seq(Lanes)
    BY DEF InOrder, Types, CancelRecords
  <2>2. \A i \in DOMAIN Tail(q) : i + 1 \in DOMAIN q /\ Tail(q)[i] = q[i + 1]
    BY <1>4, <2>1, TailProperties
  <2> QED
    BY <1>4, <2>2 DEF Given
<1>5. ASSUME NEW d \in Cancellers, CancelForm(d)
      PROVE  \/ cancels'[c] \in {cancels[c], NoCancel} \/ cancels'[c].left = cancels[c].left
             \/ cancels[c].left # <<>> /\ cancels'[c].left = Tail(cancels[c].left)
  <2>1. CASE c # d
    BY <1>5, <2>1, CancelTurns
  <2>2. CASE c = d
    BY <1>5, <2>2, CancelQueues DEF CancelEnds, CancelPasses, CancelStaysAt
  <2> QED
    BY <2>1, <2>2
<1>6. ASSUME NEW t \in DOMAIN turns, DropMoves(t) PROVE cancels'[c] \in {cancels[c], NoCancel}
  BY <1>6 DEF DropMoves
<1>7. cancels' = cancels \/ (\E d \in Cancellers : CancelForm(d)) \/ (\E t \in DOMAIN turns : DropMoves(t))
  BY DEF OtherForm, WarmMoves, AwaitMoves, EnterMoves, EntersLane, BusyForm, AgentForm
<1> QED
  BY <1>1, <1>2, <1>3, <1>4, <1>5, <1>6, <1>7

LEMMA CallGives ==
    ASSUME InOrder, NEW a, NEW new, Calling(a, new), NEW c \in Cancellers, NEW l \in Lanes, Given(c, l)'
    PROVE  \/ Given(c, l)
           \/ /\ a # 0 /\ a \in DOMAIN turns /\ cancels[c].step = "idle" /\ cancels'[c].step = "next"
              /\ cancels'[c].session = turns[a].session
              /\ adapter = "codex" => l \in {1, 2}
              /\ adapter = "stdio" => l = 1
              /\ adapter = "claude" => slots.session = turns[a].session /\ l \in {slots.discovery, slots.patch}
<1>0. Types /\ adapter \in {"codex", "claude", "stdio"} /\ cancels \in [Cancellers -> CancelRecords]
  BY BackendsAssumption DEF InOrder, Types
<1>1. CASE cancels'[c] = cancels[c]
  BY <1>1 DEF Given
<1>2. CASE cancels'[c] # cancels[c]
  <2>1. a # 0 /\ a \in DOMAIN turns
    BY <1>2 DEF Calling
  <2>2. PICK d \in Cancellers : Starts0(d, turns[a].session)
    BY <2>1 DEF Calling
  <2>3. PICK route \in CancelRoutes(turns[a].session) :
          /\ cancels[d].step = "idle"
          /\ cancels' = [cancels EXCEPT ![d] = [step |-> "next", session |-> turns[a].session, left |-> route]]
    BY <2>2 DEF Starts0
  <2>4. c = d /\ cancels'[c].left = route /\ cancels'[c].step = "next"
        /\ cancels'[c].session = turns[a].session /\ cancels[c].step = "idle"
    BY <1>0, <1>2, <2>3
  <2>5. turns[a].session \in SessionNames
    BY <1>0, <2>1, TurnIsKnown DEF TurnRecords
  <2>6. /\ adapter = "codex" => route = <<1, 2>>
        /\ adapter = "stdio" => route = <<1>>
        /\ adapter = "claude" =>
             /\ \A i \in DOMAIN route :
                   slots.session = turns[a].session /\ route[i] \in {slots.discovery, slots.patch}
    BY <1>0, <2>5, RouteTypes
  <2>7. PICK i \in DOMAIN route : route[i] = l
    BY <2>4 DEF Given
  <2>8. adapter = "codex" => l \in {1, 2}
    BY <2>6, <2>7
  <2>9. adapter = "stdio" => l = 1
    BY <2>6, <2>7
  <2> QED
    BY <2>1, <2>4, <2>6, <2>7, <2>8, <2>9
<1> QED
  BY <1>1, <1>2

\* A lane whose process nobody has talked to.
LEMMA WarmLaneStays ==
    ASSUME InOrder, StepForm, Types', slots.warm # 0, slots' = slots
    PROVE  Unspoken(slots.warm)'
<1> DEFINE w == slots.warm
<1>1. /\ w \in Lanes /\ adapter = "claude" /\ Unspoken(w) /\ w \in Referenced
      /\ w \notin {slots.discovery, slots.patch}
  BY DEF InOrder, SlotsInOrder, Types, SlotRecords, Referenced
<1>2. /\ lanes[w].queue = <<>> /\ lanes[w].wire = <<>> /\ lanes[w].running = <<>> /\ lanes[w].users = {}
      /\ \A i \in DOMAIN lanes[w].events : lanes[w].events[i].is # "completed"
      /\ \A c \in Cancellers : ~Given(c, w)
  BY <1>1 DEF Unspoken
<1>3. \A c \in Cancellers : ~Given(c, w)'
  <2> SUFFICES ASSUME NEW c \in Cancellers, Given(c, w)' PROVE FALSE
    OBVIOUS
  <2>1. CASE OtherForm
    BY <1>1, <1>2, <2>1, GivenShrinks
  <2>2. CASE \E a, new : Calling(a, new)
    BY <1>1, <1>2, <2>2, CallGives
  <2> QED
    BY <2>1, <2>2 DEF StepForm
<1>4. lanes'[w] = lanes[w] \/ (SameWork(lanes'[w], lanes[w]) /\ lanes'[w].queue = <<>>)
      \/ \E l \in Lanes : AgentForm(l)
  <2>1. CASE \E a, new : Calling(a, new)
    BY <2>1 DEF Calling
  <2>2. CASE \E f \in Lanes : WarmMoves(f)
    BY <1>1, <2>2 DEF WarmMoves
  <2>3. CASE \E t \in DOMAIN turns : AwaitMoves(t)
    BY <2>3 DEF AwaitMoves
  <2>4. CASE \E t \in DOMAIN turns : DropMoves(t)
    <3>1. PICK t \in DOMAIN turns : DropMoves(t)
      BY <2>4
    <3>2. Without(<<>>, t) = <<>>
      BY EmptySeq DEF Without
    <3>3. lanes'[w].queue = Without(lanes[w].queue, t)
      BY <1>1, <3>1 DEF DropMoves
    <3>4. SameWork(lanes'[w], lanes[w])
      BY <1>1, <3>1 DEF DropMoves
    <3> QED
      BY <1>2, <3>2, <3>3, <3>4
  <2>5. CASE \E t \in DOMAIN turns, l \in Lanes : EnterMoves(t, l)
    <3>1. PICK t \in DOMAIN turns, l \in Lanes : EnterMoves(t, l)
      BY <2>5
    <3>2. l # w
      BY <1>1, <3>1 DEF EnterMoves, TakesSlot
    <3>3. w \in Referenced'
      BY <1>1 DEF Referenced
    <3> QED
      BY <1>1, <3>1, <3>2, <3>3 DEF EnterMoves
  <2>6. CASE \E t \in DOMAIN turns : BusyForm(t)
    BY <1>1, <1>2, <2>6 DEF BusyForm, TurnMoves
  <2>7. ASSUME NEW c \in Cancellers, CancelForm(c) PROVE lanes'[w] = lanes[w]
    <3>1. CASE lanes' = lanes
      BY <3>1
    <3>2. CASE cancels[c].left # <<>> /\ \A m \in Lanes : m # Head(cancels[c].left) => lanes'[m] = lanes[m]
      <4>1. 1 \in DOMAIN cancels[c].left /\ cancels[c].left[1] = Head(cancels[c].left)
        BY <3>2, TailProperties DEF InOrder, Types, CancelRecords
      <4>2. Given(c, Head(cancels[c].left))
        BY <4>1 DEF Given
      <4> QED
        BY <1>1, <1>2, <3>2, <4>2
    <3> QED
      BY <2>7, <3>1, <3>2, CancelQueues
  <2> QED
    BY <2>1, <2>2, <2>3, <2>4, <2>5, <2>6, <2>7 DEF StepForm, OtherForm
<1>5. ASSUME NEW l \in Lanes, AgentForm(l), lanes'[w] # lanes[w]
      PROVE  /\ lanes'[w].queue = <<>> /\ lanes'[w].wire = <<>> /\ lanes'[w].running = <<>>
             /\ lanes'[w].users = {}
             /\ \A i \in DOMAIN lanes'[w].events : lanes'[w].events[i].is # "completed"
  <2> DEFINE K == lanes'[w]
             L == lanes[w]
  <2>1. AgentSteps(K, L)
    BY <1>1, <1>5 DEF AgentForm
  <2>2. /\ L.queue = <<>> /\ L.wire = <<>> /\ L.running = <<>> /\ L.users = {} /\ L.events \in Seq(Events)
        /\ \A i \in DOMAIN L.events : L.events[i].is # "completed"
    BY <1>1, <1>2, LaneFields DEF InOrder
  <2> SUFFICES /\ K.queue = <<>> /\ K.wire = <<>> /\ K.running = <<>>
               /\ K.users = {} /\ \A i \in DOMAIN K.events : K.events[i].is # "completed"
    OBVIOUS
  <2> HIDE DEF K, L
  <2>3. SamePlace(K, L) /\ (Crashes(K, L) \/ Garbles(K, L))
    BY <2>1, <2>2, EmptySeq DEF AgentSteps, Answered, TakesTurn, Refuses, IsInterrupted, Finishes
  <2>4. CASE Crashes(K, L)
    BY <2>2, <2>3, <2>4 DEF SamePlace, Crashes
  <2>5. CASE Garbles(K, L)
    <3>1. /\ GarbledEvent \in Events /\ GarbledEvent.is = "garbled"
          /\ K.events = Append(L.events, GarbledEvent)
      BY <2>5, ResponseTypes DEF Garbles, GarbledEvent
    <3> HIDE DEF GarbledEvent
    <3>2. \A i \in DOMAIN K.events : K.events[i] = GarbledEvent \/ (i \in DOMAIN L.events /\ K.events[i] = L.events[i])
      <4>1. /\ DOMAIN L.events = 1 .. Len(L.events) /\ Len(L.events) \in Nat
            /\ DOMAIN K.events = 1 .. Len(L.events) + 1
            /\ K.events[Len(L.events) + 1] = GarbledEvent
            /\ \A i \in DOMAIN L.events : K.events[i] = L.events[i]
        BY <2>2, <3>1, AppendedProperties
      <4> QED
        BY <4>1
    <3> QED
      BY <2>2, <2>3, <2>5, <3>1, <3>2 DEF SamePlace, Garbles
  <2> QED
    BY <2>3, <2>4, <2>5
<1>6. /\ lanes'[w].queue = <<>> /\ lanes'[w].wire = <<>> /\ lanes'[w].running = <<>>
      /\ lanes'[w].users = {}
      /\ \A i \in DOMAIN lanes'[w].events : lanes'[w].events[i].is # "completed"
  BY <1>2, <1>4, <1>5 DEF SameWork
<1>7. slots'.warm = w
  OBVIOUS
<1> QED
  BY <1>3, <1>6, <1>7 DEF Unspoken, Given

LEMMA LanesOfTurns ==
    ASSUME InOrder, StepForm, NEW t \in DOMAIN turns'
    PROVE  \/ t \in DOMAIN turns /\ turns'[t].lane = turns[t].lane
           \/ turns'[t].lane = 0
           \/ adapter = "codex" /\ turns'[t].lane \in {1, 2}
           \/ adapter = "stdio" /\ turns'[t].lane = 1
           \/ adapter = "claude"
<1>0. adapter \in {"codex", "claude", "stdio"}
  BY BackendsAssumption DEF InOrder, Types
<1>1. ASSUME NEW a, NEW new, Calling(a, new)
      PROVE  (t \in DOMAIN turns /\ turns'[t].lane = turns[t].lane) \/ turns'[t].lane = 0
  <2>1. CASE t \in DOMAIN turns
    BY <1>1, <2>1, CallingKeeps DEF InOrder
  <2>2. CASE t \notin DOMAIN turns
    BY <1>1, <2>2 DEF Calling, Adds
  <2> QED
    BY <2>1, <2>2
<1>2. CASE \E f \in Lanes : WarmMoves(f)
  BY <1>2 DEF WarmMoves
<1>3. CASE \E u \in DOMAIN turns : AwaitMoves(u)
  BY <1>3 DEF AwaitMoves
<1>4. CASE \E u \in DOMAIN turns : DropMoves(u)
  BY <1>4 DEF DropMoves, MovesTo
<1>5. CASE \E u \in DOMAIN turns, l \in Lanes : EnterMoves(u, l)
  BY <1>0, <1>5 DEF EnterMoves, EntersLane
<1>6. ASSUME NEW u \in DOMAIN turns, BusyForm(u) PROVE t \in DOMAIN turns /\ turns'[t].lane = turns[t].lane
  <2>1. turns' = turns \/ \E pc, attempt, answer : MovesTo(u, pc, attempt, answer)
    BY <1>6, BusyQueue DEF BusyForm, TurnMoves
  <2> QED
    BY <2>1 DEF MovesTo
<1>7. CASE \E c \in Cancellers : CancelForm(c)
  BY <1>7, CancelTurns
<1>8. CASE \E l \in Lanes : AgentForm(l)
  BY <1>8 DEF AgentForm
<1> QED
  BY <1>1, <1>2, <1>3, <1>4, <1>5, <1>6, <1>7, <1>8 DEF StepForm, OtherForm

LEMMA SlotsSame ==
    ASSUME StepForm
    PROVE  \/ slots' = slots \/ (\E f \in Lanes : WarmMoves(f))
           \/ \E t \in DOMAIN turns, l \in Lanes : EnterMoves(t, l)
BY DEF StepForm, OtherForm, Calling, AwaitMoves, DropMoves, BusyForm, CancelForm, CancelMoves, AgentForm

LEMMA SlotsStay ==
    ASSUME InOrder, Next, Types', StepForm
    PROVE  SlotsInOrder'
<1>0. /\ Types /\ 0 \notin Lanes /\ adapter \in {"codex", "claude", "stdio"} /\ adapter' = adapter
      /\ slots.discovery \in Lanes \cup {0} /\ slots.patch \in Lanes \cup {0}
      /\ slots.warm \in Lanes \cup {0} /\ Referenced = {slots.discovery, slots.patch, slots.warm}
  <2>1. TurnsKept
    BY StepsKeep DEF InOrder, Places
  <2> QED
    BY <2>1, BackendsAssumption DEF InOrder, Types, Lanes, SlotRecords, Referenced, TurnsKept
<1>1. /\ slots.discovery # 0 => slots.discovery \notin {slots.patch, slots.warm}
      /\ slots.patch # 0 => slots.patch # slots.warm
      /\ slots.warm # 0 => adapter = "claude" /\ Unspoken(slots.warm)
  BY DEF InOrder, SlotsInOrder
<1>2. adapter' = "claude" => Settled'
  BY <1>0, SettledStays
<1>3. /\ adapter' = "stdio" => \A t \in DOMAIN turns' : turns'[t].lane \in {0, 1}
      /\ adapter' = "codex" => \A t \in DOMAIN turns' : turns'[t].lane \in {0, 1, 2}
  BY <1>0, LanesOfTurns DEF InOrder, SlotsInOrder
<1>4. ASSUME slots' = slots
      PROVE  /\ slots'.discovery # 0 => slots'.discovery \notin {slots'.patch, slots'.warm}
             /\ slots'.patch # 0 => slots'.patch # slots'.warm
             /\ slots'.warm # 0 => adapter' = "claude" /\ Unspoken(slots.warm)'
  BY <1>0, <1>1, <1>4, WarmLaneStays
<1>5. ASSUME NEW f \in Lanes, WarmMoves(f)
      PROVE  /\ slots'.discovery # 0 => slots'.discovery \notin {slots'.patch, slots'.warm}
             /\ slots'.patch # 0 => slots'.patch # slots'.warm
             /\ slots'.warm # 0 => adapter' = "claude" /\ Unspoken(slots.warm)'
  <2>1. /\ slots'.warm = f /\ slots'.discovery = 0 /\ slots'.patch = 0 /\ adapter = "claude"
        /\ \A c \in Cancellers : ~Given(c, f)'
    BY <1>5 DEF WarmMoves, Given
  <2>2. /\ lanes'[f].queue = <<>> /\ lanes'[f].wire = <<>> /\ lanes'[f].running = <<>>
        /\ lanes'[f].users = {} /\ lanes'[f].events = <<>>
    BY <1>5 DEF WarmMoves, Wakes, Bare
  <2>3. Unspoken(slots.warm)'
    BY <2>1, <2>2, EmptySeq DEF Unspoken, Given
  <2> QED
    BY <1>0, <2>1, <2>3
<1>6. ASSUME NEW t \in DOMAIN turns, NEW k \in Lanes, EnterMoves(t, k), slots' # slots
      PROVE  /\ slots'.discovery # 0 => slots'.discovery \notin {slots'.patch, slots'.warm}
             /\ slots'.patch # 0 => slots'.patch # slots'.warm
             /\ slots'.warm # 0 => adapter' = "claude" /\ Unspoken(slots.warm)'
  <2>1. /\ adapter = "claude" /\ TakesSlot(turns[t].session, k)
        /\ \A m \in Lanes : m # k /\ m \in Referenced' =>
              lanes'[m] = lanes[m]
        /\ cancels' = cancels
    BY <1>0, <1>6 DEF EnterMoves, EntersLane
  <2>2. /\ slots'.discovery # 0 => slots'.discovery \notin {slots'.patch, slots'.warm}
        /\ slots'.patch # 0 => slots'.patch # slots'.warm
        /\ slots'.warm # 0 => slots'.warm = slots.warm /\ k # slots.warm
    BY <1>0, <1>1, <1>6, <2>1 DEF TakesSlot
  <2>3. ASSUME slots'.warm # 0 PROVE Unspoken(slots.warm)'
    <3>1. slots'.warm \in Referenced' /\ slots.warm \in Lanes
      BY <1>0, <2>2, <2>3 DEF Referenced
    <3>2. lanes'[slots.warm] = lanes[slots.warm] /\ slots'.warm = slots.warm
      BY <2>1, <2>2, <2>3, <3>1
    <3> QED
      BY <1>1, <2>1, <2>2, <2>3, <3>2 DEF Unspoken, Given
  <2> QED
    BY <1>0, <2>1, <2>2, <2>3
<1>7. /\ slots'.discovery # 0 => slots'.discovery \notin {slots'.patch, slots'.warm}
      /\ slots'.patch # 0 => slots'.patch # slots'.warm
      /\ slots'.warm # 0 => adapter' = "claude" /\ Unspoken(slots.warm)'
  BY <1>4, <1>5, <1>6, SlotsSame
<1>8. adapter' = "claude" => \A l \in Lanes :
        l \notin Referenced' /\ lanes'[l].queue = <<>> => lanes'[l] = EmptyLane
  BY <1>2 DEF Settled
<1> QED
  BY <1>3, <1>7, <1>8 DEF SlotsInOrder

-----------------------------------------------------------------------------
(***************************************************************************)
(* Everything stays in order                                               *)
(***************************************************************************)
LEMMA InitInOrder == Init => InOrder
<1> SUFFICES ASSUME Init PROVE InOrder
  OBVIOUS
<1>1. /\ adapter \in Adapters /\ turns = <<>> /\ lanes = [l \in Lanes |-> EmptyLane]
      /\ slots = [session |-> NoSession, discovery |-> 0, patch |-> 0, warm |-> 0]
      /\ cancels = [c \in Cancellers |-> NoCancel] /\ spec = [s \in Sessions |-> 0] /\ faults = 0
  BY DEF Init
<1>2. DOMAIN turns = {} /\ turns \in Seq(TurnRecords) /\ Len(turns) = 0
  BY <1>1, EmptySeq
<1>3. MaxTurns \in Nat /\ MaxAsks \in Nat /\ MaxSpeculations \in Nat
  BY BackendsAssumption DEF MaxTurns
<1>4. Types
  <2>1. EmptyLane \in LaneRecords /\ NoCancel \in CancelRecords
    BY EmptyLaneType, NoCancelType
  <2>2. slots \in SlotRecords
    BY <1>1 DEF SlotRecords, SessionNames
  <2> QED
    BY <1>1, <1>2, <1>3, <2>1, <2>2 DEF Types
<1>5. Counted
  <2>1. Asked = {} /\ DOMAIN turns \ Asked = {}
    BY <1>2 DEF Asked
  <2>2. Cardinality({}) = 0
    BY FS_EmptySet
  <2> QED
    BY <1>3, <2>1, <2>2 DEF Counted
<1>6. \A l \in Lanes : lanes[l] = EmptyLane
  BY <1>1
<1>7. \A c \in Cancellers : cancels[c].step = "idle" /\ cancels[c].left = <<>>
  BY <1>1, NoCancelType
<1>8. PlacesIn
  <2>1. \A l \in Lanes : lanes[l].queue = <<>>
    BY <1>6 DEF EmptyLane
  <2> QED
    BY <1>2, <1>7, <2>1, EmptySeq DEF PlacesIn, In, IsInjective, Active
<1>9. LanesInOrder
  BY <1>6 DEF LanesInOrder, EmptyLane
<1>10. EngineInOrder
  BY <1>1, <1>2 DEF EngineInOrder
<1>11. SlotsInOrder
  BY <1>1, <1>2, <1>6 DEF SlotsInOrder
<1> QED
  BY <1>4, <1>5, <1>8, <1>9, <1>10, <1>11, PlacesAreIn DEF InOrder

LEMMA OrderStutters ==
    ASSUME InOrder, UNCHANGED vars
    PROVE  InOrder'
<1>1. UNCHANGED <<adapter, turns, lanes, slots, cancels, spec, faults>>
  BY DEF vars
<1>2. Types'
  BY <1>1 DEF InOrder, Types
<1>3. Counted'
  BY <1>1, SameTurnsCounted DEF InOrder
<1>4. Places'
  <2>1. PlacesIn
    BY PlacesAreIn DEF InOrder
  <2>2. \A c, l : (TurnIn(c, l)' <=> TurnIn(c, l)) /\ (CancelIn(c, l)' <=> CancelIn(c, l))
    BY <1>1 DEF TurnIn, InLane, CancelIn
  <2>3. PlacesIn'
    BY <1>1, <2>1, <2>2 DEF PlacesIn, InLane, Active
  <2> QED
    BY <2>3, PlacesAreInPrimed
<1>5. LanesInOrder'
  BY <1>1 DEF InOrder, LanesInOrder
<1>6. EngineInOrder'
  <2>1. QuietMoves
    BY <1>1 DEF QuietMoves
  <2> QED
    BY <1>2, <2>1, QuietEngine DEF InOrder
<1>7. SlotsInOrder'
  BY <1>1 DEF InOrder, SlotsInOrder, Unspoken, Given, Referenced
<1> QED
  BY <1>2, <1>3, <1>4, <1>5, <1>6, <1>7 DEF InOrder

LEMMA OrderStays ==
    ASSUME InOrder, [Next]_vars
    PROVE  InOrder'
<1>1. CASE Next
  <2>1. Types' /\ Counted' /\ StepForm
    BY <1>1, NextStepForm
  <2> QED
    BY <1>1, <2>1, PlacesStay, LanesStayInOrder, EngineStays, SlotsStay DEF InOrder
<1>2. CASE UNCHANGED vars
  BY <1>2, OrderStutters
<1> QED
  BY <1>1, <1>2
===============================================================================

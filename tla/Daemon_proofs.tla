---------------------------- MODULE Daemon_proofs ----------------------------
(***************************************************************************)
(* That every request has one place, and that turns do not overlap, for    *)
(* any number of sessions, of requests and of turns.                       *)
(***************************************************************************)
EXTENDS Daemon, SequenceTheorems, FiniteSetTheorems, FunctionTheorems, TLAPS

-----------------------------------------------------------------------------
(***************************************************************************)
(* What Append, Tail and Without do to what a queue holds, and how often.  *)
(***************************************************************************)

\* An element is in a finite number of the positions of a queue.
LEMMA PositionsAreFinite ==
    ASSUME NEW S, NEW q \in Seq(S), NEW x
    PROVE  IsFiniteSet({i \in 1..Len(q) : q[i] = x}) /\ Times(x, q) \in Nat
<1>1. IsFiniteSet(1..Len(q))
  BY FS_Interval, LenProperties
<1>2. {i \in 1..Len(q) : q[i] = x} \in SUBSET (1..Len(q))
  OBVIOUS
<1>3. IsFiniteSet({i \in 1..Len(q) : q[i] = x})
  BY <1>1, <1>2, FS_Subset
<1> QED
  BY <1>3, FS_CardinalityType DEF Times

\* An empty queue holds nothing.
LEMMA TimesInEmpty == ASSUME NEW x PROVE Times(x, <<>>) = 0
<1>1. {i \in 1..Len(<<>>) : <<>>[i] = x} = {}
  OBVIOUS
<1> QED
  BY <1>1, FS_EmptySet DEF Times

\* Append adds its element, and no other.
LEMMA TimesInAppend ==
    ASSUME NEW S, NEW q \in Seq(S), NEW y \in S, NEW x
    PROVE  Times(x, Append(q, y)) = Times(x, q) + IF y = x THEN 1 ELSE 0
<1> DEFINE at == {i \in 1..Len(q) : q[i] = x}
           after == {i \in 1..Len(Append(q, y)) : Append(q, y)[i] = x}
<1>1. /\ Len(q) \in Nat /\ Len(Append(q, y)) = Len(q) + 1
      /\ \A i \in 1..Len(q) : Append(q, y)[i] = q[i]
      /\ Append(q, y)[Len(q) + 1] = y
  BY AppendProperties, LenProperties
<1>2. IsFiniteSet(at) /\ Cardinality(at) \in Nat
  BY PositionsAreFinite DEF Times
<1>0. Times(x, q) = Cardinality(at) /\ Times(x, Append(q, y)) = Cardinality(after)
  BY DEF Times
<1>3. CASE y = x
  <2>1. after = at \cup {Len(q) + 1} /\ Len(q) + 1 \notin at
    BY <1>1, <1>3
  <2> HIDE DEF at, after
  <2>2. Cardinality(after) = Cardinality(at) + 1
    BY <2>1, <1>2, FS_AddElement
  <2> QED
    BY <1>0, <2>2, <1>3
<1>4. CASE y # x
  <2>1. after = at
    BY <1>1, <1>4
  <2> HIDE DEF at, after
  <2> QED
    BY <1>0, <2>1, <1>2, <1>4
<1> QED
  BY <1>3, <1>4

\* Tail takes one position of the head away.
LEMMA TimesInTail ==
    ASSUME NEW S, NEW q \in Seq(S), q # <<>>, NEW x
    PROVE  Times(x, Tail(q)) + (IF Head(q) = x THEN 1 ELSE 0) = Times(x, q)
<1> DEFINE at == {i \in 1..Len(q) : q[i] = x}
           after == {i \in 1..Len(Tail(q)) : Tail(q)[i] = x}
           f == [i \in after |-> i + 1]
<1>1. /\ Len(q) \in Nat \ {0} /\ Len(Tail(q)) = Len(q) - 1 /\ Tail(q) \in Seq(S)
      /\ \A i \in 1..Len(Tail(q)) : Tail(q)[i] = q[i + 1]
      /\ Head(q) = q[1]
  BY HeadTailProperties, EmptySeq
<1>2. IsFiniteSet(at) /\ Cardinality(at) \in Nat
  BY PositionsAreFinite DEF Times
<1>3. IsFiniteSet(after) /\ Cardinality(after) \in Nat
  BY <1>1, PositionsAreFinite DEF Times
<1>4. f \in Bijection(after, at \ {1})
  <2>1. f \in [after -> at \ {1}]
    BY <1>1
  <2>2. \A i, j \in after : f[i] = f[j] => i = j
    BY <1>1
  <2>3. \A i \in at \ {1} : i - 1 \in after /\ f[i - 1] = i
    BY <1>1
  <2> HIDE DEF at, after, f
  <2>4. f \in Injection(after, at \ {1})
    BY <2>1, <2>2 DEF Injection, IsInjective
  <2>5. f \in Surjection(after, at \ {1})
    BY <2>1, <2>3 DEF Surjection
  <2> QED
    BY <2>4, <2>5 DEF Bijection
<1> HIDE DEF at, after, f
<1>5. Cardinality(after) = Cardinality(at \ {1})
  BY <1>3, <1>4, FS_Bijection DEF ExistsBijection
<1>6. 1 \in at <=> Head(q) = x
  BY <1>1 DEF at
<1>7. Cardinality(at \ {1}) = IF 1 \in at THEN Cardinality(at) - 1 ELSE Cardinality(at)
  BY <1>2, FS_RemoveElement
<1>8. Times(x, q) = Cardinality(at) /\ Times(x, Tail(q)) = Cardinality(after)
  BY DEF Times, at, after
<1> QED
  BY <1>2, <1>3, <1>5, <1>6, <1>7, <1>8

\* Each element waits once in a queue, and r is one of them.
Distinct(q) == \A i, j \in 1..Len(q) : q[i] = q[j] => i = j
Has(q, r) == \E i \in 1..Len(q) : q[i] = r

LEMMA DistinctAppend ==
    ASSUME NEW S, NEW q \in Seq(S), NEW y \in S, Distinct(q), ~Has(q, y)
    PROVE  /\ Distinct(Append(q, y))
           /\ \A r : Has(Append(q, y), r) <=> Has(q, r) \/ r = y
<1>1. /\ Len(q) \in Nat /\ Len(Append(q, y)) = Len(q) + 1
      /\ \A i \in 1..Len(q) : Append(q, y)[i] = q[i]
      /\ Append(q, y)[Len(q) + 1] = y
  BY AppendProperties, LenProperties
<1>2. \A i \in 1..Len(Append(q, y)) : i \in 1..Len(q) \/ i = Len(q) + 1
  BY <1>1
<1>3. \A i \in 1..Len(q) : i \in 1..Len(Append(q, y))
  BY <1>1
<1>4. Len(q) + 1 \in 1..Len(Append(q, y))
  BY <1>1
<1>5. Distinct(Append(q, y))
  BY <1>1, <1>2 DEF Distinct, Has
<1>6. \A r : Has(Append(q, y), r) <=> Has(q, r) \/ r = y
  BY <1>1, <1>2, <1>3, <1>4 DEF Has
<1> QED
  BY <1>5, <1>6

LEMMA DistinctTail ==
    ASSUME NEW S, NEW q \in Seq(S), q # <<>>, Distinct(q)
    PROVE  /\ Distinct(Tail(q))
           /\ \A r : Has(Tail(q), r) <=> Has(q, r) /\ r # Head(q)
           /\ Has(q, Head(q))
<1>1. /\ Len(q) \in Nat \ {0} /\ Len(Tail(q)) = Len(q) - 1
      /\ \A i \in 1..Len(Tail(q)) : Tail(q)[i] = q[i + 1]
      /\ Head(q) = q[1]
  BY HeadTailProperties, EmptySeq
<1>2. \A i \in 1..Len(Tail(q)) : i + 1 \in 1..Len(q) /\ i + 1 # 1
  BY <1>1
<1>3. 1 \in 1..Len(q)
  BY <1>1
<1>4. \A i \in 1..Len(q) : i # 1 => i - 1 \in 1..Len(Tail(q)) /\ (i - 1) + 1 = i
  BY <1>1
<1>5. Distinct(Tail(q))
  BY <1>1, <1>2 DEF Distinct
<1>6. ASSUME NEW r PROVE Has(Tail(q), r) <=> Has(q, r) /\ r # Head(q)
  <2>1. Has(Tail(q), r) => Has(q, r) /\ r # Head(q)
    BY <1>1, <1>2, <1>3 DEF Distinct, Has
  <2>2. Has(q, r) /\ r # Head(q) => Has(Tail(q), r)
    BY <1>1, <1>4 DEF Has
  <2> QED
    BY <2>1, <2>2
<1> QED
  BY <1>1, <1>3, <1>5, <1>6 DEF Has

\* A queue from which a dropped task was taken holds the others.
LEMMA DistinctWithout ==
    ASSUME NEW S, NEW q \in Seq(S), NEW t, Distinct(q)
    PROVE  /\ Without(q, t) \in Seq(S) /\ Distinct(Without(q, t))
           /\ \A r : Has(Without(q, t), r) <=> Has(q, r) /\ r # t
<1> DEFINE n == CHOOSE i \in 1..Len(q) : q[i] = t
           a == SubSeq(q, 1, n - 1)
           b == SubSeq(q, n + 1, Len(q))
<1>1. CASE ~Has(q, t)
  <2>1. Without(q, t) = q
    BY <1>1 DEF Without, Has
  <2> QED
    BY <1>1, <2>1 DEF Has
<1>2. CASE Has(q, t)
  <2>1. n \in 1..Len(q) /\ q[n] = t
    BY <1>2 DEF Has
  <2>2. Without(q, t) = a \o b
    BY <1>2 DEF Without, Has
  <2> HIDE DEF n
  <2>3. Len(q) \in Nat /\ n \in Nat \ {0} /\ n <= Len(q)
    BY <2>1, LenProperties
  <2>4. \A i \in 1..Len(q) : q[i] \in S
    BY ElementOfSeq
  <2>5. a \in Seq(S) /\ Len(a) = n - 1 /\ \A i \in 1..(n - 1) : a[i] = q[i]
    <3>1. 1 \in Int /\ n - 1 \in Int /\ \A i \in 1..(n - 1) : q[i] \in S
      BY <2>3, <2>4
    <3>2. /\ a \in Seq(S)
          /\ Len(a) = IF 1 <= n - 1 THEN (n - 1) - 1 + 1 ELSE 0
          /\ \A i \in 1..((n - 1) - 1 + 1) : a[i] = q[1 + i - 1]
      BY <3>1, SubSeqProperties
    <3> HIDE DEF a
    <3>3. (n - 1) - 1 + 1 = n - 1 /\ \A i \in 1..(n - 1) : 1 + i - 1 = i
      BY <2>3
    <3> QED
      BY <2>3, <3>2, <3>3
  <2>6. /\ b \in Seq(S) /\ Len(b) = Len(q) - n
        /\ \A i \in 1..(Len(q) - n) : b[i] = q[n + i]
    <3>1. n + 1 \in Int /\ Len(q) \in Int /\ \A i \in (n + 1)..Len(q) : q[i] \in S
      BY <2>3, <2>4
    <3>2. /\ b \in Seq(S)
          /\ Len(b) = IF n + 1 <= Len(q) THEN Len(q) - (n + 1) + 1 ELSE 0
          /\ \A i \in 1..(Len(q) - (n + 1) + 1) : b[i] = q[(n + 1) + i - 1]
      BY <3>1, SubSeqProperties
    <3> HIDE DEF b
    <3>3. /\ Len(q) - (n + 1) + 1 = Len(q) - n
          /\ \A i \in 1..(Len(q) - n) : (n + 1) + i - 1 = n + i
      BY <2>3
    <3>4. Len(b) = Len(q) - n
      BY <2>3, <3>2
    <3>5. ASSUME NEW i \in 1..(Len(q) - n) PROVE b[i] = q[n + i]
      BY <3>2, <3>3
    <3> QED
      BY <3>2, <3>4, <3>5
  <2> HIDE DEF a, b
  <2> DEFINE w == a \o b
             old(i) == IF i <= n - 1 THEN i ELSE i + 1
  <2>7. /\ w \in Seq(S) /\ Len(w) = Len(q) - 1
        /\ \A i \in 1..Len(w) : w[i] = q[old(i)]
    <3>1. /\ w \in Seq(S) /\ Len(w) = Len(a) + Len(b)
          /\ \A i \in 1..(Len(a) + Len(b)) :
                w[i] = IF i <= Len(a) THEN a[i] ELSE b[i - Len(a)]
      BY <2>5, <2>6, ConcatProperties
    <3> HIDE DEF w
    <3>2. Len(a) + Len(b) = Len(q) - 1
      BY <2>3, <2>5, <2>6
    <3>3. ASSUME NEW i \in 1..Len(w) PROVE w[i] = q[old(i)]
      <4>1. CASE i <= n - 1
        BY <2>3, <2>5, <3>1, <3>2, <4>1
      <4>2. CASE ~(i <= n - 1)
        <5>1. i - (n - 1) \in 1..(Len(q) - n) /\ n + (i - (n - 1)) = i + 1
          BY <2>3, <3>1, <3>2, <4>2
        <5> QED
          BY <2>5, <2>6, <3>1, <4>2, <5>1
      <4> QED
        BY <4>1, <4>2
    <3> QED
      BY <3>1, <3>2, <3>3
  <2> HIDE DEF w
  <2>8. \A i \in 1..Len(w) : old(i) \in 1..Len(q) /\ old(i) # n
    BY <2>3, <2>7
  <2>9. \A i, j \in 1..Len(w) : old(i) = old(j) => i = j
    BY <2>3, <2>7
  <2>10. \A k \in 1..Len(q) : k # n => \E i \in 1..Len(w) : old(i) = k
    <3> SUFFICES ASSUME NEW k \in 1..Len(q), k # n
                 PROVE  \E i \in 1..Len(w) : old(i) = k
      OBVIOUS
    <3>1. CASE k < n
      BY <2>3, <2>7, <3>1
    <3>2. CASE k > n
      <4>1. k - 1 \in 1..Len(w) /\ old(k - 1) = k
        BY <2>3, <2>7, <3>2
      <4> QED
        BY <4>1
    <3> QED
      BY <2>3, <3>1, <3>2
  <2> HIDE DEF old
  <2>11. Distinct(w)
    BY <2>7, <2>8, <2>9 DEF Distinct
  <2>12. \A r : Has(w, r) <=> Has(q, r) /\ r # t
    <3>1. ASSUME NEW r, Has(w, r) PROVE Has(q, r) /\ r # t
      BY <2>1, <2>7, <2>8, <3>1 DEF Has, Distinct
    <3>2. ASSUME NEW r, Has(q, r), r # t PROVE Has(w, r)
      BY <2>1, <2>7, <2>10, <3>2 DEF Has
    <3> QED
      BY <3>1, <3>2
  <2> QED
    BY <2>2, <2>7, <2>11, <2>12 DEF w
<1> QED
  BY <1>1, <1>2
-----------------------------------------------------------------------------
(***************************************************************************)
(* The inductive invariant: besides TypeOK and the queue of the channel,   *)
(* where each request is (the counting that EveryRequestHasOnePlace needs, *)
(* with those not sent yet in no place), which tasks exist, and which of   *)
(* them the main loop, Server.pending and the engine mutex stand for.      *)
(***************************************************************************)
Session(t) == requests[t].session
Waits(t) == main.at \in {"turn", "yielded"} /\ main.req = t
Runs(t) == turns[t] \in {"running", "asking", "answered"}

\* A request is in one place once it is sent, and in none before.
PlacesAreKnown ==
    /\ Len(requests) <= MaxRequests
    /\ \A id \in Ids : Places(id) = IF id <= Len(requests) THEN 1 ELSE 0

\* The main loop serves a request from the moment it has read it, and
\* waits for turns only.
MainServesARequest == (main.req = 0) <=> (main.at \in {"top", "recv"})

\* A task was spawned for a request the main loop waits for or responded to.
TasksBelong ==
    \A t \in Ids : turns[t] # "none" => Waits(t) \/ Times(t, replied) # 0

\* A live turn is the one waited for, or its session's pending one.
LiveTurnsBelong ==
    \A t \in Ids : Alive(t) => Waits(t) \/ pending[Session(t)] = t

\* A session has no pending turn while a request of it is at the engine.
PendingFits ==
    /\ main.at \in {"engine", "turn"} => pending[Session(main.req)] = 0
    /\ main.at = "yielded" => pending[Session(main.req)] = main.req
    /\ \A s \in Sessions : pending[s] # 0 =>
          pending[s] <= Len(requests) /\ Session(pending[s]) = s

\* The engine is held by the turn that runs.
EngineIsHeld == \A t \in Ids : engine = t <=> Runs(t)

Tasks == TasksBelong /\ LiveTurnsBelong /\ PendingFits /\ EngineIsHeld
DInv == /\ TypeOK /\ PlacesAreKnown /\ MainServesARequest /\ Tasks
        /\ ReadersWaitForALine

-----------------------------------------------------------------------------
(***************************************************************************)
(* Where a request is                                                      *)
(***************************************************************************)

\* The four counts are numbers, so that they can be compared.
LEMMA TimesAreNumbers ==
    ASSUME TypeOK, NEW id
    PROVE  /\ Times(Request(id), stdin) \in Nat /\ Times(Request(id), deferred) \in Nat
           /\ Times(id, replied) \in Nat
BY PositionsAreFinite DEF TypeOK

\* What is at the head of a queue is in it.
LEMMA HeadIsIn ==
    ASSUME NEW S, NEW q \in Seq(S), q # <<>>
    PROVE  Times(Head(q), q) \in Nat \ {0}
<1>1. Tail(q) \in Seq(S)
  BY HeadTailProperties
<1>2. Times(Head(q), Tail(q)) \in Nat
  BY <1>1, PositionsAreFinite
<1>3. Times(Head(q), Tail(q)) + 1 = Times(Head(q), q)
  BY TimesInTail
<1> QED
  BY <1>2, <1>3

\* A request line is Request(id), and a request read was sent and is served
\* nowhere else.
LEMMA ReadRequestIsKnown ==
    ASSUME TypeOK, PlacesAreKnown, NEW q \in {stdin, deferred}, q # <<>>
    PROVE  LET line == Head(q)
           IN  /\ line \in Lines /\ line.id \in Ids
               /\ line.type # "answer" =>
                    /\ line = Request(line.id)
                    /\ line.id \in 1..Len(requests)
                    /\ main.req # line.id /\ Times(line.id, replied) = 0
<1> DEFINE line == Head(q)
           id == line.id
<1>1. q \in Seq(Lines)
  BY DEF TypeOK
<1>2. line \in Lines /\ id \in Ids
  <2>1. line \in Lines
    BY <1>1, HeadTailProperties
  <2> HIDE DEF line
  <2> QED
    BY <2>1 DEF Lines
<1>3. ASSUME line.type # "answer"
      PROVE  /\ line = Request(id) /\ id \in 1..Len(requests)
             /\ main.req # id /\ Times(id, replied) = 0
  <2>1. line = Request(id)
    BY <1>2, <1>3 DEF Lines, Request
  <2>2. Times(Request(id), q) \in Nat \ {0}
    BY <1>1, <2>1, HeadIsIn
  <2>3. /\ Times(Request(id), stdin) \in Nat /\ Times(Request(id), deferred) \in Nat
        /\ Times(id, replied) \in Nat
    BY TimesAreNumbers
  <2>4. Places(id) = IF id <= Len(requests) THEN 1 ELSE 0
    BY <1>2 DEF PlacesAreKnown
  <2>5. id \in 1..MaxRequests /\ Len(requests) \in Nat /\ MaxRequests \in Nat
    BY <1>2, LenProperties, DaemonAssumption DEF Ids, TypeOK
  <2> HIDE DEF line, id
  <2>6. Times(Request(id), stdin) # 0 \/ Times(Request(id), deferred) # 0
    BY <2>2
  <2>7. /\ id <= Len(requests) /\ main.req # id /\ Times(id, replied) = 0
    BY <2>3, <2>4, <2>6 DEF Places
  <2> QED
    BY <2>1, <2>5, <2>7
<1> QED
  BY <1>2, <1>3

\* The request the main loop serves was sent, and is not responded to.
LEMMA ServedRequestIsKnown ==
    ASSUME TypeOK, PlacesAreKnown, main.req # 0
    PROVE  /\ main.req \in Ids /\ main.req \in 1..Len(requests)
           /\ Session(main.req) \in Sessions
           /\ Times(main.req, replied) = 0
<1>1. main.req \in Ids
  BY DEF TypeOK
<1>2. /\ Times(Request(main.req), stdin) \in Nat
      /\ Times(Request(main.req), deferred) \in Nat
      /\ Times(main.req, replied) \in Nat
  BY TimesAreNumbers
<1>3. Places(main.req) = IF main.req <= Len(requests) THEN 1 ELSE 0
  BY <1>1 DEF PlacesAreKnown
<1>4. main.req <= Len(requests) /\ Times(main.req, replied) = 0
  BY <1>2, <1>3 DEF Places
<1>5. main.req \in 1..Len(requests)
  BY <1>1, <1>4, LenProperties, DaemonAssumption DEF TypeOK, Ids
<1>6. requests[main.req] \in [op : Ops, session : Sessions]
  BY <1>5, ElementOfSeq DEF TypeOK
<1> QED
  BY <1>1, <1>4, <1>5, <1>6 DEF Session

\* A request that was sent has a session.
LEMMA SentRequestHasASession ==
    ASSUME TypeOK, NEW id \in 1..Len(requests)
    PROVE  /\ requests[id] \in [op : Ops, session : Sessions]
           /\ requests[id].session \in Sessions
<1>1. requests[id] \in [op : Ops, session : Sessions]
  BY ElementOfSeq DEF TypeOK
<1> QED
  BY <1>1

\* An answer is no request: to settle the gate sends none.
LEMMA SettledKeepsRequests ==
    ASSUME TypeOK
    PROVE  /\ Settled(stdin) \in Seq(Lines)
           /\ \A id : Times(Request(id), Settled(stdin)) = Times(Request(id), stdin)
<1>1. CASE gate = 0
  BY <1>1 DEF Settled, TypeOK
<1>2. CASE gate # 0
  <2>1. AnswerTo(gate) \in Lines /\ stdin \in Seq(Lines)
    BY <1>2 DEF TypeOK, AnswerTo, Lines
  <2>2. Settled(stdin) = Append(stdin, AnswerTo(gate))
    BY <1>2 DEF Settled
  <2>3. ASSUME NEW id
        PROVE  Times(Request(id), Settled(stdin)) = Times(Request(id), stdin)
    <3>1. AnswerTo(gate) # Request(id)
      BY DEF AnswerTo, Request
    <3>2. Times(Request(id), Settled(stdin)) = Times(Request(id), stdin) + 0
      BY <2>1, <2>2, <3>1, TimesInAppend
    <3>3. Times(Request(id), stdin) \in Nat
      BY <2>1, PositionsAreFinite
    <3> QED
      BY <3>2, <3>3
  <2> QED
    BY <2>1, <2>2, <2>3, AppendProperties
<1> QED
  BY <1>1, <1>2

-----------------------------------------------------------------------------
(***************************************************************************)
(* Types                                                                   *)
(***************************************************************************)
MainType == [at : {"top", "recv", "engine", "turn", "yielded"}, req : {0} \cup Ids]
ReaderType == {Main} \cup Ids

\* The main loop's write of a response.
LEMMA RespondKeepsTypes ==
    ASSUME TypeOK, NEW type \in {"result", "working", "ask", "ready"}, NEW id \in Ids
    PROVE  /\ Write(type, id) => stdout' \in Seq(Messages)
           /\ Respond(type, id) => stdout' \in Seq(Messages) /\ replied' \in Seq(Ids)
<1>1. [type |-> type, id |-> id] \in Messages
  BY DEF Messages
<1>2. stdout \in Seq(Messages) /\ replied \in Seq(Ids)
  BY DEF TypeOK
<1>3. Append(stdout, [type |-> type, id |-> id]) \in Seq(Messages)
  BY <1>1, <1>2, AppendProperties
<1>4. Append(replied, id) \in Seq(Ids)
  BY <1>2, AppendProperties
<1> QED
  BY <1>3, <1>4 DEF Write, Respond

LEMMA ServeKeepsTypes ==
    ASSUME TypeOK, NEW id \in Ids, id \in 1..Len(requests),
           NEW q \in Seq(ReaderType), Distinct(q), Serve(id, q)
    PROVE  /\ main' \in MainType /\ readers' \in Seq(ReaderType)
           /\ turns' \in [Ids -> Points] /\ engine' \in {0} \cup Ids
           /\ pending' \in [Sessions -> {0} \cup Ids]
           /\ stdout' \in Seq(Messages) /\ replied' \in Seq(Ids)
<1> DEFINE s == requests[id].session
<1>1. s \in Sessions
  BY SentRequestHasASession
<1>2. CASE requests[id].op = "list"
  <2>1. /\ main' = Top /\ Respond("result", id) /\ readers' = q
        /\ UNCHANGED <<turns, engine, pending>>
    BY <1>2 DEF Serve
  <2>2. stdout' \in Seq(Messages) /\ replied' \in Seq(Ids)
    BY <2>1, RespondKeepsTypes
  <2> QED
    BY <2>1, <2>2 DEF TypeOK, Top, MainType
<1>3. CASE requests[id].op # "list"
  <2>1. /\ main' = [at |-> "engine", req |-> id]
        /\ AbortPending(s) /\ readers' = AfterAbort(q, s)
        /\ UNCHANGED <<stdout, replied>>
    BY <1>3 DEF Serve
  <2>2. main' \in MainType /\ stdout' \in Seq(Messages) /\ replied' \in Seq(Ids)
    BY <2>1 DEF TypeOK, MainType
  <2>3. readers' \in Seq(ReaderType)
    <3>1. Without(q, pending[s]) \in Seq(ReaderType)
      BY DistinctWithout
    <3> QED
      BY <2>1, <3>1 DEF AfterAbort
  <2>4. pending' \in [Sessions -> {0} \cup Ids]
    BY <2>1, <1>1 DEF AbortPending, TypeOK
  <2>5. turns' \in [Ids -> Points] /\ engine' \in {0} \cup Ids
    BY <2>1, <1>1 DEF AbortPending, TypeOK, At, Points
  <2> QED
    BY <2>2, <2>3, <2>4, <2>5
<1> QED
  BY <1>2, <1>3

\* The queue of readers, as Distinct has it.
LEMMA ReadersAreDistinct ==
    ASSUME TypeOK, ReadersWaitForALine
    PROVE  /\ readers \in Seq(ReaderType) /\ Distinct(readers)
           /\ \A r \in ReaderType :
                 Has(readers, r) <=> IF r = Main THEN main.at = "recv"
                                                ELSE turns[r] = "asking"
           /\ readers # <<>> => /\ Tail(readers) \in Seq(ReaderType)
                                /\ Distinct(Tail(readers))
                                /\ Head(readers) \in ReaderType
                                /\ ~Has(Tail(readers), Head(readers))
<1>1. readers \in Seq(ReaderType)
  BY DEF TypeOK, ReaderType
<1>2. Distinct(readers)
  BY DEF Distinct, ReadersWaitForALine
<1>3. \A r \in ReaderType :
         Has(readers, r) <=> IF r = Main THEN main.at = "recv" ELSE turns[r] = "asking"
  BY DEF Has, ReadersWaitForALine, ReaderType
<1>4. ASSUME readers # <<>>
      PROVE  /\ Tail(readers) \in Seq(ReaderType) /\ Distinct(Tail(readers))
             /\ Head(readers) \in ReaderType /\ ~Has(Tail(readers), Head(readers))
  <2>1. Tail(readers) \in Seq(ReaderType) /\ Head(readers) \in ReaderType
    BY <1>1, <1>4, HeadTailProperties
  <2>2. Distinct(Tail(readers)) /\ ~Has(Tail(readers), Head(readers))
    BY <1>1, <1>2, <1>4, DistinctTail
  <2> QED
    BY <2>1, <2>2
<1> QED
  BY <1>1, <1>2, <1>3, <1>4

\* A step of the main loop keeps the types.
LEMMA MainKeepsTypes ==
    ASSUME TypeOK, PlacesAreKnown, MainServesARequest, ReadersWaitForALine,
           MainStep \/ DeadlinePasses
    PROVE  TypeOK'
<1> USE DEF MainType, ReaderType
<1>0. main \in MainType /\ turns \in [Ids -> Points]
  BY DEF TypeOK
<1>1. CASE ServeDeferred
  <2>1. deferred' \in Seq(Lines)
    BY <1>1, HeadTailProperties DEF TypeOK, ServeDeferred
  <2>2. CASE Head(deferred).type = "answer"
    BY <1>1, <2>1, <2>2 DEF ServeDeferred, TypeOK, editor
  <2>3. CASE Head(deferred).type # "answer"
    <3>1. Head(deferred).id \in Ids /\ Head(deferred).id \in 1..Len(requests)
      BY <1>1, <2>3, ReadRequestIsKnown DEF ServeDeferred
    <3>2. Serve(Head(deferred).id, readers)
      BY <1>1, <2>3 DEF ServeDeferred
    <3>3. readers \in Seq(ReaderType) /\ Distinct(readers)
      BY ReadersAreDistinct
    <3>4. /\ main' \in MainType /\ readers' \in Seq(ReaderType)
          /\ turns' \in [Ids -> Points] /\ engine' \in {0} \cup Ids
          /\ pending' \in [Sessions -> {0} \cup Ids]
          /\ stdout' \in Seq(Messages) /\ replied' \in Seq(Ids)
      BY <3>1, <3>2, <3>3, ServeKeepsTypes
    <3> QED
      BY <1>1, <2>1, <3>4 DEF ServeDeferred, TypeOK, editor
  <2> QED
    BY <2>2, <2>3
<1>2. CASE LockLines
  <2>1. readers' \in Seq(ReaderType)
    BY <1>2, AppendProperties DEF LockLines, TypeOK
  <2> QED
    BY <1>2, <2>1 DEF LockLines, TypeOK, editor
<1>3. CASE Receive
  <2>1. stdin' \in Seq(Lines)
    BY <1>3, HeadTailProperties DEF TypeOK, Receive
  <2>2. Tail(readers) \in Seq(ReaderType) /\ Distinct(Tail(readers))
    BY <1>3, ReadersAreDistinct DEF Receive, Holds
  <2>3. CASE Head(stdin).type = "answer"
    <3>1. /\ main' = Top /\ readers' = Tail(readers)
          /\ UNCHANGED <<turns, engine, pending, stdout, replied>>
          /\ UNCHANGED <<requests, deferred, editor>>
      BY <1>3, <2>3 DEF Receive
    <3> QED
      BY <2>1, <2>2, <3>1 DEF TypeOK, editor, Top
  <2>4. CASE Head(stdin).type # "answer"
    <3>1. Head(stdin).id \in Ids /\ Head(stdin).id \in 1..Len(requests)
      BY <1>3, <2>4, ReadRequestIsKnown DEF Receive
    <3>2. Serve(Head(stdin).id, Tail(readers))
      BY <1>3, <2>4 DEF Receive
    <3>3. /\ main' \in MainType /\ readers' \in Seq(ReaderType)
          /\ turns' \in [Ids -> Points] /\ engine' \in {0} \cup Ids
          /\ pending' \in [Sessions -> {0} \cup Ids]
          /\ stdout' \in Seq(Messages) /\ replied' \in Seq(Ids)
      BY <2>2, <3>1, <3>2, ServeKeepsTypes
    <3> QED
      BY <1>3, <2>1, <3>3 DEF Receive, TypeOK, editor
  <2> QED
    BY <2>3, <2>4
<1>4. CASE LockEngine
  <2>1. main.req \in Ids
    BY <1>4, ServedRequestIsKnown DEF LockEngine, MainServesARequest
  <2>2. CASE requests[main.req].op = "cancel"
    <3>1. stdout' \in Seq(Messages) /\ replied' \in Seq(Ids)
      BY <1>4, <2>1, <2>2, RespondKeepsTypes DEF LockEngine
    <3> QED
      BY <1>4, <2>2, <3>1 DEF LockEngine, TypeOK, editor, Top
  <2>3. CASE requests[main.req].op # "cancel"
    <3>1. turns' \in [Ids -> Points] /\ main' \in MainType
      BY <1>0, <1>4, <2>3 DEF LockEngine, At, Points
    <3> QED
      BY <1>4, <2>3, <3>1 DEF LockEngine, TypeOK, editor
  <2> QED
    BY <2>2, <2>3
<1>5. CASE TurnReturns
  <2>1. main.req \in Ids
    BY <1>5, ServedRequestIsKnown DEF TurnReturns, MainServesARequest
  <2>2. stdout' \in Seq(Messages) /\ replied' \in Seq(Ids)
    BY <1>5, <2>1, RespondKeepsTypes DEF TurnReturns
  <2>3. turns' \in [Ids -> Points]
    BY <1>0, <1>5 DEF TurnReturns, At, Points
  <2> QED
    BY <1>5, <2>2, <2>3 DEF TurnReturns, TypeOK, editor, Top
<1>6. CASE WriteWorking
  <2>1. main.req \in Ids
    BY <1>6, ServedRequestIsKnown DEF WriteWorking, MainServesARequest
  <2>2. stdout' \in Seq(Messages) /\ replied' \in Seq(Ids)
    BY <1>6, <2>1, RespondKeepsTypes DEF WriteWorking
  <2> QED
    BY <1>6, <2>2 DEF WriteWorking, TypeOK, editor, Top
<1>7. CASE DeadlinePasses
  <2>1. pending' \in [Sessions -> {0} \cup Ids] /\ main' \in MainType
    BY <1>0, <1>7 DEF DeadlinePasses, TypeOK
  <2> QED
    BY <1>7, <2>1 DEF DeadlinePasses, TypeOK, editor
<1> QED
  BY <1>1, <1>2, <1>3, <1>4, <1>5, <1>6, <1>7 DEF MainStep

\* So does a step of a task,
LEMMA TurnKeepsTypes ==
    ASSUME TypeOK, ReadersWaitForALine, NEW t \in Ids, TurnStep(t)
    PROVE  TypeOK'
<1> USE DEF ReaderType
<1>0. /\ turns \in [Ids -> Points] /\ readers \in Seq(ReaderType)
      /\ stdin \in Seq(Lines) /\ deferred \in Seq(Lines)
  BY DEF TypeOK
<1>a. \A p \in Points : At(t, p) => turns' \in [Ids -> Points]
  BY <1>0 DEF At
<1>1. CASE Start(t)
  BY <1>1, <1>a DEF Start, TypeOK, editor, Points
<1>2. CASE Ask(t)
  <2>1. stdout' \in Seq(Messages)
    BY <1>2, RespondKeepsTypes DEF Ask
  <2>2. readers' \in Seq(ReaderType)
    BY <1>0, <1>2, AppendProperties DEF Ask
  <2> QED
    BY <1>2, <1>a, <2>1, <2>2 DEF Ask, TypeOK, editor, Points
<1>3. CASE Listen(t)
  <2>1. stdin' \in Seq(Lines) /\ Head(stdin) \in Lines
    BY <1>0, <1>3, HeadTailProperties DEF Listen
  <2>2. Tail(readers) \in Seq(ReaderType)
    BY <1>0, <1>3, HeadTailProperties DEF Listen, Holds
  <2>3. Append(Tail(readers), t) \in Seq(ReaderType)
    BY <2>2, AppendProperties
  <2>4. Append(deferred, Head(stdin)) \in Seq(Lines)
    BY <1>0, <2>1, AppendProperties
  <2> QED
    BY <1>3, <1>a, <2>1, <2>2, <2>3, <2>4 DEF Listen, TypeOK, editor, Points, Keep
<1>4. CASE TimeOut(t)
  <2>1. Tail(readers) \in Seq(ReaderType)
    BY <1>0, <1>4, HeadTailProperties DEF TimeOut, Holds
  <2> QED
    BY <1>4, <1>a, <2>1 DEF TimeOut, TypeOK, editor, Points
<1>5. CASE End(t)
  BY <1>5, <1>a DEF End, TypeOK, editor, Points
<1>6. CASE Report(t)
  <2>1. stdout' \in Seq(Messages)
    BY <1>6, RespondKeepsTypes DEF Report
  <2> QED
    BY <1>6, <1>a, <2>1 DEF Report, TypeOK, editor, Points
<1> QED
  BY <1>1, <1>2, <1>3, <1>4, <1>5, <1>6 DEF TurnStep

\* and one of the editor.
LEMMA EditorKeepsTypes ==
    ASSUME TypeOK, PlacesAreKnown, Send \/ UserDecides \/ Deliver
    PROVE  TypeOK'
<1>0. Settled(stdin) \in Seq(Lines)
  BY SettledKeepsRequests
<1>1. CASE Send
  <2> DEFINE id == Len(requests) + 1
  <2>1. PICK s \in Sessions, op \in Ops :
           /\ requests' = Append(requests, [op |-> op, session |-> s])
           /\ stdin' = Append(Settled(stdin), Request(id))
           /\ IF op = "list"
                THEN UNCHANGED <<current, view>>
                ELSE /\ current' = [current EXCEPT ![s] = id]
                     /\ view' = [view EXCEPT ![s] = 0]
    BY <1>1 DEF Send
  <2>2. id \in Ids
    BY <1>1, LenProperties, DaemonAssumption DEF Send, Ids, TypeOK
  <2>3. requests' \in Seq([op : Ops, session : Sessions])
    <3>1. [op |-> op, session |-> s] \in [op : Ops, session : Sessions]
      BY <2>1
    <3> QED
      BY <2>1, <3>1, AppendProperties DEF TypeOK
  <2>4. stdin' \in Seq(Lines)
    <3>1. Request(id) \in Lines
      BY <2>2 DEF Request, Lines
    <3> QED
      BY <1>0, <2>1, <3>1, AppendProperties
  <2>5. current' \in [Sessions -> {0} \cup Ids] /\ view' \in [Sessions -> {0} \cup Ids]
    BY <2>1, <2>2 DEF TypeOK
  <2> QED
    BY <1>1, <2>3, <2>4, <2>5 DEF Send, TypeOK
<1>2. CASE UserDecides
  <2>1. AnswerTo(gate) \in Lines
    BY <1>2 DEF UserDecides, TypeOK, AnswerTo, Lines
  <2>2. stdin' \in Seq(Lines)
    BY <1>2, <2>1, AppendProperties DEF UserDecides, TypeOK
  <2> QED
    BY <1>2, <2>2 DEF UserDecides, TypeOK
<1>3. CASE Deliver
  <2> DEFINE m == Head(stdout)
             s == requests[m.id].session
  <2>1. stdout' \in Seq(Messages) /\ m \in Messages
    BY <1>3, HeadTailProperties DEF Deliver, TypeOK
  <2>2. m.id \in Ids
    BY <2>1 DEF Messages
  <2>3. \/ gate' = m.id /\ stdin' = Settled(stdin) /\ UNCHANGED <<view, current>>
        \/ /\ view' = [view EXCEPT ![s] = m.id]
           /\ current' = [current EXCEPT ![s] = 0]
           /\ UNCHANGED <<gate, stdin>>
        \/ /\ view' = [view EXCEPT ![s] = 0]
           /\ current' = [current EXCEPT ![s] = IF current[s] = m.id THEN 0 ELSE @]
           /\ gate' = 0
           /\ stdin' = Settled(stdin)
        \/ UNCHANGED <<gate, view, current, stdin>>
    BY <1>3 DEF Deliver
  <2> HIDE DEF m, s
  <2>4. stdin' \in Seq(Lines) /\ gate' \in {0} \cup Ids
    BY <1>0, <2>2, <2>3 DEF TypeOK
  <2>5. view' \in [Sessions -> {0} \cup Ids]
    BY <2>2, <2>3 DEF TypeOK
  <2>6. current' \in [Sessions -> {0} \cup Ids]
    BY <2>2, <2>3 DEF TypeOK
  <2> QED
    BY <1>3, <2>1, <2>4, <2>5, <2>6 DEF Deliver, TypeOK
<1> QED
  BY <1>1, <1>2, <1>3

-----------------------------------------------------------------------------
(***************************************************************************)
(* A step of the main loop or of a task leaves every request in as many    *)
(* places as before.                                                       *)
(***************************************************************************)
LEMMA ServeMovesTheRequest ==
    ASSUME TypeOK, main.req = 0, NEW id \in Ids, NEW q, Serve(id, q), NEW x \in Ids
    PROVE  /\ Times(x, replied') \in Nat
           /\ (IF main'.req = x THEN 1 ELSE 0) + Times(x, replied')
                = Times(x, replied) + IF x = id THEN 1 ELSE 0
<1>1. Times(x, replied) \in Nat /\ x # 0 /\ replied \in Seq(Ids)
  BY TimesAreNumbers, DaemonAssumption DEF Ids, TypeOK
<1>2. CASE requests[id].op = "list"
  <2>1. main' = Top /\ replied' = Append(replied, id)
    BY <1>2 DEF Serve, Respond
  <2>2. Times(x, replied') = Times(x, replied) + IF id = x THEN 1 ELSE 0
    BY <1>1, <2>1, TimesInAppend
  <2> QED
    BY <1>1, <2>1, <2>2 DEF Top
<1>3. CASE requests[id].op # "list"
  BY <1>1, <1>3 DEF Serve
<1> QED
  BY <1>2, <1>3

\* A request read from the head of a queue leaves it, an answer does not count.
LEMMA TailMovesTheRequest ==
    ASSUME NEW q \in Seq(Lines), q # <<>>, NEW x \in Ids
    PROVE  /\ Times(Request(x), Tail(q)) \in Nat
           /\ Times(Request(x), q) = Times(Request(x), Tail(q)) +
                IF Head(q).type # "answer" /\ x = Head(q).id THEN 1 ELSE 0
<1>1. Head(q) \in Lines /\ Tail(q) \in Seq(Lines)
  BY HeadTailProperties
<1>2. Head(q) = Request(x) <=> Head(q).type # "answer" /\ x = Head(q).id
  BY <1>1 DEF Lines, Request
<1>3. Times(Request(x), Tail(q)) \in Nat
  BY <1>1, PositionsAreFinite
<1>4. Times(Request(x), Tail(q)) + (IF Head(q) = Request(x) THEN 1 ELSE 0)
        = Times(Request(x), q)
  BY TimesInTail
<1> QED
  BY <1>2, <1>3, <1>4

\* A response takes the request from the main loop to the responded ones.
LEMMA RespondMovesTheRequest ==
    ASSUME TypeOK, main.req \in Ids, NEW type, Respond(type, main.req),
           main' = Top, NEW x \in Ids
    PROVE  /\ Times(x, replied') \in Nat
           /\ (IF main'.req = x THEN 1 ELSE 0) + Times(x, replied')
                = Times(x, replied) + IF main.req = x THEN 1 ELSE 0
<1>1. Times(x, replied) \in Nat /\ x # 0 /\ replied \in Seq(Ids)
  BY TimesAreNumbers, DaemonAssumption DEF Ids, TypeOK
<1>2. Times(x, replied') = Times(x, replied) + IF main.req = x THEN 1 ELSE 0
  BY <1>1, TimesInAppend DEF Respond
<1> QED
  BY <1>1, <1>2 DEF Top

LEMMA MainKeepsPlaces ==
    ASSUME TypeOK, PlacesAreKnown, MainServesARequest,
           MainStep \/ DeadlinePasses, NEW x \in Ids
    PROVE  Places(x)' = Places(x)
<1> DEFINE In(q) == Times(Request(x), q)
           here == IF main.req = x THEN 1 ELSE 0
           after == IF main'.req = x THEN 1 ELSE 0
<1>0. /\ In(stdin) \in Nat /\ In(deferred) \in Nat /\ Times(x, replied) \in Nat
      /\ stdin \in Seq(Lines) /\ deferred \in Seq(Lines) /\ x # 0
  BY TimesAreNumbers, DaemonAssumption DEF TypeOK, Ids
<1>a. /\ Places(x) = In(stdin) + In(deferred) + here + Times(x, replied)
      /\ Places(x)' = In(stdin') + In(deferred') + after + Times(x, replied')
  BY DEF Places, Request
<1>b. here \in {0, 1} /\ after \in {0, 1}
  OBVIOUS
<1> HIDE DEF In
<1>1. CASE ServeDeferred
  <2> DEFINE id == Head(deferred).id
  <2>1. /\ In(Tail(deferred)) \in Nat
        /\ In(deferred) = In(Tail(deferred)) +
             IF Head(deferred).type # "answer" /\ x = id THEN 1 ELSE 0
    BY <1>0, <1>1, TailMovesTheRequest DEF ServeDeferred, In
  <2>2. deferred' = Tail(deferred) /\ stdin' = stdin /\ main.req = 0
    BY <1>1 DEF ServeDeferred, MainServesARequest
  <2>3. CASE Head(deferred).type = "answer"
    <3>1. main' = main /\ replied' = replied
      BY <1>1, <2>3 DEF ServeDeferred
    <3> QED
      BY <1>0, <1>a, <2>1, <2>2, <2>3, <3>1
  <2>4. CASE Head(deferred).type # "answer"
    <3>1. id \in Ids /\ Serve(id, readers)
      BY <1>1, <2>4, ReadRequestIsKnown DEF ServeDeferred
    <3> HIDE DEF id
    <3>2. /\ Times(x, replied') \in Nat
          /\ after + Times(x, replied')
               = Times(x, replied) + IF x = id THEN 1 ELSE 0
      BY <2>2, <3>1, ServeMovesTheRequest
    <3>3. In(deferred) = In(deferred') + IF x = id THEN 1 ELSE 0
      BY <2>1, <2>2, <2>4 DEF id
    <3>4. here = 0 /\ In(deferred') \in Nat /\ In(stdin') = In(stdin)
      BY <1>0, <2>1, <2>2
    <3> HIDE DEF here, after
    <3> QED
      BY <1>0, <1>a, <1>b, <3>2, <3>3, <3>4
  <2> QED
    BY <2>3, <2>4
<1>2. CASE LockLines
  <2>1. main.req = 0 /\ main'.req = 0
    BY <1>2 DEF LockLines, MainServesARequest
  <2> QED
    BY <1>0, <1>a, <1>2, <2>1 DEF LockLines
<1>3. CASE Receive
  <2> DEFINE id == Head(stdin).id
  <2>1. /\ In(Tail(stdin)) \in Nat
        /\ In(stdin) = In(Tail(stdin)) +
             IF Head(stdin).type # "answer" /\ x = id THEN 1 ELSE 0
    BY <1>0, <1>3, TailMovesTheRequest DEF Receive, In
  <2>2. stdin' = Tail(stdin) /\ deferred' = deferred /\ main.req = 0
    BY <1>3 DEF Receive, MainServesARequest
  <2>3. CASE Head(stdin).type = "answer"
    <3>1. main' = Top /\ replied' = replied
      BY <1>3, <2>3 DEF Receive
    <3> QED
      BY <1>0, <1>a, <2>1, <2>2, <2>3, <3>1 DEF Top
  <2>4. CASE Head(stdin).type # "answer"
    <3>1. id \in Ids /\ Serve(id, Tail(readers))
      BY <1>3, <2>4, ReadRequestIsKnown DEF Receive
    <3> HIDE DEF id
    <3>2. /\ Times(x, replied') \in Nat
          /\ after + Times(x, replied')
               = Times(x, replied) + IF x = id THEN 1 ELSE 0
      BY <2>2, <3>1, ServeMovesTheRequest
    <3>3. In(stdin) = In(stdin') + IF x = id THEN 1 ELSE 0
      BY <2>1, <2>2, <2>4 DEF id
    <3>4. here = 0 /\ In(stdin') \in Nat /\ In(deferred') = In(deferred)
      BY <1>0, <2>1, <2>2
    <3> HIDE DEF here, after
    <3> QED
      BY <1>0, <1>a, <1>b, <3>2, <3>3, <3>4
  <2> QED
    BY <2>3, <2>4
<1>r. ASSUME main.req \in Ids, NEW type, Respond(type, main.req), main' = Top,
             stdin' = stdin, deferred' = deferred
      PROVE  Places(x)' = Places(x)
  <2>1. /\ Times(x, replied') \in Nat
        /\ (IF main'.req = x THEN 1 ELSE 0) + Times(x, replied')
             = Times(x, replied) + IF main.req = x THEN 1 ELSE 0
    BY <1>r, RespondMovesTheRequest
  <2> QED
    BY <1>0, <1>a, <1>r, <2>1
<1>4. CASE LockEngine
  <2>1. main.req \in Ids
    BY <1>4, ServedRequestIsKnown DEF LockEngine, MainServesARequest
  <2>2. CASE requests[main.req].op = "cancel"
    BY <1>4, <1>r, <2>1, <2>2 DEF LockEngine
  <2>3. CASE requests[main.req].op # "cancel"
    <3>1. main'.req = main.req
      BY <1>4, <2>3 DEF LockEngine, TypeOK
    <3> QED
      BY <1>0, <1>a, <1>4, <2>3, <3>1 DEF LockEngine
  <2> QED
    BY <2>2, <2>3
<1>5. CASE TurnReturns
  <2>1. main.req \in Ids
    BY <1>5, ServedRequestIsKnown DEF TurnReturns, MainServesARequest
  <2> QED
    BY <1>5, <1>r, <2>1 DEF TurnReturns
<1>6. CASE WriteWorking
  <2>1. main.req \in Ids
    BY <1>6, ServedRequestIsKnown DEF WriteWorking, MainServesARequest
  <2> QED
    BY <1>6, <1>r, <2>1 DEF WriteWorking
<1>7. CASE DeadlinePasses
  <2>1. main'.req = main.req
    BY <1>7 DEF DeadlinePasses, TypeOK
  <2> QED
    BY <1>0, <1>a, <1>7, <2>1 DEF DeadlinePasses
<1> QED
  BY <1>1, <1>2, <1>3, <1>4, <1>5, <1>6, <1>7 DEF MainStep

\* A task keeps what it reads and is not its own.
LEMMA TurnKeepsPlaces ==
    ASSUME TypeOK, NEW t \in Ids, TurnStep(t), NEW x \in Ids
    PROVE  Places(x)' = Places(x)
<1> DEFINE In(q) == Times(Request(x), q)
<1>0. /\ In(stdin) \in Nat /\ In(deferred) \in Nat /\ Times(x, replied) \in Nat
      /\ stdin \in Seq(Lines) /\ deferred \in Seq(Lines)
  BY TimesAreNumbers DEF TypeOK
<1>a. /\ Places(x) = In(stdin) + In(deferred)
                        + (IF main.req = x THEN 1 ELSE 0) + Times(x, replied)
      /\ Places(x)' = In(stdin') + In(deferred')
                         + (IF main'.req = x THEN 1 ELSE 0) + Times(x, replied')
  BY DEF Places, Request
<1>1. replied' = replied /\ main' = main
  BY DEF TurnStep, Start, Ask, Listen, TimeOut, End, Report
<1>2. In(stdin') + In(deferred') = In(stdin) + In(deferred)
  <2>1. CASE stdin' = stdin /\ deferred' = deferred
    BY <2>1
  <2>2. CASE Listen(t)
    <3> HIDE DEF In
    <3>1. /\ stdin # <<>> /\ stdin' = Tail(stdin)
          /\ IF Head(stdin) = AnswerTo(t)
               THEN deferred' = deferred
               ELSE deferred' = Append(deferred, Head(stdin))
      BY <2>2 DEF Listen, Keep
    <3>2. Head(stdin) \in Lines
      BY <1>0, <3>1, HeadTailProperties
    <3>3. /\ In(Tail(stdin)) \in Nat
          /\ In(Tail(stdin)) + (IF Head(stdin) = Request(x) THEN 1 ELSE 0) = In(stdin)
      BY <1>0, <3>1, TimesInTail, HeadTailProperties, PositionsAreFinite DEF In
    <3>4. CASE Head(stdin) = AnswerTo(t)
      <4>1. Head(stdin) # Request(x)
        BY <3>4 DEF AnswerTo, Request
      <4> QED
        BY <1>0, <3>1, <3>3, <3>4, <4>1
    <3>5. CASE Head(stdin) # AnswerTo(t)
      <4>0. deferred' = Append(deferred, Head(stdin))
        BY <3>1, <3>5
      <4>1. In(Append(deferred, Head(stdin)))
              = In(deferred) + IF Head(stdin) = Request(x) THEN 1 ELSE 0
        BY <1>0, <3>2, TimesInAppend DEF In
      <4> QED
        BY <1>0, <3>1, <3>3, <4>0, <4>1
    <3> QED
      BY <3>4, <3>5
  <2> QED
    BY <2>1, <2>2 DEF TurnStep, Start, Ask, TimeOut, End, Report
<1> HIDE DEF In
<1> QED
  BY <1>a, <1>1, <1>2

\* The editor sends one request more, and answers that do not count.
LEMMA EditorKeepsPlaces ==
    ASSUME TypeOK, PlacesAreKnown, Send \/ UserDecides \/ Deliver
    PROVE  PlacesAreKnown'
<1>0. Len(requests) \in Nat /\ MaxRequests \in Nat
  BY LenProperties, DaemonAssumption DEF TypeOK
<1>a. deferred' = deferred /\ main' = main /\ replied' = replied
  BY DEF Send, UserDecides, Deliver
<1>b. ASSUME NEW x \in Ids
      PROVE  /\ Times(Request(x), stdin) \in Nat /\ Times(Request(x), deferred) \in Nat
             /\ Times(x, replied) \in Nat
             /\ Times(Request(x), Settled(stdin)) = Times(Request(x), stdin)
  BY TimesAreNumbers, SettledKeepsRequests
<1>1. CASE UserDecides \/ Deliver
  <2>1. requests' = requests
    BY <1>1 DEF UserDecides, Deliver
  <2>2. stdin' = Settled(stdin) \/ stdin' = stdin
    BY <1>1 DEF UserDecides, Deliver, Settled
  <2>3. ASSUME NEW x \in Ids PROVE Places(x)' = Places(x)
    BY <1>a, <1>b, <2>2 DEF Places, Request
  <2> QED
    BY <2>1, <2>3 DEF PlacesAreKnown
<1>2. CASE Send
  <2> DEFINE id == Len(requests) + 1
  <2>1. /\ Len(requests) < MaxRequests
        /\ stdin' = Append(Settled(stdin), Request(id))
        /\ Len(requests') = id
    BY <1>2, AppendProperties DEF Send, TypeOK
  <2>2. id \in Ids
    BY <1>0, <2>1 DEF Ids
  <2> HIDE DEF id
  <2>3. ASSUME NEW x \in Ids
        PROVE  Places(x)' = Places(x) + IF x = id THEN 1 ELSE 0
    <3>1. Request(id) \in Lines /\ Settled(stdin) \in Seq(Lines)
      BY <2>2, SettledKeepsRequests DEF Request, Lines
    <3>2. Request(id) = Request(x) <=> x = id
      BY DEF Request
    <3>3. Times(Request(x), stdin')
            = Times(Request(x), Settled(stdin)) + IF Request(id) = Request(x) THEN 1 ELSE 0
      BY <2>1, <3>1, TimesInAppend
    <3>4. Times(Request(x), stdin') = Times(Request(x), stdin) + IF x = id THEN 1 ELSE 0
      BY <1>b, <3>2, <3>3
    <3>5. Places(x)' = Times(Request(x), stdin') + Times(Request(x), deferred)
                         + (IF main.req = x THEN 1 ELSE 0) + Times(x, replied)
      BY <1>a DEF Places, Request
    <3> QED
      BY <1>b, <3>4, <3>5 DEF Places
  <2>4. \A x \in Ids : Places(x)' = IF x <= Len(requests') THEN 1 ELSE 0
    <3> SUFFICES ASSUME NEW x \in Ids
                 PROVE  Places(x)' = IF x <= Len(requests') THEN 1 ELSE 0
      OBVIOUS
    <3>1. Places(x) = IF x <= Len(requests) THEN 1 ELSE 0
      BY DEF PlacesAreKnown
    <3>2. x \in Nat /\ id = Len(requests) + 1
      BY <1>0 DEF Ids, id
    <3> QED
      BY <1>0, <2>1, <2>3, <3>1, <3>2
  <2>5. Len(requests') <= MaxRequests
    BY <1>0, <2>1 DEF id
  <2> QED
    BY <2>4, <2>5 DEF PlacesAreKnown
<1> QED
  BY <1>1, <1>2

-----------------------------------------------------------------------------
(***************************************************************************)
(* The queue for the channel holds those who wait for a line.              *)
(***************************************************************************)
QueueIsTrue(q, point, task) ==
    /\ Distinct(q)
    /\ \A r \in ReaderType :
          Has(q, r) <=> IF r = Main THEN point = "recv" ELSE task[r] = "asking"

LEMMA ReadersAsAQueue ==
    /\ ReadersWaitForALine <=> QueueIsTrue(readers, main.at, turns)
    /\ ReadersWaitForALine' <=> QueueIsTrue(readers', main'.at, turns')
BY DEF ReadersWaitForALine, QueueIsTrue, Distinct, Has, ReaderType

\* abort_pending takes the granter of the turn it aborts out of the queue.
LEMMA ServeKeepsReaders ==
    ASSUME TypeOK, NEW id \in Ids, id \in 1..Len(requests),
           NEW q \in Seq(ReaderType), QueueIsTrue(q, "top", turns), Serve(id, q)
    PROVE  ReadersWaitForALine'
<1> DEFINE s == requests[id].session
           p == pending[s]
<1>0. s \in Sessions /\ p \in {0} \cup Ids /\ turns \in [Ids -> Points]
  BY SentRequestHasASession DEF TypeOK
<1>1. CASE requests[id].op = "list"
  <2>1. main' = Top /\ readers' = q /\ turns' = turns
    BY <1>1 DEF Serve
  <2>2. QueueIsTrue(readers', main'.at, turns')
    BY <2>1 DEF Top
  <2> QED
    BY <2>2, ReadersAsAQueue
<1>2. CASE requests[id].op # "list"
  <2>1. /\ main'.at = "engine" /\ AbortPending(s) /\ readers' = AfterAbort(q, s)
    BY <1>2 DEF Serve
  <2>2. CASE p = 0
    <3>1. readers' = q /\ turns' = turns
      BY <2>1, <2>2 DEF AbortPending, AfterAbort
    <3>2. QueueIsTrue(readers', main'.at, turns')
      BY <2>1, <3>1 DEF QueueIsTrue
    <3> QED
      BY <3>2, ReadersAsAQueue
  <2>3. CASE p # 0
    <3>1. readers' = Without(q, p)
      BY <2>1, <2>3 DEF AfterAbort
    <3>2. turns' = IF Alive(p) THEN [turns EXCEPT ![p] = "aborted"] ELSE turns
      BY <2>1, <2>3 DEF AbortPending, At
    <3>3. p \in Ids
      BY <1>0, <2>3
    <3> HIDE DEF p, s
    <3>4. \A r \in Ids : turns'[r] = "asking" <=> turns[r] = "asking" /\ r # p
      BY <1>0, <3>2, <3>3 DEF Alive
    <3>5. /\ Distinct(Without(q, p))
          /\ \A r : Has(Without(q, p), r) <=> Has(q, r) /\ r # p
      BY DistinctWithout DEF QueueIsTrue
    <3>6. 0 \notin Ids
      BY DaemonAssumption DEF Ids
    <3>7. ASSUME NEW r \in ReaderType
          PROVE  Has(readers', r) <=>
                    IF r = Main THEN main'.at = "recv" ELSE turns'[r] = "asking"
      <4>1. Has(q, r) <=> IF r = Main THEN "top" = "recv" ELSE turns[r] = "asking"
        BY DEF QueueIsTrue
      <4>2. r = Main \/ r \in Ids
        BY DEF ReaderType
      <4> QED
        BY <2>1, <3>1, <3>3, <3>4, <3>5, <3>6, <4>1, <4>2 DEF Main
    <3>8. QueueIsTrue(readers', main'.at, turns')
      BY <3>1, <3>5, <3>7 DEF QueueIsTrue
    <3> QED
      BY <3>8, ReadersAsAQueue
  <2> QED
    BY <2>2, <2>3
<1> QED
  BY <1>1, <1>2

\* The head leaves the queue and waits no more; a newcomer joins it.
LEMMA HeadLeaves ==
    ASSUME NEW q \in Seq(ReaderType), q # <<>>, NEW task, NEW after, NEW at, NEW then,
           QueueIsTrue(q, at, task), then # "recv" \/ Head(q) # Main,
           \A r \in Ids : after[r] = "asking" <=> task[r] = "asking" /\ r # Head(q),
           then = "recv" => at = "recv", at = "recv" => then = "recv" \/ Head(q) = Main
    PROVE  QueueIsTrue(Tail(q), then, after)
<1>1. /\ Distinct(Tail(q))
      /\ \A r : Has(Tail(q), r) <=> Has(q, r) /\ r # Head(q)
  BY DistinctTail DEF QueueIsTrue
<1>2. \A r \in ReaderType : r = Main \/ r \in Ids
  BY DEF ReaderType
<1> QED
  BY <1>1, <1>2 DEF QueueIsTrue

LEMMA NewcomerJoins ==
    ASSUME NEW q \in Seq(ReaderType), NEW y \in ReaderType, NEW task, NEW after,
           NEW at, NEW then, QueueIsTrue(q, at, task), ~Has(q, y),
           \A r \in Ids \ {y} : after[r] = "asking" <=> task[r] = "asking",
           IF y = Main THEN then = "recv"
                       ELSE after[y] = "asking" /\ (then = "recv" <=> at = "recv")
    PROVE  QueueIsTrue(Append(q, y), then, after)
<1>1. /\ Distinct(Append(q, y))
      /\ \A r : Has(Append(q, y), r) <=> Has(q, r) \/ r = y
  BY DistinctAppend DEF QueueIsTrue
<1>2. \A r \in ReaderType : r = Main \/ r \in Ids
  BY DEF ReaderType
<1> QED
  BY <1>1, <1>2 DEF QueueIsTrue

LEMMA MainKeepsReaders ==
    ASSUME TypeOK, PlacesAreKnown, MainServesARequest, TasksBelong,
           ReadersWaitForALine, MainStep \/ DeadlinePasses
    PROVE  ReadersWaitForALine'
<1>0. /\ readers \in Seq(ReaderType) /\ QueueIsTrue(readers, main.at, turns)
      /\ turns \in [Ids -> Points] /\ Main \in ReaderType /\ Main \notin Ids
  BY ReadersAsAQueue, DaemonAssumption DEF TypeOK, ReaderType, Main, Ids
<1>1. CASE ServeDeferred
  <2>1. CASE Head(deferred).type = "answer"
    BY <1>0, <1>1, <2>1, ReadersAsAQueue DEF ServeDeferred
  <2>2. CASE Head(deferred).type # "answer"
    <3>1. /\ Head(deferred).id \in Ids /\ Head(deferred).id \in 1..Len(requests)
          /\ Serve(Head(deferred).id, readers)
      BY <1>1, <2>2, ReadRequestIsKnown DEF ServeDeferred
    <3>2. QueueIsTrue(readers, "top", turns)
      BY <1>0, <1>1 DEF ServeDeferred, QueueIsTrue
    <3> QED
      BY <1>0, <3>1, <3>2, ServeKeepsReaders
  <2> QED
    BY <2>1, <2>2
<1>2. CASE LockLines
  <2>1. ~Has(readers, Main)
    BY <1>0, <1>2 DEF LockLines, QueueIsTrue
  <2>2. /\ readers' = Append(readers, Main) /\ main'.at = "recv" /\ turns' = turns
    BY <1>2 DEF LockLines
  <2>3. QueueIsTrue(readers', main'.at, turns')
    BY <1>0, <2>1, <2>2, NewcomerJoins
  <2> QED
    BY <2>3, ReadersAsAQueue
<1>3. CASE Receive
  <2>1. main.at = "recv" /\ readers # <<>> /\ Head(readers) = Main
    BY <1>3 DEF Receive, Holds
  <2>2. Tail(readers) \in Seq(ReaderType)
    BY <1>0, <2>1, HeadTailProperties
  <2>3. QueueIsTrue(Tail(readers), "top", turns)
    BY <1>0, <2>1, HeadLeaves
  <2>4. CASE Head(stdin).type = "answer"
    <3>1. readers' = Tail(readers) /\ main' = Top /\ turns' = turns
      BY <1>3, <2>4 DEF Receive
    <3> QED
      BY <2>3, <3>1, ReadersAsAQueue DEF Top
  <2>5. CASE Head(stdin).type # "answer"
    <3>1. /\ Head(stdin).id \in Ids /\ Head(stdin).id \in 1..Len(requests)
          /\ Serve(Head(stdin).id, Tail(readers))
      BY <1>3, <2>5, ReadRequestIsKnown DEF Receive
    <3> QED
      BY <2>2, <2>3, <3>1, ServeKeepsReaders
  <2> QED
    BY <2>4, <2>5
<1>4. CASE LockEngine \/ TurnReturns \/ WriteWorking \/ DeadlinePasses
  <2>1. readers' = readers /\ main.at # "recv"
    BY <1>4 DEF LockEngine, TurnReturns, WriteWorking, DeadlinePasses
  <2>2. main'.at # "recv"
    BY <1>4 DEF LockEngine, TurnReturns, WriteWorking, DeadlinePasses, Top, TypeOK
  <2>3. \A r \in Ids : turns'[r] = "asking" <=> turns[r] = "asking"
    <3>1. CASE LockEngine
      <4>1. main.req \in Ids /\ Times(main.req, replied) = 0
        BY <3>1, ServedRequestIsKnown DEF LockEngine, MainServesARequest
      <4>2. turns[main.req] = "none"
        BY <3>1, <4>1 DEF LockEngine, TasksBelong, Waits
      <4> QED
        BY <1>0, <3>1, <4>1, <4>2 DEF LockEngine, At
    <3>2. CASE TurnReturns
      BY <1>0, <3>2 DEF TurnReturns, At
    <3>3. CASE WriteWorking \/ DeadlinePasses
      BY <3>3 DEF WriteWorking, DeadlinePasses
    <3> QED
      BY <1>4, <3>1, <3>2, <3>3
  <2>4. QueueIsTrue(readers', main'.at, turns')
    BY <1>0, <2>1, <2>2, <2>3 DEF QueueIsTrue, ReaderType
  <2> QED
    BY <2>4, ReadersAsAQueue
<1> QED
  BY <1>1, <1>2, <1>3, <1>4 DEF MainStep

LEMMA TurnKeepsReaders ==
    ASSUME TypeOK, ReadersWaitForALine, NEW t \in Ids, TurnStep(t)
    PROVE  ReadersWaitForALine'
<1>0. /\ readers \in Seq(ReaderType) /\ QueueIsTrue(readers, main.at, turns)
      /\ turns \in [Ids -> Points] /\ t \in ReaderType /\ t # Main
  BY ReadersAsAQueue, DaemonAssumption DEF TypeOK, ReaderType, Main, Ids
<1>a. main' = main
  BY DEF TurnStep, Start, Ask, Listen, TimeOut, End, Report
<1>1. CASE Start(t) \/ End(t) \/ Report(t)
  <2>1. readers' = readers /\ \A r \in Ids : turns'[r] = "asking" <=> turns[r] = "asking"
    BY <1>0, <1>1 DEF Start, End, Report, At
  <2>2. QueueIsTrue(readers', main'.at, turns')
    BY <1>0, <1>a, <2>1 DEF QueueIsTrue, ReaderType
  <2> QED
    BY <2>2, ReadersAsAQueue
<1>2. CASE Ask(t)
  <2>1. /\ readers' = Append(readers, t) /\ turns[t] = "running"
        /\ turns' = [turns EXCEPT ![t] = "asking"]
    BY <1>2 DEF Ask, At
  <2>2. ~Has(readers, t)
    BY <1>0, <2>1 DEF QueueIsTrue
  <2>3. QueueIsTrue(Append(readers, t), main'.at, turns')
    <3>1. turns'[t] = "asking" /\ \A r \in Ids \ {t} : turns'[r] = turns[r]
      BY <1>0, <2>1
    <3> QED
      BY <1>0, <1>a, <2>2, <3>1, NewcomerJoins
  <2> QED
    BY <2>1, <2>3, ReadersAsAQueue
<1>3. ASSUME readers # <<>>, Head(readers) = t
      PROVE  /\ Tail(readers) \in Seq(ReaderType)
             /\ ~Has(Tail(readers), t)
             /\ \A after : (\A r \in Ids : after[r] = "asking" <=>
                                             turns[r] = "asking" /\ r # t)
                  => QueueIsTrue(Tail(readers), main.at, after)
  <2>1. Tail(readers) \in Seq(ReaderType) /\ ~Has(Tail(readers), t)
    BY <1>0, <1>3, ReadersAreDistinct
  <2>2. ASSUME NEW after,
               \A r \in Ids : after[r] = "asking" <=> turns[r] = "asking" /\ r # t
        PROVE  QueueIsTrue(Tail(readers), main.at, after)
    BY <1>0, <1>3, <2>2, HeadLeaves
  <2> QED
    BY <2>1, <2>2
<1>4. CASE TimeOut(t) \/ (Listen(t) /\ Head(stdin) = AnswerTo(t))
  <2>1. /\ readers # <<>> /\ Head(readers) = t /\ readers' = Tail(readers)
        /\ turns' = [turns EXCEPT ![t] = "answered"]
    BY <1>4 DEF TimeOut, Listen, Holds, At
  <2>2. \A r \in Ids : turns'[r] = "asking" <=> turns[r] = "asking" /\ r # t
    BY <1>0, <2>1
  <2>3. QueueIsTrue(readers', main'.at, turns')
    BY <1>3, <1>a, <2>1, <2>2
  <2> QED
    BY <2>3, ReadersAsAQueue
<1>5. CASE Listen(t) /\ Head(stdin) # AnswerTo(t)
  <2>1. /\ readers # <<>> /\ Head(readers) = t
        /\ readers' = Append(Tail(readers), t)
        /\ turns[t] = "asking" /\ turns' = turns
    BY <1>5 DEF Listen, Holds
  <2> DEFINE apart == [turns EXCEPT ![t] = "answered"]
  <2>2. \A r \in Ids : apart[r] = "asking" <=> turns[r] = "asking" /\ r # t
    BY <1>0
  <2> HIDE DEF apart
  <2>3. QueueIsTrue(Tail(readers), main.at, apart)
    BY <1>3, <2>1, <2>2
  <2>4. QueueIsTrue(Append(Tail(readers), t), main.at, turns)
    BY <1>0, <1>3, <2>1, <2>2, <2>3, NewcomerJoins
  <2> QED
    BY <1>a, <2>1, <2>4, ReadersAsAQueue
<1> QED
  BY <1>1, <1>2, <1>4, <1>5 DEF TurnStep

-----------------------------------------------------------------------------
(***************************************************************************)
(* Tasks, the requests they serve, and the engine.                         *)
(***************************************************************************)

\* What was responded to stays so, and the request served joins it.
LEMMA RespondedGrows ==
    ASSUME TypeOK, NEW type, NEW id \in Ids, Respond(type, id)
    PROVE  /\ Times(id, replied') # 0
           /\ \A t : Times(t, replied) # 0 => Times(t, replied') # 0
<1>1. replied \in Seq(Ids) /\ replied' = Append(replied, id)
  BY DEF TypeOK, Respond
<1>2. \A t : /\ Times(t, replied) \in Nat
             /\ Times(t, replied') = Times(t, replied) + IF id = t THEN 1 ELSE 0
  BY <1>1, PositionsAreFinite, TimesInAppend
<1> QED
  BY <1>2

\* A task is of a request that was sent.
LEMMA TaskIsKnown ==
    ASSUME TypeOK, PlacesAreKnown, MainServesARequest, TasksBelong,
           NEW t \in Ids, turns[t] # "none"
    PROVE  t \in 1..Len(requests)
<1>0. Len(requests) \in Nat /\ \A x \in Ids : x \in Nat \ {0}
  BY LenProperties, DaemonAssumption DEF Ids, TypeOK
<1>1. CASE Waits(t)
  BY <1>1, <1>0, ServedRequestIsKnown DEF Waits
<1>2. CASE Times(t, replied) # 0
  <2>1. /\ Times(Request(t), stdin) \in Nat /\ Times(Request(t), deferred) \in Nat
        /\ Times(t, replied) \in Nat
    BY TimesAreNumbers
  <2>2. Places(t) = IF t <= Len(requests) THEN 1 ELSE 0
    BY DEF PlacesAreKnown
  <2>3. t <= Len(requests)
    BY <1>2, <2>1, <2>2 DEF Places
  <2> QED
    BY <1>0, <2>3
<1> QED
  BY <1>1, <1>2 DEF TasksBelong

\* To serve a request is to end its session's pending turn first.
LEMMA ServeKeepsTasks ==
    ASSUME TypeOK, Tasks, main.req = 0, UNCHANGED requests,
           NEW id \in Ids, id \in 1..Len(requests), NEW q, Serve(id, q)
    PROVE  MainServesARequest' /\ Tasks'
<1> DEFINE s == Session(id)
           p == pending[s]
<1>0. /\ s \in Sessions /\ p \in {0} \cup Ids /\ turns \in [Ids -> Points]
      /\ pending \in [Sessions -> {0} \cup Ids] /\ 0 \notin Ids
  BY SentRequestHasASession, DaemonAssumption DEF TypeOK, Session, Ids
<1>a. \A t \in Ids : ~Waits(t)
  BY <1>0 DEF Waits
<1>1. CASE requests[id].op = "list"
  <2>1. main' = Top /\ Respond("result", id) /\ UNCHANGED <<turns, engine, pending>>
    BY <1>1 DEF Serve
  <2>2. MainServesARequest'
    BY <2>1 DEF MainServesARequest, Top
  <2>3. TasksBelong'
    BY <1>a, <2>1, RespondedGrows DEF TasksBelong, Tasks
  <2>4. LiveTurnsBelong'
    BY <1>a, <2>1 DEF LiveTurnsBelong, Tasks, Alive, Session
  <2>5. PendingFits'
    BY <2>1 DEF PendingFits, Tasks, Session, Top
  <2>6. EngineIsHeld'
    BY <2>1 DEF EngineIsHeld, Tasks, Runs
  <2> QED
    BY <2>2, <2>3, <2>4, <2>5, <2>6 DEF Tasks
<1>2. CASE requests[id].op # "list"
  <2>1. /\ main' = [at |-> "engine", req |-> id]
        /\ replied' = replied /\ AbortPending(s)
    BY <1>2 DEF Serve, Session
  <2>2. MainServesARequest'
    BY <1>0, <2>1 DEF MainServesARequest
  <2>3. /\ pending' = [pending EXCEPT ![s] = 0]
        /\ IF p # 0 /\ Alive(p)
             THEN /\ turns' = [turns EXCEPT ![p] = "aborted"]
                  /\ engine' = IF engine = p THEN 0 ELSE engine
             ELSE UNCHANGED <<turns, engine>>
    BY <2>1 DEF AbortPending, At
  <2>d. Session(id)' = s /\ \A t \in Ids : Session(t)' = Session(t)
    BY DEF Session
  <2> HIDE DEF s, p
  <2>4. \A t \in Ids : /\ turns'[t] # "none" => turns[t] # "none"
                       /\ Alive(t)' => Alive(t) /\ t # p
                       /\ Runs(t)' <=> Runs(t) /\ t # p
    BY <1>0, <2>3 DEF Alive, Runs
  <2>5. TasksBelong'
    BY <1>a, <2>1, <2>4 DEF TasksBelong, Tasks
  <2>6. LiveTurnsBelong'
    <3> SUFFICES ASSUME NEW t \in Ids, Alive(t)' PROVE pending'[Session(t)] = t
      BY <2>d DEF LiveTurnsBelong
    <3>1. Alive(t) /\ t # p /\ pending[Session(t)] = t
      BY <1>a, <2>4 DEF LiveTurnsBelong, Tasks
    <3>2. Session(t) # s
      BY <3>1 DEF p
    <3> QED
      BY <2>3, <3>1, <3>2, <1>0
  <2>7. PendingFits'
    <3>1. pending'[s] = 0
      BY <1>0, <2>3
    <3>2. \A x \in Sessions : pending'[x] # 0 => pending'[x] = pending[x]
      BY <1>0, <2>3
    <3>3. \A x \in Sessions : pending[x] # 0 => pending[x] \in Ids
      BY <1>0
    <3>4. \A x \in Sessions : pending'[x] # 0 =>
             pending'[x] <= Len(requests) /\ Session(pending'[x]) = x
      BY <3>2, <3>3 DEF PendingFits, Tasks
    <3>5. main'.at = "engine" /\ main'.req = id
      BY <2>1
    <3>6. Session(id) = s
      BY DEF s
    <3> QED
      BY <3>1, <3>4, <3>5, <3>6 DEF PendingFits, Session
  <2>8. EngineIsHeld'
    <3>1. ASSUME NEW t \in Ids PROVE engine' = t <=> Runs(t)'
      <4>1. engine = t <=> Runs(t)
        BY DEF EngineIsHeld, Tasks
      <4>2. engine = p /\ p \in Ids => Alive(p)
        BY DEF EngineIsHeld, Tasks, Runs, Alive
      <4>3. engine' = t <=> engine = t /\ t # p
        BY <1>0, <2>3, <4>2
      <4> QED
        BY <2>4, <4>1, <4>3
    <3> QED
      BY <3>1 DEF EngineIsHeld
  <2> QED
    BY <2>2, <2>5, <2>6, <2>7, <2>8 DEF Tasks
<1> QED
  BY <1>1, <1>2

LEMMA MainKeepsTasks ==
    ASSUME TypeOK, PlacesAreKnown, MainServesARequest, Tasks,
           MainStep \/ DeadlinePasses
    PROVE  MainServesARequest' /\ Tasks'
<1>0. /\ turns \in [Ids -> Points] /\ pending \in [Sessions -> {0} \cup Ids]
      /\ 0 \notin Ids /\ requests' = requests
  BY DaemonAssumption
     DEF TypeOK, Ids, MainStep, ServeDeferred, LockLines, Receive, LockEngine,
         TurnReturns, WriteWorking, DeadlinePasses
<1>a. \A t : Session(t)' = Session(t)
  BY <1>0 DEF Session
<1>b. ASSUME main.req # 0
      PROVE  /\ main.req \in Ids /\ main.req \in 1..Len(requests)
             /\ Session(main.req) \in Sessions /\ Times(main.req, replied) = 0
  BY <1>b, ServedRequestIsKnown
<1>c. ASSUME main.req = 0, main'.req = 0, main'.at \in {"top", "recv"},
             UNCHANGED <<turns, engine, pending, replied>>
      PROVE  MainServesARequest' /\ Tasks'
  <2>1. \A t \in Ids : ~Waits(t)
    BY <1>0, <1>c DEF Waits
  <2>2. TasksBelong'
    BY <1>c, <2>1 DEF TasksBelong, Tasks
  <2>3. LiveTurnsBelong'
    BY <1>a, <1>c, <2>1 DEF LiveTurnsBelong, Tasks, Alive
  <2>4. PendingFits'
    BY <1>0, <1>a, <1>c DEF PendingFits, Tasks
  <2>5. EngineIsHeld'
    BY <1>c DEF EngineIsHeld, Tasks, Runs
  <2> QED
    BY <1>c, <2>2, <2>3, <2>4, <2>5 DEF MainServesARequest, Tasks
<1>1. CASE ServeDeferred
  <2>1. main.req = 0
    BY <1>1 DEF ServeDeferred, MainServesARequest
  <2>2. CASE Head(deferred).type = "answer"
    BY <1>1, <1>c, <2>1, <2>2 DEF ServeDeferred
  <2>3. CASE Head(deferred).type # "answer"
    <3>1. /\ Head(deferred).id \in Ids /\ Head(deferred).id \in 1..Len(requests)
          /\ Serve(Head(deferred).id, readers)
      BY <1>1, <2>3, ReadRequestIsKnown DEF ServeDeferred
    <3> QED
      BY <1>0, <2>1, <3>1, ServeKeepsTasks
  <2> QED
    BY <2>2, <2>3
<1>2. CASE LockLines
  BY <1>2, <1>c DEF LockLines, MainServesARequest
<1>3. CASE Receive
  <2>1. main.req = 0
    BY <1>3 DEF Receive, MainServesARequest
  <2>2. CASE Head(stdin).type = "answer"
    BY <1>3, <1>c, <2>1, <2>2 DEF Receive, Top
  <2>3. CASE Head(stdin).type # "answer"
    <3>1. /\ Head(stdin).id \in Ids /\ Head(stdin).id \in 1..Len(requests)
          /\ Serve(Head(stdin).id, Tail(readers))
      BY <1>3, <2>3, ReadRequestIsKnown DEF Receive
    <3> QED
      BY <1>0, <2>1, <3>1, ServeKeepsTasks
  <2> QED
    BY <2>2, <2>3
<1>d. ASSUME main.req # 0, NEW type, Respond(type, main.req), main' = Top,
             engine' = engine, pending' = pending,
             \A t \in Ids : /\ turns'[t] # "none" => turns[t] # "none"
                            /\ Alive(t)' => Alive(t) /\ pending[Session(t)] = t
                            /\ Runs(t)' <=> Runs(t)
      PROVE  MainServesARequest' /\ Tasks'
  <2>1. /\ Times(main.req, replied') # 0
        /\ \A t : Times(t, replied) # 0 => Times(t, replied') # 0
    BY <1>b, <1>d, RespondedGrows
  <2>2. TasksBelong'
    BY <1>d, <2>1 DEF TasksBelong, Tasks, Waits
  <2>3. LiveTurnsBelong'
    BY <1>a, <1>d DEF LiveTurnsBelong
  <2>4. PendingFits'
    BY <1>0, <1>a, <1>d DEF PendingFits, Tasks, Top
  <2>5. EngineIsHeld'
    BY <1>d DEF EngineIsHeld, Tasks
  <2> QED
    BY <1>d, <2>2, <2>3, <2>4, <2>5 DEF MainServesARequest, Tasks, Top
<1>4. CASE LockEngine
  <2>1. main.at = "engine" /\ main.req # 0 /\ engine = 0
    BY <1>4 DEF LockEngine, MainServesARequest
  <2>2. \A t \in Ids : ~Waits(t)
    BY <2>1 DEF Waits
  <2>3. CASE requests[main.req].op = "cancel"
    <3>1. /\ Respond("result", main.req) /\ main' = Top
          /\ UNCHANGED <<turns, engine, pending>>
      BY <1>4, <2>3 DEF LockEngine
    <3>2. \A t \in Ids : /\ turns'[t] # "none" => turns[t] # "none"
                         /\ Alive(t)' => Alive(t) /\ pending[Session(t)] = t
                         /\ Runs(t)' <=> Runs(t)
      BY <2>2, <3>1 DEF Alive, Runs, LiveTurnsBelong, Tasks
    <3> QED
      BY <1>d, <2>1, <3>1, <3>2
  <2>4. CASE requests[main.req].op # "cancel"
    <3>1. /\ turns' = [turns EXCEPT ![main.req] = "queued"]
          /\ main'.at = "turn" /\ main'.req = main.req
          /\ UNCHANGED <<engine, pending, replied>>
      BY <1>4, <2>4 DEF LockEngine, At, TypeOK
    <3>2. turns[main.req] = "none" /\ pending[Session(main.req)] = 0
      BY <1>b, <2>1, <2>2 DEF TasksBelong, PendingFits, Tasks
    <3>3. /\ turns'[main.req] = "queued" /\ Waits(main.req)'
          /\ \A t \in Ids : t # main.req => turns'[t] = turns[t]
      BY <1>0, <1>b, <2>1, <3>1 DEF Waits
    <3>4. TasksBelong'
      BY <2>2, <3>1, <3>3 DEF TasksBelong, Tasks
    <3>5. LiveTurnsBelong'
      BY <1>a, <2>2, <3>1, <3>3 DEF LiveTurnsBelong, Tasks, Alive
    <3>6. PendingFits'
      BY <1>0, <1>a, <3>1, <3>2 DEF PendingFits, Tasks
    <3>7. EngineIsHeld'
      BY <3>1, <3>2, <3>3 DEF EngineIsHeld, Tasks, Runs
    <3> QED
      BY <2>1, <3>1, <3>4, <3>5, <3>6, <3>7 DEF MainServesARequest, Tasks
  <2> QED
    BY <2>3, <2>4
<1>5. CASE TurnReturns
  <2>1. /\ main.req # 0 /\ main.at = "turn" /\ turns[main.req] = "done"
        /\ Respond("result", main.req) /\ main' = Top
        /\ turns' = [turns EXCEPT ![main.req] = "over"]
        /\ UNCHANGED <<engine, pending>>
    BY <1>5 DEF TurnReturns, MainServesARequest, At
  <2>2. \A t \in Ids : /\ turns'[t] # "none" => turns[t] # "none"
                       /\ Alive(t)' => Alive(t) /\ t # main.req
                       /\ Runs(t)' <=> Runs(t)
    BY <1>0, <2>1 DEF Alive, Runs
  <2>3. \A t \in Ids : Alive(t)' => Alive(t) /\ pending[Session(t)] = t
    BY <2>2 DEF LiveTurnsBelong, Tasks, Waits
  <2> QED
    BY <1>d, <2>1, <2>2, <2>3
<1>6. CASE WriteWorking
  <2>1. /\ main.req # 0 /\ main.at = "yielded"
        /\ Respond("working", main.req) /\ main' = Top
        /\ UNCHANGED <<turns, engine, pending>>
    BY <1>6 DEF WriteWorking, MainServesARequest
  <2>2. pending[Session(main.req)] = main.req
    BY <2>1 DEF PendingFits, Tasks
  <2>3. \A t \in Ids : /\ turns'[t] # "none" => turns[t] # "none"
                       /\ Alive(t)' => Alive(t) /\ pending[Session(t)] = t
                       /\ Runs(t)' <=> Runs(t)
    BY <2>1, <2>2 DEF Alive, Runs, LiveTurnsBelong, Tasks, Waits
  <2> QED
    BY <1>d, <2>1, <2>3
<1>7. CASE DeadlinePasses
  <2> DEFINE s == Session(main.req)
  <2>1. /\ main.req # 0 /\ main.at = "turn" /\ main'.at = "yielded"
        /\ main'.req = main.req
        /\ pending' = [pending EXCEPT ![s] = main.req]
        /\ UNCHANGED <<turns, engine, replied>>
    BY <1>7 DEF DeadlinePasses, MainServesARequest, TypeOK, Session
  <2>2. pending[s] = 0 /\ s \in Sessions /\ main.req \in Ids
    BY <1>b, <2>1 DEF PendingFits, Tasks
  <2>3. main.req <= Len(requests)
    BY <1>b, <2>1
  <2>4. Session(main.req) = s
    OBVIOUS
  <2> HIDE DEF s
  <2>5. pending'[s] = main.req /\ \A x \in Sessions : x # s => pending'[x] = pending[x]
    BY <1>0, <2>1, <2>2
  <2>6. TasksBelong'
    BY <2>1 DEF TasksBelong, Tasks, Waits
  <2>7. LiveTurnsBelong'
    <3> SUFFICES ASSUME NEW t \in Ids, Alive(t)
                 PROVE  Waits(t)' \/ pending'[Session(t)] = t
      BY <1>a, <2>1 DEF LiveTurnsBelong, Alive
    <3>1. CASE Waits(t)
      BY <2>1, <3>1 DEF Waits
    <3>2. CASE pending[Session(t)] = t
      <4>1. Session(t) # s
        BY <1>0, <2>2, <3>2
      <4>2. pending'[Session(t)] = pending[Session(t)]
        BY <1>0, <2>1, <4>1
      <4> QED
        BY <3>2, <4>2
    <3> QED
      BY <3>1, <3>2 DEF LiveTurnsBelong, Tasks
  <2>8. PendingFits'
    <3>1. \A x \in Sessions : pending'[x] # 0 =>
             pending'[x] <= Len(requests) /\ Session(pending'[x]) = x
      BY <2>3, <2>4, <2>5 DEF PendingFits, Tasks
    <3> QED
      BY <1>0, <1>a, <2>1, <2>4, <2>5, <3>1 DEF PendingFits
  <2>9. EngineIsHeld'
    BY <2>1 DEF EngineIsHeld, Tasks, Runs
  <2> QED
    BY <2>1, <2>6, <2>7, <2>8, <2>9 DEF MainServesARequest, Tasks
<1> QED
  BY <1>1, <1>2, <1>3, <1>4, <1>5, <1>6, <1>7 DEF MainStep

LEMMA TurnKeepsTasks ==
    ASSUME TypeOK, MainServesARequest, Tasks, NEW t \in Ids, TurnStep(t)
    PROVE  MainServesARequest' /\ Tasks'
<1>0. turns \in [Ids -> Points] /\ 0 \notin Ids /\ engine \in {0} \cup Ids
  BY DaemonAssumption DEF TypeOK, Ids
<1>1. UNCHANGED <<main, pending, replied, requests>>
  BY DEF TurnStep, Start, Ask, Listen, TimeOut, End, Report
<1>2. \A u \in Ids : /\ turns'[u] # "none" => turns[u] # "none"
                     /\ Alive(u)' => Alive(u)
  BY <1>0 DEF TurnStep, Start, Ask, Listen, TimeOut, End, Report, At, Alive
<1>3. \A u \in Ids : engine' = u <=> Runs(u)'
  <2>1. \A u \in Ids : engine = u <=> Runs(u)
    BY DEF Tasks, EngineIsHeld
  <2>2. CASE Start(t)
    <3>1. engine = 0 /\ engine' = t /\ turns' = [turns EXCEPT ![t] = "running"]
      BY <2>2 DEF Start, At
    <3> QED
      BY <1>0, <2>1, <3>1 DEF Runs
  <2>3. CASE Ask(t) \/ TimeOut(t) \/ Listen(t)
    <3>1. /\ engine' = engine /\ Runs(t)
          /\ \/ turns' = turns
             \/ turns' = [turns EXCEPT ![t] = "asking"]
             \/ turns' = [turns EXCEPT ![t] = "answered"]
      BY <2>3 DEF Ask, TimeOut, Listen, Runs, At
    <3> QED
      BY <1>0, <2>1, <3>1 DEF Runs
  <2>4. CASE End(t)
    <3>1. engine' = 0 /\ Runs(t) /\ turns' = [turns EXCEPT ![t] = "done"]
      BY <2>4 DEF End, Runs, At
    <3>2. engine = t
      BY <2>1, <3>1
    <3> QED
      BY <1>0, <2>1, <3>1, <3>2 DEF Runs
  <2>5. CASE Report(t)
    <3>1. engine' = engine /\ ~Runs(t) /\ turns' = [turns EXCEPT ![t] = "over"]
      BY <2>5 DEF Report, Runs, At
    <3> QED
      BY <1>0, <2>1, <3>1 DEF Runs
  <2> QED
    BY <2>2, <2>3, <2>4, <2>5 DEF TurnStep
<1>4. MainServesARequest'
  BY <1>1 DEF MainServesARequest
<1>5. TasksBelong'
  BY <1>1, <1>2 DEF TasksBelong, Tasks, Waits
<1>6. LiveTurnsBelong'
  BY <1>1, <1>2 DEF LiveTurnsBelong, Tasks, Waits, Session
<1>7. PendingFits'
  BY <1>1 DEF PendingFits, Tasks, Session
<1>8. EngineIsHeld'
  BY <1>3 DEF EngineIsHeld
<1> QED
  BY <1>4, <1>5, <1>6, <1>7, <1>8 DEF Tasks

\* A request more leaves the earlier ones what they were.
LEMMA EditorKeepsTasks ==
    ASSUME TypeOK, PlacesAreKnown, MainServesARequest, Tasks, ReadersWaitForALine,
           Send \/ UserDecides \/ Deliver
    PROVE  MainServesARequest' /\ Tasks' /\ ReadersWaitForALine'
<1>1. UNCHANGED <<main, turns, engine, pending, replied, readers>>
  BY DEF Send, UserDecides, Deliver
<1>2. /\ Len(requests) \in Nat /\ Len(requests') \in Nat
      /\ Len(requests') >= Len(requests)
      /\ \A t \in 1..Len(requests) : requests'[t] = requests[t]
  <2>1. requests' = requests \/
          \E s \in Sessions, op \in Ops :
             requests' = Append(requests, [op |-> op, session |-> s])
    BY DEF Send, UserDecides, Deliver
  <2>2. requests \in Seq([op : Ops, session : Sessions])
    BY DEF TypeOK
  <2>3. CASE requests' = requests
    BY <2>2, <2>3, LenProperties
  <2>4. CASE requests' # requests
    <3>1. PICK s \in Sessions, op \in Ops :
             requests' = Append(requests, [op |-> op, session |-> s])
      BY <2>1, <2>4
    <3>2. [op |-> op, session |-> s] \in [op : Ops, session : Sessions]
      OBVIOUS
    <3>3. /\ Len(requests') = Len(requests) + 1
          /\ \A t \in 1..Len(requests) : requests'[t] = requests[t]
      BY <2>2, <3>1, <3>2, AppendProperties
    <3> QED
      BY <2>2, <3>3, LenProperties
  <2> QED
    BY <2>3, <2>4
<1>3. \A t \in 1..Len(requests) : Session(t)' = Session(t)
  BY <1>2 DEF Session
<1>4. main.req # 0 => main.req \in 1..Len(requests)
  BY ServedRequestIsKnown
<1>5. MainServesARequest' /\ TasksBelong' /\ EngineIsHeld' /\ ReadersWaitForALine'
  BY <1>1 DEF MainServesARequest, TasksBelong, EngineIsHeld, ReadersWaitForALine,
              Tasks, Waits, Runs
<1>6. LiveTurnsBelong'
  <2> SUFFICES ASSUME NEW t \in Ids, Alive(t)
               PROVE  Waits(t)' \/ pending[Session(t)'] = t
    BY <1>1 DEF LiveTurnsBelong, Alive
  <2>1. t \in 1..Len(requests)
    BY TaskIsKnown DEF Alive, Tasks
  <2> QED
    BY <1>1, <1>3, <2>1 DEF LiveTurnsBelong, Tasks, Waits
<1>7. PendingFits'
  <2>1. main.at \in {"engine", "turn", "yielded"} => main.req \in 1..Len(requests)
    BY <1>4 DEF MainServesARequest
  <2>2. \A s \in Sessions : pending[s] # 0 => pending[s] \in 1..Len(requests)
    <3> SUFFICES ASSUME NEW s \in Sessions, pending[s] # 0
                 PROVE  pending[s] \in 1..Len(requests)
      OBVIOUS
    <3>1. pending[s] \in Ids /\ pending[s] <= Len(requests)
      BY DEF PendingFits, Tasks, TypeOK
    <3> QED
      BY <1>2, <3>1, DaemonAssumption DEF Ids
  <2>3. \A s \in Sessions : pending[s] # 0 =>
           pending[s] <= Len(requests') /\ Session(pending[s])' = s
    <3> SUFFICES ASSUME NEW s \in Sessions, pending[s] # 0
                 PROVE  pending[s] <= Len(requests') /\ Session(pending[s])' = s
      OBVIOUS
    <3>1. pending[s] \in 1..Len(requests) /\ Session(pending[s]) = s
      BY <2>2 DEF PendingFits, Tasks
    <3>2. Session(pending[s])' = s
      BY <1>2, <3>1, <1>1 DEF Session
    <3> QED
      BY <1>2, <3>1, <3>2
  <2>4. main.req \in 1..Len(requests) => Session(main.req)' = Session(main.req)
    BY <1>1, <1>2 DEF Session
  <2> QED
    BY <1>1, <2>1, <2>3, <2>4 DEF PendingFits, Tasks
<1> QED
  BY <1>5, <1>6, <1>7 DEF Tasks

-----------------------------------------------------------------------------
(***************************************************************************)
(* The theorems                                                            *)
(***************************************************************************)
LEMMA DaemonStarts == Init => DInv
<1> SUFFICES ASSUME Init PROVE DInv
  OBVIOUS
<1>0. /\ requests = <<>> /\ stdin = <<>> /\ deferred = <<>> /\ readers = <<>>
      /\ main = Top /\ turns = [t \in Ids |-> "none"] /\ engine = 0
      /\ pending = [s \in Sessions |-> 0] /\ stdout = <<>> /\ replied = <<>>
  BY DEF Init
<1>a. MaxRequests \in Nat /\ \A x \in Ids : x \in Nat \ {0}
  BY DaemonAssumption DEF Ids
<1>b. Len(<<>>) = 0 /\ \A S : <<>> \in Seq(S)
  BY EmptySeq
<1>1. TypeOK
  BY <1>b DEF Init, TypeOK, Points, Top
<1>2. PlacesAreKnown
  <2>1. \A x : Times(x, <<>>) = 0
    BY TimesInEmpty
  <2>2. ASSUME NEW id \in Ids PROVE Places(id) = 0
    BY <1>0, <1>a, <2>1 DEF Places, Top
  <2>3. \A id \in Ids : ~(id <= 0)
    BY <1>a
  <2> QED
    BY <1>0, <1>a, <1>b, <2>2, <2>3 DEF PlacesAreKnown
<1>3. MainServesARequest
  BY <1>0 DEF MainServesARequest, Top
<1>4. Tasks
  BY <1>0, <1>a DEF Tasks, TasksBelong, LiveTurnsBelong, PendingFits,
                    EngineIsHeld, Alive, Runs, Top
<1>5. ReadersWaitForALine
  BY <1>0, <1>a, <1>b DEF ReadersWaitForALine, Top, Main
<1> QED
  BY <1>1, <1>2, <1>3, <1>4, <1>5 DEF DInv

LEMMA DaemonSteps == ASSUME DInv, [Next]_vars PROVE DInv'
<1> USE DEF DInv
<1>1. CASE MainStep \/ DeadlinePasses
  <2>1. TypeOK' /\ ReadersWaitForALine'
    BY <1>1, MainKeepsTypes, MainKeepsReaders DEF Tasks
  <2>2. MainServesARequest' /\ Tasks'
    BY <1>1, MainKeepsTasks
  <2>3. PlacesAreKnown'
    <3>1. requests' = requests
      BY <1>1 DEF MainStep, ServeDeferred, LockLines, Receive, LockEngine,
                  TurnReturns, WriteWorking, DeadlinePasses
    <3>2. \A x \in Ids : Places(x)' = Places(x)
      BY <1>1, MainKeepsPlaces
    <3> QED
      BY <3>1, <3>2 DEF PlacesAreKnown
  <2> QED
    BY <2>1, <2>2, <2>3
<1>2. ASSUME NEW t \in Ids, TurnStep(t) PROVE DInv'
  <2>1. TypeOK' /\ ReadersWaitForALine'
    BY <1>2, TurnKeepsTypes, TurnKeepsReaders
  <2>2. MainServesARequest' /\ Tasks'
    BY <1>2, TurnKeepsTasks
  <2>3. PlacesAreKnown'
    <3>1. requests' = requests
      BY <1>2 DEF TurnStep, Start, Ask, Listen, TimeOut, End, Report
    <3>2. \A x \in Ids : Places(x)' = Places(x)
      BY <1>2, TurnKeepsPlaces
    <3> QED
      BY <3>1, <3>2 DEF PlacesAreKnown
  <2> QED
    BY <2>1, <2>2, <2>3
<1>3. CASE Send \/ UserDecides \/ Deliver
  BY <1>3, EditorKeepsTypes, EditorKeepsPlaces, EditorKeepsTasks
<1>4. CASE UNCHANGED vars
  <2>1. UNCHANGED <<requests, stdin, deferred, readers, main, turns, engine, pending,
                    stdout, replied, gate, view, current>>
    BY <1>4 DEF vars
  <2>2. TypeOK'
    BY <2>1 DEF TypeOK
  <2>3. PlacesAreKnown'
    BY <2>1 DEF PlacesAreKnown, Places, Request
  <2>4. MainServesARequest' /\ Tasks' /\ ReadersWaitForALine'
    BY <2>1 DEF MainServesARequest, Tasks, TasksBelong, LiveTurnsBelong, PendingFits,
                EngineIsHeld, ReadersWaitForALine, Waits, Runs, Alive, Session
  <2> QED
    BY <2>2, <2>3, <2>4
<1> QED
  BY <1>1, <1>2, <1>3, <1>4 DEF Next

\* The inductive invariant holds throughout.
LEMMA DaemonKeepsItsBooks == Spec => []DInv
<1>1. Init => DInv
  BY DaemonStarts
<1>2. DInv /\ [Next]_vars => DInv'
  BY DaemonSteps
<1> QED
  BY <1>1, <1>2, PTL DEF Spec

\* A request the editor sends is never lost nor served twice, whichever of
\* the main loop and the granters reads it from the one channel they share,
\* for any number of sessions, turns and requests.
THEOREM EveryRequestAlwaysHasOnePlace == Spec => []EveryRequestHasOnePlace
<1>1. DInv => EveryRequestHasOnePlace
  <2> SUFFICES ASSUME DInv, NEW id \in 1..Len(requests) PROVE Places(id) = 1
    BY DEF DInv, EveryRequestHasOnePlace
  <2>1. Len(requests) \in Nat /\ MaxRequests \in Nat /\ Len(requests) <= MaxRequests
    BY LenProperties, DaemonAssumption DEF DInv, TypeOK, PlacesAreKnown
  <2>2. id \in Ids /\ id <= Len(requests)
    BY <2>1 DEF Ids
  <2> QED
    BY <2>2 DEF DInv, PlacesAreKnown
<1> QED
  BY <1>1, DaemonKeepsItsBooks, PTL

\* A session has one live turn, the engine's mutex is a live turn's, and the
\* queue for the channel has those who wait for a line, each once: a turn
\* that is replaced or cancelled leaves nothing taken.
THEOREM TurnsNeverOverlap == Spec => []TurnsDoNotOverlap
<1>1. ASSUME DInv PROVE OneTurnPerSession
  <2> SUFFICES ASSUME NEW t \in 1..Len(requests), NEW u \in 1..Len(requests)
               PROVE  /\ Alive(t) => t \in {main.req, pending[requests[t].session]}
                      /\ Alive(t) /\ Alive(u) /\ requests[t].session = requests[u].session
                           => t = u
    BY DEF OneTurnPerSession
  <2>1. t \in Ids /\ u \in Ids
    BY <1>1, LenProperties, DaemonAssumption DEF Ids, DInv, TypeOK, PlacesAreKnown
  <2>2. \A x \in {t, u} : Alive(x) => Waits(x) \/ pending[Session(x)] = x
    BY <1>1, <2>1 DEF DInv, Tasks, LiveTurnsBelong
  <2>3. \A x \in {t, u} : Waits(x) => pending[Session(x)] \in {0, x}
    BY <1>1 DEF DInv, Tasks, PendingFits, Waits
  <2>4. t # 0 /\ u # 0
    BY <2>1, DaemonAssumption DEF Ids
  <2> QED
    BY <2>2, <2>3, <2>4 DEF Waits, Session
<1>2. DInv => EngineHolderIsAlive
  BY DEF DInv, Tasks, EngineIsHeld, EngineHolderIsAlive, TypeOK, Runs
<1>3. DInv => TurnsDoNotOverlap
  BY <1>1, <1>2 DEF TurnsDoNotOverlap, DInv
<1> QED
  BY <1>3, DaemonKeepsItsBooks, PTL
=============================================================================

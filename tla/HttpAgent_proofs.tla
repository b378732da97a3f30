-------------------------- MODULE HttpAgent_proofs --------------------------
(***************************************************************************)
(* That what the HTTP adapter continues is whole: for any number of        *)
(* sessions, kinds of turn, contexts, turns and reads, any cap on the      *)
(* threads, and a server that answers, forgets or fails as it likes.       *)
(***************************************************************************)
EXTENDS HttpAgent, SequenceTheorems, FiniteSetTheorems, TLAPS

Responses == [key : {<<>>} \union ThreadKeys, calls : Seq({"read", "submit"}),
              knows : SUBSET Contexts]
Requests == [chain : Responses, answers : SUBSET Nat, sends : BOOLEAN]
Threads == [response : Responses, calls : SUBSET Nat, ctx : Contexts]
Points == Ended \union {"asking", "sent", "reading", "answered", "expired"}
TurnRecords ==
    [session : Sessions, conv : Convs, ctx : Contexts, pc : Points, request : Requests,
     restartable : BOOLEAN, tools : 0 .. MaxToolCalls, response : Responses,
     cancelled : BOOLEAN, reads : Nat, requests : Nat]

\* A response was given in this thread, whose chain has been told the context.
Continues(r, key, ctx) == r.key = key /\ ctx \in r.knows

\* What is on its way to the server can be answered from what it stored.
SentFits(u) ==
    /\ u.request.sends \/ u.ctx \in u.request.chain.knows
    /\ u.request.answers = DOMAIN u.request.chain.calls
    /\ u.request.chain # NoResponse => u.request.chain.key = ThreadKey(u)

\* The reads are counted down from the budget, a request was made per read,
\* and a chain is restarted once, before anything was read.
Counted(u) ==
    /\ u.pc = "sent" =>
          /\ u.reads + u.tools = ToolsAllowed(u.conv)
          /\ u.requests <= u.reads + 2
          /\ u.restartable => u.requests = 1 /\ u.reads = 0
    /\ u.pc = "reading" =>
          /\ u.reads + u.tools = ToolsAllowed(u.conv) + 1 /\ 1 <= u.tools
          /\ u.requests <= u.reads + 1 /\ ~u.restartable
    /\ u.pc = "answered" =>
          u.reads <= ToolsAllowed(u.conv) /\ u.requests <= u.reads + 2
    /\ u.pc \notin {"sent", "reading", "answered"} => u.reads = 0 /\ u.requests = 0

TurnFits(u) ==
    /\ u.pc = "sent" => SentFits(u)
    /\ u.pc \in {"reading", "answered"} => Continues(u.response, ThreadKey(u), u.ctx)
    /\ Counted(u)

\* A thread answers all calls of its last response, and its context is told.
ThreadFits(key, thread) ==
    /\ thread \in Threads
    /\ thread.calls = DOMAIN thread.response.calls
    /\ Continues(thread.response, key, thread.ctx)

TurnsFit == \A t \in DOMAIN turns : TurnFits(turns[t])
ThreadsFit == \A key \in DOMAIN threads : ThreadFits(key, threads[key])
ActiveFits == active = {t \in DOMAIN turns : LiveTurn(t)}
Ordered ==
    /\ order \in Seq(ThreadKeys) /\ IsInjective(order) /\ Range(order) = DOMAIN threads
    /\ IsFiniteSet(DOMAIN threads) /\ Cardinality(DOMAIN threads) <= MaxThreads

HInv == turns \in Seq(TurnRecords) /\ TurnsFit /\ ActiveFits /\ ThreadsFit /\ Ordered

-----------------------------------------------------------------------------
(***************************************************************************)
(* The order of the threads                                                *)
(***************************************************************************)
\* One position is taken out of a sequence.
LEMMA RemoveAtProperties ==
    ASSUME NEW S, NEW s \in Seq(S), NEW i \in 1 .. Len(s)
    PROVE  /\ RemoveAt(s, i) \in Seq(S) /\ Len(RemoveAt(s, i)) = Len(s) - 1
           /\ \A j \in 1 .. Len(s) - 1 :
                 RemoveAt(s, i)[j] = IF j < i THEN s[j] ELSE s[j + 1]
<1> DEFINE front == SubSeq(s, 1, i - 1)
           back == SubSeq(s, i + 1, Len(s))
<1>1. Len(s) \in Nat /\ i \in Int /\ \A j \in 1 .. Len(s) : s[j] \in S
  BY LenProperties, ElementOfSeq
<1>2. /\ front \in Seq(S) /\ Len(front) = i - 1
      /\ \A j \in 1 .. i - 1 : front[j] = s[j]
  <2>1. \A j \in 1 .. i - 1 : s[j] \in S
    BY <1>1
  <2>2. /\ front \in Seq(S) /\ Len(front) = IF 1 <= i - 1 THEN (i - 1) - 1 + 1 ELSE 0
        /\ \A j \in 1 .. (i - 1) - 1 + 1 : front[j] = s[1 + j - 1]
    BY <1>1, <2>1, SubSeqProperties
  <2> HIDE DEF front
  <2> QED
    BY <1>1, <2>2
<1>3. /\ back \in Seq(S) /\ Len(back) = Len(s) - i
      /\ \A j \in 1 .. Len(s) - i : back[j] = s[i + j]
  <2>1. \A j \in i + 1 .. Len(s) : s[j] \in S
    BY <1>1
  <2>2. /\ back \in Seq(S)
        /\ Len(back) = IF i + 1 <= Len(s) THEN Len(s) - (i + 1) + 1 ELSE 0
        /\ \A j \in 1 .. Len(s) - (i + 1) + 1 : back[j] = s[(i + 1) + j - 1]
    BY <1>1, <2>1, SubSeqProperties
  <2> HIDE DEF back
  <2> QED
    BY <1>1, <2>2
<1>4. RemoveAt(s, i) = front \o back
  BY DEF RemoveAt
<1> HIDE DEF front, back
<1>5. /\ front \o back \in Seq(S) /\ Len(front \o back) = Len(front) + Len(back)
      /\ \A j \in 1 .. Len(front) + Len(back) : (front \o back)[j] =
             IF j <= Len(front) THEN front[j] ELSE back[j - Len(front)]
  BY <1>2, <1>3, ConcatProperties
<1>6. Len(front) + Len(back) = Len(s) - 1
  BY <1>1, <1>2, <1>3
<1>7. ASSUME NEW j \in 1 .. Len(s) - 1
      PROVE  (front \o back)[j] = IF j < i THEN s[j] ELSE s[j + 1]
  <2>1. CASE j < i
    BY <1>1, <1>2, <1>5, <1>6, <2>1
  <2>2. CASE ~(j < i)
    <3>1. j - (i - 1) \in 1 .. Len(s) - i /\ i + (j - (i - 1)) = j + 1
      BY <1>1, <2>2
    <3>2. (front \o back)[j] = back[j - (i - 1)]
      BY <1>1, <1>2, <1>5, <1>6, <2>2
    <3> QED
      BY <1>3, <2>2, <3>1, <3>2
  <2> QED
    BY <2>1, <2>2
<1> QED
  BY <1>4, <1>5, <1>6, <1>7

\* retain: the key is gone, the others stay, each once.
LEMMA UnorderedKeeps ==
    ASSUME NEW S, order \in Seq(S), IsInjective(order), NEW key
    PROVE  /\ Unordered(key) \in Seq(S) /\ IsInjective(Unordered(key))
           /\ Range(Unordered(key)) = Range(order) \ {key}
<1>1. Len(order) \in Nat /\ DOMAIN order = 1 .. Len(order)
  BY LenProperties
<1>2. CASE \A i \in DOMAIN order : order[i] # key
  BY <1>2 DEF Unordered, Range
<1>3. CASE \E i \in DOMAIN order : order[i] = key
  <2> DEFINE k == CHOOSE i \in DOMAIN order : order[i] = key
             rest == RemoveAt(order, k)
  <2>1. k \in 1 .. Len(order) /\ order[k] = key
    BY <1>1, <1>3
  <2>2. Unordered(key) = rest
    BY <1>3 DEF Unordered
  <2> HIDE DEF k
  <2>3. /\ rest \in Seq(S) /\ Len(rest) = Len(order) - 1
        /\ \A j \in 1 .. Len(order) - 1 :
              rest[j] = IF j < k THEN order[j] ELSE order[j + 1]
    BY <2>1, RemoveAtProperties
  <2> HIDE DEF rest
  <2>4. DOMAIN rest = 1 .. Len(order) - 1
    BY <2>3, LenProperties
  <2> DEFINE place(j) == IF j < k THEN j ELSE j + 1
  <2>5. \A j \in DOMAIN rest : place(j) \in DOMAIN order /\ place(j) # k
                              /\ rest[j] = order[place(j)]
    BY <1>1, <2>1, <2>3, <2>4
  <2>6. \A i, j \in DOMAIN rest : place(i) = place(j) => i = j
    BY <1>1, <2>1, <2>4
  <2>7. \A i \in DOMAIN order : i # k => \E j \in DOMAIN rest : place(j) = i
    <3> SUFFICES ASSUME NEW i \in DOMAIN order, i # k
                 PROVE  \E j \in DOMAIN rest : place(j) = i
      OBVIOUS
    <3>1. CASE i < k
      <4>1. i \in DOMAIN rest /\ place(i) = i
        BY <1>1, <2>1, <2>4, <3>1
      <4> QED
        BY <4>1
    <3>2. CASE k < i
      <4>1. i - 1 \in DOMAIN rest /\ place(i - 1) = i
        BY <1>1, <2>1, <2>4, <3>2
      <4> QED
        BY <4>1
    <3> QED
      BY <1>1, <2>1, <3>1, <3>2
  <2> HIDE DEF place
  <2>8. IsInjective(rest)
    BY <2>5, <2>6 DEF IsInjective
  <2>9. Range(rest) = Range(order) \ {key}
    <3>1. \A i \in DOMAIN order : order[i] = key => i = k
      BY <1>1, <2>1 DEF IsInjective
    <3> QED
      BY <2>1, <2>5, <2>7, <3>1 DEF Range
  <2> QED
    BY <2>2, <2>3, <2>8, <2>9
<1> QED
  BY <1>2, <1>3

\* What is left of an order when its first n keys are given up.
LEMMA SuffixKeeps ==
    ASSUME NEW S, NEW s \in Seq(S), IsInjective(s), NEW n \in 0 .. Len(s)
    PROVE  /\ SubSeq(s, n + 1, Len(s)) \in Seq(S)
           /\ IsInjective(SubSeq(s, n + 1, Len(s)))
           /\ Range(SubSeq(s, n + 1, Len(s))) = Range(s) \ Range(SubSeq(s, 1, n))
<1> DEFINE left == SubSeq(s, n + 1, Len(s))
           gone == SubSeq(s, 1, n)
<1>0. Len(s) \in Nat /\ n \in Nat /\ n <= Len(s)
  BY LenProperties
<1>1. /\ Len(s) \in Nat /\ n \in Int /\ DOMAIN s = 1 .. Len(s)
      /\ \A i \in 1 .. Len(s) : s[i] \in S
  BY LenProperties, ElementOfSeq
<1>2. left \in Seq(S) /\ DOMAIN left = 1 .. Len(s) - n
      /\ \A i \in 1 .. Len(s) - n : left[i] = s[n + i]
  <2>1. \A i \in n + 1 .. Len(s) : s[i] \in S
    BY <1>1
  <2>2. /\ left \in Seq(S)
        /\ Len(left) = IF n + 1 <= Len(s) THEN Len(s) - (n + 1) + 1 ELSE 0
        /\ \A i \in 1 .. Len(s) - (n + 1) + 1 : left[i] = s[(n + 1) + i - 1]
    BY <1>1, <2>1, SubSeqProperties
  <2> HIDE DEF left
  <2>3. Len(left) = Len(s) - n
    <3>1. CASE n + 1 <= Len(s)
      BY <1>1, <2>2, <3>1
    <3>2. CASE n = Len(s)
      BY <1>1, <2>2, <3>2
    <3>3. n + 1 <= Len(s) \/ n = Len(s)
      BY <1>0
    <3> QED
      BY <3>1, <3>2, <3>3
  <2>4. DOMAIN left = 1 .. Len(left)
    BY <2>2, LenProperties
  <2>5. Len(s) - (n + 1) + 1 = Len(s) - n /\ \A i \in 1 .. Len(s) - n : (n + 1) + i - 1 = n + i
    BY <1>1
  <2> QED
    BY <2>2, <2>3, <2>4, <2>5
<1>3. DOMAIN gone = 1 .. n /\ \A i \in 1 .. n : gone[i] = s[i]
  <2>1. \A i \in 1 .. n : s[i] \in S
    BY <1>1
  <2>2. /\ gone \in Seq(S) /\ Len(gone) = IF 1 <= n THEN n - 1 + 1 ELSE 0
        /\ \A i \in 1 .. n - 1 + 1 : gone[i] = s[1 + i - 1]
    BY <1>1, <2>1, SubSeqProperties
  <2> HIDE DEF gone
  <2>3. Len(gone) = n /\ DOMAIN gone = 1 .. Len(gone)
    BY <1>1, <2>2, LenProperties
  <2> QED
    BY <1>1, <2>2, <2>3
<1> HIDE DEF left, gone
<1>4. IsInjective(left)
  <2> SUFFICES ASSUME NEW i \in 1 .. Len(s) - n, NEW j \in 1 .. Len(s) - n, left[i] = left[j]
               PROVE  i = j
    BY <1>2 DEF IsInjective
  <2>1. n + i \in DOMAIN s /\ n + j \in DOMAIN s /\ s[n + i] = s[n + j]
    BY <1>1, <1>2
  <2>2. n + i = n + j
    BY <2>1 DEF IsInjective
  <2> QED
    BY <1>1, <2>2
<1>5. Range(left) \subseteq Range(s) \ Range(gone)
  <2> SUFFICES ASSUME NEW i \in DOMAIN left
               PROVE  left[i] \in Range(s) /\ left[i] \notin Range(gone)
    BY DEF Range
  <2>1. n + i \in DOMAIN s /\ left[i] = s[n + i]
    BY <1>1, <1>2
  <2>2. \A j \in DOMAIN gone : j \in DOMAIN s /\ j # n + i /\ gone[j] = s[j]
    BY <1>1, <1>2, <1>3
  <2> QED
    BY <2>1, <2>2 DEF Range, IsInjective
<1>6. Range(s) \ Range(gone) \subseteq Range(left)
  <2> SUFFICES ASSUME NEW i \in DOMAIN s, s[i] \notin Range(gone)
               PROVE  s[i] \in Range(left)
    BY DEF Range
  <2>1. i \notin 1 .. n
    BY <1>3 DEF Range
  <2>2. i - n \in DOMAIN left /\ left[i - n] = s[i]
    BY <1>1, <1>2, <2>1
  <2> QED
    BY <2>2 DEF Range
<1> QED
  BY <1>2, <1>4, <1>5, <1>6 DEF left, gone

\* A set of natural numbers has its Min.
LEMMA MinIsIn ==
    ASSUME NEW T, T \subseteq Nat, T # {}
    PROVE  Min(T) \in T
<1>1. PICK x \in T : \A y \in T : ~ (<<y, x>> \in OpToRel(<, Nat))
  BY NatLessThanWellFounded, WFMin
<1>2. \A y \in T : ~(y < x)
  BY <1>1, Zenon DEF OpToRel
<1>3. \A y \in T : x <= y
  BY <1>2
<1> QED
  BY <1>3 DEF Min

-----------------------------------------------------------------------------
(***************************************************************************)
(* The book-keeping                                                        *)
(***************************************************************************)
\* BackendState::remove.
LEMMA ForgetKeeps ==
    ASSUME Ordered, ThreadsFit, NEW key, Forget(key)
    PROVE  Ordered' /\ ThreadsFit'
<1>1. /\ DOMAIN threads' = DOMAIN threads \ {key}
      /\ \A k \in DOMAIN threads' : threads'[k] = threads[k]
      /\ order' = Unordered(key)
  BY DEF Forget, Without
<1>2. ThreadsFit'
  BY <1>1 DEF ThreadsFit
<1>3. order' \in Seq(ThreadKeys) /\ IsInjective(order') /\ Range(order') = DOMAIN threads'
  BY <1>1, UnorderedKeeps DEF Ordered
<1>4. /\ IsFiniteSet(DOMAIN threads')
      /\ Cardinality(DOMAIN threads') <= Cardinality(DOMAIN threads)
  <2>1. DOMAIN threads' \in SUBSET DOMAIN threads
    BY <1>1
  <2> QED
    BY <2>1, FS_Subset DEF Ordered
<1>5. Cardinality(DOMAIN threads') \in Nat /\ Cardinality(DOMAIN threads) \in Nat
  BY <1>4, FS_CardinalityType DEF Ordered
<1>6. Cardinality(DOMAIN threads') <= MaxThreads
  BY <1>4, <1>5, HttpAssumption DEF Ordered
<1> QED
  BY <1>2, <1>3, <1>4, <1>6 DEF Ordered

\* BackendState::insert: the new thread is last, and as many of the first
\* make room as it takes.
LEMMA StoreKeeps ==
    ASSUME Ordered, ThreadsFit, NEW key \in ThreadKeys, NEW thread, ThreadFits(key, thread),
           Store(key, thread)
    PROVE  Ordered' /\ ThreadsFit'
<1> DEFINE stored == Append(Unordered(key), key)
           keys == DOMAIN threads \union {key}
           Left(n) == keys \ Range(SubSeq(stored, 1, n))
           counts == {m \in 0 .. Len(stored) : Cardinality(Left(m)) <= MaxThreads}
           n == Min(counts)
<1>1. /\ order' = SubSeq(stored, n + 1, Len(stored))
      /\ threads' = [k \in Left(n) |-> IF k = key THEN thread ELSE threads[k]]
  BY DEF Store
<1>2. /\ Unordered(key) \in Seq(ThreadKeys) /\ IsInjective(Unordered(key))
      /\ Range(Unordered(key)) = DOMAIN threads \ {key}
  BY UnorderedKeeps DEF Ordered
<1>3. stored \in Seq(ThreadKeys) /\ IsInjective(stored) /\ Range(stored) = keys
  <2> DEFINE rest == Unordered(key)
             last == Len(rest) + 1
  <2> HIDE DEF rest
  <2>1. /\ rest \in Seq(ThreadKeys) /\ IsInjective(rest) /\ Range(rest) = DOMAIN threads \ {key}
        /\ Len(rest) \in Nat /\ DOMAIN rest = 1 .. Len(rest)
    BY <1>2, LenProperties DEF rest
  <2>2. /\ stored \in Seq(ThreadKeys) /\ DOMAIN stored = 1 .. last
        /\ stored[last] = key /\ \A i \in 1 .. Len(rest) : stored[i] = rest[i]
    <3>1. /\ Append(rest, key) \in Seq(ThreadKeys) /\ Len(Append(rest, key)) = last
          /\ \A i \in 1 .. Len(rest) : Append(rest, key)[i] = rest[i]
          /\ Append(rest, key)[last] = key
      BY <2>1, AppendProperties
    <3> QED
      BY <3>1, LenProperties DEF rest
  <2> HIDE DEF stored
  <2>3. \A i \in 1 .. last : i = last \/ i \in 1 .. Len(rest)
    BY <2>1
  <2>4. \A i \in 1 .. Len(rest) : rest[i] # key /\ i # last
    <3>1. \A i \in 1 .. Len(rest) : rest[i] \in Range(rest)
      BY <2>1 DEF Range
    <3>2. \A i \in 1 .. Len(rest) : i # last
      BY <2>1
    <3> QED
      BY <2>1, <3>1, <3>2
  <2>5. IsInjective(stored)
    BY <2>1, <2>2, <2>3, <2>4 DEF IsInjective
  <2>6. Range(stored) = Range(rest) \union {key}
    <3>1. last \in 1 .. last /\ \A i \in 1 .. Len(rest) : i \in 1 .. last
      BY <2>1
    <3> QED
      BY <2>1, <2>2, <2>3, <3>1 DEF Range
  <2> QED
    BY <2>1, <2>2, <2>5, <2>6
<1> HIDE DEF stored
<1>4. Len(stored) \in Nat /\ IsFiniteSet(keys)
  BY <1>3, LenProperties, FS_AddElement DEF Ordered
<1>5. n \in counts
  <2>1. Left(Len(stored)) = {}
    <3>1. SubSeq(stored, 1, Len(stored)) = stored
      BY <1>3, SubSeqFull
    <3> QED
      BY <1>3, <3>1
  <2>2. Cardinality(Left(Len(stored))) = 0
    BY <2>1, FS_EmptySet
  <2>3. Len(stored) \in counts
    BY <1>4, <2>2, HttpAssumption
  <2>4. counts \subseteq Nat
    BY <1>4
  <2> HIDE DEF counts
  <2> QED
    BY <2>3, <2>4, MinIsIn
<1> HIDE DEF n
<1>6. n \in 0 .. Len(stored) /\ Cardinality(Left(n)) <= MaxThreads
  BY <1>5
<1>7. /\ order' \in Seq(ThreadKeys) /\ IsInjective(order') /\ Range(order') = Left(n)
  BY <1>1, <1>3, <1>6, SuffixKeeps
<1>8. DOMAIN threads' = Left(n) /\ Left(n) \in SUBSET keys
  BY <1>1
<1>9. IsFiniteSet(Left(n))
  BY <1>4, <1>8, FS_Subset
<1>10. ThreadsFit'
  <2> SUFFICES ASSUME NEW k \in Left(n) PROVE ThreadFits(k, threads'[k])
    BY <1>8 DEF ThreadsFit
  <2>1. CASE k = key
    BY <1>1, <2>1
  <2>2. CASE k # key
    BY <1>1, <2>2 DEF ThreadsFit
  <2> QED
    BY <2>1, <2>2
<1> QED
  BY <1>6, <1>7, <1>8, <1>9, <1>10 DEF Ordered

-----------------------------------------------------------------------------
(***************************************************************************)
(* The turns                                                               *)
(***************************************************************************)
LEMMA EmptyIsTyped == NoResponse \in Responses /\ FullPrompt \in Requests
  BY EmptySeq DEF Responses, NoResponse, Requests, FullPrompt

LEMMA ToolsAreCounted ==
    ASSUME NEW conv
    PROVE  ToolsAllowed(conv) \in 0 .. MaxToolCalls /\ ToolsAllowed(conv) \in Nat
  BY HttpAssumption DEF ToolsAllowed

LEMMA NewTurnIsTyped ==
    ASSUME NEW s \in Sessions, NEW conv \in Convs, NEW ctx \in Contexts
    PROVE  /\ NewTurn(s, conv, ctx) \in TurnRecords /\ TurnFits(NewTurn(s, conv, ctx))
           /\ NewTurn(s, conv, ctx).pc = "asking"
  BY EmptyIsTyped, HttpAssumption DEF NewTurn, TurnRecords, Points, TurnFits, Counted

\* What a finished or expired turn leaves.
LEMMA LeftIsTyped ==
    ASSUME NEW u \in TurnRecords, NEW pc \in Ended \union {"expired"}
    PROVE  LET v == [NewTurn(u.session, u.conv, u.ctx) EXCEPT !.pc = pc]
           IN  v \in TurnRecords /\ TurnFits(v) /\ v.pc = pc
<1> DEFINE w == NewTurn(u.session, u.conv, u.ctx)
           v == [w EXCEPT !.pc = pc]
<1>1. w \in TurnRecords /\ w.reads = 0 /\ w.requests = 0
  BY NewTurnIsTyped DEF TurnRecords, NewTurn
<1>2. pc \in Points /\ pc \notin {"sent", "reading", "answered"}
  BY DEF Points, Ended
<1> HIDE DEF w
<1>3. v \in TurnRecords /\ v.pc = pc /\ v.reads = 0 /\ v.requests = 0
  BY <1>1, <1>2 DEF TurnRecords
<1> QED
  BY <1>2, <1>3 DEF w, TurnFits, Counted

\* A step of a turn that puts u in its place.
LEMMA StepKeeps ==
    ASSUME turns \in Seq(TurnRecords), TurnsFit, ActiveFits,
           NEW t \in DOMAIN turns, NEW u \in TurnRecords, TurnFits(u),
           turns' = [turns EXCEPT ![t] = u],
           \/ active' = active /\ turns[t].pc \notin Ended /\ u.pc \notin Ended
           \/ active' = active \ {t} /\ u.pc \in Ended
    PROVE  turns' \in Seq(TurnRecords) /\ TurnsFit' /\ ActiveFits'
<1>1. DOMAIN turns' = DOMAIN turns /\ turns'[t] = u
      /\ \A v \in DOMAIN turns : v # t => turns'[v] = turns[v]
  OBVIOUS
<1>2. turns' \in Seq(TurnRecords)
  BY ExceptSeq
<1>3. TurnsFit'
  BY <1>1 DEF TurnsFit
<1>4. ActiveFits'
  BY <1>1 DEF ActiveFits, LiveTurn
<1> QED
  BY <1>2, <1>3, <1>4

\* A turn is over, whatever it was doing.
LEMMA FinishesKeeps ==
    ASSUME turns \in Seq(TurnRecords), TurnsFit, ActiveFits,
           NEW t \in DOMAIN turns, NEW pc \in Ended, Finishes(t, pc)
    PROVE  turns' \in Seq(TurnRecords) /\ TurnsFit' /\ ActiveFits'
<1> DEFINE u == turns[t]
           v == [NewTurn(u.session, u.conv, u.ctx) EXCEPT !.pc = pc]
<1>1. u \in TurnRecords
  BY ElementOfSeq, LenProperties
<1>2. v \in TurnRecords /\ TurnFits(v) /\ v.pc = pc
  BY <1>1, LeftIsTyped
<1>3. turns' = [turns EXCEPT ![t] = v] /\ active' = active \ {t}
  BY DEF Finishes
<1> HIDE DEF v, u
<1> QED
  BY <1>2, <1>3, StepKeeps

\* The request of a turn is replaced by one that fits it.
LEMMA SendsKeeps ==
    ASSUME NEW u \in TurnRecords, NEW q \in Requests
    PROVE  LET v == SendsRequest(u, q)
           IN  /\ v \in TurnRecords /\ v.pc = "sent" /\ v.request = q
               /\ v.requests = u.requests + 1 /\ v.reads = u.reads /\ v.tools = u.tools
               /\ v.session = u.session /\ v.conv = u.conv /\ v.ctx = u.ctx
               /\ v.restartable = u.restartable
<1> DEFINE v == [u EXCEPT !.pc = "sent", !.request = q, !.requests = @ + 1,
                          !.response = NoResponse]
<1>1. SendsRequest(u, q) = v
  BY DEF SendsRequest
<1>2. "sent" \in Points /\ NoResponse \in Responses /\ u.requests + 1 \in Nat
  BY EmptyIsTyped DEF Points, TurnRecords
<1>3. v \in TurnRecords
  BY <1>2 DEF TurnRecords
<1>4. /\ v.pc = "sent" /\ v.request = q
      /\ v.requests = u.requests + 1 /\ v.reads = u.reads /\ v.tools = u.tools
      /\ v.session = u.session /\ v.conv = u.conv /\ v.ctx = u.ctx
      /\ v.restartable = u.restartable
  BY DEF TurnRecords
<1> HIDE DEF v
<1> QED
  BY <1>1, <1>3, <1>4

\* What a turn asks first goes on from where its thread ended.
LEMMA FirstRequestFits ==
    ASSUME ThreadsFit, NEW u \in TurnRecords
    PROVE  LET q == FirstRequest(u)
           IN  /\ q \in Requests
               /\ q.sends \/ u.ctx \in q.chain.knows
               /\ q.answers = DOMAIN q.chain.calls
               /\ q.chain # NoResponse => q.chain.key = ThreadKey(u)
<1>1. CASE ThreadKey(u) \in DOMAIN threads
  <2> DEFINE thread == threads[ThreadKey(u)]
  <2>1. ThreadFits(ThreadKey(u), thread)
    BY <1>1 DEF ThreadsFit
  <2>2. FirstRequest(u) = Continuation(thread, u.ctx)
    BY <1>1 DEF FirstRequest
  <2> HIDE DEF thread
  <2> DEFINE q == Continuation(thread, u.ctx)
  <2>3. /\ q = [chain |-> thread.response, answers |-> thread.calls, sends |-> q.sends]
        /\ q.chain = thread.response /\ q.answers = thread.calls
        /\ q.sends \in BOOLEAN /\ (q.sends <=> thread.ctx # u.ctx)
    BY DEF Continuation
  <2> HIDE DEF q
  <2>4. thread.response \in Responses /\ thread.calls \in SUBSET Nat
    BY <2>1 DEF ThreadFits, Threads
  <2>5. q \in Requests
    BY <2>3, <2>4 DEF Requests
  <2>6. q.sends \/ u.ctx \in q.chain.knows
    BY <2>1, <2>3 DEF ThreadFits, Continues
  <2>7. q.answers = DOMAIN q.chain.calls /\ q.chain.key = ThreadKey(u)
    BY <2>1, <2>3 DEF ThreadFits, Continues
  <2> QED
    BY <2>2, <2>5, <2>6, <2>7 DEF q
<1>2. CASE ThreadKey(u) \notin DOMAIN threads
  BY <1>2, EmptyIsTyped DEF FirstRequest, FullPrompt, NoResponse
<1> QED
  BY <1>1, <1>2

\* What the server stores of a response is of this thread and has been told
\* the context, with the request or before it.
LEMMA ResponseContinues ==
    ASSUME NEW u \in TurnRecords, SentFits(u), NEW out \in Outputs
    PROVE  /\ StoredResponse(u, out) \in Responses
           /\ Continues(StoredResponse(u, out), ThreadKey(u), u.ctx)
<1>1. out.calls \in Seq({"read", "submit"})
  <2>1. /\ <<>> \in Seq({"read", "submit"})
        /\ <<"submit">> \in Seq({"read", "submit"}) /\ <<"read">> \in Seq({"read", "submit"})
        /\ <<"read", "submit">> \in Seq({"read", "submit"})
        /\ <<"read", "read">> \in Seq({"read", "submit"})
    OBVIOUS
  <2>2. out.calls \in {<<>>, <<"submit">>, <<"read">>, <<"read", "submit">>, <<"read", "read">>}
    BY DEF Outputs
  <2> QED
    BY <2>1, <2>2
<1>2. ThreadKey(u) \in ThreadKeys
  BY DEF ThreadKey, ThreadKeys, TurnRecords
<1>3. u.request.chain.knows \subseteq Contexts /\ u.ctx \in Contexts
  BY DEF TurnRecords, Requests, Responses
<1> QED
  BY <1>1, <1>2, <1>3 DEF StoredResponse, Responses, Continues, SentFits

-----------------------------------------------------------------------------
(***************************************************************************)
(* The steps                                                               *)
(***************************************************************************)
\* The turns of the adapter, beside its threads.
Running == turns \in Seq(TurnRecords) /\ TurnsFit /\ ActiveFits

LEMMA TurnIsTyped ==
    ASSUME turns \in Seq(TurnRecords), TurnsFit, NEW t \in DOMAIN turns
    PROVE  /\ turns[t] \in TurnRecords /\ TurnFits(turns[t])
           /\ turns[t].reads \in Nat /\ turns[t].requests \in Nat /\ turns[t].tools \in Nat
           /\ turns[t].tools <= MaxToolCalls
<1>1. turns[t] \in TurnRecords
  BY ElementOfSeq, LenProperties
<1> QED
  BY <1>1, HttpAssumption DEF TurnsFit, TurnRecords

\* The threads are as they were.
LEMMA ThreadsStay ==
    ASSUME ThreadsFit, Ordered, UNCHANGED <<threads, order>>
    PROVE  ThreadsFit' /\ Ordered'
  BY DEF ThreadsFit, Ordered

LEMMA NextCardKeeps ==
    ASSUME HInv, NEW s \in Sessions, NEW conv \in Convs, NEW ctx \in Contexts,
           NextCard(s, conv, ctx)
    PROVE  HInv'
<1> DEFINE u == NewTurn(s, conv, ctx)
           n == Len(turns) + 1
<1>1. u \in TurnRecords /\ TurnFits(u) /\ u.pc = "asking"
  BY NewTurnIsTyped
<1>2. turns' = Append(turns, u) /\ active' = active \union {n}
  BY DEF NextCard
<1> HIDE DEF u
<1>3. Len(turns) \in Nat /\ DOMAIN turns = 1 .. Len(turns)
  BY LenProperties DEF HInv
<1>4. /\ turns' \in Seq(TurnRecords) /\ Len(turns') = n /\ turns'[n] = u
      /\ \A t \in 1 .. Len(turns) : turns'[t] = turns[t]
  BY <1>1, <1>2, AppendProperties DEF HInv
<1>5. DOMAIN turns' = DOMAIN turns \union {n} /\ n \notin DOMAIN turns
  <2>1. DOMAIN turns' = 1 .. n
    BY <1>4, LenProperties
  <2>2. 1 .. n = (1 .. Len(turns)) \union {n} /\ n \notin 1 .. Len(turns)
    BY <1>3
  <2> QED
    BY <1>3, <2>1, <2>2
<1> HIDE DEF n
<1>6. TurnsFit'
  BY <1>1, <1>3, <1>4, <1>5 DEF HInv, TurnsFit
<1>7. ActiveFits'
  BY <1>1, <1>2, <1>3, <1>4, <1>5 DEF HInv, ActiveFits, LiveTurn, Ended
<1>8. ThreadsFit' /\ Ordered'
  BY ThreadsStay DEF HInv, NextCard
<1> QED
  BY <1>4, <1>6, <1>7, <1>8 DEF HInv

LEMMA AsksServerKeeps ==
    ASSUME HInv, NEW t \in DOMAIN turns, AsksServer(t)
    PROVE  HInv'
<1> DEFINE u == turns[t]
           q == FirstRequest(u)
           w == SendsRequest(u, q)
           here == ThreadKey(u) \in DOMAIN threads
           v == [w EXCEPT !.restartable = here, !.tools = ToolsAllowed(u.conv)]
<1>1. u \in TurnRecords /\ TurnFits(u) /\ u.pc = "asking"
  BY TurnIsTyped DEF HInv, AsksServer
<1>2. turns' = [turns EXCEPT ![t] = v] /\ active' = active /\ UNCHANGED <<threads, order>>
  BY DEF AsksServer
<1> HIDE DEF u
<1>3. /\ q \in Requests
      /\ q.sends \/ u.ctx \in q.chain.knows
      /\ q.answers = DOMAIN q.chain.calls
      /\ q.chain # NoResponse => q.chain.key = ThreadKey(u)
  BY <1>1, FirstRequestFits DEF HInv
<1> HIDE DEF q
<1>4. /\ w \in TurnRecords /\ w.pc = "sent" /\ w.request = q
      /\ w.requests = u.requests + 1 /\ w.reads = u.reads
      /\ w.session = u.session /\ w.conv = u.conv /\ w.ctx = u.ctx
  BY <1>1, <1>3, SendsKeeps
<1> HIDE DEF w
<1>5. ToolsAllowed(u.conv) \in 0 .. MaxToolCalls /\ ToolsAllowed(u.conv) \in Nat
  BY ToolsAreCounted
<1>6. here \in BOOLEAN
  OBVIOUS
<1> HIDE DEF here
<1>7. /\ v \in TurnRecords /\ v.pc = "sent" /\ v.request = q
      /\ v.requests = u.requests + 1 /\ v.reads = u.reads /\ v.tools = ToolsAllowed(u.conv)
      /\ v.session = u.session /\ v.conv = u.conv /\ v.ctx = u.ctx
  BY <1>4, <1>5, <1>6 DEF TurnRecords
<1> HIDE DEF v
<1>8. SentFits(v)
  BY <1>3, <1>7 DEF SentFits, ThreadKey
<1>9. u.reads = 0 /\ u.requests = 0
  BY <1>1 DEF TurnFits, Counted
<1>10. TurnFits(v)
  BY <1>5, <1>7, <1>8, <1>9 DEF TurnFits, Counted
<1>11. Running'
  BY <1>1, <1>2, <1>7, <1>10, StepKeeps DEF HInv, Running, Ended, u
<1> QED
  BY <1>2, <1>11, ThreadsStay DEF HInv, Running

LEMMA RestartChainKeeps ==
    ASSUME HInv, NEW t \in DOMAIN turns, RestartChain(t)
    PROVE  HInv'
<1> DEFINE u == turns[t]
           w == SendsRequest(u, FullPrompt)
           v == [w EXCEPT !.restartable = FALSE]
<1>1. /\ u \in TurnRecords /\ TurnFits(u) /\ u.pc = "sent" /\ u.restartable
      /\ u.tools \in Nat
  BY TurnIsTyped DEF HInv, RestartChain
<1>2. turns' = [turns EXCEPT ![t] = v] /\ active' = active /\ Forget(ThreadKey(u))
  BY DEF RestartChain
<1> HIDE DEF u
<1>3. /\ w \in TurnRecords /\ w.pc = "sent" /\ w.request = FullPrompt
      /\ w.requests = u.requests + 1 /\ w.reads = u.reads /\ w.tools = u.tools
      /\ w.session = u.session /\ w.conv = u.conv /\ w.ctx = u.ctx
  BY <1>1, EmptyIsTyped, SendsKeeps
<1> HIDE DEF w
<1>4. /\ v \in TurnRecords /\ v.pc = "sent" /\ v.request = FullPrompt
      /\ v.requests = u.requests + 1 /\ v.reads = u.reads /\ v.tools = u.tools
      /\ v.session = u.session /\ v.conv = u.conv /\ v.ctx = u.ctx /\ ~v.restartable
  BY <1>3 DEF TurnRecords
<1> HIDE DEF v
<1>5. SentFits(v)
  BY <1>4 DEF SentFits, FullPrompt, NoResponse
<1>6. /\ u.reads + u.tools = ToolsAllowed(u.conv) /\ u.requests = 1 /\ u.reads = 0
  BY <1>1 DEF TurnFits, Counted
<1>7. TurnFits(v)
  BY <1>4, <1>5, <1>6 DEF TurnFits, Counted
<1>8. Running'
  BY <1>1, <1>2, <1>4, <1>7, StepKeeps DEF HInv, Running, Ended, u
<1>9. ThreadsFit' /\ Ordered'
  BY <1>2, ForgetKeeps DEF HInv
<1> QED
  BY <1>8, <1>9 DEF HInv, Running

LEMMA SubmitsKeeps ==
    ASSUME HInv, NEW t \in DOMAIN turns, NEW out \in Outputs, Submits(t, out)
    PROVE  HInv'
<1> DEFINE u == turns[t]
           r == StoredResponse(u, out)
           v == [u EXCEPT !.pc = "answered", !.response = r]
<1>1. /\ u \in TurnRecords /\ TurnFits(u) /\ u.pc = "sent"
      /\ u.tools \in Nat /\ u.reads \in Nat
  BY TurnIsTyped DEF HInv, Submits
<1>2. turns' = [turns EXCEPT ![t] = v] /\ active' = active /\ UNCHANGED <<threads, order>>
  BY DEF Submits
<1> HIDE DEF u
<1>3. r \in Responses /\ Continues(r, ThreadKey(u), u.ctx)
  BY <1>1, ResponseContinues DEF TurnFits
<1> HIDE DEF r
<1>4. /\ v \in TurnRecords /\ v.pc = "answered" /\ v.response = r
      /\ v.requests = u.requests /\ v.reads = u.reads
      /\ v.session = u.session /\ v.conv = u.conv /\ v.ctx = u.ctx
  BY <1>1, <1>3 DEF TurnRecords, Points
<1> HIDE DEF v
<1>5. u.reads + u.tools = ToolsAllowed(u.conv) /\ u.requests <= u.reads + 2
  BY <1>1 DEF TurnFits, Counted
<1>6. u.reads <= ToolsAllowed(u.conv)
  BY <1>1, <1>5
<1>7. TurnFits(v)
  BY <1>3, <1>4, <1>5, <1>6 DEF TurnFits, Counted, ThreadKey
<1>8. Running'
  BY <1>1, <1>2, <1>4, <1>7, StepKeeps DEF HInv, Running, Ended, u
<1> QED
  BY <1>2, <1>8, ThreadsStay DEF HInv, Running

LEMMA ReadsFirstKeeps ==
    ASSUME HInv, NEW t \in DOMAIN turns, NEW out \in Outputs, ReadsFirst(t, out)
    PROVE  HInv'
<1> DEFINE u == turns[t]
           r == StoredResponse(u, out)
           v == [u EXCEPT !.pc = "reading", !.response = r, !.reads = @ + 1,
                          !.restartable = FALSE]
<1>1. /\ u \in TurnRecords /\ TurnFits(u) /\ u.pc = "sent"
      /\ u.tools \in Nat /\ u.reads \in Nat /\ u.tools > 0
  BY TurnIsTyped DEF HInv, ReadsFirst
<1>2. turns' = [turns EXCEPT ![t] = v] /\ active' = active /\ UNCHANGED <<threads, order>>
  BY DEF ReadsFirst
<1> HIDE DEF u
<1>3. r \in Responses /\ Continues(r, ThreadKey(u), u.ctx)
  BY <1>1, ResponseContinues DEF TurnFits
<1> HIDE DEF r
<1>4. /\ v \in TurnRecords /\ v.pc = "reading" /\ v.response = r
      /\ v.requests = u.requests /\ v.reads = u.reads + 1 /\ v.tools = u.tools
      /\ v.session = u.session /\ v.conv = u.conv /\ v.ctx = u.ctx /\ ~v.restartable
  <2>1. "reading" \in Points /\ u.reads + 1 \in Nat
    BY <1>1 DEF Points
  <2>2. v \in TurnRecords
    BY <1>1, <1>3, <2>1 DEF TurnRecords
  <2> QED
    BY <1>1, <2>2 DEF TurnRecords
<1> HIDE DEF v
<1>5. u.reads + u.tools = ToolsAllowed(u.conv) /\ u.requests <= u.reads + 2
  BY <1>1 DEF TurnFits, Counted
<1>6. /\ v.reads + v.tools = ToolsAllowed(v.conv) + 1 /\ 1 <= v.tools
      /\ v.requests <= v.reads + 1
  <2>1. u.requests \in Nat
    BY <1>1 DEF TurnRecords
  <2> QED
    BY <1>1, <1>4, <1>5, <2>1
<1>7. TurnFits(v)
  BY <1>3, <1>4, <1>6 DEF TurnFits, Counted, ThreadKey
<1>8. Running'
  BY <1>1, <1>2, <1>4, <1>7, StepKeeps DEF HInv, Running, Ended, u
<1> QED
  BY <1>2, <1>8, ThreadsStay DEF HInv, Running

LEMMA ReadDoneKeeps ==
    ASSUME HInv, NEW t \in DOMAIN turns, ReadDone(t)
    PROVE  HInv'
<1> DEFINE u == turns[t]
           q == ToolOutputs(u.response)
           w == SendsRequest(u, q)
           v == [w EXCEPT !.tools = @ - 1]
<1>1. /\ u \in TurnRecords /\ TurnFits(u) /\ u.pc = "reading"
      /\ u.tools \in Nat /\ u.reads \in Nat /\ u.requests \in Nat
      /\ u.tools <= MaxToolCalls
  BY TurnIsTyped DEF HInv, ReadDone
<1>2. turns' = [turns EXCEPT ![t] = v] /\ active' = active /\ UNCHANGED <<threads, order>>
  BY DEF ReadDone
<1> HIDE DEF u
<1>3. Continues(u.response, ThreadKey(u), u.ctx) /\ u.response \in Responses
  BY <1>1 DEF TurnFits, TurnRecords
<1>4. /\ q = [chain |-> u.response, answers |-> DOMAIN u.response.calls, sends |-> FALSE]
      /\ q.chain = u.response /\ q.answers = DOMAIN u.response.calls
  BY DEF ToolOutputs
<1>5. q \in Requests
  <2>1. u.response.calls \in Seq({"read", "submit"})
    BY <1>3 DEF Responses
  <2>2. DOMAIN u.response.calls \in SUBSET Nat
    BY <2>1, LenProperties
  <2> QED
    BY <1>3, <1>4, <2>2 DEF Requests
<1> HIDE DEF q
<1>6. /\ w \in TurnRecords /\ w.pc = "sent" /\ w.request = q
      /\ w.requests = u.requests + 1 /\ w.reads = u.reads /\ w.tools = u.tools
      /\ w.session = u.session /\ w.conv = u.conv /\ w.ctx = u.ctx
      /\ w.restartable = u.restartable
  BY <1>1, <1>5, SendsKeeps
<1> HIDE DEF w
<1>7. /\ u.reads + u.tools = ToolsAllowed(u.conv) + 1 /\ 1 <= u.tools
      /\ u.requests <= u.reads + 1 /\ ~u.restartable
  BY <1>1 DEF TurnFits, Counted
<1>8. u.tools - 1 \in 0 .. MaxToolCalls
  BY <1>1, <1>7, HttpAssumption
<1>9. /\ v \in TurnRecords /\ v.pc = "sent" /\ v.request = q
      /\ v.requests = u.requests + 1 /\ v.reads = u.reads /\ v.tools = u.tools - 1
      /\ v.session = u.session /\ v.conv = u.conv /\ v.ctx = u.ctx /\ ~v.restartable
  BY <1>6, <1>7, <1>8 DEF TurnRecords
<1> HIDE DEF v
<1>10. SentFits(v)
  BY <1>3, <1>4, <1>9 DEF SentFits, Continues, ThreadKey
<1>11. v.reads + v.tools = ToolsAllowed(v.conv) /\ v.requests <= v.reads + 2
  BY <1>1, <1>7, <1>9, ToolsAreCounted
<1>12. TurnFits(v)
  BY <1>9, <1>10, <1>11 DEF TurnFits, Counted
<1>13. Running'
  BY <1>1, <1>2, <1>9, <1>12, StepKeeps DEF HInv, Running, Ended, u
<1> QED
  BY <1>2, <1>13, ThreadsStay DEF HInv, Running

\* The turn's response becomes the end of its thread.
LEMMA SaveThreadKeeps ==
    ASSUME HInv, NEW t \in DOMAIN turns, SaveThread(t)
    PROVE  HInv'
<1> DEFINE u == turns[t]
           thread == [response |-> u.response, calls |-> TerminalCalls(u.response),
                      ctx |-> u.ctx]
<1>1. u \in TurnRecords /\ TurnFits(u) /\ u.pc = "answered"
  BY TurnIsTyped DEF HInv, SaveThread
<1>2. /\ Store(ThreadKey(u), thread) /\ Finishes(t, "done")
  BY DEF SaveThread
<1> HIDE DEF u
<1>3. Continues(u.response, ThreadKey(u), u.ctx) /\ u.response \in Responses /\ u.ctx \in Contexts
  BY <1>1 DEF TurnFits, TurnRecords
<1>4. ThreadKey(u) \in ThreadKeys
  BY <1>1 DEF ThreadKey, ThreadKeys, TurnRecords
<1>5. DOMAIN u.response.calls \in SUBSET Nat
  <2>1. u.response.calls \in Seq({"read", "submit"})
    BY <1>3 DEF Responses
  <2> QED
    BY <2>1, LenProperties
<1>6. ThreadFits(ThreadKey(u), thread)
  BY <1>3, <1>5 DEF ThreadFits, Threads, TerminalCalls, Continues
<1> HIDE DEF thread
<1>7. ThreadsFit' /\ Ordered'
  BY <1>2, <1>4, <1>6, StoreKeeps DEF HInv
<1>8. Running'
  BY <1>2, FinishesKeeps DEF HInv, Running, Ended
<1> QED
  BY <1>7, <1>8 DEF HInv, Running

LEMMA TimedOutKeeps ==
    ASSUME HInv, NEW t \in DOMAIN turns, TimedOut(t)
    PROVE  HInv'
<1> DEFINE u == turns[t]
           v == [NewTurn(u.session, u.conv, u.ctx) EXCEPT !.pc = "expired"]
<1>1. u \in TurnRecords /\ u.pc \in {"asking", "sent", "reading"}
  BY TurnIsTyped DEF HInv, TimedOut
<1>2. turns' = [turns EXCEPT ![t] = v] /\ active' = active /\ UNCHANGED <<threads, order>>
  BY DEF TimedOut
<1> HIDE DEF u
<1>3. v \in TurnRecords /\ TurnFits(v) /\ v.pc = "expired"
  BY <1>1, LeftIsTyped
<1> HIDE DEF v
<1>4. Running'
  BY <1>1, <1>2, <1>3, StepKeeps DEF HInv, Running, Ended, u
<1> QED
  BY <1>2, <1>4, ThreadsStay DEF HInv, Running

LEMMA AbandonChainKeeps ==
    ASSUME HInv, NEW t \in DOMAIN turns, AbandonChain(t)
    PROVE  HInv'
<1>1. Forget(ThreadKey(turns[t])) /\ Finishes(t, "failed")
  BY DEF AbandonChain
<1>2. ThreadsFit' /\ Ordered'
  BY <1>1, ForgetKeeps DEF HInv
<1>3. Running'
  BY <1>1, FinishesKeeps DEF HInv, Running, Ended
<1> QED
  BY <1>2, <1>3 DEF HInv, Running

\* The ways a turn ends that leave its thread alone.
LEMMA EndsKeeps ==
    ASSUME HInv, NEW t \in DOMAIN turns, NEW pc \in Ended, Finishes(t, pc),
           UNCHANGED <<threads, order>>
    PROVE  HInv'
  BY FinishesKeeps, ThreadsStay DEF HInv

LEMMA CancelTurnKeeps ==
    ASSUME HInv, NEW s \in Sessions, CancelTurn(s)
    PROVE  HInv'
<1>1. /\ turns' = [t \in DOMAIN turns |->
                     IF t \in CancelReaches(s) THEN [turns[t] EXCEPT !.cancelled = TRUE]
                     ELSE turns[t]]
      /\ UNCHANGED <<threads, order, active>>
  BY DEF CancelTurn
<1>2. Len(turns) \in Nat /\ DOMAIN turns = 1 .. Len(turns)
  BY LenProperties DEF HInv
<1>3. ASSUME NEW t \in DOMAIN turns
      PROVE  turns'[t] \in TurnRecords /\ TurnFits(turns'[t]) /\ turns'[t].pc = turns[t].pc
  <2> DEFINE u == turns[t]
             v == [u EXCEPT !.cancelled = TRUE]
  <2>1. u \in TurnRecords /\ TurnFits(u)
    BY TurnIsTyped DEF HInv
  <2>2. turns'[t] \in {u, v}
    BY <1>1
  <2> HIDE DEF u
  <2>3. /\ v \in TurnRecords /\ v.pc = u.pc /\ v.request = u.request
        /\ v.response = u.response /\ v.requests = u.requests /\ v.reads = u.reads
        /\ v.tools = u.tools /\ v.session = u.session /\ v.conv = u.conv /\ v.ctx = u.ctx
        /\ v.restartable = u.restartable
    BY <2>1 DEF TurnRecords
  <2> HIDE DEF v
  <2>4. TurnFits(v)
    BY <2>1, <2>3 DEF TurnFits, SentFits, Counted, ThreadKey
  <2> QED
    BY <2>1, <2>2, <2>3, <2>4 DEF u
<1>4. DOMAIN turns' = DOMAIN turns
  BY <1>1
<1>5. turns' \in Seq(TurnRecords)
  <2>1. turns' = [t \in 1 .. Len(turns) |-> turns'[t]]
    BY <1>1, <1>2
  <2>2. \A t \in 1 .. Len(turns) : turns'[t] \in TurnRecords
    BY <1>2, <1>3
  <2> QED
    BY <1>2, <2>1, <2>2, IsASeq
<1>6. TurnsFit' /\ ActiveFits'
  BY <1>1, <1>3, <1>4 DEF HInv, TurnsFit, ActiveFits, LiveTurn
<1> QED
  BY <1>1, <1>5, <1>6, ThreadsStay DEF HInv

-----------------------------------------------------------------------------
(***************************************************************************)
(* The theorem                                                             *)
(***************************************************************************)
LEMMA InitHInv ==
    HttpInit => HInv
<1> SUFFICES ASSUME HttpInit PROVE HInv
  OBVIOUS
<1>1. turns = <<>> /\ threads = <<>> /\ order = <<>> /\ active = {}
  BY DEF HttpInit
<1>2. DOMAIN turns = {} /\ DOMAIN threads = {} /\ DOMAIN order = {}
  BY <1>1
<1>3. TurnsFit /\ ThreadsFit /\ ActiveFits
  BY <1>1, <1>2 DEF TurnsFit, ThreadsFit, ActiveFits
<1>4. Ordered
  <2>1. order \in Seq(ThreadKeys)
    BY <1>1, EmptySeq
  <2>2. IsInjective(order) /\ Range(order) = DOMAIN threads
    BY <1>2 DEF IsInjective, Range
  <2>3. IsFiniteSet(DOMAIN threads) /\ Cardinality(DOMAIN threads) <= MaxThreads
    BY <1>2, FS_EmptySet, HttpAssumption
  <2> QED
    BY <2>1, <2>2, <2>3 DEF Ordered
<1> QED
  BY <1>1, <1>3, <1>4, EmptySeq DEF HInv

LEMMA NextHInv ==
    HInv /\ [HttpNext]_httpVars => HInv'
<1> SUFFICES ASSUME HInv, [HttpNext]_httpVars PROVE HInv'
  OBVIOUS
<1>1. CASE \E s \in Sessions, conv \in Convs, ctx \in Contexts : NextCard(s, conv, ctx)
  BY <1>1, NextCardKeeps
<1>2. ASSUME NEW t \in DOMAIN turns,
             OwnSteps(t) \/ ServerSteps(t) \/ Interrupted(t) \/ TimedOut(t) \/ Abort(t)
      PROVE  HInv'
  <2>1. CASE OwnSteps(t)
    BY <2>1, AsksServerKeeps, RestartChainKeeps, ReadDoneKeeps, SaveThreadKeeps,
       AbandonChainKeeps DEF OwnSteps
  <2>2. CASE RequestFails(t) \/ Interrupted(t) \/ Abort(t)
    BY <2>2, EndsKeeps DEF RequestFails, Interrupted, Abort, Ended
  <2>3. ASSUME NEW out \in Outputs, Submits(t, out) \/ ReadsFirst(t, out) \/ SaysNothing(t, out)
        PROVE  HInv'
    <3>1. CASE Submits(t, out)
      BY <3>1, SubmitsKeeps
    <3>2. CASE ReadsFirst(t, out)
      BY <3>2, ReadsFirstKeeps
    <3>3. CASE SaysNothing(t, out)
      BY <3>3, EndsKeeps DEF SaysNothing, Ended
    <3> QED
      BY <2>3, <3>1, <3>2, <3>3
  <2>4. CASE TimedOut(t)
    BY <2>4, TimedOutKeeps
  <2> QED
    BY <1>2, <2>1, <2>2, <2>3, <2>4 DEF ServerSteps
<1>3. CASE \E s \in Sessions : CancelTurn(s)
  BY <1>3, CancelTurnKeeps
<1>4. CASE UNCHANGED httpVars
  BY <1>4 DEF httpVars, HInv, TurnsFit, ActiveFits, LiveTurn, ThreadsFit, Ordered
<1> QED
  BY <1>1, <1>2, <1>3, <1>4 DEF HttpNext

LEMMA HInvImplies ==
    HInv => ChainsAreWhole
<1> SUFFICES ASSUME HInv PROVE ChainsAreWhole
  OBVIOUS
<1>1. ASSUME NEW t \in DOMAIN turns
      PROVE  LET u == turns[t]
                 q == u.request IN
             /\ u.pc \in Points /\ u.tools \in 0 .. MaxToolCalls
             /\ u.pc = "sent" =>
                  /\ q.sends \/ u.ctx \in q.chain.knows
                  /\ q.answers = DOMAIN q.chain.calls
                  /\ q.chain # NoResponse => q.chain.key = ThreadKey(u)
             /\ u.reads <= ToolsAllowed(u.conv)
             /\ u.requests <= ToolsAllowed(u.conv) + 2
  <2> DEFINE u == turns[t]
  <2>1. /\ u \in TurnRecords /\ TurnFits(u)
        /\ u.reads \in Nat /\ u.requests \in Nat /\ u.tools \in Nat
    BY TurnIsTyped DEF HInv
  <2> HIDE DEF u
  <2>2. ToolsAllowed(u.conv) \in Nat
    BY ToolsAreCounted
  <2>3. u.reads <= ToolsAllowed(u.conv) /\ u.requests <= ToolsAllowed(u.conv) + 2
    BY <2>1, <2>2 DEF TurnFits, Counted
  <2>4. u.pc = "sent" => SentFits(u)
    BY <2>1 DEF TurnFits
  <2>5. u.pc \in Points /\ u.tools \in 0 .. MaxToolCalls
    BY <2>1 DEF TurnRecords
  <2> QED
    BY <2>3, <2>4, <2>5 DEF u, SentFits
<1>2. DOMAIN threads \subseteq ThreadKeys
  BY ElementOfSeq, LenProperties DEF HInv, Ordered, Range
<1>3. HttpTypeOK
  BY <1>1, <1>2 DEF HttpTypeOK, HInv, ActiveFits, Points
<1>4. BookIsKept
  BY DEF BookIsKept, HInv, Ordered, ActiveFits
<1> QED
  BY <1>1, <1>3, <1>4 DEF ChainsAreWhole

\* ask, save_thread: what a request continues is of its own thread, all calls
\* of it are answered and the source context is left out only when it was
\* told; the book-keeping agrees with itself and a turn reads within its
\* budget: with any number of turns of one thread at once.
THEOREM ChainsAreAlwaysWhole ==
    HttpSpec => []ChainsAreWhole
<1> QED
  BY InitHInv, NextHInv, HInvImplies, PTL DEF HttpSpec
====

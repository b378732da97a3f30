---------------------------- MODULE Window_proofs ----------------------------
(***************************************************************************)
(* That what the user decides is what the daemon is told, that a late      *)
(* result of a turn given up is not shown, that no text is lost, and that  *)
(* the turns of a session do not overlap: for any number of requests,      *)
(* prompts and questions.                                                  *)
(***************************************************************************)
EXTENDS Window, SequenceTheorems, TLAPS

\* The configuration the editor ships with, and a user who presses the keys
\* of the view on the screen.
Shipped == ThinkingEnabled = TRUE /\ StrayKeys = FALSE

Doings == {"start", "reply", "accept", "reject", "cancel", "stop"}
Ids == 1 .. MaxRequests
CallRecords == [id : Ids, do : Doings, session : Requests, card : Cards]
Messages == [is : {"response", "ready"}, req : Ids, session : Requests,
             ok : BOOLEAN, card : Cards]
TurnRecords == [req : Ids, session : Ids, yielded : BOOLEAN,
                asking : {None} \cup Questions]
Views == {"closed", "response", "review", "working", "permission", "error",
          "interrupted", "paused"}
Shows == {"review", "response"}     \* the views of a finished answer
Agents == [view : Views, working : BOOLEAN, hidden : BOOLEAN]

TypedScreen ==
    /\ session \in Requests /\ thinking \in Requests /\ cancelled \in Requests
    /\ barrier \in BOOLEAN
    /\ card \in Cards /\ keyCard \in Cards /\ draft \in Cards /\ ops \in Cards
    /\ agent \in Agents /\ (agent.hidden => agent.view # "closed")
    /\ draft.kind \in {"none", "patch"} /\ ops.kind \in {"none", "ops"}
    /\ keyCard.kind # "working"
    /\ gate \in {None} \cup Questions /\ answers \in [Questions -> Nat]

TypedPrompt ==
    /\ written \in Nat /\ stash \in 0 .. written
    /\ prompt \in [open : BOOLEAN, kind : {"Prompt", "Reply"},
                   submitting : 0 .. written, returns : BOOLEAN]

TypedHistory ==
    /\ applied \in Seq([draft : Cards, card : Cards]) /\ rejected \subseteq Cards

TypedChannel ==
    /\ sent \in Requests
    /\ calls \subseteq CallRecords /\ out \in Seq(CallRecords)
    /\ inbox \in Seq(Messages)
    /\ sessions \subseteq 1 .. sent /\ turns \subseteq TurnRecords /\ owed \in Requests

-----------------------------------------------------------------------------
(***************************************************************************)
(* The pipes                                                               *)
(***************************************************************************)
\* Where a request is, until what it leads to has arrived.
Waits(n) == \E i \in 1 .. Len(out) : out[i].id = n
Runs(n) == \E t \in turns : t.req = n
Final(msg) == msg.card.kind # "working"
Arrives(n) == \E i \in 1 .. Len(inbox) : Final(inbox[i]) /\ inbox[i].req = n
Spent(n) == n \in 1 .. sent /\ ~Waits(n) /\ ~Runs(n) /\ ~Arrives(n)

Numbered ==
    /\ \A c \in calls : c.id <= sent
    /\ \A i \in 1 .. Len(out) : out[i].id <= sent
    /\ \A t \in turns : t.req <= sent
    /\ \A i \in 1 .. Len(inbox) : inbox[i].req <= sent
    /\ owed <= sent

\* Requests are served in the order they were sent.
InOrder ==
    /\ \A i, j \in 1 .. Len(out) : i < j => out[i].id < out[j].id
    /\ \A i \in 1 .. Len(out) :
          /\ \A t \in turns : t.req < out[i].id
          /\ \A j \in 1 .. Len(inbox) : inbox[j].req < out[i].id
          /\ owed < out[i].id

\* A request leads to one result.
OneResult ==
    /\ \A t, u \in turns : t.req = u.req => t = u
    /\ \A t \in turns : ~Arrives(t.req)
    /\ \A i, j \in 1 .. Len(inbox) :
          Final(inbox[i]) /\ Final(inbox[j]) /\ inbox[i].req = inbox[j].req => i = j

CallsFit ==
    /\ \A c, d \in calls : c.id = d.id => c = d
    /\ \A c \in calls : c.do \in {"reply", "accept"} => c.session # None
    /\ \A i \in 1 .. Len(out) : \A c \in calls : c.id = out[i].id => c = out[i]

\* The answer to c may be msg.
Answers(msg, c) ==
    c.id = msg.req /\ msg.is = "response" /\ msg.ok =>
        /\ c.do \in TurnRequests => msg.card # NoCard
        /\ c.do = "start" => msg.session # None

MessagesFit ==
    \A i \in 1 .. Len(inbox) :
        /\ inbox[i].card # NoCard => inbox[i].card.req = inbox[i].req
        /\ inbox[i].is = "ready" /\ inbox[i].ok => inbox[i].card # NoCard
        /\ \A c \in calls : Answers(inbox[i], c)

\* A rejection is answered at once: before what was sent after it.
AnsweredFirst(c) ==
    \/ \E i \in 1 .. Len(out) : out[i] = c
    \/ \E j \in 1 .. Len(inbox) :
          /\ inbox[j].is = "response" /\ inbox[j].req = c.id
          /\ \A i \in 1 .. (j - 1) : inbox[i].req < c.id
RejectsFirst == \A c \in calls : c.do = "reject" => AnsweredFirst(c)

Channel == /\ TypedChannel /\ Numbered /\ InOrder /\ OneResult
           /\ CallsFit /\ MessagesFit /\ RejectsFirst

-----------------------------------------------------------------------------
(***************************************************************************)
(* The screen                                                              *)
(***************************************************************************)
Quiet == draft = NoCard /\ ops = NoCard

\* The turn of the working card on the screen is still wanted.
Expected == card.kind = "working" /\ card.req # cancelled

\* Nothing is under review while a turn is awaited, and what is awaited was
\* not given up.  A rejection is not outstanding when a turn has yielded,
\* so its error never takes the screen from the working card.
ScreenFits ==
    /\ session = None => Quiet /\ card = NoCard
    /\ thinking # None =>
          /\ Quiet /\ thinking \notin dropped /\ thinking <= sent
          /\ \A c \in calls : c.do = "reject" => c.id < thinking
          /\ agent.view \notin Shows
    /\ card.kind = "working" => Quiet
    /\ Expected =>
          /\ thinking = None /\ agent.working /\ card.req \notin dropped
          /\ \A c \in calls : c.do # "reject"
    /\ draft # NoCard => draft = card
    /\ ops # NoCard => ops = card

\* Nobody is awaited while the user writes a reply.
PromptFits ==
    /\ prompt.kind = "Reply" /\ (prompt.open \/ prompt.submitting # None) =>
          thinking = None /\ ~Expected
    /\ ~prompt.open /\ prompt.submitting # None => session = None /\ thinking = None

-----------------------------------------------------------------------------
(***************************************************************************)
(* The decisions                                                           *)
(***************************************************************************)
Decided == {applied[i].card : i \in 1 .. Len(applied)} \cup rejected

DroppedFit == dropped \subseteq 0 .. sent

CardFits ==
    card # NoCard => card.req <= sent /\ (card.kind # "working" => Spent(card.req))

\* What was decided is not on its way any more.
DecidedFit == \A d \in Decided : d.kind \in Proposals /\ Spent(d.req)

\* A finished answer on the screen is undecided and wanted.
ShownIsFresh ==
    agent.view \in Shows =>
        /\ gate = None /\ card # NoCard /\ card.kind # "working"
        /\ card \notin Decided /\ card.req \notin dropped

ReportsFit ==
    /\ \A i \in 1 .. Len(applied) :
          applied[i].draft = applied[i].card /\ applied[i].card \notin rejected
    /\ \A i, j \in 1 .. Len(applied) : applied[i].card = applied[j].card => i = j

Screen == TypedScreen /\ ScreenFits /\ PromptFits /\ CardFits /\ ShownIsFresh
History == TypedHistory /\ DecidedFit /\ ReportsFit

WInv == Channel /\ TypedPrompt /\ DroppedFit /\ Screen /\ History
ChannelVars == <<sent, calls, out, inbox, sessions, turns, owed>>
SpentStay == sent' >= sent /\ \A n : Spent(n) => Spent(n)'

LEMMA Numbers ==
    /\ MaxRequests \in Nat /\ Ids \subseteq Nat \ {0} /\ Requests \subseteq Nat
    /\ None = 0 /\ None \notin Questions /\ None \in Requests
    /\ NoCard \in Cards /\ NoCard.req = 0 /\ NoCard.kind = "none"
BY WindowAssumption DEF Ids, Requests, None, Questions, NoCard, Cards

LEMMA CardKinds ==
    ASSUME NEW c \in Cards
    PROVE  /\ c # NoCard => /\ c.req \in Ids /\ c \in [req : Ids,
                                   kind : {"patch", "ops", "text", "working"}]
                            /\ c.kind \in {"patch", "ops", "text", "working"}
           /\ c = NoCard => c.kind = "none" /\ c.req = 0
           /\ c.kind \in {"none", "patch", "ops", "text", "working"}
BY DEF Cards, NoCard, Ids, None

\* The fields of a message in the pipe.
LEMMA InboxFields ==
    ASSUME TypedChannel, NEW i \in 1 .. Len(inbox)
    PROVE  /\ inbox[i] \in Messages /\ inbox[i].is \in {"response", "ready"}
           /\ inbox[i].req \in Ids /\ inbox[i].session \in Requests
           /\ inbox[i].ok \in BOOLEAN /\ inbox[i].card \in Cards
<1>1. inbox[i] \in Messages
  BY ElementOfSeq DEF TypedChannel
<1> QED
  BY <1>1 DEF Messages

LEMMA OutFields ==
    ASSUME TypedChannel, NEW i \in 1 .. Len(out)
    PROVE  /\ out[i] \in CallRecords /\ out[i].id \in Ids /\ out[i].do \in Doings
           /\ out[i].session \in Requests /\ out[i].card \in Cards
<1>1. out[i] \in CallRecords
  BY ElementOfSeq DEF TypedChannel
<1> QED
  BY <1>1 DEF CallRecords

LEMMA CallFields ==
    ASSUME TypedChannel, NEW c \in calls
    PROVE  /\ c.id \in Ids /\ c.do \in Doings /\ c.session \in Requests
           /\ c.card \in Cards /\ c.id # None
BY Numbers DEF TypedChannel, CallRecords

LEMMA TurnFields ==
    ASSUME TypedChannel, NEW t \in turns
    PROVE  /\ t.req \in Ids /\ t.session \in Ids /\ t.yielded \in BOOLEAN
           /\ t.asking \in {None} \cup Questions
BY DEF TypedChannel, TurnRecords

\* Every number in the pipes is a request sent before.
LEMMA ChannelNumbers ==
    ASSUME Channel
    PROVE  /\ sent \in Nat /\ sent <= MaxRequests /\ owed \in Nat /\ owed <= sent
           /\ \A c \in calls : c.id \in Nat /\ 0 < c.id /\ c.id <= sent
           /\ \A i \in 1 .. Len(out) : out[i].id \in Nat /\ 0 < out[i].id /\ out[i].id <= sent
           /\ \A t \in turns : t.req \in Nat /\ 0 < t.req /\ t.req <= sent
           /\ \A i \in 1 .. Len(inbox) :
                 inbox[i].req \in Nat /\ 0 < inbox[i].req /\ inbox[i].req <= sent
           /\ Len(out) \in Nat /\ Len(inbox) \in Nat
<1>1. \A n \in Ids : n \in Nat /\ 0 < n
  BY WindowAssumption DEF Ids
<1>2. TypedChannel /\ Numbered
  BY DEF Channel
<1>3. sent \in Nat /\ sent <= MaxRequests /\ owed \in Nat /\ owed <= sent
  BY <1>2, WindowAssumption DEF TypedChannel, Requests, Numbered
<1>4. \A c \in calls : c.id \in Nat /\ 0 < c.id /\ c.id <= sent
  BY <1>1, <1>2, CallFields DEF Numbered
<1>5. \A i \in 1 .. Len(out) : out[i].id \in Nat /\ 0 < out[i].id /\ out[i].id <= sent
  BY <1>1, <1>2, OutFields DEF Numbered
<1>6. \A t \in turns : t.req \in Nat /\ 0 < t.req /\ t.req <= sent
  BY <1>1, <1>2, TurnFields DEF Numbered
<1>7. \A i \in 1 .. Len(inbox) :
         inbox[i].req \in Nat /\ 0 < inbox[i].req /\ inbox[i].req <= sent
  BY <1>1, <1>2, InboxFields DEF Numbered
<1>8. Len(out) \in Nat /\ Len(inbox) \in Nat
  BY <1>2, LenProperties DEF TypedChannel
<1> QED
  BY <1>3, <1>4, <1>5, <1>6, <1>7, <1>8

LEMMA ChannelIsLeftAlone ==
    ASSUME UNCHANGED ChannelVars
    PROVE  /\ Channel => Channel'
           /\ TypedChannel => SpentStay
           /\ \A n : Spent(n)' <=> Spent(n)
<1>1. \A n : Spent(n)' <=> Spent(n)
  BY DEF ChannelVars, Spent, Waits, Runs, Arrives
<1>2. TypedChannel => sent' >= sent
  BY Numbers DEF ChannelVars, TypedChannel
<1>3. Channel => Channel'
  BY DEF ChannelVars, Channel, TypedChannel, Numbered, InOrder, OneResult, CallsFit,
         MessagesFit, RejectsFirst, AnsweredFirst, Answers, Arrives, Final
<1> QED
  BY <1>1, <1>2, <1>3 DEF SpentStay

\* New requests go to the end of the pipe.
LEMMA SendKeeps ==
    ASSUME Channel, NEW q \in Seq(CallRecords), Send(q),
           \A i \in 1 .. Len(q) : /\ q[i].id = sent + i
                                  /\ q[i].do \in {"reply", "accept"} => q[i].session # None,
           UNCHANGED <<inbox, sessions, turns, owed>>
    PROVE  /\ Channel' /\ SpentStay /\ sent' = sent + Len(q)
           /\ calls' = calls \cup {q[i] : i \in 1 .. Len(q)}
<1>0. /\ out' = out \o q /\ calls' = calls \cup {q[i] : i \in 1 .. Len(q)}
      /\ out \in Seq(CallRecords) /\ inbox \in Seq(Messages)
  BY LenProperties DEF Channel, TypedChannel, Send
<1>1. /\ sent' \in Nat /\ sent <= sent' /\ sent' = sent + Len(q) /\ sent' <= MaxRequests
      /\ Len(q) \in Nat
  BY ChannelNumbers, LenProperties DEF Send
<1>2. /\ out' \in Seq(CallRecords) /\ Len(out') = Len(out) + Len(q)
      /\ \A i \in 1 .. Len(out) : out'[i] = out[i]
      /\ \A i \in 1 .. Len(out') : i \notin 1 .. Len(out) =>
            i - Len(out) \in 1 .. Len(q) /\ out'[i] = q[i - Len(out)]
  BY <1>0, ConcatProperties
<1>3. \A i \in 1 .. Len(q) : /\ q[i] \in CallRecords /\ q[i].id \in Nat /\ q[i].id = sent + i
                             /\ sent < q[i].id /\ q[i].id <= sent'
  BY <1>1, ElementOfSeq, ChannelNumbers
<1>4. \A i \in 1 .. Len(out) : out'[i].id = out[i].id /\ out[i].id <= sent /\ out[i].id \in Nat
  BY <1>2, ChannelNumbers
<1>5. ASSUME NEW i \in 1 .. Len(out'), i \notin 1 .. Len(out)
      PROVE  /\ out'[i].id = sent + (i - Len(out)) /\ out'[i].id \in Nat
             /\ sent < out'[i].id /\ out'[i].id <= sent'
  <2> DEFINE k == i - Len(out)
  <2>1. k \in 1 .. Len(q) /\ out'[i] = q[k]
    BY <1>2, <1>5
  <2> HIDE DEF k
  <2>2. q[k].id = sent + k /\ q[k].id \in Nat /\ sent < q[k].id /\ q[k].id <= sent'
    BY <1>3, <2>1
  <2> QED
    BY <2>1, <2>2 DEF k
<1>6. TypedChannel'
  <2>1. \A i \in 1 .. Len(q) : q[i] \in CallRecords
    BY <1>3
  <2>2. calls' \subseteq CallRecords
    BY <1>0, <2>1 DEF Channel, TypedChannel
  <2>3. sessions \subseteq 1 .. sent'
    BY <1>1, ChannelNumbers DEF Channel, TypedChannel
  <2> QED
    BY <1>1, <1>2, <2>2, <2>3 DEF Channel, TypedChannel, Requests
<1>7. Numbered'
  <2>1. \A c \in calls' : c.id <= sent'
    <3>1. \A c \in calls : c.id <= sent'
      BY <1>1, ChannelNumbers
    <3> QED
      BY <1>0, <1>3, <3>1
  <2>2. \A i \in 1 .. Len(out') : out'[i].id <= sent'
    BY <1>1, <1>4, <1>5, ChannelNumbers
  <2>3. \A t \in turns : t.req <= sent'
    BY <1>1, ChannelNumbers
  <2>4. \A i \in 1 .. Len(inbox) : inbox[i].req <= sent'
    BY <1>1, ChannelNumbers
  <2>5. owed <= sent'
    BY <1>1, ChannelNumbers
  <2> QED
    BY <2>1, <2>2, <2>3, <2>4, <2>5 DEF Numbered
<1>8. InOrder'
  <2>1. ASSUME NEW i \in 1 .. Len(out'), NEW j \in 1 .. Len(out'), i < j
        PROVE  out'[i].id < out'[j].id
    <3>1. CASE j \in 1 .. Len(out)
      <4>1. i \in 1 .. Len(out)
        BY <2>1, <3>1, ChannelNumbers
      <4> QED
        BY <1>4, <2>1, <3>1, <4>1 DEF Channel, InOrder
    <3>2. CASE j \notin 1 .. Len(out) /\ i \in 1 .. Len(out)
      <4>1. out'[i].id <= sent /\ out'[i].id \in Nat
        BY <1>4, <3>2
      <4>2. sent < out'[j].id /\ out'[j].id \in Nat
        BY <1>5, <3>2
      <4> QED
        BY <4>1, <4>2, ChannelNumbers
    <3>3. CASE j \notin 1 .. Len(out) /\ i \notin 1 .. Len(out)
      <4>1. out'[i].id = sent + (i - Len(out)) /\ out'[j].id = sent + (j - Len(out))
        BY <1>5, <3>3
      <4> QED
        BY <1>2, <2>1, <4>1, ChannelNumbers
    <3> QED
      BY <3>1, <3>2, <3>3
  <2>2. ASSUME NEW i \in 1 .. Len(out')
        PROVE  /\ \A t \in turns : t.req < out'[i].id
               /\ \A j \in 1 .. Len(inbox) : inbox[j].req < out'[i].id
               /\ owed < out'[i].id
    <3>1. CASE i \in 1 .. Len(out)
      BY <1>2, <3>1 DEF Channel, InOrder
    <3>2. CASE i \notin 1 .. Len(out)
      <4>1. sent < out'[i].id /\ out'[i].id \in Nat
        BY <1>5, <3>2
      <4> HIDE DEF Messages
      <4> QED
        BY <4>1, ChannelNumbers
    <3> QED
      BY <3>1, <3>2
  <2> QED
    BY <2>1, <2>2 DEF InOrder
<1>9. OneResult'
  BY DEF Channel, OneResult, Arrives
<1>10. CallsFit'
  <2>1. \A c \in calls : c.id <= sent /\ c.id \in Nat
    BY ChannelNumbers
  <2>2. ASSUME NEW c \in calls', NEW d \in calls', c.id = d.id PROVE c = d
    <3>1. CASE c \in calls /\ d \in calls
      BY <2>2, <3>1 DEF Channel, CallsFit
    <3>2. CASE c \in calls /\ d \notin calls
      BY <1>0, <1>3, <2>1, <2>2, <3>2, ChannelNumbers
    <3>3. CASE c \notin calls /\ d \in calls
      BY <1>0, <1>3, <2>1, <2>2, <3>3, ChannelNumbers
    <3>4. CASE c \notin calls /\ d \notin calls
      <4>1. PICK i \in 1 .. Len(q), j \in 1 .. Len(q) : c = q[i] /\ d = q[j]
        BY <1>0, <3>4
      <4>2. sent + i = sent + j
        BY <1>3, <2>2, <4>1
      <4>3. i = j
        BY <4>2, ChannelNumbers
      <4> QED
        BY <4>1, <4>3
    <3> QED
      BY <3>1, <3>2, <3>3, <3>4
  <2>3. \A c \in calls' : c.do \in {"reply", "accept"} => c.session # None
    BY <1>0 DEF Channel, CallsFit
  <2>4. ASSUME NEW i \in 1 .. Len(out'), NEW c \in calls', c.id = out'[i].id
        PROVE  c = out'[i]
    <3>1. CASE i \in 1 .. Len(out)
      <4>1. c.id <= sent /\ out'[i] = out[i]
        BY <1>2, <1>4, <2>4, <3>1
      <4>2. c \in calls
        BY <1>0, <1>3, <4>1, ChannelNumbers
      <4> QED
        BY <2>4, <3>1, <4>1, <4>2 DEF Channel, CallsFit
    <3>2. CASE i \notin 1 .. Len(out)
      <4>1. PICK k \in 1 .. Len(q) : out'[i] = q[k]
        BY <1>2, <3>2
      <4>2. out'[i] \in calls'
        BY <1>0, <4>1
      <4> QED
        BY <2>2, <2>4, <4>2
    <3> QED
      BY <3>1, <3>2
  <2> QED
    BY <2>2, <2>3, <2>4 DEF CallsFit
<1>11. MessagesFit'
  <2> SUFFICES ASSUME NEW i \in 1 .. Len(inbox), NEW c \in calls', c \notin calls
               PROVE  Answers(inbox[i], c)
    BY DEF Channel, MessagesFit, Answers
  <2>1. sent < c.id
    BY <1>0, <1>3
  <2>2. inbox[i].req # c.id
    BY <1>0, <1>3, <2>1, ChannelNumbers
  <2> QED
    BY <2>2 DEF Answers
<1>12. RejectsFirst'
  <2> SUFFICES ASSUME NEW c \in calls', c.do = "reject" PROVE AnsweredFirst(c)'
    BY DEF RejectsFirst
  <2>1. CASE c \in calls
    <3>1. AnsweredFirst(c)
      BY <2>1 DEF Channel, RejectsFirst
    <3>2. ASSUME NEW i \in 1 .. Len(out), out[i] = c PROVE AnsweredFirst(c)'
      <4>1. i \in 1 .. Len(out') /\ out'[i] = c
        BY <1>1, <1>2, <3>2, ChannelNumbers
      <4> QED
        BY <4>1 DEF AnsweredFirst
    <3> QED
      BY <3>1, <3>2 DEF AnsweredFirst
  <2>2. CASE c \notin calls
    <3>1. PICK i \in 1 .. Len(q) : c = q[i]
      BY <1>0, <2>2
    <3>2. Len(out) + i \in 1 .. Len(out') /\ out'[Len(out) + i] = c
      BY <1>0, <1>1, <1>2, <3>1, ConcatProperties, ChannelNumbers
    <3> QED
      BY <3>2 DEF AnsweredFirst
  <2> QED
    BY <2>1, <2>2
<1>13. SpentStay
  <2> SUFFICES ASSUME NEW n, Spent(n) PROVE Spent(n)'
    BY <1>1, ChannelNumbers DEF SpentStay
  <2>1. n \in 1 .. sent /\ n \in 1 .. sent'
    BY <1>1, ChannelNumbers DEF Spent
  <2>2. ~Waits(n)'
    <3>1. \A i \in 1 .. Len(out') : out'[i].id # n
      BY <1>4, <1>5, <2>1, ChannelNumbers, <1>2 DEF Spent, Waits
    <3> QED
      BY <3>1 DEF Waits
  <2> QED
    BY <2>1, <2>2 DEF Spent, Runs, Arrives
<1> QED
  BY <1>0, <1>1, <1>6, <1>7, <1>8, <1>9, <1>10, <1>11, <1>12, <1>13 DEF Channel

\* rpc.stop leaves nothing in the pipes.
LEMMA EndKeeps ==
    ASSUME Channel, DaemonEnds
    PROVE  Channel' /\ SpentStay /\ sent' = sent /\ calls' = {}
<1>1. sent \in Nat /\ sent \in Requests
  BY Numbers DEF Channel, TypedChannel
<1>2. /\ calls' = {} /\ out' = <<>> /\ inbox' = <<>> /\ sent' = sent
      /\ sessions' = {} /\ turns' = {} /\ owed' = None
  BY DEF DaemonEnds
<1>3. Len(out') = 0 /\ Len(inbox') = 0 /\ out' \in Seq(CallRecords) /\ inbox' \in Seq(Messages)
  BY <1>2, EmptySeq
<1>4. TypedChannel'
  BY <1>1, <1>2, <1>3, Numbers DEF TypedChannel, Requests
<1>5. Numbered' /\ InOrder' /\ OneResult' /\ CallsFit' /\ MessagesFit' /\ RejectsFirst'
  BY <1>1, <1>2, <1>3, Numbers
     DEF Numbered, InOrder, OneResult, CallsFit, MessagesFit, RejectsFirst, Arrives
<1>6. SpentStay
  BY <1>1, <1>2, <1>3 DEF SpentStay, Spent, Waits, Runs, Arrives
<1> QED
  BY <1>1, <1>2, <1>4, <1>5, <1>6 DEF Channel


\* The oldest message is taken.  Its callback is gone, its result spent.
LEMMA TailKeeps ==
    ASSUME Channel, inbox # <<>>, inbox' = Tail(inbox), calls' \subseteq calls,
           Head(inbox).is = "response" => \A c \in calls' : c.id # Head(inbox).req,
           UNCHANGED <<sent, out, sessions, turns, owed>>
    PROVE  /\ Channel' /\ SpentStay
           /\ Head(inbox) \in Messages /\ Head(inbox) = inbox[1] /\ 1 \in 1 .. Len(inbox)
           /\ \A n : Final(Head(inbox)) /\ n = Head(inbox).req => ~Spent(n) /\ Spent(n)'
<1> DEFINE m == inbox[1]
<1>1. /\ inbox \in Seq(Messages) /\ m = Head(inbox) /\ m \in Messages
      /\ Len(inbox) \in Nat /\ 1 \in 1 .. Len(inbox)
  BY ChannelNumbers, HeadTailProperties, EmptySeq DEF Channel, TypedChannel
<1>2. /\ inbox' \in Seq(Messages) /\ Len(inbox') = Len(inbox) - 1
      /\ \A i \in 1 .. Len(inbox') : i + 1 \in 1 .. Len(inbox) /\ inbox'[i] = inbox[i + 1]
  BY <1>1, HeadTailProperties
<1>3. TypedChannel'
  BY <1>2 DEF Channel, TypedChannel
<1>4. Numbered' /\ InOrder'
  BY <1>2 DEF Channel, Numbered, InOrder
<1>5. \A n : Arrives(n)' => Arrives(n)
  BY <1>2 DEF Arrives
<1>6. OneResult'
  <2>1. ASSUME NEW i \in 1 .. Len(inbox'), NEW j \in 1 .. Len(inbox'),
               Final(inbox'[i]), Final(inbox'[j]), inbox'[i].req = inbox'[j].req
        PROVE  i = j
    <3>1. i + 1 = j + 1
      BY <1>2, <2>1 DEF Channel, OneResult
    <3> QED
      BY <3>1
  <2> QED
    BY <1>5, <2>1 DEF Channel, OneResult
<1>7. CallsFit' /\ MessagesFit'
  BY <1>2 DEF Channel, CallsFit, MessagesFit, Answers
<1>8. RejectsFirst'
  <2> SUFFICES ASSUME NEW c \in calls', c.do = "reject" PROVE AnsweredFirst(c)'
    BY DEF RejectsFirst
  <2>1. AnsweredFirst(c)
    BY DEF Channel, RejectsFirst
  <2>2. ASSUME NEW j \in 1 .. Len(inbox), inbox[j].is = "response", inbox[j].req = c.id,
               \A i \in 1 .. (j - 1) : inbox[i].req < c.id
        PROVE  AnsweredFirst(c)'
    <3>1. j # 1
      BY <1>1, <2>2
    <3> DEFINE k == j - 1
    <3>2. k \in 1 .. Len(inbox') /\ inbox'[k] = inbox[j]
      BY <1>1, <1>2, <3>1
    <3>3. \A i \in 1 .. (k - 1) : inbox'[i].req < c.id
      <4>1. ASSUME NEW i \in 1 .. (k - 1) PROVE inbox'[i].req < c.id
        <5>1. i \in 1 .. Len(inbox') /\ i + 1 \in 1 .. (j - 1)
          BY <3>2
        <5> QED
          BY <1>2, <2>2, <5>1
      <4> QED
        BY <4>1
    <3> HIDE DEF k
    <3> QED
      BY <2>2, <3>2, <3>3 DEF AnsweredFirst
  <2> QED
    BY <2>1, <2>2 DEF AnsweredFirst
<1>9. SpentStay
  BY <1>5, ChannelNumbers DEF SpentStay, Spent, Waits, Runs
<1>10. ASSUME Final(m), NEW n, n = m.req PROVE ~Spent(n) /\ Spent(n)'
  <2>1. Arrives(n)
    BY <1>1, <1>10 DEF Arrives
  <2>2. n \in 1 .. sent
    BY <1>1, <1>10, ChannelNumbers
  <2>3. \A i \in 1 .. Len(out) : out[i].id # n
    BY <1>1, <1>10, <2>2, ChannelNumbers DEF Channel, InOrder
  <2>4. ~Runs(n)
    BY <2>1 DEF Channel, OneResult, Runs
  <2>5. ASSUME NEW i \in 1 .. Len(inbox'), Final(inbox'[i]), inbox'[i].req = n
        PROVE  FALSE
    <3>1. i + 1 = 1
      BY <1>1, <1>2, <1>10, <2>5 DEF Channel, OneResult
    <3> QED
      BY <3>1
  <2>6. ~Arrives(n)'
    BY <2>5 DEF Arrives
  <2> QED
    BY <2>1, <2>2, <2>3, <2>4, <2>6 DEF Spent, Waits, Runs
<1> HIDE DEF m
<1> QED
  BY <1>1, <1>3, <1>4, <1>6, <1>7, <1>8, <1>9, <1>10 DEF Channel

-----------------------------------------------------------------------------
(***************************************************************************)
(* The daemon's steps                                                      *)
(***************************************************************************)
\* A message m that fits can be written behind the others.
Fits(m) ==
    /\ m.card # NoCard => m.card.req = m.req
    /\ m.is = "ready" /\ m.ok => m.card # NoCard
    /\ \A c \in calls : Answers(m, c)

LEMMA WriteKeeps ==
    ASSUME Channel, NEW m \in Messages, Write(m), Fits(m),
           \A i \in 1 .. Len(out) : m.req < out[i].id,
           m.req <= sent,
           Final(m) => ~Spent(m.req) /\ ~Arrives(m.req) /\ \A t \in turns' : t.req # m.req,
           turns' \subseteq turns, owed' \in {owed, None},
           UNCHANGED <<calls, sent, out, sessions>>
    PROVE  Channel' /\ SpentStay
<1> DEFINE last == Len(inbox) + 1
<1>1. /\ inbox' \in Seq(Messages) /\ Len(inbox') = last /\ inbox'[last] = m
      /\ \A i \in 1 .. Len(inbox') : i # last => i \in 1 .. Len(inbox) /\ inbox'[i] = inbox[i]
      /\ \A i \in 1 .. Len(inbox) : i \in 1 .. Len(inbox') /\ inbox'[i] = inbox[i]
  BY AppendProperties, ChannelNumbers DEF Channel, TypedChannel, Write
<1> HIDE DEF last
<1>2. TypedChannel'
  BY <1>1, Numbers DEF Channel, TypedChannel, Requests, None
<1>3. Numbered'
  BY <1>1, ChannelNumbers DEF Channel, Numbered, None
<1>4. InOrder'
  BY <1>1, ChannelNumbers DEF Channel, InOrder, None
<1>5. \A n : Arrives(n)' => Arrives(n) \/ (Final(m) /\ n = m.req)
  BY <1>1 DEF Arrives
<1>6. OneResult'
  <2>1. \A t \in turns' : ~Arrives(t.req)'
    <3> SUFFICES ASSUME NEW t \in turns, t \in turns', NEW n, n = t.req
                 PROVE  ~Arrives(n)'
      BY DEF Arrives
    <3> QED
      BY <1>5 DEF Channel, OneResult
  <2>2. ASSUME NEW i \in 1 .. Len(inbox'), NEW j \in 1 .. Len(inbox'),
               Final(inbox'[i]), Final(inbox'[j]), inbox'[i].req = inbox'[j].req
        PROVE  i = j
    BY <1>1, <2>2 DEF Channel, OneResult, Arrives
  <2> QED
    BY <2>1, <2>2 DEF Channel, OneResult
<1>7. CallsFit' /\ MessagesFit'
  BY <1>1 DEF Channel, CallsFit, MessagesFit, Fits, Answers
<1>8. RejectsFirst'
  <2> SUFFICES ASSUME NEW c \in calls, c.do = "reject", AnsweredFirst(c)
               PROVE  AnsweredFirst(c)'
    BY DEF Channel, RejectsFirst
  <2>1. ASSUME NEW j \in 1 .. Len(inbox), inbox[j].is = "response", inbox[j].req = c.id,
               \A i \in 1 .. (j - 1) : inbox[i].req < c.id
        PROVE  AnsweredFirst(c)'
    <3>1. j \in 1 .. Len(inbox') /\ inbox'[j] = inbox[j]
      BY <1>1
    <3>2. \A i \in 1 .. (j - 1) : inbox'[i].req < c.id
      <4>1. \A i \in 1 .. (j - 1) : i \in 1 .. Len(inbox)
        BY ChannelNumbers
      <4> QED
        BY <1>1, <2>1, <4>1
    <3> QED
      BY <2>1, <3>1, <3>2 DEF AnsweredFirst
  <2> QED
    BY <2>1 DEF AnsweredFirst
<1>9. SpentStay
  <2>1. ASSUME NEW n, Spent(n) PROVE Spent(n)'
    BY <1>5, <2>1 DEF Spent, Waits, Runs
  <2> QED
    BY <2>1, ChannelNumbers DEF SpentStay
<1> QED
  BY <1>2, <1>3, <1>4, <1>6, <1>7, <1>8, <1>9 DEF Channel

\* A turn that yields, asks or gets its answer is the same turn.
LEMMA TurnGoesOn ==
    ASSUME Channel, NEW t \in turns, NEW u \in TurnRecords, u.req = t.req,
           turns' = (turns \ {t}) \cup {u}, owed' \in {owed, t.req},
           UNCHANGED <<calls, sent, out, inbox, sessions>>
    PROVE  Channel' /\ SpentStay
<1>1. TypedChannel'
  BY TurnFields DEF Channel, TypedChannel, Requests, Ids
<1>2. Numbered'
  BY DEF Channel, Numbered
<1>3. InOrder'
  BY DEF Channel, InOrder
<1>4. \A n : (Runs(n)' <=> Runs(n)) /\ (Arrives(n)' <=> Arrives(n)) /\ (Waits(n)' <=> Waits(n))
  BY DEF Runs, Arrives, Waits
<1>5. OneResult'
  BY DEF Channel, OneResult, Arrives
<1>6. CallsFit' /\ MessagesFit' /\ RejectsFirst'
  BY DEF Channel, CallsFit, MessagesFit, RejectsFirst, AnsweredFirst, Answers
<1>7. SpentStay
  BY <1>4, ChannelNumbers DEF SpentStay, Spent
<1> QED
  BY <1>1, <1>2, <1>3, <1>5, <1>6, <1>7 DEF Channel

LEMMA YieldKeeps ==
    ASSUME Channel, NEW t \in turns, Yield(t)
    PROVE  Channel' /\ SpentStay /\ UNCHANGED Editing
<1> DEFINE u == [t EXCEPT !.yielded = TRUE]
<1>1. u \in TurnRecords /\ u.req = t.req
  BY DEF Channel, TypedChannel, TurnRecords
<1>2. turns' = (turns \ {t}) \cup {u} /\ owed' = t.req
  BY DEF Yield
<1>3. UNCHANGED <<Editing, calls, sent, out, inbox, sessions>>
  BY DEF Yield, Editing
<1> HIDE DEF u
<1> QED
  BY <1>1, <1>2, <1>3, TurnGoesOn

LEMMA TurnAsksKeeps ==
    ASSUME Channel, NEW t \in turns, TurnAsks(t)
    PROVE  Channel' /\ SpentStay /\ UNCHANGED Editing
<1>1. PICK q \in Questions : turns' = (turns \ {t}) \cup {[t EXCEPT !.asking = q]}
  BY DEF TurnAsks
<1> DEFINE u == [t EXCEPT !.asking = q]
<1>2. u \in TurnRecords /\ u.req = t.req
  BY DEF Channel, TypedChannel, TurnRecords
<1>3. turns' = (turns \ {t}) \cup {u}
  BY <1>1
<1>4. UNCHANGED <<Editing, calls, sent, out, inbox, sessions, owed>>
  BY DEF TurnAsks, Editing
<1> HIDE DEF u
<1> QED
  BY <1>2, <1>3, <1>4, TurnGoesOn

LEMMA QuestionEndsKeeps ==
    ASSUME Channel, NEW t \in turns, QuestionEnds(t)
    PROVE  Channel' /\ SpentStay /\ UNCHANGED Editing
<1> DEFINE u == [t EXCEPT !.asking = None]
<1>2. u \in TurnRecords /\ u.req = t.req
  BY DEF Channel, TypedChannel, TurnRecords
<1>3. turns' = (turns \ {t}) \cup {u}
  BY DEF QuestionEnds
<1>4. UNCHANGED <<Editing, calls, sent, out, inbox, sessions, owed>>
  BY DEF QuestionEnds, Editing
<1> HIDE DEF u
<1> QED
  BY <1>2, <1>3, <1>4, TurnGoesOn

LEMMA TurnEndsKeeps ==
    ASSUME Channel, NEW t \in turns, TurnEnds(t)
    PROVE  Channel' /\ SpentStay /\ UNCHANGED Editing
<1> DEFINE is == IF t.yielded THEN "ready" ELSE "response"
<1>1. /\ is \in {"ready", "response"} /\ t.req \in Ids /\ t.session \in Ids
      /\ t.session # None /\ t.session \in Requests
  BY TurnFields, Numbers DEF Channel, Ids, Requests
<1>2. PICK ok \in BOOLEAN, c \in Results(t.req) \cup {NoCard} :
         /\ Write(Message(is, t.req, t.session, ok, c))
         /\ ok => c # NoCard
  <2>1. CASE Write(Message(is, t.req, t.session, FALSE, NoCard))
    BY <2>1
  <2>2. ASSUME NEW c \in Results(t.req), Write(Message(is, t.req, t.session, TRUE, c))
        PROVE  c # NoCard
    BY <1>1 DEF Results, NoCard
  <2> QED
    BY <2>1, <2>2 DEF TurnEnds
<1> DEFINE m == Message(is, t.req, t.session, ok, c)
<1>3. c \in Cards /\ c.kind # "working" /\ (c # NoCard => c.req = t.req)
  BY <1>1 DEF Results, NoCard, Cards, Ids
<1>4. /\ m \in Messages /\ m.req = t.req /\ m.ok = ok /\ m.card = c /\ m.is = is
      /\ m.session # None
  BY <1>1, <1>3 DEF Message, Messages
<1>5. Fits(m) /\ Final(m)
  BY <1>2, <1>3, <1>4 DEF Fits, Final, Answers
<1>6. /\ \A i \in 1 .. Len(out) : m.req < out[i].id
      /\ m.req <= sent /\ ~Arrives(m.req)
  BY <1>4 DEF Channel, InOrder, Numbered, OneResult
<1>7. ~Spent(m.req)
  BY <1>4 DEF Spent, Runs
<1>8. \A u \in turns' : u.req # m.req
  BY <1>4 DEF Channel, OneResult, TurnEnds
<1>9. /\ turns' \subseteq turns /\ owed' = owed
      /\ UNCHANGED <<Editing, calls, sent, out, sessions>>
  BY DEF TurnEnds, Editing
<1>10. Write(m)
  BY <1>2
<1> HIDE DEF m
<1> QED
  BY <1>4, <1>5, <1>6, <1>7, <1>8, <1>9, <1>10, WriteKeeps

LEMMA WriteWorkingKeeps ==
    ASSUME Channel, WriteWorking
    PROVE  Channel' /\ SpentStay /\ UNCHANGED Editing
<1>1. PICK r \in calls : /\ r.id = owed
                         /\ Write(Message("response", owed,
                                          IF r.do = "start" THEN owed ELSE r.session, TRUE,
                                          [req |-> owed, kind |-> "working"]))
  BY DEF WriteWorking
<1> DEFINE s == IF r.do = "start" THEN owed ELSE r.session
           c == [req |-> owed, kind |-> "working"]
           m == Message("response", owed, s, TRUE, c)
<1>2. owed \in Ids /\ s \in Requests /\ c \in Cards /\ c # NoCard /\ owed # None
  BY <1>1, CallFields, Numbers DEF Channel, TypedChannel, Ids, Cards, NoCard
<1>3. /\ m \in Messages /\ m.req = owed /\ m.ok = TRUE /\ m.card = c /\ m.is = "response"
      /\ m.session = s /\ ~Final(m)
  BY <1>2 DEF Message, Messages, Final
<1>4. Fits(m)
  <2>1. ASSUME NEW d \in calls, d.id = m.req, d.do = "start" PROVE m.session # None
    <3>1. d = r
      BY <1>1, <1>3, <2>1 DEF Channel, CallsFit
    <3> QED
      BY <1>2, <1>3, <2>1, <3>1
  <2>2. c.req = owed
    OBVIOUS
  <2> HIDE DEF c, m
  <2> QED
    BY <1>2, <1>3, <2>1, <2>2 DEF Fits, Answers
<1>5. /\ \A i \in 1 .. Len(out) : m.req < out[i].id
      /\ m.req <= sent
  BY <1>3 DEF Channel, InOrder, Numbered
<1>6. /\ turns' = turns /\ owed' = None
      /\ UNCHANGED <<Editing, calls, sent, out, sessions>>
  BY DEF WriteWorking, Editing
<1>7. Write(m)
  BY <1>1
<1> HIDE DEF m
<1> QED
  BY <1>3, <1>4, <1>5, <1>6, <1>7, WriteKeeps

-----------------------------------------------------------------------------
\* The oldest request is served: by a turn, or at once.
LEMMA Served ==
    ASSUME Channel, out # <<>>, out' = Tail(out)
    PROVE  /\ Head(out) = out[1] /\ Head(out) \in CallRecords /\ 1 \in 1 .. Len(out)
           /\ Head(out).id \in Ids
           /\ out' \in Seq(CallRecords)
           /\ \A i \in 1 .. Len(out') :
                 /\ i + 1 \in 1 .. Len(out) /\ out'[i] = out[i + 1]
                 /\ Head(out).id < out'[i].id
           /\ \A i \in 1 .. Len(out) : i # 1 =>
                 i - 1 \in 1 .. Len(out') /\ out'[i - 1] = out[i]
           /\ \A t \in turns : t.req < Head(out).id
           /\ \A j \in 1 .. Len(inbox) : inbox[j].req < Head(out).id
           /\ \A i, j \in 1 .. Len(out') : i < j => out'[i].id < out'[j].id
<1>1. /\ out \in Seq(CallRecords) /\ Len(out) \in Nat /\ Head(out) = out[1]
      /\ 1 \in 1 .. Len(out)
  BY ChannelNumbers, HeadTailProperties, EmptySeq DEF Channel, TypedChannel
<1>2. /\ out' \in Seq(CallRecords) /\ Len(out') = Len(out) - 1
      /\ \A i \in 1 .. Len(out') : out'[i] = out[i + 1]
  BY <1>1, HeadTailProperties
<1>3. \A i \in 1 .. Len(out') : i + 1 \in 1 .. Len(out) /\ out'[i] = out[i + 1] /\ 1 < i + 1
  BY <1>1, <1>2
<1>4. \A i \in 1 .. Len(out) : i # 1 => i - 1 \in 1 .. Len(out') /\ out'[i - 1] = out[i]
  BY <1>1, <1>2
<1>5. \A i \in 1 .. Len(out') : Head(out).id < out'[i].id
  BY <1>1, <1>3 DEF Channel, InOrder
<1>6. \A i, j \in 1 .. Len(out') : i < j => out'[i].id < out'[j].id
  BY <1>1, <1>3 DEF Channel, InOrder
<1>7. /\ \A t \in turns : t.req < Head(out).id
      /\ \A j \in 1 .. Len(inbox) : inbox[j].req < Head(out).id
      /\ Head(out) \in CallRecords /\ Head(out).id \in Ids
  BY <1>1, OutFields DEF Channel, InOrder
<1> QED
  BY <1>1, <1>2, <1>3, <1>4, <1>5, <1>6, <1>7

LEMMA ServedByTurn ==
    ASSUME Channel, out # <<>>, out' = Tail(out),
           NEW u \in TurnRecords, u.req = Head(out).id, Head(out).do # "reject",
           NEW others \in SUBSET turns, turns' = others \cup {u},
           sessions' \subseteq sessions \cup {Head(out).id},
           UNCHANGED <<calls, sent, inbox, owed>>
    PROVE  Channel' /\ SpentStay
<1>1. Head(out).id <= sent /\ Head(out).id \in 1 .. sent
  BY Served, ChannelNumbers
<1>2. TypedChannel'
  BY <1>1, Served DEF Channel, TypedChannel
<1>3. Numbered'
  BY <1>1, Served DEF Channel, Numbered
<1>4. InOrder'
  BY Served DEF Channel, InOrder
<1>5. OneResult'
  <2>1. \A t, v \in turns' : t.req = v.req => t = v
    BY Served, ChannelNumbers, <1>1 DEF Channel, OneResult
  <2>2. \A i \in 1 .. Len(inbox) : inbox[i].req # u.req
    BY Served, ChannelNumbers, <1>1
  <2>3. \A t \in turns' : ~Arrives(t.req)
    BY <2>2 DEF Channel, OneResult, Arrives
  <2> QED
    BY <2>1, <2>3 DEF Channel, OneResult, Arrives
<1>6. CallsFit' /\ MessagesFit'
  BY Served DEF Channel, CallsFit, MessagesFit, Answers
<1>7. RejectsFirst'
  <2> SUFFICES ASSUME NEW c \in calls, c.do = "reject", AnsweredFirst(c)
               PROVE  AnsweredFirst(c)'
    BY DEF Channel, RejectsFirst
  <2>1. ASSUME NEW i \in 1 .. Len(out), out[i] = c PROVE AnsweredFirst(c)'
    <3>1. i # 1
      BY <2>1, Served
    <3>2. i - 1 \in 1 .. Len(out') /\ out'[i - 1] = c
      BY <2>1, <3>1, Served
    <3> QED
      BY <3>2 DEF AnsweredFirst
  <2> QED
    BY <2>1 DEF AnsweredFirst
<1>8. SpentStay
  <2> SUFFICES ASSUME NEW n, Spent(n) PROVE Spent(n)'
    BY ChannelNumbers DEF SpentStay
  <2>1. n # u.req
    BY Served DEF Spent, Waits
  <2>2. ~Waits(n)'
    BY Served DEF Spent, Waits
  <2> QED
    BY <2>1, <2>2 DEF Spent, Runs, Arrives
<1> QED
  BY <1>2, <1>3, <1>4, <1>5, <1>6, <1>7, <1>8 DEF Channel

LEMMA ServedAtOnce ==
    ASSUME Channel, out # <<>>, out' = Tail(out),
           NEW m \in Messages, Write(m), m.req = Head(out).id, m.is = "response",
           Fits(m), Final(m),
           turns' \subseteq turns, sessions' \subseteq sessions,
           UNCHANGED <<calls, sent, owed>>
    PROVE  Channel' /\ SpentStay
<1> DEFINE last == Len(inbox) + 1
<1>1. /\ inbox' \in Seq(Messages) /\ Len(inbox') = last /\ inbox'[last] = m
      /\ \A i \in 1 .. Len(inbox') : i # last => i \in 1 .. Len(inbox) /\ inbox'[i] = inbox[i]
      /\ \A i \in 1 .. Len(inbox) : i \in 1 .. Len(inbox') /\ inbox'[i] = inbox[i]
      /\ last \in 1 .. Len(inbox') /\ last - 1 = Len(inbox)
  BY AppendProperties, ChannelNumbers DEF Channel, TypedChannel, Write
<1> HIDE DEF last
<1>2. m.req <= sent /\ m.req \in 1 .. sent
  BY Served, ChannelNumbers
<1>3. TypedChannel'
  BY <1>1, Served DEF Channel, TypedChannel
<1>4. Numbered'
  BY <1>1, <1>2, Served DEF Channel, Numbered
<1>5. InOrder'
  <2>1. ASSUME NEW i \in 1 .. Len(out'), NEW j \in 1 .. Len(inbox')
        PROVE  inbox'[j].req < out'[i].id
    BY <1>1, Served DEF Channel, InOrder
  <2>2. ASSUME NEW i \in 1 .. Len(out')
        PROVE  owed < out'[i].id /\ \A t \in turns' : t.req < out'[i].id
    BY Served DEF Channel, InOrder
  <2> QED
    BY <2>1, <2>2, Served DEF InOrder
<1>6. /\ \A t \in turns : t.req # m.req
      /\ \A j \in 1 .. Len(inbox) : inbox[j].req # m.req
  BY <1>2, Served, ChannelNumbers
<1>7. \A n : Arrives(n)' => Arrives(n) \/ n = m.req
  BY <1>1 DEF Arrives
<1>8. OneResult'
  <2>1. \A t \in turns' : ~Arrives(t.req)'
    <3> SUFFICES ASSUME NEW t \in turns, NEW n, n = t.req PROVE ~Arrives(n)'
      BY DEF Arrives
    <3> QED
      BY <1>6, <1>7 DEF Channel, OneResult
  <2>2. ASSUME NEW i \in 1 .. Len(inbox'), NEW j \in 1 .. Len(inbox'),
               Final(inbox'[i]), Final(inbox'[j]), inbox'[i].req = inbox'[j].req
        PROVE  i = j
    BY <1>1, <1>6, <2>2 DEF Channel, OneResult
  <2> QED
    BY <2>1, <2>2 DEF Channel, OneResult
<1>9. CallsFit' /\ MessagesFit'
  <2>1. CallsFit'
    BY Served DEF Channel, CallsFit
  <2>2. MessagesFit'
    BY <1>1 DEF Channel, MessagesFit, Fits, Answers
  <2> QED
    BY <2>1, <2>2
<1>10. RejectsFirst'
  <2> SUFFICES ASSUME NEW c \in calls, c.do = "reject", AnsweredFirst(c)
               PROVE  AnsweredFirst(c)'
    BY DEF Channel, RejectsFirst
  <2>1. ASSUME NEW i \in 1 .. Len(out), out[i] = c PROVE AnsweredFirst(c)'
    <3>1. CASE i = 1
      <4>1. c.id = m.req
        BY <2>1, <3>1, Served
      <4>2. \A k \in 1 .. (last - 1) : inbox'[k].req < c.id
        BY <1>1, <4>1, Served
      <4> QED
        BY <1>1, <4>1, <4>2 DEF AnsweredFirst
    <3>2. CASE i # 1
      <4>1. i - 1 \in 1 .. Len(out') /\ out'[i - 1] = c
        BY <2>1, <3>2, Served
      <4> QED
        BY <4>1 DEF AnsweredFirst
    <3> QED
      BY <3>1, <3>2
  <2>2. ASSUME NEW j \in 1 .. Len(inbox), inbox[j].is = "response", inbox[j].req = c.id,
               \A i \in 1 .. (j - 1) : inbox[i].req < c.id
        PROVE  AnsweredFirst(c)'
    <3>1. j \in 1 .. Len(inbox') /\ inbox'[j] = inbox[j]
      BY <1>1
    <3>2. \A i \in 1 .. (j - 1) : inbox'[i].req < c.id
      <4>1. \A i \in 1 .. (j - 1) : i \in 1 .. Len(inbox)
        BY ChannelNumbers
      <4> QED
        BY <1>1, <2>2, <4>1
    <3> QED
      BY <2>2, <3>1, <3>2 DEF AnsweredFirst
  <2> QED
    BY <2>1, <2>2 DEF AnsweredFirst
<1>11. SpentStay
  <2> SUFFICES ASSUME NEW n, Spent(n) PROVE Spent(n)'
    BY ChannelNumbers DEF SpentStay
  <2>1. n # m.req
    BY Served DEF Spent, Waits
  <2>2. ~Waits(n)'
    BY Served DEF Spent, Waits
  <2> QED
    BY <1>7, <2>1, <2>2 DEF Spent, Runs
<1> QED
  BY <1>3, <1>4, <1>5, <1>8, <1>9, <1>10, <1>11 DEF Channel

LEMMA ServeKeeps ==
    ASSUME Channel, Serve
    PROVE  Channel' /\ SpentStay /\ UNCHANGED Editing
<1> DEFINE r == Head(out)
           others == {t \in turns : t.session # r.session}
<1>1. /\ out # <<>> /\ out' = Tail(out) /\ UNCHANGED <<Editing, calls, sent, owed>>
  BY DEF Serve, Editing
<1>2. /\ r \in CallRecords /\ r.id \in Ids /\ r.id \in Nat /\ 1 \in 1 .. Len(out)
      /\ r = out[1] /\ r.session \in Requests /\ r.do \in Doings
  BY <1>1, Served, Numbers DEF CallRecords
<1>3. sessions \subseteq Ids /\ others \subseteq turns
  <2>1. \A n \in 1 .. sent : n \in Ids
    BY ChannelNumbers, WindowAssumption DEF Ids
  <2> QED
    BY <2>1 DEF Channel, TypedChannel
<1>4. ASSUME NEW s \in Ids, r.do # "reject", UNCHANGED inbox,
             \/ turns' = turns \cup {Turn(r.id, s)}
             \/ turns' = others \cup {Turn(r.id, s)},
             sessions' \subseteq sessions \cup {r.id}
      PROVE  Channel' /\ SpentStay
  <2> DEFINE u == Turn(r.id, s)
  <2>1. u \in TurnRecords /\ u.req = r.id
    BY <1>2, <1>4 DEF Turn, TurnRecords
  <2>2. turns' = turns \cup {u} \/ turns' = others \cup {u}
    BY <1>4
  <2> HIDE DEF u, others
  <2> QED
    BY <1>1, <1>3, <1>4, <2>1, <2>2, ServedByTurn
<1>5. ASSUME NEW ok \in BOOLEAN, NEW c \in {NoCard, [req |-> r.id, kind |-> "patch"]},
             Write(Message("response", r.id, r.session, ok, c)),
             ok /\ r.do \in TurnRequests => c # NoCard,
             r.do = "start" => ~ok,
             turns' \subseteq turns, sessions' \subseteq sessions
      PROVE  Channel' /\ SpentStay
  <2> DEFINE m == Message("response", r.id, r.session, ok, c)
  <2>1. c \in Cards /\ c.kind # "working" /\ (c # NoCard => c.req = r.id)
    BY <1>2, <1>5 DEF NoCard, Cards, Ids
  <2>2. /\ m \in Messages /\ m.req = r.id /\ m.ok = ok /\ m.card = c
        /\ m.is = "response" /\ Final(m)
    BY <1>2, <1>5, <2>1 DEF Message, Messages, Final
  <2>3. Write(m)
    BY <1>5
  <2> HIDE DEF m, r
  <2>4. Fits(m)
    <3>1. ASSUME NEW d \in calls, d.id = m.req PROVE d = r
      BY <1>2, <2>2, <3>1 DEF Channel, CallsFit
    <3> QED
      BY <1>5, <2>1, <2>2, <3>1 DEF Fits, Answers
  <2> QED
    BY <1>1, <1>5, <2>2, <2>3, <2>4, ServedAtOnce DEF r
<1>6. CASE /\ r.do = "start" /\ sessions' = sessions \cup {r.id}
           /\ turns' = turns \cup {Turn(r.id, r.id)} /\ UNCHANGED inbox
  BY <1>1, <1>2, <1>4, <1>6
<1>7. CASE /\ r.do \in {"reply", "accept"} /\ r.session \in sessions
           /\ turns' = others \cup {Turn(r.id, r.session)} /\ UNCHANGED <<sessions, inbox>>
  BY <1>1, <1>3, <1>4, <1>7
<1>8. CASE /\ r.do = "accept" /\ turns' = others
           /\ Write(Message("response", r.id, r.session, TRUE,
                            [req |-> r.id, kind |-> "patch"]))
           /\ UNCHANGED sessions
  BY <1>1, <1>3, <1>5, <1>8 DEF NoCard
<1>9. CASE /\ r.do \in {"reject", "cancel"} /\ turns' = others
           /\ Write(Message("response", r.id, r.session, TRUE, NoCard))
           /\ UNCHANGED sessions
  BY <1>1, <1>3, <1>5, <1>9 DEF TurnRequests
<1>10. CASE /\ r.do \in {"reply", "accept", "reject", "cancel"} /\ turns' = others
            /\ Write(Message("response", r.id, r.session, FALSE, NoCard))
            /\ UNCHANGED sessions
  BY <1>1, <1>3, <1>5, <1>10
<1>11. CASE /\ r.do = "stop" /\ sessions' = sessions \ {r.session} /\ turns' = others
            /\ Write(Message("response", r.id, r.session, TRUE, NoCard))
  BY <1>1, <1>3, <1>5, <1>11 DEF TurnRequests
<1> QED
  BY <1>1, <1>6, <1>7, <1>8, <1>9, <1>10, <1>11 DEF Serve

-----------------------------------------------------------------------------
(***************************************************************************)
(* The screen                                                              *)
(***************************************************************************)
\* What was decided stays true of the pipes when no decision is made.
LEMMA HistoryKept ==
    ASSUME History, SpentStay, UNCHANGED <<applied, rejected>>
    PROVE  History' /\ Decided' = Decided
<1>1. Decided' = Decided
  BY DEF Decided
<1>2. DecidedFit'
  BY <1>1 DEF History, DecidedFit, SpentStay
<1> QED
  BY <1>1, <1>2 DEF History, TypedHistory, ReportsFit

LEMMA DroppedKept ==
    ASSUME Channel, Channel', SpentStay, DroppedFit, dropped' = dropped
    PROVE  DroppedFit'
<1>1. sent \in Nat /\ sent' \in Nat /\ sent <= sent'
  BY Numbers DEF Channel, TypedChannel, SpentStay
<1> QED
  BY <1>1 DEF DroppedFit

\* A question settled is answered once more.
LEMMA SettleType ==
    ASSUME answers \in [Questions -> Nat], Settle
    PROVE  gate' = None /\ answers' \in [Questions -> Nat]
BY DEF Settle

\* The view, and what is previewed, after a card is shown.
LEMMA ShownFits ==
    ASSUME TypedScreen, NEW c \in Cards, c # NoCard, Shown(c),
           draft # NoCard => draft = c, ops # NoCard => ops = c
    PROVE  /\ card' = c
           /\ agent' \in Agents /\ agent'.view # "closed"
           /\ draft' \in {NoCard, c} /\ draft'.kind \in {"none", "patch"}
           /\ ops' \in {NoCard, c} /\ ops'.kind \in {"none", "ops"}
           /\ keyCard' \in Cards /\ keyCard'.kind # "working"
           /\ c.kind = "working" =>
                 /\ draft' = NoCard /\ ops' = NoCard
                 /\ agent'.working /\ agent'.view \notin Shows
<1> DEFINE review(valid) == CASE c.kind = "patch" -> draft # NoCard \/ valid
                              [] c.kind = "ops" -> valid
                              [] OTHER -> FALSE
           view(valid) == IF review(valid) THEN "review"
                          ELSE IF c.kind = "working" THEN "working" ELSE "response"
<1>1. PICK valid \in BOOLEAN :
         /\ Render(view(valid), c.kind = "working")
         /\ draft' = CASE c.kind \notin Proposals -> NoCard
                       [] c.kind = "patch" /\ draft = NoCard /\ valid -> c
                       [] OTHER -> draft
         /\ ops' = CASE c.kind \notin Proposals -> NoCard
                     [] c.kind = "ops" /\ valid -> c
                     [] OTHER -> ops
         /\ keyCard' = IF c.kind = "working" \/ (c.kind = "ops" /\ review(valid))
                       THEN keyCard ELSE c
  BY DEF Shown
<1>2. /\ view(valid) \in {"review", "working", "response"}
      /\ c.kind = "working" => view(valid) = "working"
  OBVIOUS
<1> HIDE DEF view, review
<1>3. /\ agent' \in Agents /\ agent'.view = view(valid)
      /\ agent'.working = (c.kind = "working")
  BY <1>1, <1>2 DEF Render, Agents, Views, TypedScreen
<1>4. draft' \in {NoCard, c} /\ draft'.kind \in {"none", "patch"}
  <2>1. CASE c.kind \notin Proposals
    BY <1>1, <2>1 DEF NoCard
  <2>2. CASE c.kind \in Proposals /\ c.kind = "patch" /\ draft = NoCard /\ valid
    BY <1>1, <2>2
  <2>3. CASE c.kind \in Proposals /\ ~(c.kind = "patch" /\ draft = NoCard /\ valid)
    BY <1>1, <2>3 DEF TypedScreen
  <2> QED
    BY <2>1, <2>2, <2>3
<1>5. ops' \in {NoCard, c} /\ ops'.kind \in {"none", "ops"}
  <2>1. CASE c.kind \notin Proposals
    BY <1>1, <2>1 DEF NoCard
  <2>2. CASE c.kind \in Proposals /\ c.kind = "ops" /\ valid
    BY <1>1, <2>2
  <2>3. CASE c.kind \in Proposals /\ ~(c.kind = "ops" /\ valid)
    BY <1>1, <2>3 DEF TypedScreen
  <2> QED
    BY <2>1, <2>2, <2>3
<1>6. c.kind = "working" => draft' = NoCard /\ ops' = NoCard
  BY <1>1 DEF Proposals
<1>7. keyCard' \in Cards /\ keyCard'.kind # "working"
  BY <1>1 DEF TypedScreen
<1>8. card' = c
  BY DEF Shown
<1> QED
  BY <1>2, <1>3, <1>4, <1>5, <1>6, <1>7, <1>8 DEF Shows

LEMMA Showing ==
    ASSUME TypedScreen, NEW c \in Cards, c # NoCard,
           draft # NoCard => draft = c, ops # NoCard => ops = c,
           c.kind = "working" => Quiet,
           gate # None => agent.view \notin Shows,
           ShowCard(c) \/ (Settle /\ Shown(c))
    PROVE  /\ card' = c
           /\ agent' \in Agents /\ (agent'.hidden => agent'.view # "closed")
           /\ draft' \in {NoCard, c} /\ draft'.kind \in {"none", "patch"}
           /\ ops' \in {NoCard, c} /\ ops'.kind \in {"none", "ops"}
           /\ keyCard' \in Cards /\ keyCard'.kind # "working"
           /\ gate' \in {None} \cup Questions /\ answers' \in [Questions -> Nat]
           /\ c.kind = "working" =>
                 /\ draft' = NoCard /\ ops' = NoCard
                 /\ agent'.working /\ agent'.view \notin Shows
           /\ c.kind # "working" => gate' = None
<1>1. CASE Settle /\ Shown(c)
  BY <1>1, ShownFits, SettleType DEF TypedScreen
<1>2. CASE gate # None /\ c.kind = "working" /\ Recorded(c)
  <2>1. /\ card' = c /\ agent' = [agent EXCEPT !.working = TRUE]
        /\ UNCHANGED <<gate, answers, draft, ops, keyCard>>
    BY <1>2 DEF Recorded
  <2>2. /\ agent' \in Agents /\ agent'.working /\ agent'.view = agent.view
        /\ agent'.hidden = agent.hidden
    BY <2>1 DEF TypedScreen, Agents
  <2> QED
    BY <1>2, <2>1, <2>2 DEF TypedScreen, Quiet
<1> QED
  BY <1>1, <1>2 DEF ShowCard

\* What a shown card must be for the screen to stay true.
LEMMA ShowKeeps ==
    ASSUME WInv, Channel', SpentStay, NEW c \in Cards, c # NoCard,
           ShowCard(c) \/ (Settle /\ Shown(c)),
           draft # NoCard => draft = c, ops # NoCard => ops = c,
           c.kind = "working" => Quiet,
           UNCHANGED <<applied, rejected, dropped, prompt, written>>,
           stash' \in 0 .. written, session' \in Requests, cancelled' \in Requests,
           barrier' \in BOOLEAN,
           session' # None, thinking' = None, c.req <= sent',
           Expected \/ thinking # None \/ (session # None /\ ~Expected'),
           c.kind = "working" /\ c.req # cancelled' =>
               c.req \notin dropped /\ \A d \in calls' : d.do # "reject",
           \A n : c.kind # "working" /\ n = c.req => Spent(n)',
           c.kind # "working" => c \notin Decided /\ c.req \notin dropped
    PROVE  WInv'
<1>1. /\ TypedScreen /\ ScreenFits /\ PromptFits /\ CardFits /\ ShownIsFresh
      /\ TypedPrompt /\ DroppedFit /\ History /\ Channel
  BY DEF WInv, Screen
<1>2. /\ card' = c
      /\ agent' \in Agents /\ (agent'.hidden => agent'.view # "closed")
      /\ draft' \in {NoCard, c} /\ draft'.kind \in {"none", "patch"}
      /\ ops' \in {NoCard, c} /\ ops'.kind \in {"none", "ops"}
      /\ keyCard' \in Cards /\ keyCard'.kind # "working"
      /\ gate' \in {None} \cup Questions /\ answers' \in [Questions -> Nat]
      /\ c.kind = "working" =>
            /\ draft' = NoCard /\ ops' = NoCard
            /\ agent'.working /\ agent'.view \notin Shows
      /\ c.kind # "working" => gate' = None
  <2>1. gate # None => agent.view \notin Shows
    BY <1>1 DEF ShownIsFresh
  <2> QED
    BY <1>1, <2>1, Showing
<1>3. History' /\ Decided' = Decided
  BY <1>1, HistoryKept
<1>4. DroppedFit'
  BY <1>1, DroppedKept
<1>5. TypedPrompt'
  BY <1>1 DEF TypedPrompt
<1>6. TypedScreen'
  BY <1>2, Numbers DEF TypedScreen
<1>7. ScreenFits'
  BY <1>2 DEF ScreenFits, Expected, Quiet
<1>8. PromptFits'
  <2>1. prompt.kind = "Reply" /\ (prompt.open \/ prompt.submitting # None) => ~Expected'
    BY <1>1 DEF PromptFits
  <2>2. ~(~prompt.open /\ prompt.submitting # None)
    BY <1>1, Numbers DEF PromptFits, ScreenFits, Expected, NoCard
  <2> QED
    BY <2>1, <2>2 DEF PromptFits
<1>9. CardFits'
  BY <1>2 DEF CardFits
<1>10. ShownIsFresh'
  BY <1>2, <1>3 DEF ShownIsFresh
<1> QED
  BY <1>3, <1>4, <1>5, <1>6, <1>7, <1>8, <1>9, <1>10 DEF WInv, Screen

-----------------------------------------------------------------------------
(***************************************************************************)
(* One lemma for each action                                               *)
(***************************************************************************)
\* The daemon's steps do not touch the editor.
LEMMA EditorKept ==
    ASSUME WInv, Channel', SpentStay, UNCHANGED Editing
    PROVE  WInv'
<1>1. UNCHANGED <<session, thinking, barrier, cancelled, card, agent, keyCard, prompt, stash,
                  gate, draft, ops, calls, sent, answers, applied, rejected, dropped,
                  written, settled>>
  BY DEF Editing, editor, history
<1>2. History' /\ Decided' = Decided
  BY <1>1, HistoryKept DEF WInv
<1>3. DroppedFit' /\ TypedPrompt'
  BY <1>1 DEF WInv, DroppedFit, TypedPrompt
<1>4. TypedScreen' /\ ScreenFits' /\ PromptFits'
  BY <1>1 DEF WInv, Screen, TypedScreen, ScreenFits, PromptFits, Expected, Quiet
<1>5. CardFits'
  BY <1>1 DEF WInv, Screen, CardFits, SpentStay
<1>6. ShownIsFresh'
  BY <1>1, <1>2 DEF WInv, Screen, ShownIsFresh
<1> QED
  BY <1>2, <1>3, <1>4, <1>5, <1>6 DEF WInv, Screen

LEMMA DaemonKeeps ==
    ASSUME WInv, Daemon PROVE WInv'
<1>1. Channel
  BY DEF WInv
<1>2. CASE Serve
  BY <1>1, <1>2, ServeKeeps, EditorKept
<1>3. CASE WriteWorking
  BY <1>1, <1>3, WriteWorkingKeeps, EditorKept
<1>4. ASSUME NEW t \in turns, Yield(t) \/ TurnEnds(t) \/ TurnAsks(t) \/ QuestionEnds(t)
      PROVE  WInv'
  BY <1>1, <1>4, YieldKeeps, TurnEndsKeeps, TurnAsksKeeps, QuestionEndsKeeps, EditorKept
<1> QED
  BY <1>2, <1>3, <1>4 DEF Daemon

\* A step of the editor that sends nothing and decides nothing.
Still == UNCHANGED <<channel, inbox, daemon, applied, rejected, dropped>>

LEMMA StillKeeps ==
    ASSUME WInv, Still
    PROVE  /\ Channel' /\ SpentStay /\ History' /\ Decided' = Decided /\ DroppedFit'
           /\ UNCHANGED <<sent, calls>>
           /\ card' = card => CardFits'
<1>1. UNCHANGED ChannelVars
  BY DEF Still, channel, daemon, ChannelVars
<1>2. Channel' /\ SpentStay
  BY <1>1, ChannelIsLeftAlone DEF WInv, Channel
<1>3. History' /\ Decided' = Decided /\ DroppedFit'
  BY <1>2, HistoryKept, DroppedKept DEF WInv, Still
<1>4. card' = card => CardFits'
  BY <1>2, <1>1 DEF WInv, Screen, CardFits, SpentStay, ChannelVars
<1> QED
  BY <1>1, <1>2, <1>3, <1>4 DEF ChannelVars

LEMMA PromptOpensKeeps ==
    ASSUME WInv, PromptOpens PROVE WInv'
<1>1. Still /\ UNCHANGED <<session, thinking, barrier, cancelled, card, agent, keyCard, stash,
                           gate, draft, ops, answers, written>>
  BY DEF PromptOpens, Still, history
<1>2. prompt' = [open |-> TRUE, kind |-> "Prompt", submitting |-> None,
                 returns |-> session # None]
  BY DEF PromptOpens, OpenPrompt
<1>3. TypedPrompt'
  BY <1>1, <1>2, Numbers DEF WInv, TypedPrompt, None
<1>4. TypedScreen' /\ ScreenFits'
  BY <1>1, StillKeeps DEF WInv, Screen, TypedScreen, ScreenFits, Expected, Quiet, Still
<1>5. PromptFits'
  BY <1>2 DEF PromptFits
<1>6. ShownIsFresh'
  BY <1>1, StillKeeps DEF WInv, Screen, ShownIsFresh, Still
<1> QED
  BY <1>1, <1>3, <1>4, <1>5, <1>6, StillKeeps DEF WInv, Screen

LEMMA ReplyOpensKeeps ==
    ASSUME WInv, ReplyOpens PROVE WInv'
<1>1. Still /\ UNCHANGED <<session, thinking, barrier, cancelled, card, agent, keyCard, stash,
                           gate, draft, ops, answers, written>>
  BY DEF ReplyOpens, Still, history
<1>2. prompt' = [open |-> TRUE, kind |-> "Reply", submitting |-> None, returns |-> TRUE]
  BY DEF ReplyOpens, OpenPrompt
<1>3. TypedPrompt'
  BY <1>1, <1>2, Numbers DEF WInv, TypedPrompt, None
<1>4. TypedScreen' /\ ScreenFits'
  BY <1>1, StillKeeps DEF WInv, Screen, TypedScreen, ScreenFits, Expected, Quiet, Still
<1>5. PromptFits'
  <2>1. thinking = None /\ ~agent.working
    BY DEF ReplyOpens, Working
  <2>2. ~Expected
    BY <2>1 DEF WInv, Screen, ScreenFits
  <2> QED
    BY <1>1, <1>2, <2>1, <2>2 DEF PromptFits, Expected
<1>6. ShownIsFresh'
  BY <1>1, StillKeeps DEF WInv, Screen, ShownIsFresh, Still
<1> QED
  BY <1>1, <1>3, <1>4, <1>5, <1>6, StillKeeps DEF WInv, Screen

\* The prompt is written in, submitted or closed.
LEMMA PromptClosesKeeps ==
    ASSUME WInv, PromptCloses PROVE WInv'
<1>1. Still /\ UNCHANGED <<session, thinking, barrier, cancelled, card, keyCard, stash, gate,
                           draft, ops, answers, written>>
  BY DEF PromptCloses, Still, history
<1>2. prompt' = [open |-> FALSE, kind |-> "Prompt", submitting |-> None, returns |-> FALSE]
  BY DEF PromptCloses, NoPrompt
<1>3. TypedPrompt'
  BY <1>1, <1>2, Numbers DEF WInv, TypedPrompt, None
<1>4. /\ agent' \in Agents /\ agent'.view = agent.view /\ agent'.working = agent.working
      /\ agent'.hidden => agent.hidden
  BY DEF PromptCloses, WInv, Screen, TypedScreen, Agents
<1>5. TypedScreen' /\ ScreenFits'
  BY <1>1, <1>4, StillKeeps DEF WInv, Screen, TypedScreen, ScreenFits, Expected, Quiet, Still
<1>6. PromptFits'
  BY <1>2 DEF PromptFits
<1>7. ShownIsFresh'
  BY <1>1, <1>4, StillKeeps DEF WInv, Screen, ShownIsFresh, Still
<1> QED
  BY <1>1, <1>3, <1>5, <1>6, <1>7, StillKeeps DEF WInv, Screen

LEMMA SubmitKeeps ==
    ASSUME WInv, Submit PROVE WInv'
<1>1. Still /\ UNCHANGED <<session, thinking, barrier, cancelled, card, agent, keyCard, gate,
                           draft, ops, answers>>
  BY DEF Submit, Still
<1>2. /\ written \in Nat /\ written' = written + 1 /\ stash' = written + 1
      /\ prompt' = [prompt EXCEPT !.submitting = written + 1] /\ prompt.open
  BY DEF Submit, WInv, TypedPrompt
<1>3. TypedPrompt' /\ prompt'.open /\ prompt'.kind = prompt.kind
  <2>1. 0 .. written \subseteq 0 .. written' /\ written + 1 \in 0 .. written'
    BY <1>2
  <2> QED
    BY <1>2, <2>1 DEF WInv, TypedPrompt
<1>4. TypedScreen' /\ ScreenFits'
  BY <1>1, StillKeeps DEF WInv, Screen, TypedScreen, ScreenFits, Expected, Quiet, Still
<1>5. PromptFits'
  BY <1>1, <1>2, <1>3 DEF WInv, Screen, PromptFits, Expected
<1>6. ShownIsFresh'
  BY <1>1, StillKeeps DEF WInv, Screen, ShownIsFresh, Still
<1> QED
  BY <1>1, <1>3, <1>4, <1>5, <1>6, StillKeeps DEF WInv, Screen

LEMMA HideKeeps ==
    ASSUME WInv, Hide PROVE WInv'
<1>1. Still /\ UNCHANGED <<session, thinking, barrier, cancelled, card, keyCard, stash, gate,
                           draft, ops, answers, written, prompt>>
  BY DEF Hide, Still, history
<1>2. /\ agent' \in Agents /\ agent'.view = agent.view /\ agent'.working = agent.working
      /\ agent.view # "closed"
  BY DEF Hide, WInv, Screen, TypedScreen, Agents
<1>3. TypedScreen' /\ ScreenFits' /\ PromptFits' /\ TypedPrompt'
  BY <1>1, <1>2, StillKeeps
     DEF WInv, Screen, TypedScreen, ScreenFits, PromptFits, TypedPrompt, Expected, Quiet, Still
<1>4. ShownIsFresh'
  BY <1>1, <1>2, StillKeeps DEF WInv, Screen, ShownIsFresh, Still
<1> QED
  BY <1>1, <1>3, <1>4, StillKeeps DEF WInv, Screen

LEMMA TickKeeps ==
    ASSUME WInv, Tick PROVE WInv'
<1>1. Still /\ UNCHANGED <<session, thinking, barrier, cancelled, card, keyCard, stash, gate,
                           draft, ops, answers, written, prompt>>
  BY DEF Tick, Still, history
<1>2. /\ agent' \in Agents /\ agent'.view = "working" /\ agent'.working
  BY DEF Tick, Render, WInv, Screen, TypedScreen, Agents, Views
<1>3. TypedScreen' /\ ScreenFits' /\ PromptFits' /\ TypedPrompt' /\ ShownIsFresh'
  BY <1>1, <1>2, StillKeeps
     DEF WInv, Screen, TypedScreen, ScreenFits, PromptFits, TypedPrompt, Expected, Quiet,
         Still, Shows, ShownIsFresh
<1> QED
  BY <1>1, <1>3, StillKeeps DEF WInv, Screen

LEMMA DenyQuestionKeeps ==
    ASSUME WInv, DenyQuestion PROVE WInv'
<1>1. Still /\ UNCHANGED <<session, thinking, barrier, cancelled, card, agent, keyCard, stash,
                           draft, ops, written, prompt>>
  BY DEF DenyQuestion, Still
<1>2. gate' = None /\ answers' \in [Questions -> Nat]
  BY SettleType DEF DenyQuestion, WInv, Screen, TypedScreen
<1>3. TypedScreen' /\ ScreenFits' /\ PromptFits' /\ TypedPrompt'
  BY <1>1, <1>2, StillKeeps
     DEF WInv, Screen, TypedScreen, ScreenFits, PromptFits, TypedPrompt, Expected, Quiet, Still
<1>4. ShownIsFresh'
  BY <1>1, <1>2, StillKeeps DEF WInv, Screen, ShownIsFresh, Still
<1> QED
  BY <1>1, <1>3, <1>4, StillKeeps DEF WInv, Screen

LEMMA QuestionKeeps ==
    ASSUME WInv, NEW q \in Questions, Question(q) PROVE WInv'
<1>1. Still /\ UNCHANGED <<session, thinking, barrier, cancelled, card, keyCard, stash,
                           draft, ops, written, prompt>>
  BY DEF Question, Still
<1>2. answers' \in [Questions -> Nat] /\ gate' \in {None} \cup Questions
  <2>1. answers \in [Questions -> Nat]
    BY DEF WInv, Screen, TypedScreen
  <2>2. CASE /\ gate' = q
             /\ answers' = [g \in Questions |->
                               IF g = gate THEN answers[g] + 1 ELSE answers[g]]
    BY <2>1, <2>2
  <2>3. CASE /\ gate' = None
             /\ answers' = [g \in Questions |->
                               IF g \in {gate, q} THEN answers[g] + 1 ELSE answers[g]]
    BY <2>1, <2>3
  <2> QED
    BY <2>2, <2>3 DEF Question
<1>3. \/ agent' = agent /\ gate' = None
      \/ agent' = [agent EXCEPT !.view = "permission", !.working = TRUE]
  BY DEF Question, Render
<1>4. /\ agent' \in Agents /\ (agent'.hidden => agent'.view # "closed")
      /\ agent.working => agent'.working
      /\ agent'.view \in Shows => agent'.view = agent.view /\ gate' = None
  BY <1>3 DEF WInv, Screen, TypedScreen, Agents, Views, Shows
<1>5. TypedScreen' /\ ScreenFits' /\ PromptFits' /\ TypedPrompt'
  BY <1>1, <1>2, <1>4, StillKeeps
     DEF WInv, Screen, TypedScreen, ScreenFits, PromptFits, TypedPrompt, Expected, Quiet, Still
<1>6. ShownIsFresh'
  BY <1>1, <1>4, StillKeeps DEF WInv, Screen, ShownIsFresh, Still
<1> QED
  BY <1>1, <1>5, <1>6, StillKeeps DEF WInv, Screen

\* A request is sent.
LEMMA SendOne ==
    ASSUME WInv, NEW do \in Doings, NEW c \in Cards,
           do \in {"reply", "accept"} => session # None,
           Send(<<Request(sent + 1, do, c)>>), UNCHANGED <<inbox, daemon>>
    PROVE  /\ Channel' /\ SpentStay /\ sent' = sent + 1 /\ sent \in Nat
           /\ sent' \in Ids /\ sent' \in Requests
           /\ calls' = calls \cup {Request(sent + 1, do, c)}
           /\ Request(sent + 1, do, c).do = do /\ Request(sent + 1, do, c).id = sent + 1
           /\ \A d \in calls : d.id <= sent /\ d.id \in Nat
<1> DEFINE r == Request(sent + 1, do, c)
           q == <<r>>
<1>1. sent \in Nat /\ Channel /\ session \in Requests
  BY ChannelNumbers DEF WInv, Screen, TypedScreen
<1>2. Len(q) = 1 /\ q[1] = r
  OBVIOUS
<1>3. sent' = sent + 1 /\ sent' <= MaxRequests
  BY <1>2 DEF Send
<1>4. sent + 1 \in Ids /\ sent + 1 \in Requests
  BY <1>1, <1>3, WindowAssumption DEF Ids, Requests
<1>5. r \in CallRecords /\ r.id = sent + 1 /\ r.do = do /\ r.session = session
  BY <1>1, <1>4 DEF Request, CallRecords
<1>6. q \in Seq(CallRecords)
  BY <1>5
<1>7. /\ \A i \in 1 .. Len(q) : /\ q[i].id = sent + i
                                /\ q[i].do \in {"reply", "accept"} => q[i].session # None
      /\ {q[i] : i \in 1 .. Len(q)} = {r}
  BY <1>2, <1>5
<1>8. UNCHANGED <<inbox, sessions, turns, owed>>
  BY DEF daemon
<1>9. Send(q)
  OBVIOUS
<1>10. \A d \in calls : d.id <= sent /\ d.id \in Nat
  BY <1>1, ChannelNumbers
<1> HIDE DEF q, r
<1>11. Channel' /\ SpentStay /\ calls' = calls \cup {q[i] : i \in 1 .. Len(q)}
  BY <1>1, <1>6, <1>7, <1>8, <1>9, SendKeeps
<1> QED
  BY <1>1, <1>3, <1>4, <1>5, <1>7, <1>10, <1>11 DEF r

\* What is given up was sent.
LEMMA TurnIsGivenUp ==
    ASSUME WInv, Channel', SpentStay,
           dropped' \subseteq dropped \cup {thinking, card.req} \cup {c.id : c \in calls}
    PROVE  DroppedFit'
<1>1. sent \in Nat /\ sent' \in Nat /\ sent <= sent'
  BY Numbers DEF WInv, Channel, TypedChannel, SpentStay
<1>2. thinking \in 0 .. sent
  <2>1. thinking \in Nat
    BY Numbers DEF WInv, Screen, TypedScreen
  <2>2. thinking # None => thinking <= sent
    BY DEF WInv, Screen, ScreenFits
  <2> QED
    BY <1>1, <2>1, <2>2 DEF None
<1>3. card.req \in 0 .. sent
  <2>1. CASE card = NoCard
    BY <1>1, <2>1, Numbers
  <2>2. CASE card # NoCard
    <3>1. card.req \in Nat /\ card.req <= sent
      BY <2>2, Numbers, CardKinds DEF WInv, Screen, TypedScreen, CardFits
    <3> QED
      BY <1>1, <3>1
  <2> QED
    BY <2>1, <2>2
<1>4. \A c \in calls : c.id \in 0 .. sent
  BY <1>1, ChannelNumbers DEF WInv
<1> QED
  BY <1>1, <1>2, <1>3, <1>4 DEF WInv, DroppedFit

LEMMA CardStays ==
    ASSUME WInv, Channel', SpentStay, card' = card PROVE CardFits'
<1>1. sent \in Nat /\ sent' \in Nat /\ sent <= sent'
  BY Numbers DEF WInv, Channel, TypedChannel, SpentStay
<1>2. card # NoCard => card.req \in Nat
  BY CardKinds, Numbers DEF WInv, Screen, TypedScreen
<1> QED
  BY <1>1, <1>2 DEF WInv, Screen, CardFits, SpentStay

LEMMA PromptInterruptsKeeps ==
    ASSUME WInv, PromptInterrupts PROVE WInv'
<1>1. UNCHANGED <<session, card, keyCard, stash, draft, ops, inbox, asks, daemon, applied,
                  rejected, written, settled>>
  BY DEF PromptInterrupts
<1>2. /\ gate' = None /\ answers' \in [Questions -> Nat]
  BY SettleType DEF PromptInterrupts, WInv, Screen, TypedScreen
<1>3. /\ cancelled' = (IF card.kind = "working" THEN card.req ELSE cancelled)
      /\ dropped' = dropped \cup {thinking}
                       \cup (IF card.kind = "working" THEN {card.req} ELSE {})
      /\ barrier' = TRUE /\ thinking' = None /\ session # None
      /\ prompt' = [open |-> TRUE, kind |-> "Prompt", submitting |-> None, returns |-> TRUE]
  BY DEF PromptInterrupts, OpenPrompt
<1>4. agent' \in Agents /\ agent'.view = "interrupted"
  BY DEF PromptInterrupts, Render, WInv, Screen, TypedScreen, Agents, Views
<1>5. Channel' /\ SpentStay
  BY <1>1, SendOne, Numbers DEF PromptInterrupts, Doings
<1>6. History' /\ Decided' = Decided
  BY <1>1, <1>5, HistoryKept DEF WInv
<1>7. DroppedFit' /\ CardFits'
  BY <1>1, <1>3, <1>5, TurnIsGivenUp, CardStays
<1>8. TypedPrompt'
  BY <1>1, <1>3, Numbers DEF WInv, TypedPrompt, None
<1>9. cancelled' \in Requests
  <2>1. card.kind = "working" => card.req \in Requests
    BY CardKinds, Numbers DEF WInv, Screen, TypedScreen, Ids, Requests, NoCard
  <2> QED
    BY <1>3, <2>1 DEF WInv, Screen, TypedScreen
<1>10. TypedScreen'
  BY <1>1, <1>2, <1>3, <1>4, <1>9, Numbers DEF WInv, Screen, TypedScreen
<1>11. ScreenFits' /\ PromptFits'
  BY <1>1, <1>3 DEF WInv, Screen, ScreenFits, PromptFits, Expected, Quiet
<1>12. ShownIsFresh'
  BY <1>4 DEF ShownIsFresh, Shows
<1> QED
  BY <1>5, <1>6, <1>7, <1>8, <1>10, <1>11, <1>12 DEF WInv, Screen

\* rpc.stop behind the editor: nothing is expected any more.
LEMMA PromptRestartsKeeps ==
    ASSUME WInv, PromptRestarts PROVE WInv'
<1>1. UNCHANGED <<session, cancelled, card, keyCard, stash, draft, ops, asks, applied,
                  rejected, written, settled>>
  BY DEF PromptRestarts
<1>2. /\ gate' = None /\ answers' \in [Questions -> Nat]
  BY SettleType DEF PromptRestarts, WInv, Screen, TypedScreen
<1>3. /\ dropped' = dropped \cup {thinking} /\ barrier' = FALSE /\ thinking' = None
      /\ session = None
      /\ prompt' = [open |-> TRUE, kind |-> "Prompt", submitting |-> None, returns |-> FALSE]
  BY DEF PromptRestarts, OpenPrompt
<1>4. agent' \in Agents /\ agent'.view \in {"error", "interrupted"}
  BY DEF PromptRestarts, Render, WInv, Screen, TypedScreen, Agents, Views
<1>5. Channel' /\ SpentStay
  BY EndKeeps DEF PromptRestarts, WInv
<1>6. History' /\ Decided' = Decided
  BY <1>1, <1>5, HistoryKept DEF WInv
<1>7. DroppedFit' /\ CardFits'
  BY <1>1, <1>3, <1>5, TurnIsGivenUp, CardStays
<1>8. TypedPrompt'
  BY <1>1, <1>3, Numbers DEF WInv, TypedPrompt, None
<1>9. TypedScreen'
  BY <1>1, <1>2, <1>3, <1>4, Numbers DEF WInv, Screen, TypedScreen
<1>10. card = NoCard /\ Quiet
  BY <1>3 DEF WInv, Screen, ScreenFits
<1>11. ScreenFits' /\ PromptFits'
  BY <1>1, <1>3, <1>10 DEF ScreenFits, PromptFits, Expected, Quiet, NoCard
<1>12. ShownIsFresh'
  BY <1>4 DEF ShownIsFresh, Shows
<1> QED
  BY <1>5, <1>6, <1>7, <1>8, <1>9, <1>11, <1>12 DEF WInv, Screen

\* Thinking starts for a request just sent; a question keeps the screen.
LEMMA ThinkingFits ==
    ASSUME WInv, Shipped, UNCHANGED gate, StartThinking(sent + 1)
    PROVE  /\ thinking' = sent + 1
           /\ agent' \in Agents /\ (agent'.hidden => agent'.view # "closed")
           /\ agent'.view \notin Shows
<1>1. /\ agent \in Agents /\ (agent.hidden => agent.view # "closed")
      /\ gate # None => agent.view \notin Shows
  BY DEF WInv, Screen, TypedScreen, ShownIsFresh
<1>2. thinking' = sent + 1
  BY DEF StartThinking, Shipped
<1>3. CASE gate' # None
  <2>1. agent' = [agent EXCEPT !.working = FALSE]
    BY <1>3 DEF StartThinking, Shipped
  <2> QED
    BY <1>1, <1>2, <1>3, <2>1 DEF Agents
<1>4. CASE gate' = None
  <2>1. agent' = [agent EXCEPT !.view = "working", !.working = TRUE]
    BY <1>4 DEF StartThinking, Shipped, Render
  <2> QED
    BY <1>1, <1>2, <2>1 DEF Agents, Views, Shows
<1> QED
  BY <1>3, <1>4

\* The number of a request just sent was not given up, and no rejection
\* comes after it.
LEMMA NewRequest ==
    ASSUME WInv, dropped' = dropped, sent' = sent + 1,
           NEW r, calls' = calls \cup {r}, r.do # "reject"
    PROVE  /\ sent + 1 \notin dropped'
           /\ \A d \in calls' : d.do = "reject" => d.id < sent + 1
<1>1. sent \in Nat /\ \A d \in calls : d.id <= sent /\ d.id \in Nat
  BY ChannelNumbers DEF WInv
<1> QED
  BY <1>1 DEF WInv, DroppedFit

LEMMA SubmitReplyKeeps ==
    ASSUME WInv, Shipped, SubmitReply PROVE WInv'
<1>1. UNCHANGED <<session, barrier, cancelled, card, keyCard, stash, gate, inbox, asks,
                  daemon, answers, applied, rejected, dropped, written, settled>>
  BY DEF SubmitReply, history
<1>2. /\ prompt' = [open |-> FALSE, kind |-> "Prompt", submitting |-> None,
                    returns |-> FALSE]
      /\ prompt.kind = "Reply" /\ prompt.submitting # None
  BY DEF SubmitReply, NoPrompt
<1>3. TypedPrompt' /\ PromptFits'
  BY <1>1, <1>2, Numbers DEF WInv, TypedPrompt, PromptFits, None
<1>4. CASE UNCHANGED <<thinking, agent, draft, ops, channel>>
  <2>1. Still
    BY <1>1, <1>4 DEF Still
  <2>2. TypedScreen' /\ ScreenFits'
    BY <1>1, <1>4, <2>1, StillKeeps
       DEF WInv, Screen, TypedScreen, ScreenFits, Expected, Quiet, Still
  <2>3. ShownIsFresh'
    BY <1>1, <1>4, <2>1, StillKeeps DEF WInv, Screen, ShownIsFresh, Still
  <2> QED
    BY <1>1, <1>3, <2>1, <2>2, <2>3, StillKeeps DEF WInv, Screen
<1>5. CASE /\ session # None /\ ~barrier
           /\ draft' = NoCard /\ ops' = NoCard
           /\ Send(<<Request(sent + 1, "reply", NoCard)>>)
           /\ UNCHANGED gate /\ StartThinking(sent + 1)
  <2>1. /\ Channel' /\ SpentStay /\ sent' = sent + 1 /\ sent' \in Requests
        /\ calls' = calls \cup {Request(sent + 1, "reply", NoCard)}
        /\ Request(sent + 1, "reply", NoCard).do = "reply"
    BY <1>1, <1>5, SendOne, Numbers DEF Doings
  <2>2. History' /\ Decided' = Decided
    BY <1>1, <2>1, HistoryKept DEF WInv
  <2>3. DroppedFit' /\ CardFits'
    BY <1>1, <2>1, TurnIsGivenUp, CardStays
  <2>4. /\ sent + 1 \notin dropped'
        /\ \A d \in calls' : d.do = "reject" => d.id < sent + 1
    BY <1>1, <2>1, NewRequest
  <2>5. /\ thinking' = sent + 1
        /\ agent' \in Agents /\ (agent'.hidden => agent'.view # "closed")
        /\ agent'.view \notin Shows
    BY <1>5, ThinkingFits
  <2>6. TypedScreen'
    BY <1>1, <1>5, <2>1, <2>5, Numbers DEF WInv, Screen, TypedScreen
  <2>7. ~Expected'
    BY <1>1, <1>2 DEF WInv, Screen, PromptFits, Expected
  <2>8. thinking' <= sent'
    BY <2>1, <2>5, ChannelNumbers DEF WInv
  <2>9. ScreenFits'
    BY <1>1, <1>5, <2>4, <2>5, <2>7, <2>8 DEF ScreenFits, Expected, Quiet
  <2>10. ShownIsFresh'
    BY <2>5 DEF ShownIsFresh
  <2> QED
    BY <1>3, <2>1, <2>2, <2>3, <2>6, <2>9, <2>10 DEF WInv, Screen
<1> QED
  BY <1>4, <1>5 DEF SubmitReply

\* What is under review while the user decides.
LEMMA UnderReview ==
    ASSUME WInv, Deciding, card.kind \in Proposals
    PROVE  /\ session # None /\ thinking = None /\ ~prompt.open /\ prompt.submitting = None
           /\ agent.view = "review" /\ gate = None /\ card # NoCard /\ card \notin Decided
           /\ card.req \notin dropped /\ Spent(card.req)
           /\ card.kind = "patch" => ops = NoCard
           /\ card.kind = "ops" => draft = NoCard
           /\ draft # NoCard => draft = card
           /\ ops # NoCard => ops = card
<1>1. /\ session # None /\ thinking = None /\ ~prompt.open /\ agent.view = "review"
  BY DEF Deciding, Working
<1>2. prompt.submitting = None
  BY <1>1 DEF WInv, Screen, PromptFits
<1>3. /\ gate = None /\ card # NoCard /\ card \notin Decided /\ card.req \notin dropped
  BY <1>1 DEF WInv, Screen, ShownIsFresh, Shows
<1>4. Spent(card.req)
  BY <1>3 DEF WInv, Screen, CardFits, Proposals
<1>5. (draft # NoCard => draft = card) /\ (ops # NoCard => ops = card)
  BY DEF WInv, Screen, ScreenFits
<1>6. /\ card.kind = "patch" => ops = NoCard
      /\ card.kind = "ops" => draft = NoCard
  BY <1>5 DEF WInv, Screen, TypedScreen
<1> QED
  BY <1>1, <1>2, <1>3, <1>4, <1>5, <1>6

LEMMA AcceptKeeps ==
    ASSUME WInv, Shipped, Accept PROVE WInv'
<1> DEFINE accepted == IF card.kind = "patch" THEN draft ELSE ops
<1>1. UNCHANGED <<session, barrier, cancelled, card, keyCard, prompt, stash, gate, inbox,
                  asks, daemon, answers, rejected, dropped, written, settled>>
  BY DEF Accept
<1>2. /\ Deciding /\ card.kind \in Proposals /\ accepted # NoCard
      /\ applied' = Append(applied, [draft |-> accepted, card |-> card])
      /\ draft' = (IF card.kind = "patch" THEN NoCard ELSE draft)
      /\ ops' = (IF card.kind = "ops" THEN NoCard ELSE ops)
      /\ Send(<<Request(sent + 1, "accept", card)>>)
      /\ UNCHANGED gate /\ StartThinking(sent + 1)
  BY DEF Accept
<1>3. card \in Cards /\ accepted = card /\ draft' = NoCard /\ ops' = NoCard
  BY <1>2, UnderReview DEF WInv, Screen, TypedScreen, Proposals
<1> HIDE DEF accepted
<1>4. /\ session # None /\ thinking = None /\ ~prompt.open /\ prompt.submitting = None
      /\ card \notin Decided /\ Spent(card.req)
  BY <1>2, UnderReview
<1>5. /\ Channel' /\ SpentStay /\ sent' = sent + 1 /\ sent' \in Requests
      /\ calls' = calls \cup {Request(sent + 1, "accept", card)}
      /\ Request(sent + 1, "accept", card).do = "accept"
  BY <1>1, <1>2, <1>3, <1>4, SendOne, Numbers DEF Doings
<1>6. DroppedFit' /\ CardFits'
  BY <1>1, <1>5, TurnIsGivenUp, CardStays
<1>7. /\ sent + 1 \notin dropped'
      /\ \A d \in calls' : d.do = "reject" => d.id < sent + 1
  BY <1>1, <1>5, NewRequest
<1>8. /\ thinking' = sent + 1
      /\ agent' \in Agents /\ (agent'.hidden => agent'.view # "closed")
      /\ agent'.view \notin Shows
  BY <1>2, ThinkingFits
<1>9. TypedScreen' /\ TypedPrompt'
  BY <1>1, <1>3, <1>5, <1>8, Numbers DEF WInv, Screen, TypedScreen, TypedPrompt, NoCard
<1>10. thinking' <= sent' /\ ~Expected'
  BY <1>1, <1>2, <1>5, <1>8, ChannelNumbers DEF WInv, Expected, Proposals
<1>11. ScreenFits' /\ PromptFits' /\ ShownIsFresh'
  BY <1>1, <1>2, <1>3, <1>4, <1>7, <1>8, <1>10
     DEF ScreenFits, PromptFits, ShownIsFresh, Expected, Quiet, Proposals
<1> DEFINE n == Len(applied)
           new == [draft |-> card, card |-> card]
           Pairs == [draft : Cards, card : Cards]
<1>12. /\ applied \in Seq(Pairs) /\ n \in Nat /\ new \in Pairs
  BY <1>3, LenProperties DEF WInv, History, TypedHistory
<1>13. /\ applied' \in Seq(Pairs) /\ Len(applied') = n + 1 /\ applied'[n + 1] = new
       /\ \A i \in 1 .. n : applied'[i] = applied[i]
  BY <1>2, <1>3, <1>12, AppendProperties
<1> HIDE DEF n, Pairs
<1>14. \A i \in 1 .. (n + 1) : \/ i \in 1 .. n /\ applied'[i] = applied[i]
                               \/ i = n + 1 /\ applied'[i] = new
  BY <1>12, <1>13
<1>15. /\ \A i \in 1 .. n : applied[i].card \in Decided
       /\ rejected \subseteq Decided
  BY DEF Decided, n
<1>16. new.card = card /\ new.draft = card
  OBVIOUS
<1> HIDE DEF new
<1>17. Decided' \subseteq Decided \cup {card}
  BY <1>1, <1>13, <1>14, <1>15, <1>16 DEF Decided
<1>18. DecidedFit'
  BY <1>2, <1>4, <1>5, <1>17 DEF WInv, History, DecidedFit, SpentStay
<1>19. ReportsFit'
  <2>1. /\ \A i \in 1 .. n : /\ applied[i].draft = applied[i].card
                             /\ applied[i].card \notin rejected
        /\ \A i, j \in 1 .. n : applied[i].card = applied[j].card => i = j
    BY DEF WInv, History, ReportsFit, n
  <2> QED
    BY <1>1, <1>4, <1>13, <1>14, <1>15, <1>16, <2>1 DEF ReportsFit
<1>20. TypedHistory'
  BY <1>1, <1>13 DEF WInv, History, TypedHistory, Pairs
<1> QED
  BY <1>5, <1>6, <1>9, <1>11, <1>18, <1>19, <1>20 DEF WInv, Screen, History

LEMMA RejectKeeps ==
    ASSUME WInv, Reject PROVE WInv'
<1>1. UNCHANGED <<session, thinking, cancelled, card, keyCard, stash, gate, inbox, asks,
                  daemon, answers, applied, dropped, written, settled>>
  BY DEF Reject
<1>2. /\ Deciding /\ card.kind \in Proposals /\ rejected' = rejected \cup {card}
      /\ draft' = (IF card.kind = "patch" THEN NoCard ELSE draft)
      /\ ops' = (IF card.kind = "ops" THEN NoCard ELSE ops)
      /\ barrier' = TRUE
      /\ Send(<<Request(sent + 1, "reject", card)>>)
      /\ prompt' = [open |-> TRUE, kind |-> "Reply", submitting |-> None, returns |-> TRUE]
  BY DEF Reject, OpenPrompt
<1>3. card \in Cards /\ draft' = NoCard /\ ops' = NoCard
  BY <1>2, UnderReview DEF WInv, Screen, TypedScreen, Proposals
<1>4. /\ session # None /\ thinking = None /\ card \notin Decided /\ Spent(card.req)
  BY <1>2, UnderReview
<1>5. agent' \in Agents /\ agent'.view = "paused"
  BY DEF Reject, Render, WInv, Screen, TypedScreen, Agents, Views
<1>6. Channel' /\ SpentStay
  BY <1>1, <1>2, <1>3, SendOne, Numbers DEF Doings
<1>7. DroppedFit' /\ CardFits'
  BY <1>1, <1>6, TurnIsGivenUp, CardStays
<1>8. TypedScreen' /\ TypedPrompt'
  BY <1>1, <1>2, <1>3, <1>5, Numbers DEF WInv, Screen, TypedScreen, TypedPrompt, NoCard, None
<1>9. ScreenFits' /\ PromptFits' /\ ShownIsFresh'
  BY <1>1, <1>2, <1>3, <1>4, <1>5
     DEF ScreenFits, PromptFits, ShownIsFresh, Expected, Quiet, Proposals, Shows
<1>10. Decided' = Decided \cup {card}
  BY <1>1, <1>2 DEF Decided
<1>11. DecidedFit'
  BY <1>2, <1>4, <1>6, <1>10 DEF WInv, History, DecidedFit, SpentStay
<1>12. ReportsFit' /\ TypedHistory'
  BY <1>1, <1>2, <1>3, <1>4 DEF WInv, History, ReportsFit, TypedHistory, Decided
<1> QED
  BY <1>6, <1>7, <1>8, <1>9, <1>11, <1>12 DEF WInv, Screen, History

\* The session is left, its question denied.
LEMMA LeaveFits ==
    ASSUME WInv, LeaveSession, Settle
    PROVE  /\ session' = None /\ card' = NoCard /\ cancelled' = None /\ barrier' = FALSE
           /\ draft' = NoCard /\ ops' = NoCard /\ keyCard' = NoCard
           /\ gate' = None /\ answers' \in [Questions -> Nat]
           /\ dropped' \subseteq dropped \cup {thinking, card.req} \cup {c.id : c \in calls}
           /\ dropped' \subseteq 0 .. sent
           /\ CardFits' /\ ~Expected' /\ Quiet'
<1>1. /\ session' = None /\ card' = NoCard /\ cancelled' = None /\ barrier' = FALSE
      /\ draft' = NoCard /\ ops' = NoCard /\ keyCard' = NoCard
      /\ dropped' = dropped \cup {c.id : c \in calls}
                       \cup (IF card.kind = "working" THEN {card.req} ELSE {})
  BY DEF LeaveSession
<1>2. gate' = None /\ answers' \in [Questions -> Nat]
  BY SettleType DEF WInv, Screen, TypedScreen
<1>3. dropped' \subseteq 0 .. sent
  <2>1. \A c \in calls : c.id \in 0 .. sent
    BY ChannelNumbers DEF WInv
  <2>2. card.kind = "working" => card.req \in 0 .. sent
    <3>1. card.kind = "working" => card # NoCard
      BY DEF NoCard
    <3>2. card.kind = "working" => card.req \in Nat /\ card.req <= sent
      BY <3>1, Numbers, CardKinds DEF WInv, Screen, TypedScreen, CardFits
    <3> QED
      BY <3>2, ChannelNumbers DEF WInv
  <2> QED
    BY <1>1, <2>1, <2>2 DEF WInv, DroppedFit
<1>4. dropped' \subseteq dropped \cup {thinking, card.req} \cup {c.id : c \in calls}
  BY <1>1
<1> QED
  BY <1>1, <1>2, <1>3, <1>4 DEF CardFits, Expected, Quiet, NoCard

LEMMA StopKeeps ==
    ASSUME WInv, Stop PROVE WInv'
<1>1. UNCHANGED <<stash, inbox, asks, daemon, applied, rejected, written, settled>>
  BY DEF Stop
<1>2. /\ LeaveSession /\ Settle /\ thinking' = None /\ agent' = Closed
      /\ prompt' = [prompt EXCEPT !.open = FALSE]
  BY DEF Stop
<1>3. Channel' /\ SpentStay
  BY <1>1, SendOne, Numbers DEF Stop, Doings
<1>4. History' /\ Decided' = Decided
  BY <1>1, <1>3, HistoryKept DEF WInv
<1>5. DroppedFit'
  BY <1>2, <1>3, LeaveFits, TurnIsGivenUp
<1>6. TypedPrompt'
  BY <1>1, <1>2 DEF WInv, TypedPrompt
<1>7. agent' \in Agents /\ agent'.view = "closed" /\ ~agent'.hidden
  BY <1>2 DEF Closed, Agents, Views
<1>8. TypedScreen'
  BY <1>2, <1>7, LeaveFits, Numbers DEF TypedScreen
<1>9. ScreenFits' /\ PromptFits' /\ ShownIsFresh'
  BY <1>2, <1>7, LeaveFits DEF ScreenFits, PromptFits, ShownIsFresh, Shows, NoCard
<1> QED
  BY <1>2, <1>3, <1>4, <1>5, <1>6, <1>8, <1>9, LeaveFits DEF WInv, Screen

LEMMA ResetKeeps ==
    ASSUME WInv, Reset PROVE WInv'
<1>1. UNCHANGED <<asks, applied, rejected, written>> /\ stash' = None
  BY DEF Reset
<1>2. /\ LeaveSession /\ Settle /\ thinking' = None /\ agent' = Closed
      /\ prompt' = [prompt EXCEPT !.open = FALSE]
  BY DEF Reset
<1>3. Channel' /\ SpentStay
  BY EndKeeps DEF Reset, WInv
<1>4. History' /\ Decided' = Decided
  BY <1>1, <1>3, HistoryKept DEF WInv
<1>5. DroppedFit'
  BY <1>2, <1>3, LeaveFits, TurnIsGivenUp
<1>6. TypedPrompt'
  <2>1. 0 \in 0 .. written
    BY DEF WInv, TypedPrompt
  <2> QED
    BY <1>1, <1>2, <2>1 DEF WInv, TypedPrompt, None
<1>7. agent' \in Agents /\ agent'.view = "closed" /\ ~agent'.hidden
  BY <1>2 DEF Closed, Agents, Views
<1>8. TypedScreen'
  BY <1>2, <1>7, LeaveFits, Numbers DEF TypedScreen
<1>9. ScreenFits' /\ PromptFits' /\ ShownIsFresh'
  BY <1>2, <1>7, LeaveFits DEF ScreenFits, PromptFits, ShownIsFresh, Shows, NoCard
<1> QED
  BY <1>2, <1>3, <1>4, <1>5, <1>6, <1>8, <1>9, LeaveFits DEF WInv, Screen

\* What submit_prompt sends.
LEMMA PromptSends ==
    ASSUME WInv, SubmitPrompt
    PROVE  \E q \in Seq(CallRecords) :
             /\ Send(q) /\ Len(q) \in {1, 2}
             /\ ThinkingEnabled => thinking' = sent + Len(q)
             /\ \A n \in 1 .. Len(q) :
                   /\ q[n].id = sent + n /\ q[n].do \in {"start", "stop"}
                   /\ q[n].session \in {session, None}
<1> DEFINE stop == IF session = None THEN <<>> ELSE <<Request(sent + 1, "stop", NoCard)>>
           start == [Request(sent + Len(stop) + 1, "start", NoCard) EXCEPT !.session = None]
           q == stop \o <<start>>
<1>1. Send(q) /\ (ThinkingEnabled => thinking' = start.id)
  BY DEF SubmitPrompt
<1>2. sent \in Nat /\ session \in Requests /\ MaxRequests \in Nat
  BY ChannelNumbers, WindowAssumption DEF WInv, Screen, TypedScreen
<1>3. Len(stop) \in {0, 1}
  OBVIOUS
<1>4. /\ start.id = sent + Len(stop) + 1 /\ start.do = "start" /\ start.session = None
      /\ start = [id |-> sent + Len(stop) + 1, do |-> "start", session |-> None,
                  card |-> NoCard]
  BY DEF Request
<1>5. /\ Len(q) = Len(stop) + 1 /\ q[Len(q)] = start
      /\ \A i \in 1 .. Len(stop) : i = 1 /\ q[i] = Request(sent + 1, "stop", NoCard)
  <2> HIDE DEF start
  <2> QED
    OBVIOUS
<1>6. sent + Len(q) <= MaxRequests
  BY <1>1 DEF Send
<1>7. start.id \in Ids /\ (Len(stop) = 1 => sent + 1 \in Ids)
  BY <1>2, <1>3, <1>4, <1>5, <1>6 DEF Ids
<1>8. start \in CallRecords
  BY <1>4, <1>7, Numbers DEF CallRecords, Doings
<1>9. Len(stop) = 1 => LET r == Request(sent + 1, "stop", NoCard)
                        IN  r \in CallRecords /\ r.do = "stop" /\ r.id = sent + 1
                            /\ r.session = session
  BY <1>2, <1>7, Numbers DEF Request, CallRecords, Doings
<1> HIDE DEF start, stop, q
<1>10. ASSUME NEW n \in 1 .. Len(q)
       PROVE  /\ q[n] \in CallRecords /\ q[n].id = sent + n
              /\ q[n].do \in {"start", "stop"} /\ q[n].session \in {session, None}
  <2>1. CASE n = Len(q)
    BY <1>2, <1>3, <1>4, <1>5, <1>8, <2>1
  <2>2. CASE n # Len(q)
    <3>1. n \in 1 .. Len(stop) /\ Len(stop) = 1
      BY <1>3, <1>5, <2>2
    <3> QED
      BY <1>5, <1>9, <3>1
  <2> QED
    BY <2>1, <2>2
<1>11. q \in Seq(CallRecords)
  <2>1. q = [i \in 1 .. Len(q) |-> q[i]] /\ Len(q) \in Nat
    <3>1. CASE session = None
      BY <3>1 DEF q, stop
    <3>2. CASE session # None
      BY <3>2 DEF q, stop
    <3> QED
      BY <3>1, <3>2
  <2> QED
    BY <1>10, <2>1, IsASeq
<1>12. Len(q) \in {1, 2} /\ (ThinkingEnabled => thinking' = sent + Len(q))
  BY <1>1, <1>2, <1>3, <1>4, <1>5
<1> QED
  BY <1>1, <1>10, <1>11, <1>12

\* A new session: the old one, if any, is stopped first.
LEMMA SubmitPromptKeeps ==
    ASSUME WInv, Shipped, SubmitPrompt PROVE WInv'
<1>1. UNCHANGED <<stash, inbox, asks, daemon, applied, rejected, written, settled>>
  BY DEF SubmitPrompt
<1>2. /\ prompt' = NoPrompt
      /\ agent' = IF gate' # None THEN [agent EXCEPT !.working = FALSE]
                  ELSE [view |-> "working", working |-> TRUE,
                        hidden |-> session = None /\ agent.hidden]
      /\ \/ session = None /\ UNCHANGED <<session, barrier, cancelled, card, keyCard, gate,
                                           draft, ops, answers, dropped>>
         \/ session # None /\ LeaveSession /\ Settle
  BY DEF SubmitPrompt, Shipped
<1>3. sent \in Nat /\ Channel /\ session \in Requests /\ MaxRequests \in Nat
  BY ChannelNumbers, WindowAssumption DEF WInv, Screen, TypedScreen
<1>4. PICK q \in Seq(CallRecords) :
         /\ Send(q) /\ Len(q) \in {1, 2} /\ thinking' = sent + Len(q)
         /\ \A n \in 1 .. Len(q) : q[n].id = sent + n /\ q[n].do \in {"start", "stop"}
  BY PromptSends DEF Shipped
<1>5. thinking' = sent' /\ sent' = sent + Len(q) /\ sent' <= MaxRequests
  BY <1>4 DEF Send
<1>6. sent' \in Ids /\ sent' \in Requests /\ sent < sent'
  <2>1. sent' = sent + 1 \/ sent' = sent + 2
    BY <1>4, <1>5
  <2>2. sent' \in Nat /\ 1 <= sent' /\ sent < sent'
    BY <1>3, <2>1
  <2> QED
    BY <1>3, <1>5, <2>2 DEF Ids, Requests, None
<1>7. /\ Channel' /\ SpentStay
       /\ calls' = calls \cup {q[i] : i \in 1 .. Len(q)}
  BY <1>1, <1>3, <1>4, SendKeeps DEF daemon
<1>8. History' /\ Decided' = Decided
  BY <1>1, <1>7, HistoryKept DEF WInv
<1>9. dropped' \subseteq 0 .. sent
  BY <1>2, LeaveFits DEF WInv, DroppedFit
<1>10. DroppedFit' /\ sent' \notin dropped'
  <2>1. sent' \in Nat
    BY <1>6, Numbers
  <2> QED
    BY <1>3, <1>6, <1>9, <2>1 DEF DroppedFit
<1>11. /\ session' = None /\ card' = NoCard /\ Quiet' /\ CardFits'
       /\ cancelled' \in Requests /\ barrier' \in BOOLEAN /\ keyCard' \in Cards
       /\ keyCard'.kind # "working"
       /\ gate' \in {None} \cup Questions /\ answers' \in [Questions -> Nat]
       /\ gate' # None => gate' = gate
  <2>1. CASE session = None /\ UNCHANGED <<session, barrier, cancelled, card, keyCard, gate,
                                           draft, ops, answers, dropped>>
    BY <2>1, <1>7, CardStays DEF WInv, Screen, ScreenFits, TypedScreen, Quiet
  <2>2. CASE LeaveSession /\ Settle
    BY <2>2, LeaveFits, Numbers
  <2> QED
    BY <1>2, <2>1, <2>2
<1>12. /\ agent' \in Agents /\ (agent'.hidden => agent'.view # "closed")
       /\ agent'.view \notin Shows
  <2>1. /\ agent \in Agents /\ (agent.hidden => agent.view # "closed")
        /\ gate # None => agent.view \notin Shows
    BY DEF WInv, Screen, TypedScreen, ShownIsFresh
  <2>2. CASE gate' # None
    <3>1. agent' = [agent EXCEPT !.working = FALSE]
      BY <1>2, <2>2
    <3> QED
      BY <1>11, <2>1, <2>2, <3>1 DEF Agents
  <2>3. CASE gate' = None
    <3>1. agent' = [view |-> "working", working |-> TRUE,
                    hidden |-> session = None /\ agent.hidden]
      BY <1>2, <2>3
    <3> QED
      BY <2>1, <3>1 DEF Agents, Views, Shows
  <2> QED
    BY <2>2, <2>3
<1>13. TypedScreen' /\ TypedPrompt'
  BY <1>1, <1>2, <1>5, <1>6, <1>11, <1>12, Numbers
     DEF WInv, Screen, TypedScreen, TypedPrompt, Quiet, NoPrompt, None
<1>14. /\ thinking' = sent' /\ thinking' \notin dropped' /\ thinking' <= sent'
       /\ \A d \in calls' : d.do = "reject" => d.id < thinking'
  <2>1. \A d \in calls : d.id <= sent /\ d.id \in Nat
    BY <1>3, ChannelNumbers
  <2>2. \A d \in calls' : d.do = "reject" => d \in calls
    BY <1>4, <1>7
  <2>3. sent' \in Nat
    BY <1>6, Numbers
  <2>4. \A d \in calls' : d.do = "reject" => d.id < sent'
    BY <1>3, <1>6, <2>1, <2>2, <2>3
  <2> QED
    BY <1>5, <1>6, <1>10, <2>3, <2>4
<1>15. /\ ~Expected' /\ prompt'.open = FALSE /\ prompt'.submitting = None
       /\ draft' = NoCard /\ ops' = NoCard /\ card'.kind # "working"
  BY <1>2, <1>11 DEF Expected, NoPrompt, NoCard, Quiet
<1>16. ScreenFits'
  BY <1>11, <1>12, <1>14, <1>15 DEF ScreenFits
<1>17. PromptFits' /\ ShownIsFresh'
  BY <1>12, <1>15 DEF PromptFits, ShownIsFresh
<1> QED
  BY <1>7, <1>8, <1>10, <1>11, <1>13, <1>16, <1>17 DEF WInv, Screen

LEMMA ToggleDetailsKeeps ==
    ASSUME WInv, Shipped, ToggleDetails PROVE WInv'
<1>1. /\ Still /\ UNCHANGED <<session, thinking, barrier, cancelled, prompt, stash, written>>
  BY DEF ToggleDetails, Still
<1>2. /\ card # NoCard /\ ShowCard(card) /\ agent.view \in Shows
  BY DEF ToggleDetails, Shipped, Shows
<1>3. card.kind # "working" /\ card \notin Decided /\ card.req \notin dropped
  BY <1>2 DEF WInv, Screen, ShownIsFresh
<1>4. /\ card.req <= sent /\ Spent(card.req) /\ session # None
  BY <1>2, <1>3 DEF WInv, Screen, CardFits, ScreenFits
<1>5. thinking = None
  BY <1>2 DEF WInv, Screen, ScreenFits
<1>6. /\ card \in Cards /\ session \in Requests /\ cancelled \in Requests
      /\ barrier \in BOOLEAN /\ stash \in 0 .. written
      /\ (draft # NoCard => draft = card) /\ (ops # NoCard => ops = card)
  BY DEF WInv, Screen, TypedScreen, TypedPrompt, ScreenFits
<1>7. Channel' /\ SpentStay /\ sent' = sent
  BY <1>1, StillKeeps
<1>8. card' = card
  BY <1>2 DEF ShowCard, Recorded, Shown
<1>9. ~Expected'
  BY <1>3, <1>8 DEF Expected
<1>10. \A n : n = card.req => Spent(n)'
  BY <1>4, <1>7 DEF SpentStay
<1> QED
  BY <1>1, <1>2, <1>3, <1>4, <1>5, <1>6, <1>7, <1>9, <1>10, ShowKeeps DEF Still

\* The working card comes back when its question is answered.
LEMMA AcceptQuestionKeeps ==
    ASSUME WInv, AcceptQuestion PROVE WInv'
<1>1. /\ Still /\ UNCHANGED <<session, thinking, barrier, cancelled, prompt, stash, written>>
      /\ Settle
  BY DEF AcceptQuestion, Still
<1>2. Channel' /\ SpentStay /\ sent' = sent /\ calls' = calls
  BY <1>1, StillKeeps
<1>3. gate' = None /\ answers' \in [Questions -> Nat]
  BY <1>1, SettleType DEF WInv, Screen, TypedScreen
<1>4. /\ card' = card
      /\ draft' \in Cards /\ draft'.kind \in {"none", "patch"}
      /\ ops' \in Cards /\ ops'.kind \in {"none", "ops"}
      /\ keyCard' \in Cards /\ keyCard'.kind # "working"
      /\ agent' \in Agents /\ (agent'.hidden => agent'.view # "closed")
      /\ \/ UNCHANGED <<agent, draft, ops>>
         \/ /\ draft' = NoCard /\ ops' = NoCard
            /\ agent'.working /\ agent'.view \notin Shows
  <2>1. CASE card.kind = "working" /\ Shown(card)
    <3>1. /\ card # NoCard /\ Quiet /\ card \in Cards /\ TypedScreen
      BY <2>1 DEF WInv, Screen, ScreenFits, TypedScreen, NoCard
    <3> QED
      BY <2>1, <3>1, ShownFits, Numbers DEF Quiet
  <2>2. CASE UNCHANGED <<card, agent, keyCard, draft, ops>>
    BY <2>2 DEF WInv, Screen, TypedScreen
  <2> QED
    BY <2>1, <2>2 DEF AcceptQuestion
<1>5. TypedScreen' /\ TypedPrompt'
  BY <1>1, <1>3, <1>4 DEF WInv, Screen, TypedScreen, TypedPrompt
<1>6. ScreenFits' /\ PromptFits'
  BY <1>1, <1>2, <1>4
     DEF WInv, Screen, ScreenFits, PromptFits, Expected, Quiet, Still
<1>7. ShownIsFresh'
  BY <1>1, <1>2, <1>3, <1>4, StillKeeps DEF WInv, Screen, ShownIsFresh, Still
<1> QED
  BY <1>1, <1>4, <1>5, <1>6, <1>7, StillKeeps DEF WInv, Screen

LEMMA ProgressKeeps ==
    ASSUME WInv, Progress PROVE WInv'
<1>1. /\ Still /\ UNCHANGED <<session, thinking, barrier, cancelled, prompt, stash, written>>
      /\ ShowCard(card) /\ card.kind = "working" /\ Expected
  BY DEF Progress, Still, Expected
<1>2. Channel' /\ SpentStay /\ sent' = sent /\ calls' = calls
  BY <1>1, StillKeeps
<1>3. /\ card # NoCard /\ Quiet /\ thinking = None /\ card.req \notin dropped
      /\ \A d \in calls : d.do # "reject"
  BY <1>1 DEF WInv, Screen, ScreenFits, NoCard
<1>4. session # None /\ card.req <= sent
  BY <1>3 DEF WInv, Screen, ScreenFits, CardFits
<1>5. /\ card \in Cards /\ session \in Requests /\ cancelled \in Requests
      /\ barrier \in BOOLEAN /\ stash \in 0 .. written
  BY DEF WInv, Screen, TypedScreen, TypedPrompt
<1>6. (draft # NoCard => draft = card) /\ (ops # NoCard => ops = card)
  BY <1>3 DEF Quiet
<1> QED
  BY <1>1, <1>2, <1>3, <1>4, <1>5, <1>6, ShowKeeps DEF Still

-----------------------------------------------------------------------------
(***************************************************************************)
(* What arrives                                                            *)
(***************************************************************************)
\* An answer that shows nothing new, or only that something failed.
LEMMA NothingShown ==
    ASSUME WInv, Channel', SpentStay, calls' \subseteq calls, sent' = sent,
           UNCHANGED <<session, card, keyCard, prompt, draft, ops, applied, rejected, dropped,
                       written>>,
           stash' \in 0 .. written, barrier' \in BOOLEAN, cancelled' \in Requests,
           thinking' \in {thinking, None},
           gate' \in {gate, None}, answers' \in [Questions -> Nat],
           agent' \in Agents, agent'.hidden => agent'.view # "closed",
           agent'.view \in Shows => agent'.view = agent.view,
           Expected' => Expected /\ agent'.working
    PROVE  WInv'
<1>1. History' /\ Decided' = Decided
  BY HistoryKept DEF WInv
<1>2. DroppedFit' /\ CardFits'
  BY DroppedKept, CardStays DEF WInv
<1>3. TypedPrompt'
  BY DEF WInv, TypedPrompt
<1>4. TypedScreen'
  BY Numbers DEF WInv, Screen, TypedScreen
<1>5. ScreenFits'
  BY DEF WInv, Screen, ScreenFits, Quiet, Expected
<1>6. PromptFits'
  BY DEF WInv, Screen, PromptFits
<1>7. ShownIsFresh'
  BY <1>1 DEF WInv, Screen, ShownIsFresh
<1> QED
  BY <1>1, <1>2, <1>3, <1>4, <1>5, <1>6, <1>7 DEF WInv, Screen

\* A rejection is answered before what was sent after it.
LEMMA NoRejectBehind ==
    ASSUME WInv, inbox # <<>>, NEW d \in calls, d.do = "reject", d.id < Head(inbox).req
    PROVE  FALSE
<1>1. /\ Len(inbox) \in Nat /\ 1 \in 1 .. Len(inbox) /\ Head(inbox) = inbox[1]
      /\ inbox[1].req \in Nat /\ d.id \in Nat
  BY ChannelNumbers, EmptySeq DEF WInv, Channel, TypedChannel
<1>2. AnsweredFirst(d)
  BY DEF WInv, Channel, RejectsFirst
<1>3. ASSUME NEW i \in 1 .. Len(out), out[i] = d PROVE FALSE
  <2>1. inbox[1].req < d.id
    BY <1>1, <1>3 DEF WInv, Channel, InOrder
  <2> QED
    BY <1>1, <2>1
<1>4. ASSUME NEW j \in 1 .. Len(inbox), inbox[j].req = d.id,
             \A i \in 1 .. (j - 1) : inbox[i].req < d.id
      PROVE  FALSE
  <2>1. CASE j = 1
    BY <1>1, <1>4, <2>1
  <2>2. CASE j # 1
    <3>1. 1 \in 1 .. (j - 1)
      BY <2>2
    <3>2. inbox[1].req < d.id
      BY <1>4, <3>1
    <3> QED
      BY <1>1, <3>2
  <2> QED
    BY <2>1, <2>2
<1> QED
  BY <1>2, <1>3, <1>4 DEF AnsweredFirst

\* The result of the turn that is awaited is shown.
LEMMA ResultKeeps ==
    ASSUME WInv, Channel', SpentStay, inbox # <<>>,
           NEW m \in Messages, m = Head(inbox), m.card # NoCard,
           \A n : Final(m) /\ n = m.req => ~Spent(n) /\ Spent(n)',
           thinking = m.req \/ (Expected /\ card.req = m.req),
           ApplyResult(m.card, TRUE), calls' \subseteq calls, sent' = sent,
           UNCHANGED <<applied, rejected, dropped, prompt, written>>,
           stash' \in 0 .. written, barrier' \in BOOLEAN,
           session' \in Requests, session' # None, thinking' = None
    PROVE  WInv'
<1> DEFINE c == m.card
<1>1. /\ Len(inbox) \in Nat /\ 1 \in 1 .. Len(inbox) /\ m = inbox[1]
      /\ m.req \in Nat /\ 0 < m.req /\ m.req <= sent /\ c \in Cards /\ c # NoCard
  BY ChannelNumbers, EmptySeq DEF WInv, Channel, TypedChannel, Messages
<1>2. c.req = m.req
  BY <1>1 DEF WInv, Channel, MessagesFit
<1> HIDE DEF c
<1>3. Quiet
  BY <1>1 DEF WInv, Screen, ScreenFits, Expected, None
<1>4. m.req \notin dropped
  BY <1>1 DEF WInv, Screen, ScreenFits, None
<1>5. \A d \in calls : d.do # "reject"
  <2>1. CASE Expected
    BY <2>1 DEF WInv, Screen, ScreenFits
  <2>2. CASE thinking = m.req
    <3>1. \A d \in calls : d.do = "reject" => d.id < m.req
      BY <1>1, <2>2 DEF WInv, Screen, ScreenFits, None
    <3> QED
      BY <3>1, NoRejectBehind
  <2> QED
    BY <2>1, <2>2
<1>6. ASSUME c.kind # "working" PROVE c \notin Decided /\ \A n : n = c.req => Spent(n)'
  <2>1. ~Spent(m.req) /\ \A n : n = m.req => Spent(n)'
    BY <1>6 DEF Final, c
  <2>2. \A d \in Decided : Spent(d.req)
    BY DEF WInv, History, DecidedFit
  <2> QED
    BY <1>2, <2>1, <2>2
<1>7. ShowCard(c) /\ cancelled' = (IF c.kind = "working" THEN cancelled ELSE None)
  BY DEF ApplyResult, c
<1>8. cancelled' \in Requests
  BY <1>7, Numbers DEF WInv, Screen, TypedScreen
<1>9. /\ draft # NoCard => draft = c
      /\ ops # NoCard => ops = c
  BY <1>3 DEF Quiet
<1>10. Expected \/ thinking # None
  BY <1>1 DEF None
<1>11. c.req <= sent' /\ c.req \notin dropped
  BY <1>1, <1>2, <1>4
<1> QED
  BY <1>1, <1>3, <1>5, <1>6, <1>7, <1>8, <1>9, <1>10, <1>11, ShowKeeps

LEMMA ErrorFits ==
    ASSUME WInv, ShowError
    PROVE  /\ gate' = None /\ answers' \in [Questions -> Nat]
           /\ agent' \in Agents /\ agent'.view = "error"
<1>1. agent' \in Agents /\ agent'.view = "error"
  BY DEF ShowError, Render, WInv, Screen, TypedScreen, Agents, Views
<1> QED
  BY <1>1, SettleType DEF ShowError, WInv, Screen, TypedScreen

LEMMA TurnReadyKeeps ==
    ASSUME WInv, TurnReady PROVE WInv'
<1> DEFINE m == Head(inbox)
<1>1. /\ inbox # <<>> /\ inbox' = Tail(inbox) /\ m.is = "ready"
      /\ UNCHANGED <<session, thinking, barrier, prompt, stash, calls, sent, out, asks, sessions,
                     turns, owed, applied, rejected, dropped, written, settled>>
  BY DEF TurnReady, channel, daemon
<1>2. /\ Channel' /\ SpentStay
      /\ m \in Messages /\ m = inbox[1] /\ 1 \in 1 .. Len(inbox)
      /\ \A n : Final(m) /\ n = m.req => ~Spent(n) /\ Spent(n)'
  BY <1>1, TailKeeps DEF WInv
<1>3. /\ m.req \in Ids /\ m.ok \in BOOLEAN
      /\ m.ok => m.card # NoCard
      /\ session \in Requests /\ barrier \in BOOLEAN /\ stash \in 0 .. written
      /\ answers \in [Questions -> Nat] /\ TypedScreen
  BY <1>1, <1>2
     DEF Messages, WInv, Channel, MessagesFit, Screen, TypedScreen, TypedPrompt
<1> HIDE DEF m
<1>4. CASE UNCHANGED <<cancelled, card, agent, keyCard, gate, answers, draft, ops>>
  BY <1>1, <1>2, <1>3, <1>4, NothingShown DEF TypedScreen, WInv, Screen, ScreenFits, Expected
<1>5. CASE /\ m.session = session /\ m.req # cancelled
           /\ card = [req |-> m.req, kind |-> "working"]
           /\ ~m.ok /\ cancelled' = m.req /\ ShowError
           /\ UNCHANGED <<card, keyCard, draft, ops>>
  <2>1. /\ gate' = None /\ answers' \in [Questions -> Nat]
        /\ agent' \in Agents /\ agent'.view = "error"
    BY <1>5, ErrorFits
  <2>2. ~Expected'
    BY <1>5 DEF Expected
  <2>3. cancelled' \in Requests
    BY <1>3, <1>5, WindowAssumption DEF Ids, Requests
  <2> QED
    BY <1>1, <1>2, <1>3, <1>5, <2>1, <2>2, <2>3, NothingShown DEF Shows
<1>6. CASE /\ m.req # cancelled /\ card = [req |-> m.req, kind |-> "working"]
           /\ m.ok /\ ApplyResult(m.card, TRUE)
  <2>1. Expected /\ card.req = m.req
    BY <1>6 DEF Expected
  <2>2. thinking = None /\ card # NoCard
    BY <2>1 DEF WInv, Screen, ScreenFits, Expected, NoCard
  <2>3. session # None
    BY <2>2 DEF WInv, Screen, ScreenFits
  <2>4. /\ stash' \in 0 .. written /\ barrier' \in BOOLEAN /\ session' \in Requests
        /\ session' # None /\ thinking' = None /\ calls' \subseteq calls /\ sent' = sent
    BY <1>1, <1>3, <2>2, <2>3
  <2>5. m = Head(inbox) /\ m.card # NoCard
    BY <1>3, <1>6 DEF m
  <2> QED
    BY <1>1, <1>2, <1>6, <2>1, <2>4, <2>5, ResultKeeps
<1> QED
  BY <1>4, <1>5, <1>6 DEF TurnReady, m

LEMMA ResponseKeeps ==
    ASSUME WInv, Shipped, Response PROVE WInv'
<1> DEFINE m == Head(inbox)
<1>1. PICK call \in calls :
         /\ call.id = m.req /\ calls' = calls \ {call}
         /\ \/ call.do \in TurnRequests /\ ~Current(call) /\ NothingReported
            \/ call.do = "start" /\ Current(call) /\ Started(call, m)
            \/ call.do = "reply" /\ Current(call) /\ Replied(call, m)
            \/ call.do = "accept" /\ Current(call) /\ AcceptReported(call, m)
            \/ call.do = "reject" /\ RejectReported(call, m)
            \/ call.do = "cancel" /\ CancelReported(call, m)
            \/ call.do = "stop" /\ NothingReported
  BY DEF Response
<1>2. /\ inbox # <<>> /\ inbox' = Tail(inbox) /\ m.is = "response"
      /\ UNCHANGED <<prompt, sent, out, asks, sessions, turns, owed, applied, rejected,
                     dropped, written>>
  BY DEF Response, daemon
<1>3. /\ Channel' /\ SpentStay
      /\ m \in Messages /\ m = inbox[1] /\ 1 \in 1 .. Len(inbox)
      /\ \A n : Final(m) /\ n = m.req => ~Spent(n) /\ Spent(n)'
  <2>1. \A c \in calls' : c.id # m.req
    BY <1>1 DEF WInv, Channel, CallsFit
  <2> HIDE DEF m
  <2> QED
    BY <1>1, <1>2, <2>1, TailKeeps DEF WInv, m
<1>4. m.ok => /\ call.do \in TurnRequests => m.card # NoCard
              /\ call.do = "start" => m.session # None
  BY <1>1, <1>2, <1>3 DEF WInv, Channel, MessagesFit, Answers
<1>5. /\ m.ok \in BOOLEAN /\ m.session \in Requests /\ m.card \in Cards
      /\ session \in Requests /\ barrier \in BOOLEAN /\ stash \in 0 .. written
      /\ None \in 0 .. written /\ cancelled \in Requests
      /\ answers \in [Questions -> Nat] /\ agent \in Agents
      /\ agent.hidden => agent.view # "closed"
      /\ calls' \subseteq calls /\ call.id # None
  BY <1>1, <1>3, CallFields DEF Messages, WInv, Channel, Screen, TypedScreen, TypedPrompt, None
<1> HIDE DEF m
<1>6. ASSUME Current(call)
      PROVE  /\ thinking = m.req /\ thinking # None /\ ~Expected /\ Quiet
             /\ agent.view \notin Shows
             /\ call.do \in {"reply", "accept"} => session # None
  <2>1. thinking = call.id /\ (call.do = "start" \/ call.session = session)
    BY <1>6 DEF Current, Shipped
  <2>2. call.do \in {"reply", "accept"} => call.session # None
    BY DEF WInv, Channel, CallsFit
  <2> QED
    BY <1>1, <1>5, <2>1, <2>2 DEF WInv, Screen, ScreenFits
<1>7. ASSUME UNCHANGED <<session, card, keyCard, draft, ops, cancelled>>,
             stash' \in 0 .. written, barrier' \in BOOLEAN, thinking' \in {thinking, None},
             gate' \in {gate, None}, answers' \in [Questions -> Nat],
             agent' \in Agents, agent'.hidden => agent'.view # "closed",
             agent'.view \in Shows => agent'.view = agent.view,
             Expected => agent'.working
      PROVE  WInv'
  <2>1. Expected' <=> Expected
    BY <1>7 DEF Expected
  <2> QED
    BY <1>2, <1>3, <1>5, <1>7, <2>1, NothingShown
<1>8. Expected => agent.working
  BY DEF WInv, Screen, ScreenFits
<1>9. CASE NothingReported
  BY <1>5, <1>7, <1>8, <1>9 DEF NothingReported
<1>10. CASE call.do \in TurnRequests /\ Current(call) /\ ~m.ok /\ ShowError
            /\ thinking' = None /\ stash' = stash
            /\ UNCHANGED <<session, barrier, cancelled, card, keyCard, draft, ops>>
  <2>1. /\ gate' = None /\ answers' \in [Questions -> Nat]
        /\ agent' \in Agents /\ agent'.view = "error"
    BY <1>10, ErrorFits
  <2> QED
    BY <1>5, <1>6, <1>7, <1>10, <2>1 DEF Shows
<1>11. CASE /\ Current(call) /\ agent' = [agent EXCEPT !.working = FALSE]
            /\ thinking' = None /\ stash' = stash
            /\ UNCHANGED <<session, barrier, cancelled, card, keyCard, gate, answers, draft, ops>>
  <2>1. agent' \in Agents /\ agent'.view = agent.view /\ agent'.hidden = agent.hidden
    BY <1>5, <1>11 DEF Agents
  <2> QED
    BY <1>5, <1>6, <1>7, <1>11, <2>1
<1>12. ASSUME agent' = [agent EXCEPT !.view = "error", !.working = FALSE],
              thinking' \in {thinking, None}, ~Expected, barrier' \in BOOLEAN,
              UNCHANGED <<session, cancelled, card, keyCard, stash, gate, answers, draft, ops>>
       PROVE  WInv'
  <2>1. agent' \in Agents /\ agent'.view = "error"
    BY <1>5, <1>12 DEF Agents, Views
  <2> QED
    BY <1>5, <1>7, <1>12, <2>1 DEF Shows
<1>13. ASSUME call.do \in TurnRequests, Current(call), m.ok, ApplyResult(m.card, TRUE),
              thinking' = None, stash' \in {stash, None}, barrier' = barrier,
              session' \in Requests, session' # None
       PROVE  WInv'
  <2>1. m.card # NoCard /\ thinking = m.req
    BY <1>4, <1>6, <1>13
  <2> QED
    BY <1>2, <1>3, <1>5, <1>13, <2>1, ResultKeeps DEF m
<1>14. CASE call.do = "start" /\ Current(call) /\ Started(call, m)
  <2>1. CASE ~m.ok /\ ShowError
             /\ UNCHANGED <<session, stash, settled, cancelled, card, keyCard, draft, ops>>
    BY <1>10, <1>14, <2>1 DEF Started, TurnRequests
  <2>2. CASE m.ok /\ stash' = None /\ session' = m.session /\ ApplyResult(m.card, TRUE)
    BY <1>4, <1>5, <1>13, <1>14, <2>2 DEF Started, TurnRequests
  <2> QED
    BY <1>14, <2>1, <2>2 DEF Started
<1>15. CASE call.do = "reply" /\ Current(call) /\ Replied(call, m)
  <2>1. CASE ~m.ok /\ ShowError
             /\ UNCHANGED <<stash, settled, cancelled, card, keyCard, draft, ops>>
    BY <1>10, <1>15, <2>1 DEF Replied, TurnRequests
  <2>2. CASE agent' = [agent EXCEPT !.working = FALSE]
             /\ UNCHANGED <<stash, settled, cancelled, card, keyCard, gate, answers, draft, ops>>
    BY <1>11, <1>15, <2>2 DEF Replied
  <2>3. CASE m.ok /\ stash' = None /\ ApplyResult(m.card, TRUE)
    BY <1>5, <1>6, <1>13, <1>15, <2>3 DEF Replied, TurnRequests
  <2> QED
    BY <1>15, <2>1, <2>2, <2>3 DEF Replied
<1>16. CASE call.do = "accept" /\ Current(call) /\ AcceptReported(call, m)
  <2>1. /\ thinking' = None
        /\ UNCHANGED <<session, stash, settled, barrier>>
        /\ \/ /\ ~m.ok /\ Render("error", FALSE)
              /\ UNCHANGED <<cancelled, card, keyCard, gate, answers, draft, ops>>
           \/ /\ agent' = [agent EXCEPT !.working = FALSE]
              /\ UNCHANGED <<cancelled, card, keyCard, gate, answers, draft, ops>>
           \/ m.ok /\ ApplyResult(m.card, TRUE)
    BY <1>6, <1>16 DEF AcceptReported, Quiet
  <2>2. CASE /\ Render("error", FALSE)
             /\ UNCHANGED <<cancelled, card, keyCard, gate, answers, draft, ops>>
    BY <1>5, <1>6, <1>12, <1>16, <2>1, <2>2 DEF Render
  <2>3. CASE /\ agent' = [agent EXCEPT !.working = FALSE]
             /\ UNCHANGED <<cancelled, card, keyCard, gate, answers, draft, ops>>
    BY <1>11, <1>16, <2>1, <2>3
  <2>4. CASE m.ok /\ ApplyResult(m.card, TRUE)
    BY <1>5, <1>6, <1>13, <1>16, <2>1, <2>4 DEF TurnRequests
  <2> QED
    BY <2>1, <2>2, <2>3, <2>4
<1>17. CASE call.do = "reject" /\ RejectReported(call, m)
  <2>1. ~Expected
    BY <1>17 DEF WInv, Screen, ScreenFits
  <2>2. CASE barrier' = FALSE /\ agent' = agent
    BY <1>5, <1>7, <1>8, <1>17, <2>2 DEF RejectReported
  <2>3. CASE barrier' = barrier /\ Render("error", FALSE)
    BY <1>5, <1>12, <1>17, <2>1, <2>3 DEF RejectReported, Render
  <2> QED
    BY <1>17, <2>2, <2>3 DEF RejectReported
<1>18. CASE CancelReported(call, m)
  BY <1>5, <1>7, <1>8, <1>18 DEF CancelReported
<1> QED
  BY <1>1, <1>9, <1>14, <1>15, <1>16, <1>17, <1>18

-----------------------------------------------------------------------------
(***************************************************************************)
(* The theorems                                                            *)
(***************************************************************************)
LEMMA InitWInv ==
    Init => WInv
<1> SUFFICES ASSUME Init PROVE WInv
  OBVIOUS
<1>1. Len(out) = 0 /\ Len(inbox) = 0 /\ Len(applied) = 0
  BY DEF Init
<1>2. TypedChannel
  BY Numbers DEF Init, TypedChannel, Requests
<1>3. Numbered /\ InOrder /\ OneResult /\ CallsFit /\ MessagesFit /\ RejectsFirst
  BY <1>1 DEF Init, Numbered, InOrder, OneResult, CallsFit, MessagesFit, RejectsFirst, None
<1>4. TypedScreen
  BY Numbers DEF Init, TypedScreen, Closed, Agents, Views
<1>5. TypedPrompt /\ DroppedFit
  BY DEF Init, TypedPrompt, NoPrompt, DroppedFit, None
<1>6. ScreenFits /\ PromptFits /\ CardFits /\ ShownIsFresh
  BY DEF Init, ScreenFits, PromptFits, CardFits, ShownIsFresh, Expected, Quiet, NoPrompt,
         NoCard, Closed, Shows
<1>7. Decided = {}
  BY <1>1 DEF Init, Decided
<1>8. History
  BY <1>1, <1>7 DEF Init, History, TypedHistory, DecidedFit, ReportsFit
<1> QED
  BY <1>2, <1>3, <1>4, <1>5, <1>6, <1>8 DEF WInv, Channel, Screen

LEMMA NextWInv ==
    Shipped /\ WInv /\ [Next]_vars => WInv'
<1> SUFFICES ASSUME Shipped, WInv, [Next]_vars PROVE WInv'
  OBVIOUS
<1>1. CASE UNCHANGED vars
  <2>1. UNCHANGED Editing /\ UNCHANGED ChannelVars
    BY <1>1 DEF vars, Editing, ChannelVars, channel, daemon
  <2>2. Channel' /\ SpentStay
    BY <2>1, ChannelIsLeftAlone DEF WInv, Channel
  <2> QED
    BY <2>1, <2>2, EditorKept
<1>2. CASE User
  BY <1>2, PromptOpensKeeps, PromptInterruptsKeeps, PromptRestartsKeeps, ReplyOpensKeeps,
     PromptClosesKeeps, SubmitKeeps, AcceptKeeps, RejectKeeps, StopKeeps, ResetKeeps,
     HideKeeps, ToggleDetailsKeeps, AcceptQuestionKeeps, DenyQuestionKeeps DEF User
<1>3. CASE SubmitPrompt \/ SubmitReply
  BY <1>3, SubmitPromptKeeps, SubmitReplyKeeps
<1>4. CASE Arrival
  BY <1>4, TickKeeps, ProgressKeeps, TurnReadyKeeps, ResponseKeeps, QuestionKeeps DEF Arrival
<1>5. CASE Daemon
  BY <1>5, DaemonKeeps
<1> QED
  BY <1>1, <1>2, <1>3, <1>4, <1>5 DEF Next

LEMMA SpecWInv ==
    Shipped => (Spec => []WInv)
<1> SUFFICES ASSUME Shipped PROVE Spec => []WInv
  OBVIOUS
<1>1. WInv /\ [Next]_vars => WInv'
  BY NextWInv
<1> QED
  BY <1>1, InitWInv, PTL DEF Spec

\* The type invariant of the window: every variable holds what the editor's
\* state table and the pipes can hold.
THEOREM WindowTypeCorrect ==
    Shipped => (Spec => []TypeOK)
<1> SUFFICES ASSUME Shipped PROVE Spec => []TypeOK
  OBVIOUS
<1>1. WInv => TypeOK
  <2> SUFFICES ASSUME WInv PROVE TypeOK
    OBVIOUS
  <2>1. \A c \in calls : c.id \in 1 .. sent
    BY ChannelNumbers DEF WInv
  <2> QED
    BY <2>1 DEF TypeOK, WInv, Channel, TypedChannel, Screen, TypedScreen, TypedPrompt
<1> QED
  BY <1>1, SpecWInv, PTL

\* diff.accept and fileops.accept report the draft that became the file, each
\* once, and no proposal is both accepted and rejected: in the configuration
\* the editor ships with, for any number of requests.
THEOREM ReportsAreAlwaysTrue ==
    Shipped => (Spec => []ReportsAreTrue)
<1> SUFFICES ASSUME Shipped PROVE Spec => []ReportsAreTrue
  OBVIOUS
<1>1. WInv => \A i \in DOMAIN applied :
                 applied[i].draft = applied[i].card /\ applied[i].card \notin rejected
  BY DEF WInv, History, TypedHistory, ReportsFit
<1>2. WInv => \A i, j \in DOMAIN applied : applied[i].card = applied[j].card => i = j
  BY DEF WInv, History, TypedHistory, ReportsFit
<1>3. TypeOK /\ WInv => ReportsAreTrue
  BY <1>1, <1>2 DEF ReportsAreTrue
<1> QED
  BY <1>3, SpecWInv, WindowTypeCorrect, PTL

\* thinking.current and the cancelled turn: what arrives for a turn the user
\* interrupted or stopped is never the response or the review on the screen.
THEOREM LateResultsAreAlwaysIgnored ==
    Shipped => (Spec => []LateResultsAreIgnored)
<1> SUFFICES ASSUME Shipped PROVE Spec => []LateResultsAreIgnored
  OBVIOUS
<1>1. WInv => LateResultsAreIgnored
  BY DEF WInv, Screen, ShownIsFresh, LateResultsAreIgnored, Shows
<1> QED
  BY <1>1, SpecWInv, PTL

\* diff.reject and fileops.reject: what the user rejected cannot be decided
\* again (scope.lua).
THEOREM RejectedIsAlwaysInert ==
    Shipped => (Spec => []RejectedIsInert)
<1> SUFFICES ASSUME Shipped PROVE Spec => []RejectedIsInert
  OBVIOUS
<1>1. WInv => RejectedIsInert
  BY DEF WInv, Screen, ShownIsFresh, Decided, Deciding, RejectedIsInert, Shows
<1> QED
  BY <1>1, SpecWInv, PTL

\* The text of a prompt is kept until the daemon has accepted it, or the
\* user resets: with or without the thinking view, whatever keys are pressed.
THEOREM TextIsAlwaysKept ==
    Spec => []TextIsKept
<1> DEFINE Kept == written \in Nat /\ TextIsKept
<1>1. Init => Kept
  BY DEF Init, TextIsKept
<1>2. Kept /\ [Next]_vars => Kept'
  <2> SUFFICES ASSUME Kept, [Next]_vars PROVE Kept'
    OBVIOUS
  <2>1. \/ UNCHANGED <<written, stash, settled>>
        \/ Submit \/ Reset \/ Response
    <3>1. CASE User
      BY <3>1 DEF User, PromptOpens, PromptInterrupts, PromptRestarts, ReplyOpens,
         PromptCloses, Accept, Reject, Stop, Hide, ToggleDetails, AcceptQuestion,
         DenyQuestion, history
    <3>2. CASE SubmitPrompt \/ SubmitReply
      BY <3>2 DEF SubmitPrompt, SubmitReply, history
    <3>3. CASE Arrival
      BY <3>3 DEF Arrival, Tick, Progress, TurnReady, Question, history
    <3>4. CASE Daemon
      BY <3>4 DEF Daemon, Serve, WriteWorking, Yield, TurnEnds, TurnAsks, QuestionEnds,
         Editing, editor, history
    <3>5. CASE UNCHANGED vars
      BY <3>5 DEF vars, editor, history
    <3> QED
      BY <3>1, <3>2, <3>3, <3>4, <3>5 DEF Next
  <2>2. CASE UNCHANGED <<written, stash, settled>>
    BY <2>2 DEF TextIsKept
  <2>3. CASE Submit
    BY <2>3 DEF Submit, TextIsKept
  <2>4. CASE Reset
    <3>1. settled' = settled \cup (1 .. written) /\ written' = written
      BY <2>4 DEF Reset
    <3>2. written # 0 => written \in 1 .. written
      OBVIOUS
    <3> QED
      BY <3>1, <3>2 DEF TextIsKept
  <2>5. CASE Response
    <3>1. /\ written' = written
          /\ \/ UNCHANGED <<stash, settled>>
             \/ settled' = settled \cup {written}
      BY <2>5 DEF Response, NothingReported, Started, Replied, AcceptReported,
         RejectReported, CancelReported
    <3> QED
      BY <3>1 DEF TextIsKept
  <2> QED
    BY <2>1, <2>2, <2>3, <2>4, <2>5
<1>3. Kept => TextIsKept
  OBVIOUS
<1> QED
  BY <1>1, <1>2, <1>3, PTL DEF Spec

-----------------------------------------------------------------------------
(***************************************************************************)
(* One turn at a time                                                      *)
(***************************************************************************)
\* The session a call is about, once the daemon has named it.
Home(c) == IF c.do = "start" THEN c.id ELSE c.session
Turning(r) == r.do \in {"reply", "accept"}
Ending(r, s) == r.do \in {"reject", "cancel"} /\ r.session = s
EndsBetween(s, i, k) == \E j \in 1 .. Len(out) : i < j /\ j < k /\ Ending(out[j], s)

\* Sessions are older than what is sent for them.
SessionsAreOld ==
    /\ session <= sent
    /\ \A i \in 1 .. Len(out) : out[i].session <= sent
    /\ \A t \in turns : t.session <= sent

\* A session nobody has heard of runs its first turn, and nothing else.
StartsAreAlone ==
    \A c \in calls : c.do = "start" =>
        /\ session # c.id
        /\ \A i \in 1 .. Len(out) : out[i].session # c.id
        /\ \A t \in turns : t.session = c.id => t.req = c.id

\* A turn and an answer belong to the session of their request.
HomesFit ==
    /\ \A c \in calls, t \in turns : t.req = c.id => t.session = Home(c)
    /\ \A c \in calls : \A i \in 1 .. Len(inbox) :
          /\ inbox[i].is = "response" /\ inbox[i].req = c.id /\ inbox[i].ok
          => inbox[i].session = Home(c)
    /\ \A i \in 1 .. Len(out) : out[i] \in calls
    /\ \A i \in 1 .. Len(inbox) : ~inbox[i].ok => Final(inbox[i])

\* Before a turn is asked for, what runs or is asked for in its session is
\* rejected or cancelled.
TurnsAreEnded ==
    \A k \in 1 .. Len(out) : Turning(out[k]) =>
        /\ \A t \in turns : t.session = out[k].session => EndsBetween(out[k].session, 0, k)
        /\ \A i \in 1 .. Len(out) :
              i < k /\ Turning(out[i]) /\ out[i].session = out[k].session =>
                  EndsBetween(out[k].session, i, k)

Requested == SessionsAreOld /\ StartsAreAlone /\ HomesFit /\ TurnsAreEnded

\* The editor waits for request n or shows that it is being worked on.
Awaited(n) == thinking = n \/ (Expected /\ card.req = n)
Past(i) == \E j \in 1 .. Len(out) : i < j /\ Ending(out[j], session)

\* What runs in the editor's session, and what will, is awaited or ended.
AllAreAwaited ==
    /\ \A t \in turns : t.session = session => Awaited(t.req) \/ Past(0)
    /\ \A i \in 1 .. Len(out) : Turning(out[i]) /\ out[i].session = session =>
          thinking = out[i].id \/ Past(i)

\* What the editor heard of is not a call any more.
HeardOf ==
    /\ cancelled <= sent
    /\ \A c \in calls : c.id # cancelled /\ (card.kind = "working" => c.id # card.req)

AskedOnce ==
    \A q \in Questions :
        /\ answers[q] <= 1
        /\ q \in asks => answers[q] = 0 /\ gate # q
        /\ q = gate => answers[q] = 0
TInv == Requested /\ AllAreAwaited /\ HeardOf /\ AskedOnce

-----------------------------------------------------------------------------
(***************************************************************************)
(* The requests of a session                                               *)
(***************************************************************************)
LEMMA RequestedStays ==
    ASSUME Requested, UNCHANGED ChannelVars, session' = session
    PROVE  Requested'
<1>1. UNCHANGED <<sent, calls, out, inbox, turns, session>>
  BY DEF ChannelVars
<1>2. \A s, i, k : EndsBetween(s, i, k)' <=> EndsBetween(s, i, k)
  BY <1>1 DEF EndsBetween, Ending
<1>3. SessionsAreOld' /\ StartsAreAlone'
  BY <1>1 DEF Requested, SessionsAreOld, StartsAreAlone
<1>4. HomesFit'
  BY <1>1 DEF Requested, HomesFit, Home, Final
<1>5. TurnsAreEnded'
  BY <1>1, <1>2 DEF Requested, TurnsAreEnded, Turning
<1> QED
  BY <1>3, <1>4, <1>5 DEF Requested

\* What the sessions of the pipes are.
LEMMA SessionNumbers ==
    ASSUME WInv, Requested
    PROVE  /\ session \in Nat /\ session <= sent /\ sent \in Nat
           /\ \A i \in 1 .. Len(out) :
                 out[i].session \in Nat /\ out[i].session <= sent /\ out[i] \in calls
           /\ \A t \in turns : t.session \in Nat /\ 0 < t.session /\ t.session <= sent
<1>1. sent \in Nat /\ session \in Nat
  BY ChannelNumbers, Numbers DEF WInv, Screen, TypedScreen
<1>2. \A i \in 1 .. Len(out) : out[i].session \in Nat
  BY OutFields, Numbers DEF WInv, Channel
<1>3. \A t \in turns : t.session \in Nat /\ 0 < t.session
  BY TurnFields, WindowAssumption DEF WInv, Channel, Ids
<1> QED
  BY <1>1, <1>2, <1>3 DEF Requested, SessionsAreOld, HomesFit

\* New requests are of the session on the screen or of none.
LEMMA SendRequested ==
    ASSUME WInv, Requested, NEW q \in Seq(CallRecords), Send(q),
           UNCHANGED <<inbox, turns>>, session' \in {session, None},
           \A n \in 1 .. Len(q) :
               /\ q[n].id = sent + n /\ q[n].session \in {session, None}
               /\ Turning(q[n]) =>
                     /\ Len(q) = 1 /\ q[n].session = session
                     /\ \A t \in turns : t.session = session => Past(0)
                     /\ \A i \in 1 .. Len(out) :
                           Turning(out[i]) /\ out[i].session = session => Past(i)
    PROVE  /\ Requested' /\ Len(out') = Len(out) + Len(q)
           /\ \A i \in 1 .. Len(out) : i \in 1 .. Len(out') /\ out'[i] = out[i]
           /\ \A n \in 1 .. Len(q) :
                 Len(out) + n \in 1 .. Len(out') /\ out'[Len(out) + n] = q[n]
           /\ \A i \in 1 .. Len(out') : i \notin 1 .. Len(out) =>
                 i - Len(out) \in 1 .. Len(q) /\ out'[i] = q[i - Len(out)]
<1>0. /\ out' = out \o q /\ calls' = calls \cup {q[i] : i \in 1 .. Len(q)}
      /\ out \in Seq(CallRecords) /\ sent' = sent + Len(q) /\ Len(q) \in Nat
      /\ Len(out) \in Nat
  BY LenProperties DEF WInv, Channel, TypedChannel, Send
<1>1. /\ Len(out') = Len(out) + Len(q)
      /\ \A i \in 1 .. Len(out) : i \in 1 .. Len(out') /\ out'[i] = out[i]
      /\ \A n \in 1 .. Len(q) :
            Len(out) + n \in 1 .. Len(out') /\ out'[Len(out) + n] = q[n]
      /\ \A i \in 1 .. Len(out') : i \notin 1 .. Len(out) =>
            i - Len(out) \in 1 .. Len(q) /\ out'[i] = q[i - Len(out)]
  BY <1>0, ConcatProperties
<1>2. /\ sent \in Nat /\ sent' \in Nat /\ sent <= sent' /\ session \in Nat
      /\ session <= sent /\ None = 0
      /\ \A n \in 1 .. Len(q) : /\ q[n].id = sent + n /\ q[n].id \in Nat /\ sent < q[n].id
                                /\ q[n].session <= sent /\ q[n].session \in Nat
  <2>1. /\ sent \in Nat /\ session \in Nat /\ session <= sent /\ None = 0 /\ None <= sent
    BY SessionNumbers DEF None
  <2>2. sent' \in Nat /\ sent <= sent'
    BY <1>0, <2>1
  <2>3. ASSUME NEW n \in 1 .. Len(q) PROVE q[n].session \in Nat /\ q[n].session <= sent
    <3>1. q[n].session = session \/ q[n].session = None
      OBVIOUS
    <3> QED
      BY <2>1, <3>1
  <2>4. \A n \in 1 .. Len(q) : q[n].id = sent + n /\ q[n].id \in Nat /\ sent < q[n].id
    BY <1>0, <2>1
  <2> QED
    BY <2>1, <2>2, <2>3, <2>4
<1>3. \A i \in 1 .. Len(out') : i \in 1 .. Len(out) \/ \E n \in 1 .. Len(q) : out'[i] = q[n]
  BY <1>1
<1>4. \A i \in 1 .. Len(out') :
         out'[i].session \in Nat /\ out'[i].session <= sent /\ out'[i] \in calls'
  <2>1. \A i \in 1 .. Len(out) :
           out'[i].session \in Nat /\ out'[i].session <= sent /\ out'[i] \in calls'
    BY <1>0, <1>1, SessionNumbers
  <2>2. \A n \in 1 .. Len(q) :
           q[n].session \in Nat /\ q[n].session <= sent /\ q[n] \in calls'
    BY <1>0, <1>2
  <2> QED
    BY <1>3, <2>1, <2>2
<1>5. SessionsAreOld'
  <2>1. session' <= sent'
    BY <1>2
  <2>2. \A i \in 1 .. Len(out') : out'[i].session <= sent'
    BY <1>2, <1>4
  <2>3. \A t \in turns : t.session <= sent'
    BY <1>2, SessionNumbers
  <2> QED
    BY <2>1, <2>2, <2>3 DEF SessionsAreOld
<1>6. StartsAreAlone'
  <2> SUFFICES ASSUME NEW c \in calls', c.do = "start"
               PROVE  /\ session' # c.id
                      /\ \A i \in 1 .. Len(out') : out'[i].session # c.id
                      /\ \A t \in turns : t.session = c.id => t.req = c.id
    BY DEF StartsAreAlone
  <2>1. CASE c \in calls
    <3>1. /\ session # c.id /\ c.id # None
          /\ \A i \in 1 .. Len(out) : out[i].session # c.id
          /\ \A t \in turns : t.session = c.id => t.req = c.id
      BY <2>1, CallFields DEF WInv, Channel, Requested, StartsAreAlone
    <3>2. \A n \in 1 .. Len(q) : q[n].session # c.id
      BY <3>1
    <3> QED
      BY <1>1, <1>3, <3>1, <3>2
  <2>2. CASE c \notin calls
    <3>1. PICK n \in 1 .. Len(q) : c = q[n]
      BY <1>0, <2>2
    <3>2. c.id > sent /\ c.id \in Nat
      BY <1>2, <3>1
    <3>3. session' # c.id /\ \A t \in turns : t.session # c.id
      BY <1>2, <3>2, SessionNumbers
    <3>4. \A i \in 1 .. Len(out') : out'[i].session # c.id
      BY <1>2, <1>4, <3>2
    <3> QED
      BY <3>3, <3>4
  <2> QED
    BY <2>1, <2>2
<1>7. HomesFit'
  <2>1. ASSUME NEW c \in calls', c \notin calls
        PROVE  /\ \A t \in turns : t.req # c.id
               /\ \A i \in 1 .. Len(inbox) : inbox[i].req # c.id
    <3>1. PICK n \in 1 .. Len(q) : c = q[n]
      BY <1>0, <2>1
    <3>2. c.id > sent /\ c.id \in Nat
      BY <1>2, <3>1
    <3> QED
      BY <1>2, <3>2, ChannelNumbers DEF WInv
  <2> QED
    BY <1>4, <2>1 DEF Requested, HomesFit, Home, Final
<1>8. TurnsAreEnded'
  <2> SUFFICES ASSUME NEW k \in 1 .. Len(out'), Turning(out'[k]),
                      NEW s, s = out'[k].session
               PROVE  /\ \A t \in turns : t.session = s => EndsBetween(s, 0, k)'
                      /\ \A i \in 1 .. Len(out') :
                            i < k /\ Turning(out'[i]) /\ out'[i].session = s =>
                                EndsBetween(s, i, k)'
    BY DEF TurnsAreEnded, Turning
  <2>1. CASE k \in 1 .. Len(out)
    <3>1. \A i \in 1 .. Len(out') : i < k => i \in 1 .. Len(out)
      BY <1>0, <2>1
    <3>2. \A i : EndsBetween(s, i, k) => EndsBetween(s, i, k)'
      BY <1>1 DEF EndsBetween, Ending
    <3>3. Turning(out[k]) /\ s = out[k].session
      BY <1>1, <2>1
    <3>4. ASSUME NEW i \in 1 .. Len(out'), i < k, Turning(out'[i]), out'[i].session = s
          PROVE  EndsBetween(s, i, k)
      BY <1>1, <2>1, <3>1, <3>3, <3>4 DEF Requested, TurnsAreEnded
    <3>5. \A t \in turns : t.session = s => EndsBetween(s, 0, k)
      BY <2>1, <3>3 DEF Requested, TurnsAreEnded
    <3> QED
      BY <3>2, <3>4, <3>5
  <2>2. CASE k \notin 1 .. Len(out)
    <3>1. PICK n \in 1 .. Len(q) : out'[k] = q[n]
      BY <1>1, <2>2
    <3>2. /\ Len(q) = 1 /\ s = session
          /\ \A t \in turns : t.session = session => Past(0)
          /\ \A i \in 1 .. Len(out) : Turning(out[i]) /\ out[i].session = session => Past(i)
      BY <3>1
    <3>3. \A j \in 1 .. Len(out) : j < k
      BY <1>0, <2>2
    <3>4. \A i : Past(i) => EndsBetween(s, i, k)'
      BY <1>1, <3>2, <3>3 DEF Past, EndsBetween, Ending
    <3>5. \A i \in 1 .. Len(out') : i < k => i \in 1 .. Len(out)
      BY <1>0, <1>1, <3>2
    <3> QED
      BY <1>1, <3>2, <3>4, <3>5
  <2> QED
    BY <2>1, <2>2
<1> QED
  BY <1>1, <1>5, <1>6, <1>7, <1>8 DEF Requested

\* The end of the daemon leaves nothing to ask of the pipes.
LEMMA EndRequested ==
    ASSUME WInv, Requested, DaemonEnds, session' \in {session, None}
    PROVE  Requested' /\ turns' = {} /\ Len(out') = 0 /\ calls' = {}
<1>1. /\ Len(out') = 0 /\ Len(inbox') = 0 /\ turns' = {} /\ calls' = {} /\ sent' = sent
  BY EmptySeq DEF DaemonEnds
<1>2. session' <= sent
  BY SessionNumbers DEF None
<1> QED
  BY <1>1, <1>2 DEF Requested, SessionsAreOld, StartsAreAlone, HomesFit, TurnsAreEnded

\* A message is taken from the pipe, and the callback it answers is gone.
LEMMA TakeRequested ==
    ASSUME WInv, Requested, inbox # <<>>, inbox' = Tail(inbox), calls' \subseteq calls,
           \A c \in calls : c \notin calls' => c.id = Head(inbox).req,
           UNCHANGED <<sent, out, turns>>,
           session' <= sent, \A c \in calls' : c.do = "start" => session' # c.id
    PROVE  Requested'
<1>1. /\ inbox \in Seq(Messages) /\ Head(inbox) = inbox[1]
      /\ Len(inbox) \in Nat /\ 1 \in 1 .. Len(inbox)
  BY ChannelNumbers, HeadTailProperties, EmptySeq DEF WInv, Channel, TypedChannel
<1>2. /\ Len(inbox') = Len(inbox) - 1
      /\ \A i \in 1 .. Len(inbox') : i + 1 \in 1 .. Len(inbox) /\ inbox'[i] = inbox[i + 1]
  BY <1>1, HeadTailProperties
<1>3. \A i \in 1 .. Len(out) : out[i] \in calls'
  <2>1. \A i \in 1 .. Len(out) : out[i] \in calls /\ out[i].id # inbox[1].req
    BY <1>1, SessionNumbers, ChannelNumbers DEF WInv, Channel, InOrder
  <2> QED
    BY <1>1, <2>1
<1>4. SessionsAreOld' /\ StartsAreAlone'
  BY DEF Requested, SessionsAreOld, StartsAreAlone
<1>5. HomesFit'
  BY <1>2, <1>3 DEF Requested, HomesFit, Home, Final
<1>6. \A s, i, k : EndsBetween(s, i, k)' <=> EndsBetween(s, i, k)
  BY DEF EndsBetween, Ending
<1>7. TurnsAreEnded'
  BY <1>6 DEF Requested, TurnsAreEnded, Turning
<1> QED
  BY <1>4, <1>5, <1>7 DEF Requested

\* A turn that yields, asks or gets its answer is of the same session.
LEMMA TurnRequested ==
    ASSUME Requested, NEW t \in turns, NEW u, u.req = t.req, u.session = t.session,
           turns' = (turns \ {t}) \cup {u},
           UNCHANGED <<session, sent, calls, out, inbox>>
    PROVE  Requested'
<1>1. \A s, i, k : EndsBetween(s, i, k)' <=> EndsBetween(s, i, k)
  BY DEF EndsBetween, Ending
<1>2. \A v \in turns' : \E w \in turns : w.req = v.req /\ w.session = v.session
  OBVIOUS
<1>3. SessionsAreOld' /\ StartsAreAlone'
  BY <1>2 DEF Requested, SessionsAreOld, StartsAreAlone
<1>4. HomesFit'
  BY <1>2 DEF Requested, HomesFit, Home, Final
<1>5. TurnsAreEnded'
  BY <1>1, <1>2 DEF Requested, TurnsAreEnded, Turning
<1> QED
  BY <1>3, <1>4, <1>5 DEF Requested

\* A message of the session its request is about is written.
LEMMA WriteRequested ==
    ASSUME WInv, Requested, NEW m \in Messages, Write(m), turns' \subseteq turns,
           \A c \in calls : m.is = "response" /\ m.req = c.id /\ m.ok => m.session = Home(c),
           ~m.ok => Final(m),
           UNCHANGED <<session, sent, calls, out>>
    PROVE  Requested'
<1> DEFINE last == Len(inbox) + 1
<1>1. /\ Len(inbox') = last /\ inbox'[last] = m
      /\ \A i \in 1 .. Len(inbox') : i # last => i \in 1 .. Len(inbox) /\ inbox'[i] = inbox[i]
  BY AppendProperties, ChannelNumbers DEF WInv, Channel, TypedChannel, Write
<1> HIDE DEF last
<1>2. \A s, i, k : EndsBetween(s, i, k)' <=> EndsBetween(s, i, k)
  BY DEF EndsBetween, Ending
<1>3. SessionsAreOld' /\ StartsAreAlone'
  BY DEF Requested, SessionsAreOld, StartsAreAlone
<1>4. ASSUME NEW i \in 1 .. Len(inbox')
      PROVE  /\ \A c \in calls : inbox'[i].is = "response" /\ inbox'[i].req = c.id /\ inbox'[i].ok
                                     => inbox'[i].session = Home(c)
             /\ ~inbox'[i].ok => Final(inbox'[i])
  <2>1. CASE i = last
    BY <1>1, <2>1
  <2>2. CASE i # last
    BY <1>1, <2>2 DEF Requested, HomesFit
  <2> QED
    BY <2>1, <2>2
<1>5. HomesFit'
  BY <1>4 DEF Requested, HomesFit, Home, Final
<1>6. TurnsAreEnded'
  BY <1>2 DEF Requested, TurnsAreEnded, Turning
<1> QED
  BY <1>3, <1>5, <1>6 DEF Requested

\* The oldest request is served.  A turn takes the place of those it ends;
\* the others stay, but for those of a session whose end was asked for.
LEMMA TailRequested ==
    ASSUME WInv, Requested, out # <<>>, out' = Tail(out),
           Head(out).do \in {"reject", "cancel"} =>
               \A t \in turns' : t.session # Head(out).session,
           \A t \in turns' : t \in turns \/
               /\ t.req = Head(out).id
               /\ \/ Head(out).do = "start" /\ t.session = Head(out).id
                  \/ Turning(Head(out)) /\ t.session = Head(out).session,
           UNCHANGED <<session, sent, calls>>
    PROVE  SessionsAreOld' /\ StartsAreAlone' /\ TurnsAreEnded'
<1> DEFINE r == out[1]
<1>1. /\ Head(out) = r /\ 1 \in 1 .. Len(out) /\ r \in calls /\ r.id <= sent
      /\ \A i \in 1 .. Len(out') : i + 1 \in 1 .. Len(out) /\ out'[i] = out[i + 1]
      /\ \A i \in 1 .. Len(out) : i # 1 => i - 1 \in 1 .. Len(out') /\ out'[i - 1] = out[i]
  BY Served, SessionNumbers, ChannelNumbers DEF WInv
<1>2. SessionsAreOld'
  <2>1. \A t \in turns' : t.session <= sent
    BY <1>1, SessionNumbers
  <2> QED
    BY <1>1, <2>1 DEF Requested, SessionsAreOld
<1>3. StartsAreAlone'
  <2> SUFFICES ASSUME NEW c \in calls, c.do = "start"
               PROVE  /\ \A i \in 1 .. Len(out') : out'[i].session # c.id
                      /\ \A t \in turns' : t.session = c.id => t.req = c.id
    BY DEF Requested, StartsAreAlone
  <2>1. /\ \A i \in 1 .. Len(out) : out[i].session # c.id
        /\ \A t \in turns : t.session = c.id => t.req = c.id
    BY DEF Requested, StartsAreAlone
  <2> QED
    BY <1>1, <2>1
<1>4. TurnsAreEnded'
  <2> SUFFICES ASSUME NEW k \in 1 .. Len(out'), Turning(out'[k]),
                      NEW s, s = out'[k].session
               PROVE  /\ \A t \in turns' : t.session = s => EndsBetween(s, 0, k)'
                      /\ \A i \in 1 .. Len(out') :
                            i < k /\ Turning(out'[i]) /\ out'[i].session = s =>
                                EndsBetween(s, i, k)'
    BY DEF TurnsAreEnded, Turning
  <2>1. k + 1 \in 1 .. Len(out) /\ Turning(out[k + 1]) /\ out[k + 1].session = s
    BY <1>1
  <2>2. /\ \A t \in turns : t.session = s => EndsBetween(s, 0, k + 1)
        /\ \A i \in 1 .. Len(out) : i < k + 1 /\ Turning(out[i]) /\ out[i].session = s =>
              EndsBetween(s, i, k + 1)
    BY <2>1 DEF Requested, TurnsAreEnded
  <2>3. ASSUME NEW i \in Nat, NEW j \in 1 .. Len(out), j # 1, i < j, j < k + 1, i > 0,
               Ending(out[j], s)
        PROVE  EndsBetween(s, i - 1, k)'
    <3>1. j - 1 \in 1 .. Len(out') /\ Ending(out'[j - 1], s)
      BY <1>1, <2>3
    <3>2. i - 1 < j - 1 /\ j - 1 < k
      BY <2>3
    <3> QED
      BY <3>1, <3>2 DEF EndsBetween, Ending
  <2>4. ASSUME NEW i \in 1 .. Len(out), EndsBetween(s, i, k + 1) PROVE EndsBetween(s, i - 1, k)'
    <3>1. PICK j \in 1 .. Len(out) : i < j /\ j < k + 1 /\ Ending(out[j], s)
      BY <2>4 DEF EndsBetween
    <3>2. j # 1 /\ i \in Nat /\ i > 0
      BY <3>1
    <3> QED
      BY <2>3, <3>1, <3>2
  <2>5. ASSUME NEW t \in turns', t.session = s PROVE EndsBetween(s, 0, k)'
    <3>1. CASE t \in turns
      <4>1. PICK j \in 1 .. Len(out) : 0 < j /\ j < k + 1 /\ Ending(out[j], s)
        BY <2>2, <2>5, <3>1 DEF EndsBetween
      <4>2. j # 1
        BY <1>1, <2>5, <4>1 DEF Ending
      <4>3. 1 < j
        BY <4>2
      <4>4. EndsBetween(s, 1, k + 1)
        BY <4>1, <4>3 DEF EndsBetween
      <4> QED
        BY <1>1, <2>4, <4>4
    <3>2. CASE t \notin turns
      <4>1. ~(r.do = "start" /\ t.session = r.id)
        BY <1>1, <2>1, <2>5 DEF Requested, StartsAreAlone
      <4>2. Turning(r) /\ r.session = s
        BY <1>1, <2>5, <3>2, <4>1
      <4>3. EndsBetween(s, 1, k + 1)
        BY <1>1, <2>2, <4>2
      <4> QED
        BY <1>1, <2>4, <4>3
    <3> QED
      BY <3>1, <3>2
  <2>6. ASSUME NEW i \in 1 .. Len(out'), i < k, Turning(out'[i]), out'[i].session = s
        PROVE  EndsBetween(s, i, k)'
    <3>1. i + 1 \in 1 .. Len(out) /\ Turning(out[i + 1]) /\ out[i + 1].session = s
      BY <1>1, <2>6
    <3>2. EndsBetween(s, i + 1, k + 1)
      BY <2>2, <2>6, <3>1
    <3>3. EndsBetween(s, (i + 1) - 1, k)'
      BY <2>4, <3>1, <3>2
    <3> QED
      BY <3>3
  <2> QED
    BY <2>5, <2>6
<1> QED
  BY <1>2, <1>3, <1>4

LEMMA ServeRequested ==
    ASSUME WInv, Requested, Serve
    PROVE  /\ Requested' /\ out # <<>> /\ out' = Tail(out) /\ UNCHANGED Editing
           /\ Head(out).do \in {"reject", "cancel"} =>
                 turns' = {t \in turns : t.session # Head(out).session}
           /\ \A t \in turns' : t \in turns \/
                 /\ t.req = Head(out).id
                 /\ \/ Head(out).do = "start" /\ t.session = Head(out).id
                    \/ Turning(Head(out)) /\ t.session = Head(out).session
<1> DEFINE r == Head(out)
           others == {t \in turns : t.session # r.session}
<1>1. /\ out # <<>> /\ out' = Tail(out) /\ UNCHANGED <<Editing, session, calls, sent, owed>>
  BY DEF Serve, Editing, editor
<1>2. /\ r \in CallRecords /\ r.id \in Ids /\ r = out[1] /\ 1 \in 1 .. Len(out)
      /\ r.session \in Requests /\ r \in calls
  BY <1>1, Served, SessionNumbers DEF WInv, CallRecords
<1>3. \A c \in calls : c.id = r.id => c = r
  BY <1>2 DEF WInv, Channel, CallsFit
<1>4. \/ /\ r.do = "start" /\ turns' = turns \cup {Turn(r.id, r.id)} /\ UNCHANGED inbox
      \/ /\ Turning(r) /\ turns' = others \cup {Turn(r.id, r.session)} /\ UNCHANGED inbox
      \/ /\ r.do # "start" /\ turns' = others
         /\ \E ok \in BOOLEAN, c \in {NoCard, [req |-> r.id, kind |-> "patch"]} :
               Write(Message("response", r.id, r.session, ok, c))
  <2> HIDE DEF others
  <2> QED
    BY DEF Serve, Turning, others
<1>5. \A t \in turns' : t \in turns \/
         /\ t.req = r.id
         /\ \/ r.do = "start" /\ t.session = r.id
            \/ Turning(r) /\ t.session = r.session
  BY <1>4 DEF Turn
<1>6. r.do \in {"reject", "cancel"} => turns' = others
  BY <1>4 DEF Turning
<1>7. SessionsAreOld' /\ StartsAreAlone' /\ TurnsAreEnded'
  BY <1>1, <1>5, <1>6, TailRequested
<1>8. \A i \in 1 .. Len(out') : out'[i] \in calls
  BY <1>1, Served, SessionNumbers DEF WInv
<1>9. \A c \in calls, t \in turns' : t.req = c.id => t.session = Home(c)
  <2> SUFFICES ASSUME NEW c \in calls, NEW t \in turns', t.req = c.id PROVE t.session = Home(c)
    OBVIOUS
  <2>1. CASE t \in turns
    BY <2>1 DEF Requested, HomesFit
  <2>2. CASE t \notin turns
    BY <1>3, <1>5, <2>2 DEF Home, Turning
  <2> QED
    BY <2>1, <2>2
<1>10. CASE UNCHANGED inbox
  <2>1. HomesFit'
    BY <1>1, <1>8, <1>9, <1>10 DEF Requested, HomesFit, Home, Final
  <2> QED
    BY <1>1, <1>5, <1>6, <1>7, <2>1 DEF Requested
<1>11. CASE /\ r.do # "start" /\ turns' = others
            /\ \E ok \in BOOLEAN, c \in {NoCard, [req |-> r.id, kind |-> "patch"]} :
                  Write(Message("response", r.id, r.session, ok, c))
  <2>1. PICK ok \in BOOLEAN, c \in {NoCard, [req |-> r.id, kind |-> "patch"]} :
           Write(Message("response", r.id, r.session, ok, c))
    BY <1>11
  <2> DEFINE m == Message("response", r.id, r.session, ok, c)
             last == Len(inbox) + 1
  <2>2. /\ m.req = r.id /\ m.session = r.session /\ Final(m) /\ m \in Messages
    BY <1>2 DEF Message, Messages, Final, NoCard, Cards, Ids
  <2>3. Write(m)
    BY <2>1
  <2> HIDE DEF m
  <2>4. /\ Len(inbox') = last /\ inbox'[last] = m
        /\ \A i \in 1 .. Len(inbox') :
              i # last => i \in 1 .. Len(inbox) /\ inbox'[i] = inbox[i]
    BY <2>2, <2>3, AppendProperties, ChannelNumbers DEF WInv, Channel, TypedChannel, Write
  <2> HIDE DEF last
  <2>5. ASSUME NEW i \in 1 .. Len(inbox')
        PROVE  /\ \A d \in calls : inbox'[i].is = "response" /\ inbox'[i].req = d.id
                                   /\ inbox'[i].ok => inbox'[i].session = Home(d)
               /\ ~inbox'[i].ok => Final(inbox'[i])
    <3>1. CASE i = last
      BY <1>3, <1>11, <2>2, <2>4, <3>1 DEF Home
    <3>2. CASE i # last
      BY <2>4, <3>2 DEF Requested, HomesFit
    <3> QED
      BY <3>1, <3>2
  <2>6. HomesFit'
    BY <1>1, <1>8, <1>9, <2>5 DEF HomesFit, Home, Final
  <2> QED
    BY <1>1, <1>5, <1>6, <1>7, <2>6 DEF Requested
<1> QED
  BY <1>4, <1>10, <1>11

LEMMA TurnEndsRequested ==
    ASSUME WInv, Requested, NEW t \in turns, TurnEnds(t)
    PROVE  Requested' /\ UNCHANGED <<Editing, out>> /\ turns' \subseteq turns
<1> DEFINE is == IF t.yielded THEN "ready" ELSE "response"
<1>1. t.req \in Ids /\ t.session \in Requests /\ is \in {"ready", "response"}
  BY TurnFields DEF WInv, Channel, Ids, Requests
<1>2. PICK ok \in BOOLEAN, c \in Results(t.req) \cup {NoCard} :
         Write(Message(is, t.req, t.session, ok, c))
  BY DEF TurnEnds
<1> DEFINE m == Message(is, t.req, t.session, ok, c)
<1>3. c \in Cards /\ c.kind # "working"
  BY <1>1 DEF Results, NoCard, Cards, Ids
<1>4. m \in Messages /\ m.req = t.req /\ m.session = t.session /\ Final(m)
  BY <1>1, <1>3 DEF Message, Messages, Final
<1>5. \A d \in calls : m.req = d.id => m.session = Home(d)
  BY <1>4 DEF Requested, HomesFit
<1>6. /\ turns' \subseteq turns /\ UNCHANGED <<Editing, out>>
      /\ UNCHANGED <<session, sent, calls, out>>
  BY DEF TurnEnds, Editing, editor
<1>7. Write(m)
  BY <1>2
<1> HIDE DEF m
<1> QED
  BY <1>4, <1>5, <1>6, <1>7, WriteRequested

LEMMA WriteWorkingRequested ==
    ASSUME WInv, Requested, WriteWorking
    PROVE  Requested' /\ UNCHANGED <<Editing, out, turns>>
<1>1. PICK r \in calls : /\ r.id = owed
                         /\ Write(Message("response", owed,
                                          IF r.do = "start" THEN owed ELSE r.session, TRUE,
                                          [req |-> owed, kind |-> "working"]))
  BY DEF WriteWorking
<1> DEFINE c == [req |-> owed, kind |-> "working"]
           m == Message("response", owed, Home(r), TRUE, c)
<1>2. owed \in Ids /\ Home(r) \in Requests /\ c \in Cards
  BY <1>1, CallFields, Numbers DEF WInv, Channel, TypedChannel, Ids, Requests, Cards, Home
<1>3. m \in Messages /\ m.req = owed /\ m.ok = TRUE /\ m.session = Home(r)
  BY <1>2 DEF Message, Messages
<1>4. \A d \in calls : m.req = d.id => m.session = Home(d)
  BY <1>1, <1>3 DEF WInv, Channel, CallsFit
<1>5. Write(m)
  BY <1>1 DEF Home
<1>6. UNCHANGED <<Editing, out, turns, session, sent, calls>>
  BY DEF WriteWorking, Editing, editor
<1> HIDE DEF m
<1> QED
  BY <1>3, <1>4, <1>5, <1>6, WriteRequested

-----------------------------------------------------------------------------
(***************************************************************************)
(* What the editor waits for                                               *)
(***************************************************************************)
\* The editor's tokens and its pipe stay, and no new turn appears.
LEMMA AwaitedStay ==
    ASSUME AllAreAwaited, UNCHANGED <<session, thinking, card, cancelled, out>>,
           \A t \in turns' : \E u \in turns : u.req = t.req /\ u.session = t.session
    PROVE  AllAreAwaited'
<1>1. \A n : (Awaited(n)' <=> Awaited(n)) /\ (Past(n)' <=> Past(n))
  BY DEF Awaited, Expected, Past
<1> QED
  BY <1>1 DEF AllAreAwaited, Turning

\* Without a session nothing is waited for.
LEMMA NobodyWaits ==
    ASSUME Channel', HomesFit', session' = None PROVE AllAreAwaited'
<1>1. \A t \in turns' : t.session # None
  BY Numbers DEF Channel, TypedChannel, TurnRecords
<1>2. \A i \in 1 .. Len(out') : Turning(out'[i]) => out'[i].session # None
  BY DEF Channel, CallsFit, HomesFit, Turning
<1> QED
  BY <1>1, <1>2 DEF AllAreAwaited, Turning

\* The cards the editor was told of stay, and calls are new or old.
LEMMA HeardStays ==
    ASSUME WInv, HeardOf, Channel', SpentStay,
           \A c \in calls' : c \in calls \/ c.id > sent,
           card' \in {card, NoCard},
           \/ cancelled' \in {cancelled, None}
           \/ card.kind = "working" /\ cancelled' = card.req
    PROVE  HeardOf'
<1>1. /\ sent \in Nat /\ sent' \in Nat /\ sent <= sent' /\ None = 0
      /\ \A c \in calls' : c.id \in Nat /\ c.id # None
  BY Numbers, ChannelNumbers, CallFields
     DEF WInv, Channel, TypedChannel, SpentStay, CallRecords
<1>2. card.kind = "working" => card.req \in Nat /\ card.req <= sent
  BY CardKinds, Numbers DEF WInv, Screen, TypedScreen, CardFits, NoCard
<1>3. cancelled \in Nat /\ cancelled <= sent
  BY Numbers DEF WInv, Screen, TypedScreen, HeardOf
<1>4. cancelled' <= sent'
  BY <1>1, <1>2, <1>3
<1>5. \A c \in calls' : c.id # cancelled'
  BY <1>1, <1>2, <1>3 DEF HeardOf
<1>6. \A c \in calls' : card'.kind = "working" => c.id # card'.req
  BY <1>1, <1>2 DEF HeardOf, NoCard
<1> QED
  BY <1>4, <1>5, <1>6 DEF HeardOf

\* A step of the editor that sends nothing and waits for the same.
Same == UNCHANGED <<ChannelVars, session, thinking, cancelled>>

LEMMA SameKeeps ==
    ASSUME WInv, Requested, AllAreAwaited, HeardOf, Same, card' = card
    PROVE  Requested' /\ AllAreAwaited' /\ HeardOf'
<1>1. UNCHANGED <<calls, out, turns, session, thinking, cancelled>> /\ UNCHANGED ChannelVars
  BY DEF Same, ChannelVars
<1>2. Channel' /\ SpentStay
  BY <1>1, ChannelIsLeftAlone DEF WInv, Channel
<1> QED
  BY <1>1, <1>2, RequestedStays, AwaitedStay, HeardStays

\* What is on the screen is shown again, or a key is pressed.
LEMMA QuietActions ==
    ASSUME WInv, Shipped,
           \/ PromptOpens \/ ReplyOpens \/ PromptCloses \/ Submit \/ Hide \/ ToggleDetails
           \/ AcceptQuestion \/ DenyQuestion \/ Tick \/ Progress
           \/ \E q \in Questions : Question(q)
    PROVE  Same /\ card' = card
<1>1. CASE \/ PromptOpens \/ ReplyOpens \/ PromptCloses \/ Submit \/ Hide \/ DenyQuestion
           \/ Tick \/ \E q \in Questions : Question(q)
  BY <1>1 DEF PromptOpens, ReplyOpens, PromptCloses, Submit, Hide, DenyQuestion, Tick, Question,
              Same, ChannelVars, channel, daemon
<1>2. \A c : ShowCard(c) => card' = c
  BY DEF ShowCard, Recorded, Shown
<1>3. CASE ToggleDetails
  <2>1. keyCard = card
    BY <1>3 DEF ToggleDetails, Shipped
  <2>2. card' = card
    BY <1>2, <1>3, <2>1 DEF ToggleDetails
  <2> QED
    BY <1>3, <2>2 DEF ToggleDetails, Same, ChannelVars, channel, daemon
<1>4. CASE AcceptQuestion
  BY <1>4 DEF AcceptQuestion, Shown, Same, ChannelVars, channel, daemon
<1>5. CASE Progress
  BY <1>2, <1>5 DEF Progress, Same, ChannelVars, channel, daemon
<1> QED
  BY <1>1, <1>3, <1>4, <1>5

\* One request of the session on the screen is sent.
LEMMA OneRequested ==
    ASSUME WInv, Requested, NEW do \in Doings, NEW c \in Cards, session # None,
           Send(<<Request(sent + 1, do, c)>>), UNCHANGED <<inbox, daemon>>,
           session' \in {session, None},
           do \in {"reply", "accept"} =>
               /\ \A t \in turns : t.session = session => Past(0)
               /\ \A i \in 1 .. Len(out) : Turning(out[i]) /\ out[i].session = session => Past(i)
    PROVE  /\ Requested' /\ turns' = turns
           /\ \A d \in calls' : d \in calls \/ d.id > sent
           /\ Len(out) \in Nat /\ Len(out') = Len(out) + 1
           /\ \A i \in 1 .. Len(out) : i \in 1 .. Len(out') /\ out'[i] = out[i]
           /\ \E r : /\ out'[Len(out) + 1] = r /\ r.do = do /\ r.session = session
                     /\ r.id = sent + 1
<1> DEFINE r == Request(sent + 1, do, c)
           q == <<r>>
<1>1. /\ sent \in Nat /\ sent + 1 \in Ids /\ calls' = calls \cup {r} /\ session \in Requests
      /\ Len(out) \in Nat
  BY SendOne, SessionNumbers, ChannelNumbers DEF WInv, Screen, TypedScreen
<1>2. r \in CallRecords /\ r.id = sent + 1 /\ r.do = do /\ r.session = session
  BY <1>1 DEF Request, CallRecords
<1>3. Send(q) /\ UNCHANGED <<inbox, turns>>
  BY DEF daemon
<1> HIDE DEF r
<1>4. Len(q) = 1 /\ q[1] = r /\ q \in Seq(CallRecords)
  BY <1>2
<1>5. \A n \in 1 .. Len(q) : n = 1
  BY <1>4
<1> HIDE DEF q
<1>6. \A n \in 1 .. Len(q) :
          /\ q[n].id = sent + n /\ q[n].session \in {session, None}
          /\ Turning(q[n]) =>
                /\ Len(q) = 1 /\ q[n].session = session
                /\ \A t \in turns : t.session = session => Past(0)
                /\ \A i \in 1 .. Len(out) :
                      Turning(out[i]) /\ out[i].session = session => Past(i)
  BY <1>2, <1>4, <1>5 DEF Turning
<1>7. /\ Requested' /\ Len(out') = Len(out) + Len(q)
      /\ \A i \in 1 .. Len(out) : i \in 1 .. Len(out') /\ out'[i] = out[i]
      /\ \A n \in 1 .. Len(q) : out'[Len(out) + n] = q[n]
  BY <1>3, <1>4, <1>6, SendRequested
<1>8. out'[Len(out) + 1] = r
  BY <1>4, <1>7
<1>9. \A d \in calls' : d \in calls \/ d.id > sent
  BY <1>1, <1>2
<1> QED
  BY <1>1, <1>2, <1>3, <1>4, <1>7, <1>8, <1>9

\* A rejection or cancellation ends all that is waited for.
LEMMA EndingKeeps ==
    ASSUME WInv, Requested, HeardOf, NEW do \in {"reject", "cancel"}, NEW c \in Cards,
           session # None, Send(<<Request(sent + 1, do, c)>>),
           UNCHANGED <<session, card, inbox, daemon>>,
           cancelled' = cancelled \/ (card.kind = "working" /\ cancelled' = card.req)
    PROVE  Requested' /\ AllAreAwaited' /\ HeardOf'
<1>1. do \in Doings /\ do \notin {"reply", "accept"}
  BY DEF Doings
<1>2. Channel' /\ SpentStay
  BY <1>1, SendOne
<1>3. /\ Requested' /\ turns' = turns
      /\ \A d \in calls' : d \in calls \/ d.id > sent
      /\ Len(out) \in Nat /\ Len(out') = Len(out) + 1
  BY <1>1, OneRequested
<1>4. out'[Len(out) + 1].do = do /\ out'[Len(out) + 1].session = session
  BY <1>1, OneRequested
<1> DEFINE last == Len(out) + 1
<1>5. /\ last \in 1 .. Len(out') /\ 0 < last /\ Ending(out'[last], session)
      /\ ~Turning(out'[last])
      /\ \A i \in 1 .. Len(out') : i = last \/ i < last
  BY <1>3, <1>4 DEF Ending, Turning
<1> HIDE DEF last
<1>6. \A i \in 1 .. Len(out') : Turning(out'[i]) => Past(i)'
  BY <1>5 DEF Past
<1>7. Past(0)'
  BY <1>5 DEF Past
<1>8. AllAreAwaited'
  BY <1>6, <1>7 DEF AllAreAwaited, Turning
<1>9. HeardOf'
  BY <1>2, <1>3, HeardStays
<1> QED
  BY <1>3, <1>8, <1>9

\* When nobody waits, what runs in the session is on its way to its end.
LEMMA NobodyIsAwaited ==
    ASSUME WInv, Requested, AllAreAwaited, thinking = None, ~Expected
    PROVE  /\ \A t \in turns : t.session = session => Past(0)
           /\ \A i \in 1 .. Len(out) : Turning(out[i]) /\ out[i].session = session => Past(i)
<1>1. /\ \A t \in turns : t.req # None
      /\ \A i \in 1 .. Len(out) : out[i].id # None
  BY ChannelNumbers DEF WInv, None
<1> QED
  BY <1>1 DEF AllAreAwaited, Awaited

\* Then a turn may be asked for; the editor waits for it.
LEMMA AskingKeeps ==
    ASSUME WInv, Requested, AllAreAwaited, HeardOf, NEW do \in {"reply", "accept"},
           NEW c \in Cards, session # None, thinking = None, ~Expected,
           Send(<<Request(sent + 1, do, c)>>),
           UNCHANGED <<session, card, cancelled, inbox, daemon>>, thinking' = sent + 1
    PROVE  Requested' /\ AllAreAwaited' /\ HeardOf'
<1>1. do \in Doings
  BY DEF Doings
<1>2. /\ \A t \in turns : t.session = session => Past(0)
      /\ \A i \in 1 .. Len(out) : Turning(out[i]) /\ out[i].session = session => Past(i)
  BY NobodyIsAwaited
<1>3. Channel' /\ SpentStay
  BY <1>1, SendOne
<1>4. /\ Requested' /\ turns' = turns
      /\ \A d \in calls' : d \in calls \/ d.id > sent
      /\ Len(out) \in Nat /\ Len(out') = Len(out) + 1
      /\ \A i \in 1 .. Len(out) : i \in 1 .. Len(out') /\ out'[i] = out[i]
  BY <1>1, <1>2, OneRequested
<1>5. out'[Len(out) + 1].id = sent + 1
  BY <1>1, <1>2, OneRequested
<1>6. \A i \in 1 .. Len(out') : i \in 1 .. Len(out) \/ i = Len(out) + 1
  BY <1>4
<1>7. \A i : Past(i) => Past(i)'
  BY <1>4 DEF Past, Ending
<1>8. AllAreAwaited'
  <2>1. \A t \in turns' : t.session = session' => Past(0)'
    BY <1>2, <1>4, <1>7
  <2>2. ASSUME NEW i \in 1 .. Len(out'), Turning(out'[i]), out'[i].session = session
        PROVE  thinking' = out'[i].id \/ Past(i)'
    BY <1>2, <1>4, <1>5, <1>6, <1>7, <2>2
  <2> QED
    BY <2>1, <2>2 DEF AllAreAwaited, Turning
<1>9. HeardOf'
  BY <1>3, <1>4, HeardStays
<1> QED
  BY <1>4, <1>8, <1>9

-----------------------------------------------------------------------------
LEMMA PromptInterruptsAwaits ==
    ASSUME WInv, TInv, PromptInterrupts PROVE Requested' /\ AllAreAwaited' /\ HeardOf'
<1>1. /\ session # None /\ UNCHANGED <<session, card, inbox, daemon>>
      /\ Send(<<Request(sent + 1, "cancel", NoCard)>>)
      /\ cancelled' = cancelled \/ (card.kind = "working" /\ cancelled' = card.req)
  BY DEF PromptInterrupts
<1> QED
  BY <1>1, EndingKeeps, Numbers DEF TInv

LEMMA RejectAwaits ==
    ASSUME WInv, TInv, Reject PROVE Requested' /\ AllAreAwaited' /\ HeardOf'
<1>1. /\ session # None /\ UNCHANGED <<session, card, cancelled, inbox, daemon>>
      /\ Send(<<Request(sent + 1, "reject", card)>>) /\ card \in Cards
  BY DEF Reject, Deciding, WInv, Screen, TypedScreen
<1> QED
  BY <1>1, EndingKeeps DEF TInv

LEMMA AcceptAwaits ==
    ASSUME WInv, TInv, Shipped, Accept PROVE Requested' /\ AllAreAwaited' /\ HeardOf'
<1>1. /\ session # None /\ thinking = None /\ ~agent.working
      /\ UNCHANGED <<session, card, cancelled, inbox, daemon>>
      /\ Send(<<Request(sent + 1, "accept", card)>>) /\ card \in Cards
  BY DEF Accept, Deciding, Working, WInv, Screen, TypedScreen
<1>2. ~Expected
  BY <1>1 DEF WInv, Screen, ScreenFits
<1>3. thinking' = sent + 1
  BY DEF Accept, StartThinking, Shipped
<1> QED
  BY <1>1, <1>2, <1>3, AskingKeeps DEF TInv

LEMMA SubmitReplyAwaits ==
    ASSUME WInv, TInv, Shipped, SubmitReply PROVE Requested' /\ AllAreAwaited' /\ HeardOf'
<1>1. /\ thinking = None /\ ~Expected
      /\ UNCHANGED <<session, card, cancelled, inbox, daemon>>
  BY DEF SubmitReply, WInv, Screen, PromptFits
<1>2. CASE UNCHANGED <<thinking, channel>>
  <2>1. Same
    BY <1>1, <1>2 DEF Same, ChannelVars, channel, daemon
  <2> QED
    BY <1>1, <2>1, SameKeeps DEF TInv
<1>3. CASE /\ session # None /\ Send(<<Request(sent + 1, "reply", NoCard)>>)
           /\ StartThinking(sent + 1)
  <2>1. thinking' = sent + 1
    BY <1>3 DEF StartThinking, Shipped
  <2> QED
    BY <1>1, <1>3, <2>1, AskingKeeps, Numbers DEF TInv
<1> QED
  BY <1>2, <1>3 DEF SubmitReply

LEMMA StopAwaits ==
    ASSUME WInv, TInv, Stop PROVE Requested' /\ AllAreAwaited' /\ HeardOf'
<1>1. /\ session # None /\ session' = None /\ card' = NoCard /\ cancelled' = None
      /\ UNCHANGED <<inbox, daemon>> /\ Send(<<Request(sent + 1, "stop", NoCard)>>)
  BY DEF Stop, LeaveSession
<1>2. Channel' /\ SpentStay
  BY <1>1, SendOne, Numbers DEF Doings
<1>3. Requested' /\ \A d \in calls' : d \in calls \/ d.id > sent
  BY <1>1, OneRequested, Numbers DEF TInv, Doings
<1>4. AllAreAwaited'
  BY <1>1, <1>2, <1>3, NobodyWaits DEF Requested
<1>5. HeardOf'
  BY <1>1, <1>2, <1>3, HeardStays DEF TInv
<1> QED
  BY <1>3, <1>4, <1>5

LEMMA EndAwaits ==
    ASSUME WInv, TInv, Reset \/ PromptRestarts
    PROVE  Requested' /\ AllAreAwaited' /\ HeardOf'
<1>1. /\ session' = None /\ DaemonEnds /\ card' \in {card, NoCard}
      /\ cancelled' \in {cancelled, None}
  BY DEF Reset, PromptRestarts, LeaveSession
<1>2. Channel' /\ SpentStay /\ calls' = {}
  BY <1>1, EndKeeps DEF WInv
<1>3. Requested'
  BY <1>1, EndRequested DEF TInv
<1>4. AllAreAwaited'
  BY <1>1, <1>2, <1>3, NobodyWaits DEF Requested
<1>5. HeardOf'
  BY <1>1, <1>2, HeardStays DEF TInv
<1> QED
  BY <1>3, <1>4, <1>5

LEMMA SubmitPromptAwaits ==
    ASSUME WInv, WInv', TInv, SubmitPrompt PROVE Requested' /\ AllAreAwaited' /\ HeardOf'
<1>1. /\ session' = None /\ session' \in {session, None} /\ card' \in {card, NoCard}
      /\ cancelled' \in {cancelled, None} /\ UNCHANGED <<inbox, turns>>
  BY DEF SubmitPrompt, LeaveSession, daemon
<1>2. PICK q \in Seq(CallRecords) :
         /\ Send(q)
         /\ \A n \in 1 .. Len(q) : /\ q[n].id = sent + n /\ q[n].do \in {"start", "stop"}
                                   /\ q[n].session \in {session, None}
  BY PromptSends
<1>3. \A n \in 1 .. Len(q) : ~Turning(q[n])
  BY <1>2 DEF Turning
<1>4. Requested'
  BY <1>1, <1>2, <1>3, SendRequested DEF TInv
<1>5. AllAreAwaited'
  BY <1>1, <1>4, NobodyWaits DEF Requested, WInv
<1>6. \A c \in calls' : c \in calls \/ c.id > sent
  <2>1. sent \in Nat
    BY ChannelNumbers DEF WInv
  <2> QED
    BY <1>2, <2>1 DEF Send
<1>7. HeardOf'
  <2>1. Channel' /\ sent' \in Nat /\ sent \in Nat /\ sent <= sent'
    <3>1. sent' = sent + Len(q) /\ Len(q) \in Nat
      BY <1>2, LenProperties DEF Send
    <3> QED
      BY <3>1, ChannelNumbers DEF WInv
  <2>2. cancelled' <= sent'
    BY <1>1, <2>1, Numbers DEF WInv, Screen, TypedScreen, TInv, HeardOf, None
  <2>3. \A c \in calls' : c.id \in Nat /\ c.id # None
    BY <2>1, Numbers DEF Channel, TypedChannel, CallRecords
  <2>4. card.kind = "working" => card.req \in Nat /\ card.req <= sent
    BY CardKinds, Numbers DEF WInv, Screen, TypedScreen, CardFits, NoCard
  <2>5. cancelled \in Nat /\ cancelled <= sent
    BY Numbers DEF WInv, Screen, TypedScreen, TInv, HeardOf
  <2> QED
    BY <1>1, <1>6, <2>1, <2>2, <2>3, <2>4, <2>5 DEF TInv, HeardOf, NoCard, None
<1> QED
  BY <1>4, <1>5, <1>7

-----------------------------------------------------------------------------
\* Nothing runs for a final result that has arrived.
LEMMA Arrived ==
    ASSUME Channel, inbox # <<>>
    PROVE  /\ Head(inbox) = inbox[1] /\ 1 \in 1 .. Len(inbox) /\ Head(inbox) \in Messages
           /\ Final(inbox[1]) => \A t \in turns : t.req # inbox[1].req
           /\ \A i \in 1 .. Len(out) : out[i].id # inbox[1].req
<1>1. Head(inbox) = inbox[1] /\ 1 \in 1 .. Len(inbox) /\ inbox[1] \in Messages
  BY ChannelNumbers, HeadTailProperties, EmptySeq, InboxFields DEF Channel, TypedChannel
<1>2. Final(inbox[1]) => \A t \in turns : t.req # inbox[1].req
  BY <1>1 DEF Channel, OneResult, Arrives
<1>3. \A i \in 1 .. Len(out) : out[i].id # inbox[1].req
  <2>1. \A i \in 1 .. Len(out) : inbox[1].req < out[i].id
    BY <1>1 DEF Channel, InOrder
  <2> QED
    BY <1>1, <2>1, ChannelNumbers
<1> QED
  BY <1>1, <1>2, <1>3

LEMMA ShowsIt ==
    ASSUME NEW c, ApplyResult(c, TRUE)
    PROVE  card' = c /\ cancelled' = IF c.kind = "working" THEN cancelled ELSE None
BY DEF ApplyResult, ShowCard, Recorded, Shown

LEMMA TurnReadyAwaits ==
    ASSUME WInv, WInv', TInv, TurnReady PROVE Requested' /\ AllAreAwaited' /\ HeardOf'
<1> DEFINE m == inbox[1]
<1>1. /\ inbox # <<>> /\ inbox' = Tail(inbox) /\ Head(inbox) = m
      /\ UNCHANGED <<session, thinking, calls, sent, out, sessions, turns, owed>>
      /\ m \in Messages /\ m.is = "ready" /\ 1 \in 1 .. Len(inbox)
      /\ Final(m) => \A t \in turns : t.req # m.req
  BY Arrived DEF TurnReady, channel, daemon, WInv
<1>2. Requested'
  <2>1. session' <= sent /\ \A c \in calls' : c.do = "start" => session' # c.id
    BY <1>1 DEF TInv, Requested, SessionsAreOld, StartsAreAlone
  <2> QED
    BY <1>1, <2>1, TakeRequested DEF TInv
<1>3. Channel' /\ SpentStay /\ \A c \in calls' : c \in calls
  <2>1. Head(inbox).is # "response"
    BY <1>1
  <2> QED
    BY <1>1, <2>1, TailKeeps DEF WInv
<1>4. CASE UNCHANGED <<cancelled, card>>
  BY <1>1, <1>2, <1>3, <1>4, AwaitedStay, HeardStays DEF TInv
<1>5. CASE card = [req |-> m.req, kind |-> "working"] /\ ~m.ok /\ cancelled' = m.req
           /\ card' = card
  <2>1. Final(m)
    BY <1>1, <1>5 DEF TInv, Requested, HomesFit
  <2>2. \A t \in turns : Awaited(t.req) => Awaited(t.req)'
    BY <1>1, <1>5, <2>1 DEF Awaited, Expected
  <2>3. AllAreAwaited'
    BY <1>1, <2>2 DEF TInv, AllAreAwaited, Turning, Past
  <2> QED
    BY <1>2, <1>3, <1>5, <2>3, HeardStays DEF TInv
<1>6. CASE /\ card = [req |-> m.req, kind |-> "working"] /\ m.req # cancelled
           /\ m.ok /\ ApplyResult(m.card, TRUE)
  <2>1. card' = m.card /\ cancelled' = IF m.card.kind = "working" THEN cancelled ELSE None
    BY <1>6, ShowsIt
  <2>2. m.card.req = m.req
    BY <1>1, <1>6, Arrived DEF WInv, Channel, MessagesFit
  <2>3. card'.kind = "working" => card'.req = card.req /\ cancelled' = cancelled
    BY <1>6, <2>1, <2>2
  <2>4. \A t \in turns : Awaited(t.req) => Awaited(t.req)'
    <3> SUFFICES ASSUME NEW t \in turns, thinking # t.req, Expected, card.req = t.req
                 PROVE  Awaited(t.req)'
      BY <1>1 DEF Awaited
    <3>1. t.req = m.req /\ ~Final(m)
      BY <1>1, <1>6
    <3> QED
      BY <1>6, <2>1, <2>2, <2>3, <3>1 DEF Awaited, Expected, Final
  <2>5. AllAreAwaited'
    BY <1>1, <2>4 DEF TInv, AllAreAwaited, Turning, Past
  <2>6. HeardOf'
    <3>1. sent \in Nat /\ sent' = sent /\ \A c \in calls : c.id # None
      BY <1>1, ChannelNumbers DEF WInv, None
    <3>2. cancelled' \in {cancelled, None} /\ cancelled' <= sent
      BY <2>1, <3>1 DEF TInv, HeardOf, None
    <3> QED
      BY <1>1, <1>6, <2>3, <3>1, <3>2 DEF TInv, HeardOf
  <2> QED
    BY <1>2, <2>5, <2>6
<1> HIDE DEF m
<1>7. \/ UNCHANGED <<cancelled, card>>
      \/ /\ card = [req |-> m.req, kind |-> "working"] /\ ~m.ok /\ cancelled' = m.req
         /\ card' = card
      \/ /\ card = [req |-> m.req, kind |-> "working"] /\ m.req # cancelled
         /\ m.ok /\ ApplyResult(m.card, TRUE)
  BY <1>1 DEF TurnReady
<1> QED
  BY <1>4, <1>5, <1>6, <1>7 DEF m

LEMMA ResponseAwaits ==
    ASSUME WInv, WInv', TInv, Shipped, Response
    PROVE  Requested' /\ AllAreAwaited' /\ HeardOf'
<1> DEFINE m == inbox[1]
<1>1. /\ inbox # <<>> /\ inbox' = Tail(inbox) /\ Head(inbox) = m
      /\ UNCHANGED <<sent, out, sessions, turns, owed>>
      /\ 1 \in 1 .. Len(inbox) /\ m \in Messages /\ m.is = "response"
      /\ Final(m) => \A t \in turns : t.req # m.req
      /\ \A i \in 1 .. Len(out) : out[i].id # m.req
  BY Arrived DEF Response, daemon, WInv
<1>2. PICK call \in calls :
         /\ call.id = m.req /\ calls' = calls \ {call}
         /\ \/ call.do \in TurnRequests /\ ~Current(call) /\ NothingReported
            \/ call.do = "start" /\ Current(call) /\ Started(call, m)
            \/ call.do = "reply" /\ Current(call) /\ Replied(call, m)
            \/ call.do = "accept" /\ Current(call) /\ AcceptReported(call, m)
            \/ call.do = "reject" /\ RejectReported(call, m)
            \/ call.do = "cancel" /\ CancelReported(call, m)
            \/ call.do = "stop" /\ NothingReported
  BY <1>1 DEF Response
<1>3. /\ \A c \in calls' : c \in calls /\ c.id # m.req
      /\ \A c \in calls : c \notin calls' => c.id = m.req
      /\ calls' \subseteq calls
      /\ m.ok => m.session = Home(call)
      /\ ~m.ok => Final(m)
      /\ m.card # NoCard => m.card.req = m.req
      /\ m.ok /\ call.do \in TurnRequests => m.card # NoCard
      /\ call.id # cancelled
  <2>1. \A c \in calls : c.id = call.id => c = call
    BY DEF WInv, Channel, CallsFit
  <2>2. (m.ok => m.session = Home(call)) /\ (~m.ok => Final(m))
    BY <1>1, <1>2 DEF TInv, Requested, HomesFit
  <2>3. /\ m.card # NoCard => m.card.req = m.req
        /\ m.ok /\ call.do \in TurnRequests => m.card # NoCard
    BY <1>1, <1>2 DEF WInv, Channel, MessagesFit, Answers
  <2> QED
    BY <1>2, <2>1, <2>2, <2>3 DEF TInv, HeardOf
<1>4. ASSUME session' = session \/ (call.do = "start" /\ session' = call.id)
      PROVE  Requested'
  <2>1. session' <= sent
    BY <1>4 DEF TInv, Requested, SessionsAreOld, WInv, Channel, Numbered
  <2>2. \A c \in calls' : c.do = "start" => session' # c.id
    BY <1>2, <1>3, <1>4 DEF TInv, Requested, StartsAreAlone
  <2> QED
    BY <1>1, <1>3, <2>1, <2>2, TakeRequested DEF TInv
<1>5. Channel' /\ SpentStay
  <2>1. \A c \in calls' : c.id # Head(inbox).req
    BY <1>1, <1>3
  <2> QED
    BY <1>1, <1>3, <2>1, TailKeeps DEF WInv
<1>6. sent \in Nat /\ None <= sent
  BY ChannelNumbers DEF WInv, None
<1>7. CASE UNCHANGED <<session, thinking, card, cancelled>>
  <2>1. AllAreAwaited'
    BY <1>1, <1>7, AwaitedStay DEF TInv
  <2>2. HeardOf'
    BY <1>3, <1>5, <1>7, HeardStays DEF TInv
  <2> QED
    BY <1>4, <1>7, <2>1, <2>2
<1>8. ASSUME Current(call)
      PROVE  /\ thinking = m.req /\ ~Expected /\ Quiet
             /\ call.do # "start" => call.session = session
  <2>1. thinking = call.id /\ (call.do = "start" \/ call.session = session)
    BY <1>8 DEF Current, Shipped
  <2>2. thinking # None
    BY <2>1, CallFields DEF WInv, Channel
  <2> QED
    BY <1>2, <2>1, <2>2 DEF WInv, Screen, ScreenFits
<1>9. CASE /\ Current(call) /\ ~m.ok
           /\ UNCHANGED <<session, card, cancelled>> /\ thinking' = None
  <2>1. \A t \in turns : Awaited(t.req) => Awaited(t.req)'
    BY <1>1, <1>3, <1>8, <1>9 DEF Awaited, Expected
  <2>2. AllAreAwaited'
    BY <1>1, <1>8, <1>9, <2>1 DEF TInv, AllAreAwaited, Turning, Past
  <2>3. HeardOf'
    BY <1>3, <1>5, <1>9, HeardStays DEF TInv
  <2> QED
    BY <1>4, <1>9, <2>2, <2>3
<1>10. CASE /\ call.do \in TurnRequests /\ Current(call) /\ m.ok
            /\ ApplyResult(m.card, TRUE) /\ thinking' = None
            /\ session' = IF call.do = "start" THEN m.session ELSE session
  <2>1. card' = m.card /\ cancelled' = IF m.card.kind = "working" THEN cancelled ELSE None
    BY <1>10, ShowsIt
  <2>2. card'.req = m.req /\ session' = Home(call)
    BY <1>3, <1>8, <1>10, <2>1 DEF Home
  <2>3. ASSUME NEW n, n = m.req, ~Final(m) PROVE Awaited(n)'
    BY <1>2, <1>3, <2>1, <2>2, <2>3 DEF Awaited, Expected, Final
  <2>4. \A t \in turns : t.session = session' => Awaited(t.req)' \/ Past(0)'
    <3> SUFFICES ASSUME NEW t \in turns, t.session = session'
                 PROVE  Awaited(t.req)' \/ Past(0)'
      OBVIOUS
    <3>1. CASE t.req = m.req
      BY <1>1, <2>3, <3>1
    <3>2. CASE t.req # m.req
      <4>1. call.do # "start"
        BY <1>2, <2>2, <3>2 DEF Home, TInv, Requested, StartsAreAlone
      <4>2. session' = session
        BY <1>10, <4>1
      <4>3. Past(0)
        BY <1>8, <1>10, <3>2, <4>2 DEF TInv, AllAreAwaited, Awaited
      <4> QED
        BY <1>1, <4>2, <4>3 DEF Past
    <3> QED
      BY <3>1, <3>2
  <2>5. ASSUME NEW i \in 1 .. Len(out), Turning(out[i]), out[i].session = session'
        PROVE  Past(i)'
    <3>1. call.do # "start"
      BY <2>2, <2>5 DEF Home, TInv, Requested, StartsAreAlone
    <3>2. session' = session
      BY <1>10, <3>1
    <3>3. Past(i)
      BY <1>1, <1>8, <1>10, <2>5, <3>2 DEF TInv, AllAreAwaited
    <3> QED
      BY <1>1, <3>2, <3>3 DEF Past
  <2>6. AllAreAwaited'
    BY <1>1, <2>4, <2>5 DEF AllAreAwaited, Turning
  <2>7. HeardOf'
    <3>1. cancelled' \in {cancelled, None} /\ cancelled' <= sent'
      BY <1>1, <1>6, <2>1 DEF TInv, HeardOf
    <3>2. \A c \in calls' : c.id # None
      BY <1>3, CallFields DEF WInv, Channel
    <3> QED
      BY <1>3, <2>2, <3>1, <3>2 DEF TInv, HeardOf
  <2> QED
    BY <1>4, <2>2, <2>6, <2>7, <1>10 DEF Home
<1> HIDE DEF m
<1>11. CASE call.do = "start" /\ Current(call) /\ Started(call, m)
  BY <1>9, <1>10, <1>11 DEF Started, TurnRequests
<1>12. CASE call.do = "reply" /\ Current(call) /\ Replied(call, m)
  <2>1. m.ok => m.session = session
    BY <1>3, <1>8, <1>12 DEF Home
  <2> QED
    BY <1>9, <1>10, <1>12, <2>1 DEF Replied, TurnRequests
<1>13. CASE call.do = "accept" /\ Current(call) /\ AcceptReported(call, m)
  <2>1. (m.ok => m.session = session) /\ draft = NoCard
    BY <1>3, <1>8, <1>13 DEF Home, Quiet
  <2> QED
    BY <1>9, <1>10, <1>13, <2>1 DEF AcceptReported, TurnRequests
<1>14. CASE call.do = "reject" /\ RejectReported(call, m)
  BY <1>7, <1>14 DEF RejectReported
<1>15. CASE CancelReported(call, m) \/ NothingReported
  BY <1>7, <1>15 DEF CancelReported, NothingReported
<1> QED
  BY <1>2, <1>11, <1>12, <1>13, <1>14, <1>15

-----------------------------------------------------------------------------
LEMMA ServeAwaits ==
    ASSUME WInv, TInv, Serve PROVE Requested' /\ AllAreAwaited' /\ HeardOf'
<1> DEFINE r == out[1]
<1>0. Requested
  BY DEF TInv
<1>1. /\ Requested' /\ out # <<>> /\ out' = Tail(out) /\ UNCHANGED Editing
      /\ Head(out).do \in {"reject", "cancel"} =>
            turns' = {t \in turns : t.session # Head(out).session}
      /\ \A t \in turns' : t \in turns \/
            /\ t.req = Head(out).id
            /\ \/ Head(out).do = "start" /\ t.session = Head(out).id
               \/ Turning(Head(out)) /\ t.session = Head(out).session
  BY <1>0, ServeRequested
<1>2. /\ Head(out) = r /\ 1 \in 1 .. Len(out) /\ r \in calls
      /\ \A i \in 1 .. Len(out') : i + 1 \in 1 .. Len(out) /\ out'[i] = out[i + 1]
      /\ \A i \in 1 .. Len(out) : i # 1 => i - 1 \in 1 .. Len(out') /\ out'[i - 1] = out[i]
  BY <1>1, Served, SessionNumbers DEF WInv, TInv
<1>3. UNCHANGED <<session, thinking, card, cancelled, calls>>
  BY <1>1 DEF Editing, editor
<1>4. \A n : Awaited(n)' <=> Awaited(n)
  BY <1>3 DEF Awaited, Expected
<1>5. ASSUME NEW i \in 1 .. Len(out), Past(i) PROVE Past(i - 1)'
  <2>1. PICK j \in 1 .. Len(out) : i < j /\ Ending(out[j], session)
    BY <1>5 DEF Past
  <2>2. /\ j - 1 \in 1 .. Len(out') /\ Ending(out'[j - 1], session)
        /\ i - 1 < j - 1
    BY <1>2, <2>1
  <2> QED
    BY <1>3, <2>2 DEF Past, Ending
<1>6. ASSUME NEW t \in turns', t.session = session PROVE Awaited(t.req) \/ Past(0)'
  <2>1. CASE t \in turns
    <3>1. CASE Past(0)
      <4>1. PICK j \in 1 .. Len(out) : 0 < j /\ Ending(out[j], session)
        BY <3>1 DEF Past
      <4>2. j # 1
        BY <1>1, <1>2, <1>6, <4>1 DEF Ending
      <4>3. 1 < j
        BY <4>2
      <4>4. Past(1)
        BY <4>1, <4>3 DEF Past
      <4> QED
        BY <1>2, <1>5, <4>4
    <3> QED
      BY <1>6, <2>1, <3>1 DEF TInv, AllAreAwaited
  <2>2. CASE t \notin turns
    <3>1. ~(r.do = "start" /\ t.session = r.id)
      BY <1>2, <1>6 DEF TInv, Requested, StartsAreAlone
    <3>2. Turning(r) /\ r.session = session /\ t.req = r.id
      BY <1>1, <1>2, <1>6, <2>2, <3>1
    <3>3. thinking = r.id \/ Past(1)
      BY <1>2, <3>2 DEF TInv, AllAreAwaited
    <3> QED
      BY <1>2, <1>5, <3>2, <3>3 DEF Awaited
  <2> QED
    BY <2>1, <2>2
<1>7. ASSUME NEW i \in 1 .. Len(out'), Turning(out'[i]), out'[i].session = session
      PROVE  thinking = out'[i].id \/ Past(i)'
  <2>1. /\ i + 1 \in 1 .. Len(out) /\ Turning(out[i + 1]) /\ out[i + 1].session = session
        /\ out'[i].id = out[i + 1].id
    BY <1>2, <1>7
  <2>2. thinking = out[i + 1].id \/ Past(i + 1)
    BY <2>1 DEF TInv, AllAreAwaited
  <2>3. Past(i + 1) => Past((i + 1) - 1)'
    BY <1>5, <2>1
  <2> QED
    BY <2>1, <2>2, <2>3
<1>8. AllAreAwaited'
  BY <1>3, <1>4, <1>6, <1>7 DEF AllAreAwaited, Turning
<1>9. HeardOf'
  <2>1. Channel' /\ SpentStay
    BY ServeKeeps DEF WInv
  <2> QED
    BY <1>3, <2>1, HeardStays DEF TInv
<1> QED
  BY <1>1, <1>8, <1>9

LEMMA DaemonAwaits ==
    ASSUME WInv, TInv, Daemon PROVE Requested' /\ AllAreAwaited' /\ HeardOf'
<1>1. ASSUME Requested', Channel', SpentStay, UNCHANGED <<Editing, out>>,
             \A t \in turns' : \E u \in turns : u.req = t.req /\ u.session = t.session
      PROVE  Requested' /\ AllAreAwaited' /\ HeardOf'
  <2>1. UNCHANGED <<session, thinking, card, cancelled, calls, out>>
    BY <1>1 DEF Editing, editor
  <2> QED
    BY <1>1, <2>1, AwaitedStay, HeardStays DEF TInv
<1>2. CASE Serve
  BY <1>2, ServeAwaits
<1>3. CASE WriteWorking
  BY <1>1, <1>3, WriteWorkingKeeps, WriteWorkingRequested DEF WInv, TInv
<1>4. ASSUME NEW t \in turns, TurnEnds(t) PROVE Requested' /\ AllAreAwaited' /\ HeardOf'
  <2>1. Requested' /\ UNCHANGED <<Editing, out>> /\ turns' \subseteq turns
    BY <1>4, TurnEndsRequested DEF TInv
  <2> QED
    BY <1>1, <1>4, <2>1, TurnEndsKeeps DEF WInv
<1>5. ASSUME NEW t \in turns, Yield(t) \/ TurnAsks(t) \/ QuestionEnds(t)
      PROVE  Requested' /\ AllAreAwaited' /\ HeardOf'
  <2>1. Channel' /\ SpentStay
    BY <1>5, YieldKeeps, TurnAsksKeeps, QuestionEndsKeeps DEF WInv
  <2>2. UNCHANGED <<Editing, out, inbox>> /\ UNCHANGED <<session, sent, calls, out, inbox>>
    BY <1>5 DEF Yield, TurnAsks, QuestionEnds, Editing, editor
  <2>3. t \in TurnRecords
    BY DEF WInv, Channel, TypedChannel
  <2>4. \E u : /\ u.req = t.req /\ u.session = t.session
               /\ turns' = (turns \ {t}) \cup {u}
    <3>1. CASE Yield(t)
      BY <2>3, <3>1 DEF Yield, TurnRecords
    <3>2. CASE TurnAsks(t)
      BY <2>3, <3>2 DEF TurnAsks, TurnRecords
    <3>3. CASE QuestionEnds(t)
      BY <2>3, <3>3 DEF QuestionEnds, TurnRecords
    <3> QED
      BY <1>5, <3>1, <3>2, <3>3
  <2>5. PICK u : /\ u.req = t.req /\ u.session = t.session
                 /\ turns' = (turns \ {t}) \cup {u}
    BY <2>4
  <2>6. Requested'
    BY <2>2, <2>5, TurnRequested DEF TInv
  <2> QED
    BY <1>1, <2>1, <2>2, <2>5, <2>6
<1> QED
  BY <1>2, <1>3, <1>4, <1>5 DEF Daemon

-----------------------------------------------------------------------------
\* Every question is on its way, on the screen or answered, once.
LEMMA QuestionsAwait ==
    ASSUME WInv, AskedOnce, [Next]_vars PROVE AskedOnce'
<1>1. answers \in [Questions -> Nat] /\ None \notin Questions /\ gate \in {None} \cup Questions
  BY Numbers DEF WInv, Screen, TypedScreen
<1>2. CASE asks' = asks /\ (UNCHANGED <<gate, answers>> \/ Settle)
  <2>1. CASE UNCHANGED <<asks, gate, answers>>
    BY <2>1 DEF AskedOnce
  <2>2. CASE asks' = asks /\ Settle
    BY <1>1, <2>2 DEF AskedOnce, Settle
  <2> QED
    BY <1>2, <2>1, <2>2
<1>3. CASE \E q \in Questions : Question(q)
  <2>1. PICK q \in Questions : Question(q)
    BY <1>3
  <2>2. q \in asks /\ asks' = asks \ {q} /\ q # gate /\ answers[q] = 0
    BY <2>1 DEF Question, AskedOnce
  <2>3. \/ /\ gate' = q
           /\ answers' = [g \in Questions |-> IF g = gate THEN answers[g] + 1 ELSE answers[g]]
        \/ /\ gate' = None
           /\ answers' = [g \in Questions |->
                             IF g \in {gate, q} THEN answers[g] + 1 ELSE answers[g]]
    BY <2>1 DEF Question
  <2> QED
    BY <1>1, <2>2, <2>3 DEF AskedOnce
<1>4. ASSUME NEW t \in turns, TurnAsks(t) PROVE AskedOnce'
  <2>1. PICK q \in Questions \ Asked : asks' = asks \cup {q}
    BY <1>4 DEF TurnAsks
  <2>2. UNCHANGED <<gate, answers>> /\ q # gate /\ ~(answers[q] > 0)
    BY <1>4, <2>1 DEF TurnAsks, Editing, editor, history, Asked
  <2>3. answers[q] = 0
    BY <1>1, <2>1, <2>2
  <2> QED
    BY <2>1, <2>2, <2>3 DEF AskedOnce
<1>5. \A c : ShowCard(c) => UNCHANGED <<gate, answers>> \/ Settle
  BY DEF ShowCard, Recorded
<1>6. \A c, b : ApplyResult(c, b) => UNCHANGED <<gate, answers>> \/ Settle
  BY <1>5 DEF ApplyResult
<1>7. CASE User
  <2>1. asks' = asks /\ (UNCHANGED <<gate, answers>> \/ Settle)
    BY <1>5, <1>7 DEF User, PromptOpens, PromptInterrupts, PromptRestarts, ReplyOpens,
       PromptCloses, Submit, Accept, Reject, Stop, Reset, Hide, ToggleDetails, AcceptQuestion,
       DenyQuestion, history
  <2> QED
    BY <1>2, <2>1
<1>8. CASE SubmitPrompt \/ SubmitReply
  BY <1>2, <1>8 DEF SubmitPrompt, SubmitReply, history
<1>9. CASE Tick \/ Progress \/ TurnReady
  <2>1. asks' = asks /\ (UNCHANGED <<gate, answers>> \/ Settle)
    BY <1>5, <1>6, <1>9 DEF Tick, Progress, TurnReady, ShowError, history
  <2> QED
    BY <1>2, <2>1
<1>10. CASE Response
  <2>1. asks' = asks
    BY <1>10 DEF Response
  <2>2. PICK call, m : \/ NothingReported \/ Started(call, m) \/ Replied(call, m)
                       \/ AcceptReported(call, m) \/ RejectReported(call, m)
                       \/ CancelReported(call, m)
    BY <1>10 DEF Response
  <2>3. UNCHANGED <<gate, answers>> \/ Settle
    BY <1>6, <2>2 DEF NothingReported, Started, Replied, AcceptReported, RejectReported,
       CancelReported, ShowError
  <2> QED
    BY <1>2, <2>1, <2>3
<1>11. CASE Serve \/ WriteWorking \/ \E t \in turns : Yield(t) \/ TurnEnds(t) \/ QuestionEnds(t)
  BY <1>2, <1>11 DEF Serve, WriteWorking, Yield, TurnEnds, QuestionEnds, Editing, editor, history
<1>12. CASE UNCHANGED vars
  BY <1>2, <1>12 DEF vars, editor, history
<1> QED
  BY <1>3, <1>4, <1>7, <1>8, <1>9, <1>10, <1>11, <1>12 DEF Next, Arrival, Daemon

-----------------------------------------------------------------------------
LEMMA InitTInv ==
    Init => TInv
<1> SUFFICES ASSUME Init PROVE TInv
  OBVIOUS
<1>1. Len(out) = 0 /\ Len(inbox) = 0
  BY DEF Init
<1>2. Requested /\ AllAreAwaited
  BY <1>1 DEF Init, Requested, SessionsAreOld, StartsAreAlone, HomesFit, TurnsAreEnded,
         AllAreAwaited, None
<1>3. HeardOf /\ AskedOnce
  BY Numbers DEF Init, HeardOf, AskedOnce
<1> QED
  BY <1>2, <1>3 DEF TInv

LEMMA NextTInv ==
    Shipped /\ WInv /\ TInv /\ [Next]_vars => WInv' /\ TInv'
<1> SUFFICES ASSUME Shipped, WInv, TInv, [Next]_vars PROVE WInv' /\ TInv'
  OBVIOUS
<1>1. WInv' /\ AskedOnce'
  BY NextWInv, QuestionsAwait DEF TInv
<1>2. CASE UNCHANGED vars
  <2>1. Same /\ card' = card
    BY <1>2 DEF vars, Same, ChannelVars, channel, editor, daemon
  <2> QED
    BY <1>1, <2>1, SameKeeps DEF TInv
<1>3. CASE \/ PromptOpens \/ ReplyOpens \/ PromptCloses \/ Submit \/ Hide \/ ToggleDetails
           \/ AcceptQuestion \/ DenyQuestion \/ Tick \/ Progress
           \/ \E q \in Questions : Question(q)
  <2>1. Same /\ card' = card
    BY <1>3, QuietActions
  <2> QED
    BY <1>1, <2>1, SameKeeps DEF TInv
<1>4. CASE PromptInterrupts \/ Reject \/ Accept \/ SubmitReply \/ Stop
  BY <1>1, <1>4, PromptInterruptsAwaits, RejectAwaits, AcceptAwaits, SubmitReplyAwaits,
     StopAwaits DEF TInv
<1>5. CASE Reset \/ PromptRestarts \/ SubmitPrompt
  BY <1>1, <1>5, EndAwaits, SubmitPromptAwaits DEF TInv
<1>6. CASE TurnReady \/ Response
  BY <1>1, <1>6, TurnReadyAwaits, ResponseAwaits DEF TInv
<1>7. CASE Daemon
  BY <1>1, <1>7, DaemonAwaits DEF TInv
<1> QED
  BY <1>2, <1>3, <1>4, <1>5, <1>6, <1>7 DEF Next, User, Arrival

LEMMA SpecTInv ==
    Shipped => (Spec => [](WInv /\ TInv))
<1> SUFFICES ASSUME Shipped PROVE Spec => [](WInv /\ TInv)
  OBVIOUS
<1>1. Init => WInv /\ TInv
  BY InitWInv, InitTInv
<1>2. WInv /\ TInv /\ [Next]_vars => (WInv /\ TInv)'
  BY NextTInv
<1> QED
  BY <1>1, <1>2, PTL DEF Spec

\* The turn barrier and scope.working: when the daemon takes a reply or an
\* acceptance, no turn of its session runs any more.
THEOREM TurnsNeverOverlapInASession ==
    Shipped => (Spec => OneTurnAtATime)
<1> SUFFICES ASSUME Shipped PROVE Spec => OneTurnAtATime
  OBVIOUS
<1> DEFINE Alone == Serve /\ Head(out).do \in {"reply", "accept"} =>
                       \A t \in turns : t.session # Head(out).session
<1>1. WInv /\ TInv => Alone
  <2> SUFFICES ASSUME WInv, TInv, Serve, Head(out).do \in {"reply", "accept"},
                      NEW t \in turns, t.session = Head(out).session
               PROVE  FALSE
    OBVIOUS
  <2>1. Head(out) = out[1] /\ 1 \in 1 .. Len(out)
    BY ChannelNumbers, HeadTailProperties, EmptySeq DEF Serve, WInv, Channel, TypedChannel
  <2>2. EndsBetween(out[1].session, 0, 1)
    BY <2>1 DEF TInv, Requested, TurnsAreEnded, Turning
  <2> QED
    BY <2>2 DEF EndsBetween
<1>2. WInv /\ TInv /\ [Next]_vars => [Alone]_vars
  BY <1>1
<1> HIDE DEF Alone
<1>3. Spec => [][Alone]_vars
  BY <1>2, SpecTInv, PTL DEF Spec
<1> QED
  BY <1>3 DEF OneTurnAtATime, Alone

\* permission.lua: a request is not sent behind the question of a turn, unless
\* that turn is cancelled already, and no question is answered twice.
THEOREM QuestionsAlwaysComeFirst ==
    Shipped => (Spec => QuestionsComeFirst)
<1> SUFFICES ASSUME Shipped PROVE Spec => QuestionsComeFirst
  OBVIOUS
<1> DEFINE First ==
      /\ sent' # sent /\ gate' # None =>
            \A t \in turns : t.session = session /\ t.asking = gate' => GivenUp(session)
      /\ \A q \in Questions : answers'[q] <= 1
<1>1. ASSUME WInv, TInv, [Next]_vars PROVE First
  <2>1. \A q \in Questions : answers'[q] <= 1
    <3>1. AskedOnce'
      BY <1>1, QuestionsAwait DEF TInv
    <3> QED
      BY <3>1 DEF AskedOnce
  <2>2. ASSUME sent' # sent, gate' # None
        PROVE  session = None \/ (thinking = None /\ ~Expected)
    <3>1. CASE User
      <4>1. PromptInterrupts \/ Accept \/ Reject \/ Stop
        BY <2>2, <3>1 DEF User, PromptOpens, PromptRestarts, ReplyOpens, PromptCloses, Submit,
           Reset, Hide, ToggleDetails, AcceptQuestion, DenyQuestion, channel, DaemonEnds
      <4>2. Accept \/ Reject
        BY <2>2, <4>1 DEF PromptInterrupts, Stop, Settle
      <4>3. thinking = None /\ ~agent.working
        BY <4>2 DEF Accept, Reject, Deciding, Working
      <4> QED
        BY <1>1, <4>3 DEF WInv, Screen, ScreenFits
    <3>2. CASE SubmitPrompt
      BY <2>2, <3>2 DEF SubmitPrompt, Settle
    <3>3. CASE SubmitReply
      BY <1>1, <3>3 DEF SubmitReply, WInv, Screen, PromptFits
    <3>4. CASE Arrival
      BY <2>2, <3>4 DEF Arrival, Tick, Progress, TurnReady, Response, Question, channel
    <3>5. CASE Daemon
      BY <2>2, <3>5 DEF Daemon, Serve, WriteWorking, Yield, TurnEnds, TurnAsks, QuestionEnds,
         Editing
    <3>6. CASE UNCHANGED vars
      BY <2>2, <3>6 DEF vars, channel
    <3> QED
      BY <1>1, <3>1, <3>2, <3>3, <3>4, <3>5, <3>6 DEF Next
  <2>3. ASSUME sent' # sent, gate' # None, NEW t \in turns, t.session = session
        PROVE  GivenUp(session)
    <3>1. session # None
      BY <1>1, <2>3, TurnFields, Numbers DEF WInv, Channel
    <3>2. Past(0)
      BY <1>1, <2>2, <2>3, <3>1, NobodyIsAwaited DEF TInv
    <3> QED
      BY <1>1, <3>2, SessionNumbers DEF TInv, Past, Ending, GivenUp
  <2> QED
    BY <2>1, <2>3
<1>2. WInv /\ TInv /\ [Next]_vars => [First]_vars
  BY <1>1
<1> HIDE DEF First
<1>3. Spec => [][First]_vars
  BY <1>2, SpecTInv, PTL DEF Spec
<1> QED
  BY <1>3 DEF QuestionsComeFirst, First
=============================================================================

------------------------------- MODULE Cards -------------------------------
(***************************************************************************)
(* From a request to a card the user may see: the contract of the request, *)
(* the JSON the model answers with, how each adapter reads it, how the     *)
(* contract is enforced, and what the harness still refuses.  The model    *)
(* behind an adapter is external and writes any document.                  *)
(*                                                                         *)
(* A document maps its fields to values, of which only what reading and    *)
(* checking tell apart is kept: a text is there, null or blank; a location *)
(* is an object, an old "file:line" text, or has an empty file or line 0;  *)
(* patches are hunks or a diff.  What an object lacks inside (an id, the   *)
(* explanation of a file, an annotation) is taken to be there.             *)
(***************************************************************************)
EXTENDS SessionState, Sequences
LOCAL INSTANCE Naturals
LOCAL INSTANCE SequencesExt

CONSTANTS
    Modes,      \* the modes the user may choose
    Documents     \* what a model may write: a document, and what is around it

VARIABLES
    request,    \* the BackendRequest, and the action its turn began with
    route,      \* the parser of the adapter: "strict", "http" or "lenient"
    answer,     \* what the model wrote
    card,       \* the card the adapter made of it
    verdict     \* "asked", "read", then the harness's

cardVars == <<request, route, answer, card, verdict>>

NoFields == [none |-> "absent"]
NoAnswer ==
    [doc |-> [kind |-> "none", fields |-> NoFields], form |-> "none", prose |-> <<>>,
     fenced |-> FALSE]
NoCard == [kind |-> "none", id |-> "", fields |-> NoFields]

----------------------------------------------------------------------------
(* The contract of a request.                                              *)

ModeKind(mode) ==
    CASE mode \in {"fix", "propose"} -> "patch"
      [] mode \in {"explain", "review"} -> "finding"
      [] mode = "investigate" -> "hypothesis"

StartExpects(mode) == IF ModeKind(mode) = "patch" THEN "Patch" ELSE "Any"

ByAction(r) ==
    CASE r.action \in {"contract_retry", "location_granted", "goal"} -> "none"
      [] r.action \in {"start", "reply"} -> ModeKind(r.mode)
      [] r.action = "fix" -> "patch"
      [] r.action = "other_lead" -> "hypothesis"
      [] r.action \in {"follow", "why", "open", "run_check"} -> "finding"
      [] r.action \in {"retry", "edit_prompt"} -> r.last
      [] r.action = "resume_draft" -> "summary"

ExpectedKind(r) ==
    CASE r.expected = "Patch" -> "patch"
      [] r.expected \in {"Conversation", "GoalLoop"} -> "none"
      [] r.expected = "GoalWhy" -> "finding"
      [] r.expected \in {"Summary", "Finished"} -> "summary"
      [] r.expected \in {"Any", "Card"} -> ByAction(r)

Contract(r) ==
    [kind |-> ExpectedKind(r), goal |-> r.expected \in {"GoalLoop", "GoalWhy"},
     conversation |-> r.expected = "Conversation"]

----------------------------------------------------------------------------
(* What a field has to be for its type to deserialize.                     *)

Text == {"blank", "good"}
List == {"empty", "good"}
Optional == {"absent", "null", "blank", "good"}
Defaulted == List \union {"absent"}

AgentLocation == {"absent", "null", "good", "text", "fileless", "zero"}
AgentPatches == {"absent", "empty", "diff"}
AgentChoices == {"empty", "good", "labels", "unlabelled"}

AgentOp == [
    hypothesis |-> [title |-> Text, claim |-> Text, evidence |-> AgentLocation,
                    next |-> AgentLocation, flow_path |-> Optional],
    finding |-> [title |-> Text, finding |-> Text, location |-> AgentLocation,
                 annotation |-> Optional, flow_path |-> Optional],
    patch |-> [title |-> Text, explanation |-> Text, goal_complete |-> Optional,
               patches |-> AgentPatches, file_ops |-> Defaulted],
    choice |-> [title |-> Text, question |-> Text, options |-> AgentChoices],
    deny |-> [title |-> Text, reason |-> Text, location |-> AgentLocation],
    open_location |-> [reason |-> Optional, location |-> AgentLocation,
                       next |-> AgentLocation],
    summary |-> [title |-> Text, summary |-> Text, changed_files |-> List],
    error |-> [title |-> Text, message |-> Text]]

StructuredHunks == {"absent", "empty", "hunks", "unnumbered", "newline"}

StructuredPatchOp ==
    [title |-> Text, explanation |-> Optional, goal_complete |-> Optional,
     patches |-> StructuredHunks, file_ops |-> Defaulted]

(* A whole card, as the editor is sent it.                                 *)
WorkingCard == [title |-> Text, turn_id |-> Text, phase |-> Text, message |-> Text]

CardFields(kind) ==
    LET own == CASE kind = "working" -> WorkingCard
                 [] kind = "open_location" ->
                        [reason |-> Text, location |-> {"good", "fileless", "zero"}]
                 [] OTHER -> AgentOp[kind]
        acts == IF kind \in {"choice", "open_location"} THEN {} ELSE {"actions"}
    IN [f \in DOMAIN own \union {"id"} \union acts |->
           CASE f = "id" -> Text
             [] f = "actions" -> List
             [] f \in {"evidence", "next", "location"} -> own[f] \ {"text"}
             [] f \in {"flow_path", "goal_complete"} -> Optional \ {"null"}
             [] f = "patches" -> AgentPatches \ {"absent"}
             [] f = "options" -> AgentChoices \ {"labels"}
             [] OTHER -> own[f]]

Field(doc, f) == IF f \in DOMAIN doc.fields THEN doc.fields[f] ELSE "absent"
Deserializes(doc, fields) == \A f \in DOMAIN fields : Field(doc, f) \in fields[f]

----------------------------------------------------------------------------
(* Documents become cards.                                                 *)

CardError(id) ==
    [kind |-> "error", id |-> id, fields |-> [title |-> "good", message |-> "good"]]
UnparsedCard == CardError("unparsed")

Located(doc, f) == Field(doc, f) \notin {"absent", "null"}

(* An old "file:line" text and a bare label are completed.                 *)
Completed(value) ==
    CASE value = "text" -> "good" [] value = "labels" -> "good" [] OTHER -> value

IntoCard(doc, kind) ==
    IF kind = "open_location" /\ ~Located(doc, "location") /\ ~Located(doc, "next")
    THEN CardError("agent")
    ELSE [kind |-> kind, id |-> "agent",
          fields |-> [f \in DOMAIN AgentOp[kind] |->
              CASE kind = "open_location" /\ f = "reason" -> "good"
                [] kind = "open_location" /\ f = "location" ->
                       Completed(Field(doc, IF Located(doc, f) THEN f ELSE "next"))
                [] OTHER -> Completed(Field(doc, f))]]

(* Without an explanation of its own a patch has that of its first file,   *)
(* or its title; hunks become a diff, unless they cannot.                  *)
ParseStructuredPatch(doc) ==
    IF ~Deserializes(doc, StructuredPatchOp)
       \/ Field(doc, "patches") \in {"unnumbered", "newline"} THEN UnparsedCard
    ELSE [kind |-> "patch", id |-> "agent",
          fields |-> [f \in DOMAIN StructuredPatchOp |->
              CASE f = "explanation" /\ Field(doc, f) # "good" ->
                       IF Field(doc, "patches") = "hunks" THEN "good" ELSE Field(doc, "title")
                [] f = "patches" /\ Field(doc, f) = "hunks" -> "diff"
                [] OTHER -> Field(doc, f)]]

ParseOp(doc, op) ==
    IF op \in DOMAIN AgentOp /\ Deserializes(doc, AgentOp[op]) THEN IntoCard(doc, op)
    ELSE UnparsedCard

(* codex_app: the whole text is one object with an op.                     *)
ParseStrict(doc, op) ==
    IF op = "patch" THEN ParseStructuredPatch(doc) ELSE ParseOp(doc, op)

(* openai_compatible: the arguments of submit_card, in a fence, under      *)
(* "card" or flattened, with the op filled in where only one is wanted.    *)
CardOp(kind) == IF kind = "working" THEN "error" ELSE kind

TerminalOp(a, contract) ==
    IF a.form = "op" THEN a.doc.kind
    ELSE IF contract.goal \/ contract.kind = "none" THEN "none" ELSE CardOp(contract.kind)

(* first_json_object: from the first brace outside of a string to where    *)
(* the depth comes back to nothing.                                        *)
Scan(s0, char) ==
    LET s == [s0 EXCEPT !.at = @ + 1] IN
    IF s.end > 0 THEN s
    ELSE IF s.escaped THEN [s EXCEPT !.escaped = FALSE]
    ELSE IF char = "quote" THEN [s EXCEPT !.string = ~@]
    ELSE IF s.string THEN [s EXCEPT !.escaped = char = "backslash"]
    ELSE CASE char = "{" -> [s EXCEPT !.depth = @ + 1,
                                      !.start = IF s.depth = 0 THEN s.at ELSE @]
           [] char = "}" /\ s.depth > 0 -> [s EXCEPT !.depth = @ - 1,
                                                     !.end = IF s.depth = 1 THEN s.at ELSE 0]
           [] OTHER -> s

FirstJsonObject(text) ==
    LET s == FoldLeft(Scan, [at |-> 0, start |-> 0, depth |-> 0, end |-> 0,
                             string |-> FALSE, escaped |-> FALSE], text)
    IN IF s.end = 0 THEN <<>> ELSE SubSeq(text, s.start, s.end)

(* Any document: an object, in it a string with a brace and a quote.       *)
Json == <<"{", "quote", "{", "backslash", "quote", "quote", "{", "}", "}">>

(* generic, ollama, claude_app, stdio_agent: the whole text, or its first  *)
(* object; an op, or a card, or an op that calls itself a kind.            *)
ParseLenient(a) ==
    LET doc == a.doc
        text == a.prose \o Json IN
    CASE FirstJsonObject(text) # Json \/ a.form \in {"bare", "carded"} -> UnparsedCard
      [] FirstJsonObject(text) = Json /\ a.form = "op" -> ParseOp(doc, doc.kind)
      [] FirstJsonObject(text) = Json /\ a.form = "kind" ->
             IF Deserializes(doc, CardFields(doc.kind))
             THEN [kind |-> doc.kind, id |-> Field(doc, "id"), fields |-> doc.fields]
             ELSE ParseOp(doc, doc.kind)

Parse(a, parser, contract) ==
    LET op == IF a.form = "op" THEN a.doc.kind ELSE "none" IN
    CASE parser = "lenient" -> ParseLenient(a)
      [] parser = "strict" ->
             IF a.prose = <<>> /\ ~a.fenced THEN ParseStrict(a.doc, op) ELSE UnparsedCard
      [] parser = "http" ->
             IF a.prose = <<>> THEN ParseStrict(a.doc, TerminalOp(a, contract)) ELSE UnparsedCard

----------------------------------------------------------------------------
(* enforce_card_contract: a card of another kind becomes an error, which   *)
(* is shown as it is.                                                      *)

Discovery == {"hypothesis", "finding"}

(* Mutant: a question is let through wherever a card is wanted.            *)
AdmitsQuestions(c, contract) ==
    IF contract.kind = "none"
    THEN ~(contract.conversation /\ c.kind \in {"patch", "summary", "working"})
    ELSE \/ c.kind \in {"error", "deny", "open_location", "choice", contract.kind}
         \/ contract.goal /\ c.kind = "summary"

Admitted(c, contract) ==
    IF contract.kind = "none"
    THEN ~(contract.conversation /\ c.kind \in {"patch", "summary", "working"})
    ELSE \/ c.kind \in {"error", "deny", "open_location", contract.kind}
         \/ contract.kind \in Discovery /\ c.kind = "choice"
         \/ contract.goal /\ c.kind = "summary"

EnforceCardContract(c, contract) == IF Admitted(c, contract) THEN c ELSE CardError("contract")

----------------------------------------------------------------------------
(* The harness.  Whether a patch fits its source is not looked at here.    *)

RequiredTexts(kind) ==
    IF kind = "open_location" THEN {"reason"}
    ELSE LET own == IF kind = "working" THEN WorkingCard ELSE AgentOp[kind]
         IN {f \in DOMAIN own : own[f] = Text}

ValidateOneCard(c) ==
    /\ c.id # "blank"
    /\ \A f \in RequiredTexts(c.kind) : Field(c, f) = "good"
    /\ \A f \in {"evidence", "next", "location"} : Field(c, f) \notin {"fileless", "zero"}
    /\ Field(c, "options") \notin {"empty", "unlabelled"}
    /\ Field(c, "actions") = "empty" => c.kind \in {"choice", "summary"}

Judgement(c, expected) ==
    CASE c.kind = "open_location" -> "asks"
      [] c.kind = "error" -> IF c.id = "unparsed" THEN "rejected" ELSE "accepted"
      [] c.kind \notin {"open_location", "error"} ->
             IF ValidateOneCard(c) /\ c.kind \in Valid(expected) \union {"deny"}
             THEN "accepted" ELSE "rejected"

----------------------------------------------------------------------------
(* The output schemas of codex_app: the fields of each op it offers.       *)

NullableText == Text \union {"null"}
LocationSchema == {"good", "fileless"}
NullableLocationSchema == {"good", "fileless", "zero", "null"}
FileOpsSchema == {"null", "empty", "good"}
ChoiceOptionsSchema == {"empty", "good", "unlabelled"}

HypothesisSchema ==
    [title |-> Text, claim |-> Text, evidence |-> NullableLocationSchema,
     next |-> LocationSchema, flow_path |-> {"good"}]
FindingSchema ==
    [title |-> Text, finding |-> Text, location |-> LocationSchema,
     annotation |-> NullableText, flow_path |-> {"good"}]
PatchSchema ==
    [title |-> Text, explanation |-> Text, goal_complete |-> {"good"},
     patches |-> {"empty", "hunks", "newline"}, file_ops |-> FileOpsSchema]
ChoiceSchema == [title |-> Text, question |-> Text, options |-> ChoiceOptionsSchema]
DenySchema == [title |-> Text, reason |-> Text, location |-> NullableLocationSchema]
SummarySchema == [title |-> Text, summary |-> Text, changed_files |-> List]
ErrorSchema == [title |-> Text, message |-> Text]
OpenLocationSchema == [reason |-> Text, location |-> NullableLocationSchema,
                       next |-> NullableLocationSchema]

OpSchemas ==
    [hypothesis |-> HypothesisSchema, finding |-> FindingSchema, patch |-> PatchSchema,
     choice |-> ChoiceSchema, deny |-> DenySchema, open_location |-> OpenLocationSchema,
     summary |-> SummarySchema, error |-> ErrorSchema]

(* Several ops share the fields of one object: any but the title is null   *)
(* in an op that has no use for it, and so may be null in one that has.    *)
Shared(ops) ==
    [op \in ops |-> [f \in DOMAIN OpSchemas[op] |->
        CASE f = "title" -> Text
          [] f \in {"evidence", "next", "location"} -> NullableLocationSchema
          [] OTHER -> OpSchemas[op][f] \union {"null"}]]

ConversationSchema ==
    Shared({"hypothesis", "finding", "choice", "deny", "open_location", "error"})
AnyOpSchema == Shared(DOMAIN OpSchemas)

(* Mutant: a goal turn is offered any op.                                  *)
GoalLoopOffersAll == AnyOpSchema

GoalLoopSchema == Shared({"patch", "choice", "deny", "open_location", "summary", "error"})

OutputSchema(contract) ==
    CASE contract.goal ->
             IF contract.kind = "finding" THEN [finding |-> FindingSchema] ELSE GoalLoopSchema
      [] contract.conversation -> ConversationSchema
      [] ~contract.goal /\ ~contract.conversation ->
             IF contract.kind \in {"open_location", "none"} THEN AnyOpSchema
             ELSE [op \in {CardOp(contract.kind)} |-> OpSchemas[op]]

Follows(a, schema) ==
    /\ a.form = "op" /\ a.prose = <<>> /\ ~a.fenced
    /\ a.doc.kind \in DOMAIN schema
    /\ DOMAIN a.doc.fields = DOMAIN schema[a.doc.kind]
    /\ \A f \in DOMAIN a.doc.fields : a.doc.fields[f] \in schema[a.doc.kind][f]

----------------------------------------------------------------------------
(* One turn, with the retry and the grant that change its request.         *)

ModelAnswers ==
    /\ verdict = "asked"
    /\ answer' \in Documents
    /\ card' = EnforceCardContract(Parse(answer', route, Contract(request)), Contract(request))
    /\ verdict' = "read"
    /\ UNCHANGED <<request, route>>

HarnessJudges ==
    /\ verdict = "read"
    /\ verdict' = Judgement(card, request.expected)
    /\ UNCHANGED <<request, route, answer, card>>

AsksAgain(action) ==
    /\ request' = [request EXCEPT !.action = action]
    /\ answer' = NoAnswer /\ card' = NoCard /\ verdict' = "asked"
    /\ UNCHANGED route

RetriesAnswer == verdict = "rejected" /\ AsksAgain("contract_retry")
Granted == verdict = "asks" /\ AsksAgain("location_granted")

Turn(action, mode, expected, last) ==
    [first |-> action, action |-> action, mode |-> mode, expected |-> expected, last |-> last]

(* A mode counts in what the user writes; the last card that was neither   *)
(* an error nor a denial in what he asks for again.                        *)
UserTurns ==
    LET sent == {t \in Transitions : t[2] \notin {"stop", "apply", "cancel_turn"}}
        Earlier(a) == IF a \in {"retry", "edit_prompt"} THEN Discovery \union {"patch", "choice"}
                   ELSE {"none"}
    IN UNION {{Turn(t[2], "none", t[3], last) : last \in Earlier(t[2])} : t \in sent}

Turns ==
    {Turn(action, mode, StartExpects(mode), "none") :
        action \in {"start", "reply"}, mode \in Modes}
    \union UserTurns

CardsInit ==
    /\ request \in Turns
    /\ route \in {"strict", "http", "lenient"}
    /\ answer = NoAnswer /\ card = NoCard /\ verdict = "asked"

CardsNext == ModelAnswers \/ HarnessJudges \/ RetriesAnswer \/ Granted

----------------------------------------------------------------------------

(* The parsers, enforce_card_contract and validate_backend_card together:  *)
(* a card the user sees was wanted by his turn, has nothing blank that he  *)
(* would be shown, and is of the kind the model named, however the answer  *)
(* was wrapped; and prose around an answer that keeps its quotes paired    *)
(* and has no braces costs no parser that looks for an object its answer.  *)
Shown == verdict = "accepted" /\ card.kind # "error"
AcceptedIsWanted ==
    /\ Shown =>
         /\ card.kind \in Valid(request.expected) \union {"deny"}
         /\ LET wanted == ExpectedKind(request) IN
            wanted # "none" =>
              \/ card.kind \in {wanted, "deny"}
              \/ wanted \in Discovery /\ card.kind = "choice"
              \/ request.expected = "GoalWhy" /\ card.kind = "summary"
         /\ \A f \in RequiredTexts(card.kind) : Field(card, f) = "good"
         /\ card.kind = answer.doc.kind \/ answer.form \in {"bare", "kind", "carded"}
    /\ verdict = "read" /\ route = "lenient" /\ answer.form = "op"
       /\ Deserializes(answer.doc, AgentOp[answer.doc.kind])
       /\ SelectSeq(answer.prose, LAMBDA c : c \in {"{", "}", "backslash"}) = <<>>
       /\ Len(SelectSeq(answer.prose, LAMBDA c : c = "quote")) % 2 = 0 =>
         card.id # "unparsed"

(* schema.rs, parse.rs, enforce_card_contract and NextState::validate are  *)
(* four tables of what a turn may be answered with: an answer the schema   *)
(* of a turn offers, with all it needs, is read, admitted and valid.  A    *)
(* request that no longer names its kind is left out: see ModesAreStrict.  *)
SchemaIsHonoured ==
    /\ verdict \in {"accepted", "asks", "rejected"} /\ route = "strict"
    /\ Follows(answer, OutputSchema(Contract(request)))
    /\ \A f \in DOMAIN answer.doc.fields :
          answer.doc.fields[f] \in {"good", "hunks"}
    /\ request.expected = "Card" => ExpectedKind(request) # "none"
    => verdict # "rejected" /\ card.kind = answer.doc.kind

(* schema.rs: file_ops are "Null for an ordinary content patch", so an     *)
(* answer that has them null and all else is read.                         *)
SchemaAnswersParse ==
    /\ verdict = "read" /\ route = "strict"
    /\ Follows(answer, OutputSchema(Contract(request)))
    /\ \A f \in DOMAIN answer.doc.fields \ {"file_ops"} :
          answer.doc.fields[f] \in {"good", "hunks"}
    => card.id # "unparsed"

(* "Modes are strict user-selected contracts": a turn the user wrote in a  *)
(* mode ends in the card of that mode, or in a safety exit.                *)
ModesAreStrict ==
    verdict = "accepted" /\ request.first \in {"start", "reply"} =>
        card.kind \in {ModeKind(request.mode), "choice", "deny", "error"}

=============================================================================

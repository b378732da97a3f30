------------------------------ MODULE Streams ------------------------------
(***************************************************************************)
(* A streamed answer of an OpenAI-compatible server.  The server, which is *)
(* external, writes events as frames of text; the network hands them on in *)
(* chunks cut anywhere; SseDecoder finds the frames again, Accumulator     *)
(* puts the answer together, and StreamPreview lets the user read along.   *)
(***************************************************************************)
LOCAL INSTANCE Naturals
LOCAL INSTANCE FiniteSets
LOCAL INSTANCE SequencesExt

CONSTANTS
    Replies,        \* what a server may have to say: its calls and its text
    MaxUnread,      \* bound on the frames written and not yet decoded
    PreviewLimit,   \* PREVIEW_BUFFER_LIMIT
    PreviewMin,     \* PREVIEW_BODY_MIN_CHARS
    PreviewStep     \* PREVIEW_BODY_STEP_CHARS

VARIABLES
    said,       \* the server: its reply, what of it is written, how it ends
    newline,    \* the line ends it writes
    wire,       \* bytes written and not yet received
    buffer,     \* SseDecoder.buffer
    acc,        \* Accumulator
    outcome     \* what read_response_stream returned

streamVars == <<said, newline, wire, buffer, acc, outcome>>

BodyFields == <<"claim", "finding", "question", "explanation", "reason", "summary", "message">>

(* A card or the arguments of a read are a document: keys, the characters  *)
(* of their values, and the quotes that end them.                          *)
Key(f) == <<"key", f>>
Quote == <<"end">>

Reading == [status |-> "reading", calls |-> {}, text |-> <<>>]

----------------------------------------------------------------------------
(* SseDecoder.                                                             *)

Marks(bytes, mark) ==
    {i \in 1 .. Len(bytes) - Len(mark) + 1 :
        \A k \in DOMAIN mark : bytes[i + k - 1] = mark[k]}

BlankLine(eol) == eol \o eol
LineEnds == [crlf |-> << <<"cr">>, <<"lf">> >>, lf |-> << <<"lf">> >>]

FrameBoundary(bytes, eol) == Marks(bytes, BlankLine(LineEnds[eol]))

(* What is left of the buffer when a frame and its separator are drained.  *)
(* Mutant: the buffer is cleared, as if a chunk ended with a frame.        *)
Cleared(bytes, end, eol) == <<>>

Drained(bytes, end, eol) == SubSeq(bytes, end + 2 * Len(LineEnds[eol]), Len(bytes))

Separator(bytes) == IF FrameBoundary(bytes, "crlf") # {} THEN "crlf" ELSE "lf"

RECURSIVE Frames(_)
Frames(bytes) ==
    LET eol == Separator(bytes)
        found == FrameBoundary(bytes, eol)
        end == CHOOSE i \in found : \A j \in found : i <= j
    IN IF found = {} THEN [frames |-> <<>>, rest |-> bytes]
       ELSE LET more == Frames(Drained(bytes, end, eol))
            IN [more EXCEPT !.frames = <<SubSeq(bytes, 1, end - 1)>> \o @]

(* The data lines of a frame joined: an event when both halves of one are  *)
(* there and nothing else; a comment has no data, a ping is not JSON.      *)
EventsOf(frame) ==
    LET data == SelectSeq(frame, LAMBDA b : b[1] \in {"half", "ping"})
    IN IF Len(data) = 2 /\ (\A k \in 1 .. 2 : data[k][1] = "half" /\ data[k][2] = k)
          /\ data[1][3] = data[2][3]
       THEN <<data[1][3]>> ELSE <<>>

----------------------------------------------------------------------------
(* StreamPreview: only a title and a body may be shown before the card has *)
(* been validated.                                                         *)

NoField == [chars |-> 0, complete |-> FALSE, found |-> FALSE, text |-> <<>>]

ExtractStringField(json, field) ==
    LET starts == {i \in DOMAIN json : json[i] = Key(field)}
        start == CHOOSE i \in starts : \A j \in starts : i <= j
        quotes == {i \in DOMAIN json : i > start /\ json[i] = Quote}
        end == CHOOSE i \in quotes : \A j \in quotes : i <= j
        text == SubSeq(json, start + 1, IF quotes = {} THEN Len(json) ELSE end - 1)
    IN IF starts = {} THEN NoField
       ELSE [chars |-> Len(text), complete |-> quotes # {}, found |-> TRUE, text |-> text]

NewPreview == [buffer |-> <<>>, title |-> <<>>, chars |-> 0, body |-> <<>>]

(* push: body is what the user sees, the rest is the code's own.           *)
PushPreview(p, delta) ==
    LET json == p.buffer \o delta
        t == ExtractStringField(json, "title")
        titled == t.complete /\ t.text # <<>>
        fields == {i \in DOMAIN BodyFields : ExtractStringField(json, BodyFields[i]).found}
        b == IF fields = {} THEN NoField
             ELSE ExtractStringField(json,
                      BodyFields[CHOOSE i \in fields : \A j \in fields : i <= j])
        bodyChanged ==
            /\ b.complete \/ b.chars >= PreviewMin
            /\ b.chars # p.chars
            /\ b.complete \/ p.chars = 0 \/ b.chars >= p.chars + PreviewStep
        changed == (titled /\ t.text # p.title) \/ bodyChanged
    IN IF Len(p.buffer) >= PreviewLimit THEN p
       ELSE IF Len(json) > PreviewLimit \/ ~changed THEN [p EXCEPT !.buffer = json]
       ELSE [buffer |-> json, title |-> IF titled THEN t.text ELSE p.title,
             chars |-> IF bodyChanged THEN b.chars ELSE p.chars, body |-> b.text]

----------------------------------------------------------------------------
(* Accumulator.                                                            *)

Event(type, item, text) == [type |-> type, item |-> item, text |-> text]

Added(a, e) ==
    [a EXCEPT !.calls =
        (e.item :> [name |-> said.reply.calls[e.item].name, arguments |-> e.text]) @@ @]

Delta(a, e) ==
    IF e.item \notin DOMAIN a.calls THEN a
    ELSE [a EXCEPT !.calls[e.item].arguments = @ \o e.text,
                   !.preview = IF a.calls[e.item].name = "submit_card"
                               THEN PushPreview(@, e.text) ELSE @]

Done(a, e) ==
    IF e.item \notin DOMAIN a.calls THEN a
    ELSE [a EXCEPT !.calls[e.item].arguments = e.text]

TextDelta(a, e) == [a EXCEPT !.text = @ \o e.text, !.preview = PushPreview(@, e.text)]

(* What the completed response lists is taken, else what was streamed.     *)
(* The event says how much that is, in the place of an item.               *)
Nothing == 0
TextOnly == 1
Everything == 2

CompletedCalls(a, e) ==
    IF e.item = Everything /\ said.reply.calls # <<>>
    THEN {said.reply.calls[i] : i \in DOMAIN said.reply.calls}
    ELSE {a.calls[i] : i \in DOMAIN a.calls}

CompletedText(a, e) ==
    IF e.item \in {Everything, TextOnly} /\ said.reply.text # <<>> THEN said.reply.text ELSE a.text

Handle(a, e) ==
    CASE e.type = "added" -> Added(a, e)
      [] e.type = "delta" -> Delta(a, e)
      [] e.type = "done" -> Done(a, e)
      [] e.type = "text" -> TextDelta(a, e)
      [] e.type = "completed" ->
             [a EXCEPT !.turn = [status |-> "done", calls |-> CompletedCalls(a, e),
                                 text |-> CompletedText(a, e)]]
      [] e.type \in {"incomplete", "failed"} -> [a EXCEPT !.turn.status = "failed"]

(* The first event that ends the turn returns: the rest is not looked at.  *)
HandleAll(a, events) ==
    FoldLeft(LAMBDA b, e : IF b.turn.status = "reading" THEN Handle(b, e) ELSE b, a, events)

----------------------------------------------------------------------------
(* read_response_stream.                                                   *)

Deliver(n) ==
    /\ outcome.status = "reading"
    /\ LET read == Frames(buffer \o SubSeq(wire, 1, n))
           events == FlattenSeq([i \in DOMAIN read.frames |-> EventsOf(read.frames[i])])
       IN /\ buffer' = read.rest
          /\ acc' = HandleAll(acc, events)
          /\ outcome' = acc'.turn
    /\ wire' = SubSeq(wire, n + 1, Len(wire))
    /\ UNCHANGED <<said, newline>>

(* The stream ends without response.completed.                             *)
EndOfStream ==
    /\ outcome.status = "reading" /\ wire = <<>> /\ said.end # "no"
    /\ outcome' = [Reading EXCEPT !.status = "failed"]
    /\ UNCHANGED <<said, newline, wire, buffer, acc>>

----------------------------------------------------------------------------
(* The server: calls and text in any order, the pieces of each in theirs,  *)
(* and up to MaxUnread frames ahead of what has been decoded.              *)

Room ==
    /\ said.end = "no" /\ outcome.status = "reading"
    /\ Cardinality(FrameBoundary(buffer \o wire, newline)) < MaxUnread

Write(frame) ==
    /\ Room
    /\ wire' = wire \o frame \o BlankLine(LineEnds[newline])
    /\ UNCHANGED <<newline, buffer, acc, outcome>>

(* A server may write the data of an event over two lines.                 *)
Frame(e) ==
    << <<"half", 1, e>> >> \o (IF said.folds THEN LineEnds[newline] ELSE <<>>)
        \o << <<"half", 2, e>> >>
WriteEvent(e) == Write(Frame(e))

Pieces(whole, sent) == {SubSeq(whole, sent + 1, k) : k \in sent + 1 .. Len(whole)}

ServerAdds(i) ==
    /\ i = Len(said.calls) + 1 /\ i \in DOMAIN said.reply.calls
    /\ WriteEvent(Event("added", i, <<>>))
    /\ said' = [said EXCEPT !.calls = Append(@, [sent |-> 0, done |-> FALSE])]

ServerSends(i) ==
    /\ i \in DOMAIN said.calls /\ ~said.calls[i].done
    /\ \E piece \in Pieces(said.reply.calls[i].arguments, said.calls[i].sent) :
         /\ WriteEvent(Event("delta", i, piece))
         /\ said' = [said EXCEPT !.calls[i].sent = @ + Len(piece)]

ServerIsDone(i) ==
    /\ i \in DOMAIN said.calls /\ ~said.calls[i].done
    /\ WriteEvent(Event("done", i, said.reply.calls[i].arguments))
    /\ said' = [said EXCEPT !.calls[i] = [sent |-> Len(said.reply.calls[i].arguments),
                                          done |-> TRUE]]

ServerWrites ==
    \E piece \in Pieces(said.reply.text, said.text) :
        /\ WriteEvent(Event("text", 0, piece))
        /\ said' = [said EXCEPT !.text = @ + Len(piece)]

ServerIdles ==
    /\ ~said.idled
    /\ \E b \in {<<"ping">>, <<"comment">>} : Write(<<b>>)
    /\ said' = [said EXCEPT !.idled = TRUE]

Whole ==
    /\ Len(said.calls) = Len(said.reply.calls)
    /\ \A i \in DOMAIN said.calls : said.calls[i].sent = Len(said.reply.calls[i].arguments)
    /\ said.text = Len(said.reply.text)

ServerCompletes ==
    /\ Whole
    /\ \E output \in {Nothing, TextOnly, Everything} : WriteEvent(Event("completed", output, <<>>))
    /\ said' = [said EXCEPT !.end = "completed"]

ServerFails ==
    /\ \E type \in {"incomplete", "failed"} : WriteEvent(Event(type, 0, <<>>))
    /\ said' = [said EXCEPT !.end = "failed"]

Cut ==
    /\ said.end = "no" /\ outcome.status = "reading"
    /\ said' = [said EXCEPT !.end = "cut"]
    /\ UNCHANGED <<newline, wire, buffer, acc, outcome>>

StreamsInit ==
    /\ \E reply \in Replies, folds \in BOOLEAN :
         said = [reply |-> reply, folds |-> folds, calls |-> <<>>, text |-> 0, end |-> "no",
                 idled |-> FALSE]
    /\ newline \in DOMAIN LineEnds
    /\ wire = <<>> /\ buffer = <<>>
    /\ acc = [calls |-> <<>>, text |-> <<>>, preview |-> NewPreview, turn |-> Reading]
    /\ outcome = Reading

StreamsNext ==
    \/ \E n \in 1 .. Len(wire) : Deliver(n)
    \/ EndOfStream
    \/ \E i \in DOMAIN said.reply.calls : ServerAdds(i) \/ ServerSends(i) \/ ServerIsDone(i)
    \/ ServerWrites \/ ServerIdles \/ ServerCompletes \/ ServerFails \/ Cut

----------------------------------------------------------------------------

ShownCards ==
    {said.reply.text} \union
    {said.reply.calls[i].arguments :
        i \in {j \in DOMAIN said.reply.calls : said.reply.calls[j].name = "submit_card"}}

(* StreamPreview: what the user reads before the card is validated is a    *)
(* beginning of its body, never a patch or the arguments of a read, and    *)
(* once the body has arrived it is the whole of it.                        *)
PreviewIsTrue ==
    LET p == acc.preview IN
    /\ p.body # <<>> =>
         \E card \in ShownCards, i \in DOMAIN BodyFields :
             IsPrefix(p.body, ExtractStringField(card, BodyFields[i]).text)
    /\ Len(p.buffer) < PreviewLimit =>
         \A i \in DOMAIN BodyFields :
             LET b == ExtractStringField(p.buffer, BodyFields[i])
             IN b.complete => p.body = b.text

(* read_response_stream: however the bytes are cut (in a line, in a        *)
(* separator, behind one, or with the end of one frame and the beginning   *)
(* of the next in one chunk), the turn it returns holds every call and the *)
(* text of the server, whole, exactly when the server completed its        *)
(* response; and what is put together on the way is a beginning of it.     *)
StreamIsRead ==
    /\ outcome.status = "done" =>
         /\ said.end = "completed"
         /\ outcome.calls = {said.reply.calls[i] : i \in DOMAIN said.reply.calls}
         /\ outcome.text = said.reply.text
    /\ outcome.status = "failed" => said.end \in {"failed", "cut"}
    /\ \A i \in DOMAIN acc.calls : IsPrefix(acc.calls[i].arguments, said.reply.calls[i].arguments)
    /\ IsPrefix(acc.text, said.reply.text)
    /\ wire = <<>> => Marks(buffer, BlankLine(LineEnds[newline])) = {}
    /\ PreviewIsTrue

=============================================================================

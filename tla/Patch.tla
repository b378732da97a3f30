------------------------------- MODULE Patch -------------------------------
(***************************************************************************)
(* The patch engine of crate loopbiotic_patch and its mirror in the editor *)
(* (apply.lua): how one reply of a model becomes hunks that fit a file,    *)
(* and how a hunk is applied to a buffer.  Everything here is a function   *)
(* of its arguments; HunkReview drives it.                                 *)
(*                                                                         *)
(* A line is a record [t, w]: t is the text without leading and trailing   *)
(* whitespace, w stands for that whitespace.  A diff line adds its kind k. *)
(* Lines are never blank: the editor's applier also lets a blank line of a *)
(* hunk match past the end of the file, which is left out.  A path is the  *)
(* sequence of its components.                                             *)
(***************************************************************************)
EXTENDS Integers, Sequences, SequencesExt, FiniteSets

CONSTANTS
    MaxReviewHunks,     \* MAX_HUNKS_PER_PATCH = MAX_REVIEW_QUEUE_HUNKS = 16
    MaxChangedLines,    \* MAX_CHANGED_LINES = 32
    Imports,            \* the texts that are import lines
    Mentions,           \* of a text: the identifiers in it
    Declares            \* of a text: the one it introduces, if it declares one

(* A result is accepted or carries the class of the contract it violates.  *)
Refuse(class) == [class |-> class]
Accepted(r) == "class" \notin DOMAIN r

Old(lines) == SelectSeq(lines, LAMBDA l : l.k # "add")
New(lines) == SelectSeq(lines, LAMBDA l : l.k # "del")
Changed(lines) == {i \in DOMAIN lines : lines[i].k # "ctx"}
Content(lines) == [i \in DOMAIN lines |-> [t |-> lines[i].t, w |-> lines[i].w]]

LineMatches(actual, expected) == actual.t = expected.t

MatchesAt(source, at, expected) ==
    \A i \in DOMAIN expected :
        at + i \in DOMAIN source /\ LineMatches(source[at + i], expected[i])

Matches(source, expected) ==
    {at \in 0 .. (Len(source) - Len(expected)) : MatchesAt(source, at, expected)}

(* Where a hunk belongs: the declared place when it matches, else the only *)
(* one that does.                                                          *)
Located(source, declared, expected) ==
    IF MatchesAt(source, declared, expected)
    THEN {declared} ELSE Matches(source, expected)

----------------------------------------------------------------------------
(* Headers, envelopes and paths: the repairs that need no source.          *)

Recount(h) == [h EXCEPT !.oldLen = Len(Old(h.lines)), !.newLen = Len(New(h.lines))]

DropDot(path) == IF Len(path) > 1 /\ path[1] = "." THEN Tail(path) ELSE path

DropGit(path) == IF Len(path) > 1 /\ path[1] \in {"a", "b"} THEN Tail(path) ELSE <<>>

NormalizePath(path, expected) ==
    LET p == DropDot(path) IN IF DropGit(p) = expected THEN expected ELSE p

HeaderNames(header, file) ==
    LET p == DropDot(header) IN p = file \/ DropGit(p) = file

(* A header line is a path it names, <<>> for /dev/null and the lines that *)
(* name none, or <<"?">> for prose and rename headers.                     *)
StripEnvelope(envelope, file) ==
    LET bad == SelectSeq(envelope.headers,
                         LAMBDA p : p # <<>> /\ ~HeaderNames(p, file))
    IN CASE envelope.fences = "unmatched" -> Refuse("MalformedDiff")
         [] bad # <<>> /\ bad[1] = <<"?">> -> Refuse("MalformedDiff")
         [] bad # <<>> /\ bad[1] # <<"?">> -> Refuse("WrongFile")
         [] OTHER -> [stripped |-> TRUE]

----------------------------------------------------------------------------
(* Change runs.                                                            *)

RunStarts(lines) == {i \in Changed(lines) : i - 1 \notin Changed(lines)}
RunEnds(lines) == {i \in Changed(lines) : i + 1 \notin Changed(lines)}

Ascending(S) == SetToSortSeq(S, LAMBDA i, j : i < j)

(* Every separated run becomes a hunk; neighbours share the gap between.   *)
SplitRuns(h) ==
    LET starts == Ascending(RunStarts(h.lines))
        ends == Ascending(RunEnds(h.lines))
        n == Len(starts)
        Slice(i) ==
            LET from == IF i = 1 THEN 1 ELSE ends[i - 1] + 1
                to == IF i = n THEN Len(h.lines) ELSE starts[i + 1] - 1
                before == SubSeq(h.lines, 1, from - 1)
            IN Recount([h EXCEPT !.old = @ + Len(Old(before)),
                                 !.new = @ + Len(New(before)),
                                 !.lines = SubSeq(h.lines, from, to)])
    IN IF n <= 1 THEN <<h>> ELSE [i \in 1 .. n |-> Slice(i)]

SplitBatch(hunks) == FlattenSeq([i \in DOMAIN hunks |-> SplitRuns(hunks[i])])

HunkViolation(h) ==
    CASE Cardinality(RunStarts(h.lines)) > 1 -> "MultiHunk"
      [] Old(h.lines) = <<>> /\ h.oldLen # 0 -> "HunkHeaderMismatch"
      [] Old(h.lines) = <<>> /\ New(h.lines) = <<>> -> "MalformedDiff"
      [] Recount(h) # h -> "HunkHeaderMismatch"
      [] Cardinality(Changed(h.lines)) > MaxChangedLines -> "OversizedBatch"
      [] OTHER -> "none"

(* validate_card, for the one file a card may patch.                       *)
ValidateHunks(hunks) ==
    LET bad == SelectSeq(hunks, LAMBDA h : HunkViolation(h) # "none")
    IN CASE Len(hunks) > MaxReviewHunks -> Refuse("OversizedBatch")
         [] bad # <<>> -> Refuse(HunkViolation(bad[1]))
         [] OTHER -> [hunks |-> hunks]

----------------------------------------------------------------------------
(* Against a capture [start, lines]: the buffer's lines from number start. *)

AsQuoted(lines, source, at) == lines            \* mutant of Canonical

(* Context and removed lines become the exact lines of the source.         *)
Canonical(lines, source, at) ==
    [i \in DOMAIN lines |->
        LET actual == source[at + Len(Old(SubSeq(lines, 1, i)))] IN
        IF lines[i].k = "add" THEN lines[i]
        ELSE [lines[i] EXCEPT !.t = actual.t, !.w = actual.w]]

NormalizeHunk(raw, capture) ==
    LET h == Recount(raw)
        found == Located(capture.lines, h.old - capture.start, Old(h.lines))
        at == CHOOSE p \in found : TRUE
        old == capture.start + at
        new == old + (h.new - h.old)
    IN CASE Old(h.lines) = <<>> /\ capture.lines = <<>> ->
                [h EXCEPT !.old = capture.start, !.new = capture.start]
         [] Old(h.lines) = <<>> /\ capture.lines # <<>> -> Refuse("ContextMismatch")
         [] Old(h.lines) # <<>> /\ Cardinality(found) # 1 -> Refuse("ContextMismatch")
         [] Old(h.lines) # <<>> /\ Cardinality(found) = 1 /\ new < 1 ->
                Refuse("HunkHeaderMismatch")
         [] OTHER -> [h EXCEPT !.old = old, !.new = new,
                               !.lines = Canonical(@, capture.lines, at)]

(* validate_card_against_context: now the comparison is exact.             *)
FitsCapture(h, capture) ==
    LET at == h.old - capture.start
        expected == Content(Old(h.lines))
    IN IF expected = <<>> THEN capture.lines = <<>> /\ at = 0
       ELSE /\ at >= 0
            /\ at + Len(expected) <= Len(capture.lines)
            /\ SubSeq(capture.lines, at + 1, at + Len(expected)) = expected

NormalizeAgainst(hunks, capture) ==
    LET normal == [i \in DOMAIN hunks |-> NormalizeHunk(hunks[i], capture)]
        bad == SelectSeq(normal, LAMBDA r : ~Accepted(r))
    IN CASE bad # <<>> -> bad[1]
         [] bad = <<>> /\ \E i \in DOMAIN normal : ~FitsCapture(normal[i], capture) ->
                Refuse("ContextMismatch")
         [] OTHER -> [hunks |-> normal]

----------------------------------------------------------------------------
(* The order a batch is reviewed in.                                       *)

Added(h) == {h.lines[i].t : i \in {j \in DOMAIN h.lines : h.lines[j].k = "add"}}

Produces(h) ==
    UNION {IF t \in Imports THEN Mentions[t] ELSE Declares[t] : t \in Added(h)}
Consumes(h) == UNION {Mentions[t] : t \in Added(h)} \ Produces(h)

(* The rating of a test file is lower for all its hunks alike: left out.   *)
Rating(h) ==
    IF \E t \in Added(h) : Declares[t] # {} THEN 400
    ELSE IF Added(h) \cap Imports # {} THEN 300
    ELSE IF Added(h) = {} THEN 100 ELSE 200

(* Does hunk i introduce something hunk j uses?                            *)
Feeds(hunks, i, j) == i # j /\ Produces(hunks[i]) \cap Consumes(hunks[j]) # {}

ByRating(hunks) ==                              \* mutant of ReviewOrder
    SetToSortSeq(DOMAIN hunks,
                 LAMBDA i, j : \/ Rating(hunks[i]) > Rating(hunks[j])
                               \/ Rating(hunks[i]) = Rating(hunks[j]) /\ i < j)

ReviewOrder(hunks) ==
    LET Precedes(i, j) ==
            \/ Rating(hunks[i]) > Rating(hunks[j])
            \/ Rating(hunks[i]) = Rating(hunks[j]) /\ i <= j
        order[S \in SUBSET DOMAIN hunks] ==
            IF S = {} THEN <<>>
            ELSE LET free == {i \in S : \A j \in S : ~Feeds(hunks, j, i)}
                     pool == IF free = {} THEN S ELSE free
                     next == CHOOSE i \in pool : \A j \in pool : Precedes(i, j)
                 IN <<next>> \o order[S \ {next}]
    IN order[DOMAIN hunks]

----------------------------------------------------------------------------
(* The editor's applier.  A buffer with no line holds one empty line, which *)
(* the applier takes for an empty file; it is <<>> here.                   *)

AsDeclared(source, h) == {h.old - 1}            \* mutant of ResolveStart

ResolveStart(source, h) ==
    IF h.oldLen = 0 THEN {at \in {0} : source = <<>>}
    ELSE Located(source, h.old - 1, Old(h.lines))

(* Either exactly one place, or the hunk is inert.                         *)
Applies(source, h) == Cardinality(ResolveStart(source, h)) = 1

ApplyDiff(source, h) ==
    LET at == CHOOSE p \in ResolveStart(source, h) : TRUE
    IN SubSeq(source, 1, at)
       \o Content(New(Canonical(h.lines, source, at)))
       \o SubSeq(source, at + Len(Old(h.lines)) + 1, Len(source))

=============================================================================

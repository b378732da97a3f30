----------------------------- MODULE HunkReview -----------------------------
(***************************************************************************)
(* One batch of hunks from the reply of the model to the user's file:      *)
(* normalize_patch_batch in the daemon (with the editor/read_file request  *)
(* it may send in the middle), queue_patch_cards, and the editor's preview *)
(* of each queued hunk, which becomes the file when the user accepts it.   *)
(* Meanwhile the user edits the file and the draft.                        *)
(***************************************************************************)
EXTENDS Patch, FiniteSetsExt, TLC

CONSTANTS
    Replies,        \* replies of the model, each a record:
                    \*   source   the file when it was captured for the model
                    \*   excerpt  the capture it was shown: [start, lines]
                    \*   path, envelope, hunks     what it answered
                    \*   target   the file it means to produce
                    \*   flaw     how it was spoilt, "none" for an exact diff
    Active,         \* the path of the file the turn is about
    NewPath,        \* the path of a file that does not exist yet
    MaxEdits        \* bound on the user's edits and on outside changes

Paths == {Active, NewPath} \cup {r.path : r \in Replies}
            \cup {DropDot(r.path) : r \in Replies}
None == "none"
UserLine == [t |-> "typed by the user", w |-> 0]
DraftLine == [t |-> "added to the draft", w |-> 0]

VARIABLES
    reply,      \* the reply under review
    phase,      \* "drafting", "reading", "reviewing", "refused", "over"
    class,      \* the class of the violation that refused it
    card,       \* the patch card in work: [path, hunks]
    snapshot,   \* the capture it was validated against
    text,       \* per path: the lines of its buffer, <<>> if there is none
    exists,     \* the paths that are files
    queue,      \* the hunks left to review, the one on screen first
    preview,    \* the preview: nothing, an inert card or a draft
    edits,      \* changes of the file outside the review
    typed,      \* lines the user typed into the file
    formatted,  \* whether the user reindented the file
    drafted     \* whether the user edited a draft, or discarded one

vars == <<reply, phase, class, card, snapshot, text, exists, queue, preview, edits,
          typed, formatted, drafted>>

Capture(path) == [start |-> 1, lines |-> text[path]]

Nothing == [state |-> None, lines |-> <<>>, fresh |-> FALSE, creates |-> FALSE]
Inert == [Nothing EXCEPT !.state = "inert"]
Drafting(lines, creates) ==
    [state |-> "draft", lines |-> lines, fresh |-> TRUE, creates |-> creates]
Previewing == preview.state = "draft"

Init ==
    /\ reply \in Replies
    /\ phase = "drafting" /\ class = None
    /\ card = [path |-> reply.path, hunks |-> reply.hunks]
    /\ snapshot = reply.excerpt
    /\ text = [p \in Paths |-> IF p = Active THEN reply.source ELSE <<>>]
    /\ exists = {Active}
    /\ queue = <<>> /\ preview = Nothing
    /\ edits = 0 /\ typed = 0 /\ formatted = FALSE
    /\ drafted = FALSE

RefuseWith(why) == phase' = "refused" /\ class' = why /\ UNCHANGED <<card, queue>>

(* queue_patch_cards *)
Review(r, path) ==
    LET order == ReviewOrder(r.hunks) IN
    /\ card' = [path |-> path, hunks |-> r.hunks]
    /\ queue' = [i \in DOMAIN order |-> r.hunks[order[i]]]
    /\ phase' = "reviewing" /\ UNCHANGED class

(* The reply arrives: the repairs that need no source, the split and the   *)
(* limits, then the excerpt the turn was given.  A file other than the     *)
(* active one, or a context the excerpt does not show, needs the editor.   *)
Draft ==
    LET path == DropDot(reply.path)
        raw == [i \in DOMAIN reply.hunks |-> Recount(reply.hunks[i])]
        stripped == StripEnvelope(reply.envelope, path)
        valid == ValidateHunks(SplitBatch(raw))
        normal == NormalizeAgainst(valid.hunks, reply.excerpt)
        Ask == /\ phase' = "reading" /\ UNCHANGED <<class, queue>>
               /\ card' = [path |-> path, hunks |-> valid.hunks]
    IN
    /\ phase = "drafting"
    /\ \/ ~Accepted(stripped) /\ RefuseWith(stripped.class)
       \/ Accepted(stripped) /\ ~Accepted(valid) /\ RefuseWith(valid.class)
       \/ /\ Accepted(stripped) /\ Accepted(valid)
          /\ \/ path # Active /\ Ask
             \/ path = Active /\ Accepted(normal) /\ Review(normal, path)
             \/ /\ path = Active /\ ~Accepted(normal)
                /\ IF normal.class = "ContextMismatch" THEN Ask
                   ELSE RefuseWith(normal.class)
    /\ UNCHANGED <<reply, snapshot, text, exists, preview, edits, typed, formatted, drafted>>

(* The editor answers editor/read_file with the buffer as it is now.       *)
ReadFile ==
    LET normal == NormalizeAgainst(card.hunks, Capture(card.path)) IN
    /\ phase = "reading"
    /\ IF Accepted(normal)
       THEN /\ Review(normal, NormalizePath(card.path, card.path))
            /\ snapshot' = Capture(card.path)
       ELSE RefuseWith(normal.class) /\ UNCHANGED snapshot
    /\ UNCHANGED <<reply, text, exists, preview, edits, typed, formatted, drafted>>

(* ... or it does not, in time.                                            *)
ReadFails ==
    /\ phase = "reading"
    /\ RefuseWith(IF card.path = Active THEN "ContextMismatch" ELSE "IncoherentBatch")
    /\ UNCHANGED <<reply, snapshot, text, exists, preview, edits, typed, formatted, drafted>>

----------------------------------------------------------------------------
(* The review in the editor (diff.lua).                                    *)

(* The patch card on screen is shown: its hunk is located and applied to a *)
(* draft of the live buffer, or reported as inert.                         *)
Show ==
    LET source == text[card.path] IN
    /\ phase = "reviewing" /\ ~Previewing
    /\ preview' = IF Applies(source, queue[1])
                  THEN Drafting(ApplyDiff(source, queue[1]), card.path \notin exists)
                  ELSE Inert
    /\ UNCHANGED <<reply, phase, class, card, snapshot, text, exists, queue, edits, typed,
                   formatted, drafted>>

EditDraft ==
    /\ Previewing
    /\ preview' = [preview EXCEPT !.lines = Append(@, DraftLine)]
    /\ drafted = FALSE /\ drafted' = TRUE
    /\ UNCHANGED <<reply, phase, class, card, snapshot, text, exists, queue, edits, typed,
                   formatted>>

(* The user types a line into the file, in the preview's place or beside   *)
(* it; the buffer's changedtick moves.                                     *)
UserEdit(at) ==
    /\ edits < MaxEdits
    /\ at \in 0 .. Len(text[Active])
    /\ text' = [text EXCEPT ![Active] = InsertAt(@, at + 1, UserLine)]
    /\ preview' = IF Previewing /\ card.path = Active
                  THEN [preview EXCEPT !.fresh = FALSE] ELSE preview
    /\ edits' = edits + 1 /\ typed' = typed + 1
    /\ UNCHANGED <<reply, phase, class, card, snapshot, exists, queue, formatted, drafted>>

(* The user reindents the whole file.                                      *)
Format ==
    /\ edits < MaxEdits
    /\ text' = [text EXCEPT ![Active] = [i \in DOMAIN @ |-> [@[i] EXCEPT !.w = 2]]]
    /\ preview' = IF Previewing /\ card.path = Active
                  THEN [preview EXCEPT !.fresh = FALSE] ELSE preview
    /\ edits' = edits + 1 /\ formatted' = TRUE
    /\ UNCHANGED <<reply, phase, class, card, snapshot, exists, queue, typed, drafted>>

(* Another program creates the file a card proposes to create.             *)
FileAppears ==
    /\ edits < MaxEdits /\ NewPath \notin exists
    /\ card.path = NewPath
    /\ text' = [text EXCEPT ![NewPath] = <<UserLine>>]
    /\ exists' = exists \cup {NewPath}
    /\ edits' = edits + 1 /\ typed' = typed + 1
    /\ UNCHANGED <<reply, phase, class, card, snapshot, queue, preview, formatted, drafted>>

AcceptStale ==                                  \* mutant of Accept
    /\ phase = "reviewing" /\ Previewing
    /\ preview.creates => card.path \notin exists
    /\ text' = [text EXCEPT ![card.path] = preview.lines]
    /\ exists' = exists \cup {card.path}
    /\ preview' = Nothing
    /\ queue' = Tail(queue)
    /\ phase' = IF Len(queue) = 1 THEN "over" ELSE "reviewing"
    /\ UNCHANGED <<reply, class, card, snapshot, edits, typed, formatted, drafted>>

(* M.accept: only a fresh draft becomes the buffer, a new file only when   *)
(* its path is still free; the daemon answers with the next queued hunk.   *)
Accept ==
    /\ phase = "reviewing" /\ Previewing
    /\ preview.fresh
    /\ preview.creates => card.path \notin exists
    /\ text' = [text EXCEPT ![card.path] = preview.lines]
    /\ exists' = exists \cup {card.path}
    /\ preview' = Nothing
    /\ queue' = Tail(queue)
    /\ phase' = IF Len(queue) = 1 THEN "over" ELSE "reviewing"
    /\ UNCHANGED <<reply, class, card, snapshot, edits, typed, formatted, drafted>>

(* The user closes the draft's window or wipes its buffer; the card can be *)
(* shown again from the review's controls.                                 *)
CloseDraft ==
    /\ phase = "reviewing" /\ Previewing
    /\ preview' = Nothing
    /\ UNCHANGED <<reply, phase, class, card, snapshot, text, exists, queue, edits, typed,
                   formatted, drafted>>

(* M.reject, or a reply written instead of a decision: the draft and the   *)
(* rest of the queue are discarded.                                        *)
Discard ==
    /\ phase = "reviewing" /\ preview # Nothing
    /\ phase' = "over" /\ preview' = Nothing /\ queue' = <<>>
    /\ drafted' = TRUE
    /\ UNCHANGED <<reply, class, card, snapshot, text, exists, edits, typed, formatted>>

Next ==
    \/ Draft \/ ReadFile \/ ReadFails
    \/ Show \/ CloseDraft \/ EditDraft \/ Accept \/ Discard
    \/ Format \/ FileAppears
    \/ \E at \in 0 .. Len(text[Active]) : UserEdit(at)

Spec == Init /\ [][Next]_vars

----------------------------------------------------------------------------
(* Properties.                                                             *)

Lines == [t : STRING, w : 0 .. 2]

TypeOK ==
    /\ reply \in Replies
    /\ phase \in {"drafting", "reading", "reviewing", "refused", "over"}
    /\ (phase = "refused") = (class # None)
    /\ (phase = "reviewing") = (queue # <<>>)
    /\ (preview # Nothing) => phase = "reviewing"
    /\ \A p \in Paths : \A i \in DOMAIN text[p] : text[p][i] \in Lines
    /\ edits \in 0 .. MaxEdits /\ typed \in 0 .. edits

Texts(lines) == {lines[i].t : i \in DOMAIN lines}
SourceTexts == Texts(reply.source)
Distinct(lines) == Cardinality(Texts(lines)) = Len(lines)

(* Everything was accepted as proposed and nothing else touched the file.  *)
Undisturbed == phase = "over" /\ ~drafted /\ edits = 0

(* A batch accepted hunk by hunk, in whatever order the queue has, makes   *)
(* the file the reply meant, when the lines of the file tell their places  *)
(* apart: splitting, relocation and the drift of line numbers after every  *)
(* accepted hunk neither move nor lose a change (split_hunk_change_runs,   *)
(* normalize_card, apply.resolve_start).                                   *)
BatchIsExact ==
    Undisturbed /\ Distinct(reply.source) => text[card.path] = reply.target

(* What the code promises of every file: a hunk lands where its context    *)
(* was, or is refused.                                                     *)
AppliedIsExact ==
    Undisturbed /\ reply.flaw = "none" /\ reply.excerpt.lines = reply.source
        => text[card.path] = reply.target

(* A slip that is mechanical (wrong counts, drifted whitespace, a fence, a *)
(* header of the same file, "./" before the path) never costs a retry when *)
(* the excerpt shows the file and the batch is within its limits, however  *)
(* the changes are spread over hunks.                                      *)
WithinLimits(hunks) ==
    /\ \A i \in DOMAIN hunks :
           /\ Old(hunks[i].lines) # <<>>
           /\ Cardinality(Changed(hunks[i].lines)) <= MaxChangedLines
    /\ FoldSeq(LAMBDA h, n : n + Cardinality(RunStarts(h.lines)), 0, hunks)
           <= MaxReviewHunks

SlipsAreRepaired ==
    (/\ reply.flaw \in {"none", "counts", "drift", "fenced", "header", "dot"}
     /\ reply.excerpt.lines = reply.source /\ reply.source # <<>>
     /\ WithinLimits(reply.hunks))
    => phase # "refused"

(* What the changelog promises beyond that: a git prefix on the path.      *)
GitPrefixIsRepaired ==
    (/\ reply.flaw = "git"
     /\ reply.excerpt.lines = reply.source /\ reply.source # <<>>
     /\ WithinLimits(reply.hunks))
    => phase # "refused"

(* Nothing the user types or reindents during a review is lost to a draft  *)
(* made before: accept only writes a draft of the present file.            *)
UserEditsSurvive ==
    /\ TypeOK
    /\ typed = Len(SelectSeq(text[Active] \o text[NewPath], LAMBDA l : l = UserLine))
    /\ formatted => \A i \in DOMAIN text[Active] :
                      text[Active][i].t \in SourceTexts => text[Active][i].w = 2

(* No hunk is reviewed before one of the batch that declares what it uses, *)
(* unless they use each other (PatchCoherence::order_review_cards).        *)
Acyclic(hunks) ==
    \E rank \in [DOMAIN hunks -> DOMAIN hunks] :
        \A i, j \in DOMAIN hunks : Feeds(hunks, i, j) => rank[i] < rank[j]

ProducersComeFirst ==
    Acyclic(card.hunks) =>
        \A i, j \in DOMAIN queue : i < j => ~Feeds(queue, j, i)

=============================================================================

------------------------------- MODULE Context -------------------------------
(***************************************************************************)
(* What a model is shown of the project (loopbiotic_context): the index of *)
(* its files, kept between turns and read again in one pass when it is old *)
(* or a patch was applied; and a turn's excerpts, the primary one around   *)
(* the cursor and the ranked fragments that fit beside it.                 *)
(*                                                                         *)
(* A file holds a text: lines, or bytes that are no text.  A line is what  *)
(* ranking tells apart: the terms in it and those it defines, the paths    *)
(* its import names, whether it opens a definition, and its size.  Files   *)
(* change at any time, in the middle of a pass too.  Every write leaves    *)
(* its own modification time and length.                                   *)
(***************************************************************************)
EXTENDS Integers, Sequences, FiniteSets, SequencesExt

CONSTANTS
    Walk,           \* the project's paths in the order they are collected
    Skipped,        \* those under an excluded directory or of another kind
    TestPaths,      \* those that look like tests
    PathTerms,      \* the terms in a path
    PathCost,       \* the tokens of a path
    Compound,       \* terms with _ or -
    Length,         \* of a term
    FileTexts,      \* what a write may leave
    Projects,       \* what the files hold at the start
    Plans,          \* sequences of calls: with a query (the buffer, the prompt, ...)
                    \* and a policy (ContextPolicy)
    MaxTerms,
    MaxEdits        \* bound on writes from outside

VARIABLES
    plan,       \* the calls there will be
    disk,       \* per path, what it held so far: the last is what it holds
    index,      \* ProjectIndex.files
    recent,     \* last_refresh is younger than cache_ttl_ms
    pass,       \* the call of optimize under way
    bundle,     \* what the last call returned
    since,      \* history: the first write per path the bundle must know of
    reported    \* history: the last one told by the editor

contextVars == <<plan, disk, index, recent, pass, bundle, since, reported>>

Absent == [kind |-> "absent"]
Held(p) == disk[p][Len(disk[p])]
IsText(text) == text.kind \in {"text", "large"}
Idle == [step |-> "idle"]
IndexedPaths == DOMAIN index
----------------------------------------------------------------------------
(* Sizes and windows.  Windows are <<first, after>> offsets, as slices.    *)

(* estimate_tokens: of lines joined by newlines.                           *)
Estimate(lines) ==
    LET sum(of(_)) == FoldLeft(LAMBDA n, line : n + of(line), 0, lines)
        chars == sum(LAMBDA line : line.chars + 1) - (IF lines = <<>> THEN 0 ELSE 1)
        words == sum(LAMBDA line : line.count)
    IN  Max({(chars + 3) \div 4, words, 1})

Minus(m, n) == IF m > n THEN m - n ELSE 0
Slice(lines, w) == SubSeq(lines, w[1] + 1, w[2])

(* The two ways to widen a window, the shorter side first.                 *)
Widened(w, cursor, total) ==
    LET before == IF w[1] > 0 THEN <<<<w[1] - 1, w[2]>>>> ELSE <<>>
        after  == IF w[2] < total THEN <<<<w[1], w[2] + 1>>>> ELSE <<>>
    IN  IF cursor - w[1] <= w[2] - (cursor + 1) THEN before \o after ELSE after \o before

TrimPrimary(lines, cursor, budget) ==
    LET total == Len(lines)
        at == Min({cursor, total - 1})
        grown[w \in (0 .. total) \X (0 .. total)] ==
            LET fits == SelectSeq(Widened(w, at, total),
                                  LAMBDA v : Estimate(Slice(lines, v)) <= budget)
            IN  IF fits = <<>> THEN w ELSE grown[Head(fits)]
    IN  IF Estimate(lines) <= budget \/ lines = <<>> THEN <<0, total>>
        ELSE grown[<<at, at + 1>>]

(* The lines of a fragment around line "centre".                           *)
SnippetBounds(total, centre, requested) ==
    LET count == Min({Max({requested, 3}), total})
        end == Min({Minus(centre, count \div 2) + count, total})
    IN  <<end - count, end>>
----------------------------------------------------------------------------
(* The terms of a query, with their weights.                               *)

Terms(q, primary) ==
    LET last == Len(primary.lines)
        near == Slice(primary.lines, <<Min({Minus(q.cursor, primary.first + 2), last}),
                                       Min({Minus(q.cursor, primary.first) + 3, last})>>)
        about == UNION {near[i].terms : i \in DOMAIN near}
        term(w, weight, prompted) == [word |-> w, weight |-> weight, prompted |-> prompted]
    IN  {term(w, 14, TRUE) : w \in q.prompt}
        \union {term(w, 9, FALSE) : w \in q.selection \ q.prompt}
        \union {term(w, 5, FALSE) : w \in about \ (q.selection \union q.prompt)}

(* The heaviest and longest are kept; a map decides between equals.        *)
QueryTerms(q, primary) ==
    LET all == Terms(q, primary)
        outweighs(t, u) ==
            \/ t.weight > u.weight
            \/ t.weight = u.weight /\ Length[t.word] >= Length[u.word]
    IN  {T \in SUBSET all :
            /\ Cardinality(T) = Min({MaxTerms, Cardinality(all)})
            /\ \A t \in T, u \in all \ T : outweighs(t, u)}

Frequency(word) ==
    Cardinality({p \in IndexedPaths :
        word \in PathTerms[p] \/ \E i \in DOMAIN index[p].lines :
                                     word \in index[p].lines[i].terms})

(* adjusted_term_weight: rare terms count more, common ones less.          *)
Weight(t) ==
    LET frequency == Max({Frequency(t.word), 1})
        rarity ==
            IF frequency = 1 THEN t.weight + 18
            ELSE IF frequency <= 3 THEN t.weight + 12
            ELSE IF frequency <= 8 THEN t.weight + 5
            ELSE IF frequency * 4 > Max({Cardinality(IndexedPaths), 1})
                 THEN Max({t.weight \div 3, 2})
            ELSE t.weight
    IN  rarity + (IF t.prompted /\ t.word \in Compound THEN 20 ELSE 0)

DefinitionBonus(t) ==
    IF /\ Length[t.word] >= 5
       /\ Frequency(t.word) <= Max({Cardinality(IndexedPaths) \div 10, 3})
    THEN 55 ELSE 12
----------------------------------------------------------------------------
(* The import graph.                                                       *)

Dependencies(lines) == UNION {lines[i].imports : i \in DOMAIN lines}
Imports(p) == Dependencies(index[p].lines)

GraphDistance(current, deps, target) ==
    LET touches(p) == p \in deps \/ current \in Imports(p)
    IN  IF touches(target) THEN 1
        ELSE IF \E middle \in IndexedPaths \ {current, target} :
                    touches(middle) /\ (target \in Imports(middle) \/ middle \in Imports(target))
        THEN 2 ELSE 3
----------------------------------------------------------------------------
(* The best fragment of a file.  An offer is a line with a score; each     *)
(* signal replaces what the ones before it found, or only outbids it.      *)

NoOffer == [line |-> 0, score |-> -1, kind |-> "none"]
Offer(line, score, kind) == [line |-> line, score |-> score, kind |-> kind]
Outbid(best, offer) == IF offer.score > best.score THEN offer ELSE best

InPrimary(q, p, i) == p = q.file /\ i >= q.primary[1] /\ i < q.primary[2]
FirstLine(found, otherwise) == IF found = {} THEN otherwise ELSE Min(found) - 1
FirstDefinition(p) ==
    FirstLine({i \in DOMAIN index[p].lines : index[p].lines[i].item}, 0)

(* The prompt names the path, or only its last part.                       *)
PathSignal(q, p, best) ==
    LET words == {t.word : t \in q.terms}
        about == {i \in DOMAIN index[p].lines : index[p].lines[i].terms \intersect words # {}}
        line == FirstLine(about, FirstDefinition(p))
        naming == SelectSeq(q.mentions, LAMBDA m : p \in m.exact \union m.basename)
    IN  IF naming = <<>> \/ InPrimary(q, p, line) THEN best
        ELSE Offer(line, IF p \in Last(naming).exact THEN 340 ELSE 300, "reference")

GraphSignal(q, p, best) ==
    LET distance == GraphDistance(q.file, q.deps, p)
        importing == {i \in DOMAIN index[p].lines : q.file \in index[p].lines[i].imports}
        line == FirstLine(importing, FirstDefinition(p))
    IN  IF distance > 2 THEN best
        ELSE Offer(line, IF distance = 1 THEN 95 ELSE 48, "dependency")

(* A location of the editor's language server, clamped to the file.        *)
ClampedLine(p, line) == Min({line, Len(index[p].lines)}) - 1
HintScore(kind) ==
    CASE kind \in {"definition", "declaration"} -> 240
      [] kind = "type" -> 225
      [] kind = "implementation" -> 210
      [] kind = "reference" -> 165
HintSignal(q, p, best) ==
    LET about == SelectSeq(q.hints, LAMBDA h :
                     h.file = p /\ h.line > 0 /\ ~InPrimary(q, p, ClampedLine(p, h.line)))
        hint == Last(about)
    IN  IF about = <<>> THEN best
        ELSE Offer(ClampedLine(p, hint.line), HintScore(hint.kind),
                   IF hint.kind = "reference" THEN "reference" ELSE "definition")

(* Diagnostics, those near the cursor first; also inside the primary.      *)
DiagnosticSignal(q, p, best) ==
    LET severity(d) == CASE d.severity = "error" -> 30 [] d.severity = "warning" -> 15 [] OTHER -> 0
        away(d) == Max({d.line, q.cursor}) - Min({d.line, q.cursor})
        near(d) == IF p # q.file THEN 0
                   ELSE IF away(d) <= 2 THEN 80
                   ELSE IF away(d) <= 10 THEN 50
                   ELSE IF away(d) <= 30 THEN 20 ELSE 0
        offer(d) == Offer(ClampedLine(p, d.line), 190 + severity(d) + near(d), "diagnostic")
    IN  FoldLeft(LAMBDA b, d : IF d.file = p /\ d.line > 0 THEN Outbid(b, offer(d)) ELSE b,
                 best, q.diagnostics)

(* What a line's own words are worth: the first of the best lines.         *)
LineScore(q, p, line) ==
    LET matched == {t \in q.terms : t.word \in line.terms}
        worth(t) == Weight(t) + (IF t.word \in line.defines THEN DefinitionBonus(t) ELSE 0)
        words == MapThenSumSet(worth, matched)
        distance == GraphDistance(q.file, q.deps, p)
        graph == CASE distance = 1 -> 42 [] distance = 2 -> 18 [] OTHER -> 0
    IN  IF words = 0 THEN -1
        ELSE words + graph + (IF p \in TestPaths THEN 8 ELSE 0)
                   + (IF line.imports # {} THEN 6 ELSE 0)
LineKind(q, p, line) ==
    IF \E t \in q.terms : t.word \in line.terms \intersect line.defines THEN "definition"
    ELSE IF p \in TestPaths THEN "test"
    ELSE IF line.imports # {} THEN "dependency" ELSE "reference"
LineSignal(q, p, best) ==
    LET lines == index[p].lines
        offers == {Offer(i - 1, LineScore(q, p, lines[i]), LineKind(q, p, lines[i])) :
                       i \in {j \in DOMAIN lines : ~InPrimary(q, p, j - 1)}}
        top == {o \in offers : \A other \in offers : other.score <= o.score}
    IN  IF offers = {} THEN best
        ELSE Outbid(best, CHOOSE o \in top : \A other \in top : o.line <= other.line)

BestOffer(q, p) ==
    LineSignal(q, p, DiagnosticSignal(q, p, HintSignal(q, p,
        GraphSignal(q, p, PathSignal(q, p, NoOffer)))))

Candidate(q, p, policy) ==
    LET best == BestOffer(q, p)
        w == SnippetBounds(Len(index[p].lines), best.line, policy.snippet)
        text == Slice(index[p].lines, w)
    IN  [file |-> p, at |-> best.line, window |-> w, kind |-> best.kind, score |-> best.score,
         lines |-> text, tokens |-> Estimate(text) + PathCost[p] + 12]

Candidates(q, policy) ==
    {Candidate(q, p, policy) :
        p \in {f \in IndexedPaths : index[f].lines # <<>> /\ BestOffer(q, f).score >= 0}}
----------------------------------------------------------------------------
(* Packing: the best first; what does not fit is passed over.              *)

PathPosition(p) == CHOOSE i \in DOMAIN Walk : Walk[i] = p
Precedes(a, b) ==
    \/ a.score > b.score
    \/ a.score = b.score /\ a.tokens < b.tokens
    \/ a.score = b.score /\ a.tokens = b.tokens /\ PathPosition(a.file) < PathPosition(b.file)

Available(policy, primaryTokens) ==
    Minus(Minus(policy.total, policy.reserved), primaryTokens)
TokensOf(artifacts) == FoldLeft(LAMBDA n, a : n + a.tokens, 0, artifacts)

Packed(ranked, policy, available) ==
    LET pack(chosen, c) ==
            IF /\ Len(chosen) < policy.maxArtifacts
               /\ c.tokens <= Minus(available, TokensOf(chosen))
               /\ c.score >= policy.minScore
            THEN Append(chosen, c) ELSE chosen
    IN  FoldLeft(pack, <<>>, ranked)
----------------------------------------------------------------------------
(* A call of optimize.  The engine makes one at a time.                    *)

(* Files change: the editor saves, a file operation, another program.      *)
Edit(p, text) ==
    /\ MapThenSumSet(LAMBDA f : Len(disk[f]) - 1, DOMAIN disk) < MaxEdits
    /\ text # Held(p)
    /\ disk' = [disk EXCEPT ![p] = Append(@, text)]
    /\ UNCHANGED <<plan, index, recent, pass, bundle, since, reported>>

TtlPasses ==
    /\ recent /\ pass = Idle
    /\ recent' = FALSE
    /\ UNCHANGED <<plan, disk, index, pass, bundle, since, reported>>

Now == [p \in DOMAIN disk |-> Len(disk[p])]

(* A reported patch: what it changed leaves the index, and the index is    *)
(* old whatever its age.                                                   *)
(* Mutant: only what changed is read again.                                *)
InvalidatedOnly(changed) ==
    /\ index' = [p \in IndexedPaths \ changed |-> index[p]]
    /\ recent' = recent
Invalidated(changed) ==
    /\ index' = [p \in IndexedPaths \ changed |-> index[p]]
    /\ recent' = FALSE

(* collect_files: one glance at every directory; big files are left out.   *)
CollectedFiles ==
    SelectSeq(Walk, LAMBDA p : p \in DOMAIN disk \ Skipped /\ Held(p).kind \in {"text", "binary"})

(* The pass over the files, or none while the index is young.              *)
Refresh(q, policy, young) ==
    IF young \/ ~policy.enabled
    THEN [step |-> "rank", query |-> q, policy |-> policy, todo |-> <<>>, seen |-> {}]
    ELSE [step |-> "stat", query |-> q, policy |-> policy, seen |-> {},
          todo |-> SubSeq(CollectedFiles, 1, Min({policy.maxFiles, Len(CollectedFiles)}))]

(* A turn begins, or the editor reported on a patch ("applied").           *)
Gather(applied, changed) ==
    /\ pass = Idle /\ bundle.calls < Len(plan)
    /\ IF applied THEN Invalidated(changed) ELSE UNCHANGED <<index, recent>>
    /\ LET next == plan[bundle.calls + 1]
       IN  pass' = Refresh(next.query, next.policy, recent')
    /\ since' = IF applied \/ ~recent THEN Now ELSE since
    /\ reported' = [p \in DOMAIN disk |->
                       IF p \in changed THEN Len(disk[p]) ELSE reported[p]]
    /\ UNCHANGED <<plan, disk, bundle>>

(* The metadata of the next file, and whether it is as the index knows it. *)
Stat ==
    /\ pass.step = "stat" /\ pass.todo # <<>>
    /\ LET p == Head(pass.todo)
           next == [pass EXCEPT !.todo = Tail(@)]
       IN  pass' =
             IF Held(p) = Absent THEN next
             ELSE IF p \in IndexedPaths /\ index[p].modified = Len(disk[p])
             THEN [next EXCEPT !.seen = @ \union {p}]
             ELSE [step |-> "read", query |-> pass.query, policy |-> pass.policy,
                   seen |-> pass.seen \union {p}, todo |-> pass.todo, modified |-> Len(disk[p])]
    /\ UNCHANGED <<plan, disk, index, recent, bundle, since, reported>>

(* Its text, by then perhaps another one.  What is no text leaves what the *)
(* index had.                                                              *)
ReadText ==
    /\ pass.step = "read"
    /\ LET p == Head(pass.todo)
       IN  index' = IF IsText(Held(p))
                    THEN [f \in IndexedPaths \union {p} |->
                            IF f = p THEN [modified |-> pass.modified, lines |-> Held(p).lines]
                            ELSE index[f]]
                    ELSE index
    /\ pass' = [step |-> "stat", query |-> pass.query, policy |-> pass.policy,
                seen |-> pass.seen, todo |-> Tail(pass.todo)]
    /\ UNCHANGED <<plan, disk, recent, bundle, since, reported>>

(* What was not seen leaves the index; then the fragments are ranked.      *)
EndOfPass ==
    /\ pass.step = "stat" /\ pass.todo = <<>>
    /\ index' = [p \in IndexedPaths \intersect pass.seen |-> index[p]]
    /\ recent' = TRUE
    /\ pass' = [pass EXCEPT !.step = "rank"]
    /\ UNCHANGED <<plan, disk, bundle, since, reported>>

(* The rest of optimize.                                                   *)
RankAndPack ==
    /\ pass.step = "rank"
    /\ LET q == pass.query
           policy == pass.policy
           w == IF policy.enabled
                THEN TrimPrimary(q.buffer, Minus(q.cursor, q.first), Max({policy.primary, 1}))
                ELSE <<0, Len(q.buffer)>>
           primary == [first |-> q.first + w[1], lines |-> Slice(q.buffer, w)]
           asked(T) ==
               [terms |-> T, deps |-> Dependencies(primary.lines), file |-> q.file,
                primary |-> <<primary.first - 1, primary.first - 1 + Len(primary.lines)>>,
                cursor |-> q.cursor, mentions |-> q.mentions, hints |-> q.hints,
                diagnostics |-> q.diagnostics]
           spent == Estimate(primary.lines)
       IN  \E T \in QueryTerms(q, primary) :
             LET ranked == IF policy.enabled
                           THEN SetToSortSeq(Candidates(asked(T), policy), Precedes)
                           ELSE <<>>
             IN  bundle' = [query |-> q, policy |-> policy, window |-> w, spent |-> spent,
                            ranked |-> ranked, calls |-> bundle.calls + 1,
                            artifacts |-> Packed(ranked, policy, Available(policy, spent))]
    /\ pass' = Idle
    /\ UNCHANGED <<plan, disk, index, recent, since, reported>>
----------------------------------------------------------------------------
ContextInit ==
    /\ plan \in Plans
    /\ \E holds \in Projects : disk = [p \in DOMAIN holds |-> <<holds[p]>>]
    /\ index = <<>> /\ recent = FALSE /\ pass = Idle
    /\ bundle = [calls |-> 0, artifacts |-> <<>>]
    /\ since = Now /\ reported = Now

ContextNext ==
    \/ \E p \in DOMAIN disk, text \in FileTexts : Edit(p, text)
    \/ TtlPasses
    \/ Gather(FALSE, {})
    \/ \E changed \in SUBSET DOMAIN disk : Gather(TRUE, changed)
    \/ Stat
    \/ ReadText
    \/ EndOfPass
    \/ RankAndPack
----------------------------------------------------------------------------
(* What the index has for a file was in it no earlier than the metadata    *)
(* says: metadata that still matches vouches for the lines, though the     *)
(* file may change between the two reads.                                  *)
IndexIsHonest ==
    \A p \in IndexedPaths : \E k \in index[p].modified .. Len(disk[p]) :
        IsText(disk[p][k]) /\ disk[p][k].lines = index[p].lines

(* Every fragment was in its file when the last pass began or later; after *)
(* a reported patch that is a pass of its own.  Only a file that is no     *)
(* text any more, or disappears under the pass, is shown as it was, and    *)
(* not if the patch changed it.                                            *)
Shows(a, text) ==
    IsText(text) /\ a.window[2] <= Len(text.lines) /\ Slice(text.lines, a.window) = a.lines
FragmentsAreFresh ==
    \A i \in DOMAIN bundle.artifacts :
        LET a == bundle.artifacts[i]
            p == a.file
            once(from, Test(_)) == \E k \in from .. Len(disk[p]) : Test(disk[p][k])
            shown(text) == Shows(a, text)
        IN  \/ once(since[p], shown)
            \/ /\ once(reported[p], shown)
               /\ \/ once(since[p], LAMBDA text : text.kind = "binary")
                  \/ once(since[p] + 1, LAMBDA text : text = Absent)

(* The fragments stay inside the budget the excerpt leaves, and one that   *)
(* is left out is too weak, or had no room beside the better ones.         *)
BudgetIsKept ==
    LET policy == bundle.policy
        available == Available(policy, bundle.spent)
        chosen == ToSet(bundle.artifacts)
        better(c) == SelectSeq(bundle.artifacts, LAMBDA a : Precedes(a, c))
    IN  /\ TokensOf(bundle.artifacts) <= available
        /\ \A c \in ToSet(bundle.ranked) : c \in chosen <=>
               /\ c.score >= policy.minScore
               /\ Len(better(c)) < policy.maxArtifacts
               /\ TokensOf(better(c)) + c.tokens <= available

(* The excerpt holds the cursor's line; it is within its budget unless it  *)
(* is that line alone, and a line more would not be.                       *)
ExcerptIsAtTheCursor ==
    LET q == bundle.query
        w == bundle.window
        budget == Max({bundle.policy.primary, 1})
        at == Min({Minus(q.cursor, q.first), Len(q.buffer) - 1})
    IN  bundle.policy.enabled =>
          /\ w[1] <= at /\ at < w[2]
          /\ Estimate(Slice(q.buffer, w)) <= budget \/ w = <<at, at + 1>>
          /\ \A v \in ToSet(Widened(w, at, Len(q.buffer))) : Estimate(Slice(q.buffer, v)) > budget

(* A fragment shows the line it was chosen for, and was not chosen for a   *)
(* line of the excerpt but for a diagnostic or the imports there.          *)
FragmentsShowTheirLine ==
    \A i \in DOMAIN bundle.artifacts :
        LET a == bundle.artifacts[i]
            first == bundle.query.first - 1 + bundle.window[1]
            after == bundle.query.first - 1 + bundle.window[2]
        IN  /\ a.window[1] <= a.at /\ a.at < a.window[2]
            /\ a.file = bundle.query.file /\ a.at >= first /\ a.at < after =>
                   a.kind \in {"diagnostic", "dependency"}

(* The context a turn is given is that of the project as it is: the index  *)
(* (index.rs) may be old only by its time to live, a reported patch        *)
(* included, and excerpt and fragments (lib.rs, rank.rs) are what the      *)
(* budgets allow.                                                          *)
ContextIsTrue ==
    /\ IndexIsHonest
    /\ pass = Idle /\ bundle.calls > 0 =>
          /\ FragmentsAreFresh
          /\ BudgetIsKept
          /\ ExcerptIsAtTheCursor
          /\ FragmentsShowTheirLine
=============================================================================

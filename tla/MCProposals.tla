---------------------------- MODULE MCProposals ----------------------------
EXTENDS Proposals

(* Replies to check: a small edit of a small file, written as one hunk or  *)
(* as one per change run, with more or less context, exact or spoilt.      *)
MCActive == <<"f">>
MCNewPath == <<"n">>

MCMentions == [t \in STRING |-> CASE t \in {"decl", "call"} -> {"x"}
                                  [] t = "typed" -> {"t", "z"}
                                  [] t \in {"import", "z"} -> {"z"}
                                  [] t \in {"odd", "even"} -> {"o", "e"}
                                  [] OTHER -> {}]
MCDeclares == [t \in STRING |-> CASE t = "decl" -> {"x"} [] t = "odd" -> {"o"}
                                  [] t = "typed" -> {"t"}
                                  [] t = "even" -> {"e"} [] OTHER -> {}]

Line(k, t) == [k |-> k, t |-> t, w |-> 0]

(* The whole file as a diff: ins puts an added line before line i.         *)
Script(source, del, ins) ==
    FlattenSeq([i \in 1 .. Len(source) + 1 |->
        (IF i \in DOMAIN ins THEN <<Line("add", ins[i])>> ELSE <<>>) \o
        (IF i > Len(source) THEN <<>>
         ELSE <<Line(IF i \in del THEN "del" ELSE "ctx", source[i])>>)])

HunkOf(script, from, to) ==
    LET before == SubSeq(script, 1, from - 1)
    IN Recount([old |-> 1 + Len(Old(before)), oldLen |-> 0,
                new |-> 1 + Len(New(before)), newLen |-> 0,
                lines |-> SubSeq(script, from, to)])

Cut(script, radius, joined) ==
    LET s == Ascending(RunStarts(script))
        e == Ascending(RunEnds(script))
        n == Len(s)
        Least(i) == IF i = 1 THEN 1 ELSE e[i - 1] + 1
        Most(i) == IF i = n THEN Len(script) ELSE s[i + 1] - 1
        From(i) == Max({s[i] - radius, Least(i)})
        To(i) == Min({e[i] + radius, Most(i)})
    IN IF joined THEN <<HunkOf(script, From(1), To(n))>>
       ELSE [i \in 1 .. n |-> HunkOf(script, From(i), To(i))]

Bare == [fences |-> "none", headers |-> <<>>]

Reply(source, start, script, radius, joined) ==
    LET lines == Content([i \in DOMAIN source |-> Line("ctx", source[i])]) IN
    [source |-> lines,
     excerpt |-> [start |-> start, lines |-> SubSeq(lines, start, Len(lines))],
     path |-> MCActive, envelope |-> Bare, hunks |-> Cut(script, radius, joined),
     target |-> Content(New(script)), flaw |-> "none"]

Drifted(lines) == [i \in DOMAIN lines |->
                      IF lines[i].k = "add" THEN lines[i] ELSE [lines[i] EXCEPT !.w = 1]]
Misquoted(lines) == [i \in DOMAIN lines |->
                      IF lines[i].k = "add" THEN lines[i] ELSE [lines[i] EXCEPT !.t = "?"]]

Spoilt(r, flaw) ==
    LET by == [r EXCEPT !.flaw = flaw]
        Each(Change(_)) == [by EXCEPT !.hunks = [i \in DOMAIN @ |-> Change(@[i])]]
    IN CASE flaw = "none" -> r
         [] flaw = "counts" -> Each(LAMBDA h : [h EXCEPT !.oldLen = @ + 1])
         [] flaw = "drift" -> Each(LAMBDA h : [h EXCEPT !.lines = Drifted(@)])
         [] flaw = "shift" -> Each(LAMBDA h : [h EXCEPT !.old = @ + 1, !.new = @ + 1])
         [] flaw = "above" -> Each(LAMBDA h : [h EXCEPT !.old = @ - 1, !.new = @ - 1])
         [] flaw = "delta" -> Each(LAMBDA h : [h EXCEPT !.new = 0])
         [] flaw = "misquote" -> Each(LAMBDA h : [h EXCEPT !.lines = Misquoted(@)])
         [] flaw = "empty" -> Each(LAMBDA h : [h EXCEPT !.lines = <<>>])
         [] flaw = "fenced" -> [by EXCEPT !.envelope.fences = "both"]
         [] flaw = "unmatched" -> [by EXCEPT !.envelope.fences = "unmatched"]
         [] flaw = "header" ->
                [by EXCEPT !.envelope.headers = << <<"a", "f">>, <<"b", "f">>, <<>> >>]
         [] flaw = "elsewhere" -> [by EXCEPT !.envelope.headers = << <<"b", "g">> >>]
         [] flaw = "prose" -> [by EXCEPT !.envelope.headers = << <<"?">> >>]
         [] flaw = "dot" -> [by EXCEPT !.path = <<".", "f">>]
         [] flaw = "git" -> [by EXCEPT !.path = <<"a", "f">>]

Flaws == {"none", "counts", "drift", "shift", "above", "delta", "misquote", "empty",
          "fenced", "unmatched", "header", "elsewhere", "prose", "dot", "git"}

Sources == {<<"a", "b", "c">>, <<"a", "a", "a">>, <<"a", "b", "a">>}
Pairs == {<<"call", "decl">>, <<"z", "import">>, <<"typed", "import">>, <<"odd", "even">>}

Insertions(n) ==
    {<<>>} \cup {(i :> "call") : i \in 1 .. n + 1}
    \cup {(i :> p[1]) @@ (j :> p[2]) : <<i, j, p>> \in
              {q \in (1 .. n) \X (2 .. n + 1) \X Pairs : q[1] < q[2]}}

Scripts(s) ==
    {Script(s, d, i) : <<d, i>> \in
        {q \in ({{}} \cup {{k} : k \in DOMAIN s}) \X Insertions(Len(s)) :
            q[1] \cup DOMAIN q[2] # {} /\ Cardinality(q[1]) + Cardinality(DOMAIN q[2]) <= 2}}

Exact ==
    UNION {{Reply(s, start, script, radius, joined) :
               script \in Scripts(s), start \in {1, 2}, radius \in {0, 1, 2},
               joined \in BOOLEAN} : s \in Sources}

(* One edit of each file, spoilt in every way.                             *)
Slips ==
    {Spoilt(Reply(s, start, Script(s, {2}, (4 :> "call")), radius, joined), flaw) :
        s \in Sources, start \in {1, 2}, radius \in {1, 2}, joined \in BOOLEAN,
        flaw \in Flaws}

Creation ==
    {[Reply(<<"a">>, 1, Script(<<>>, {}, (1 :> "decl")), 1, TRUE) EXCEPT !.path = MCNewPath]}

MCReplies == Exact \cup Slips \cup Creation

(* Trees and proposals about them; X and Y are the contents of files.      *)
MCTrees == {
    (<<"d">> :> Directory) @@ (<<"d", "x">> :> "X") @@ (<<"y">> :> "Y"),
    (<<"d">> :> Directory) @@ (<<"d", "x">> :> "X") @@ (<<"y">> :> "Y")
        @@ (<<"e">> :> Directory)}

Move(ops) == [kind |-> "move", ops |-> ops]
Op(from, to) == [from |-> from, to |-> to]
Create(to) == [kind |-> "create", to |-> to]

MCProposed == {
    Move(<<Op(<<"d", "x">>, <<"e", "g", "x">>)>>),
    Move(<<Op(<<"d", "x">>, <<"e", "x">>), Op(<<"y">>, <<"e", "g", "y">>)>>),
    Move(<<Op(<<"d">>, <<"z">>), Op(<<"y">>, <<"e">>)>>),
    Move(<<Op(<<"y">>, <<"d", "x", "y">>)>>),
    Move(<<Op(<<"d">>, <<"z">>), Op(<<"d", "x">>, <<"g">>)>>),
    Move(<<Op(<<"d", "x">>, <<"z", "x">>), Op(<<"y">>, <<"z">>)>>),
    Move(<<Op(<<"y">>, <<"z">>), Op(<<"z">>, <<"g">>)>>),
    Create(<<"e", "g", "n">>), Create(<<"d", "n">>), Create(<<"y">>)}

MCUniverse == {<<"d", "x">>, <<"y">>, <<"z">>, <<"e">>, <<"e", "g">>, <<"e", "x">>}
=============================================================================

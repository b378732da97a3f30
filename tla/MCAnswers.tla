------------------------------ MODULE MCAnswers ------------------------------
(***************************************************************************)
(* Model checking one model turn and the parts a question and its answer   *)
(* go through, each by itself: what the model is shown of the project      *)
(* (Context), what it may read (ReadTools), the stream of its answer       *)
(* (Streams), the card the answer becomes (Cards), and the loop that asks  *)
(* until a card is good enough (TurnLoop).                                 *)
(***************************************************************************)
EXTENDS TurnLoop, Streams, Cards, ReadTools, Context, TLC

VARIABLE study      \* the part that is looked at

MCFiles == {"a.rs", "b.rs"}

(***************************************************************************)
(* Instances.                                                              *)
(***************************************************************************)
Value(f, n) == <<Key(f)>> \o [i \in 1 .. n |-> <<"char", f, i>>] \o <<Quote>>
Submit(arguments) == [name |-> "submit_card", arguments |-> arguments]
ReadCall(f) == [name |-> "read", arguments |-> Value(f, 0)]
MCReplies ==
    {[calls |-> <<Submit(Value("claim", 1)), ReadCall("path")>>, text |-> <<>>],
     [calls |-> <<>>,
      text |-> Value("explanation", 2) \o Value("title", 1)],
     [calls |-> <<ReadCall("path")>>, text |-> Value("diff", 0)]}

(* Documents: good ones with anything around them, and good ones with one  *)
(* field that is wrong.                                                    *)
MCModes == {"fix", "explain", "investigate"}
Doc(kind, fields) == [kind |-> kind, fields |-> fields]
Written(doc, form, prose, fenced) ==
    [doc |-> doc, form |-> form, prose |-> prose, fenced |-> fenced]

GoodOps ==
    {Doc(kind, [f \in DOMAIN AgentOp[kind] |-> IF f = "patches" THEN "hunks" ELSE "good"]) :
        kind \in DOMAIN AgentOp}
GoodCards ==
    {Doc(kind, [f \in DOMAIN CardFields(kind) |-> IF f = "patches" THEN "diff" ELSE "good"]) :
        kind \in Kinds}

Wrong(f) ==
    CASE f \in {"evidence", "next", "location"} -> {"null", "text", "fileless", "zero"}
      [] f = "patches" -> {"empty", "diff", "hunks", "unnumbered", "newline"}
      [] f = "options" -> {"null", "empty", "labels", "unlabelled"}
      [] f \in {"file_ops", "changed_files", "actions"} -> {"null", "empty"}
      [] OTHER -> {"null", "blank"}
Faulty(doc) ==
    UNION {{Doc(doc.kind, [doc.fields EXCEPT ![f] = v]) : v \in Wrong(f)}
               \union {Doc(doc.kind, [g \in DOMAIN doc.fields \ {f} |-> doc.fields[g]])} :
           f \in DOMAIN doc.fields}

(* Prose before an answer, and whether it is fenced. *)
Surrounds ==
    {<<<<>>, FALSE>>, <<<<"quote", "x", "quote">>, FALSE>>, <<<<"quote">>, FALSE>>,
     <<<<"}">>, FALSE>>, <<<<>>, TRUE>>, <<<<"quote">>, TRUE>>}
MCDocuments ==
    {Written(doc, "op", <<>>, FALSE) : doc \in UNION {Faulty(d) : d \in GoodOps}}
    \union {Written(doc, "kind", <<>>, FALSE) :
               doc \in GoodCards \union UNION {Faulty(d) : d \in GoodCards}}
    \union {Written(doc, form, surrounds[1], surrounds[2]) :
               doc \in GoodOps, form \in {"op", "kind", "bare", "carded"},
               surrounds \in Surrounds}

(* A workspace with a directory that may be ignored and a link that may    *)
(* lead out of it, or in a circle.                                         *)
MCRoot == <<"ws">>
MCNameOrder == <<"a", "b", "etc", "link", "target", "ws">>
Dir == [kind |-> "dir"]
File(lines) == [kind |-> "file", size |-> "small", utf8 |-> TRUE, lines |-> lines]
Link(to) == [kind |-> "link", to |-> to]
FileKinds == {File(<<"hit", "plain", "hit">>), File(<<"wide", "hit">>),
          [File(<<"hit">>) EXCEPT !.size = "big"]}
MCTrees ==
    {   (<<>> :> Dir) @@ (<<"etc">> :> File(<<"hit">>)) @@ (MCRoot :> Dir)
     @@ (<<"ws", "a">> :> f) @@ (<<"ws", d>> :> Dir) @@ (<<"ws", d, "a">> :> g)
     @@ (<<"ws", d, "b">> :> File(<<"hit", "hit">>)) @@ (<<"ws", "link">> :> Link(to)) :
        f \in FileKinds, g \in FileKinds, d \in {"b", "target"},
        to \in {<<"etc">>, <<>>, <<"ws", "b">>}}
Paths ==
    [absolute : {FALSE},
     parts : {<<".">>, <<"a">>, <<"b">>, <<"b", "a">>, <<"target", "b">>, <<"link">>,
              <<"link", "etc">>, <<"link", "ws", "a">>, <<"..", "etc">>, <<"etc">>}]
    \union [absolute : {TRUE}, parts : {<<"etc">>}]
MCToolCalls ==
    [tool : {"read"}, path : Paths, start : {<<>>, <<0>>, <<2>>, <<4>>},
     end : {<<>>, <<0>>, <<2>>, <<5>>}]
    \union [tool : {"search"}, path : Paths, query : {"hit", "blank"},
            limit : {<<>>, <<0>>, <<2>>}]
    \union [tool : {"list"}, path : Paths]
    \union {[tool |-> "submit_card"]}

(***************************************************************************)
(* A small project.  main imports users, its test does too; target is a    *)
(* build directory with a copy.                                            *)
(***************************************************************************)
Line(terms, defines, imports, item, chars, count) ==
    [terms |-> terms, defines |-> defines, imports |-> imports, item |-> item,
     chars |-> chars, count |-> count]
Holding(lines) == [kind |-> "text", lines |-> lines]
PlainLine == Line({}, {}, {}, FALSE, 8, 1)
WideLine == Line({"user"}, {}, {}, FALSE, 60, 3)
CallLine == Line({"register_user", "user"}, {}, {}, FALSE, 16, 1)
Definition == Line({"register_user"}, {"register_user"}, {}, TRUE, 20, 2)
UseUsers == Line({"users"}, {}, {"users"}, FALSE, 9, 2)
UseStd == Line({"std"}, {}, {"std"}, FALSE, 7, 2)
Main == <<UseUsers, PlainLine, CallLine, PlainLine>>
Users == <<UseStd, PlainLine, Definition, WideLine, PlainLine, CallLine>>
UsersNow == <<PlainLine, Definition, CallLine>>

MCWalk == <<"main", "target", "users", "users_test">>
MCPaths == ToSet(MCWalk)
MCPathTerms == [p \in MCPaths |-> IF p \in {"users", "target"} THEN {"users"} ELSE {}]
MCPathCost == [p \in MCPaths |-> 2]
MCLength == ("register_user" :> 13) @@ ("user" :> 4) @@ ("users" :> 5) @@ ("std" :> 3)
MCFileTexts ==
    {Holding(Users), Holding(UsersNow), [kind |-> "binary"], [kind |-> "absent"],
     [kind |-> "large", lines |-> <<WideLine>>]}
MCProjects ==
    {<<>>,
     ("main" :> Holding(Main)) @@ ("users" :> Holding(Users)) @@ ("target" :> Holding(Users))
     @@ ("users_test" :> Holding(<<UseUsers, CallLine>>))}

(* A plain call twice, while files change; and every query once.           *)
Excerpt(lines, first, cursor) == [buffer |-> lines, first |-> first, cursor |-> cursor]
Excerpts ==
    {Excerpt(Main, 1, 3), Excerpt(Main, 3, 1), Excerpt(<<WideLine>> \o Main, 1, 1),
     Excerpt(Main \o <<WideLine>>, 1, 9)}
Prompts ==
    {<<{}, {}>>, <<{"register_user"}, {"users"}>>, <<{"user", "std"}, {"user"}>>}
Mention(exact, basename) == [exact |-> exact, basename |-> basename]
Mentions ==
    {<<>>, <<Mention({"users"}, {"users"})>>,
     <<Mention({"users"}, {"users"}), Mention({}, {"users", "main"})>>}
Hint(file, line, kind) == [file |-> file, line |-> line, kind |-> kind]
HintLists ==
    {<<>>, <<Hint("users", 3, "definition"), Hint("users", 9, "reference")>>,
     <<Hint("main", 1, "type"), Hint("users_test", 0, "type")>>}
Diagnostic(file, line, severity) == [file |-> file, line |-> line, severity |-> severity]
DiagnosticLists ==
    {<<>>, <<Diagnostic("main", 3, "error"), Diagnostic("users_test", 0, "error"),
             Diagnostic("users", 1, "warning"), Diagnostic("users_test", 9, "hint")>>}
Query(excerpt, prompt, mentions, hints, diagnostics) ==
    [file |-> "main", buffer |-> excerpt.buffer, first |-> excerpt.first,
     cursor |-> excerpt.cursor, prompt |-> prompt[1], selection |-> prompt[2],
     mentions |-> mentions, hints |-> hints, diagnostics |-> diagnostics]
Policy ==
    [enabled |-> TRUE, primary |-> 20, total |-> 100, reserved |-> 10, snippet |-> 3,
     maxArtifacts |-> 3, minScore |-> 1, maxFiles |-> 4]
MCPolicies ==
    {Policy, [Policy EXCEPT !.primary = 0], [Policy EXCEPT !.total = 60],
     [Policy EXCEPT !.maxArtifacts = 1, !.primary = 9],
     [Policy EXCEPT !.minScore = 95, !.maxFiles = 2, !.snippet = 5],
     [Policy EXCEPT !.enabled = FALSE]}
Call(query, policy) == [query |-> query, policy |-> policy]
PlainCall ==
    Call(Query(Excerpt(Main, 1, 3), <<{"register_user"}, {}>>, <<>>, <<>>, <<>>), Policy)
MCPlans ==
    {<<>>, <<PlainCall, PlainCall>>}
    \union {<<Call(Query(e, w, m, h, d), policy)>> :
               e \in Excerpts, w \in Prompts, m \in Mentions, h \in HintLists,
               d \in DiagnosticLists, policy \in MCPolicies}
-----------------------------------------------------------------------------
(***************************************************************************)
(* One part moves, the others have not begun.  Data that goes over two     *)
(* lines is looked at with the shorter line ends.                          *)
(***************************************************************************)
Some(S) == CHOOSE x \in S : TRUE

AnswersInit ==
    /\ study \in {"turn", "stream", "card", "read", "context"}
    /\ study = "context" \/ plan = <<>>
    /\ ContextInit
    /\ disk = <<>> <=> study # "context"
    /\ study # "context" \/ plan # <<>>
    /\ study = "read" \/ tree = Some(Trees)
    /\ ToolsInit
    /\ study = "card" \/ request = Some(Turns)
    /\ CardsInit
    /\ study # "card" => route = "strict"
    /\ study = "turn" \/ context = Some(Files)
    /\ Init
    /\ study # "turn" => expected = "Any" /\ ~prefetched
    /\ StreamsInit
    /\ study # "stream" => newline = "lf" /\ said.reply = Some(Replies)
    /\ said.folds => newline = "lf" /\ study = "stream"

AnswersNext ==
    \/ /\ study = "turn" /\ Next
       /\ UNCHANGED <<study, streamVars, cardVars, toolVars, contextVars>>
    \/ /\ study = "stream" /\ StreamsNext
       /\ UNCHANGED <<study, vars, cardVars, toolVars, contextVars>>
    \/ /\ study = "card" /\ CardsNext
       /\ UNCHANGED <<study, vars, streamVars, toolVars, contextVars>>
    \/ /\ study = "read" /\ ToolsNext
       /\ UNCHANGED <<study, vars, streamVars, cardVars, contextVars>>
    \/ /\ study = "context" /\ ContextNext
       /\ UNCHANGED <<study, vars, streamVars, cardVars, toolVars>>

AnswersSpec ==
    AnswersInit /\ [][AnswersNext]_<<study, vars, streamVars, cardVars, toolVars, contextVars>>

(* The fairness of TurnLoop: where another part is looked at nothing is    *)
(* claimed of the loop.                                                    *)
FairAnswers == AnswersSpec /\ WF_vars(Next)

(* Files change under the plain call, but for the skipped ones, which it   *)
(* does not open; the other calls are made once, in a project at rest.     *)
FilesChangeUnderThePlainCall ==
    \A p \in DOMAIN disk : Len(disk[p]) > 1 => Len(plan) # 1 /\ p \notin Skipped
=============================================================================

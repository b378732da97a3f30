------------------------------ MODULE ReadTools ------------------------------
(***************************************************************************)
(* What the model of openai_compatible may read by itself: a range of      *)
(* lines of a file, the lines that hold a text, the entries of a           *)
(* directory.  The file system is external; nothing changes in it while a  *)
(* call is executed.                                                       *)
(*                                                                         *)
(* A path is the sequence of its names, as the file system knows it; the   *)
(* workspace is the directory Root.  A line is "hit" (it holds the text    *)
(* that is searched for), "plain" or "wide".                               *)
(***************************************************************************)
LOCAL INSTANCE Naturals
LOCAL INSTANCE Sequences
LOCAL INSTANCE FiniteSets
LOCAL INSTANCE SequencesExt

CONSTANTS
    Trees,          \* file systems: a function from paths to nodes
    NameOrder,      \* the names that occur, sorted
    Root,           \* the canonical path of the workspace
    ToolCalls,      \* what the model may ask for
    Ignored,        \* the names of ignored_directory
    MaxReadLines,   \* MAX_READ_LINES
    MaxReadBytes,   \* MAX_READ_BYTES
    MaxSearchFiles, \* MAX_SEARCH_FILES
    MaxResults,     \* MAX_SEARCH_RESULTS
    MaxEntries      \* MAX_DIRECTORY_ENTRIES

VARIABLES
    tree,       \* the file system
    toolCall,   \* the call that was executed
    output      \* what the model is told

toolVars == <<tree, toolCall, output>>

NoCall == [tool |-> "none"]
ToolError == [ok |-> FALSE]
NoPath == <<"nowhere">>

----------------------------------------------------------------------------
(* Paths.                                                                  *)

Is(path, kind) == path \in DOMAIN tree /\ tree[path].kind = kind
Under(path, dir) == IsPrefix(dir, path)
Least(a, b) == IF a < b THEN a ELSE b
Most(a, b) == IF a < b THEN b ELSE a

(* An optional number is a sequence of at most one.                        *)
UnwrapOr(option, default) == IF option = <<>> THEN default ELSE option[1]

Place(name) == CHOOSE i \in DOMAIN NameOrder : NameOrder[i] = name
Before(p, q) ==
    \/ IsStrictPrefix(p, q)
    \/ \E i \in DOMAIN p \intersect DOMAIN q :
          /\ SubSeq(p, 1, i - 1) = SubSeq(q, 1, i - 1)
          /\ Place(p[i]) < Place(q[i])
Sorted(paths) == SetToSortSeq(paths, Before)

(* canonicalize: every link on the way is followed.                        *)
RECURSIVE Canonical(_, _)
Canonical(dir, parts) ==
    IF parts = <<>> THEN dir
    ELSE LET next == IF Head(parts) = "." THEN dir ELSE Append(dir, Head(parts)) IN
         IF ~Is(dir, "dir") \/ next \notin DOMAIN tree THEN NoPath
         ELSE IF Is(next, "link") THEN Canonical(<<>>, tree[next].to \o Tail(parts))
         ELSE Canonical(next, Tail(parts))

(* Mutant: where the links lead is not looked at.                          *)
ResolveAnywhere(path) ==
    IF path.absolute \/ ".." \in {path.parts[i] : i \in DOMAIN path.parts} THEN NoPath
    ELSE Canonical(Root, path.parts)

(* resolve_existing                                                        *)
ResolveExisting(path) ==
    IF path.absolute \/ ".." \in {path.parts[i] : i \in DOMAIN path.parts} THEN NoPath
    ELSE LET target == Canonical(Root, path.parts)
         IN IF Under(target, Root) THEN target ELSE NoPath

Children(dir) == {p \in DOMAIN tree : Len(p) = Len(dir) + 1 /\ Under(p, dir)}

----------------------------------------------------------------------------
(* workspace_read_file                                                     *)

(* A line costs its number and its text; here, what its kind says.         *)
Cost(line) == IF line = "wide" THEN 3 ELSE 1
CostOf(lines, i, j) == FoldLeft(LAMBDA n, line : n + Cost(line), 0, SubSeq(lines, i, j))

Readable(file) == tree[file].size = "small" /\ tree[file].utf8

ReadFile(c) ==
    LET file == ResolveExisting(c.path)
        start == Most(UnwrapOr(c.start, 1), 1)
        wanted == UnwrapOr(c.end, start + MaxReadLines - 1)
        end == Most(Least(wanted, start + MaxReadLines - 1), start)
        lines == tree[file].lines
        last == Least(end, Len(lines))
        fits == {j \in start .. last : CostOf(lines, start, j) <= MaxReadBytes}
        \* the first line that does not fit ends the text
        read == start + Cardinality(fits) - 1
    IN IF ~Is(file, "file") \/ ~Readable(file) THEN ToolError
       ELSE [ok |-> TRUE, path |-> file, start |-> start, end |-> read,
             truncated |-> wanted > end \/ read < last,
             text |-> SubSeq(lines, start, read)]

----------------------------------------------------------------------------
(* workspace_search_text                                                   *)

(* collect_files: directories in order, the files of each first.           *)
RECURSIVE Collected(_, _)
Collected(pending, files) ==
    IF pending = <<>> \/ Len(files) >= MaxSearchFiles
    THEN SubSeq(files, 1, Least(Len(files), MaxSearchFiles))
    ELSE LET here == Children(Head(pending))
             dirs == {p \in here : Is(p, "dir") /\ p[Len(p)] \notin Ignored}
         IN Collected(Sorted(dirs) \o Tail(pending),
                      files \o Sorted({p \in here : Is(p, "file")}))

CollectFiles(target) == IF Is(target, "file") THEN <<target>> ELSE Collected(<<target>>, <<>>)

Hits(file) ==
    LET lines == tree[file].lines IN
    [i \in 1 .. Cardinality({n \in DOMAIN lines : lines[n] = "hit"}) |->
        [path |-> file,
         line |-> SetToSortSeq({n \in DOMAIN lines : lines[n] = "hit"}, <)[i]]]

SearchText(c) ==
    LET target == ResolveExisting(c.path)
        limit == Least(Most(UnwrapOr(c.limit, MaxResults), 1), MaxResults)
        files == SelectSeq(Sorted(ToSet(CollectFiles(target))), Readable)
        hits == FlattenSeq([i \in DOMAIN files |-> Hits(files[i])])
    IN IF c.query = "blank" \/ target = NoPath THEN ToolError
       ELSE [ok |-> TRUE, matches |-> SubSeq(hits, 1, Least(Len(hits), limit)),
             truncated |-> Len(hits) >= limit]

----------------------------------------------------------------------------
(* workspace_list_directory                                                *)

ListDirectory(c) ==
    LET dir == ResolveExisting(c.path)
        entries == Sorted({p \in Children(dir) : ~Is(p, "link")})
    IN IF ~Is(dir, "dir") THEN ToolError
       ELSE [ok |-> TRUE, path |-> dir,
             entries |-> SubSeq(entries, 1, Least(Len(entries), MaxEntries)),
             truncated |-> Len(entries) > MaxEntries]

ExecuteTool ==
    /\ toolCall = NoCall
    /\ \E c \in ToolCalls :
          /\ toolCall' = c
          /\ output' = CASE c.tool = "read" -> ReadFile(c)
                         [] c.tool = "search" -> SearchText(c)
                         [] c.tool = "list" -> ListDirectory(c)
                         [] OTHER -> ToolError
    /\ UNCHANGED tree

ToolsInit == tree \in Trees /\ toolCall = NoCall /\ output = ToolError
ToolsNext == ExecuteTool

----------------------------------------------------------------------------

Given ==
    CASE toolCall.tool = "search" -> {m.path : m \in ToSet(output.matches)}
      [] toolCall.tool = "list" -> ToSet(output.entries) \union {output.path}
      [] toolCall.tool = "read" -> {output.path}

(* Reached without following a link or entering an ignored directory.      *)
Walked(file, dir) ==
    /\ Under(file, dir)
    /\ \A n \in Len(dir) + 1 .. Len(file) - 1 :
          Is(SubSeq(file, 1, n), "dir") /\ file[n] \notin Ignored

(* tools.rs: whatever path the model asks for, through links or not, what  *)
(* it is told lies in the workspace; a read is a run of lines within its   *)
(* bounds that says so when it stops short of an end that was named; a     *)
(* search tells lines that hold the text, in order, and all of them when   *)
(* it is not said to be truncated and no file was left out for the cap; a  *)
(* list leaves out links only, or says so.                                 *)
ReadsStayInside ==
    toolCall # NoCall /\ output.ok =>
        /\ \A p \in Given : Under(p, Root)
        /\ toolCall.tool = "read" =>
             /\ Len(output.text) = output.end + 1 - output.start
             /\ Len(output.text) <= MaxReadLines
             /\ CostOf(output.text, 1, Len(output.text)) <= MaxReadBytes
             /\ output.text = SubSeq(tree[output.path].lines, output.start, output.end)
             /\ ~output.truncated /\ toolCall.end # <<>> =>
                  output.end >= Least(toolCall.end[1], Len(tree[output.path].lines))
        /\ toolCall.tool = "search" =>
             LET target == ResolveExisting(toolCall.path)
                 found == {m \in [path : DOMAIN tree, line : 1 .. 4] :
                             /\ Is(m.path, "file") /\ Readable(m.path)
                             /\ Walked(m.path, target)
                             /\ m.line \in DOMAIN tree[m.path].lines
                             /\ tree[m.path].lines[m.line] = "hit"}
             IN /\ ToSet(output.matches) \subseteq found
                /\ \A i, j \in DOMAIN output.matches :
                      i < j => \/ Before(output.matches[i].path, output.matches[j].path)
                               \/ /\ output.matches[i].path = output.matches[j].path
                                  /\ output.matches[i].line < output.matches[j].line
                /\ ~output.truncated
                     /\ Cardinality({p \in DOMAIN tree :
                            Is(p, "file") /\ Walked(p, target)}) <= MaxSearchFiles
                   => ToSet(output.matches) = found
        /\ toolCall.tool = "list" /\ ~output.truncated =>
             ToSet(output.entries) = {p \in Children(output.path) : ~Is(p, "link")}

=============================================================================

------------------------------ MODULE FileMoves ------------------------------
(***************************************************************************)
(* Proposals that change the tree of files: moves (fileops.lua) and the    *)
(* creation of a file (creation.lua).  Accept validates the proposal again *)
(* and applies it as one transaction, of which every system call may fail. *)
(* Between the review and the accept the user and other programs change    *)
(* the tree and the buffers.  A path is the sequence of its components     *)
(* below the workspace.                                                    *)
(***************************************************************************)
EXTENDS Integers, Sequences, SequencesExt, FiniteSets, Functions, TLC

CONSTANTS
    Trees,          \* trees to start from: [path -> what is there]
    Proposals,      \* [kind |-> "move", ops |-> a sequence of [from, to]], or
                    \* [kind |-> "create", to |-> a path]
    Universe,       \* the paths other programs and buffers use
    MaxFileOps,     \* MAX_FILE_OPS, MAX_OPS = 16
    MaxChanges      \* bound on changes during the review

Directory == "directory"
UnderReview == {"reviewed", "failed", "raised"}

VARIABLES
    proposal,   \* what the card proposes
    tree,       \* a function from the paths that exist
    buffers,    \* loaded buffers: path -> "saved" or "unsaved"
    plan,       \* what inspect found when the card was shown
    outcome,    \* "proposed", "reviewed", "invalid", "done", "failed", "raised",
                \* "rejected"
    treeBefore,     \* the tree when the user accepted
    changes     \* outside changes so far

fileVars == <<proposal, tree, buffers, plan, outcome, treeBefore, changes>>

Within(path, top) == IsStrictPrefix(top, path)
Touches(path, top) == path = top \/ Within(path, top)
Exists(t, path) == path = <<>> \/ path \in DOMAIN t
IsDirectory(t, path) == path = <<>> \/ (path \in DOMAIN t /\ t[path] = Directory)

(* The parents of path that do not exist yet, the outermost first, and the *)
(* nearest that does.                                                      *)
Parents(path) == [k \in 1 .. Len(path) - 1 |-> SubSeq(path, 1, k)]
MissingDirectories(t, path) == SelectSeq(Parents(path), LAMBDA p : ~Exists(t, p))
ExistingParent(t, path) ==
    SubSeq(path, 1, Len(path) - 1 - Len(MissingDirectories(t, path)))

----------------------------------------------------------------------------
(* Validation: once in the daemon, twice in the editor.                    *)

(* validate_file_ops; a path used twice, by one operation or by two.       *)
ValidOps(ops) ==
    /\ Len(ops) \in 1 .. MaxFileOps
    /\ \A i \in DOMAIN ops :
           /\ ops[i].from # <<>> /\ ops[i].to # <<>>
           /\ ~Touches(ops[i].to, ops[i].from)
    /\ \A i, j \in DOMAIN ops : i # j =>
           {ops[i].from, ops[i].to} \cap {ops[j].from, ops[j].to} = {}

MovesOverwriting(t, bufs, ops) ==                \* mutant of MovesInspected
    /\ ValidOps(ops)
    /\ \A i \in DOMAIN ops :
           /\ Exists(t, ops[i].from)
           /\ \A b \in DOMAIN bufs :
                  Touches(b, ops[i].from) => bufs[b] # "unsaved"
    /\ \A i, j \in DOMAIN ops : i # j =>
           /\ ~Within(ops[i].to, ops[j].to)
           /\ ~Within(ops[i].to, ops[j].from)
           /\ ~Within(ops[i].from, ops[j].from)

(* fileops.inspect, against the live tree and buffers.                     *)
MovesInspected(t, bufs, ops) ==
    /\ ValidOps(ops)
    /\ \A i \in DOMAIN ops :
           /\ Exists(t, ops[i].from) /\ ~Exists(t, ops[i].to)
           /\ \A b \in DOMAIN bufs :
                  Touches(b, ops[i].from) => bufs[b] # "unsaved"
    /\ \A i, j \in DOMAIN ops : i # j =>
           /\ ~Within(ops[i].to, ops[j].to)
           /\ ~Within(ops[i].to, ops[j].from)
           /\ ~Within(ops[i].from, ops[j].from)

(* creation.inspect, and diff.show: no loaded buffer owns the path.        *)
CreationInspected(t, to) == ~Exists(t, to)

(* The directories the proposal needs, each once, parents first.           *)
NeededDirectories(t, p) ==
    IF p.kind = "create" THEN MissingDirectories(t, p.to)
    ELSE LET all == FlattenSeq([i \in DOMAIN p.ops |-> MissingDirectories(t, p.ops[i].to)])
         IN SelectSeq([k \in DOMAIN all |->
                          IF \E j \in 1 .. k - 1 : all[j] = all[k] THEN <<>> ELSE all[k]],
                      LAMBDA d : d # <<>>)

Plan(t, p) ==
    [directories |-> NeededDirectories(t, p),
     parent |-> IF p.kind = "create" THEN ExistingParent(t, p.to) ELSE <<>>]

----------------------------------------------------------------------------
(* The transaction: system calls 1 .. n in order; call number fault fails, *)
(* 0 when none does.  A call also fails when the tree does not allow it.   *)

Calls(p, directories) ==
    [i \in DOMAIN directories |-> [do |-> "mkdir", to |-> directories[i]]]
    \o IF p.kind = "create" THEN <<[do |-> "write", to |-> p.to]>>
       ELSE [i \in DOMAIN p.ops |-> [do |-> "rename", from |-> p.ops[i].from,
                                     to |-> p.ops[i].to]]

(* rename replaces a file by a file and an empty directory by a directory. *)
Allowed(t, call) ==
    LET empty(p) == ~\E q \in DOMAIN t : Within(q, p) IN
    /\ IsDirectory(t, Front(call.to))
    /\ call.do = "mkdir" => ~Exists(t, call.to)
    /\ call.do = "write" => ~IsDirectory(t, call.to)
    /\ call.do = "rename" =>
           /\ Exists(t, call.from)
           /\ Exists(t, call.to) =>
                  /\ IsDirectory(t, call.from) = IsDirectory(t, call.to)
                  /\ empty(call.to)

Moved(t, from, to) ==
    LET source(p) == IF Touches(p, to) THEN from \o SubSeq(p, Len(to) + 1, Len(p)) ELSE p
        kept == {p \in DOMAIN t : ~Touches(p, from) /\ ~Touches(p, to)}
        arrived == {to \o SubSeq(p, Len(from) + 1, Len(p)) :
                        p \in {q \in DOMAIN t : Touches(q, from)}}
    IN [p \in kept \cup arrived |-> t[source(p)]]

Perform(t, call) ==
    CASE call.do = "mkdir" -> t @@ (call.to :> Directory)
      [] call.do = "write" -> t @@ (call.to :> "accepted")
      [] call.do = "rename" -> Moved(t, call.from, call.to)

(* Rollback: moves back in reverse, then the created directories, each     *)
(* only while it is empty.                                                 *)
Undo(t, call) ==
    CASE call.do = "rename" -> Moved(t, call.to, call.from)
      [] call.do = "mkdir" ->
             IF \E p \in DOMAIN t : Within(p, call.to) THEN t
             ELSE Restrict(t, DOMAIN t \ {call.to})

RollForward(t, done) == FoldLeft(Undo, t, done)   \* mutant of RollBack
RollBack(t, done) == FoldLeft(Undo, t, Reverse(done))

(* Call i fails.  fs_rename returns its failure, and the commit rolls back *)
(* and reports it; vim.fn.mkdir and vim.fn.writefile raise theirs, and the *)
(* commit ends there, with what has been created and perhaps a part of the *)
(* file: what the code does when they return one is never reached.         *)
Failed(t, calls, i, partly) ==
    CASE calls[i].do = "rename" ->
             [tree |-> RollBack(t, SubSeq(calls, 1, i - 1)), outcome |-> "failed"]
      [] calls[i].do = "write" /\ partly ->
             [tree |-> t @@ (calls[i].to :> "partial"), outcome |-> "raised"]
      [] OTHER -> [tree |-> t, outcome |-> "raised"]

(* The tree after the calls, and how they ended.                           *)
Transaction(t, calls, fault, partly) ==
    LET step(state, i) ==
            IF state.outcome # "done" THEN state
            ELSE IF i = fault \/ ~Allowed(state.tree, calls[i])
                 THEN Failed(state.tree, calls, i, partly /\ i = fault)
                 ELSE [state EXCEPT !.tree = Perform(@, calls[i])]
    IN FoldLeft(step, [tree |-> t, outcome |-> "done"], [i \in DOMAIN calls |-> i])

(* retarget_buffers: a loaded buffer of a moved path is replaced by one of *)
(* its new path; one the user sees nowhere is only listed, not loaded.     *)
NewName(ops, path) ==
    LET hit == {i \in DOMAIN ops : Touches(path, ops[i].from)} IN
    IF hit = {} THEN path
    ELSE LET op == ops[CHOOSE i \in hit : TRUE] IN
         op.to \o SubSeq(path, Len(op.from) + 1, Len(path))

Retargeted(bufs, ops, seen) ==
    LET stay == {b \in DOMAIN bufs : NewName(ops, b) = b}
        gone == {b \in DOMAIN bufs : NewName(ops, b) # b}
        shown == {NewName(ops, b) : b \in gone \cap seen}
    IN [b \in stay \cup shown |-> IF b \in stay THEN bufs[b] ELSE "saved"]

----------------------------------------------------------------------------
FilesInit ==
    /\ proposal \in Proposals
    /\ tree \in Trees
    /\ \E open \in SUBSET {p \in DOMAIN tree : tree[p] # Directory} :
           buffers = [b \in open |-> "saved"]
    /\ plan = [directories |-> <<>>, parent |-> <<>>]
    /\ outcome = "proposed"
    /\ treeBefore = tree
    /\ changes = 0

Inspected ==
    IF proposal.kind = "create" THEN CreationInspected(tree, proposal.to)
    ELSE MovesInspected(tree, buffers, proposal.ops)

(* fileops.show and the new-file part of diff.show.                        *)
ShowProposal ==
    /\ outcome = "proposed"
    /\ outcome' = IF Inspected /\ (proposal.kind = "create" => proposal.to \notin DOMAIN buffers)
                  THEN "reviewed" ELSE "invalid"
    /\ plan' = Plan(tree, proposal)
    /\ UNCHANGED <<proposal, tree, buffers, treeBefore, changes>>

(* Accept; a proposal that is no longer valid, or one system call that     *)
(* fails, is reported, by a notice or by the error raised, and the review  *)
(* stays open.                                                             *)
AcceptProposal ==
    LET directories == IF proposal.kind = "create" THEN plan.directories
                       ELSE Plan(tree, proposal).directories
        calls == Calls(proposal, directories)
    IN
    /\ outcome \in UnderReview
    /\ treeBefore' = tree
    /\ IF /\ Inspected
          /\ proposal.kind = "create" => Plan(tree, proposal).parent = plan.parent
       THEN \E fault \in 0 .. Len(calls), partly \in BOOLEAN, seen \in SUBSET DOMAIN buffers :
              LET result == Transaction(tree, calls, fault, partly) IN
              /\ tree' = result.tree
              /\ outcome' = result.outcome
              /\ buffers' = IF result.outcome = "done" /\ proposal.kind = "move"
                            THEN Retargeted(buffers, proposal.ops, seen) ELSE buffers
       ELSE outcome' = "failed" /\ UNCHANGED <<tree, buffers>>
    /\ UNCHANGED <<proposal, plan, changes>>

RejectProposal ==
    /\ outcome \in UnderReview
    /\ outcome' = "rejected"
    /\ UNCHANGED <<proposal, tree, buffers, plan, treeBefore, changes>>

(* While the card is on screen another program adds or removes a file or a *)
(* directory, and the user opens a buffer, writes in one or saves it.      *)
Outside ==
    /\ outcome \in UnderReview /\ changes < MaxChanges
    /\ changes' = changes + 1
    /\ UNCHANGED <<proposal, plan, outcome, treeBefore>>

TreeChanges ==
    /\ Outside
    /\ \E p \in Universe :
           \/ /\ ~Exists(tree, p) /\ IsDirectory(tree, Front(p))
              /\ \E what \in {Directory, "foreign"} : tree' = tree @@ (p :> what)
           \/ /\ Exists(tree, p) /\ ~\E q \in DOMAIN tree : Within(q, p)
              /\ tree' = Restrict(tree, DOMAIN tree \ {p})
    /\ UNCHANGED buffers

BufferChanges ==
    /\ Outside
    /\ \E p \in Universe, what \in {"saved", "unsaved"} :
           /\ ~IsDirectory(tree, p)
           /\ what = "saved" => Exists(tree, p)
           /\ buffers' = (p :> what) @@ buffers
    /\ UNCHANGED tree

FilesNext ==
    ShowProposal \/ AcceptProposal \/ RejectProposal \/ TreeChanges \/ BufferChanges

----------------------------------------------------------------------------
(* Properties.                                                             *)

(* A move deletes the buffers of the old paths: never one with unsaved     *)
(* work in it, also when the user began to write during the review.        *)
UnsavedWorkSurvives ==
    [][changes' = changes =>
        \A b \in DOMAIN buffers : buffers[b] = "unsaved" =>
            b \in DOMAIN buffers' /\ buffers'[b] = "unsaved"]_fileVars

(* What an error raised by a call leaves: all that was there as it was,    *)
(* some of the parents of the targets, and behind all of them, when a file *)
(* is created, its beginning.                                              *)
LeavesOnlyItsParents ==
    LET new == DOMAIN tree' \ DOMAIN tree
        needed == ToSet(NeededDirectories(tree, proposal))
    IN /\ \A p \in DOMAIN tree : p \in DOMAIN tree' /\ tree'[p] = tree[p]
       /\ \A p \in new :
              \/ p \in needed /\ tree'[p] = Directory
              \/ proposal.kind = "create" /\ p = proposal.to /\ needed \subseteq new

(* The transactions of fileops.commit and creation.commit: an accept that  *)
(* reports a failure has changed no path, whichever rename failed and      *)
(* whatever was done before it; one that ends in the error of a call has   *)
(* moved, removed and overwritten nothing, and what it leaves is never     *)
(* more than the parents the card named and the beginning of the new file. *)
TransactionIsAtomic ==
    /\ [][changes' = changes =>
            CASE outcome' = "done" -> TRUE
              [] outcome' = "raised" -> LeavesOnlyItsParents
              [] OTHER -> tree' = tree]_fileVars
    /\ UnsavedWorkSurvives

(* An accepted proposal does what the card showed and nothing more: every  *)
(* file and directory is where its operation puts it, with what it held,   *)
(* nothing was overwritten, only the parents of a target are new, and no   *)
(* loaded buffer names a path that is gone, so that saving one cannot      *)
(* bring an old path back.                                                 *)
ProposalIsExact ==
    outcome = "done" =>
        LET ops == IF proposal.kind = "move" THEN proposal.ops ELSE <<>>
            targets == IF proposal.kind = "move" THEN {ops[i].to : i \in DOMAIN ops}
                       ELSE {proposal.to}
            arrived == {NewName(ops, p) : p \in DOMAIN treeBefore}
        IN /\ \A p \in DOMAIN treeBefore :
                  NewName(ops, p) \in DOMAIN tree /\ tree[NewName(ops, p)] = treeBefore[p]
           /\ \A p \in DOMAIN tree \ arrived :
                  \/ tree[p] = Directory /\ \E to \in targets : Within(to, p)
                  \/ proposal.kind = "create" /\ p = proposal.to
           /\ \A b \in DOMAIN buffers, i \in DOMAIN ops : ~Touches(b, ops[i].from)

=============================================================================

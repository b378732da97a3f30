------------------------------ MODULE Proposals ------------------------------
(***************************************************************************)
(* A patch card proposes hunks of one file or operations on files, never   *)
(* both (validate_card_with_limits refuses a mixed card); card.show hands  *)
(* it to diff.lua or to fileops.lua, which share the Accept / Reject gate. *)
(***************************************************************************)
EXTENDS HunkReview, FileMoves

NoFiles ==
    /\ proposal = [kind |-> "none"] /\ outcome = "none"
    /\ tree = <<>> /\ buffers = <<>> /\ treeBefore = <<>>
    /\ plan = [directories |-> <<>>, parent |-> <<>>]
    /\ changes = 0

NoHunks ==
    /\ reply = CHOOSE r \in Replies : TRUE
    /\ phase = "over" /\ class = None
    /\ card = [path |-> reply.path, hunks |-> <<>>]
    /\ snapshot = reply.excerpt
    /\ text = [p \in Paths |-> <<>>] /\ exists = {Active}
    /\ queue = <<>> /\ preview = Nothing
    /\ edits = MaxEdits /\ typed = 0 /\ formatted = FALSE /\ drafted = TRUE

PInit == (Init /\ NoFiles) \/ (NoHunks /\ FilesInit)

PNext == (Next /\ UNCHANGED fileVars) \/ (FilesNext /\ UNCHANGED vars)

PSpec == PInit /\ [][PNext]_<<vars, fileVars>>

=============================================================================

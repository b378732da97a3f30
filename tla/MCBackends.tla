----------------------------- MODULE MCBackends -----------------------------
EXTENDS Backends

(* Up to a renaming of sessions and contexts, the first turn is s1's, with *)
(* c1: the other behaviours only repeat these.                             *)
UpToRenaming ==
    LET named == {t \in DOMAIN turns : turns[t].session # NoSession} IN
    named # {} => /\ turns[Min(named)].session = "s1"
                  /\ turns[Min(named)].ctx = "c1"

=============================================================================

------------------------------- MODULE Review -------------------------------
(***************************************************************************)
(* What the review of proposals promises, abstractly: each proposal the    *)
(* agent makes waits for the user behind its own Accept / Reject gate.     *)
(*                                                                         *)
(* At most one proposal is pending, the rest of its batch is queued behind *)
(* it; accepting the pending one promotes the next in the queue; a         *)
(* rejection drops the queue; anything else the session does may only drop *)
(* what was not decided yet, or replace it by a new batch.  A decision is  *)
(* final and a dropped proposal never comes back.                          *)
(***************************************************************************)
EXTENDS Integers

CONSTANT MaxProposals

VARIABLE fate   \* the fate of every proposal, in the order they are made

Proposals == 1..MaxProposals
Fates == {"unborn", "pending", "queued", "accepted", "rejected", "dropped"}
Open == {"pending", "queued"}

TypeOK == fate \in [Proposals -> Fates]

Init == fate = [p \in Proposals |-> "unborn"]

\* A new batch, a run of proposals not made before; the first is pending.
\* Whatever was open is dropped.
Propose ==
    \E first, last \in Proposals :
        /\ first <= last
        /\ \A p \in Proposals : (p < first) <=> (fate[p] # "unborn")
        /\ fate' = [p \in Proposals |->
              CASE p = first -> "pending"
                [] p > first /\ p <= last -> "queued"
                [] p < first /\ fate[p] \in Open -> "dropped"
                [] OTHER -> fate[p]]

\* The next proposal of the batch p belongs to, if one is queued.
NextInQueue(p) ==
    {q \in Proposals : fate[q] = "queued" /\ q > p
                       /\ \A r \in Proposals : fate[r] = "queued" => q <= r}

Accept(p) ==
    /\ fate[p] = "pending"
    /\ fate' = [q \in Proposals |->
          CASE q = p -> "accepted"
            [] q \in NextInQueue(p) -> "pending"
            [] OTHER -> fate[q]]

Reject(p) ==
    /\ fate[p] = "pending"
    /\ fate' = [q \in Proposals |->
          CASE q = p -> "rejected"
            [] fate[q] = "queued" -> "dropped"
            [] OTHER -> fate[q]]

\* The session leaves part of the review undecided: the queue behind the
\* pending proposal, or all of it.
Drop ==
    \E gone \in {{"queued"}, Open} :
        fate' = [q \in Proposals |-> IF fate[q] \in gone THEN "dropped"
                                                         ELSE fate[q]]

Next ==
    \/ Propose
    \/ \E p \in Proposals : Accept(p) \/ Reject(p)
    \/ Drop

Spec == Init /\ [][Next]_fate
=============================================================================

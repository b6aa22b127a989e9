---------------------------- MODULE MCMembership ----------------------------
(* Instances of Membership for TLC, and what the source's comments claim   *)
(* of it and the code does not keep.                                       *)
EXTENDS Membership, TLC

CallSymmetry == Permutations(Desks) \cup Permutations(Tabs) \cup Permutations(Visits)

\* "Reject a pending access request. Terminal, no account is ever created":
\* a rejected request has no link left to use.
RejectedOpensNothing ==
    \A r \in Requests : status[r] = "rejected" /\ ~AtWork(r) => LinksOf(r) \cap Unused = {}

\* "Delivery is NOT best-effort here": an approval that met no fault and is
\* over has its link in the mail, or is back in the queue.
ApprovedIsInvited ==
    \A r \in Requests : status[r] = "approved" /\ ~AtWork(r) /\ faults = 0 =>
        LinksOf(r) \cap posted # {}
=============================================================================

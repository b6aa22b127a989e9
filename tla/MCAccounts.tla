----------------------------- MODULE MCAccounts -----------------------------
(* Instances of Accounts for TLC, and what the source's comments claim of  *)
(* it and the code does not keep.                                          *)
EXTENDS Accounts, TLC

\* "every scheduled deletion whose grace window has elapsed becomes a true
\* soft-delete": unless the member takes the request back.
ElapsedGraceErases ==
    \A u \in Users :
        scheduled[u] /\ due[u] <= 0 ~> ~scheduled[u] \/ status[u] \in {"deleted", "purged"}
=============================================================================

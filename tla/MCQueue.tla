------------------------------ MODULE MCQueue ------------------------------
(* Instances of NotificationQueue for TLC, and what the source's comments  *)
(* claim of it and the code does not keep.                                 *)
EXTENDS QueueRefinement, TLC

RunSymmetry == Permutations(Runs)

\* "any row stuck in dispatching for more than 10 minutes is rolled back to
\* pending": no row stays dispatching for ever.
StuckRowsReclaimed ==
    \A id \in Ids : status[id] = "dispatching" ~> status[id] # "dispatching"

\* "Retry budget : 3 attempts max": no row is claimed a fourth time.
ThreeAttemptsMax == \A id \in Ids : attempts[id] <= MAX_ATTEMPTS
=============================================================================

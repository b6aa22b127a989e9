----------------------------- MODULE MCDispatch -----------------------------
(* Instances of MonthlyDispatch for TLC, and what the source's comments    *)
(* claim of it and the code does not keep.                                 *)
EXTENDS MonthlyDispatch, TLC

RunSymmetry == Permutations(Runs)

\* "self-heal convergent": a member who counts as overdue does not count as
\* overdue for ever, while the operator re-runs the batch.
OverdueHeals == \A m \in Members : stamp[m] = "none" ~> stamp[m] # "none" \/ m \notin members
=============================================================================

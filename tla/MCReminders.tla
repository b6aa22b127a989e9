---------------------------- MODULE MCReminders ----------------------------
(* Instances of CheckinReminders for TLC, and what the source's comments   *)
(* claim of it and the code does not keep.                                 *)
EXTENDS CheckinReminders, TLC

\* Members and scans are interchangeable.
CohortSymmetry == Permutations(Users) \cup Permutations(Scans)

\* "exactly one reminder per slot per day": no member is reminded of a slot of
\* a day a second time.
OneReminderPerSlotPerDay == \A k \in Keys : sent[k] <= 1
=============================================================================

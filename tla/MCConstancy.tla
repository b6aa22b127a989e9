----------------------------- MODULE MCConstancy -----------------------------
(* Instances of ConstancyScore: a meeting of day 0 and a tracking of day 0, *)
(* judged from day 1.                                                       *)
EXTENDS ConstancyScore

FromFirst == [u \in Dues |-> 0]
FirstOnly == [u \in Dues |-> 0]
FromSecond == [u \in Dues |-> 1]
=============================================================================

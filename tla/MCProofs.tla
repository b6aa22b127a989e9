------------------------------ MODULE MCProofs ------------------------------
(* Instances of ProofAnalysis: two captures of one account, the first        *)
(* attached to the row the member declared; or one of each of two accounts.  *)
EXTENDS ProofAnalysis, TLC

CONSTANTS p1, p2, d1, l1, l2, ticket, mobile

SameLogin == [p \in Proofs |-> l1]
OneEach == p1 :> l1 @@ p2 :> l2
BothDeals == [p \in Proofs |-> {ticket, mobile}]
OneTicket == p1 :> {ticket, mobile} @@ p2 :> {ticket}
OneDeal == [p \in Proofs |-> {mobile}]
FirstAttached == [p \in Proofs |-> IF p = p1 THEN d1 ELSE None]
AllAttached == [p \in Proofs |-> d1]
BatchSymmetry == Permutations(Batches)
=============================================================================

------------------------- MODULE MCReconciliation -------------------------
(* Times in hours; the tolerance, the margin and the cluster gap are the   *)
(* code's: 3 h, 12 h, 3 days.                                              *)
EXTENDS Reconciliation

CONSTANTS t1, t2, p1, p2, p3, cron, batch

\* p1 and p2 dispute t1, p2 with another size; t2 has no position, lies in
\* the window of p1, and between p2 and p3, which are five days apart.
DisputedTimes == (t1 :> 10) @@ (t2 :> 22) @@ (p1 :> 11) @@ (p2 :> 8) @@ (p3 :> 131)
DisputedAt == [x \in Trades \cup Positions |-> DisputedTimes[x]]
OneInstrument == [x \in Trades \cup Positions |-> "EURUSD"]
DisputedLots == {<<t1, p1>>}

\* Two trades near a position of another instrument.
StrangerAt == (t1 :> 10) @@ (t2 :> 13) @@ (p1 :> 11)
TwoInstruments == [x \in Trades \cup Positions |-> IF x = p1 THEN "XAUUSD" ELSE "EURUSD"]
===========================================================================

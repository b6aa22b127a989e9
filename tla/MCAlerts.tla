------------------------------ MODULE MCAlerts ------------------------------
(* Instances of RepetitionAlerts: the rules share one category of cards,   *)
(* as the three rules of discipline do.                                    *)
EXTENDS RepetitionAlerts

CONSTANTS c1, c2

Two == [r \in Rules |-> 2]
OneCard == [r \in Rules |-> <<c1>>]
TwoCards == [r \in Rules |-> <<c1, c2>>]

(* ------------------------------------------------------------------ *)
(* AlertsDaily: one of two members                                     *)
(* ------------------------------------------------------------------ *)
\* One has no gap before the last day but one, then two at most, with a batch
\* and a fault at any moment.  The other begins with two gaps of each rule: two
\* alerts for one slot a day, and the days it takes for the second to get one
\* and for the window to pass, with a fault or a motive but no batch.  Together
\* these have too many states.  The first member's gaps raise one alert at most,
\* and the two rules are alike: his first gap is of rule 1.
Lapse(r) == [rule |-> r, day |-> 0, settled |-> FALSE, nudged |-> FALSE]
Backlog == <<Lapse(1), Lapse(1), Lapse(2), Lapse(2)>>
HasBacklog == Len(gaps) = Len(Backlog)

DailyInit ==
    /\ alert = [r \in Rules |-> NoAlert]
    /\ sent = {}
    /\ scan = [s \in Scans |-> NoScan]
    /\ faults = 0
    /\ \/ today = LastDay - 1 /\ gaps = <<>>
       \/ today = 0 /\ gaps = Backlog

Motives == Cardinality({g \in DOMAIN gaps : gaps[g].settled})

DailyBounds ==
    /\ Motives' <= 1
    /\ IF HasBacklog
         THEN Motives' + faults' <= 1 /\ \A s \in BatchScans : ~Start(s)
         ELSE Len(gaps') <= 2 /\ (gaps' # <<>> => gaps'[1].rule = 1)

DailySpec ==
    DailyInit /\ [][AlertNext /\ DailyBounds]_alertVars /\ WF_alertVars(CronStep)
=============================================================================

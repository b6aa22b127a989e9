--------------------------- MODULE RepetitionAlerts ---------------------------
(* From the gaps on record to the member's phone (lib/verification/        *)
(* alerts.ts): when one kind of gap repeats within the window an alert is  *)
(* raised, once, and a Mark Douglas card is delivered for it; a gap that   *)
(* does not repeat gets one gentle nudge.  The daily cron runs both scans  *)
(* for the member; a batch that has just read a proof runs the alert scan  *)
(* too, at any moment.  The routine trigger engine delivers cards as well. *)
(* One member; days are the member's days.                                 *)
EXTENDS Integers, FiniteSets, SequencesExt

CONSTANTS
    Rules,        \* ALERT_RULES, by position
    Threshold,    \* repetitions that raise an alert
    CardsOf,      \* published cards of the rule's category, by priority
    MaxGaps,      \* bound: discrepancies detected
    BatchScans,   \* passes behind a batch
    Window,       \* ALERT_WINDOW_DAYS
    LastDay,      \* bound: days looked at
    MaxFaults,    \* bound: crashes and failed writes
    Cron, NoAlert

Scans == BatchScans \cup {Cron}
Days == 0..LastDay
Cards == UNION {ToSet(CardsOf[r]) : r \in Rules}
AlertRows == [day : Days, status : {"open", "delivered"}]

ASSUME RulesAssumption ==
    /\ Rules \subseteq Nat
    /\ Threshold \in [Rules -> Nat \ {0, 1}]
    /\ CardsOf \in [Rules -> Seq(Cards)]
ASSUME ScansAssumption ==
    Cron \notin BatchScans /\ NoAlert \notin Rules \cup Cards \cup AlertRows
ASSUME AlertBoundsAssumption ==
    MaxGaps \in Nat /\ Window \in Nat /\ LastDay \in Nat /\ MaxFaults \in Nat

VARIABLES
    today,
    gaps,      \* discrepancies in order of detection: rule, day, settled,
               \* nudged (gentleReminderAt is set)
    alert,     \* the one undismissed alert of a rule: NoAlert, or an AlertRow
    sent,      \* deliveries: [day, card, alert], alert NoAlert for the routine
    scan,      \* where each scan is, and what it has read
    faults

alertVars == <<today, gaps, alert, sent, scan, faults>>

(* ------------------------------------------------------------------ *)
(* What the scans read                                                 *)
(* ------------------------------------------------------------------ *)
\* An unexcused gap: no motive, not resolved, detected within the window.
InWindow(day, now) == day >= now - Window

Unexcused(now) ==
    {g \in DOMAIN gaps : ~gaps[g].settled /\ InWindow(gaps[g].day, now)}

Repeated(now) ==
    {r \in Rules : Cardinality({g \in Unexcused(now) : gaps[g].rule = r}) >= Threshold[r]}

\* How the alert of a rule looks to a scan: alerts older than the window are
\* not read.
SeenAs(r, now) ==
    IF alert[r] # NoAlert /\ InWindow(alert[r].day, now) THEN alert[r].status ELSE "none"

NoScan == [pc |-> "idle"]
ScanAt(s, pc) == scan[s].pc = pc

\* Mutant: the cron's route stops after the alerts.
AfterRulesNothing(s) == NoScan

\* After the rules the cron nudges; a batch is done.
AfterRules(s) == IF s = Cron THEN [pc |-> "nudge", now |-> scan[s].now] ELSE NoScan

WithRules(s, todo) ==
    IF todo = {} THEN AfterRules(s) ELSE [pc |-> "rules", now |-> scan[s].now, todo |-> todo]

\* The rule at hand is dealt with.
NextRule(s) == WithRules(s, scan[s].todo)

(* ------------------------------------------------------------------ *)
(* scanAlertsForMember                                                 *)
(* ------------------------------------------------------------------ *)
Start(s) ==
    /\ ScanAt(s, "idle")
    /\ scan' = [scan EXCEPT ![s] = [pc |-> "alerts", now |-> today, over |-> Repeated(today)]]
    /\ UNCHANGED <<today, gaps, alert, sent, faults>>

\* An alert of the window that is not open any more has its count refreshed
\* and nothing else.
ReadAlerts(s) ==
    /\ ScanAt(s, "alerts")
    /\ LET now == scan[s].now
           todo == {[rule |-> r, seen |-> SeenAs(r, now)] :
                       r \in {q \in scan[s].over : SeenAs(q, now) \in {"none", "open"}}}
       IN scan' = [scan EXCEPT ![s] = WithRules(s, todo)]
    /\ UNCHANGED <<today, gaps, alert, sent, faults>>

IsNext(s, w) ==
    /\ ScanAt(s, "rules")
    /\ w \in scan[s].todo
    /\ \A x \in scan[s].todo : w.rule <= x.rule

Dispatching(s, w) ==
    [pc |-> "pick", now |-> scan[s].now, rule |-> w.rule, todo |-> scan[s].todo \ {w}]

\* An alert not seen is created, unless the unique index knows one, of
\* whatever age; an open one goes to its dispatch again.
Raise(s) ==
    /\ ScanAt(s, "rules")
    /\ \E w \in scan[s].todo :
          /\ IsNext(s, w)
          /\ \/ /\ w.seen = "open"
                /\ scan' = [scan EXCEPT ![s] = Dispatching(s, w)]
                /\ UNCHANGED alert
             \/ /\ w.seen = "none" /\ alert[w.rule] = NoAlert
                /\ alert' = [alert EXCEPT ![w.rule] = [day |-> today, status |-> "open"]]
                /\ scan' = [scan EXCEPT ![s] = Dispatching(s, w)]
             \/ /\ w.seen = "none" /\ alert[w.rule] # NoAlert
                /\ scan' = [scan EXCEPT ![s] = WithRules(s, @.todo \ {w})]
                /\ UNCHANGED alert
    /\ UNCHANGED <<today, gaps, sent, faults>>

(* ------------------------------------------------------------------ *)
(* dispatchDouglasForAlert                                             *)
(* ------------------------------------------------------------------ *)
Recent(now) == {c \in sent : InWindow(c.day, now)}

\* Mutant: any alert card of the window takes the slot, not the day's alone.
CappedByWindow(now) == \E c \in Recent(now) : c.alert # NoAlert

\* The cap: one alert card per member and day.
Capped(now) == \E c \in Recent(now) : c.day = now /\ c.alert # NoAlert

\* The best card the member has not had lately, or the best one.
Choice(cards, now) ==
    LET fresh == {i \in DOMAIN cards : \A d \in Recent(now) : d.card # cards[i]}
    IN IF fresh = {} THEN cards[1]
       ELSE cards[CHOOSE i \in fresh : \A j \in fresh : i <= j]

Pick(s) ==
    /\ ScanAt(s, "pick")
    /\ LET now == scan[s].now
           cards == CardsOf[scan[s].rule]
       IN scan' = [scan EXCEPT ![s] =
                     IF Capped(now) \/ cards = <<>> THEN NextRule(s)
                     ELSE [pc |-> "deliver", now |-> now, rule |-> @.rule, todo |-> @.todo,
                           card |-> Choice(cards, now)]]
    /\ UNCHANGED <<today, gaps, alert, sent, faults>>

\* The card is delivered, or the member has had it today (P2002), which
\* counts as delivered; or the write fails and the alert stays open.
Deliver(s) ==
    /\ ScanAt(s, "deliver")
    /\ LET d == [day |-> scan[s].now, card |-> scan[s].card, alert |-> scan[s].rule]
           had == \E c \in sent : c.day = d.day /\ c.card = d.card
       IN sent' = IF had THEN sent ELSE sent \cup {d}
    /\ scan' = [scan EXCEPT ![s] = [pc |-> "mark", now |-> @.now, rule |-> @.rule, todo |-> @.todo]]
    /\ UNCHANGED <<today, gaps, alert, faults>>

\* Mutant: a failed write is taken for a card already had.
DeliverFailsUnseen(s) ==
    /\ ScanAt(s, "deliver")
    /\ faults < MaxFaults /\ faults' = faults + 1
    /\ scan' = [scan EXCEPT ![s] = [pc |-> "mark", now |-> @.now, rule |-> @.rule, todo |-> @.todo]]
    /\ UNCHANGED <<today, gaps, alert, sent>>

DeliverFails(s) ==
    /\ ScanAt(s, "deliver")
    /\ faults < MaxFaults /\ faults' = faults + 1
    /\ scan' = [scan EXCEPT ![s] = NextRule(s)]
    /\ UNCHANGED <<today, gaps, alert, sent>>

Mark(s) ==
    /\ ScanAt(s, "mark")
    /\ alert' = [alert EXCEPT ![scan[s].rule].status = "delivered"]
    /\ scan' = [scan EXCEPT ![s] = NextRule(s)]
    /\ UNCHANGED <<today, gaps, sent, faults>>

(* ------------------------------------------------------------------ *)
(* scanGentleRemindersForMember                                        *)
(* ------------------------------------------------------------------ *)
ReadFresh ==
    /\ ScanAt(Cron, "nudge")
    /\ LET fresh == {g \in Unexcused(scan[Cron].now) : ~gaps[g].nudged}
       IN scan' = [scan EXCEPT ![Cron] =
                     IF fresh = {} THEN NoScan
                     ELSE [pc |-> "count", now |-> @.now, fresh |-> fresh]]
    /\ UNCHANGED <<today, gaps, alert, sent, faults>>

WithGaps(gs) == IF gs = {} THEN NoScan ELSE [pc |-> "gaps", todo |-> gs]

\* Oldest first.
IsOldest(g) == ScanAt(Cron, "gaps") /\ g \in scan[Cron].todo /\ \A h \in scan[Cron].todo : g <= h

\* A second query counts; what repeats is the alert's business.
CountAll ==
    /\ ScanAt(Cron, "count")
    /\ LET isolated == {g \in scan[Cron].fresh : gaps[g].rule \notin Repeated(scan[Cron].now)}
       IN scan' = [scan EXCEPT ![Cron] = WithGaps(isolated)]
    /\ UNCHANGED <<today, gaps, alert, sent, faults>>

\* Queued, then stamped: from here on the nudge is the push queue's.
Nudge ==
    /\ \E g \in DOMAIN gaps :
          /\ IsOldest(g)
          /\ gaps' = [gaps EXCEPT ![g].nudged = TRUE]
          /\ scan' = [scan EXCEPT ![Cron] = WithGaps(@.todo \ {g})]
    /\ UNCHANGED <<today, alert, sent, faults>>

\* The queue refuses the row: the gap waits for the next scan.
NudgeFails ==
    /\ faults < MaxFaults /\ faults' = faults + 1
    /\ \E g \in DOMAIN gaps :
          /\ IsOldest(g)
          /\ scan' = [scan EXCEPT ![Cron] = WithGaps(@.todo \ {g})]
    /\ UNCHANGED <<today, gaps, alert, sent>>

\* A crash or a thrown error: the process is gone, or, since each scan of the
\* cron catches its members' errors, the cron goes on with the nudges.
Abort(s) ==
    /\ ~ScanAt(s, "idle")
    /\ faults < MaxFaults /\ faults' = faults + 1
    /\ \/ scan' = [scan EXCEPT ![s] = NoScan]
       \/ /\ scan[s].pc \in {"alerts", "rules", "pick", "deliver", "mark"}
          /\ scan' = [scan EXCEPT ![s] = AfterRules(s)]
    /\ UNCHANGED <<today, gaps, alert, sent>>

(* ------------------------------------------------------------------ *)
(* Around the scans                                                    *)
(* ------------------------------------------------------------------ *)
\* Another scan puts a gap on record.
Detect(r) ==
    /\ Len(gaps) < MaxGaps
    /\ gaps' = Append(gaps, [rule |-> r, day |-> today, settled |-> FALSE, nudged |-> FALSE])
    /\ UNCHANGED <<today, alert, sent, scan, faults>>

\* The member gives a motive, reality or the admin resolves the gap.
Settle(g) ==
    /\ ~gaps[g].settled
    /\ gaps' = [gaps EXCEPT ![g].settled = TRUE]
    /\ UNCHANGED <<today, alert, sent, scan, faults>>

\* The trigger engine, which yields to any card of the day.
Routine(c) ==
    /\ \A d \in sent : d.day # today
    /\ sent' = sent \cup {[day |-> today, card |-> c, alert |-> NoAlert]}
    /\ UNCHANGED <<today, gaps, alert, scan, faults>>

\* No scan lasts past a second midnight.
Tick ==
    /\ today < LastDay
    /\ \A s \in Scans : scan[s].pc \notin {"idle", "gaps"} => scan[s].now = today
    /\ today' = today + 1
    /\ UNCHANGED <<gaps, alert, sent, scan, faults>>

AlertInit ==
    /\ today = 0
    /\ gaps = <<>>
    /\ alert = [r \in Rules |-> NoAlert]
    /\ sent = {}
    /\ scan = [s \in Scans |-> NoScan]
    /\ faults = 0

AlertStep(s) == Start(s) \/ ReadAlerts(s) \/ Raise(s) \/ Pick(s) \/ Deliver(s) \/ Mark(s)
CronStep == AlertStep(Cron) \/ ReadFresh \/ CountAll \/ Nudge

AlertNext ==
    \/ CronStep \/ NudgeFails
    \/ \E s \in BatchScans : AlertStep(s)
    \/ \E s \in Scans : DeliverFails(s) \/ Abort(s)
    \/ \E r \in Rules : Detect(r)
    \/ \E g \in DOMAIN gaps : Settle(g)
    \/ \E c \in Cards : Routine(c)
    \/ Tick

AlertSpec == AlertInit /\ [][AlertNext]_alertVars

\* The cron comes back and goes on; nothing else has to happen.
FairAlertSpec == AlertSpec /\ WF_alertVars(CronStep)

(* ------------------------------------------------------------------ *)
(* Properties                                                          *)
(* ------------------------------------------------------------------ *)
Lapses == [rule : Rules, day : Days, settled : BOOLEAN, nudged : BOOLEAN]
Works == SUBSET [rule : Rules, seen : {"none", "open"}]

AlertScans ==
    {NoScan}
    \cup [pc : {"alerts"}, now : Days, over : SUBSET Rules]
    \cup [pc : {"rules"}, now : Days, todo : Works]
    \cup [pc : {"pick", "mark"}, now : Days, rule : Rules, todo : Works]
    \cup [pc : {"deliver"}, now : Days, rule : Rules, todo : Works, card : Cards]
NudgeScans ==
    [pc : {"nudge"}, now : Days]
    \cup [pc : {"count"}, now : Days, fresh : SUBSET (1..MaxGaps)]
    \cup [pc : {"gaps"}, todo : SUBSET (1..MaxGaps)]

AlertTypeOK ==
    /\ today \in Days
    /\ gaps \in Seq(Lapses)
    /\ Len(gaps) <= MaxGaps
    /\ alert \in [Rules -> AlertRows \cup {NoAlert}]
    /\ sent \subseteq [day : Days, card : Cards, alert : Rules \cup {NoAlert}]
    /\ scan \in [Scans -> AlertScans \cup NudgeScans]
    /\ \A s \in BatchScans : scan[s] \in AlertScans
    /\ faults \in 0..MaxFaults

\* "An alert is NEVER raised on an isolated lapse, only when the pattern
\* repeats within the window" (the blocking invariant of alerts.ts), also
\* when gaps are settled and days pass between the scan's reads and writes.
RepetitionOnly ==
    \A r \in Rules : alert[r] # NoAlert =>
        \E d \in Days :
            Cardinality({g \in DOMAIN gaps : /\ gaps[g].rule = r
                                             /\ gaps[g].day \in (d - Window)..d}) >= Threshold[r]

\* An alert says "delivered" only when the member has a card of its category,
\* of that alert's time, whoever delivered it.
DeliveredMeansCard ==
    \A r \in Rules : alert[r] # NoAlert /\ alert[r].status = "delivered" =>
        \E c \in sent : c.card \in ToSet(CardsOf[r]) /\ c.day >= alert[r].day - 1

\* The two channels leave no gap without an answer: isolated, it is nudged;
\* repeated, an alert stands for it.
Answered(g) ==
    g \in DOMAIN gaps => \/ gaps[g].nudged \/ alert[gaps[g].rule] # NoAlert
                         \/ gaps[g].settled \/ ~InWindow(gaps[g].day, today)

EveryGapIsAnswered == \A g \in 1..MaxGaps : []<>Answered(g)

\* "RETRIED at each daily scan instead of silently staying open forever": an
\* open alert whose pattern goes on is delivered, the day it is raised or, if
\* another rule has the slot of that day or the write fails, on a later day
\* whose slot is free, while it is within the window.
Waits(r) == alert[r] # NoAlert /\ alert[r].status = "open" /\ r \in Repeated(today)
SlotTaken == \E c \in sent : c.day = today /\ c.alert # NoAlert

FreshAlertIsDelivered ==
    \A r \in Rules : Waits(r) ~>
        ~Waits(r) \/ SlotTaken \/ ~InWindow(alert[r].day, today)

\* The same without the last clause, as the comment has it.
OpenAlertIsRetried ==
    \A r \in Rules : Waits(r) ~> ~Waits(r) \/ SlotTaken

=============================================================================

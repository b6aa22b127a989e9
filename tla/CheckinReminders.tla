-------------------------- MODULE CheckinReminders --------------------------
(***************************************************************************)
(* The check-in reminders of apps/web: the scan of                         *)
(* lib/checkin/reminders.ts, fired by the crontab in the server's own time *)
(* of day, its enqueue (lib/notifications/enqueue.ts) and what the         *)
(* dispatcher of NotificationQueue then does with the rows, reduced to     *)
(* what a reminder can tell apart: claimed, sent, dropped, queued again.   *)
(*                                                                         *)
(* A scan takes its now, lists members, reads check-ins and then off days, *)
(* and inserts one row per due member: members keep filing, the dispatcher *)
(* keeps claiming and another scan may run between any two of these.       *)
(* A member's time of day is the server's plus the offset of their zone.   *)
(***************************************************************************)
EXTENDS Integers, FiniteSets

CONSTANTS
    Users,          \* active members
    Zones,          \* offsets, in ticks, a member's time zone may have
    Scans,          \* scans that may run at the same time
    DayLength,      \* ticks in a day
    MorningWindow,  \* local ticks in which isMorningReminderDue
    EveningWindow,  \* local ticks in which isEveningReminderDue
    QuietHours,     \* local ticks in which isWithinQuietHours
    CronTicks,      \* server ticks in which the crontab line fires
    Horizon,        \* bound: ticks
    MaxScans,       \* bound: scans ever started in a tick
    MaxFaults,      \* bound: failed inserts and failed deliveries
    MaxChurn        \* bound: check-ins filed and off days changed

ASSUME RemindersAssumption ==
    /\ DayLength \in Nat \ {0} /\ Horizon \in Nat /\ Zones \subseteq 0..(DayLength - 1)
    /\ IsFiniteSet(Scans)
    /\ MaxScans \in Nat /\ MaxFaults \in Nat /\ MaxChurn \in Nat
    /\ MorningWindow \cap EveningWindow = {}

Dates == 0..((Horizon + DayLength) \div DayLength)
Slots == {"morning", "evening"}
Keys == [user : Users, slot : Slots, date : Dates]

VARIABLES
    clock,      \* server time
    zone,       \* zone[u]: offset of User.timezone
    filed,      \* check-ins filed
    off,        \* explicit or weekend off days, <<user, date>>
    scan,       \* scan[s]: a runCheckinReminderScan at work
    started,    \* scans started in this tick
    pending,    \* keys with a pending row: the partial unique index allows one
    inflight,   \* inflight[k]: rows the dispatcher has claimed
    sent,       \* sent[k]: rows that reached the member
    enqueued,   \* enqueued[k]: rows ever inserted
    dueScans,   \* dueScans[k]: scans started while k was due
    excused,    \* keys filed before they became due
    spared,     \* keys off since before they became due
    touched,    \* keys ever filed or declared off
    lagged,     \* the cron or the dispatcher once fell behind the clock
    faults,
    churn

rows == <<pending, inflight, sent>>
ghosts == <<enqueued, dueScans, excused, spared, touched, lagged>>
vars == <<clock, zone, filed, off, scan, started, rows, ghosts, faults, churn>>

\* filled: what the check-in query returned; todo: keys left to enqueue;
\* collided: the insert that raised P2002.
NoScan == [pc |-> "idle", now |-> 0, filled |-> {}, todo |-> {}, collided |-> {}]

Init ==
    /\ clock = 0
    /\ zone \in [Users -> Zones]
    /\ filed = {}
    /\ off = {}
    /\ scan = [s \in Scans |-> NoScan]
    /\ started = 0
    /\ pending = {}
    /\ inflight = [k \in Keys |-> 0]
    /\ sent = [k \in Keys |-> 0]
    /\ enqueued = [k \in Keys |-> 0]
    /\ dueScans = [k \in Keys |-> 0]
    /\ excused = {}
    /\ spared = {}
    /\ touched = {}
    /\ lagged = FALSE
    /\ faults = 0
    /\ churn = 0

-----------------------------------------------------------------------------
(* Local time.                                                             *)

\* localDateOf(t, zone of u) and the local time of day.
LocalDate(u, t) == (t + zone[u]) \div DayLength
LocalTime(u, t) == (t + zone[u]) % DayLength

Window(slot) == IF slot = "morning" THEN MorningWindow ELSE EveningWindow

\* The slot of k is due at instant t, on the member's own day.
Due(k, t) == LocalDate(k.user, t) = k.date /\ LocalTime(k.user, t) \in Window(k.slot)

\* The clock has been running since before the window of k.
Seen(k) == \A h \in Window(k.slot) : k.date * DayLength + h >= zone[k.user]

\* The window of k lies behind instant t.
Over(k, t) ==
    \/ LocalDate(k.user, t) > k.date
    \/ /\ LocalDate(k.user, t) = k.date
       /\ \A h \in Window(k.slot) : LocalTime(k.user, t) > h

IsQuiet(u) == LocalTime(u, clock) \in QuietHours

-----------------------------------------------------------------------------
(* The scan.                                                               *)

\* Mutant: one probe, in the server's zone.
AnyWindowDueServer(t) == t % DayLength \in MorningWindow \cup EveningWindow

\* One probe per distinct zone of the cohort.
AnyWindowDue(t) == \E z \in {zone[u] : u \in Users} :
                       (t + z) % DayLength \in MorningWindow \cup EveningWindow

ScanStart(s) ==
    /\ scan[s].pc = "idle"
    /\ clock % DayLength \in CronTicks
    /\ started < MaxScans
    /\ started' = started + 1
    /\ scan' = IF AnyWindowDue(clock)
                THEN [scan EXCEPT ![s].pc = "checkins", ![s].now = clock] ELSE scan
    /\ dueScans' = [k \in Keys |-> IF Due(k, clock) THEN dueScans[k] + 1 ELSE dueScans[k]]
    /\ UNCHANGED <<clock, zone, filed, off, rows, enqueued, excused, spared,
                   touched, lagged, faults, churn>>

ScanCheckins(s) ==
    /\ scan[s].pc = "checkins"
    /\ scan' = [scan EXCEPT ![s].pc = "offdays", ![s].filled = filed]
    /\ UNCHANGED <<clock, zone, filed, off, started, rows, ghosts, faults, churn>>

\* Mutants: everybody's today is the server's; nobody's check-ins are looked at.
DueKeysServerDate(s) ==
    {k \in Keys : /\ LocalTime(k.user, scan[s].now) \in Window(k.slot)
                  /\ k.date = scan[s].now \div DayLength
                  /\ k \notin scan[s].filled /\ <<k.user, k.date>> \notin off}
DueKeysUnfiltered(s) == {k \in Keys : Due(k, scan[s].now) /\ <<k.user, k.date>> \notin off}

\* Due and unfilled slots of the members whose local today is not off.
DueKeys(s) ==
    {k \in Keys : /\ Due(k, scan[s].now)
                  /\ k \notin scan[s].filled
                  /\ <<k.user, k.date>> \notin off}

ScanOffDays(s) ==
    /\ scan[s].pc = "offdays"
    /\ scan' = [scan EXCEPT ![s].pc = "enqueue", ![s].todo = DueKeys(s)]
    /\ UNCHANGED <<clock, zone, filed, off, started, rows, ghosts, faults, churn>>

\* The partial unique index knows pending rows only.
Duplicate(k) == k \in pending

Enqueue(s, k) ==
    /\ scan[s].pc = "enqueue"
    /\ scan[s].collided = {}
    /\ k \in scan[s].todo
    /\ \/ /\ ~Duplicate(k)
          /\ pending' = pending \cup {k}
          /\ enqueued' = [enqueued EXCEPT ![k] = @ + 1]
          /\ scan' = [scan EXCEPT ![s].todo = @ \ {k}]
          /\ UNCHANGED faults
       \/ /\ Duplicate(k)
          /\ scan' = [scan EXCEPT ![s].collided = {k}]
          /\ UNCHANGED <<pending, enqueued, faults>>
       \/ /\ faults < MaxFaults
          /\ faults' = faults + 1
          /\ scan' = [scan EXCEPT ![s].todo = @ \ {k}]
          /\ UNCHANGED <<pending, enqueued>>
    /\ UNCHANGED <<clock, zone, filed, off, started, inflight, sent, dueScans, excused,
                   spared, touched, lagged, churn>>

\* After P2002 the pending rows of the user and type are looked up; whatever
\* is found, the scan goes on (its counter of errors is left out).
LookUp(s, k) ==
    /\ k \in scan[s].collided
    /\ scan' = [scan EXCEPT ![s].todo = @ \ {k}, ![s].collided = {}]
    /\ UNCHANGED <<clock, zone, filed, off, started, rows, ghosts, faults, churn>>

ScanEnd(s) ==
    /\ scan[s].pc = "enqueue"
    /\ scan[s].todo = {}
    /\ scan' = [scan EXCEPT ![s] = NoScan]
    /\ UNCHANGED <<clock, zone, filed, off, started, rows, ghosts, faults, churn>>

-----------------------------------------------------------------------------
(* The dispatcher, as in NotificationQueue.                                *)

Claim(k) ==
    /\ k \in pending
    /\ pending' = pending \ {k}
    /\ inflight' = [inflight EXCEPT ![k] = @ + 1]
    /\ UNCHANGED <<clock, zone, filed, off, scan, started, sent, ghosts, faults, churn>>

Claimed(k) == inflight[k] > 0

\* In the quiet hours a dated reminder is dropped.
Settle(k) ==
    /\ Claimed(k)
    /\ inflight' = [inflight EXCEPT ![k] = @ - 1]
    /\ \/ IsQuiet(k.user) /\ UNCHANGED <<sent, faults>>
       \/ ~IsQuiet(k.user) /\ sent' = [sent EXCEPT ![k] = @ + 1] /\ UNCHANGED faults
       \/ ~IsQuiet(k.user) /\ faults < MaxFaults /\ faults' = faults + 1 /\ UNCHANGED sent
    /\ UNCHANGED <<clock, zone, filed, off, scan, started, pending, ghosts, churn>>

\* A retry, or the recovery of a stuck row; refused by a pending twin.
PutBack(k) ==
    /\ Claimed(k)
    /\ faults < MaxFaults
    /\ faults' = faults + 1
    /\ k \notin pending
    /\ inflight' = [inflight EXCEPT ![k] = @ - 1]
    /\ pending' = pending \cup {k}
    /\ UNCHANGED <<clock, zone, filed, off, scan, started, sent, ghosts, churn>>

-----------------------------------------------------------------------------
(* Members and time.                                                       *)

\* Keys excused before they are ever due stay out of every scan.
NowExcused(S) == {k \in S : dueScans[k] = 0 /\ ~Due(k, clock)}

FileCheckin(k) ==
    /\ churn < MaxChurn
    /\ churn' = churn + 1
    /\ k.date <= LocalDate(k.user, clock)    \* today, or a day made up for
    /\ filed' = filed \cup {k}
    /\ excused' = excused \cup NowExcused({k})
    /\ touched' = touched \cup {k}
    /\ UNCHANGED <<clock, zone, off, scan, started, rows, enqueued, dueScans, spared,
                   lagged, faults>>

DeclareOffDay(u, d) ==
    /\ churn < MaxChurn
    /\ churn' = churn + 1
    /\ d >= LocalDate(u, clock)
    /\ off' = off \cup {<<u, d>>}
    /\ LET days == {k \in Keys : k.user = u /\ k.date = d} IN
         /\ spared' = spared \cup NowExcused(days)
         /\ touched' = touched \cup days
    /\ UNCHANGED <<clock, zone, filed, scan, started, rows, enqueued, dueScans, excused,
                   lagged, faults>>

WithdrawOffDay(u, d) ==
    /\ churn < MaxChurn
    /\ churn' = churn + 1
    /\ <<u, d>> \in off
    /\ off' = off \ {<<u, d>>}
    /\ spared' = spared \ {k \in Keys : k.user = u /\ k.date = d}
    /\ UNCHANGED <<clock, zone, filed, scan, started, rows, enqueued, dueScans, excused,
                   touched, lagged, faults>>

\* The tick's scan has run and the dispatcher has settled its rows.
KeptUp ==
    /\ clock % DayLength \in CronTicks => started > 0
    /\ \A s \in Scans : scan[s].pc = "idle"
    /\ pending = {}
    /\ \A k \in Keys : inflight[k] = 0

Tick ==
    /\ clock < Horizon
    /\ clock' = clock + 1
    /\ started' = 0
    /\ lagged' = (lagged \/ ~KeptUp)
    /\ UNCHANGED <<zone, filed, off, scan, rows, enqueued, dueScans, excused, spared,
                   touched, faults, churn>>

ScanStep(s) ==
    \/ ScanStart(s) \/ ScanCheckins(s) \/ ScanOffDays(s) \/ ScanEnd(s)
    \/ \E k \in Keys : Enqueue(s, k) \/ LookUp(s, k)

MemberStep ==
    \/ \E k \in Keys : FileCheckin(k)
    \/ \E u \in Users, d \in Dates : DeclareOffDay(u, d) \/ WithdrawOffDay(u, d)

Next ==
    \/ \E s \in Scans : ScanStep(s)
    \/ \E k \in Keys : Claim(k) \/ Settle(k) \/ PutBack(k)
    \/ MemberStep
    \/ Tick

Spec == Init /\ [][Next]_vars

-----------------------------------------------------------------------------
(* Properties.                                                             *)

\* Every variable has its type.
TypeOK ==
    /\ clock \in 0..Horizon
    /\ zone \in [Users -> Zones]
    /\ filed \subseteq Keys
    /\ off \subseteq Users \X Dates
    /\ scan \in [Scans -> [pc : {"idle", "checkins", "offdays", "enqueue"}, now : 0..Horizon,
                           filled : SUBSET Keys, todo : SUBSET Keys, collided : SUBSET Keys]]
    /\ started \in 0..MaxScans
    /\ pending \subseteq Keys
    /\ inflight \in [Keys -> Nat]
    /\ sent \in [Keys -> Nat]
    /\ enqueued \in [Keys -> Nat]
    /\ dueScans \in [Keys -> Nat]
    /\ excused \subseteq Keys
    /\ spared \subseteq Keys
    /\ touched \subseteq Keys
    /\ lagged \in BOOLEAN
    /\ faults \in 0..MaxFaults
    /\ churn \in 0..MaxChurn

\* Whatever the interleaving of scans, retries and recoveries, a member is not
\* reminded of a slot of a day more often than scans have run in its window.
RemindersBoundedByScans ==
    \A k \in Keys : sent[k] + inflight[k] + Cardinality({k} \cap pending) <= dueScans[k]

\* A member who has filed, or is off, before the window opens is left alone, in
\* their own zone, by scans that started earlier as well.
ExcusedAreLeftAlone ==
    [][\A k \in excused \cup spared : enqueued'[k] = enqueued[k]]_vars

\* When the cron and the dispatcher keep up and nothing fails, a member who has
\* neither filed nor an off day has been reminded by the end of the window: a
\* reminder dropped in the quiet hours is not the last one of its window.
ReminderGetsThrough ==
    \A k \in Keys : ~lagged /\ faults = 0 /\ Seen(k) /\ Over(k, clock) /\ k \notin touched =>
        sent[k] > 0

=============================================================================

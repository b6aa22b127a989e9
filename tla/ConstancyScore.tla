---------------------------- MODULE ConstancyScore ----------------------------
(* The daily verification cron and the constancy score (lib/verification/   *)
(* constancy.ts): the ritual scan of yesterday's check-ins, the scans of    *)
(* missed meetings and skipped tracking, and the weekly fold, around one    *)
(* member who files late, takes days off, snoozes, and explains gaps.  The  *)
(* honesty axis, fed by the reconciliation, is left to that module.         *)
EXTENDS Integers, FiniteSets

CONSTANTS
    WeekDays, Weekend,    \* length of a week, its days off by default
    Slots,                \* check-ins of a day
    Meetings, Trackings,  \* what the member owes beyond check-ins
    From, Until,          \* days on which it can be done
    Judged,               \* first day a scan may record it as missed
    MeetingLookback,      \* days a scan still records it
    TrackingLookback,
    DisciplineDays,       \* DISCIPLINE_WINDOW_DAYS
    CancelBack,           \* OFF_DAY_CANCEL_BACK_HORIZON_DAYS
    Runs,                 \* cron runs, retries and manual ones included
    LastDay, MaxMoves, MaxOutages, MaxFaults,  \* bounds
    None

Days == 0..LastDay
Week(d) == d \div WeekDays
Weeks == {Week(d) : d \in Days}
Dues == Meetings \cup Trackings
Keys == Days \cup Dues   \* a gap: of a blank day, or of a due

\* The rows of the tables.
GapRow == [day : Days, open : BOOLEAN]
EventRow == [day : Days, slot : Slots, filled : BOOLEAN, linked : BOOLEAN]
ScoreRow == [filled : SUBSET (Days \X Slots), forgot : SUBSET (Days \X Slots),
             gaps : SUBSET Keys, faced : SUBSET Keys]

ASSUME WeekAssumption == WeekDays \in Nat \ {0} /\ Weekend \subseteq 0..(WeekDays - 1)
ASSUME DuesAssumption ==
    /\ Meetings \cap Trackings = {} /\ Days \cap Dues = {}
    /\ None \notin Keys /\ None \notin GapRow /\ None \notin ScoreRow
    /\ \A f \in {From, Until, Judged} : f \in [Dues -> Nat]
    /\ \A u \in Dues : From[u] <= Until[u] /\ Until[u] < Judged[u]
ASSUME BoundsAssumption ==
    /\ {MeetingLookback, TrackingLookback, DisciplineDays, CancelBack} \subseteq Nat
    /\ {LastDay, MaxMoves, MaxOutages, MaxFaults} \subseteq Nat

VARIABLES
    today,
    ran,          \* a run of today has come to its end without an error
    filed,        \* check-ins: the day each slot of a day was filed, or None
    weekendsOff, offs,   \* the member's rhythm, explicit off days
    done, snoozed, cancelled,   \* dues
    gap,          \* discrepancies: None, or [day detected, open]
    events,       \* score events: [day, slot, filled, linked]
    score,        \* ConstancyScore of a week: None, or what was folded
    run,
    moves, outages, faults   \* bounds

member == <<filed, weekendsOff, offs, done, snoozed, cancelled>>
bounds == <<moves, outages, faults>>
vars == <<today, ran, member, gap, events, score, run, bounds>>

(* ------------------------------------------------------------------ *)
(* What the scans read                                                 *)
(* ------------------------------------------------------------------ *)
IsWeekend(d) == d % WeekDays \in Weekend
IsOff(d) == d \in offs \/ (weekendsOff /\ IsWeekend(d))

Missing(d) == {s \in Slots : filed[<<d, s>>] = None}

Idle == [pc |-> "idle"]
At(r, pc) == run[r].pc = pc
Goto(r, pc) == run' = [run EXCEPT ![r] = [pc |-> pc, now |-> @.now, clean |-> @.clean]]

(* ------------------------------------------------------------------ *)
(* scanRitualsForAllMembers: yesterday                                 *)
(* ------------------------------------------------------------------ *)
\* A member who joined yesterday or later owes nothing for yesterday.
Start(r) ==
    /\ At(r, "idle")
    /\ run' = [run EXCEPT ![r] =
                 IF today = 0 THEN [pc |-> "meetings", now |-> today, clean |-> TRUE]
                 ELSE [pc |-> "blank", now |-> today, clean |-> TRUE,
                       missing |-> Missing(today - 1), off |-> IsOff(today - 1)]]
    /\ UNCHANGED <<today, ran, member, gap, events, score, bounds>>

IsBlank(r) == run[r].missing = Slots /\ ~run[r].off

\* One gap for a blank day: found, created, or lost to the unique index and
\* read again.
BlankDay(r) ==
    /\ At(r, "blank")
    /\ gap' = IF IsBlank(r) /\ gap[run[r].now - 1] = None
              THEN [gap EXCEPT ![run[r].now - 1] = [day |-> run[r].now - 1, open |-> TRUE]]
              ELSE gap
    /\ run' = [run EXCEPT ![r].pc = "events"]
    /\ UNCHANGED <<today, ran, member, events, score, bounds>>

\* A missing slot of an off day is no event; events have deterministic ids,
\* and a duplicate is skipped.
Verdicts(r) ==
    LET forgot == IF run[r].off THEN {} ELSE run[r].missing
    IN {[day |-> run[r].now - 1, slot |-> s, filled |-> s \notin forgot,
         linked |-> s \in forgot /\ IsBlank(r)] : s \in (Slots \ run[r].missing) \cup forgot}

SameId(e, f) == e.day = f.day /\ e.slot = f.slot /\ e.filled = f.filled

RecordEvents(r) ==
    /\ At(r, "events")
    /\ events' = events \cup {e \in Verdicts(r) : ~\E f \in events : SameId(e, f)}
    /\ Goto(r, "meetings")
    /\ UNCHANGED <<today, ran, member, gap, score, bounds>>

(* ------------------------------------------------------------------ *)
(* scanMeetingNoShowsForAllMembers, scanTrackingSkipsForAllMembers     *)
(* ------------------------------------------------------------------ *)
\* Mutant: no look back, a run missed is a gap missed.
InBandOnce(u, now, lookback) == now = Judged[u]

InBand(u, now, lookback) == now \in Judged[u]..(Judged[u] + lookback - 1)

Recorded(us, now) ==
    [k \in Keys |-> IF k \in us /\ gap[k] = None THEN [day |-> now, open |-> TRUE] ELSE gap[k]]

\* Mutant: attendance is not read.
MissedMeetingsAll(now) == {u \in Meetings : InBand(u, now, MeetingLookback) /\ u \notin cancelled}

MissedMeetings(now) ==
    {u \in Meetings : InBand(u, now, MeetingLookback) /\ u \notin done \cup cancelled}

ScanMeetings(r) ==
    /\ At(r, "meetings")
    /\ gap' = Recorded(MissedMeetings(run[r].now), run[r].now)
    /\ Goto(r, "trackings")
    /\ UNCHANGED <<today, ran, member, events, score, bounds>>

SkippedTrackings(now) ==
    {u \in Trackings : InBand(u, now, TrackingLookback) /\ u \notin done \cup snoozed}

ScanTrackings(r) ==
    /\ At(r, "trackings")
    /\ gap' = Recorded(SkippedTrackings(run[r].now), run[r].now)
    /\ Goto(r, "fold")
    /\ UNCHANGED <<today, ran, member, events, score, bounds>>

(* ------------------------------------------------------------------ *)
(* recomputeConstancyForAllMembers: the current week                   *)
(* ------------------------------------------------------------------ *)
\* Mutant: an off day declared or kept after the scan does not count.
ExcusedByMotive(e) == e.linked /\ ~gap[e.day].open

\* isEventExcused: a motive or a retraction on the linked gap, or an off day.
Excused(e) == (e.linked /\ ~gap[e.day].open) \/ IsOff(e.day)

\* Mutant: the window ends before today.
CountedBefore(now) == {k \in Keys : gap[k] # None /\ gap[k].day \in (now - DisciplineDays)..(now - 1)}

\* A gap of the discipline window, and whether it was faced.
Counted(now) == {k \in Keys : gap[k] # None /\ gap[k].day >= now - DisciplineDays}

Faced(k) == ~gap[k].open \/ (k \in Days /\ IsOff(k))

Folded(now) ==
    LET week == {e \in events : Week(e.day) = Week(now)}
        Of(es) == {<<e.day, e.slot>> : e \in es}
    IN [filled |-> Of({e \in week : e.filled}),
        forgot |-> Of({e \in week : ~e.filled /\ ~Excused(e)}),
        gaps   |-> Counted(now),
        faced  |-> {k \in Counted(now) : Faced(k)}]

\* Nothing to fold, no row.
IsSilent(f) == f.filled = {} /\ f.forgot = {} /\ f.gaps = {}

Fold(r) ==
    /\ At(r, "fold")
    /\ run' = [run EXCEPT ![r] = [pc |-> "upsert", now |-> @.now, clean |-> @.clean,
                                  folded |-> Folded(@.now)]]
    /\ UNCHANGED <<today, ran, member, gap, events, score, bounds>>

Upsert(r) ==
    /\ At(r, "upsert")
    /\ score' = IF IsSilent(run[r].folded) THEN score
                ELSE [score EXCEPT ![Week(run[r].now)] = run[r].folded]
    /\ ran' = (ran \/ (run[r].now = today /\ run[r].clean))
    /\ run' = [run EXCEPT ![r] = Idle]
    /\ UNCHANGED <<today, member, gap, events, bounds>>

AfterError(pc) ==
    CASE pc \in {"blank", "events"} -> "meetings"
      [] pc = "meetings" -> "trackings"
      [] pc = "trackings" -> "fold"

\* The run dies, its route throws, or the fold fails for the member; an error
\* caught by one of the scans is counted and the run goes on.
Abort(r) ==
    /\ ~At(r, "idle")
    /\ faults < MaxFaults /\ faults' = faults + 1
    /\ \/ run' = [run EXCEPT ![r] = Idle]
       \/ /\ run[r].pc \in {"blank", "events", "meetings", "trackings"}
          /\ run' = [run EXCEPT ![r] = [pc |-> AfterError(@.pc), now |-> @.now, clean |-> FALSE]]
    /\ UNCHANGED <<today, ran, member, gap, events, score, moves, outages>>

(* ------------------------------------------------------------------ *)
(* The member, the admin, and time                                     *)
(* ------------------------------------------------------------------ *)
Move ==
    /\ moves < MaxMoves /\ moves' = moves + 1
    /\ UNCHANGED <<today, ran, events, score, run, outages, faults>>

\* A check-in can be caught up for sixty days.
File(d, s) ==
    /\ Move
    /\ d <= today /\ filed[<<d, s>>] = None
    /\ filed' = [filed EXCEPT ![<<d, s>>] = today]
    /\ UNCHANGED <<weekendsOff, offs, done, snoozed, cancelled, gap>>

DeclareOff(d) ==
    /\ Move
    /\ d >= today
    /\ offs' = offs \cup {d}
    /\ UNCHANGED <<filed, weekendsOff, done, snoozed, cancelled, gap>>

CancelOff(d) ==
    /\ Move
    /\ d \in offs /\ d >= today - CancelBack
    /\ offs' = offs \ {d}
    /\ UNCHANGED <<filed, weekendsOff, done, snoozed, cancelled, gap>>

SetWeekendsOff ==
    /\ Move
    /\ weekendsOff' = ~weekendsOff
    /\ UNCHANGED <<filed, offs, done, snoozed, cancelled, gap>>

\* Attendance with the content reviewed, or the instrument's entry.
Do(u) ==
    /\ Move
    /\ today \in From[u]..Until[u] /\ u \notin done \cup cancelled
    /\ done' = done \cup {u}
    /\ UNCHANGED <<filed, weekendsOff, offs, snoozed, cancelled, gap>>

\* An absence declared, or an attendance without its content, takes back
\* what was declared before.
Undo(u) ==
    /\ Move
    /\ u \in Meetings /\ today \in From[u]..Until[u] /\ u \in done \ cancelled
    /\ done' = done \ {u}
    /\ UNCHANGED <<filed, weekendsOff, offs, snoozed, cancelled, gap>>

Snooze(u) ==
    /\ Move
    /\ u \in Trackings \ snoozed
    /\ snoozed' = snoozed \cup {u}
    /\ UNCHANGED <<filed, weekendsOff, offs, done, cancelled, gap>>

CancelMeeting(u) ==
    /\ Move
    /\ u \in Meetings \ cancelled
    /\ cancelled' = cancelled \cup {u}
    /\ UNCHANGED <<filed, weekendsOff, offs, done, snoozed, gap>>

\* The member's motive, or the admin's resolution.
Excuse(k) ==
    /\ Move
    /\ gap[k] # None /\ gap[k].open
    /\ gap' = [gap EXCEPT ![k].open = FALSE]
    /\ UNCHANGED member

\* The cron runs every day but for an outage; no run lasts past a second
\* midnight.
Tick ==
    /\ today < LastDay
    /\ \A r \in Runs : run[r].pc # "idle" => run[r].now = today
    /\ outages' = IF ran THEN outages ELSE outages + 1
    /\ outages' <= MaxOutages
    /\ today' = today + 1 /\ ran' = FALSE
    /\ UNCHANGED <<member, gap, events, score, run, moves, faults>>

Init ==
    /\ today = 0 /\ ran = FALSE
    /\ filed = [x \in Days \X Slots |-> None]
    /\ weekendsOff = TRUE /\ offs = {}
    /\ done = {} /\ snoozed = {} /\ cancelled = {}
    /\ gap = [k \in Keys |-> None]
    /\ events = {}
    /\ score = [w \in Weeks |-> None]
    /\ run = [r \in Runs |-> Idle]
    /\ moves = 0 /\ outages = 0 /\ faults = 0

RunStep(r) ==
    Start(r) \/ BlankDay(r) \/ RecordEvents(r) \/ ScanMeetings(r) \/ ScanTrackings(r)
        \/ Fold(r) \/ Upsert(r)

Next ==
    \/ \E r \in Runs : RunStep(r) \/ Abort(r)
    \/ \E d \in Days : DeclareOff(d) \/ CancelOff(d) \/ \E s \in Slots : File(d, s)
    \/ SetWeekendsOff
    \/ \E u \in Dues : Do(u) \/ Undo(u) \/ Snooze(u) \/ CancelMeeting(u)
    \/ \E k \in Keys : Excuse(k)
    \/ Tick

Spec == Init /\ [][Next]_vars

\* The cron comes back and goes on; no day has to pass.
FairSpec == Spec /\ WF_vars(\E r \in Runs : RunStep(r))

(* ------------------------------------------------------------------ *)
(* Properties                                                          *)
(* ------------------------------------------------------------------ *)
TypeOK ==
    /\ today \in Days /\ ran \in BOOLEAN
    /\ filed \in [Days \X Slots -> Days \cup {None}]
    /\ weekendsOff \in BOOLEAN /\ offs \subseteq Days
    /\ done \cup snoozed \cup cancelled \subseteq Dues
    /\ gap \in [Keys -> GapRow \cup {None}]
    /\ events \subseteq EventRow
    /\ score \in [Weeks -> ScoreRow \cup {None}] /\ DOMAIN run = Runs
    /\ moves \in 0..MaxMoves /\ outages \in 0..MaxOutages /\ faults \in 0..MaxFaults

\* "No unjust accusation": what was done in time is never held against the
\* member, whichever runs race or die.
OnTime(d, s) == filed[<<d, s>>] # None /\ filed[<<d, s>>] <= d

NoUnjustAccusation ==
    /\ \A e \in events : ~e.filled => ~OnTime(e.day, e.slot)
    /\ \A k \in Keys : gap[k] # None =>
          IF k \in Days THEN \A s \in Slots : ~OnTime(k, s) ELSE k \notin done

\* The scans come "BEFORE the fold so the new gaps land in this run's
\* constancy": once a run of today has ended without error, the week's score
\* counts every gap detected today.
GapsCountTheSameDay ==
    ran /\ (\A r \in Runs : At(r, "idle")) =>
        \A u \in Dues : gap[u] # None /\ gap[u].day = today =>
            score[Week(today)] # None /\ u \in score[Week(today)].gaps

\* "A single missed cron run is recovered": what was owed and not done is a
\* gap before a scan stops looking for it, though the runs of MaxOutages days
\* be missed, die or meet an error.
Owed(u) == u \notin done \cup snoozed \cup cancelled

MissIsRecorded ==
    \A u \in Dues : today > Judged[u] + MaxOutages /\ Owed(u) => gap[u] # None

\* "Le score remonte": a forgotten slot that the member explained, or whose
\* day turns out to be off, leaves the score of its week at the next run,
\* while that week is the current one.
Pardoned(d, s) ==
    /\ Week(d) = Week(today)
    /\ \E e \in events : /\ e.day = d /\ e.slot = s /\ ~e.filled
                         /\ IsOff(d) \/ (e.linked /\ ~gap[d].open)

Penalised(d, s) == score[Week(d)] # None /\ <<d, s>> \in score[Week(d)].forgot

MotifHeals ==
    []<>(\A d \in Days, s \in Slots : ~(Pardoned(d, s) /\ Penalised(d, s)))

\* "Anchoring createdAt to yesterdayDate keeps every ritual event in the week
\* it belongs to": every event counts in its week's score.
EveryDayCounts ==
    \A d \in Days, s \in Slots :
        (\E e \in events : e.day = d /\ e.slot = s /\ e.filled)
            ~> (score[Week(d)] # None /\ <<d, s>> \in score[Week(d)].filled)

\* "A re-run of the cron never emits twice": a slot has one verdict.
OneVerdictPerSlot ==
    \A e, f \in events : e.day = f.day /\ e.slot = f.slot => e = f
=============================================================================

------------------------ MODULE ConstancyScoreProofs ------------------------
(* Theorems about ConstancyScore: nothing done in time is held against the   *)
(* member, nothing owed is forgotten, the gaps of a day are in its score.    *)
EXTENDS ConstancyScore, TLAPS

(* ------------------------------------------------------------------ *)
(* The inductive invariants                                            *)
(* ------------------------------------------------------------------ *)
\* What a run carries on day t.
RunOK(j, t) ==
    /\ j.pc \in {"idle", "blank", "events", "meetings", "trackings", "fold", "upsert"}
    /\ j.pc # "idle" => j.now \in Days /\ j.now <= t /\ j.clean \in BOOLEAN
    /\ j.pc \in {"blank", "events"} =>
          /\ j \in [pc : {"blank", "events"}, now : Days, clean : BOOLEAN,
                    missing : SUBSET Slots, off : BOOLEAN]
          /\ j.now # 0
    /\ j.pc = "upsert" => j.folded \in ScoreRow

RunsOK == \A r \in Runs : RunOK(run[r], today)

\* What is held against a slot is not of today, nor was the slot filed in
\* time when the run read it: it never will be.
MissingIsLate ==
    \A r \in Runs : run[r].pc \in {"blank", "events"} =>
        \A s \in run[r].missing : ~OnTime(run[r].now - 1, s)

VerdictsArePast ==
    /\ \A e \in events : e.day < today
    /\ \A d \in Days : gap[d] # None => d < today

\* A due has a gap only once it is too late to do it.
GapsAreLate == \A u \in Dues : gap[u] # None => Judged[u] <= today

\* A run of today that met no error has recorded what it looked for, and a
\* due still owed without a gap has seen one outage a day since it is judged.
Found(us) == \A u \in us : gap[u] # None

ScansRecord ==
    \A r \in Runs : run[r].pc # "idle" /\ run[r].now = today /\ run[r].clean =>
        /\ run[r].pc \in {"trackings", "fold", "upsert"} => Found(MissedMeetings(today))
        /\ run[r].pc \in {"fold", "upsert"} => Found(SkippedTrackings(today))

RanRecords == ran => Found(MissedMeetings(today)) /\ Found(SkippedTrackings(today))

OneOutageADay ==
    \A u \in Dues : Owed(u) /\ gap[u] = None /\ Judged[u] <= today =>
        today - Judged[u] <= outages

\* With one run at a time: what it has folded counts the gaps of its day, and
\* so does the score once it has ended.
NewGaps(t) == {u \in Dues : gap[u] # None /\ gap[u].day = t}

GapsArePast == \A u \in Dues : gap[u] # None => gap[u].day <= today

FoldCounts ==
    \A r \in Runs : run[r].pc = "upsert" /\ run[r].now = today =>
        NewGaps(today) \subseteq run[r].folded.gaps

ScoreCounts ==
    ran /\ NewGaps(today) # {} =>
        score[Week(today)] # None /\ NewGaps(today) \subseteq score[Week(today)].gaps

RunsOfToday == ran => \A r \in Runs : run[r].pc # "idle" => run[r].now = today

TypeInv == TypeOK /\ RunsOK
AccusationInv == TypeInv /\ MissingIsLate /\ VerdictsArePast /\ GapsAreLate /\ NoUnjustAccusation
RecordInv == TypeInv /\ ScansRecord /\ RanRecords /\ OneOutageADay
SameDayInv == RecordInv /\ GapsArePast /\ FoldCounts /\ ScoreCounts /\ RunsOfToday

(* ------------------------------------------------------------------ *)
(* Type correctness                                                    *)
(* ------------------------------------------------------------------ *)
LEMMA Numbers ==
    /\ LastDay \in Nat /\ MaxMoves \in Nat /\ MaxOutages \in Nat /\ MaxFaults \in Nat
    /\ DisciplineDays \in Nat /\ MeetingLookback \in Nat /\ TrackingLookback \in Nat
    /\ Days = 0..LastDay
    /\ \A d \in Days : Week(d) \in Weeks
BY BoundsAssumption DEF Days, Weeks

LEMMA VerdictRows ==
    ASSUME NEW r \in Runs, RunOK(run[r], today), run[r].pc = "events"
    PROVE  /\ Verdicts(r) \subseteq EventRow
           /\ \A e \in Verdicts(r) : e.day = run[r].now - 1 /\ (~e.filled => e.slot \in run[r].missing)
<1>1. /\ run[r].missing \subseteq Slots
      /\ run[r].now - 1 \in Days
  BY Numbers DEF RunOK
<1> DEFINE forgot == IF run[r].off THEN {} ELSE run[r].missing
           filled(s) == s \notin forgot
           linked(s) == s \in forgot /\ IsBlank(r)
<1>2. forgot \subseteq Slots
  BY <1>1
<1>3. Verdicts(r) = {[day |-> run[r].now - 1, slot |-> s, filled |-> filled(s), linked |-> linked(s)] :
                       s \in (Slots \ run[r].missing) \cup forgot}
  BY DEF Verdicts
<1>4. \A s : filled(s) \in BOOLEAN /\ linked(s) \in BOOLEAN
  OBVIOUS
<1>5. \A s : ~filled(s) => s \in run[r].missing
  OBVIOUS
<1> HIDE DEF forgot, filled, linked
<1> QED
  BY <1>1, <1>2, <1>3, <1>4, <1>5 DEF EventRow

LEMMA FoldedRow ==
    ASSUME TypeOK, NEW now PROVE Folded(now) \in ScoreRow
<1> DEFINE week == {e \in events : Week(e.day) = Week(now)}
           Of(es) == {<<e.day, e.slot>> : e \in es}
<1>1. \A e \in week : e.day \in Days /\ e.slot \in Slots
  BY DEF TypeOK, EventRow
<1>2. \A es \in SUBSET week : Of(es) \in SUBSET (Days \X Slots)
  BY <1>1
<1>3. Counted(now) \in SUBSET Keys
  BY DEF Counted
<1>4. Folded(now) =
        [filled |-> Of({e \in week : e.filled}),
         forgot |-> Of({e \in week : ~e.filled /\ ~Excused(e)}),
         gaps   |-> Counted(now),
         faced  |-> {k \in Counted(now) : Faced(k)}]
  BY DEF Folded
<1>5. {e \in week : e.filled} \in SUBSET week /\ {e \in week : ~e.filled /\ ~Excused(e)} \in SUBSET week
  OBVIOUS
<1>6. {k \in Counted(now) : Faced(k)} \in SUBSET Keys
  BY <1>3
<1> HIDE DEF week, Of
<1> QED
  BY <1>2, <1>3, <1>4, <1>5, <1>6 DEF ScoreRow

LEMMA RecordedRows ==
    ASSUME TypeOK, NEW us, NEW now \in Days
    PROVE  Recorded(us, now) \in [Keys -> GapRow \cup {None}]
BY DEF TypeOK, Recorded, GapRow

\* A run's record replaced.
LEMMA RunReplaced ==
    ASSUME TypeInv, NEW r \in Runs, NEW j, RunOK(j, today), run' = [run EXCEPT ![r] = j],
           UNCHANGED today
    PROVE  /\ RunsOK' /\ DOMAIN run' = Runs
           /\ run'[r] = j /\ \A q \in Runs \ {r} : run'[q] = run[q]
<1>1. /\ DOMAIN run' = Runs
      /\ run'[r] = j /\ \A q \in Runs \ {r} : run'[q] = run[q]
  BY DEF TypeInv, TypeOK
<1>2. \A q \in Runs : RunOK(run'[q], today)
  BY <1>1 DEF TypeInv, RunsOK
<1> QED
  BY <1>1, <1>2 DEF RunsOK

LEMMA IdleOK == ASSUME NEW t PROVE RunOK(Idle, t)
BY DEF RunOK, Idle

\* On to a step that reads nothing of what was read before.
LEMMA OnwardOK ==
    ASSUME TypeInv, NEW r \in Runs, run[r].pc # "idle",
           NEW pc \in {"meetings", "trackings", "fold"}, NEW clean \in {run[r].clean, FALSE}
    PROVE  RunOK([pc |-> pc, now |-> run[r].now, clean |-> clean], today)
BY DEF TypeInv, RunsOK, RunOK

\* What each step of a run leaves in its record.
RunMove(r) ==
    \E j : RunOK(j, today) /\ run' = [run EXCEPT ![r] = j]

LEMMA RunMoves ==
    ASSUME TypeInv, NEW r \in Runs, RunStep(r) \/ Abort(r)
    PROVE  RunMove(r)
<1>0. TypeOK /\ RunOK(run[r], today) /\ today \in Days
  BY DEF TypeInv, RunsOK, TypeOK
<1>1. CASE Start(r)
  <2>1. CASE today = 0
    <3> DEFINE j == [pc |-> "meetings", now |-> today, clean |-> TRUE]
    <3>1. RunOK(j, today)
      BY <1>0, Numbers DEF RunOK
    <3>2. run' = [run EXCEPT ![r] = j]
      BY <1>1, <2>1 DEF Start
    <3> QED
      BY <3>1, <3>2 DEF RunMove
  <2>2. CASE today # 0
    <3> DEFINE j == [pc |-> "blank", now |-> today, clean |-> TRUE,
                     missing |-> Missing(today - 1), off |-> IsOff(today - 1)]
    <3>1. Missing(today - 1) \in SUBSET Slots
      BY DEF Missing
    <3>2. IsOff(today - 1) \in BOOLEAN
      BY DEF IsOff
    <3>3. RunOK(j, today)
      BY <1>0, <2>2, <3>1, <3>2, Numbers DEF RunOK
    <3>4. run' = [run EXCEPT ![r] = j]
      BY <1>1, <2>2 DEF Start
    <3> QED
      BY <3>3, <3>4 DEF RunMove
  <2> QED
    BY <2>1, <2>2
<1>2. CASE BlankDay(r)
  <2> DEFINE j == [run[r] EXCEPT !.pc = "events"]
  <2>1. RunOK(j, today)
    BY <1>0, <1>2 DEF RunOK, BlankDay, At
  <2>2. run' = [run EXCEPT ![r] = j]
    BY <1>2 DEF BlankDay
  <2> QED
    BY <2>1, <2>2 DEF RunMove
<1>3. CASE RecordEvents(r)
  <2>1. RunOK([pc |-> "meetings", now |-> run[r].now, clean |-> run[r].clean], today)
    BY <1>3, OnwardOK DEF RecordEvents, At
  <2>2. run' = [run EXCEPT ![r] = [pc |-> "meetings", now |-> run[r].now, clean |-> run[r].clean]]
    BY <1>3 DEF RecordEvents, Goto
  <2> QED
    BY <2>1, <2>2 DEF RunMove
<1>4. CASE ScanMeetings(r)
  <2>1. RunOK([pc |-> "trackings", now |-> run[r].now, clean |-> run[r].clean], today)
    BY <1>4, OnwardOK DEF ScanMeetings, At
  <2>2. run' = [run EXCEPT ![r] = [pc |-> "trackings", now |-> run[r].now, clean |-> run[r].clean]]
    BY <1>4 DEF ScanMeetings, Goto
  <2> QED
    BY <2>1, <2>2 DEF RunMove
<1>5. CASE ScanTrackings(r)
  <2>1. RunOK([pc |-> "fold", now |-> run[r].now, clean |-> run[r].clean], today)
    BY <1>5, OnwardOK DEF ScanTrackings, At
  <2>2. run' = [run EXCEPT ![r] = [pc |-> "fold", now |-> run[r].now, clean |-> run[r].clean]]
    BY <1>5 DEF ScanTrackings, Goto
  <2> QED
    BY <2>1, <2>2 DEF RunMove
<1>6. CASE Fold(r)
  <2> DEFINE f == Folded(run[r].now)
             j == [pc |-> "upsert", now |-> run[r].now, clean |-> run[r].clean, folded |-> f]
  <2>1. f \in ScoreRow
    BY <1>0, FoldedRow
  <2>2. run' = [run EXCEPT ![r] = j]
    BY <1>6 DEF Fold
  <2> HIDE DEF f
  <2>3. RunOK(j, today)
    BY <1>0, <1>6, <2>1 DEF RunOK, Fold, At
  <2> QED
    BY <2>2, <2>3 DEF RunMove
<1>7. CASE Upsert(r)
  BY <1>7, IdleOK DEF Upsert, RunMove
<1>8. CASE Abort(r)
  <2>1. CASE run' = [run EXCEPT ![r] = Idle]
    BY <2>1, IdleOK DEF RunMove
  <2>2. CASE /\ run[r].pc \in {"blank", "events", "meetings", "trackings"}
             /\ run' = [run EXCEPT ![r] = [pc |-> AfterError(@.pc), now |-> @.now, clean |-> FALSE]]
    <3> DEFINE pc == AfterError(run[r].pc)
               j == [pc |-> pc, now |-> run[r].now, clean |-> FALSE]
    <3>1. pc \in {"meetings", "trackings", "fold"}
      BY <2>2 DEF AfterError
    <3>2. run' = [run EXCEPT ![r] = j]
      BY <2>2
    <3> HIDE DEF pc
    <3>3. RunOK(j, today)
      BY <2>2, <3>1, OnwardOK
    <3> QED
      BY <3>2, <3>3 DEF RunMove
  <2> QED
    BY <1>8, <2>1, <2>2 DEF Abort
<1> QED
  BY <1>1, <1>2, <1>3, <1>4, <1>5, <1>6, <1>7, <1>8 DEF RunStep

LEMMA TypeStep == TypeInv /\ [Next]_vars => TypeInv'
<1> SUFFICES ASSUME TypeInv, [Next]_vars PROVE TypeInv'
  OBVIOUS
<1>0. TypeOK
  BY DEF TypeInv
<1>1. ASSUME NEW r \in Runs, RunStep(r) \/ Abort(r) PROVE TypeInv'
  <2>1. PICK j : RunOK(j, today) /\ run' = [run EXCEPT ![r] = j]
    BY <1>1, RunMoves DEF RunMove
  <2>2. UNCHANGED <<today, member>>
    BY <1>1 DEF RunStep, Start, BlankDay, RecordEvents, ScanMeetings, ScanTrackings, Fold, Upsert, Abort
  <2>3. RunsOK' /\ DOMAIN run' = Runs
    BY <2>1, <2>2, RunReplaced
  <2>4. RunOK(run[r], today) /\ run[r].pc # "idle" => run[r].now \in Days
    BY <1>0 DEF TypeInv, RunsOK, RunOK
  <2>5. gap' \in [Keys -> GapRow \cup {None}]
    <3>1. CASE BlankDay(r)
      <4>1. run[r].now - 1 \in Days
        BY <2>4, <3>1, Numbers DEF RunOK, BlankDay, At, TypeInv, RunsOK
      <4> QED
        BY <1>0, <3>1, <4>1 DEF BlankDay, TypeOK, GapRow
    <3>2. CASE ScanMeetings(r) \/ ScanTrackings(r)
      BY <1>0, <2>4, <3>2, RecordedRows DEF ScanMeetings, ScanTrackings, At, TypeInv, RunsOK
    <3>3. CASE UNCHANGED gap
      BY <1>0, <3>3 DEF TypeOK
    <3> QED
      BY <1>1, <3>1, <3>2, <3>3 DEF RunStep, Start, RecordEvents, Fold, Upsert, Abort
  <2>6. events' \subseteq EventRow
    <3>1. CASE RecordEvents(r)
      BY <1>0, <3>1, VerdictRows DEF RecordEvents, At, TypeInv, RunsOK, TypeOK
    <3>2. CASE UNCHANGED events
      BY <1>0, <3>2 DEF TypeOK
    <3> QED
      BY <1>1, <3>1, <3>2 DEF RunStep, Start, BlankDay, ScanMeetings, ScanTrackings, Fold, Upsert, Abort
  <2>7. score' \in [Weeks -> ScoreRow \cup {None}]
    <3>1. CASE Upsert(r)
      <4>1. run[r].folded \in ScoreRow
        BY <3>1 DEF TypeInv, RunsOK, RunOK, Upsert, At
      <4> QED
        BY <1>0, <3>1, <4>1 DEF Upsert, TypeOK
    <3>2. CASE UNCHANGED score
      BY <1>0, <3>2 DEF TypeOK
    <3> QED
      BY <1>1, <3>1, <3>2 DEF RunStep, Start, BlankDay, RecordEvents, ScanMeetings, ScanTrackings, Fold, Abort
  <2>8. ran' \in BOOLEAN
    BY <1>0, <1>1 DEF RunStep, Start, BlankDay, RecordEvents, ScanMeetings, ScanTrackings, Fold, Upsert, Abort, TypeOK
  <2>9. moves' \in 0..MaxMoves /\ outages' \in 0..MaxOutages /\ faults' \in 0..MaxFaults
    BY <1>0, <1>1, Numbers DEF RunStep, Start, BlankDay, RecordEvents, ScanMeetings, ScanTrackings, Fold, Upsert,
                      Abort, TypeOK, bounds
  <2> QED
    BY <1>0, <2>2, <2>3, <2>5, <2>6, <2>7, <2>8, <2>9 DEF TypeInv, TypeOK, member
<1>2. ASSUME UNCHANGED <<today, run>> PROVE RunsOK'
  BY <1>2 DEF TypeInv, RunsOK
<1>3. ASSUME Move PROVE /\ UNCHANGED <<today, ran, events, score, run, outages, faults>>
                        /\ moves' \in 0..MaxMoves
  BY <1>0, <1>3, Numbers DEF Move, TypeOK
<1>4. ASSUME NEW d \in Days, DeclareOff(d) \/ CancelOff(d) \/ \E s \in Slots : File(d, s) PROVE TypeInv'
  <2>1. Move /\ UNCHANGED <<weekendsOff, done, snoozed, cancelled, gap>>
    BY <1>4 DEF DeclareOff, CancelOff, File
  <2>2. offs' \subseteq Days
    BY <1>0, <1>4 DEF DeclareOff, CancelOff, File, TypeOK
  <2>3. filed' \in [Days \X Slots -> Days \cup {None}]
    <3>1. CASE \E s \in Slots : File(d, s)
      BY <1>0, <3>1 DEF File, TypeOK
    <3>2. CASE UNCHANGED filed
      BY <1>0, <3>2 DEF TypeOK
    <3> QED
      BY <1>4, <3>1, <3>2 DEF DeclareOff, CancelOff
  <2> QED
    BY <1>0, <1>2, <1>3, <2>1, <2>2, <2>3 DEF TypeInv, TypeOK
<1>5. CASE SetWeekendsOff
  BY <1>0, <1>2, <1>3, <1>5 DEF SetWeekendsOff, TypeInv, TypeOK
<1>6. ASSUME NEW u \in Dues, Do(u) \/ Undo(u) \/ Snooze(u) \/ CancelMeeting(u) PROVE TypeInv'
  <2>1. Move /\ UNCHANGED <<filed, weekendsOff, offs, gap>>
    BY <1>6 DEF Do, Undo, Snooze, CancelMeeting
  <2>2. done' \cup snoozed' \cup cancelled' \subseteq Dues
    BY <1>0, <1>6 DEF Do, Undo, Snooze, CancelMeeting, TypeOK
  <2> QED
    BY <1>0, <1>2, <1>3, <2>1, <2>2 DEF TypeInv, TypeOK
<1>7. ASSUME NEW k \in Keys, Excuse(k) PROVE TypeInv'
  <2>1. gap' \in [Keys -> GapRow \cup {None}]
    BY <1>0, <1>7 DEF Excuse, TypeOK, GapRow
  <2> QED
    BY <1>0, <1>2, <1>3, <1>7, <2>1 DEF Excuse, member, TypeInv, TypeOK
<1>8. CASE Tick
  <2>1. today' \in Days /\ today <= today' /\ today \in Days
    BY <1>0, <1>8, Numbers DEF Tick, TypeOK
  <2>2. RunsOK'
    <3> SUFFICES ASSUME NEW r \in Runs PROVE RunOK(run[r], today')
      BY <1>8 DEF Tick, RunsOK
    <3>1. RunOK(run[r], today)
      BY DEF TypeInv, RunsOK
    <3> QED
      BY <2>1, <3>1, Numbers DEF RunOK
  <2>3. outages' \in 0..MaxOutages
    BY <1>0, <1>8, Numbers DEF Tick, TypeOK
  <2> QED
    BY <1>0, <1>8, <2>1, <2>2, <2>3 DEF Tick, member, TypeInv, TypeOK
<1>9. CASE UNCHANGED vars
  BY <1>0, <1>2, <1>9 DEF vars, member, bounds, TypeInv, TypeOK
<1> QED
  BY <1>1, <1>4, <1>5, <1>6, <1>7, <1>8, <1>9 DEF Next

(* ------------------------------------------------------------------ *)
(* How the tables change                                               *)
(* ------------------------------------------------------------------ *)
LEMMA RunFacts ==
    ASSUME TypeInv, NEW r \in Runs, run[r].pc # "idle"
    PROVE  /\ run[r].now \in Days /\ run[r].now <= today /\ today \in Days
           /\ run[r].pc \in {"blank", "events"} =>
                 /\ run[r].now - 1 \in Days /\ run[r].now - 1 < today
                 /\ run[r].missing \subseteq Slots
BY Numbers DEF TypeInv, TypeOK, RunsOK, RunOK

\* The step of a run that opens the gap k.
Discovers(r, k) ==
    \/ BlankDay(r) /\ IsBlank(r) /\ k = run[r].now - 1
    \/ ScanMeetings(r) /\ k \in MissedMeetings(run[r].now)
    \/ ScanTrackings(r) /\ k \in SkippedTrackings(run[r].now)

\* A gap keeps its day; a new one is one that a run discovers.
GapMove(k) ==
    IF gap[k] # None THEN gap'[k] # None /\ gap'[k].day = gap[k].day
    ELSE gap'[k] # None =>
            \E r \in Runs : Discovers(r, k) /\ (k \in Dues => gap'[k].day = run[r].now)

LEMMA ScannedGaps ==
    ASSUME TypeInv, NEW r \in Runs, NEW us, NEW k \in Keys, gap' = Recorded(us, run[r].now),
           k \in us => Discovers(r, k)
    PROVE  GapMove(k)
BY DEF TypeInv, TypeOK, GapRow, Recorded, GapMove

LEMMA GapMoves == ASSUME TypeInv, [Next]_vars, NEW k \in Keys PROVE GapMove(k)
<1>0. gap \in [Keys -> GapRow \cup {None}]
  BY DEF TypeInv, TypeOK
<1>1. ASSUME UNCHANGED gap PROVE GapMove(k)
  BY <1>1 DEF GapMove
<1>2. ASSUME NEW r \in Runs, BlankDay(r) PROVE GapMove(k)
  <2>1. run[r].now - 1 \in Days
    BY <1>2, RunFacts DEF BlankDay, At
  <2>2. k \in Dues => k # run[r].now - 1
    BY <2>1, DuesAssumption
  <2>3. CASE IsBlank(r) /\ gap[run[r].now - 1] = None
    <3>1. gap' = [gap EXCEPT ![run[r].now - 1] = [day |-> run[r].now - 1, open |-> TRUE]]
      BY <1>2, <2>3 DEF BlankDay
    <3>2. CASE k = run[r].now - 1
      BY <1>2, <2>2, <2>3, <3>2 DEF GapMove, Discovers
    <3>3. CASE k # run[r].now - 1
      BY <1>0, <3>1, <3>3 DEF GapMove
    <3> QED
      BY <3>2, <3>3
  <2>4. CASE ~(IsBlank(r) /\ gap[run[r].now - 1] = None)
    BY <1>1, <1>2, <2>4 DEF BlankDay
  <2> QED
    BY <2>3, <2>4
<1>3. ASSUME NEW r \in Runs, ScanMeetings(r) PROVE GapMove(k)
  BY <1>3, ScannedGaps DEF ScanMeetings, Discovers
<1>4. ASSUME NEW r \in Runs, ScanTrackings(r) PROVE GapMove(k)
  BY <1>4, ScannedGaps DEF ScanTrackings, Discovers
<1>5. ASSUME NEW l \in Keys, Excuse(l) PROVE GapMove(k)
  <2>1. gap[l] # None /\ gap[l] \in GapRow /\ gap' = [gap EXCEPT ![l].open = FALSE]
    BY <1>0, <1>5 DEF Excuse
  <2>2. CASE k = l
    <3>1. gap'[k] \in GapRow /\ gap'[k].day = gap[k].day
      BY <1>0, <2>1, <2>2 DEF GapRow
    <3>2. gap'[k] # None
      BY <3>1, DuesAssumption
    <3> QED
      BY <2>1, <2>2, <3>1, <3>2 DEF GapMove
  <2>3. CASE k # l
    BY <1>0, <2>1, <2>3 DEF GapMove
  <2> QED
    BY <2>2, <2>3
<1>6. ASSUME \/ \E r \in Runs : Start(r) \/ RecordEvents(r) \/ Fold(r) \/ Upsert(r) \/ Abort(r)
             \/ \E d \in Days : DeclareOff(d) \/ CancelOff(d) \/ \E s \in Slots : File(d, s)
             \/ SetWeekendsOff
             \/ \E u \in Dues : Do(u) \/ Undo(u) \/ Snooze(u) \/ CancelMeeting(u)
             \/ Tick \/ UNCHANGED vars
      PROVE  UNCHANGED gap
  BY <1>6 DEF Start, RecordEvents, Fold, Upsert, Abort, DeclareOff, CancelOff, File, SetWeekendsOff,
              Do, Undo, Snooze, CancelMeeting, Tick, vars
<1> QED
  BY <1>1, <1>2, <1>3, <1>4, <1>5, <1>6 DEF Next, RunStep

\* What was not filed in time never will have been.
LEMMA LateStaysLate ==
    ASSUME TypeInv, [Next]_vars, NEW d \in Days, NEW s \in Slots, d < today, ~OnTime(d, s)
    PROVE  ~OnTime(d, s)'
<1>0. /\ filed \in [Days \X Slots -> Days \cup {None}] /\ <<d, s>> \in Days \X Slots
      /\ today \in Nat /\ d \in Nat
  BY Numbers DEF TypeInv, TypeOK
<1>1. CASE \E e \in Days : \E x \in Slots : File(e, x)
  BY <1>0, <1>1 DEF File, OnTime
<1>2. ASSUME UNCHANGED filed PROVE ~OnTime(d, s)'
  BY <1>2 DEF OnTime
<1>3. ASSUME \/ \E r \in Runs : RunStep(r) \/ Abort(r)
             \/ \E e \in Days : DeclareOff(e) \/ CancelOff(e)
             \/ SetWeekendsOff
             \/ \E u \in Dues : Do(u) \/ Undo(u) \/ Snooze(u) \/ CancelMeeting(u)
             \/ \E k \in Keys : Excuse(k)
             \/ Tick \/ UNCHANGED vars
      PROVE  UNCHANGED filed
  BY <1>3 DEF RunStep, Start, BlankDay, RecordEvents, ScanMeetings, ScanTrackings, Fold, Upsert, Abort,
              DeclareOff, CancelOff, SetWeekendsOff, Do, Undo, Snooze, CancelMeeting, Excuse, Tick,
              member, vars
<1> QED
  BY <1>1, <1>2, <1>3 DEF Next

\* A due is done before it is judged.
LEMMA DoneInTime ==
    ASSUME TypeInv, [Next]_vars, NEW u \in Dues, u \in done', u \notin done
    PROVE  today < Judged[u]
<1>1. CASE \E v \in Dues : Do(v)
  <2>1. Do(u)
    BY <1>1 DEF Do
  <2> QED
    BY <2>1, DuesAssumption, Numbers DEF Do, TypeInv, TypeOK
<1>2. ASSUME \/ \E r \in Runs : RunStep(r) \/ Abort(r)
             \/ \E d \in Days : DeclareOff(d) \/ CancelOff(d) \/ \E s \in Slots : File(d, s)
             \/ SetWeekendsOff
             \/ \E v \in Dues : Undo(v) \/ Snooze(v) \/ CancelMeeting(v)
             \/ \E k \in Keys : Excuse(k)
             \/ Tick \/ UNCHANGED vars
      PROVE  done' \subseteq done
  BY <1>2 DEF RunStep, Start, BlankDay, RecordEvents, ScanMeetings, ScanTrackings, Fold, Upsert, Abort,
              DeclareOff, CancelOff, File, SetWeekendsOff, Undo, Snooze, CancelMeeting, Excuse, Tick,
              member, vars
<1> QED
  BY <1>1, <1>2 DEF Next

LEMMA TimeGoesOn == ASSUME TypeInv, [Next]_vars PROVE today \in Nat /\ today' \in Nat /\ today <= today'
<1>1. TypeInv' /\ today \in Nat
  BY TypeStep, Numbers DEF TypeInv, TypeOK
<1>2. CASE Tick
  BY <1>1, <1>2 DEF Tick
<1>3. CASE UNCHANGED today
  BY <1>1, <1>3
<1> QED
  BY <1>2, <1>3 DEF Next, RunStep, Start, BlankDay, RecordEvents, ScanMeetings, ScanTrackings, Fold, Upsert,
     Abort, DeclareOff, CancelOff, File, SetWeekendsOff, Do, Undo, Snooze, CancelMeeting, Excuse, Move, vars

\* What a run holds against yesterday is what it read, at its start.
LEMMA MissingMoves ==
    ASSUME TypeInv, [Next]_vars, NEW r \in Runs, run'[r].pc \in {"blank", "events"}
    PROVE  \/ /\ today # 0 /\ run'[r].now = today
              /\ run'[r].missing = Missing(today - 1)
           \/ /\ run[r].pc \in {"blank", "events"}
              /\ run'[r].now = run[r].now /\ run'[r].missing = run[r].missing
<1> DEFINE Kept == /\ run[r].pc \in {"blank", "events"}
                   /\ run'[r].now = run[r].now /\ run'[r].missing = run[r].missing
<1>0. DOMAIN run = Runs
  BY DEF TypeInv, TypeOK
<1>1. CASE Start(r)
  BY <1>0, <1>1 DEF Start
<1>2. CASE BlankDay(r)
  <2>1. run[r].pc = "blank" /\ run' = [run EXCEPT ![r].pc = "events"]
    BY <1>2 DEF BlankDay, At
  <2>2. run[r] \in [pc : {"blank", "events"}, now : Days, clean : BOOLEAN,
                    missing : SUBSET Slots, off : BOOLEAN]
    BY <2>1 DEF TypeInv, RunsOK, RunOK
  <2>3. Kept
    BY <1>0, <2>1, <2>2
  <2> QED
    BY <2>3
<1>3. CASE RecordEvents(r) \/ ScanMeetings(r) \/ ScanTrackings(r) \/ Fold(r) \/ Upsert(r) \/ Abort(r)
  <2>1. run'[r].pc \notin {"blank", "events"}
    BY <1>0, <1>3 DEF RecordEvents, ScanMeetings, ScanTrackings, Fold, Upsert, Abort, Goto, Idle, AfterError
  <2> QED
    BY <2>1
<1>4. ASSUME run'[r] = run[r] PROVE Kept
  BY <1>4
<1>5. ASSUME \/ \E q \in Runs \ {r} : RunStep(q) \/ Abort(q)
             \/ \E d \in Days : DeclareOff(d) \/ CancelOff(d) \/ \E s \in Slots : File(d, s)
             \/ SetWeekendsOff
             \/ \E v \in Dues : Do(v) \/ Undo(v) \/ Snooze(v) \/ CancelMeeting(v)
             \/ \E k \in Keys : Excuse(k)
             \/ Tick \/ UNCHANGED vars
      PROVE  run'[r] = run[r]
  BY <1>0, <1>5 DEF RunStep, Start, BlankDay, RecordEvents, ScanMeetings, ScanTrackings, Fold, Upsert, Abort, Goto,
              DeclareOff, CancelOff, File, SetWeekendsOff, Do, Undo, Snooze, CancelMeeting, Excuse, Move, Tick, vars
<1> QED
  <2>1. \/ \E q \in Runs : RunStep(q) \/ Abort(q)
        \/ run'[r] = run[r]
    BY <1>5 DEF Next
  <2>2. \/ RunStep(r) \/ Abort(r)
        \/ run'[r] = run[r]
    BY <1>5, <2>1
  <2>3. \/ /\ today # 0 /\ run'[r].now = today
           /\ run'[r].missing = Missing(today - 1)
        \/ Kept
    BY <1>1, <1>2, <1>3, <1>4, <2>2, Zenon DEF RunStep
  <2> QED
    BY <2>3

LEMMA EventMoves ==
    ASSUME TypeInv, [Next]_vars, NEW e \in events', e \notin events
    PROVE  \E r \in Runs : RecordEvents(r) /\ e \in Verdicts(r)
<1>1. ASSUME \/ \E r \in Runs : \/ Start(r) \/ BlankDay(r) \/ ScanMeetings(r) \/ ScanTrackings(r)
                                \/ Fold(r) \/ Upsert(r) \/ Abort(r)
             \/ \E d \in Days : DeclareOff(d) \/ CancelOff(d) \/ \E s \in Slots : File(d, s)
             \/ SetWeekendsOff
             \/ \E v \in Dues : Do(v) \/ Undo(v) \/ Snooze(v) \/ CancelMeeting(v)
             \/ \E k \in Keys : Excuse(k)
             \/ Tick \/ UNCHANGED vars
      PROVE  UNCHANGED events
  BY <1>1 DEF Start, BlankDay, ScanMeetings, ScanTrackings, Fold, Upsert, Abort,
              DeclareOff, CancelOff, File, SetWeekendsOff, Do, Undo, Snooze, CancelMeeting, Excuse, Move, Tick, vars
<1> QED
  BY <1>1 DEF Next, RunStep, RecordEvents

(* ------------------------------------------------------------------ *)
(* Nothing done in time is held against the member                     *)
(* ------------------------------------------------------------------ *)
\* What a run discovers of a due is late, and not done.
LEMMA DiscoveredDue ==
    ASSUME TypeInv, NEW r \in Runs, NEW u \in Dues, Discovers(r, u)
    PROVE  Judged[u] <= run[r].now /\ run[r].now <= today /\ u \notin done /\ Judged[u] \in Nat
<1>1. run[r].pc # "idle"
  BY DEF Discovers, BlankDay, ScanMeetings, ScanTrackings, At
<1>2. run[r].now \in Nat /\ run[r].now <= today
  BY <1>1, RunFacts, Numbers
<1>3. Judged[u] \in Nat
  BY DuesAssumption
<1>4. CASE BlankDay(r) /\ u = run[r].now - 1
  <2>1. u \in Days
    BY <1>4, RunFacts DEF BlankDay, At
  <2> QED
    BY <2>1, DuesAssumption
<1>5. CASE u \in MissedMeetings(run[r].now) \/ u \in SkippedTrackings(run[r].now)
  BY <1>2, <1>3, <1>5, Numbers DEF MissedMeetings, SkippedTrackings, InBand
<1> QED
  BY <1>2, <1>3, <1>4, <1>5 DEF Discovers

\* What a run discovers of a day is over, and late in every slot.
LEMMA DiscoveredDay ==
    ASSUME TypeInv, MissingIsLate, NEW r \in Runs, NEW d \in Days, Discovers(r, d)
    PROVE  d < today /\ \A s \in Slots : ~OnTime(d, s)
<1>1. BlankDay(r) /\ IsBlank(r) /\ d = run[r].now - 1
  BY DuesAssumption DEF Discovers, MissedMeetings, SkippedTrackings, Dues
<1>2. run[r].pc = "blank" /\ run[r].missing = Slots
  BY <1>1 DEF BlankDay, At, IsBlank
<1> QED
  BY <1>1, <1>2, RunFacts DEF MissingIsLate

LEMMA AccusationStep == AccusationInv /\ [Next]_vars => AccusationInv'
<1> SUFFICES ASSUME AccusationInv, [Next]_vars PROVE AccusationInv'
  OBVIOUS
<1>0. /\ TypeInv /\ TypeInv' /\ MissingIsLate /\ VerdictsArePast /\ GapsAreLate /\ NoUnjustAccusation
      /\ today \in Nat /\ today' \in Nat /\ today <= today'
  BY TypeStep, TimeGoesOn DEF AccusationInv
<1>1. ASSUME NEW d \in Days, NEW s \in Slots, d < today, ~OnTime(d, s) PROVE ~OnTime(d, s)'
  BY <1>0, <1>1, LateStaysLate
<1>2. MissingIsLate'
  <2>1. ASSUME NEW r \in Runs, run'[r].pc \in {"blank", "events"}, NEW s \in run'[r].missing
        PROVE  ~OnTime(run[r].now - 1, s)'
    <3>1. CASE today # 0 /\ run'[r].now = today /\ run'[r].missing = Missing(today - 1)
      <4>1. PICK d \in Days : d = today - 1
        BY <1>0, <3>1, Numbers DEF TypeInv, TypeOK
      <4>2. d < today /\ s \in Slots /\ ~OnTime(d, s)
        BY <1>0, <2>1, <3>1, <4>1, Numbers DEF Missing, OnTime
      <4>3. ~OnTime(d, s)'
        BY <1>1, <4>2
      <4> QED
        BY <3>1, <4>1, <4>3 DEF OnTime
    <3>2. CASE run[r].pc \in {"blank", "events"} /\ run'[r].now = run[r].now /\ run'[r].missing = run[r].missing
      <4>1. PICK d \in Days : d = run[r].now - 1
        BY <1>0, <3>2, RunFacts
      <4>2. d < today /\ s \in Slots /\ ~OnTime(d, s)
        BY <1>0, <2>1, <3>2, <4>1, RunFacts DEF MissingIsLate
      <4>3. ~OnTime(d, s)'
        BY <1>1, <4>2
      <4> QED
        BY <3>2, <4>1, <4>3 DEF OnTime
    <3> QED
      BY <1>0, <2>1, <3>1, <3>2, MissingMoves
  <2> QED
    BY <2>1 DEF MissingIsLate
<1>3. ASSUME NEW e \in events'
      PROVE  e.day < today' /\ (~e.filled => ~OnTime(e.day, e.slot)')
  <2>1. CASE e \in events
    <3>1. e.day \in Days /\ e.slot \in Slots /\ e.day < today
      BY <1>0, <2>1, Numbers DEF VerdictsArePast, TypeInv, TypeOK, EventRow
    <3>2. e.day < today'
      BY <1>0, <3>1, Numbers
    <3> QED
      BY <1>0, <1>1, <2>1, <3>1, <3>2 DEF NoUnjustAccusation
  <2>2. CASE e \notin events
    <3>1. PICK r \in Runs : RecordEvents(r) /\ e \in Verdicts(r)
      BY <1>0, <2>2, EventMoves
    <3>2. run[r].pc = "events"
      BY <3>1 DEF RecordEvents, At
    <3>3. run[r].now - 1 \in Days /\ run[r].now - 1 < today /\ run[r].missing \subseteq Slots
      BY <1>0, <3>2, RunFacts
    <3>4. e.day = run[r].now - 1 /\ (~e.filled => e.slot \in run[r].missing)
      BY <1>0, <3>1, <3>2, VerdictRows DEF TypeInv, RunsOK
    <3>5. e.day < today'
      BY <1>0, <3>3, <3>4, Numbers
    <3>6. ASSUME ~e.filled PROVE ~OnTime(e.day, e.slot)'
      <4>1. e.slot \in run[r].missing /\ e.slot \in Slots
        BY <3>3, <3>4, <3>6
      <4>2. ~OnTime(run[r].now - 1, e.slot)
        BY <1>0, <3>2, <4>1 DEF MissingIsLate
      <4> QED
        BY <1>1, <3>3, <3>4, <4>1, <4>2
    <3> QED
      BY <3>5, <3>6
  <2> QED
    BY <2>1, <2>2
<1>4. ASSUME NEW d \in Days, gap'[d] # None
      PROVE  d < today' /\ \A s \in Slots : ~OnTime(d, s)'
  <2>0. d \in Keys
    BY DEF Keys
  <2>1. d < today /\ \A s \in Slots : ~OnTime(d, s)
    <3>1. CASE gap[d] # None
      BY <1>0, <2>0, <3>1 DEF VerdictsArePast, NoUnjustAccusation
    <3>2. CASE gap[d] = None
      <4>1. PICK r \in Runs : Discovers(r, d)
        BY <1>0, <1>4, <2>0, <3>2, GapMoves DEF GapMove
      <4> QED
        BY <1>0, <4>1, DiscoveredDay
    <3> QED
      BY <3>1, <3>2
  <2>2. d < today'
    BY <1>0, <2>1, Numbers
  <2> QED
    BY <1>1, <2>1, <2>2
<1>5. ASSUME NEW u \in Dues, gap'[u] # None
      PROVE  Judged[u] <= today' /\ u \notin done'
  <2>0. u \in Keys /\ u \notin Days /\ Judged[u] \in Nat
    BY DuesAssumption DEF Keys
  <2>1. Judged[u] <= today /\ u \notin done
    <3>1. CASE gap[u] # None
      BY <1>0, <2>0, <3>1 DEF GapsAreLate, NoUnjustAccusation
    <3>2. CASE gap[u] = None
      <4>1. PICK r \in Runs : Discovers(r, u)
        BY <1>0, <1>5, <2>0, <3>2, GapMoves DEF GapMove
      <4>2. run[r].now \in Nat
        BY <1>0, <4>1, RunFacts, Numbers DEF Discovers, BlankDay, ScanMeetings, ScanTrackings, At
      <4> QED
        BY <1>0, <2>0, <4>1, <4>2, DiscoveredDue
    <3> QED
      BY <3>1, <3>2
  <2>2. u \notin done'
    BY <1>0, <2>0, <2>1, DoneInTime
  <2> QED
    BY <1>0, <2>0, <2>1, <2>2
<1>6. VerdictsArePast' /\ GapsAreLate'
  BY <1>3, <1>4, <1>5 DEF VerdictsArePast, GapsAreLate
<1>7. NoUnjustAccusation'
  <2>1. \A k \in Keys : k \in Days \/ k \in Dues
    BY DEF Keys
  <2> QED
    BY <1>3, <1>4, <1>5, <2>1 DEF NoUnjustAccusation
<1> QED
  BY <1>0, <1>2, <1>6, <1>7 DEF AccusationInv

(* ------------------------------------------------------------------ *)
(* Nothing owed is forgotten                                           *)
(* ------------------------------------------------------------------ *)
\* The scans look back over more days than the cron may miss.
LookbackCovers == MaxOutages < MeetingLookback /\ MaxOutages < TrackingLookback

\* Once a due is judged, what excuses it is not taken back.
LEMMA ExcusesStay ==
    ASSUME TypeInv, [Next]_vars, NEW u \in Dues, Judged[u] <= today
    PROVE  /\ u \in done => u \in done'
           /\ u \in snoozed => u \in snoozed'
           /\ u \in cancelled => u \in cancelled'
<1>1. ASSUME NEW v \in Dues, Undo(v) PROVE v # u
  BY <1>1, DuesAssumption, Numbers DEF Undo, TypeInv, TypeOK
<1>2. CASE \E v \in Dues : Do(v) \/ Undo(v) \/ Snooze(v) \/ CancelMeeting(v)
  BY <1>1, <1>2 DEF Do, Undo, Snooze, CancelMeeting
<1>3. ASSUME \/ \E r \in Runs : RunStep(r) \/ Abort(r)
             \/ \E d \in Days : DeclareOff(d) \/ CancelOff(d) \/ \E s \in Slots : File(d, s)
             \/ SetWeekendsOff
             \/ \E k \in Keys : Excuse(k)
             \/ Tick \/ UNCHANGED vars
      PROVE  UNCHANGED <<done, snoozed, cancelled>>
  BY <1>3 DEF RunStep, Start, BlankDay, RecordEvents, ScanMeetings, ScanTrackings, Fold, Upsert, Abort,
              DeclareOff, CancelOff, File, SetWeekendsOff, Excuse, Tick, member, vars
<1> QED
  BY <1>2, <1>3 DEF Next

LEMMA DueInBand ==
    ASSUME NEW t \in Nat, NEW u, u \in MissedMeetings(t) \/ u \in SkippedTrackings(t)
    PROVE  u \in Dues /\ u \in Keys /\ Judged[u] \in Nat /\ Judged[u] <= t
<1>1. u \in Dues
  BY DEF MissedMeetings, SkippedTrackings, Dues
<1>2. Judged[u] \in Nat
  BY <1>1, DuesAssumption
<1> QED
  BY <1>1, <1>2, Numbers DEF MissedMeetings, SkippedTrackings, InBand, Keys

\* What is found stays found while the day lasts.
LEMMA FoundStays ==
    ASSUME TypeInv, [Next]_vars, NEW t \in Nat, t <= today
    PROVE  /\ Found(MissedMeetings(t)) => \A u \in MissedMeetings(t)' : gap'[u] # None
           /\ Found(SkippedTrackings(t)) => \A u \in SkippedTrackings(t)' : gap'[u] # None
<1>0. today \in Nat
  BY Numbers DEF TypeInv, TypeOK
<1>1. MissedMeetings(t)' \subseteq MissedMeetings(t)
  <2> SUFFICES ASSUME NEW u \in MissedMeetings(t)' PROVE u \in MissedMeetings(t)
    OBVIOUS
  <2>1. /\ u \in Meetings /\ InBand(u, t, MeetingLookback)
        /\ u \notin done' /\ u \notin cancelled'
    BY DEF MissedMeetings, InBand
  <2>2. u \in Dues /\ Judged[u] \in Nat
    BY <2>1, DuesAssumption DEF Dues
  <2>3. Judged[u] <= today
    BY <1>0, <2>1, <2>2, Numbers DEF InBand
  <2> QED
    BY <2>1, <2>2, <2>3, ExcusesStay DEF MissedMeetings
<1>2. SkippedTrackings(t)' \subseteq SkippedTrackings(t)
  <2> SUFFICES ASSUME NEW u \in SkippedTrackings(t)' PROVE u \in SkippedTrackings(t)
    OBVIOUS
  <2>1. /\ u \in Trackings /\ InBand(u, t, TrackingLookback)
        /\ u \notin done' /\ u \notin snoozed'
    BY DEF SkippedTrackings, InBand
  <2>2. u \in Dues /\ Judged[u] \in Nat
    BY <2>1, DuesAssumption DEF Dues
  <2>3. Judged[u] <= today
    BY <1>0, <2>1, <2>2, Numbers DEF InBand
  <2> QED
    BY <2>1, <2>2, <2>3, ExcusesStay DEF SkippedTrackings
<1>3. \A u : u \in MissedMeetings(t) \/ u \in SkippedTrackings(t) => u \in Keys
  BY DueInBand
<1>4. \A u \in Keys : gap[u] # None => gap'[u] # None
  BY GapMoves DEF GapMove
<1> QED
  BY <1>1, <1>2, <1>3, <1>4 DEF Found

\* Where a run stands after a step: it has gone on, or is as it was.
LEMMA RunGoesOn ==
    ASSUME TypeInv, [Next]_vars, NEW r \in Runs, run'[r].pc \in {"trackings", "fold", "upsert"},
           run'[r].clean
    PROVE  \/ run'[r] = run[r]
           \/ /\ run'[r].now = run[r].now /\ run[r].clean /\ UNCHANGED today
              /\ \/ ScanMeetings(r) /\ run'[r].pc = "trackings"
                 \/ ScanTrackings(r) /\ run'[r].pc = "fold"
                 \/ Fold(r) /\ run'[r].pc = "upsert"
<1>0. DOMAIN run = Runs
  BY DEF TypeInv, TypeOK
<1>1. CASE Start(r) \/ BlankDay(r) \/ RecordEvents(r) \/ Upsert(r)
  <2>1. CASE BlankDay(r)
    <3>1. run[r] \in [pc : {"blank", "events"}, now : Days, clean : BOOLEAN,
                      missing : SUBSET Slots, off : BOOLEAN]
      BY <2>1 DEF TypeInv, RunsOK, RunOK, BlankDay, At
    <3>2. run'[r].pc = "events"
      BY <1>0, <2>1, <3>1 DEF BlankDay
    <3> QED
      BY <3>2
  <2>2. CASE Start(r) \/ RecordEvents(r) \/ Upsert(r)
    BY <1>0, <2>2 DEF Start, RecordEvents, Upsert, Goto, Idle
  <2> QED
    BY <1>1, <2>1, <2>2
<1>2. CASE ScanMeetings(r)
  BY <1>0, <1>2 DEF ScanMeetings, Goto
<1>3. CASE ScanTrackings(r)
  BY <1>0, <1>3 DEF ScanTrackings, Goto
<1>4. CASE Fold(r)
  BY <1>0, <1>4 DEF Fold
<1>5. CASE Abort(r)
  BY <1>0, <1>5 DEF Abort, Idle
<1>6. ASSUME \/ \E q \in Runs \ {r} : RunStep(q) \/ Abort(q)
             \/ \E d \in Days : DeclareOff(d) \/ CancelOff(d) \/ \E s \in Slots : File(d, s)
             \/ SetWeekendsOff
             \/ \E v \in Dues : Do(v) \/ Undo(v) \/ Snooze(v) \/ CancelMeeting(v)
             \/ \E k \in Keys : Excuse(k)
             \/ Tick \/ UNCHANGED vars
      PROVE  run'[r] = run[r]
  BY <1>0, <1>6 DEF RunStep, Start, BlankDay, RecordEvents, ScanMeetings, ScanTrackings, Fold, Upsert, Abort, Goto,
              DeclareOff, CancelOff, File, SetWeekendsOff, Do, Undo, Snooze, CancelMeeting, Excuse, Move, Tick, vars
<1>7. \/ RunStep(r) \/ Abort(r)
      \/ run'[r] = run[r]
  <2>1. \/ \E q \in Runs : RunStep(q) \/ Abort(q)
        \/ run'[r] = run[r]
    BY <1>6 DEF Next
  <2> QED
    BY <1>6, <2>1
<1> QED
  BY <1>1, <1>2, <1>3, <1>4, <1>5, <1>7, Zenon DEF RunStep

\* How the day's flag, the outages and time go together.
LEMMA RanMoves ==
    ASSUME TypeInv, [Next]_vars
    PROVE  \/ Tick
           \/ /\ UNCHANGED <<today, outages>>
              /\ \/ UNCHANGED ran
                 \/ \E r \in Runs : Upsert(r) /\ run[r].now = today /\ run[r].clean
<1>1. ASSUME NEW r \in Runs, Upsert(r)
      PROVE  \/ UNCHANGED <<today, outages, ran>>
             \/ UNCHANGED <<today, outages>> /\ run[r].now = today /\ run[r].clean
  BY <1>1 DEF Upsert, bounds, TypeInv, TypeOK
<1>2. ASSUME \/ \E r \in Runs : \/ Start(r) \/ BlankDay(r) \/ RecordEvents(r) \/ ScanMeetings(r)
                                \/ ScanTrackings(r) \/ Fold(r) \/ Abort(r)
             \/ \E d \in Days : DeclareOff(d) \/ CancelOff(d) \/ \E s \in Slots : File(d, s)
             \/ SetWeekendsOff
             \/ \E v \in Dues : Do(v) \/ Undo(v) \/ Snooze(v) \/ CancelMeeting(v)
             \/ \E k \in Keys : Excuse(k)
             \/ UNCHANGED vars
      PROVE  UNCHANGED <<today, outages, ran>>
  BY <1>2 DEF Start, BlankDay, RecordEvents, ScanMeetings, ScanTrackings, Fold, Abort,
              DeclareOff, CancelOff, File, SetWeekendsOff, Do, Undo, Snooze, CancelMeeting, Excuse, Move,
              bounds, vars
<1> QED
  BY <1>1, <1>2 DEF Next, RunStep

\* A scan finds what it looks for.
LEMMA ScanFinds ==
    ASSUME TypeInv, [Next]_vars, NEW r \in Runs, NEW t \in Nat, t = run[r].now, t <= today
    PROVE  /\ ScanMeetings(r) => \A u \in MissedMeetings(t)' : gap'[u] # None
           /\ ScanTrackings(r) => \A u \in SkippedTrackings(t)' : gap'[u] # None
<1>0. gap \in [Keys -> GapRow \cup {None}]
  BY DEF TypeInv, TypeOK
<1>1. ASSUME NEW us, NEW u, u \in us, u \in Keys, gap' = Recorded(us, t), t \in Days PROVE gap'[u] # None
  <2>1. [day |-> t, open |-> TRUE] \in GapRow
    BY <1>1 DEF GapRow
  <2>2. [day |-> t, open |-> TRUE] # None
    BY <2>1, DuesAssumption
  <2> QED
    BY <1>1, <2>2 DEF Recorded
<1>2. ASSUME ScanMeetings(r), NEW u \in MissedMeetings(t)' PROVE gap'[u] # None
  <2>1. gap' = Recorded(MissedMeetings(t), t) /\ UNCHANGED <<done, cancelled>> /\ t \in Days
    BY <1>2, RunFacts DEF ScanMeetings, member, At
  <2>2. u \in MissedMeetings(t)
    BY <1>2, <2>1 DEF MissedMeetings, InBand
  <2> QED
    BY <1>1, <2>1, <2>2, DueInBand
<1>3. ASSUME ScanTrackings(r), NEW u \in SkippedTrackings(t)' PROVE gap'[u] # None
  <2>1. gap' = Recorded(SkippedTrackings(t), t) /\ UNCHANGED <<done, snoozed>> /\ t \in Days
    BY <1>3, RunFacts DEF ScanTrackings, member, At
  <2>2. u \in SkippedTrackings(t)
    BY <1>3, <2>1 DEF SkippedTrackings, InBand
  <2> QED
    BY <1>1, <2>1, <2>2, DueInBand
<1> QED
  BY <1>2, <1>3

\* A due owed, without a gap, and in reach of the scans is one they look for.
LEMMA OwedIsSought ==
    ASSUME LookbackCovers, TypeInv, NEW u \in Dues, Owed(u),
           Judged[u] <= today, today - Judged[u] <= MaxOutages
    PROVE  u \in MissedMeetings(today) \/ u \in SkippedTrackings(today)
<1>1. today \in Nat /\ Judged[u] \in Nat
  BY Numbers, DuesAssumption DEF TypeInv, TypeOK
<1>2. u \in Meetings \/ u \in Trackings
  BY DEF Dues
<1>3. InBand(u, today, MeetingLookback) /\ InBand(u, today, TrackingLookback)
  BY <1>1, Numbers DEF InBand, LookbackCovers
<1> QED
  BY <1>2, <1>3 DEF Owed, MissedMeetings, SkippedTrackings

LEMMA RecordStep == ASSUME LookbackCovers PROVE RecordInv /\ [Next]_vars => RecordInv'
<1> SUFFICES ASSUME RecordInv, [Next]_vars PROVE RecordInv'
  OBVIOUS
<1>0. /\ TypeInv /\ TypeInv' /\ ScansRecord /\ RanRecords /\ OneOutageADay
      /\ today \in Nat /\ today' \in Nat /\ outages \in 0..MaxOutages /\ outages' \in 0..MaxOutages
  BY TypeStep, TimeGoesOn DEF RecordInv, TypeInv, TypeOK
<1>1. CASE Tick
  <2>1. /\ today' = today + 1 /\ ran' = FALSE /\ UNCHANGED <<member, gap, run>>
        /\ outages' = IF ran THEN outages ELSE outages + 1
    BY <1>1 DEF Tick
  <2>2. ScansRecord'
    <3>1. ASSUME NEW r \in Runs, run[r].pc # "idle" PROVE run[r].now # today + 1
      BY <1>0, <3>1, RunFacts, Numbers
    <3> QED
      BY <2>1, <3>1 DEF ScansRecord
  <2>3. RanRecords'
    BY <2>1 DEF RanRecords
  <2>4. ASSUME NEW u \in Dues, Owed(u), gap[u] = None, Judged[u] <= today + 1
        PROVE  (today + 1) - Judged[u] <= outages'
    <3>0. Judged[u] \in Nat
      BY DuesAssumption
    <3>1. CASE Judged[u] = today + 1
      BY <1>0, <3>1
    <3>2. CASE Judged[u] <= today
      <4>1. today - Judged[u] <= outages
        BY <1>0, <2>4, <3>2 DEF OneOutageADay
      <4>2. u \in MissedMeetings(today) \/ u \in SkippedTrackings(today)
        BY <1>0, <2>4, <3>0, <3>2, <4>1, OwedIsSought, Numbers
      <4>3. ~ran
        BY <1>0, <2>4, <4>2 DEF RanRecords, Found
      <4> QED
        BY <1>0, <2>1, <3>0, <4>1, <4>3
    <3> QED
      BY <1>0, <2>4, <3>0, <3>1, <3>2
  <2>5. OneOutageADay'
    <3>1. UNCHANGED <<done, snoozed, cancelled, gap>> /\ today' = today + 1
      BY <2>1 DEF member
    <3> QED
      BY <2>4, <3>1 DEF OneOutageADay, Owed
  <2> QED
    BY <1>0, <2>2, <2>3, <2>5 DEF RecordInv
<1>2. CASE UNCHANGED <<today, outages>>
  <2> PICK t \in Nat : t = today
    BY <1>0
  <2>1. /\ Found(MissedMeetings(t)) => \A u \in MissedMeetings(t)' : gap'[u] # None
        /\ Found(SkippedTrackings(t)) => \A u \in SkippedTrackings(t)' : gap'[u] # None
    BY <1>0, FoundStays
  <2>2. today' = t
    BY <1>2
  <2>3. ASSUME NEW r \in Runs, run[r].pc # "idle", run[r].now = t, run[r].clean
        PROVE  /\ run[r].pc \in {"trackings", "fold", "upsert"} => \A u \in MissedMeetings(t)' : gap'[u] # None
               /\ run[r].pc \in {"fold", "upsert"} => \A u \in SkippedTrackings(t)' : gap'[u] # None
    BY <1>0, <2>1, <2>3 DEF ScansRecord
  <2>4. ASSUME NEW r \in Runs, run'[r].pc # "idle", run'[r].now = t, run'[r].clean
        PROVE  /\ run'[r].pc \in {"trackings", "fold", "upsert"} => \A u \in MissedMeetings(t)' : gap'[u] # None
               /\ run'[r].pc \in {"fold", "upsert"} => \A u \in SkippedTrackings(t)' : gap'[u] # None
    <3> SUFFICES ASSUME run'[r].pc \in {"trackings", "fold", "upsert"}
                 PROVE  /\ \A u \in MissedMeetings(t)' : gap'[u] # None
                        /\ run'[r].pc \in {"fold", "upsert"} => \A u \in SkippedTrackings(t)' : gap'[u] # None
      OBVIOUS
    <3>1. CASE run'[r] = run[r]
      BY <2>3, <2>4, <3>1
    <3>2. CASE run'[r].now = run[r].now /\ run[r].clean /\ ScanMeetings(r) /\ run'[r].pc = "trackings"
      <4>1. t = run[r].now /\ t <= today
        BY <1>0, <2>4, <3>2
      <4>2. \A u \in MissedMeetings(t)' : gap'[u] # None
        BY <1>0, <3>2, <4>1, ScanFinds
      <4> QED
        BY <3>2, <4>2
    <3>3. CASE run'[r].now = run[r].now /\ run[r].clean /\ ScanTrackings(r) /\ run'[r].pc = "fold"
      <4>1. t = run[r].now /\ t <= today /\ run[r].pc = "trackings"
        BY <1>0, <2>4, <3>3 DEF ScanTrackings, At
      <4>2. \A u \in SkippedTrackings(t)' : gap'[u] # None
        BY <1>0, <3>3, <4>1, ScanFinds
      <4>3. \A u \in MissedMeetings(t)' : gap'[u] # None
        BY <2>3, <3>3, <4>1
      <4> QED
        BY <4>2, <4>3
    <3>4. CASE run'[r].now = run[r].now /\ run[r].clean /\ Fold(r) /\ run'[r].pc = "upsert"
      BY <2>3, <2>4, <3>4 DEF Fold, At
    <3> QED
      BY <1>0, <2>4, <3>1, <3>2, <3>3, <3>4, RunGoesOn
  <2>5. ScansRecord'
    BY <2>2, <2>4 DEF ScansRecord, Found
  <2>6. RanRecords'
    <3>1. ASSUME NEW r \in Runs, Upsert(r), run[r].now = today, run[r].clean
          PROVE  /\ \A u \in MissedMeetings(t)' : gap'[u] # None
                 /\ \A u \in SkippedTrackings(t)' : gap'[u] # None
      BY <2>3, <3>1 DEF Upsert, At
    <3>2. CASE ~Tick
      <4>1. ran' => /\ \A u \in MissedMeetings(t)' : gap'[u] # None
                    /\ \A u \in SkippedTrackings(t)' : gap'[u] # None
        BY <1>0, <2>1, <3>1, <3>2, RanMoves DEF RanRecords
      <4> QED
        BY <2>2, <4>1 DEF RanRecords, Found
    <3> QED
      BY <1>1, <3>2 DEF RecordInv
  <2>7. OneOutageADay'
    <3> SUFFICES ASSUME NEW u \in Dues, Owed(u)', gap'[u] = None, Judged[u] <= today
                 PROVE  today - Judged[u] <= outages
      BY <1>2 DEF OneOutageADay
    <3>1. Owed(u)
      BY <1>0, ExcusesStay DEF Owed
    <3>2. gap[u] = None
      BY <1>0, GapMoves DEF GapMove, Keys
    <3> QED
      BY <1>0, <3>1, <3>2 DEF OneOutageADay
  <2> QED
    BY <1>0, <2>5, <2>6, <2>7 DEF RecordInv
<1> QED
  BY <1>0, <1>1, <1>2, RanMoves

(* ------------------------------------------------------------------ *)
(* The gaps of a day are in its score                                  *)
(* ------------------------------------------------------------------ *)
\* The runs do not overlap.
OneRun == \A q, r \in Runs : q = r

\* How a run comes to be at work, and to have folded.
LEMMA RunDay ==
    ASSUME TypeInv, [Next]_vars, NEW r \in Runs, run'[r].pc # "idle"
    PROVE  /\ \/ run'[r].now = today
              \/ run[r].pc # "idle" /\ run'[r].now = run[r].now
           /\ run'[r].pc = "upsert" => run'[r] = run[r] \/ Fold(r)
<1>0. DOMAIN run = Runs
  BY DEF TypeInv, TypeOK
<1>1. CASE Start(r)
  BY <1>0, <1>1 DEF Start
<1>2. CASE BlankDay(r)
  <2>1. run[r].pc = "blank" /\ run' = [run EXCEPT ![r].pc = "events"]
    BY <1>2 DEF BlankDay, At
  <2>2. run[r] \in [pc : {"blank", "events"}, now : Days, clean : BOOLEAN,
                    missing : SUBSET Slots, off : BOOLEAN]
    BY <2>1 DEF TypeInv, RunsOK, RunOK
  <2> QED
    BY <1>0, <2>1, <2>2
<1>3. CASE RecordEvents(r) \/ ScanMeetings(r) \/ ScanTrackings(r) \/ Upsert(r)
  BY <1>0, <1>3 DEF RecordEvents, ScanMeetings, ScanTrackings, Upsert, Goto, Idle, At
<1>4. CASE Fold(r)
  BY <1>0, <1>4 DEF Fold, At
<1>5. CASE Abort(r)
  BY <1>0, <1>5 DEF Abort, Idle, At, AfterError
<1>6. ASSUME \/ \E q \in Runs \ {r} : RunStep(q) \/ Abort(q)
             \/ \E d \in Days : DeclareOff(d) \/ CancelOff(d) \/ \E s \in Slots : File(d, s)
             \/ SetWeekendsOff
             \/ \E v \in Dues : Do(v) \/ Undo(v) \/ Snooze(v) \/ CancelMeeting(v)
             \/ \E k \in Keys : Excuse(k)
             \/ Tick \/ UNCHANGED vars
      PROVE  run'[r] = run[r]
  BY <1>0, <1>6 DEF RunStep, Start, BlankDay, RecordEvents, ScanMeetings, ScanTrackings, Fold, Upsert, Abort, Goto,
              DeclareOff, CancelOff, File, SetWeekendsOff, Do, Undo, Snooze, CancelMeeting, Excuse, Move, Tick, vars
<1>7. \/ RunStep(r) \/ Abort(r)
      \/ run'[r] = run[r]
  <2>1. \/ \E q \in Runs : RunStep(q) \/ Abort(q)
        \/ run'[r] = run[r]
    BY <1>6 DEF Next
  <2> QED
    BY <1>6, <2>1
<1>8. CASE run'[r] = run[r]
  BY <1>8
<1> QED
  BY <1>1, <1>2, <1>3, <1>4, <1>5, <1>7, <1>8, Zenon DEF RunStep

\* Only an upsert writes a score.
LEMMA ScoreMoves ==
    ASSUME TypeInv, [Next]_vars
    PROVE  \/ UNCHANGED score
           \/ \E r \in Runs : Upsert(r)
<1>1. ASSUME \/ \E r \in Runs : \/ Start(r) \/ BlankDay(r) \/ RecordEvents(r) \/ ScanMeetings(r)
                                \/ ScanTrackings(r) \/ Fold(r) \/ Abort(r)
             \/ \E d \in Days : DeclareOff(d) \/ CancelOff(d) \/ \E s \in Slots : File(d, s)
             \/ SetWeekendsOff
             \/ \E v \in Dues : Do(v) \/ Undo(v) \/ Snooze(v) \/ CancelMeeting(v)
             \/ \E k \in Keys : Excuse(k)
             \/ Tick \/ UNCHANGED vars
      PROVE  UNCHANGED score
  BY <1>1 DEF Start, BlankDay, RecordEvents, ScanMeetings, ScanTrackings, Fold, Abort,
              DeclareOff, CancelOff, File, SetWeekendsOff, Do, Undo, Snooze, CancelMeeting, Excuse, Move, Tick, vars
<1> QED
  BY <1>1 DEF Next, RunStep

LEMMA DiscovererAtWork ==
    ASSUME NEW r \in Runs, NEW k, Discovers(r, k)
    PROVE  run[r].pc \in {"blank", "meetings", "trackings"}
BY DEF Discovers, BlankDay, ScanMeetings, ScanTrackings, At

\* A gap that is new tonight is one that a run of today has just opened.
LEMMA NewGapMoves ==
    ASSUME TypeInv, [Next]_vars, NEW t, NEW u \in NewGaps(t)', u \notin NewGaps(t)
    PROVE  \E r \in Runs : Discovers(r, u) /\ run[r].now = t
<1>1. u \in Dues /\ u \in Keys /\ gap'[u] # None /\ gap'[u].day = t
  BY DEF NewGaps, Keys
<1>2. GapMove(u)
  BY <1>1, GapMoves
<1> QED
  BY <1>1, <1>2 DEF GapMove, NewGaps

LEMMA UpsertCounts ==
    ASSUME TypeInv, FoldCounts, NEW r \in Runs, Upsert(r), run[r].now = today, NewGaps(today) # {}
    PROVE  score'[Week(today)] # None /\ NewGaps(today) \subseteq score'[Week(today)].gaps
<1>1. run[r].pc = "upsert"
  BY DEF Upsert, At
<1>2. NewGaps(today) \subseteq run[r].folded.gaps /\ run[r].folded \in ScoreRow
  BY <1>1 DEF FoldCounts, TypeInv, RunsOK, RunOK
<1>3. ~IsSilent(run[r].folded)
  BY <1>2 DEF IsSilent
<1>4. score' = [score EXCEPT ![Week(today)] = run[r].folded]
  BY <1>3 DEF Upsert
<1>5. Week(today) \in Weeks
  BY Numbers DEF TypeInv, TypeOK
<1>6. score'[Week(today)] = run[r].folded
  BY <1>4, <1>5 DEF TypeInv, TypeOK
<1> QED
  BY <1>2, <1>6, DuesAssumption

LEMMA FoldedCounts ==
    ASSUME TypeInv, NEW r \in Runs, run[r].pc # "idle", run[r].now = today
    PROVE  NewGaps(today) \subseteq Folded(today).gaps
<1>1. today \in Nat /\ today >= today - DisciplineDays
  BY Numbers DEF TypeInv, TypeOK
<1>2. NewGaps(today) \subseteq Counted(today)
  BY <1>1 DEF NewGaps, Counted, Keys
<1> QED
  BY <1>2 DEF Folded

LEMMA SameDayStep ==
    ASSUME LookbackCovers, OneRun PROVE SameDayInv /\ [Next]_vars => SameDayInv'
<1> SUFFICES ASSUME SameDayInv, [Next]_vars PROVE SameDayInv'
  OBVIOUS
<1>0. /\ TypeInv /\ TypeInv' /\ RecordInv /\ RecordInv' /\ RanRecords
      /\ GapsArePast /\ FoldCounts /\ ScoreCounts /\ RunsOfToday
      /\ today \in Nat /\ today' \in Nat /\ today <= today'
  BY RecordStep, TimeGoesOn DEF SameDayInv, RecordInv
<1>1. GapsArePast'
  <2> SUFFICES ASSUME NEW u \in Dues, gap'[u] # None PROVE gap'[u].day <= today'
    BY DEF GapsArePast
  <2>0. u \in Keys
    BY DEF Keys
  <2>1. gap'[u].day <= today /\ gap'[u].day \in Nat
    <3>1. CASE gap[u] # None
      <4>1. gap[u].day <= today /\ gap[u].day \in Nat
        BY <1>0, <2>0, <3>1, Numbers DEF GapsArePast, TypeInv, TypeOK, GapRow
      <4> QED
        BY <1>0, <2>0, <3>1, <4>1, GapMoves DEF GapMove
    <3>2. CASE gap[u] = None
      <4>1. PICK r \in Runs : Discovers(r, u) /\ gap'[u].day = run[r].now
        BY <1>0, <2>0, <3>2, GapMoves DEF GapMove
      <4>2. run[r].pc # "idle"
        BY <4>1, DiscovererAtWork
      <4> QED
        BY <1>0, <4>1, <4>2, RunFacts, Numbers
    <3> QED
      BY <3>1, <3>2
  <2> QED
    BY <1>0, <2>1
<1>2. CASE Tick
  <2>1. today' = today + 1 /\ ran' = FALSE /\ UNCHANGED run
    BY <1>2 DEF Tick
  <2>2. FoldCounts'
    <3>1. ASSUME NEW r \in Runs, run[r].pc # "idle" PROVE run[r].now # today + 1
      BY <1>0, <3>1, RunFacts, Numbers
    <3> QED
      BY <2>1, <3>1 DEF FoldCounts
  <2> QED
    BY <1>0, <1>1, <2>1, <2>2 DEF SameDayInv, ScoreCounts, RunsOfToday
<1>3. CASE UNCHANGED today
  <2> PICK t \in Nat : t = today
    BY <1>0
  <2>0. today' = t
    BY <1>3
  <2>1. FoldCounts'
    <3>1. ASSUME NEW r \in Runs, run'[r].pc = "upsert", run'[r].now = t, NEW u \in NewGaps(t)'
          PROVE  u \in run'[r].folded.gaps
      <4>1. CASE run'[r] = run[r]
        <5>1. u \in NewGaps(t)
          BY <1>0, <3>1, <4>1, NewGapMoves, DiscovererAtWork DEF OneRun
        <5> QED
          BY <1>0, <3>1, <4>1, <5>1 DEF FoldCounts
      <4>2. CASE Fold(r)
        <5>1. /\ UNCHANGED gap /\ run[r].pc = "fold" /\ run[r].now = t
              /\ run'[r].folded = Folded(t)
          BY <1>0, <3>1, <4>2 DEF Fold, At, TypeInv, TypeOK
        <5>2. u \in NewGaps(t)
          BY <5>1 DEF NewGaps
        <5> QED
          BY <1>0, <5>1, <5>2, FoldedCounts
      <4> QED
        BY <1>0, <3>1, <4>1, <4>2, RunDay
    <3> QED
      BY <2>0, <3>1 DEF FoldCounts
  <2>2. CASE ran
    <3>1. NewGaps(t)' \subseteq NewGaps(t)
      <4> SUFFICES ASSUME NEW u \in NewGaps(t)', u \notin NewGaps(t) PROVE FALSE
        OBVIOUS
      <4>1. PICK r \in Runs : Discovers(r, u) /\ run[r].now = t
        BY <1>0, NewGapMoves
      <4>2. u \in Dues /\ gap'[u].day = t
        BY DEF NewGaps
      <4>3. CASE BlankDay(r) /\ u = run[r].now - 1
        BY <1>0, <4>2, <4>3, RunFacts, DuesAssumption DEF BlankDay, At
      <4>4. CASE u \in MissedMeetings(t) \/ u \in SkippedTrackings(t)
        <5>1. gap[u] # None
          BY <1>0, <2>2, <4>4 DEF RanRecords, Found
        <5>2. u \in Keys
          BY <4>2 DEF Keys
        <5>3. gap'[u].day = gap[u].day
          BY <1>0, <5>1, <5>2, GapMoves DEF GapMove
        <5> QED
          BY <4>2, <5>1, <5>3 DEF NewGaps
      <4> QED
        BY <4>1, <4>3, <4>4 DEF Discovers
    <3>2. ASSUME NEW u \in NewGaps(t)
          PROVE  score'[Week(t)] # None /\ NewGaps(t) \subseteq score'[Week(t)].gaps
      <4>1. CASE UNCHANGED score
        BY <1>0, <2>2, <3>2, <4>1 DEF ScoreCounts
      <4>2. CASE \E r \in Runs : Upsert(r)
        <5>1. PICK r \in Runs : Upsert(r)
          BY <4>2
        <5>2. run[r].now = today
          BY <1>0, <2>2, <5>1 DEF RunsOfToday, Upsert, At
        <5> QED
          BY <1>0, <3>2, <5>1, <5>2, UpsertCounts
      <4> QED
        BY <1>0, <4>1, <4>2, ScoreMoves
    <3>3. NewGaps(t)' # {} => score'[Week(t)] # None /\ NewGaps(t)' \subseteq score'[Week(t)].gaps
      BY <3>1, <3>2
    <3>4. ScoreCounts'
      BY <2>0, <3>3 DEF ScoreCounts
    <3>5. RunsOfToday'
      BY <1>0, <2>0, <2>2, RunDay DEF RunsOfToday
    <3> QED
      BY <1>0, <1>1, <2>1, <3>4, <3>5 DEF SameDayInv
  <2>3. CASE \E r \in Runs : Upsert(r) /\ run[r].now = today /\ run[r].clean
    <3>1. PICK r \in Runs : Upsert(r) /\ run[r].now = today
      BY <2>3
    <3>2. NewGaps(t)' = NewGaps(t)
      BY <3>1 DEF Upsert, NewGaps
    <3>3. NewGaps(t) # {} => score'[Week(t)] # None /\ NewGaps(t) \subseteq score'[Week(t)].gaps
      BY <1>0, <3>1, UpsertCounts
    <3>4. ScoreCounts'
      BY <2>0, <3>2, <3>3 DEF ScoreCounts
    <3>5. \A q \in Runs : run'[q].pc = "idle"
      BY <1>0, <3>1 DEF OneRun, Upsert, Idle, TypeInv, TypeOK
    <3>6. RunsOfToday'
      BY <3>5 DEF RunsOfToday
    <3> QED
      BY <1>0, <1>1, <2>1, <3>4, <3>6 DEF SameDayInv
  <2>4. CASE ~ran /\ UNCHANGED ran
    BY <1>0, <1>1, <2>1, <2>4 DEF SameDayInv, ScoreCounts, RunsOfToday
  <2>5. CASE Tick
    BY <1>2, <2>5
  <2> QED
    BY <1>0, <2>2, <2>3, <2>4, <2>5, RanMoves
<1> QED
  BY <1>0, <1>2, <1>3, RanMoves

(* ------------------------------------------------------------------ *)
(* The theorems                                                        *)
(* ------------------------------------------------------------------ *)
LEMMA InitOK == Init => AccusationInv /\ RecordInv /\ SameDayInv
<1> SUFFICES ASSUME Init PROVE AccusationInv /\ RecordInv /\ SameDayInv
  OBVIOUS
<1> USE DEF Init
<1>1. TypeOK
  <2>1. today \in Days
    <3> HIDE DEF Init
    <3>1. today = 0
      BY DEF Init
    <3> QED
      BY <3>1, Numbers
  <2>6. ran \in BOOLEAN /\ weekendsOff \in BOOLEAN
    OBVIOUS
  <2>2. filed \in [Days \X Slots -> Days \cup {None}] /\ gap \in [Keys -> GapRow \cup {None}]
    OBVIOUS
  <2>3. score \in [Weeks -> ScoreRow \cup {None}] /\ DOMAIN run = Runs
    OBVIOUS
  <2>4. moves \in 0..MaxMoves /\ outages \in 0..MaxOutages /\ faults \in 0..MaxFaults
    BY Numbers
  <2>5. offs \subseteq Days /\ done \cup snoozed \cup cancelled \subseteq Dues /\ events \subseteq EventRow
    OBVIOUS
  <2> QED
    BY <2>1, <2>2, <2>3, <2>4, <2>5, <2>6 DEF TypeOK
<1>2. TypeInv
  BY <1>1, IdleOK DEF TypeInv, RunsOK
<1>3. \A r \in Runs : run[r].pc = "idle"
  BY DEF Idle
<1>4. \A k \in Keys : gap[k] = None
  OBVIOUS
<1>5. Days \subseteq Keys /\ Dues \subseteq Keys
  BY DEF Keys
<1>6. AccusationInv
  BY <1>2, <1>3, <1>4, <1>5 DEF AccusationInv, MissingIsLate, VerdictsArePast, GapsAreLate, NoUnjustAccusation
<1>7. OneOutageADay
  <2> SUFFICES ASSUME NEW u \in Dues, Judged[u] <= 0 PROVE 0 - Judged[u] <= 0
    BY DEF OneOutageADay
  <2> QED
    BY DuesAssumption
<1>8. RecordInv
  BY <1>2, <1>3, <1>7 DEF RecordInv, ScansRecord, RanRecords
<1>9. SameDayInv
  BY <1>3, <1>4, <1>5, <1>8 DEF SameDayInv, GapsArePast, FoldCounts, ScoreCounts, RunsOfToday
<1> QED
  BY <1>6, <1>8, <1>9

\* The tables and the runs keep their shape, whatever runs race or die.
THEOREM TypeCorrect == Spec => []TypeOK
<1>1. Init => TypeInv
  BY InitOK DEF AccusationInv
<1>2. TypeInv => TypeOK
  BY DEF TypeInv
<1> QED
  BY <1>1, <1>2, TypeStep, PTL DEF Spec

\* What was done in time is never held against the member (the ritual scan of
\* yesterday, the bands of the meeting and tracking scans).
THEOREM NothingUnjust == Spec => []NoUnjustAccusation
<1>1. Init => AccusationInv
  BY InitOK
<1>2. AccusationInv => NoUnjustAccusation
  BY DEF AccusationInv
<1> QED
  BY <1>1, <1>2, AccusationStep, PTL DEF Spec

LEMMA RecordedThen == RecordInv => MissIsRecorded
<1> SUFFICES ASSUME RecordInv, NEW u \in Dues, today > Judged[u] + MaxOutages, Owed(u), gap[u] = None
             PROVE  FALSE
  BY DEF MissIsRecorded
<1>1. today \in Nat /\ Judged[u] \in Nat /\ outages \in 0..MaxOutages
  BY Numbers, DuesAssumption DEF RecordInv, TypeInv, TypeOK
<1>2. today - Judged[u] <= outages
  BY <1>1, Numbers DEF RecordInv, OneOutageADay
<1> QED
  BY <1>1, <1>2, Numbers

\* What is owed is on record before the scans stop looking for it, when they
\* look back over more days than the cron misses
\* (MEETING_MISS_SCAN_LOOKBACK_DAYS, TRACKING_SKIP_LOOKBACK_DAYS).
THEOREM NothingForgotten == ASSUME LookbackCovers PROVE Spec => []MissIsRecorded
<1>1. Init => RecordInv
  BY InitOK
<1> QED
  BY <1>1, RecordStep, RecordedThen, PTL DEF Spec

\* When runs do not overlap, the score of a week counts the gaps of the day
\* as soon as a run of it has ended without error (the order of the scans and
\* the fold in the verification-scan route).
THEOREM SameDayScore ==
    ASSUME LookbackCovers, OneRun PROVE Spec => []GapsCountTheSameDay
<1>1. Init => SameDayInv
  BY InitOK
<1>2. SameDayInv => GapsCountTheSameDay
  BY DEF SameDayInv, ScoreCounts, GapsCountTheSameDay, NewGaps
<1> QED
  BY <1>1, <1>2, SameDayStep, PTL DEF Spec

================================================================================

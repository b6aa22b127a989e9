------------------------ MODULE CheckinRemindersProofs ------------------------
(* Theorems about CheckinReminders, for every value of its constants.      *)
EXTENDS CheckinReminders, FiniteSetTheorems, TLAPS

Works == [pc : {"idle", "checkins", "offdays", "enqueue"}, now : 0..Horizon,
          filled : SUBSET Keys, todo : SUBSET Keys, collided : SUBSET Keys]

\* Scan s may still insert a row for k.
MayEnqueue(k) ==
    {s \in Scans : \/ scan[s].pc \in {"checkins", "offdays"} /\ Due(k, scan[s].now)
                   \/ scan[s].pc = "enqueue" /\ k \in scan[s].todo}

\* Every reminder was inserted by a scan of its window, each by its own.
RowsWereInserted ==
    \A k \in Keys : sent[k] + inflight[k] + Cardinality({k} \cap pending) <= enqueued[k]
InsertsByScans ==
    \A k \in Keys : enqueued[k] + Cardinality(MayEnqueue(k)) <= dueScans[k]

\* What was filed before its window stays filed and in no scan's list.
ExcusedOut ==
    \A k \in excused :
        /\ k \in filed
        /\ \A s \in Scans :
             /\ scan[s].pc = "offdays" /\ Due(k, scan[s].now) => k \in scan[s].filled
             /\ scan[s].pc = "enqueue" => k \notin scan[s].todo

\* What is off since before its window is off and in no scan's list.
SparedOut ==
    \A k \in spared :
        /\ <<k.user, k.date>> \in off
        /\ \A s \in Scans : scan[s].pc = "enqueue" => k \notin scan[s].todo

RemindersInv ==
    /\ TypeOK
    /\ RowsWereInserted
    /\ InsertsByScans
    /\ ExcusedOut
    /\ SparedOut

\* In every zone and slot the crontab fires in a tick of the window that is
\* not one of the quiet hours.
Covered ==
    \A z \in Zones, slot \in Slots : \E h \in Window(slot) \ QuietHours :
        h \in 0..(DayLength - 1) /\ (h + DayLength - z) % DayLength \in CronTicks

\* In tick t a scan reminds k and the dispatcher may push.
Good(k, t) == Due(k, t) /\ LocalTime(k.user, t) \notin QuietHours /\ t % DayLength \in CronTicks

\* Nothing went wrong and k is owed.
Owed(k) == ~lagged /\ faults = 0 /\ k \notin touched

InHand(k) == k \in pending \/ inflight[k] > 0 \/ sent[k] > 0

\* What members filed, declared off or a scan has read of it is touched, and a
\* scan at work in a tick has seen nothing else.
TouchedKnown ==
    /\ filed \subseteq touched
    /\ \A k \in Keys : <<k.user, k.date>> \in off => k \in touched
    /\ \A s \in Scans : scan[s].pc = "offdays" => scan[s].filled \subseteq touched

\* A collision is about a key still listed.
CollidedListed ==
    \A s \in Scans : /\ scan[s].pc # "enqueue" => scan[s].collided = {}
                     /\ scan[s].collided \subseteq scan[s].todo

\* In a good tick, what a scan found pending is on its way; once a scan has
\* started, a scan or the queue has the reminder.
UnderWay ==
    \A k \in Keys : Owed(k) /\ Good(k, clock) =>
        /\ \A s \in Scans : k \in scan[s].collided => InHand(k)
        /\ started > 0 => InHand(k) \/ MayEnqueue(k) # {}

\* The good ticks behind the clock have reminded.
GoodTicksRemind ==
    \A k \in Keys, t \in 0..Horizon : Owed(k) /\ t < clock /\ Good(k, t) => sent[k] > 0

ThroughInv ==
    /\ RemindersInv
    /\ TouchedKnown
    /\ CollidedListed
    /\ UnderWay
    /\ GoodTicksRemind

-----------------------------------------------------------------------------
(* Types.                                                                  *)

LEMMA Numbers ==
    /\ Horizon \in Nat /\ 0 \in 0..Horizon /\ MaxScans \in Nat /\ MaxFaults \in Nat
    /\ MaxChurn \in Nat /\ NoScan \in Works
<1>1. /\ Horizon \in Nat /\ MaxScans \in Nat /\ MaxFaults \in Nat /\ MaxChurn \in Nat
  BY RemindersAssumption DEF RemindersAssumption
<1>2. 0 \in 0..Horizon
  BY <1>1
<1>3. NoScan \in Works
  BY <1>2 DEF NoScan, Works
<1> QED
  BY <1>1, <1>2, <1>3

LEMMA InitTypes == Init => TypeOK
<1> SUFFICES ASSUME Init PROVE TypeOK
  OBVIOUS
<1>1. scan \in [Scans -> Works]
  BY Numbers DEF Init
<1>2. started \in 0..MaxScans /\ faults \in 0..MaxFaults /\ churn \in 0..MaxChurn
  BY Numbers DEF Init
<1> QED
  BY <1>1, <1>2, Numbers DEF Init, TypeOK, Works

\* A scan moves on within its type.
LEMMA ScanTypes ==
    ASSUME TypeOK, NEW s \in Scans, ScanStep(s)
    PROVE  scan' \in [Scans -> Works]
<1>0. scan \in [Scans -> Works] /\ filed \subseteq Keys /\ clock \in 0..Horizon
  BY DEF TypeOK, Works
<1>1. CASE ScanStart(s)
  <2> DEFINE x == [scan[s] EXCEPT !.pc = "checkins", !.now = clock]
  <2>1. x \in Works
    BY <1>0 DEF Works
  <2>2. scan' = [scan EXCEPT ![s] = x] \/ scan' = scan
    BY <1>1 DEF ScanStart
  <2> HIDE DEF x
  <2> QED
    BY <1>0, <2>1, <2>2
<1>2. CASE ScanCheckins(s)
  <2> DEFINE x == [scan[s] EXCEPT !.pc = "offdays", !.filled = filed]
  <2>1. x \in Works
    BY <1>0 DEF Works
  <2>2. scan' = [scan EXCEPT ![s] = x]
    BY <1>2 DEF ScanCheckins
  <2> HIDE DEF x
  <2> QED
    BY <1>0, <2>1, <2>2
<1>3. CASE ScanOffDays(s)
  <2> DEFINE x == [scan[s] EXCEPT !.pc = "enqueue", !.todo = DueKeys(s)]
  <2>0. DueKeys(s) \subseteq Keys
    BY DEF DueKeys
  <2>1. x \in Works
    BY <1>0, <2>0 DEF Works
  <2>2. scan' = [scan EXCEPT ![s] = x]
    BY <1>3 DEF ScanOffDays
  <2> HIDE DEF x
  <2> QED
    BY <1>0, <2>1, <2>2
<1>4. CASE ScanEnd(s)
  BY <1>0, <1>4, Numbers DEF ScanEnd
<1>5. ASSUME NEW k \in Keys, Enqueue(s, k) PROVE scan' \in [Scans -> Works]
  BY <1>0, <1>5 DEF Enqueue, Works
<1>6. ASSUME NEW k \in Keys, LookUp(s, k) PROVE scan' \in [Scans -> Works]
  <2> DEFINE x == [scan[s] EXCEPT !.todo = @ \ {k}, !.collided = {}]
  <2>1. x \in Works
    BY <1>0 DEF Works
  <2>2. scan' = [scan EXCEPT ![s] = x]
    BY <1>6 DEF LookUp
  <2> HIDE DEF x
  <2> QED
    BY <1>0, <2>1, <2>2
<1> QED
  BY <1>1, <1>2, <1>3, <1>4, <1>5, <1>6 DEF ScanStep

LEMMA StepTypes == TypeOK /\ [Next]_vars => TypeOK'
<1> SUFFICES ASSUME TypeOK, [Next]_vars PROVE TypeOK'
  OBVIOUS
<1> USE Numbers
<1>1. ASSUME NEW s \in Scans, ScanStep(s) PROVE TypeOK'
  <2>0. scan' \in [Scans -> Works]
    BY <1>1, ScanTypes
  <2>1. CASE ScanStart(s)
    BY <2>0, <2>1 DEF ScanStart, TypeOK, Works, rows
  <2>2. CASE ScanCheckins(s) \/ ScanOffDays(s) \/ ScanEnd(s) \/ \E k \in Keys : LookUp(s, k)
    BY <2>0, <2>2 DEF ScanCheckins, ScanOffDays, ScanEnd, LookUp, TypeOK, Works, rows, ghosts
  <2>3. ASSUME NEW k \in Keys, Enqueue(s, k) PROVE TypeOK'
    BY <2>0, <2>3 DEF Enqueue, TypeOK, Works
  <2> QED
    BY <1>1, <2>1, <2>2, <2>3 DEF ScanStep
<1>2. ASSUME NEW k \in Keys, Claim(k) PROVE TypeOK'
  BY <1>2 DEF Claim, TypeOK, ghosts
<1>3. ASSUME NEW k \in Keys, Settle(k) PROVE TypeOK'
  BY <1>3 DEF Settle, Claimed, TypeOK, ghosts
<1>4. ASSUME NEW k \in Keys, PutBack(k) PROVE TypeOK'
  BY <1>4 DEF PutBack, Claimed, TypeOK, ghosts
<1>5. ASSUME NEW k \in Keys, FileCheckin(k) PROVE TypeOK'
  BY <1>5 DEF FileCheckin, NowExcused, TypeOK, rows
<1>6. ASSUME NEW u \in Users, NEW d \in Dates, DeclareOffDay(u, d) PROVE TypeOK'
  BY <1>6 DEF DeclareOffDay, NowExcused, TypeOK, rows
<1>7. ASSUME NEW u \in Users, NEW d \in Dates, WithdrawOffDay(u, d) PROVE TypeOK'
  BY <1>7 DEF WithdrawOffDay, TypeOK, rows
<1>8. CASE Tick
  BY <1>8 DEF Tick, TypeOK, rows
<1>9. CASE UNCHANGED vars
  BY <1>9 DEF TypeOK, vars, rows, ghosts
<1> QED
  BY <1>1, <1>2, <1>3, <1>4, <1>5, <1>6, <1>7, <1>8, <1>9 DEF Next, MemberStep

-----------------------------------------------------------------------------
(* Reminders and scans.                                                    *)

LEMMA ScansFinite == IsFiniteSet(Scans)
BY RemindersAssumption DEF RemindersAssumption

LEMMA MayEnqueueFinite ==
    ASSUME NEW k \in Keys
    PROVE  IsFiniteSet(MayEnqueue(k)) /\ Cardinality(MayEnqueue(k)) \in Nat
<1>1. MayEnqueue(k) \subseteq Scans
  BY DEF MayEnqueue
<1> QED
  BY <1>1, ScansFinite, FS_Subset, FS_CardinalityType

\* One more or one less pending row.
LEMMA PendingCount ==
    ASSUME NEW k
    PROVE  /\ Cardinality({k} \cap pending) = IF k \in pending THEN 1 ELSE 0
           /\ Cardinality({k} \cap pending') = IF k \in pending' THEN 1 ELSE 0
<1>1. Cardinality({k}) = 1 /\ Cardinality({}) = 0
  BY FS_Singleton, FS_EmptySet
<1>2. {k} \cap pending = IF k \in pending THEN {k} ELSE {}
  OBVIOUS
<1>3. {k} \cap pending' = IF k \in pending' THEN {k} ELSE {}
  OBVIOUS
<1> QED
  BY <1>1, <1>2, <1>3

LEMMA RowsStep == TypeOK /\ RowsWereInserted /\ [Next]_vars => RowsWereInserted'
<1> SUFFICES ASSUME TypeOK, RowsWereInserted, [Next]_vars, NEW k \in Keys
             PROVE  (sent[k] + inflight[k] + Cardinality({k} \cap pending) <= enqueued[k])'
  BY DEF RowsWereInserted
<1> DEFINE n == IF k \in pending THEN 1 ELSE 0
           m == IF k \in pending' THEN 1 ELSE 0
<1>0. /\ inflight \in [Keys -> Nat] /\ sent \in [Keys -> Nat] /\ enqueued \in [Keys -> Nat]
      /\ sent[k] + inflight[k] + n <= enqueued[k]
  BY PendingCount DEF TypeOK, RowsWereInserted
<1> SUFFICES sent'[k] + inflight'[k] + m <= enqueued'[k]
  BY PendingCount
<1>1. ASSUME UNCHANGED <<inflight, sent, enqueued, pending>>
      PROVE  sent'[k] + inflight'[k] + m <= enqueued'[k]
  BY <1>0, <1>1
<1>2. ASSUME NEW s \in Scans, ScanStep(s) PROVE sent'[k] + inflight'[k] + m <= enqueued'[k]
  <2>1. ASSUME NEW c \in Keys, Enqueue(s, c)
        PROVE  sent'[k] + inflight'[k] + m <= enqueued'[k]
    BY <1>0, <2>1 DEF Enqueue, Duplicate
  <2>2. CASE \/ ScanStart(s) \/ ScanCheckins(s) \/ ScanOffDays(s) \/ ScanEnd(s)
             \/ \E c \in Keys : LookUp(s, c)
    BY <1>1, <2>2 DEF ScanStart, ScanCheckins, ScanOffDays, ScanEnd, LookUp, rows, ghosts
  <2> QED
    BY <1>2, <2>1, <2>2 DEF ScanStep
<1>3. ASSUME NEW c \in Keys, Claim(c) PROVE sent'[k] + inflight'[k] + m <= enqueued'[k]
  BY <1>0, <1>3 DEF Claim, ghosts
<1>4. ASSUME NEW c \in Keys, Settle(c) PROVE sent'[k] + inflight'[k] + m <= enqueued'[k]
  BY <1>0, <1>4 DEF Settle, Claimed, ghosts
<1>5. ASSUME NEW c \in Keys, PutBack(c) PROVE sent'[k] + inflight'[k] + m <= enqueued'[k]
  BY <1>0, <1>5 DEF PutBack, Claimed, ghosts
<1>6. CASE MemberStep \/ Tick \/ UNCHANGED vars
  BY <1>1, <1>6
     DEF MemberStep, FileCheckin, DeclareOffDay, WithdrawOffDay, Tick, vars, rows, ghosts
<1> QED
  BY <1>2, <1>3, <1>4, <1>5, <1>6 DEF Next

\* A key stays due or not at an instant: members do not move.
LEMMA DueKept ==
    ASSUME zone' = zone
    PROVE  \A k \in Keys, t \in 0..Horizon : Due(k, t)' <=> Due(k, t)
BY DEF Due, LocalDate, LocalTime

\* Fewer scans may insert k, and no insert: the bound stays.
LEMMA FewerInserts ==
    ASSUME TypeOK, NEW k \in Keys,
           enqueued[k] + Cardinality(MayEnqueue(k)) <= dueScans[k],
           NEW S, S \subseteq MayEnqueue(k)
    PROVE  enqueued[k] + Cardinality(S) <= dueScans[k]
<1>1. IsFiniteSet(S) /\ Cardinality(S) <= Cardinality(MayEnqueue(k)) /\ Cardinality(S) \in Nat
  BY MayEnqueueFinite, FS_Subset, FS_CardinalityType
<1> QED
  BY <1>1, MayEnqueueFinite DEF TypeOK

\* The scan at work, after one of its own steps.
LEMMA MayEnqueueStep ==
    ASSUME TypeOK, TypeOK', zone' = zone, NEW k \in Keys, NEW s \in Scans,
           \A r \in Scans \ {s} : scan'[r] = scan[r]
    PROVE  MayEnqueue(k)' \ {s} = MayEnqueue(k) \ {s}
BY DueKept DEF MayEnqueue, TypeOK, Works

LEMMA InsertsStep == TypeOK /\ TypeOK' /\ InsertsByScans /\ [Next]_vars => InsertsByScans'
<1> SUFFICES ASSUME TypeOK, TypeOK', InsertsByScans, [Next]_vars, NEW k \in Keys
             PROVE  (enqueued[k] + Cardinality(MayEnqueue(k)) <= dueScans[k])'
  BY DEF InsertsByScans
<1> DEFINE S == MayEnqueue(k)
           T == MayEnqueue(k)'
<1>0. /\ scan \in [Scans -> Works] /\ zone' = zone
      /\ enqueued \in [Keys -> Nat] /\ dueScans \in [Keys -> Nat]
      /\ enqueued[k] + Cardinality(S) <= dueScans[k]
  <2>1. zone' = zone
    BY DEF Next, ScanStep, ScanStart, ScanCheckins, ScanOffDays, ScanEnd, Enqueue, LookUp, Claim,
       Settle, PutBack, MemberStep, FileCheckin, DeclareOffDay, WithdrawOffDay, Tick, vars
  <2> QED
    BY <2>1 DEF TypeOK, Works, InsertsByScans
<1>1. ASSUME T \subseteq S, enqueued'[k] = enqueued[k], dueScans'[k] = dueScans[k]
      PROVE  enqueued'[k] + Cardinality(T) <= dueScans'[k]
  <2> HIDE DEF T
  <2> QED
    BY <1>0, <1>1, FewerInserts
<1>2. ASSUME scan' = scan PROVE T \subseteq S
  BY <1>0, <1>2, DueKept DEF MayEnqueue, Works
<1>3. ASSUME NEW s \in Scans, ScanStep(s)
      PROVE  enqueued'[k] + Cardinality(T) <= dueScans'[k]
  <2>0. ASSUME \A r \in Scans \ {s} : scan'[r] = scan[r], s \in T => s \in S
        PROVE  T \subseteq S
    BY <1>0, <2>0, MayEnqueueStep
  <2>1. CASE ScanStart(s)
    <3>1. dueScans'[k] = IF Due(k, clock) THEN dueScans[k] + 1 ELSE dueScans[k]
      BY <2>1 DEF ScanStart
    <3>2. enqueued'[k] = enqueued[k]
      BY <2>1 DEF ScanStart
    <3>3. T \ {s} \subseteq S
      BY <1>0, <2>1, MayEnqueueStep DEF ScanStart
    <3>4. s \in T => Due(k, clock) \/ s \in S
      BY <1>0, <2>1, DueKept DEF ScanStart, MayEnqueue, TypeOK
    <3>5. IsFiniteSet(S) /\ Cardinality(S) \in Nat
      BY MayEnqueueFinite
    <3> HIDE DEF S, T
    <3>6. CASE Due(k, clock)
      <4>1. T \subseteq S \cup {s}
        BY <3>3
      <4>2. IsFiniteSet(S \cup {s}) /\ Cardinality(S \cup {s}) <= Cardinality(S) + 1
        BY <3>5, FS_AddElement
      <4>3. IsFiniteSet(T) /\ Cardinality(T) <= Cardinality(S \cup {s})
        BY <4>1, <4>2, FS_Subset
      <4>4. Cardinality(T) \in Nat /\ Cardinality(S \cup {s}) \in Nat
        BY <4>2, <4>3, FS_CardinalityType
      <4> QED
        BY <1>0, <3>1, <3>2, <3>5, <3>6, <4>2, <4>3, <4>4
    <3>7. CASE ~Due(k, clock)
      BY <1>1, <3>1, <3>2, <3>3, <3>4, <3>7
    <3> QED
      BY <3>6, <3>7
  <2>2. CASE ScanCheckins(s)
    <3>1. s \in T => s \in S
      BY <1>0, <2>2, DueKept DEF ScanCheckins, MayEnqueue, Works
    <3>2. /\ \A r \in Scans \ {s} : scan'[r] = scan[r]
          /\ enqueued'[k] = enqueued[k] /\ dueScans'[k] = dueScans[k]
      BY <1>0, <2>2 DEF ScanCheckins, ghosts
    <3> QED
      BY <1>1, <2>0, <3>1, <3>2
  <2>3. CASE ScanOffDays(s)
    <3>1. s \in T => s \in S
      BY <1>0, <2>3, DueKept DEF ScanOffDays, MayEnqueue, DueKeys, Works
    <3>2. /\ \A r \in Scans \ {s} : scan'[r] = scan[r]
          /\ enqueued'[k] = enqueued[k] /\ dueScans'[k] = dueScans[k]
      BY <1>0, <2>3 DEF ScanOffDays, ghosts
    <3> QED
      BY <1>1, <2>0, <3>1, <3>2
  <2>4. CASE ScanEnd(s)
    <3>1. s \in T => s \in S
      BY <1>0, <2>4 DEF ScanEnd, MayEnqueue, NoScan, Works
    <3>2. /\ \A r \in Scans \ {s} : scan'[r] = scan[r]
          /\ enqueued'[k] = enqueued[k] /\ dueScans'[k] = dueScans[k]
      BY <1>0, <2>4 DEF ScanEnd, ghosts
    <3> QED
      BY <1>1, <2>0, <3>1, <3>2
  <2>5. ASSUME NEW c \in Keys, LookUp(s, c)
        PROVE  enqueued'[k] + Cardinality(T) <= dueScans'[k]
    <3>1. s \in T => s \in S
      BY <1>0, <2>5, DueKept DEF LookUp, MayEnqueue, Works
    <3>2. /\ \A r \in Scans \ {s} : scan'[r] = scan[r]
          /\ enqueued'[k] = enqueued[k] /\ dueScans'[k] = dueScans[k]
      BY <1>0, <2>5 DEF LookUp, ghosts
    <3> QED
      BY <1>1, <2>0, <3>1, <3>2
  <2>6. ASSUME NEW c \in Keys, Enqueue(s, c)
        PROVE  enqueued'[k] + Cardinality(T) <= dueScans'[k]
    <3>1. s \in T => s \in S
      BY <1>0, <2>6, DueKept DEF Enqueue, MayEnqueue, Works
    <3>2. /\ \A r \in Scans \ {s} : scan'[r] = scan[r]
          /\ dueScans'[k] = dueScans[k]
      BY <1>0, <2>6 DEF Enqueue
    <3>3. T \subseteq S
      BY <2>0, <3>1, <3>2
    <3>4. CASE enqueued'[k] = enqueued[k]
      BY <1>1, <3>2, <3>3, <3>4
    <3>5. CASE enqueued'[k] # enqueued[k]
      <4>1. c = k /\ enqueued'[k] = enqueued[k] + 1 /\ scan' = [scan EXCEPT ![s].todo = @ \ {k}]
        BY <1>0, <2>6, <3>5 DEF Enqueue
      <4>2. s \in S /\ s \notin T
        BY <1>0, <2>6, <4>1 DEF Enqueue, MayEnqueue, Works
      <4>3. T \subseteq S \ {s}
        BY <3>3, <4>2
      <4>4. IsFiniteSet(S) /\ Cardinality(S) \in Nat
        BY MayEnqueueFinite
      <4> HIDE DEF S, T
      <4>5. IsFiniteSet(S \ {s}) /\ Cardinality(S \ {s}) = Cardinality(S) - 1
        BY <4>2, <4>4, FS_RemoveElement
      <4>6. IsFiniteSet(T) /\ Cardinality(T) <= Cardinality(S \ {s})
        BY <4>3, <4>5, FS_Subset
      <4>7. Cardinality(T) \in Nat
        BY <4>6, FS_CardinalityType
      <4> QED
        BY <1>0, <3>2, <4>1, <4>4, <4>5, <4>6, <4>7
    <3> QED
      BY <3>4, <3>5
  <2> QED
    BY <1>3, <2>1, <2>2, <2>3, <2>4, <2>5, <2>6 DEF ScanStep
<1>4. ASSUME NEW c \in Keys, Claim(c) \/ Settle(c) \/ PutBack(c)
      PROVE  enqueued'[k] + Cardinality(T) <= dueScans'[k]
  <2>1. scan' = scan /\ enqueued' = enqueued /\ dueScans' = dueScans
    BY <1>4 DEF Claim, Settle, PutBack, ghosts
  <2> QED
    BY <1>1, <1>2, <2>1
<1>5. CASE MemberStep \/ Tick \/ UNCHANGED vars
  <2>1. scan' = scan /\ enqueued' = enqueued /\ dueScans' = dueScans
    BY <1>5 DEF MemberStep, FileCheckin, DeclareOffDay, WithdrawOffDay, Tick, vars, ghosts
  <2> QED
    BY <1>1, <1>2, <2>1
<1> QED
  BY <1>3, <1>4, <1>5 DEF Next

-----------------------------------------------------------------------------
(* Members excused before their window.                                    *)

\* A key no scan was due for is in no scan's hands.
LEMMA NeverDueInNoHands ==
    ASSUME TypeOK, InsertsByScans, NEW k \in Keys, dueScans[k] = 0
    PROVE  \A s \in Scans :
             /\ ~(scan[s].pc \in {"checkins", "offdays"} /\ Due(k, scan[s].now))
             /\ ~(scan[s].pc = "enqueue" /\ k \in scan[s].todo)
<1>1. enqueued[k] \in Nat /\ Cardinality(MayEnqueue(k)) \in Nat
  BY MayEnqueueFinite DEF TypeOK
<1>2. enqueued[k] + Cardinality(MayEnqueue(k)) <= 0
  BY DEF InsertsByScans
<1>3. Cardinality(MayEnqueue(k)) = 0
  BY <1>1, <1>2
<1>4. MayEnqueue(k) = {}
  BY <1>3, MayEnqueueFinite, FS_EmptySet
<1> QED
  BY <1>4 DEF MayEnqueue

LEMMA ExcusedStep ==
    TypeOK /\ TypeOK' /\ InsertsByScans /\ ExcusedOut /\ [Next]_vars => ExcusedOut'
<1> SUFFICES ASSUME TypeOK, TypeOK', InsertsByScans, ExcusedOut, [Next]_vars,
                    NEW k \in excused'
             PROVE  /\ k \in filed'
                    /\ \A s \in Scans :
                         /\ scan'[s].pc = "offdays" /\ Due(k, scan[s].now)' => k \in scan'[s].filled
                         /\ scan'[s].pc = "enqueue" => k \notin scan'[s].todo
  BY DEF ExcusedOut
<1> DEFINE Out == /\ k \in filed'
                  /\ \A s \in Scans :
                       /\ scan'[s].pc = "offdays" /\ Due(k, scan[s].now)' => k \in scan'[s].filled
                       /\ scan'[s].pc = "enqueue" => k \notin scan'[s].todo
<1>0. /\ scan \in [Scans -> Works] /\ scan' \in [Scans -> Works] /\ k \in Keys
      /\ filed \subseteq Keys
  BY DEF TypeOK, Works
<1>z. zone' = zone => \A s \in Scans : Due(k, scan[s].now)' <=> Due(k, scan'[s].now)
  BY <1>0, DueKept DEF Works
<1>1. ASSUME k \in excused, filed \subseteq filed', scan' = scan, zone' = zone PROVE Out
  BY <1>0, <1>z, <1>1 DEF ExcusedOut
<1>2. ASSUME NEW r \in Scans, ScanStep(r) PROVE Out
  <2>1. CASE ScanStart(r)
    BY <1>0, <1>z, <2>1 DEF ExcusedOut, ScanStart, Works
  <2>2. CASE ScanCheckins(r)
    BY <1>0, <1>z, <2>2 DEF ExcusedOut, ScanCheckins, Works, ghosts
  <2>3. CASE ScanOffDays(r)
    <3>1. k \notin DueKeys(r)
      BY <2>3 DEF ExcusedOut, ScanOffDays, DueKeys, ghosts
    <3> QED
      BY <1>0, <1>z, <2>3, <3>1 DEF ExcusedOut, ScanOffDays, Works, ghosts
  <2>4. CASE ScanEnd(r)
    BY <1>0, <1>z, <2>4 DEF ExcusedOut, ScanEnd, NoScan, Works, ghosts
  <2>5. ASSUME NEW c \in Keys, Enqueue(r, c) \/ LookUp(r, c) PROVE Out
    BY <1>0, <1>z, <2>5 DEF ExcusedOut, Enqueue, LookUp, Works, ghosts
  <2> QED
    BY <1>2, <2>1, <2>2, <2>3, <2>4, <2>5 DEF ScanStep
<1>3. ASSUME NEW c \in Keys, Claim(c) \/ Settle(c) \/ PutBack(c) PROVE Out
  BY <1>1, <1>3 DEF Claim, Settle, PutBack, ghosts
<1>4. ASSUME NEW c \in Keys, FileCheckin(c) PROVE Out
  <2>1. CASE k \in excused
    BY <1>1, <1>4, <2>1 DEF FileCheckin
  <2>2. CASE k \notin excused
    <3>1. k = c /\ dueScans[k] = 0 /\ k \in filed' /\ scan' = scan /\ zone' = zone
      BY <1>4, <2>2 DEF FileCheckin, NowExcused
    <3> QED
      BY <1>0, <1>z, <3>1, NeverDueInNoHands
  <2> QED
    BY <2>1, <2>2
<1>5. ASSUME NEW u \in Users, NEW d \in Dates, DeclareOffDay(u, d) \/ WithdrawOffDay(u, d)
      PROVE  Out
  BY <1>1, <1>5 DEF DeclareOffDay, WithdrawOffDay
<1>6. CASE Tick \/ UNCHANGED vars
  BY <1>1, <1>6 DEF Tick, vars, ghosts
<1> QED
  BY <1>2, <1>3, <1>4, <1>5, <1>6 DEF Next, MemberStep

LEMMA SparedStep ==
    TypeOK /\ TypeOK' /\ InsertsByScans /\ SparedOut /\ [Next]_vars => SparedOut'
<1> SUFFICES ASSUME TypeOK, TypeOK', InsertsByScans, SparedOut, [Next]_vars,
                    NEW k \in spared'
             PROVE  /\ <<k.user, k.date>> \in off'
                    /\ \A s \in Scans : scan'[s].pc = "enqueue" => k \notin scan'[s].todo
  BY DEF SparedOut
<1> DEFINE Out == /\ <<k.user, k.date>> \in off'
                  /\ \A s \in Scans : scan'[s].pc = "enqueue" => k \notin scan'[s].todo
<1>0. scan \in [Scans -> Works] /\ scan' \in [Scans -> Works] /\ k \in Keys
  BY DEF TypeOK, Works
<1>1. ASSUME k \in spared, off \subseteq off', scan' = scan PROVE Out
  BY <1>1 DEF SparedOut
<1>2. ASSUME NEW r \in Scans, ScanStep(r) PROVE Out
  <2>1. CASE ScanStart(r)
    BY <1>0, <2>1 DEF SparedOut, ScanStart, Works
  <2>2. CASE ScanCheckins(r)
    BY <1>0, <2>2 DEF SparedOut, ScanCheckins, Works, ghosts
  <2>3. CASE ScanOffDays(r)
    BY <1>0, <2>3 DEF SparedOut, ScanOffDays, DueKeys, Works, ghosts
  <2>4. CASE ScanEnd(r)
    BY <1>0, <2>4 DEF SparedOut, ScanEnd, NoScan, Works, ghosts
  <2>5. ASSUME NEW c \in Keys, Enqueue(r, c) \/ LookUp(r, c) PROVE Out
    BY <1>0, <2>5 DEF SparedOut, Enqueue, LookUp, Works, ghosts
  <2> QED
    BY <1>2, <2>1, <2>2, <2>3, <2>4, <2>5 DEF ScanStep
<1>3. ASSUME NEW c \in Keys, Claim(c) \/ Settle(c) \/ PutBack(c) \/ FileCheckin(c) PROVE Out
  BY <1>1, <1>3 DEF Claim, Settle, PutBack, FileCheckin, ghosts
<1>4. ASSUME NEW u \in Users, NEW d \in Dates, DeclareOffDay(u, d) PROVE Out
  <2>1. CASE k \in spared
    BY <1>1, <1>4, <2>1 DEF DeclareOffDay
  <2>2. CASE k \notin spared
    <3>1. dueScans[k] = 0 /\ k.user = u /\ k.date = d /\ scan' = scan
      BY <1>4, <2>2 DEF DeclareOffDay, NowExcused
    <3>2. <<k.user, k.date>> \in off'
      BY <1>4, <3>1 DEF DeclareOffDay
    <3> QED
      BY <1>0, <3>1, <3>2, NeverDueInNoHands
  <2> QED
    BY <2>1, <2>2
<1>5. ASSUME NEW u \in Users, NEW d \in Dates, WithdrawOffDay(u, d) PROVE Out
  <2>1. k \in spared /\ ~(k.user = u /\ k.date = d) /\ scan' = scan
    BY <1>0, <1>5 DEF WithdrawOffDay
  <2>2. <<k.user, k.date>> # <<u, d>>
    BY <2>1
  <2>3. <<k.user, k.date>> \in off'
    BY <1>5, <2>1, <2>2 DEF WithdrawOffDay, SparedOut
  <2> QED
    BY <2>1, <2>3 DEF SparedOut
<1>6. CASE Tick \/ UNCHANGED vars
  BY <1>1, <1>6 DEF Tick, vars, ghosts
<1> QED
  BY <1>2, <1>3, <1>4, <1>5, <1>6 DEF Next, MemberStep

-----------------------------------------------------------------------------
(* Days and times of day.                                                  *)

LEMMA Multiples ==
    ASSUME NEW n \in Nat, NEW p \in Int, NEW q \in Int, p < q
    PROVE  p * n + n <= q * n
<1>1. q - p - 1 \in Nat
  OBVIOUS
<1>2. (q - p - 1) * n >= 0
  BY <1>1
<1>3. (q - p - 1) * n = q * n - p * n - n
  OBVIOUS
<1> QED
  BY <1>2, <1>3

LEMMA DivMod ==
    ASSUME NEW n \in Nat \ {0}, NEW a \in Int
    PROVE  a \div n \in Int /\ a % n \in 0..(n - 1) /\ a = (a \div n) * n + (a % n)
OBVIOUS

\* Quotient and remainder are determined by their equation.
LEMMA DivModUnique ==
    ASSUME NEW n \in Nat \ {0}, NEW q \in Int, NEW r \in 0..(n - 1)
    PROVE  (q * n + r) \div n = q /\ (q * n + r) % n = r
<1> DEFINE a == q * n + r
<1>1. a \in Int
  OBVIOUS
<1> DEFINE p == a \div n
           t == a % n
<1>2. p \in Int /\ t \in 0..(n - 1) /\ a = p * n + t
  BY <1>1, DivMod
<1> HIDE DEF p, t
<1>3. p * n + t = q * n + r /\ p * n \in Int /\ q * n \in Int
  BY <1>2
<1>4. ~(p < q)
  BY <1>2, <1>3, Multiples
<1>5. ~(q < p)
  BY <1>2, <1>3, Multiples
<1>6. p = q
  BY <1>2, <1>4, <1>5
<1>7. t = r
  BY <1>2, <1>3, <1>6
<1> QED
  BY <1>6, <1>7 DEF p, t

\* A window that is over had a tick of the crontab outside the quiet hours.
LEMMA WindowHadGoodTick ==
    ASSUME Covered, TypeOK, NEW k \in Keys, Seen(k), Over(k, clock)
    PROVE  \E t \in 0..Horizon : t < clock /\ Good(k, t)
<1> DEFINE z == zone[k.user]
           D == k.date * DayLength
<1>1. /\ DayLength \in Nat \ {0} /\ clock \in 0..Horizon /\ Horizon \in Nat
      /\ z \in Zones /\ z \in 0..(DayLength - 1) /\ k.slot \in Slots
  BY RemindersAssumption DEF RemindersAssumption, TypeOK, Keys
<1>2. k.date \in Int
  BY DEF Keys, Dates
<1>3. PICK h \in Window(k.slot) \ QuietHours :
         h \in 0..(DayLength - 1) /\ (h + DayLength - z) % DayLength \in CronTicks
  BY <1>1 DEF Covered
<1> DEFINE t == D + h - z
<1>4. D \in Int /\ t \in Int /\ t >= 0
  BY <1>1, <1>2, <1>3 DEF Seen
<1>5. (t + z) \div DayLength = k.date /\ (t + z) % DayLength = h
  <2>1. t + z = k.date * DayLength + h
    BY <1>1, <1>2, <1>3, <1>4
  <2> HIDE DEF t
  <2> QED
    BY <1>1, <1>2, <1>3, <2>1, DivModUnique
<1>6. t % DayLength \in CronTicks
  <2> DEFINE b == h + DayLength - z
             q == b \div DayLength
             r == b % DayLength
  <2>1. b \in Int
    BY <1>1, <1>3
  <2>2. q \in Int /\ r \in 0..(DayLength - 1) /\ b = q * DayLength + r
    BY <1>1, <2>1, DivMod
  <2>3. r \in CronTicks
    BY <1>3
  <2> HIDE DEF q, r
  <2>4. (k.date - 1 + q) * DayLength = D - DayLength + q * DayLength
    BY <1>1, <1>2, <2>2
  <2>5. q * DayLength \in Int
    BY <1>1, <2>2
  <2>6. t = (k.date - 1 + q) * DayLength + r
    BY <1>1, <1>3, <1>4, <2>2, <2>4, <2>5
  <2>7. t % DayLength = r
    <3> DEFINE p == k.date - 1 + q
    <3>1. p \in Int
      BY <1>2, <2>2
    <3> HIDE DEF p
    <3>2. (p * DayLength + r) % DayLength = r
      BY <1>1, <2>2, <3>1, DivModUnique
    <3> QED
      BY <2>6, <3>2 DEF p
  <2> QED
    BY <2>3, <2>7
<1>7. t < clock
  <2> DEFINE c == clock + z
             L == c \div DayLength
             m == c % DayLength
  <2>0. c \in Int
    BY <1>1
  <2>1. L \in Int /\ m \in 0..(DayLength - 1) /\ c = L * DayLength + m
    <3> HIDE DEF c
    <3> QED
      BY <1>1, <2>0, DivMod
  <2>2. L > k.date \/ (L = k.date /\ m > h)
    <3>1. LocalDate(k.user, clock) = L /\ LocalTime(k.user, clock) = m
      BY DEF LocalDate, LocalTime
    <3>2. h \in Window(k.slot)
      BY <1>3
    <3> HIDE DEF L, m
    <3> QED
      BY <3>1, <3>2 DEF Over
  <2> HIDE DEF L, m
  <2>3. L * DayLength \in Int
    BY <1>1, <2>1
  <2>4. CASE L > k.date
    <3>1. D + DayLength <= L * DayLength
      BY <1>1, <1>2, <2>1, <2>4, Multiples
    <3> QED
      BY <1>1, <1>3, <1>4, <2>1, <2>3, <3>1
  <2>5. CASE L = k.date /\ m > h
    BY <1>1, <1>3, <1>4, <2>1, <2>5
  <2> QED
    BY <2>2, <2>4, <2>5
<1>8. Good(k, t)
  BY <1>3, <1>5, <1>6 DEF Good, Due, LocalDate, LocalTime
<1>9. t \in 0..Horizon
  BY <1>1, <1>4, <1>7
<1> QED
  BY <1>7, <1>8, <1>9

-----------------------------------------------------------------------------
(* The theorems.                                                           *)

LEMMA InitInv == Init => RemindersInv
<1> SUFFICES ASSUME Init PROVE RemindersInv
  OBVIOUS
<1>1. TypeOK
  BY InitTypes
<1>2. \A k \in Keys : {k} \cap pending = {} /\ MayEnqueue(k) = {}
  BY DEF Init, MayEnqueue, NoScan
<1>3. RowsWereInserted /\ InsertsByScans
  BY <1>2, FS_EmptySet DEF RowsWereInserted, InsertsByScans, Init
<1>4. ExcusedOut /\ SparedOut
  BY DEF Init, ExcusedOut, SparedOut
<1> QED
  BY <1>1, <1>3, <1>4 DEF RemindersInv

LEMMA StepInv == RemindersInv /\ [Next]_vars => RemindersInv'
BY StepTypes, RowsStep, InsertsStep, ExcusedStep, SparedStep DEF RemindersInv

\* The inductive invariant: every reminder is the work of a scan started in
\* its window, and what was excused before the window is in no scan's list.
THEOREM RemindersCorrect == Spec => []RemindersInv
BY InitInv, StepInv, PTL DEF Spec

\* Every variable of the reminders keeps its type.
THEOREM TypeCorrect == Spec => []TypeOK
<1>1. RemindersInv => TypeOK
  BY DEF RemindersInv
<1> QED
  BY <1>1, RemindersCorrect, PTL

\* For any number of scans, members, zones, faults and changes: a slot of a
\* day is pushed, in flight or pending at most once per scan of its window.
THEOREM BoundedByScans == Spec => []RemindersBoundedByScans
<1>1. RemindersInv => RemindersBoundedByScans
  <2> SUFFICES ASSUME RemindersInv, NEW k \in Keys
               PROVE  sent[k] + inflight[k] + Cardinality({k} \cap pending) <= dueScans[k]
    BY DEF RemindersBoundedByScans
  <2>1. /\ sent[k] \in Nat /\ inflight[k] \in Nat /\ enqueued[k] \in Nat /\ dueScans[k] \in Nat
        /\ Cardinality(MayEnqueue(k)) \in Nat
    BY MayEnqueueFinite DEF RemindersInv, TypeOK
  <2>2. Cardinality({k} \cap pending) \in Nat
    <3>1. IsFiniteSet({k} \cap pending)
      BY FS_Singleton, FS_Subset
    <3> QED
      BY <3>1, FS_CardinalityType
  <2>3. /\ sent[k] + inflight[k] + Cardinality({k} \cap pending) <= enqueued[k]
        /\ enqueued[k] + Cardinality(MayEnqueue(k)) <= dueScans[k]
    BY DEF RemindersInv, RowsWereInserted, InsertsByScans
  <2> QED
    BY <2>1, <2>2, <2>3
<1> QED
  BY <1>1, RemindersCorrect, PTL

\* No step of a scan inserts a reminder for a member who had filed, or was
\* off, before the window opened.
LEMMA StepLeavesAlone ==
    RemindersInv /\ [Next]_vars => [\A k \in excused \cup spared : enqueued'[k] = enqueued[k]]_vars
<1> SUFFICES ASSUME RemindersInv, Next, NEW k \in excused \cup spared
             PROVE  enqueued'[k] = enqueued[k]
  OBVIOUS
<1>0. k \in Keys /\ enqueued \in [Keys -> Nat]
  BY DEF RemindersInv, TypeOK
<1>1. ASSUME NEW s \in Scans, NEW c \in Keys, Enqueue(s, c) PROVE enqueued'[k] = enqueued[k]
  <2>1. scan[s].pc = "enqueue" /\ c \in scan[s].todo
    BY <1>1 DEF Enqueue
  <2>2. k # c
    BY <2>1 DEF RemindersInv, ExcusedOut, SparedOut
  <2> QED
    BY <1>0, <1>1, <2>2 DEF Enqueue
<1>2. ASSUME NEW s \in Scans, ScanStep(s) PROVE enqueued'[k] = enqueued[k]
  BY <1>1, <1>2
     DEF ScanStep, ScanStart, ScanCheckins, ScanOffDays, ScanEnd, LookUp, ghosts
<1> QED
  BY <1>2 DEF Next, MemberStep, Claim, Settle, PutBack, FileCheckin, DeclareOffDay,
              WithdrawOffDay, Tick, ghosts

\* Whoever filed, or was off, before the window is left alone by every scan.
THEOREM LeftAlone == Spec => ExcusedAreLeftAlone
BY RemindersCorrect, StepLeavesAlone, PTL DEF Spec, ExcusedAreLeftAlone

-----------------------------------------------------------------------------
(* Reminders get through.                                                  *)

\* Nothing that went wrong is forgotten, and no reminder sent is taken back.
LEMMA Monotone ==
    ASSUME TypeOK, Next
    PROVE  /\ zone' = zone
           /\ \A k \in Keys : Owed(k)' => Owed(k)
           /\ \A k \in Keys : sent[k] > 0 => sent'[k] > 0
<1>1. zone' = zone
  BY DEF Next, ScanStep, ScanStart, ScanCheckins, ScanOffDays, ScanEnd, Enqueue, LookUp, Claim,
     Settle, PutBack, MemberStep, FileCheckin, DeclareOffDay, WithdrawOffDay, Tick
<1>2. faults' = faults \/ faults' = faults + 1
  BY DEF Next, ScanStep, ScanStart, ScanCheckins, ScanOffDays, ScanEnd, Enqueue, LookUp, Claim,
     Settle, PutBack, MemberStep, FileCheckin, DeclareOffDay, WithdrawOffDay, Tick
<1>a. faults \in Nat
  BY DEF TypeOK
<1>3. touched \subseteq touched'
  BY DEF Next, ScanStep, ScanStart, ScanCheckins, ScanOffDays, ScanEnd, Enqueue, LookUp, Claim,
     Settle, PutBack, MemberStep, FileCheckin, DeclareOffDay, WithdrawOffDay, Tick, ghosts
<1>b. lagged' = lagged \/ lagged' = (lagged \/ ~KeptUp)
  BY DEF Next, ScanStep, ScanStart, ScanCheckins, ScanOffDays, ScanEnd, Enqueue, LookUp, Claim,
     Settle, PutBack, MemberStep, FileCheckin, DeclareOffDay, WithdrawOffDay, Tick, ghosts
<1>4. sent' = sent \/ \E c \in Keys : Settle(c)
  BY DEF Next, ScanStep, ScanStart, ScanCheckins, ScanOffDays, ScanEnd, Enqueue, LookUp, Claim,
     PutBack, MemberStep, FileCheckin, DeclareOffDay, WithdrawOffDay, Tick, rows
<1>5. ASSUME NEW k \in Keys, sent[k] > 0 PROVE sent'[k] > 0
  BY <1>4, <1>5 DEF Settle, TypeOK
<1>6. ASSUME NEW k \in Keys, Owed(k)' PROVE Owed(k)
  <2>1. ~lagged
    BY <1>6, <1>b DEF Owed
  <2>2. faults = 0
    BY <1>2, <1>6, <1>a DEF Owed
  <2> QED
    BY <1>3, <1>6, <2>1, <2>2 DEF Owed
<1> QED
  BY <1>1, <1>5, <1>6

LEMMA GoodKept ==
    ASSUME zone' = zone, NEW k \in Keys
    PROVE  /\ \A t \in 0..Horizon : Good(k, t)' <=> Good(k, t)
           /\ clock' = clock => (Good(k, clock)' <=> Good(k, clock))
BY DEF Good, Due, LocalDate, LocalTime

LEMMA TouchedStep == TypeOK /\ TouchedKnown /\ Next => TouchedKnown'
<1> SUFFICES ASSUME TypeOK, TouchedKnown, Next PROVE TouchedKnown'
  OBVIOUS
<1>0. scan \in [Scans -> Works]
  BY DEF TypeOK, Works
<1>1. ASSUME touched \subseteq touched', filed' = filed, off' \subseteq off,
             \A s \in Scans : \/ scan'[s].pc # "offdays"
                              \/ scan'[s].filled = filed
                              \/ scan'[s].filled = scan[s].filled /\ scan[s].pc = "offdays"
      PROVE  TouchedKnown'
  BY <1>1 DEF TouchedKnown
<1>2. ASSUME NEW s \in Scans, ScanStep(s) PROVE TouchedKnown'
  <2>1. touched' = touched /\ filed' = filed /\ off' = off
    BY <1>2 DEF ScanStep, ScanStart, ScanCheckins, ScanOffDays, ScanEnd, Enqueue, LookUp, ghosts
  <2>2. \A r \in Scans : \/ scan'[r].pc # "offdays"
                         \/ scan'[r].filled = filed
                         \/ scan'[r].filled = scan[r].filled /\ scan[r].pc = "offdays"
    <3>1. CASE ScanStart(s) \/ ScanCheckins(s)
      BY <1>0, <3>1 DEF ScanStart, ScanCheckins, Works
    <3>2. CASE ScanOffDays(s) \/ ScanEnd(s)
      BY <1>0, <3>2 DEF ScanOffDays, ScanEnd, NoScan, Works
    <3>3. ASSUME NEW k \in Keys, Enqueue(s, k) \/ LookUp(s, k)
          PROVE  \A r \in Scans : scan'[r].filled = scan[r].filled /\ scan'[r].pc = scan[r].pc
      BY <1>0, <3>3 DEF Enqueue, LookUp, Works
    <3> QED
      BY <1>2, <3>1, <3>2, <3>3 DEF ScanStep
  <2> QED
    BY <1>1, <2>1, <2>2
<1>3. ASSUME NEW k \in Keys, Claim(k) \/ Settle(k) \/ PutBack(k) PROVE TouchedKnown'
  BY <1>1, <1>3 DEF Claim, Settle, PutBack, ghosts
<1>4. ASSUME NEW k \in Keys, FileCheckin(k) PROVE TouchedKnown'
  BY <1>4 DEF FileCheckin, TouchedKnown
<1>5. ASSUME NEW u \in Users, NEW d \in Dates, DeclareOffDay(u, d) PROVE TouchedKnown'
  <2>1. ASSUME NEW k \in Keys, <<k.user, k.date>> \in off' PROVE k \in touched'
    BY <1>5, <2>1 DEF DeclareOffDay, TouchedKnown
  <2> QED
    BY <1>5, <2>1 DEF DeclareOffDay, TouchedKnown
<1>6. ASSUME NEW u \in Users, NEW d \in Dates, WithdrawOffDay(u, d) PROVE TouchedKnown'
  BY <1>1, <1>6 DEF WithdrawOffDay
<1>7. CASE Tick
  BY <1>1, <1>7 DEF Tick
<1> QED
  BY <1>2, <1>3, <1>4, <1>5, <1>6, <1>7 DEF Next, MemberStep

LEMMA CollidedStep == TypeOK /\ CollidedListed /\ Next => CollidedListed'
<1> SUFFICES ASSUME TypeOK, CollidedListed, Next PROVE CollidedListed'
  OBVIOUS
<1>0. scan \in [Scans -> Works]
  BY DEF TypeOK, Works
<1>1. CASE scan' = scan
  BY <1>1 DEF CollidedListed
<1>2. ASSUME NEW s \in Scans, ScanStep(s) PROVE CollidedListed'
  <2>1. CASE ScanStart(s) \/ ScanCheckins(s)
    BY <1>0, <2>1 DEF ScanStart, ScanCheckins, CollidedListed, Works
  <2>2. CASE ScanOffDays(s) \/ ScanEnd(s)
    BY <1>0, <2>2 DEF ScanOffDays, ScanEnd, NoScan, CollidedListed, Works
  <2>3. ASSUME NEW k \in Keys, Enqueue(s, k) PROVE CollidedListed'
    BY <1>0, <2>3 DEF Enqueue, CollidedListed, Works
  <2>4. ASSUME NEW k \in Keys, LookUp(s, k) PROVE CollidedListed'
    BY <1>0, <2>4 DEF LookUp, CollidedListed, Works
  <2> QED
    BY <1>2, <2>1, <2>2, <2>3, <2>4 DEF ScanStep
<1>3. CASE (\E k \in Keys : Claim(k) \/ Settle(k) \/ PutBack(k)) \/ MemberStep \/ Tick
  BY <1>1, <1>3 DEF Claim, Settle, PutBack, MemberStep, FileCheckin, DeclareOffDay,
                    WithdrawOffDay, Tick
<1> QED
  BY <1>2, <1>3 DEF Next

\* What a step has to keep of one key for it to stay under way in this tick.
LEMMA UnderWayKept ==
    ASSUME UnderWay, zone' = zone, clock' = clock, NEW k \in Keys,
           Owed(k)' => Owed(k), started' = started, InHand(k) => InHand(k)',
           \A s \in Scans : k \in scan'[s].collided => k \in scan[s].collided \/ InHand(k)',
           MayEnqueue(k) # {} => InHand(k)' \/ MayEnqueue(k)' # {}
    PROVE  (Owed(k) /\ Good(k, clock))' =>
               /\ \A s \in Scans : k \in scan'[s].collided => InHand(k)'
               /\ started' > 0 => InHand(k)' \/ MayEnqueue(k)' # {}
BY GoodKept DEF UnderWay

LEMMA UnderWayStep ==
    TypeOK /\ TypeOK' /\ TouchedKnown /\ CollidedListed /\ UnderWay /\ Next => UnderWay'
<1> SUFFICES ASSUME TypeOK, TypeOK', TouchedKnown, CollidedListed, UnderWay, Next,
                    NEW k \in Keys, (Owed(k) /\ Good(k, clock))'
             PROVE  /\ \A s \in Scans : k \in scan'[s].collided => InHand(k)'
                    /\ started' > 0 => InHand(k)' \/ MayEnqueue(k)' # {}
  BY DEF UnderWay
<1> DEFINE Way == /\ \A s \in Scans : k \in scan'[s].collided => InHand(k)'
                  /\ started' > 0 => InHand(k)' \/ MayEnqueue(k)' # {}
<1>0. /\ scan \in [Scans -> Works] /\ scan' \in [Scans -> Works] /\ zone' = zone
      /\ Owed(k) /\ Owed(k)' /\ clock \in 0..Horizon
  BY Monotone DEF TypeOK, Works
<1>u. k \notin touched
  BY <1>0 DEF Owed
<1>1. ASSUME clock' = clock, started' = started, InHand(k) => InHand(k)', scan' = scan PROVE Way
  <2>1. MayEnqueue(k)' = MayEnqueue(k)
    BY <1>0, <1>1, DueKept DEF MayEnqueue, Works
  <2> QED
    BY <1>0, <1>1, <2>1, UnderWayKept
<1>2. ASSUME NEW s \in Scans, ScanStep(s) PROVE Way
  <2>0. ASSUME clock' = clock, started' = started, InHand(k) => InHand(k)',
               \A r \in Scans \ {s} : scan'[r] = scan[r],
               k \in scan'[s].collided => k \in scan[s].collided \/ InHand(k)',
               s \in MayEnqueue(k) => InHand(k)' \/ s \in MayEnqueue(k)'
        PROVE  Way
    <3>1. MayEnqueue(k)' \ {s} = MayEnqueue(k) \ {s}
      BY <1>0, <2>0, MayEnqueueStep
    <3>2. MayEnqueue(k) # {} => InHand(k)' \/ MayEnqueue(k)' # {}
      BY <2>0, <3>1
    <3>3. \A r \in Scans : k \in scan'[r].collided => k \in scan[r].collided \/ InHand(k)'
      BY <2>0
    <3> QED
      BY <1>0, <2>0, <3>2, <3>3, UnderWayKept
  <2>1. CASE ScanStart(s)
    <3>1. clock' = clock /\ Good(k, clock) /\ Due(k, clock)
      BY <1>0, <2>1, GoodKept DEF ScanStart, Good
    <3>2. AnyWindowDue(clock)
      <4>1. k.user \in Users /\ k.slot \in Slots
        BY DEF Keys
      <4>2. LocalTime(k.user, clock) \in MorningWindow \cup EveningWindow
        BY <3>1 DEF Due, Window
      <4> QED
        BY <4>1, <4>2 DEF AnyWindowDue, LocalTime
    <3>3. scan'[s].pc = "checkins" /\ scan'[s].now = clock
      BY <1>0, <2>1, <3>2 DEF ScanStart, Works
    <3>4. s \in MayEnqueue(k)'
      BY <1>0, <3>1, <3>3, DueKept DEF MayEnqueue
    <3>5. \A r \in Scans : scan'[r].collided = scan[r].collided
      BY <1>0, <2>1 DEF ScanStart, Works
    <3>6. InHand(k)' <=> InHand(k)
      BY <2>1 DEF ScanStart, InHand, rows
    <3> QED
      BY <1>0, <3>1, <3>4, <3>5, <3>6 DEF UnderWay
  <2>2. CASE ScanCheckins(s)
    <3>1. s \in MayEnqueue(k) => s \in MayEnqueue(k)'
      BY <1>0, <2>2, DueKept DEF ScanCheckins, MayEnqueue, Works
    <3> QED
      BY <1>0, <2>0, <2>2, <3>1 DEF ScanCheckins, InHand, rows, Works
  <2>3. CASE ScanOffDays(s)
    <3>1. ASSUME s \in MayEnqueue(k) PROVE s \in MayEnqueue(k)'
      <4>1. Due(k, scan[s].now) /\ scan[s].pc = "offdays"
        BY <2>3, <3>1 DEF ScanOffDays, MayEnqueue
      <4>2. k \notin scan[s].filled /\ <<k.user, k.date>> \notin off
        BY <1>u, <4>1 DEF TouchedKnown
      <4>3. k \in DueKeys(s)
        BY <4>1, <4>2 DEF DueKeys
      <4> QED
        BY <1>0, <2>3, <4>3 DEF ScanOffDays, MayEnqueue, Works
    <3> QED
      BY <1>0, <2>0, <2>3, <3>1 DEF ScanOffDays, InHand, rows, Works
  <2>4. CASE ScanEnd(s)
    <3>1. s \notin MayEnqueue(k)
      BY <2>4 DEF ScanEnd, MayEnqueue
    <3>2. scan'[s].collided = {}
      BY <1>0, <2>4 DEF ScanEnd, NoScan
    <3> QED
      BY <1>0, <2>0, <2>4, <3>1, <3>2 DEF ScanEnd, InHand, rows, Works
  <2>5. ASSUME NEW c \in Keys, LookUp(s, c) PROVE Way
    <3>1. InHand(k)' <=> InHand(k)
      BY <2>5 DEF LookUp, InHand, rows
    <3>2. s \in MayEnqueue(k) => InHand(k)' \/ s \in MayEnqueue(k)'
      <4>1. CASE c = k
        <5>1. Good(k, clock)
          BY <1>0, <2>5, GoodKept DEF LookUp
        <5>2. InHand(k)
          BY <1>0, <2>5, <4>1, <5>1 DEF LookUp, UnderWay
        <5> QED
          BY <3>1, <5>2
      <4>2. CASE c # k
        BY <1>0, <2>5, <4>2, DueKept DEF LookUp, MayEnqueue, Works
      <4> QED
        BY <4>1, <4>2
    <3>3. scan'[s].collided = {} /\ \A r \in Scans \ {s} : scan'[r] = scan[r]
      BY <1>0, <2>5 DEF LookUp, Works
    <3> QED
      BY <2>0, <2>5, <3>1, <3>2, <3>3 DEF LookUp
  <2>6. ASSUME NEW c \in Keys, Enqueue(s, c) PROVE Way
    <3>0. /\ clock' = clock /\ started' = started
          /\ inflight' = inflight /\ sent' = sent /\ pending \subseteq pending'
          /\ \A r \in Scans \ {s} : scan'[r] = scan[r]
      BY <1>0, <2>6 DEF Enqueue, Works
    <3>1. InHand(k) => InHand(k)'
      BY <3>0 DEF InHand
    <3>2. faults' = faults
      BY <1>0, <2>6 DEF Enqueue, Owed, TypeOK
    <3>3. CASE c = k
      <4>1. k \in pending'
        BY <2>6, <3>2, <3>3 DEF Enqueue, Duplicate, TypeOK
      <4>2. InHand(k)'
        BY <4>1 DEF InHand
      <4> QED
        BY <2>0, <3>0, <3>1, <4>2
    <3>4. CASE c # k
      <4>1. k \in scan'[s].collided => k \in scan[s].collided
        BY <1>0, <2>6, <3>4 DEF Enqueue, Works
      <4>2. s \in MayEnqueue(k) => s \in MayEnqueue(k)'
        BY <1>0, <2>6, <3>4, DueKept DEF Enqueue, MayEnqueue, Works
      <4> QED
        BY <2>0, <3>0, <3>1, <4>1, <4>2
    <3> QED
      BY <3>3, <3>4
  <2> QED
    BY <1>2, <2>1, <2>2, <2>3, <2>4, <2>5, <2>6 DEF ScanStep
<1>3. ASSUME NEW c \in Keys, Claim(c) PROVE Way
  <2>1. InHand(k) => InHand(k)'
    BY <1>3 DEF Claim, InHand, TypeOK
  <2> QED
    BY <1>1, <1>3, <2>1 DEF Claim
<1>4. ASSUME NEW c \in Keys, Settle(c) PROVE Way
  <2>1. clock' = clock /\ Good(k, clock)
    BY <1>0, <1>4, GoodKept DEF Settle
  <2>2. c = k => ~IsQuiet(c.user)
    BY <2>1 DEF Good, IsQuiet
  <2>3. faults' = faults
    BY <1>0, <1>4 DEF Settle, Owed, TypeOK
  <2>4. InHand(k) => InHand(k)'
    <3>1. CASE c = k
      <4>1. sent' = [sent EXCEPT ![k] = @ + 1]
        BY <1>4, <2>2, <2>3, <3>1 DEF Settle, TypeOK
      <4> QED
        BY <4>1 DEF InHand, TypeOK
    <3>2. CASE c # k
      BY <1>4, <3>2 DEF Settle, InHand, TypeOK
    <3> QED
      BY <3>1, <3>2
  <2> QED
    BY <1>1, <1>4, <2>4 DEF Settle
<1>5. ASSUME NEW c \in Keys, PutBack(c) PROVE Way
  BY <1>0, <1>5 DEF PutBack, Owed, TypeOK
<1>6. CASE MemberStep
  BY <1>1, <1>6 DEF MemberStep, FileCheckin, DeclareOffDay, WithdrawOffDay, InHand, rows
<1>7. CASE Tick
  <2>1. KeptUp
    BY <1>0, <1>7 DEF Tick, Owed
  <2>2. \A s \in Scans : scan'[s].collided = {}
    BY <1>7, <2>1 DEF Tick, KeptUp, CollidedListed
  <2> QED
    BY <1>7, <2>2 DEF Tick
<1> QED
  BY <1>2, <1>3, <1>4, <1>5, <1>6, <1>7 DEF Next

LEMMA GoodTicksStep == TypeOK /\ TypeOK' /\ UnderWay /\ GoodTicksRemind /\ Next => GoodTicksRemind'
<1> SUFFICES ASSUME TypeOK, TypeOK', UnderWay, GoodTicksRemind, Next, NEW k \in Keys,
                    NEW t \in 0..Horizon, Owed(k)', t < clock', Good(k, t)'
             PROVE  sent'[k] > 0
  BY DEF GoodTicksRemind
<1>1. zone' = zone /\ Owed(k) /\ Good(k, t) /\ (sent[k] > 0 => sent'[k] > 0)
  BY Monotone, GoodKept
<1>2. CASE t < clock
  BY <1>1, <1>2 DEF GoodTicksRemind
<1>3. CASE ~(t < clock)
  <2>1. clock' # clock
    BY <1>3
  <2>2. Tick
    BY <2>1 DEF Next, ScanStep, ScanStart, ScanCheckins, ScanOffDays, ScanEnd, Enqueue, LookUp,
       Claim, Settle, PutBack, MemberStep, FileCheckin, DeclareOffDay, WithdrawOffDay
  <2>3. t = clock
    BY <1>3, <2>2 DEF Tick, TypeOK
  <2>4. KeptUp
    BY <2>2 DEF Tick, Owed
  <2>5. started > 0
    BY <1>1, <2>3, <2>4 DEF KeptUp, Good
  <2>6. InHand(k) \/ MayEnqueue(k) # {}
    BY <1>1, <2>3, <2>5 DEF UnderWay
  <2>7. MayEnqueue(k) = {}
    BY <2>4 DEF KeptUp, MayEnqueue
  <2>8. sent[k] > 0
    BY <2>4, <2>6, <2>7 DEF KeptUp, InHand
  <2> QED
    BY <1>1, <2>8
<1> QED
  BY <1>2, <1>3

LEMMA InitThrough == Init => ThroughInv
<1> SUFFICES ASSUME Init PROVE ThroughInv
  OBVIOUS
<1>1. RemindersInv /\ TypeOK
  BY InitInv DEF RemindersInv
<1>2. TouchedKnown /\ CollidedListed
  BY DEF Init, TouchedKnown, CollidedListed, NoScan
<1>3. UnderWay /\ GoodTicksRemind
  BY DEF Init, UnderWay, GoodTicksRemind, NoScan
<1> QED
  BY <1>1, <1>2, <1>3 DEF ThroughInv

LEMMA StepThrough == ThroughInv /\ [Next]_vars => ThroughInv'
<1> SUFFICES ASSUME ThroughInv, [Next]_vars PROVE ThroughInv'
  OBVIOUS
<1>1. RemindersInv' /\ TypeOK /\ TypeOK'
  BY StepInv DEF ThroughInv, RemindersInv
<1>2. CASE Next
  BY <1>1, <1>2, TouchedStep, CollidedStep, UnderWayStep, GoodTicksStep DEF ThroughInv
<1>3. CASE UNCHANGED vars
  <2>1. TouchedKnown' /\ CollidedListed'
    BY <1>3 DEF ThroughInv, TouchedKnown, CollidedListed, vars, rows, ghosts
  <2>2. \A k \in Keys : /\ Owed(k)' <=> Owed(k)
                        /\ InHand(k)' <=> InHand(k)
                        /\ MayEnqueue(k)' = MayEnqueue(k)
    BY <1>3 DEF Owed, InHand, MayEnqueue, Due, LocalDate, LocalTime, vars, rows, ghosts
  <2>3. \A k \in Keys : /\ Good(k, clock)' <=> Good(k, clock)
                        /\ \A t \in 0..Horizon : Good(k, t)' <=> Good(k, t)
    BY <1>3, GoodKept DEF vars
  <2>4. UnderWay'
    BY <1>3, <2>2, <2>3 DEF ThroughInv, UnderWay, vars
  <2>5. GoodTicksRemind'
    BY <1>3, <2>2, <2>3 DEF ThroughInv, GoodTicksRemind, vars, rows
  <2> QED
    BY <1>1, <2>1, <2>4, <2>5 DEF ThroughInv
<1> QED
  BY <1>2, <1>3

\* If the crontab fires in a tick of every window that is not quiet, then
\* whoever neither filed nor was off has been reminded when the window is over,
\* unless cron or dispatcher fell behind or an insert or a delivery failed.
THEOREM GetsThrough == ASSUME Covered PROVE Spec => []ReminderGetsThrough
<1>1. Spec => []ThroughInv
  BY InitThrough, StepThrough, PTL DEF Spec
<1>2. ThroughInv => ReminderGetsThrough
  <2> SUFFICES ASSUME ThroughInv, NEW k \in Keys, Owed(k), Seen(k), Over(k, clock)
               PROVE  sent[k] > 0
    BY DEF ReminderGetsThrough, Owed
  <2>1. TypeOK
    BY DEF ThroughInv, RemindersInv
  <2>2. PICK t \in 0..Horizon : t < clock /\ Good(k, t)
    BY <2>1, WindowHadGoodTick
  <2> QED
    BY <2>2 DEF ThroughInv, GoodTicksRemind
<1> QED
  BY <1>1, <1>2, PTL

================================================================================

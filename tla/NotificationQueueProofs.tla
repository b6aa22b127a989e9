----------------------- MODULE NotificationQueueProofs -----------------------
(* Theorems about NotificationQueue, for every value of its constants.     *)
EXTENDS QueueRefinement, FiniteSetTheorems, TLAPS

\* A retry is never scheduled in the past: nextAttemptDelay has no negative value.
LEMMA BackoffNat ==
    ASSUME NEW n \in Int PROVE Backoff(n) \in Nat
<1>1. CASE n <= 1
  BY <1>1, TimeAssumption DEF Backoff, TimeAssumption
<1>2. CASE n = 2
  BY <1>2, TimeAssumption DEF Backoff, TimeAssumption
<1>3. CASE n = 3
  BY <1>3, TimeAssumption DEF Backoff, TimeAssumption
<1>4. CASE n > 3
  BY <1>4, TimeAssumption DEF Backoff, TimeAssumption
<1> QED
  BY <1>1, <1>2, <1>3, <1>4

\* Giving one job of one run a new state keeps the type of all jobs.
LEMMA SetJobType ==
    ASSUME job \in [Runs -> [Ids -> Jobs]],
           NEW c \in Runs, NEW id \in Ids, NEW x \in Jobs, SetJob(c, id, x)
    PROVE  job' \in [Runs -> [Ids -> Jobs]]
BY DEF SetJob

\* The constants as facts of arithmetic.
LEMMA SmallNumbers ==
    /\ 0 \in 0..(DayLength - 1) /\ 0 \in 0..(Threshold + 1)
    /\ 0 \in 0..MaxFaults /\ 0 \in 0..MaxChurn
    /\ DayLength \in Nat \ {0} /\ Threshold \in Nat
    /\ MaxFaults \in Nat /\ MaxChurn \in Nat
    /\ RetryAfters \subseteq Nat
BY BoundsAssumption, TimeAssumption DEF BoundsAssumption, TimeAssumption

\* The hour after the last one of a day is the first.
LEMMA HourWraps ==
    ASSUME NEW h \in 0..(DayLength - 1) PROVE (h + 1) % DayLength \in 0..(DayLength - 1)
BY SmallNumbers

\* The job states that actions write as constants are job states.
LEMMA NoJobType ==
    /\ NoJob \in Jobs /\ NewJob \in Jobs
    /\ [NoJob EXCEPT !.pc = "claimed"] \in Jobs
    /\ [NoJob EXCEPT !.pc = "fallback"] \in Jobs
BY DEF NoJob, NewJob, Jobs, JobPc, Verdicts

\* The empty table and idle runs are well typed.
LEMMA TypeInit == Init => TypeOK
<1> SUFFICES ASSUME Init PROVE TypeOK
  OBVIOUS
<1>1. (CHOOSE k \in Kinds : TRUE) \in Kinds
  <2>1. PICK u \in Users, t \in Types, k \in Keys : TRUE
    BY SetsAssumption DEF SetsAssumption
  <2>2. [user |-> u, type |-> t, key |-> k] \in Kinds
    BY DEF Kinds
  <2> QED
    BY <2>2
<1>2. run \in [Runs -> [phase : {"idle", "list", "work"}, todo : SUBSET Ids]]
  BY DEF Init, NoRun
<1>3. job \in [Runs -> [Ids -> Jobs]]
  BY NoJobType DEF Init
<1>4. kind \in [Ids -> Kinds] /\ status \in [Ids -> Statuses]
  BY <1>1 DEF Init, Statuses
<1>5. age \in [Ids -> 0..(Threshold + 1)]
  BY SmallNumbers DEF Init
<1>6. hour \in 0..(DayLength - 1) /\ faults \in 0..MaxFaults /\ churn \in 0..MaxChurn
  BY SmallNumbers DEF Init
<1>7. /\ attempts \in [Ids -> Int] /\ wait \in [Ids -> Nat]
      /\ recoveries \in [Ids -> Nat] /\ fanouts \in [Ids -> Nat]
      /\ deliveries \in [Ids -> Nat] /\ emails \in [Ids -> Nat]
  BY DEF Init
<1>8. /\ members \subseteq Users /\ subs \in [Users -> SUBSET Devices]
      /\ optOut \subseteq Users \X Types /\ ran \in BOOLEAN /\ stale \subseteq Ids
  BY DEF Init
<1> QED
  BY <1>2, <1>3, <1>4, <1>5, <1>6, <1>7, <1>8 DEF TypeOK

\* Every step of producers, dispatcher runs and clock keeps the types.
LEMMA TypeStep == TypeOK /\ [Next]_vars => TypeOK'
<1> SUFFICES ASSUME TypeOK, [Next]_vars PROVE TypeOK'
  OBVIOUS
<1> USE DEF TypeOK
<1>1. CASE Environment
  <2> USE SmallNumbers
  <2>1. ASSUME NEW k \in Kinds, Enqueue(k) PROVE TypeOK'
    BY <2>1 DEF Enqueue, Statuses, envVars, timeVars, history
  <2>2. ASSUME NEW u \in Users, NEW t \in Types, TogglePreference(u, t) PROVE TypeOK'
    BY <2>2 DEF TogglePreference, rowVars, timeVars, history
  <2>3. ASSUME NEW u \in Users, NEW d \in Devices, ToggleDevice(u, d) PROVE TypeOK'
    BY <2>3 DEF ToggleDevice, rowVars, timeVars, history
  <2>4. ASSUME NEW u \in Users, PurgeUser(u) PROVE TypeOK'
    BY <2>4 DEF PurgeUser, Statuses, timeVars, history
  <2> QED
    BY <1>1, <2>1, <2>2, <2>3, <2>4 DEF Environment
<1>2. CASE Fault
  <2> USE SmallNumbers
  <2>1. CASE Crash
    BY <2>1, NoJobType DEF Crash, NoRun, rowVars, envVars, timeVars, history
  <2>2. ASSUME NEW c \in Runs, NEW id \in Ids, JobThrows(c, id) PROVE TypeOK'
    BY <2>2, NoJobType, SetJobType DEF JobThrows, rowVars, envVars, timeVars, history
  <2> QED
    BY <1>2, <2>1, <2>2 DEF Fault
<1>3. CASE Tick
  <2>1. age' \in [Ids -> 0..(Threshold + 1)]
    BY <1>3, SmallNumbers DEF Tick
  <2>2. hour' \in 0..(DayLength - 1)
    BY <1>3, HourWraps DEF Tick
  <2>3. wait' \in [Ids -> Nat]
    BY <1>3 DEF Tick
  <2>4. faults' \in 0..MaxFaults
    <3>1. CASE Pace = "overrun" /\ Overdue
      BY <1>3, <3>1, SmallNumbers DEF Tick, TimeMayPass
    <3>2. CASE ~(Pace = "overrun" /\ Overdue)
      BY <1>3, <3>2 DEF Tick
    <3> QED
      BY <3>1, <3>2
  <2> QED
    BY <1>3, <2>1, <2>2, <2>3, <2>4 DEF Tick, envVars
<1>4. ASSUME NEW c \in Runs, Recover(c) PROVE TypeOK'
  <2>1. CASE RecoveryRefused
    BY <1>4, <2>1 DEF Recover, rowVars, envVars
  <2>2. CASE ~RecoveryRefused
    <3>1. status' \in [Ids -> Statuses]
      BY <1>4, <2>2 DEF Recover, Statuses
    <3>2. wait' \in [Ids -> Nat]
      BY <1>4, <2>2 DEF Recover
    <3>3. age' \in [Ids -> 0..(Threshold + 1)]
      BY <1>4, <2>2, SmallNumbers DEF Recover
    <3>4. recoveries' \in [Ids -> Nat]
      BY <1>4, <2>2 DEF Recover
    <3>5. run' \in [Runs -> [phase : {"idle", "list", "work"}, todo : SUBSET Ids]]
      <4>1. run' = [run EXCEPT ![c] = [phase |-> "list", todo |-> {}]]
        BY <1>4, <2>2 DEF Recover
      <4>2. [phase |-> "list", todo |-> {}]
              \in [phase : {"idle", "list", "work"}, todo : SUBSET Ids]
        OBVIOUS
      <4> QED
        BY <4>1, <4>2
    <3> QED
      BY <1>4, <2>2, <3>1, <3>2, <3>3, <3>4, <3>5 DEF Recover, envVars
  <2> QED
    BY <2>1, <2>2
<1>5. ASSUME NEW c \in Runs, List(c) PROVE TypeOK'
  BY <1>5 DEF List, TakeFifo, Ready, rowVars, envVars, timeVars, history
<1>6. ASSUME NEW c \in Runs, NextChunk(c) PROVE TypeOK'
  <2>1. job' \in [Runs -> [Ids -> Jobs]]
    BY <1>6, NoJobType DEF NextChunk
  <2>2. run' \in [Runs -> [phase : {"idle", "list", "work"}, todo : SUBSET Ids]]
    BY <1>6 DEF NextChunk
  <2> QED
    BY <1>6, <2>1, <2>2 DEF NextChunk, rowVars, envVars, timeVars, history
<1>7. ASSUME NEW c \in Runs, EndRun(c) PROVE TypeOK'
  BY <1>7 DEF EndRun, NoRun, rowVars, envVars, timeVars, history
<1>8. ASSUME NEW c \in Runs, NEW id \in Ids, JobStep(c, id) PROVE TypeOK'
  <2>1. CASE Claim(c, id)
    <3>1. status' \in [Ids -> Statuses] /\ attempts' \in [Ids -> Int]
      BY <2>1 DEF Claim, Statuses
    <3>2. age' \in [Ids -> 0..(Threshold + 1)]
      BY <2>1, SmallNumbers DEF Claim
    <3>3. job' \in [Runs -> [Ids -> Jobs]]
      BY <2>1, NoJobType, SetJobType DEF Claim
    <3> QED
      BY <2>1, <3>1, <3>2, <3>3 DEF Claim, envVars, timeVars, history
  <2>2. CASE Gate(c, id)
    <3>1. GateVerdict(kind[id]) \in Verdicts
      BY DEF GateVerdict, Verdicts
    <3>2. QuietHoursEnd \in Nat
      BY SmallNumbers DEF QuietHoursEnd
    <3>3. job' \in [Runs -> [Ids -> Jobs]]
      BY <2>2, <3>1, <3>2, NoJobType DEF Gate, SetJob, Jobs, JobPc
    <3> QED
      BY <2>2, <3>3 DEF Gate, rowVars, envVars, timeVars, history
  <2>3. CASE SendNowhere(c, id)
    <3>1. job' \in [Runs -> [Ids -> Jobs]]
      BY <2>3 DEF SendNowhere, Decide, SetJob, Jobs, JobPc, Verdicts
    <3> QED
      BY <2>3, <3>1 DEF SendNowhere, rowVars, envVars, timeVars, history
  <2>4. CASE FanOut(c, id)
    <3>1. \A delay \in RetryAfters \cup {Backoff(job[c][id].seen)} : delay \in Nat
      BY SmallNumbers, BackoffNat DEF Jobs
    <3>2. \A verdict \in {"sent", "failed", "retry"}, delay \in Nat :
            Decide(c, id, verdict, delay) => job' \in [Runs -> [Ids -> Jobs]]
      BY DEF Decide, SetJob, Jobs, JobPc, Verdicts
    <3>3. job' \in [Runs -> [Ids -> Jobs]]
      BY <2>4, <3>1, <3>2 DEF FanOut, Classify
    <3>4. subs' \in [Users -> SUBSET Devices]
      BY <2>4 DEF FanOut, Kinds
    <3>5. deliveries' \in [Ids -> Nat] /\ fanouts' \in [Ids -> Nat]
      BY <2>4 DEF FanOut
    <3> QED
      BY <2>4, <3>3, <3>4, <3>5 DEF FanOut, rowVars, timeVars
  <2>5. CASE Write(c, id)
    <3>1. job' \in [Runs -> [Ids -> Jobs]]
      BY <2>5, NoJobType, SetJobType DEF Write
    <3>2. status' \in [Ids -> Statuses] /\ attempts' \in [Ids -> Int]
      BY <2>5 DEF Write, StatusAfter, AttemptsAfter, Statuses, rowVars
    <3>3. wait' \in [Ids -> Nat]
      BY <2>5 DEF Write, Jobs, rowVars
    <3>4. age' \in [Ids -> 0..(Threshold + 1)] /\ kind' = kind
      BY <2>5, SmallNumbers DEF Write, rowVars
    <3> QED
      BY <2>5, <3>1, <3>2, <3>3, <3>4 DEF Write, envVars, timeVars, history
  <2>6. CASE Fallback(c, id)
    <3>1. job' \in [Runs -> [Ids -> Jobs]]
      BY <2>6, NoJobType, SetJobType DEF Fallback
    <3>2. emails' \in [Ids -> Nat]
      BY <2>6 DEF Fallback
    <3> QED
      BY <2>6, <3>1, <3>2 DEF Fallback, rowVars, envVars, timeVars
  <2> QED
    BY <1>8, <2>1, <2>2, <2>3, <2>4, <2>5, <2>6 DEF JobStep
<1>9. CASE UNCHANGED vars
  BY <1>9 DEF vars, rowVars, envVars, timeVars, history
<1> QED
  BY <1>1, <1>2, <1>3, <1>4, <1>5, <1>6, <1>7, <1>8, <1>9 DEF Next, RunStep

\* Every variable keeps its type, whatever the pace of the runs.
THEOREM TypeCorrect == Spec => []TypeOK
  BY TypeInit, TypeStep, PTL DEF Spec

-----------------------------------------------------------------------------
(* One owner per row, when no job outlives the stuck threshold.            *)

\* A run's jobs are at work only while it walks its list.
RunsHoldTheirJobs ==
    \A c \in Runs, id \in Ids : run[c].phase # "work" => job[c][id].pc = "idle"

\* An owned row is too young to be taken for stuck.
LeaseHeld ==
    \A c \in Runs, id \in Ids : Owns(c, id) => age[id] <= Threshold

OwnerInv == TypeOK /\ RunsHoldTheirJobs /\ LeaseHeld /\ ExclusiveOwner

\* Giving one job of one run a new state leaves every other job alone.
LEMMA SetJobEffect ==
    ASSUME TypeOK, NEW c \in Runs, NEW id \in Ids, NEW x, SetJob(c, id, x)
    PROVE  \A d \in Runs, i \in Ids :
               job'[d][i] = IF d = c /\ i = id THEN x ELSE job[d][i]
BY DEF SetJob, TypeOK

\* Nobody owns a row before anything is enqueued.
LEMMA OwnerInit == Init => OwnerInv
<1> SUFFICES ASSUME Init PROVE OwnerInv
  OBVIOUS
<1>1. \A c \in Runs, id \in Ids : job[c][id].pc = "idle"
  BY DEF Init, NoJob
<1> QED
  BY <1>1, TypeInit DEF OwnerInv, RunsHoldTheirJobs, LeaseHeld, ExclusiveOwner, Owns

\* When no job outlives the stuck threshold, a row keeps at most one owner: the
\* lease on a held row is younger than the threshold, so recovery skips it.
LEMMA OwnerStep ==
    ASSUME Pace # "overrun", OwnerInv, [Next]_vars PROVE OwnerInv'
<1>1. TypeOK /\ TypeOK'
  BY TypeStep DEF OwnerInv
<1> SUFFICES RunsHoldTheirJobs' /\ LeaseHeld' /\ ExclusiveOwner'
  BY <1>1 DEF OwnerInv
<1>2. ASSUME UNCHANGED job, UNCHANGED run,
             \A c \in Runs, id \in Ids : Owns(c, id) =>
                 /\ status'[id] \in {status[id], "deleted"}
                 /\ age'[id] <= Threshold
      PROVE  RunsHoldTheirJobs' /\ LeaseHeld' /\ ExclusiveOwner'
  BY <1>2 DEF OwnerInv, RunsHoldTheirJobs, LeaseHeld, ExclusiveOwner, Owns
<1>3. CASE Environment
  <2>1. ASSUME NEW k \in Kinds, Enqueue(k)
        PROVE  RunsHoldTheirJobs' /\ LeaseHeld' /\ ExclusiveOwner'
    <3>1. PICK i \in Ids : /\ status[i] = "absent"
                           /\ status' = [status EXCEPT ![i] = "pending"]
                           /\ age' = [age EXCEPT ![i] = 0]
      BY <2>1 DEF Enqueue
    <3>2. \A c \in Runs, id \in Ids : Owns(c, id) => id # i
      BY <3>1 DEF OwnerInv, ExclusiveOwner
    <3>3. \A c \in Runs, id \in Ids : Owns(c, id) => status'[id] = status[id] /\ age'[id] = age[id]
      BY <3>1, <3>2
    <3>4. UNCHANGED job /\ UNCHANGED run
      BY <2>1 DEF Enqueue
    <3> QED
      BY <1>2, <3>3, <3>4 DEF OwnerInv, LeaseHeld
  <2>2. ASSUME NEW u \in Users, NEW t \in Types, TogglePreference(u, t)
        PROVE  RunsHoldTheirJobs' /\ LeaseHeld' /\ ExclusiveOwner'
    BY <2>2, <1>2 DEF TogglePreference, rowVars, OwnerInv, LeaseHeld
  <2>3. ASSUME NEW u \in Users, NEW d \in Devices, ToggleDevice(u, d)
        PROVE  RunsHoldTheirJobs' /\ LeaseHeld' /\ ExclusiveOwner'
    BY <2>3, <1>2 DEF ToggleDevice, rowVars, OwnerInv, LeaseHeld
  <2>4. ASSUME NEW u \in Users, PurgeUser(u)
        PROVE  RunsHoldTheirJobs' /\ LeaseHeld' /\ ExclusiveOwner'
    BY <2>4, <1>1, <1>2 DEF PurgeUser, TypeOK, OwnerInv, LeaseHeld
  <2> QED
    BY <1>3, <2>1, <2>2, <2>3, <2>4 DEF Environment
<1>4. CASE Fault
  <2>1. CASE Crash
    <3>1. \A c \in Runs, id \in Ids : job'[c][id].pc = "idle"
      BY <2>1 DEF Crash, NoJob
    <3> QED
      BY <3>1 DEF RunsHoldTheirJobs, LeaseHeld, ExclusiveOwner, Owns
  <2>2. ASSUME NEW c \in Runs, NEW id \in Ids, JobThrows(c, id)
        PROVE  RunsHoldTheirJobs' /\ LeaseHeld' /\ ExclusiveOwner'
    <3>1. \A d \in Runs, i \in Ids : job'[d][i] = IF d = c /\ i = id THEN NoJob ELSE job[d][i]
      BY <2>2, <1>1, SetJobEffect DEF JobThrows
    <3> QED
      BY <2>2, <3>1 DEF JobThrows, NoJob, rowVars, OwnerInv, RunsHoldTheirJobs, LeaseHeld,
                        ExclusiveOwner, Owns
  <2> QED
    BY <1>4, <2>1, <2>2 DEF Fault
<1>5. CASE Tick
  <2>1. \A c \in Runs, id \in Ids : Owns(c, id) => age[id] < Threshold
    <3>1. CASE Pace = "timely"
      <4>1. ~Overdue
        BY <1>5, <3>1 DEF Tick, TimeMayPass
      <4> QED
        BY <1>1, <4>1, SmallNumbers DEF Overdue, TypeOK
    <3>2. CASE Pace = "prompt"
      BY <1>1, <1>5, <3>2 DEF Tick, TimeMayPass, OwnerInv, RunsHoldTheirJobs, Owns
    <3> QED
      BY <1>2, <3>1, <3>2, TimeAssumption DEF TimeAssumption
  <2>2. \A c \in Runs, id \in Ids : Owns(c, id) => age'[id] <= Threshold
    BY <1>1, <1>5, <2>1, SmallNumbers DEF Tick, TypeOK
  <2> QED
    BY <1>2, <1>5, <2>2 DEF Tick
<1>6. ASSUME NEW c \in Runs, Recover(c)
      PROVE  RunsHoldTheirJobs' /\ LeaseHeld' /\ ExclusiveOwner'
  <2>1. CASE RecoveryRefused
    BY <1>2, <1>6, <2>1 DEF Recover, rowVars, OwnerInv, LeaseHeld
  <2>2. CASE ~RecoveryRefused
    <3>1. \A d \in Runs, id \in Ids : Owns(d, id) => id \notin Stuck
      BY <1>1, SmallNumbers DEF Stuck, OwnerInv, LeaseHeld, TypeOK
    <3>2. \A d \in Runs, id \in Ids :
            Owns(d, id) => status'[id] = status[id] /\ age'[id] = age[id]
      BY <1>6, <2>2, <3>1 DEF Recover
    <3>3. \A id \in Ids : job'[c][id].pc = "idle"
      BY <1>6 DEF Recover, OwnerInv, RunsHoldTheirJobs
    <3>4. \A d \in Runs : d # c => run'[d] = run[d]
      BY <1>1, <1>6, <2>2 DEF Recover, TypeOK
    <3> QED
      BY <1>6, <3>2, <3>3, <3>4
      DEF Recover, OwnerInv, RunsHoldTheirJobs, LeaseHeld, ExclusiveOwner, Owns
  <2> QED
    BY <2>1, <2>2
<1>7. ASSUME NEW c \in Runs, List(c)
      PROVE  RunsHoldTheirJobs' /\ LeaseHeld' /\ ExclusiveOwner'
  <2>1. \A d \in Runs : d # c => run'[d] = run[d]
    BY <1>1, <1>7 DEF List, TypeOK
  <2>2. run'[c].phase = "work"
    BY <1>1, <1>7 DEF List, TypeOK
  <2> QED
    BY <1>7, <2>1, <2>2
    DEF List, rowVars, OwnerInv, RunsHoldTheirJobs, LeaseHeld, ExclusiveOwner, Owns
<1>8. ASSUME NEW c \in Runs, NextChunk(c)
      PROVE  RunsHoldTheirJobs' /\ LeaseHeld' /\ ExclusiveOwner'
  <2>1. \A d \in Runs, id \in Ids : job'[d][id] = job[d][id] \/ job'[d][id] \in {NewJob, NoJob}
    BY <1>1, <1>8 DEF NextChunk, TypeOK
  <2>2. \A d \in Runs, id \in Ids : d # c => job'[d][id] = job[d][id]
    BY <1>1, <1>8 DEF NextChunk, TypeOK
  <2>3. \A d \in Runs : run'[d].phase = run[d].phase
    BY <1>1, <1>8 DEF NextChunk, TypeOK
  <2>4. \A d \in Runs, id \in Ids : Owns(d, id)' => Owns(d, id)
    BY <2>1 DEF Owns, NewJob, NoJob
  <2> QED
    BY <1>8, <2>2, <2>3, <2>4
    DEF NextChunk, rowVars, OwnerInv, RunsHoldTheirJobs, LeaseHeld, ExclusiveOwner
<1>9. ASSUME NEW c \in Runs, EndRun(c)
      PROVE  RunsHoldTheirJobs' /\ LeaseHeld' /\ ExclusiveOwner'
  <2>1. \A d \in Runs : d # c => run'[d] = run[d]
    BY <1>1, <1>9 DEF EndRun, TypeOK
  <2> QED
    BY <1>9, <2>1
    DEF EndRun, ChunkDone, rowVars, OwnerInv, RunsHoldTheirJobs, LeaseHeld, ExclusiveOwner, Owns
<1>10. ASSUME NEW c \in Runs, NEW id \in Ids, JobStep(c, id)
       PROVE  RunsHoldTheirJobs' /\ LeaseHeld' /\ ExclusiveOwner'
  <2>1. /\ run' = run
        /\ job[c][id].pc # "idle"
        /\ \A d \in Runs, i \in Ids : d # c \/ i # id => job'[d][i] = job[d][i]
    <3>1. run' = run /\ job[c][id].pc # "idle"
      BY <1>10 DEF JobStep, Claim, Gate, SendNowhere, FanOut, Write, Fallback
    <3>2. \E x : SetJob(c, id, x)
      BY <1>10, Zenon DEF JobStep, Claim, Gate, SendNowhere, FanOut, Decide, Write, Fallback
    <3> QED
      BY <1>1, <3>1, <3>2, SetJobEffect
  <2>2. RunsHoldTheirJobs'
    BY <2>1 DEF OwnerInv, RunsHoldTheirJobs
  <2>3. ASSUME UNCHANGED <<status, age>>, Owns(c, id)' => Owns(c, id)
        PROVE  LeaseHeld' /\ ExclusiveOwner'
    BY <2>1, <2>3 DEF OwnerInv, LeaseHeld, ExclusiveOwner, Owns
  <2>4. CASE Claim(c, id)
    <3>1. CASE Claimable(id)
      <4>1. /\ status' = [status EXCEPT ![id] = "dispatching"]
            /\ age' = [age EXCEPT ![id] = 0]
        BY <2>4, <3>1 DEF Claim
      <4>2. \A d \in Runs : ~Owns(d, id)
        BY <3>1 DEF Claimable, OwnerInv, ExclusiveOwner
      <4>3. \A d \in Runs, i \in Ids : Owns(d, i)' =>
                (Owns(d, i) /\ i # id) \/ (d = c /\ i = id)
        <5> SUFFICES ASSUME NEW d \in Runs, NEW i \in Ids, Owns(d, i)', d # c \/ i # id
                     PROVE  Owns(d, i) /\ i # id
          OBVIOUS
        <5>1. Owns(d, i)
          BY <2>1 DEF Owns
        <5> QED
          BY <4>2, <5>1
      <4>4. LeaseHeld'
        BY <1>1, <4>1, <4>3, SmallNumbers DEF TypeOK, OwnerInv, LeaseHeld
      <4>5. ExclusiveOwner'
        <5> SUFFICES ASSUME NEW i \in Ids, NEW d \in Runs, Owns(d, i)'
                     PROVE  /\ status'[i] \in {"dispatching", "deleted"}
                            /\ \A e \in Runs : Owns(e, i)' => e = d
          BY DEF ExclusiveOwner
        <5> QED
          BY <1>1, <4>1, <4>3 DEF TypeOK, OwnerInv, ExclusiveOwner
      <4> QED
        BY <2>2, <4>4, <4>5
    <3>2. CASE ~Claimable(id)
      <4>1. job'[c][id] = NoJob
        BY <1>1, <2>4, <3>2, SetJobEffect DEF Claim
      <4> QED
        BY <2>2, <2>3, <2>4, <3>2, <4>1 DEF Claim, Owns, NoJob
    <3> QED
      BY <3>1, <3>2
  <2>5. CASE Gate(c, id)
    BY <2>2, <2>3, <2>5 DEF Gate, rowVars, Owns
  <2>6. CASE SendNowhere(c, id)
    BY <2>2, <2>3, <2>6 DEF SendNowhere, rowVars, Owns
  <2>7. CASE FanOut(c, id)
    BY <2>2, <2>3, <2>7 DEF FanOut, rowVars, Owns
  <2>8. CASE Write(c, id)
    <3>1. job'[c][id] \in {NoJob, [NoJob EXCEPT !.pc = "fallback"]}
      BY <1>1, <2>8, SetJobEffect DEF Write
    <3>2. \A d \in Runs : ~Owns(d, id)'
      BY <2>1, <2>8, <3>1 DEF Write, Owns, NoJob, OwnerInv, ExclusiveOwner
    <3>3. \A i \in Ids : i # id => status'[i] = status[i] /\ age'[i] = age[i]
      BY <1>1, <2>8 DEF Write, rowVars, TypeOK
    <3> QED
      BY <2>1, <2>2, <3>2, <3>3 DEF OwnerInv, LeaseHeld, ExclusiveOwner, Owns
  <2>9. CASE Fallback(c, id)
    <3>1. job'[c][id] = NoJob
      BY <1>1, <2>9, SetJobEffect DEF Fallback
    <3> QED
      BY <2>2, <2>3, <2>9, <3>1 DEF Fallback, rowVars, Owns, NoJob
  <2> QED
    BY <1>10, <2>4, <2>5, <2>6, <2>7, <2>8, <2>9 DEF JobStep
<1>11. CASE UNCHANGED vars
  BY <1>2, <1>11 DEF vars, rowVars, OwnerInv, LeaseHeld
<1> QED
  BY <1>3, <1>4, <1>5, <1>6, <1>7, <1>8, <1>9, <1>10, <1>11 DEF Next, RunStep

\* Hence one owner per row, in every reachable state.
LEMMA OwnerInvariant == ASSUME Pace # "overrun" PROVE Spec => []OwnerInv
<1>1. OwnerInv /\ [Next]_vars => OwnerInv'
  BY OwnerStep
<1> QED
  BY <1>1, OwnerInit, PTL DEF Spec

\* Two overlapping cron runs never both hold a row, and a held row is never
\* back in the queue, as long as no job outlives the stuck threshold.
THEOREM OwnerIsExclusive == ASSUME Pace # "overrun" PROVE Spec => []ExclusiveOwner
<1>1. OwnerInv => ExclusiveOwner
  BY DEF OwnerInv
<1> QED
  BY <1>1, OwnerInvariant, PTL

\* Under the same proviso a sent or failed row is never touched again.
THEOREM SettledIsFinal == ASSUME Pace # "overrun" PROVE Spec => SettledStaysSettled
<1> DEFINE Final == \A id \in Ids : status[id] \in {"sent", "failed"} =>
                        status'[id] \in {status[id], "deleted"}
<1>1. OwnerInv /\ [Next]_vars => [Final]_vars
  <2> SUFFICES ASSUME OwnerInv, Next PROVE Final
    BY DEF vars
  <2> USE DEF OwnerInv, TypeOK
  <2>1. CASE Environment
    BY <2>1 DEF Environment, Enqueue, TogglePreference, ToggleDevice, PurgeUser, rowVars
  <2>2. CASE Fault
    BY <2>2 DEF Fault, Crash, JobThrows, rowVars
  <2>3. CASE Tick
    BY <2>3 DEF Tick
  <2>4. ASSUME NEW c \in Runs, Recover(c) \/ RunStep(c) PROVE Final
    BY <2>4 DEF Recover, Stuck, RunStep, List, NextChunk, EndRun, rowVars
  <2>5. ASSUME NEW c \in Runs, NEW id \in Ids, JobStep(c, id) PROVE Final
    <3>1. CASE Claim(c, id)
      BY <3>1 DEF Claim, Claimable
    <3>2. CASE Gate(c, id) \/ SendNowhere(c, id) \/ FanOut(c, id) \/ Fallback(c, id)
      BY <3>2 DEF Gate, SendNowhere, FanOut, Fallback, rowVars
    <3>3. CASE Write(c, id)
      <4>1. status[id] \in {"dispatching", "deleted"}
        BY <3>3 DEF Write, Owns, ExclusiveOwner
      <4> QED
        BY <3>3, <4>1 DEF Write, rowVars
    <3> QED
      BY <2>5, <3>1, <3>2, <3>3 DEF JobStep
  <2> QED
    BY <2>1, <2>2, <2>3, <2>4, <2>5 DEF Next
<1> QED
  BY <1>1, OwnerInvariant, PTL DEF Spec, SettledStaysSettled

-----------------------------------------------------------------------------
(* The attempt counter, at any pace.                                       *)

\* A row has finitely many owners, since there are finitely many runs.
LEMMA OwnersFinite ==
    ASSUME NEW id \in Ids
    PROVE  IsFiniteSet(OwnersOf(id)) /\ Cardinality(OwnersOf(id)) \in Nat
BY SetsAssumption, FS_Subset, FS_CardinalityType DEF SetsAssumption, OwnersOf

\* A row that loses owners and no attempts stays covered.
LEMMA FewerOwners ==
    ASSUME NEW id \in Ids, attempts[id] \in Int, attempts'[id] \in Int,
           Cardinality(OwnersOf(id)) <= attempts[id],
           \A c \in Runs : Owns(c, id)' => Owns(c, id),
           attempts'[id] >= attempts[id]
    PROVE  Cardinality(OwnersOf(id)') <= attempts'[id]
<1>1. OwnersOf(id)' \subseteq OwnersOf(id)
  BY DEF OwnersOf
<1>2. Cardinality(OwnersOf(id)') \in Nat /\ Cardinality(OwnersOf(id)') <= Cardinality(OwnersOf(id))
  BY <1>1, OwnersFinite, FS_Subset, FS_CardinalityType
<1> QED
  BY <1>2, OwnersFinite

\* A claim adds an owner and an attempt together, and what gives an attempt back
\* drops its owner: no step leaves a row with more owners than attempts.
LEMMA AttemptsStep ==
    ASSUME TypeOK, AttemptsCoverOwners, [Next]_vars PROVE AttemptsCoverOwners'
<1>1. TypeOK'
  BY TypeStep
<1> SUFFICES ASSUME NEW i \in Ids PROVE Cardinality(OwnersOf(i)') <= attempts'[i]
  BY DEF AttemptsCoverOwners
<1>2. ASSUME \A d \in Runs : Owns(d, i)' => Owns(d, i), attempts'[i] >= attempts[i]
      PROVE  Cardinality(OwnersOf(i)') <= attempts'[i]
  BY <1>1, <1>2, FewerOwners DEF TypeOK, AttemptsCoverOwners
<1>3. ASSUME UNCHANGED <<job, attempts>> PROVE Cardinality(OwnersOf(i)') <= attempts'[i]
  BY <1>2, <1>3 DEF Owns, TypeOK
<1>4. CASE Environment
  BY <1>3, <1>4 DEF Environment, Enqueue, TogglePreference, ToggleDevice, PurgeUser, rowVars
<1>5. CASE Fault
  <2>1. CASE Crash
    <3>1. \A d \in Runs : job'[d][i] = NoJob
      BY <2>1 DEF Crash
    <3> QED
      BY <1>2, <2>1, <3>1 DEF Crash, rowVars, Owns, NoJob, TypeOK
  <2>2. ASSUME NEW c \in Runs, NEW id \in Ids, JobThrows(c, id)
        PROVE  Cardinality(OwnersOf(i)') <= attempts'[i]
    <3>1. \A d \in Runs : job'[d][i] \in {NoJob, job[d][i]}
      BY <2>2, SetJobEffect DEF JobThrows
    <3> QED
      BY <1>2, <2>2, <3>1 DEF JobThrows, rowVars, Owns, NoJob, TypeOK
  <2> QED
    BY <1>5, <2>1, <2>2 DEF Fault
<1>6. CASE Tick
  BY <1>3, <1>6 DEF Tick
<1>7. ASSUME NEW c \in Runs, Recover(c) PROVE Cardinality(OwnersOf(i)') <= attempts'[i]
  BY <1>3, <1>7 DEF Recover, rowVars
<1>8. ASSUME NEW c \in Runs, RunStep(c) PROVE Cardinality(OwnersOf(i)') <= attempts'[i]
  <2>1. CASE List(c) \/ EndRun(c)
    BY <1>3, <2>1 DEF List, EndRun, rowVars
  <2>2. CASE NextChunk(c)
    <3>1. \A d \in Runs : job'[d][i] \in {NoJob, NewJob, job[d][i]}
      BY <2>2 DEF NextChunk, TypeOK
    <3> QED
      BY <1>2, <2>2, <3>1 DEF NextChunk, rowVars, Owns, NoJob, NewJob, TypeOK
  <2> QED
    BY <1>8, <2>1, <2>2 DEF RunStep
<1>9. ASSUME NEW c \in Runs, NEW id \in Ids, JobStep(c, id)
      PROVE  Cardinality(OwnersOf(i)') <= attempts'[i]
  <2>1. \A d \in Runs : d # c \/ i # id => job'[d][i] = job[d][i]
    <3>1. \E x : SetJob(c, id, x)
      BY <1>9, Zenon DEF JobStep, Claim, Gate, SendNowhere, FanOut, Decide, Write, Fallback
    <3> QED
      BY <3>1, SetJobEffect
  <2>2. ASSUME UNCHANGED attempts, Owns(c, id)' => Owns(c, id)
        PROVE  Cardinality(OwnersOf(i)') <= attempts'[i]
    BY <1>2, <2>1, <2>2 DEF Owns, TypeOK
  <2>3. CASE Claim(c, id) /\ Claimable(id)
    <3>1. attempts' = [attempts EXCEPT ![id] = @ + 1]
      BY <2>3 DEF Claim
    <3>2. CASE i # id
      BY <1>2, <2>1, <3>1, <3>2 DEF Owns, TypeOK
    <3>3. CASE i = id
      <4>1. OwnersOf(id)' \subseteq OwnersOf(id) \cup {c}
        BY <2>1, <3>3 DEF OwnersOf, Owns
      <4>2. /\ IsFiniteSet(OwnersOf(id) \cup {c})
            /\ Cardinality(OwnersOf(id) \cup {c}) <= Cardinality(OwnersOf(id)) + 1
        <5> DEFINE n == Cardinality(OwnersOf(id))
        <5>1. IsFiniteSet(OwnersOf(id)) /\ n \in Nat
          BY OwnersFinite
        <5>2. /\ IsFiniteSet(OwnersOf(id) \cup {c})
              /\ Cardinality(OwnersOf(id) \cup {c}) = n \/ Cardinality(OwnersOf(id) \cup {c}) = n + 1
          BY <5>1, FS_AddElement
        <5> QED
          BY <5>1, <5>2
      <4>3. Cardinality(OwnersOf(id)') <= Cardinality(OwnersOf(id)) + 1
        BY <4>1, <4>2, OwnersFinite, FS_Subset, FS_CardinalityType
      <4>4. attempts'[id] = attempts[id] + 1 /\ attempts[id] \in Int
        BY <3>1 DEF TypeOK
      <4> QED
        BY <3>3, <4>1, <4>2, <4>3, <4>4, OwnersFinite, FS_Subset, FS_CardinalityType
        DEF AttemptsCoverOwners
    <3> QED
      BY <3>2, <3>3
  <2>4. CASE Claim(c, id) /\ ~Claimable(id)
    <3>1. job'[c][id] = NoJob
      BY <2>4, SetJobEffect DEF Claim
    <3> QED
      BY <2>2, <2>4, <3>1 DEF Claim, Owns, NoJob
  <2>5. CASE Gate(c, id) \/ SendNowhere(c, id) \/ FanOut(c, id)
    BY <2>2, <2>5 DEF Gate, SendNowhere, FanOut, rowVars, Owns
  <2>6. CASE Write(c, id)
    <3>1. job'[c][id] \in {NoJob, [NoJob EXCEPT !.pc = "fallback"]}
      BY <2>6, SetJobEffect DEF Write
    <3>2. CASE i # id
      BY <1>2, <2>1, <2>6, <3>2 DEF Write, rowVars, Owns, TypeOK
    <3>3. CASE i = id
      <4>1. c \in OwnersOf(id)
        BY <2>6 DEF Write, OwnersOf, Owns
      <4>2. OwnersOf(id)' \subseteq OwnersOf(id) \ {c}
        BY <2>1, <3>1, <3>3 DEF OwnersOf, Owns, NoJob
      <4>3. /\ IsFiniteSet(OwnersOf(id) \ {c})
            /\ Cardinality(OwnersOf(id) \ {c}) = Cardinality(OwnersOf(id)) - 1
        BY <4>1, OwnersFinite, FS_RemoveElement
      <4>4. /\ Cardinality(OwnersOf(id)') \in Nat
            /\ Cardinality(OwnersOf(id)') <= Cardinality(OwnersOf(id)) - 1
        BY <4>2, <4>3, OwnersFinite, FS_Subset, FS_CardinalityType
      <4>5. attempts'[id] \in Int /\ attempts[id] \in Int /\ attempts'[id] >= attempts[id] - 1
        BY <1>1, <2>6 DEF Write, AttemptsAfter, rowVars, TypeOK
      <4> QED
        BY <3>3, <4>4, <4>5, OwnersFinite DEF AttemptsCoverOwners
    <3> QED
      BY <3>2, <3>3
  <2>7. CASE Fallback(c, id)
    <3>1. job'[c][id] = NoJob
      BY <2>7, SetJobEffect DEF Fallback
    <3> QED
      BY <2>2, <2>7, <3>1 DEF Fallback, rowVars, Owns, NoJob
  <2> QED
    BY <1>9, <2>3, <2>4, <2>5, <2>6, <2>7 DEF JobStep
<1>10. CASE UNCHANGED vars
  BY <1>3, <1>10 DEF vars, rowVars
<1> QED
  BY <1>4, <1>5, <1>6, <1>7, <1>8, <1>9, <1>10 DEF Next

\* Even if jobs outlive the threshold and share a row, holds never take the
\* attempt counter below the number of jobs at work, hence never below zero.
THEOREM AttemptsAreCovered == Spec => []AttemptsCoverOwners
<1>1. Init => AttemptsCoverOwners
  <2> SUFFICES ASSUME Init, NEW id \in Ids PROVE Cardinality(OwnersOf(id)) <= attempts[id]
    BY DEF AttemptsCoverOwners
  <2>1. OwnersOf(id) = {}
    BY DEF Init, OwnersOf, Owns, NoJob
  <2> QED
    BY <2>1, FS_EmptySet DEF Init
<1>2. TypeOK /\ AttemptsCoverOwners /\ [Next]_vars => AttemptsCoverOwners'
  BY AttemptsStep
<1> QED
  BY <1>1, <1>2, TypeCorrect, PTL DEF Spec

-----------------------------------------------------------------------------
(* The retry budget and the account of deliveries, when no job outlives    *)
(* the stuck threshold.                                                    *)

\* A job that owns its row and has not sent it out.
Unsent(j) ==
    \/ j.pc \in {"claimed", "send"}
    \/ j.pc = "write" /\ j.verdict \in {"unknown_type", "preference_off", "defer", "expire",
                                        "no_subscriptions"}

\* A job that has sent its row out and not yet written the outcome.
Fanned(j) == j.pc = "write" /\ j.verdict \in {"sent", "retry", "failed"}

\* A row never has more fan-outs than attempts, nor more deliveries than the
\* recoveries that may repeat one and the present fan-out account for.
RowBudget(id) ==
    /\ status[id] = "absent" =>
         attempts[id] = 0 /\ fanouts[id] = 0 /\ deliveries[id] = 0 /\ recoveries[id] = 0
    /\ fanouts[id] <= MAX_ATTEMPTS + recoveries[id]
    /\ deliveries[id] <= 1 + recoveries[id]
    /\ status[id] = "pending" =>
         /\ fanouts[id] <= attempts[id] /\ attempts[id] <= fanouts[id] + recoveries[id]
         /\ fanouts[id] < MAX_ATTEMPTS + recoveries[id]
         /\ deliveries[id] <= recoveries[id]
    /\ status[id] = "dispatching" =>
         fanouts[id] <= attempts[id] /\ attempts[id] <= fanouts[id] + recoveries[id] + 1
    /\ status[id] = "sent" => deliveries[id] > 0
    /\ status[id] = "failed" => deliveries[id] <= recoveries[id]

\* What the owner of a row knows of it.
OwnerBudget(id, j) ==
    /\ j.pc \in {"claimed", "send"} => j.verdict = "none"
    /\ j.pc = "write" => Unsent(j) \/ Fanned(j)
    /\ j.pc \in {"send", "write"} => j.seen = attempts[id]
    /\ Unsent(j) =>
         /\ fanouts[id] < attempts[id] /\ attempts[id] <= fanouts[id] + recoveries[id] + 1
         /\ fanouts[id] < MAX_ATTEMPTS + recoveries[id]
         /\ deliveries[id] <= recoveries[id]
    /\ Fanned(j) =>
         /\ fanouts[id] <= attempts[id] /\ attempts[id] <= fanouts[id] + recoveries[id]
         /\ j.verdict = "sent" => deliveries[id] > 0
         /\ j.verdict # "sent" => deliveries[id] <= recoveries[id]
         /\ j.verdict = "retry" => fanouts[id] < MAX_ATTEMPTS + recoveries[id]

BudgetInv ==
    \A id \in Ids : /\ RowBudget(id)
                    /\ \A c \in Runs : Owns(c, id) => OwnerBudget(id, job[c][id])

\* A member who is gone has no devices and no rows; a row is mailed at most
\* once, by the one job that saw it fail.
MailInv ==
    /\ \A u \in Users \ members : subs[u] = {}
    /\ \A id \in Ids :
         /\ status[id] = "deleted" => kind[id].user \notin members
         /\ status[id] \notin {"failed", "deleted"} => emails[id] = 0
         /\ \A c \in Runs : job[c][id].pc = "fallback" =>
              /\ status[id] \in {"failed", "deleted"} /\ emails[id] = 0
              /\ \A d \in Runs : job[d][id].pc = "fallback" => d = c

\* What a step leaves alone of one row for its budget to hold on.
LEMMA BudgetKept ==
    ASSUME TypeOK, BudgetInv, NEW i \in Ids,
           attempts'[i] = attempts[i], fanouts'[i] = fanouts[i],
           deliveries'[i] = deliveries[i], recoveries'[i] = recoveries[i],
           status'[i] \in {status[i], "deleted"},
           \A d \in Runs : Owns(d, i)' => job'[d][i] = job[d][i]
    PROVE  /\ RowBudget(i)'
           /\ \A d \in Runs : Owns(d, i)' => OwnerBudget(i, job[d][i])'
<1>1. RowBudget(i)'
  BY DEF BudgetInv, RowBudget
<1>2. ASSUME NEW d \in Runs, Owns(d, i)' PROVE OwnerBudget(i, job[d][i])'
  <2>1. job'[d][i] = job[d][i] /\ Owns(d, i)
    BY <1>2 DEF Owns
  <2> QED
    BY <2>1 DEF BudgetInv, OwnerBudget, Unsent, Fanned
<1> QED
  BY <1>1, <1>2

\* The counters of a row are numbers.
LEMMA RowNumbers ==
    ASSUME TypeOK, NEW i \in Ids
    PROVE  /\ attempts[i] \in Int /\ fanouts[i] \in Nat
           /\ deliveries[i] \in Nat /\ recoveries[i] \in Nat
BY DEF TypeOK

\* The step of the job that owns a row keeps the budget of that row.
LEMMA BudgetJobStep ==
    ASSUME TypeOK, TypeOK', ExclusiveOwner, BudgetInv,
           NEW c \in Runs, NEW i \in Ids, JobStep(c, i)
    PROVE  /\ RowBudget(i)'
           /\ \A d \in Runs : Owns(d, i)' => OwnerBudget(i, job[d][i])'
<1> DEFINE Kept == /\ RowBudget(i)'
                   /\ \A d \in Runs : Owns(d, i)' => OwnerBudget(i, job[d][i])'
<1>0. \A d \in Runs : d # c => job'[d][i] = job[d][i]
  <2>1. \E x : SetJob(c, i, x)
    BY Zenon DEF JobStep, Claim, Gate, SendNowhere, FanOut, Decide, Write, Fallback
  <2> QED
    BY <2>1, SetJobEffect
<1>1. /\ RowBudget(i)
      /\ \A d \in Runs : Owns(d, i) => OwnerBudget(i, job[d][i])
  BY DEF BudgetInv
<1>2. ASSUME job'[c][i].pc \notin {"claimed", "send", "write"}, UNCHANGED <<status, attempts>>,
             fanouts' = fanouts, deliveries' = deliveries, recoveries' = recoveries
      PROVE  Kept
  BY <1>0, <1>2, BudgetKept DEF Owns
<1>3. ASSUME \A d \in Runs : Owns(d, i) => d = c,
             RowBudget(i)', OwnerBudget(i, job[c][i])'
      PROVE  Kept
  <2>1. \A d \in Runs : Owns(d, i)' => d = c
    BY <1>0, <1>3 DEF Owns
  <2> QED
    BY <1>3, <2>1
<1>4. Owns(c, i) => \A d \in Runs : Owns(d, i) => d = c
  BY DEF ExclusiveOwner
<1>5. CASE Claim(c, i)
  <2>1. CASE Claimable(i)
    <3>1. /\ status[i] = "pending" /\ status'[i] = "dispatching"
          /\ attempts'[i] = attempts[i] + 1
          /\ fanouts' = fanouts /\ deliveries' = deliveries /\ recoveries' = recoveries
      BY <1>5, <2>1 DEF Claim, Claimable, TypeOK, history
    <3>2. job'[c][i] = [NoJob EXCEPT !.pc = "claimed"]
      BY <1>5, <2>1, SetJobEffect DEF Claim
    <3>3. \A d \in Runs : ~Owns(d, i)
      BY <3>1 DEF ExclusiveOwner
    <3>4. RowBudget(i)'
      BY <1>1, <3>1, RowNumbers DEF RowBudget
    <3>5. job'[c][i].pc = "claimed" /\ job'[c][i].verdict = "none"
      BY <3>2 DEF NoJob
    <3>6. OwnerBudget(i, job[c][i])'
      BY <1>1, <3>1, <3>5, RowNumbers DEF RowBudget, OwnerBudget, Unsent, Fanned
    <3> QED
      BY <1>3, <3>3, <3>4, <3>6
  <2>2. CASE ~Claimable(i)
    <3>1. job'[c][i] = NoJob
      BY <1>5, <2>2, SetJobEffect DEF Claim
    <3> QED
      BY <1>2, <1>5, <2>2, <3>1 DEF Claim, NoJob, history
  <2> QED
    BY <2>1, <2>2
<1>6. CASE Gate(c, i)
  <2>0. /\ UNCHANGED <<status, attempts>>
        /\ fanouts' = fanouts /\ deliveries' = deliveries /\ recoveries' = recoveries
    BY <1>6 DEF Gate, rowVars, history
  <2>1. CASE status[i] = "deleted"
    <3>1. job'[c][i] = NoJob
      BY <1>6, <2>1, SetJobEffect DEF Gate
    <3> QED
      BY <1>2, <2>0, <3>1 DEF NoJob
  <2>2. CASE status[i] # "deleted"
    <3> DEFINE v == GateVerdict(kind[i])
    <3>1. /\ job'[c][i].pc = IF v = "none" THEN "send" ELSE "write"
          /\ job'[c][i].seen = attempts[i] /\ job'[c][i].verdict = v
      BY <1>6, <2>2, SetJobEffect DEF Gate
    <3>2. v \in {"none", "unknown_type", "preference_off", "defer", "expire"}
      BY DEF GateVerdict
    <3>3. Owns(c, i) /\ Unsent(job[c][i])
      BY <1>6 DEF Gate, Owns, Unsent
    <3> HIDE DEF v
    <3>4. Unsent(job'[c][i]) /\ ~Fanned(job'[c][i])
      BY <3>1, <3>2 DEF Unsent, Fanned
    <3>5. OwnerBudget(i, job[c][i])'
      BY <1>1, <2>0, <3>1, <3>3, <3>4 DEF OwnerBudget
    <3>6. RowBudget(i)'
      BY <1>1, <2>0 DEF RowBudget
    <3> QED
      BY <1>3, <1>4, <3>3, <3>5, <3>6
  <2> QED
    BY <2>1, <2>2
<1>7. CASE SendNowhere(c, i)
  <2>0. /\ UNCHANGED <<status, attempts>>
        /\ fanouts' = fanouts /\ deliveries' = deliveries /\ recoveries' = recoveries
    BY <1>7 DEF SendNowhere, rowVars, history
  <2>1. /\ job'[c][i].pc = "write" /\ job'[c][i].seen = job[c][i].seen
        /\ job'[c][i].verdict = "no_subscriptions"
    BY <1>7, SetJobEffect DEF SendNowhere, Decide
  <2>2. Owns(c, i) /\ Unsent(job[c][i]) /\ job[c][i].pc = "send"
    BY <1>7 DEF SendNowhere, Owns, Unsent
  <2>3. Unsent(job'[c][i]) /\ ~Fanned(job'[c][i])
    BY <2>1 DEF Unsent, Fanned
  <2>4. OwnerBudget(i, job[c][i])'
    BY <1>1, <2>0, <2>1, <2>2, <2>3 DEF OwnerBudget
  <2>5. RowBudget(i)'
    BY <1>1, <2>0 DEF RowBudget
  <2> QED
    BY <1>3, <1>4, <2>2, <2>4, <2>5
<1>8. CASE FanOut(c, i)
  <2>0. /\ UNCHANGED <<status, attempts>>
        /\ fanouts'[i] = fanouts[i] + 1 /\ recoveries' = recoveries
    BY <1>8 DEF FanOut, rowVars, TypeOK
  <2>1. /\ job'[c][i].pc = "write" /\ job'[c][i].seen = job[c][i].seen
        /\ \/ job'[c][i].verdict = "sent" /\ deliveries'[i] = deliveries[i] + 1
           \/ job'[c][i].verdict = "failed" /\ deliveries' = deliveries
           \/ /\ job'[c][i].verdict = "retry" /\ job[c][i].seen < MAX_ATTEMPTS
              /\ deliveries' = deliveries
    <3>1. \A verdict, delay : Decide(c, i, verdict, delay) =>
            /\ job'[c][i].pc = "write" /\ job'[c][i].seen = job[c][i].seen
            /\ job'[c][i].verdict = verdict
      BY SetJobEffect DEF Decide
    <3>2. \/ Decide(c, i, "sent", 0) /\ deliveries' = [deliveries EXCEPT ![i] = @ + 1]
          \/ Decide(c, i, "failed", 0) /\ deliveries' = deliveries
          \/ /\ \E k \in SendKinds : \E delay : Decide(c, i, Classify(k, job[c][i].seen), delay)
             /\ deliveries' = deliveries
      BY <1>8 DEF FanOut
    <3>3. \A k \in SendKinds :
             Classify(k, job[c][i].seen) = "failed"
             \/ (Classify(k, job[c][i].seen) = "retry" /\ job[c][i].seen < MAX_ATTEMPTS)
      BY DEF Classify
    <3> QED
      BY <3>1, <3>2, <3>3 DEF TypeOK
  <2>2. Owns(c, i) /\ Unsent(job[c][i]) /\ job[c][i].pc = "send"
    BY <1>8 DEF FanOut, Owns, Unsent
  <2>3. /\ job[c][i].seen = attempts[i]
        /\ fanouts[i] < attempts[i] /\ attempts[i] <= fanouts[i] + recoveries[i] + 1
        /\ fanouts[i] < MAX_ATTEMPTS + recoveries[i] /\ deliveries[i] <= recoveries[i]
    BY <1>1, <2>2 DEF OwnerBudget
  <2>4. ~Unsent(job'[c][i]) /\ Fanned(job'[c][i])
    BY <2>1 DEF Unsent, Fanned
  <2>5. /\ fanouts'[i] <= attempts[i] /\ attempts[i] <= fanouts'[i] + recoveries[i]
        /\ fanouts'[i] <= MAX_ATTEMPTS + recoveries[i]
        /\ job'[c][i].verdict = "sent" => deliveries'[i] > 0
        /\ job'[c][i].verdict # "sent" => deliveries'[i] <= recoveries[i]
        /\ job'[c][i].verdict = "retry" => fanouts'[i] < MAX_ATTEMPTS + recoveries[i]
        /\ deliveries'[i] <= 1 + recoveries[i]
    BY <2>0, <2>1, <2>3, RowNumbers DEF MAX_ATTEMPTS
  <2>6. OwnerBudget(i, job[c][i])'
    BY <2>0, <2>1, <2>3, <2>4, <2>5 DEF OwnerBudget
  <2>7. status[i] \in {"dispatching", "deleted"}
    BY <2>2 DEF ExclusiveOwner
  <2>8. RowBudget(i)'
    BY <2>0, <2>5, <2>7, RowNumbers DEF RowBudget
  <2> QED
    BY <1>3, <1>4, <2>2, <2>6, <2>8
<1>9. CASE Write(c, i)
  <2>1. Owns(c, i) /\ job[c][i].pc = "write" /\ OwnerBudget(i, job[c][i])
    BY <1>1, <1>9 DEF Write, Owns
  <2>2. ~Owns(c, i)'
    <3>1. job'[c][i] \in {NoJob, [NoJob EXCEPT !.pc = "fallback"]}
      BY <1>9, SetJobEffect DEF Write
    <3> QED
      BY <3>1 DEF Owns, NoJob
  <2>3. \A d \in Runs : ~Owns(d, i)'
    BY <1>0, <1>4, <2>1, <2>2 DEF Owns
  <2>4. fanouts' = fanouts /\ deliveries' = deliveries /\ recoveries' = recoveries
    BY <1>9 DEF Write, history
  <2> DEFINE v == job[c][i].verdict
  <2>5. \/ UNCHANGED <<status, attempts>>
        \/ status'[i] = StatusAfter(v) /\ attempts'[i] = AttemptsAfter(v, attempts[i])
    BY <1>9 DEF Write, TypeOK, rowVars
  <2>6. RowBudget(i)'
    <3>1. CASE UNCHANGED <<status, attempts>>
      BY <1>1, <2>4, <3>1 DEF RowBudget
    <3>2. CASE status'[i] = StatusAfter(v) /\ attempts'[i] = AttemptsAfter(v, attempts[i])
      <4>1. CASE Unsent(job[c][i])
        <5>1. v \in {"unknown_type", "preference_off", "defer", "expire", "no_subscriptions"}
          BY <2>1, <4>1 DEF Unsent
        <5>2. /\ fanouts[i] < attempts[i] /\ attempts[i] <= fanouts[i] + recoveries[i] + 1
              /\ fanouts[i] < MAX_ATTEMPTS + recoveries[i] /\ deliveries[i] <= recoveries[i]
          BY <2>1, <4>1 DEF OwnerBudget
        <5>3. \/ status'[i] = "pending" /\ attempts'[i] = attempts[i] - 1
              \/ status'[i] = "failed" /\ attempts'[i] = attempts[i]
          BY <3>2, <5>1 DEF StatusAfter, AttemptsAfter, Requeues
        <5>4. fanouts[i] <= MAX_ATTEMPTS + recoveries[i] /\ deliveries[i] <= 1 + recoveries[i]
          BY <1>1 DEF RowBudget
        <5> QED
          BY <2>4, <5>2, <5>3, <5>4, RowNumbers DEF RowBudget
      <4>2. CASE Fanned(job[c][i])
        <5>1. v \in {"sent", "retry", "failed"}
          BY <4>2 DEF Fanned
        <5>2. /\ fanouts[i] <= attempts[i] /\ attempts[i] <= fanouts[i] + recoveries[i]
              /\ v = "sent" => deliveries[i] > 0
              /\ v # "sent" => deliveries[i] <= recoveries[i]
              /\ v = "retry" => fanouts[i] < MAX_ATTEMPTS + recoveries[i]
          BY <2>1, <4>2 DEF OwnerBudget
        <5>3. fanouts[i] <= MAX_ATTEMPTS + recoveries[i] /\ deliveries[i] <= 1 + recoveries[i]
          BY <1>1 DEF RowBudget
        <5>4. status'[i] = CASE v = "retry" -> "pending" [] v = "sent" -> "sent"
                             [] v = "failed" -> "failed"
          BY <3>2, <5>1 DEF StatusAfter, Requeues
        <5>5. attempts'[i] = attempts[i]
          BY <3>2, <5>1 DEF AttemptsAfter
        <5> QED
          BY <2>4, <5>1, <5>2, <5>3, <5>4, <5>5, RowNumbers DEF RowBudget
      <4> QED
        BY <2>1, <4>1, <4>2 DEF OwnerBudget
    <3> QED
      BY <2>5, <3>1, <3>2
  <2> QED
    BY <2>3, <2>6
<1>10. CASE Fallback(c, i)
  <2>1. job'[c][i] = NoJob
    BY <1>10, SetJobEffect DEF Fallback
  <2> QED
    BY <1>2, <1>10, <2>1 DEF Fallback, NoJob, rowVars
<1> QED
  BY <1>5, <1>6, <1>7, <1>8, <1>9, <1>10 DEF JobStep

\* Every step keeps the budget, of the row at work and of all others.
LEMMA BudgetStep ==
    ASSUME Pace # "overrun", OwnerInv, BudgetInv, [Next]_vars PROVE BudgetInv'
<1>1. TypeOK /\ TypeOK' /\ ExclusiveOwner
  BY TypeStep DEF OwnerInv
<1> SUFFICES ASSUME NEW i \in Ids
             PROVE  /\ RowBudget(i)'
                    /\ \A d \in Runs : Owns(d, i)' => OwnerBudget(i, job[d][i])'
  BY DEF BudgetInv
<1> DEFINE Kept == /\ RowBudget(i)'
                   /\ \A d \in Runs : Owns(d, i)' => OwnerBudget(i, job[d][i])'
<1>2. ASSUME UNCHANGED <<attempts, history>>, status'[i] \in {status[i], "deleted"},
             \A d \in Runs : Owns(d, i)' => job'[d][i] = job[d][i]
      PROVE  Kept
  BY <1>1, <1>2, BudgetKept DEF history
<1>3. CASE Environment
  <2>1. ASSUME NEW k \in Kinds, Enqueue(k) PROVE Kept
    <3>1. UNCHANGED <<job, attempts, history>>
      BY <2>1 DEF Enqueue
    <3>2. PICK n \in Ids : status[n] = "absent" /\ status' = [status EXCEPT ![n] = "pending"]
      BY <2>1 DEF Enqueue
    <3>3. CASE i # n
      BY <1>1, <1>2, <3>1, <3>2, <3>3 DEF TypeOK
    <3>4. CASE i = n
      <4>1. \A d \in Runs : ~Owns(d, i)'
        BY <1>1, <3>1, <3>2, <3>4 DEF ExclusiveOwner, Owns
      <4>2. RowBudget(i)'
        BY <1>1, <3>1, <3>2, <3>4, RowNumbers
        DEF BudgetInv, RowBudget, MAX_ATTEMPTS, TypeOK, history
      <4> QED
        BY <4>1, <4>2
    <3> QED
      BY <3>3, <3>4
  <2>2. ASSUME NEW u \in Users, PurgeUser(u) PROVE Kept
    BY <1>2, <2>2 DEF PurgeUser
  <2>3. CASE \/ \E u \in Users, t \in Types : TogglePreference(u, t)
             \/ \E u \in Users, d \in Devices : ToggleDevice(u, d)
    BY <1>2, <2>3 DEF TogglePreference, ToggleDevice, rowVars
  <2> QED
    BY <1>3, <2>1, <2>2, <2>3 DEF Environment
<1>4. CASE Fault
  <2>1. CASE Crash
    <3>1. \A d \in Runs : ~Owns(d, i)'
      BY <2>1 DEF Crash, Owns, NoJob
    <3> QED
      BY <1>2, <2>1, <3>1 DEF Crash, rowVars
  <2>2. ASSUME NEW c \in Runs, NEW id \in Ids, JobThrows(c, id) PROVE Kept
    <3>1. \A d \in Runs : job'[d][i] = NoJob \/ job'[d][i] = job[d][i]
      BY <1>1, <2>2, SetJobEffect DEF JobThrows
    <3>2. \A d \in Runs : Owns(d, i)' => job'[d][i] = job[d][i]
      BY <3>1 DEF Owns, NoJob
    <3> QED
      BY <1>2, <2>2, <3>2 DEF JobThrows, rowVars
  <2> QED
    BY <1>4, <2>1, <2>2 DEF Fault
<1>5. CASE Tick
  BY <1>1, <1>5, BudgetKept DEF Tick
<1>6. ASSUME NEW c \in Runs, Recover(c) PROVE Kept
  <2>1. CASE RecoveryRefused \/ i \notin Stuck
    <3>1. /\ attempts'[i] = attempts[i] /\ recoveries'[i] = recoveries[i]
          /\ status'[i] = status[i] /\ job' = job
          /\ fanouts' = fanouts /\ deliveries' = deliveries
      BY <1>1, <1>6, <2>1 DEF Recover, rowVars, TypeOK
    <3> QED
      BY <1>1, <3>1, BudgetKept
  <2>2. CASE ~RecoveryRefused /\ i \in Stuck
    <3>1. /\ attempts' = attempts /\ recoveries'[i] = recoveries[i] + 1
          /\ status[i] = "dispatching" /\ status'[i] = "pending" /\ job' = job
          /\ fanouts' = fanouts /\ deliveries' = deliveries
      BY <1>6, <2>2 DEF Recover, Stuck
    <3>2. \A d \in Runs : ~Owns(d, i)
      BY <1>1, <2>2, SmallNumbers DEF Stuck, OwnerInv, LeaseHeld, TypeOK
    <3>3. \A d \in Runs : ~Owns(d, i)'
      BY <3>1, <3>2 DEF Owns
    <3>4. RowBudget(i)'
      BY <1>1, <3>1, RowNumbers DEF BudgetInv, RowBudget, MAX_ATTEMPTS
    <3> QED
      BY <3>3, <3>4
  <2> QED
    BY <2>1, <2>2
<1>7. ASSUME NEW c \in Runs, RunStep(c) PROVE Kept
  <2>1. UNCHANGED <<status, attempts, history>>
    BY <1>7 DEF RunStep, List, NextChunk, EndRun, rowVars
  <2>2. \A d \in Runs : job'[d][i] \in {NoJob, NewJob} \/ job'[d][i] = job[d][i]
    BY <1>1, <1>7 DEF RunStep, List, NextChunk, EndRun, TypeOK
  <2>3. \A d \in Runs : Owns(d, i)' => job'[d][i] = job[d][i]
    BY <2>2 DEF Owns, NoJob, NewJob
  <2> QED
    BY <1>2, <2>1, <2>3
<1>8. ASSUME NEW c \in Runs, NEW id \in Ids, JobStep(c, id) PROVE Kept
  <2>1. CASE i = id
    BY <1>1, <1>8, <2>1, BudgetJobStep DEF OwnerInv
  <2>2. CASE i # id
    <3>1. \A d \in Runs : job'[d][i] = job[d][i]
      <4>1. \E x : SetJob(c, id, x)
        BY <1>8, Zenon DEF JobStep, Claim, Gate, SendNowhere, FanOut, Decide, Write, Fallback
      <4> QED
        BY <1>1, <2>2, <4>1, SetJobEffect
    <3>2. /\ attempts'[i] = attempts[i] /\ status'[i] = status[i]
          /\ fanouts'[i] = fanouts[i] /\ deliveries'[i] = deliveries[i]
          /\ recoveries' = recoveries
      BY <1>1, <1>8, <2>2 DEF JobStep, Claim, Gate, SendNowhere, FanOut, Write, Fallback, rowVars,
                              history, TypeOK
    <3> QED
      BY <1>1, <3>1, <3>2, BudgetKept
  <2> QED
    BY <2>1, <2>2
<1>9. CASE UNCHANGED vars
  BY <1>2, <1>9 DEF vars, rowVars
<1> QED
  BY <1>3, <1>4, <1>5, <1>6, <1>7, <1>8, <1>9 DEF Next

LEMMA BudgetInit == Init => BudgetInv
<1> SUFFICES ASSUME Init PROVE BudgetInv
  OBVIOUS
<1>1. \A c \in Runs, id \in Ids : ~Owns(c, id)
  BY DEF Init, Owns, NoJob
<1>2. \A id \in Ids : RowBudget(id)
  BY DEF Init, RowBudget, MAX_ATTEMPTS
<1> QED
  BY <1>1, <1>2 DEF BudgetInv

LEMMA BudgetInvariant == ASSUME Pace # "overrun" PROVE Spec => [](OwnerInv /\ BudgetInv)
<1>1. OwnerInv /\ BudgetInv /\ [Next]_vars => (OwnerInv /\ BudgetInv)'
  BY OwnerStep, BudgetStep
<1> QED
  BY <1>1, OwnerInit, BudgetInit, PTL DEF Spec

\* As long as no job outlives the stuck threshold, a row is sent out at most
\* three times plus once per recovery, and holds cost no attempt.
THEOREM BudgetIsKept == ASSUME Pace # "overrun" PROVE Spec => []RetryBudget
<1>1. OwnerInv /\ BudgetInv => RetryBudget
  <2> SUFFICES ASSUME OwnerInv, BudgetInv, NEW id \in Ids
               PROVE  /\ fanouts[id] <= MAX_ATTEMPTS + recoveries[id]
                      /\ status[id] = "pending" =>
                           attempts[id] \in fanouts[id]..(fanouts[id] + recoveries[id])
    BY DEF RetryBudget
  <2>1. TypeOK /\ RowBudget(id)
    BY DEF OwnerInv, BudgetInv
  <2> QED
    BY <2>1, RowNumbers DEF RowBudget
<1> QED
  BY <1>1, BudgetInvariant, PTL

\* Under the same proviso the status is true to what the member received: sent
\* means a push arrived, and a second one takes a recovery.
THEOREM DeliveriesAreAccounted == ASSUME Pace # "overrun" PROVE Spec => []DeliveryAccounting
<1>1. OwnerInv /\ BudgetInv => DeliveryAccounting
  <2> SUFFICES ASSUME OwnerInv, BudgetInv, NEW id \in Ids
               PROVE  /\ status[id] = "sent" => deliveries[id] > 0
                      /\ deliveries[id] <= 1 + recoveries[id]
                      /\ status[id] \in {"pending", "failed"} /\ recoveries[id] = 0 =>
                           deliveries[id] = 0
    BY DEF DeliveryAccounting
  <2>1. TypeOK /\ RowBudget(id)
    BY DEF OwnerInv, BudgetInv
  <2> QED
    BY <2>1, RowNumbers DEF RowBudget
<1> QED
  BY <1>1, BudgetInvariant, PTL

-----------------------------------------------------------------------------
(* The queue keeps the contract of NotificationContract.                   *)

\* Nobody has been mailed before anything is enqueued.
LEMMA MailInit == Init => MailInv
BY DEF Init, MailInv, NoJob

\* A row is mailed by the one job that saw it fail, for a member who exists.
LEMMA MailStep ==
    ASSUME Pace # "overrun", OwnerInv, MailInv, [Next]_vars PROVE MailInv'
<1>1. TypeOK /\ TypeOK' /\ ExclusiveOwner
  BY TypeStep DEF OwnerInv
<1>2. ASSUME members' = members, \A u \in Users : subs'[u] = {} \/ u \in members
      PROVE  \A u \in Users \ members' : subs'[u] = {}
  BY <1>2
<1>3. ASSUME members' = members, kind' = kind, \A u \in Users : subs'[u] = {} \/ u \in members,
             \A i \in Ids : /\ status[i] # "deleted" => status'[i] # "deleted"
                            /\ status'[i] \notin {"failed", "deleted"} =>
                                 status[i] \notin {"failed", "deleted"}
                            /\ status[i] \in {"failed", "deleted"} =>
                                 status'[i] \in {"failed", "deleted"},
             emails' = emails,
             \A d \in Runs, i \in Ids : job'[d][i].pc = "fallback" => job[d][i].pc = "fallback"
      PROVE  MailInv'
  BY <1>1, <1>2, <1>3 DEF MailInv, TypeOK
<1>4. \A u \in Users : subs[u] = {} \/ u \in members
  BY DEF MailInv
<1>5. CASE Environment
  <2>1. ASSUME NEW k \in Kinds, Enqueue(k) PROVE MailInv'
    <3>1. PICK n \in Ids : /\ status[n] = "absent" /\ status' = [status EXCEPT ![n] = "pending"]
                           /\ kind' = [kind EXCEPT ![n] = k]
      BY <2>1 DEF Enqueue
    <3>2. UNCHANGED <<job, members, subs, emails>>
      BY <2>1 DEF Enqueue, envVars, history
    <3>3. \A u \in Users \ members' : subs'[u] = {}
      BY <3>2 DEF MailInv
    <3> QED
      BY <1>1, <3>1, <3>2, <3>3 DEF MailInv, TypeOK
  <2>2. ASSUME NEW u \in Users, NEW t \in Types, TogglePreference(u, t) PROVE MailInv'
    BY <1>3, <1>4, <2>2 DEF TogglePreference, rowVars, history
  <2>3. ASSUME NEW u \in Users, NEW d \in Devices, ToggleDevice(u, d) PROVE MailInv'
    <3>1. \A v \in Users : subs'[v] = {} \/ v \in members
      BY <1>1, <1>4, <2>3 DEF ToggleDevice, TypeOK
    <3> QED
      BY <1>3, <2>3, <3>1 DEF ToggleDevice, rowVars, history
  <2>4. ASSUME NEW u \in Users, PurgeUser(u) PROVE MailInv'
    <3>1. \A v \in Users \ members' : subs'[v] = {}
      BY <1>1, <1>4, <2>4 DEF PurgeUser, TypeOK
    <3>2. \A i \in Ids : status'[i] = IF status[i] # "absent" /\ kind[i].user = u
                                      THEN "deleted" ELSE status[i]
      BY <2>4 DEF PurgeUser
    <3>3. UNCHANGED <<kind, job, emails>> /\ members' = members \ {u}
      BY <2>4 DEF PurgeUser, history
    <3> QED
      BY <3>1, <3>2, <3>3 DEF MailInv
  <2> QED
    BY <1>5, <2>1, <2>2, <2>3, <2>4 DEF Environment
<1>6. CASE Fault
  <2>1. CASE Crash
    <3>1. \A d \in Runs, i \in Ids : job'[d][i].pc # "fallback"
      BY <2>1 DEF Crash, NoJob
    <3> QED
      BY <1>3, <1>4, <2>1, <3>1 DEF Crash, rowVars, envVars, history
  <2>2. ASSUME NEW c \in Runs, NEW id \in Ids, JobThrows(c, id) PROVE MailInv'
    <3>1. \A d \in Runs, i \in Ids : job'[d][i].pc = "fallback" => job[d][i].pc = "fallback"
      BY <1>1, <2>2, SetJobEffect DEF JobThrows, NoJob
    <3> QED
      BY <1>3, <1>4, <2>2, <3>1 DEF JobThrows, rowVars, envVars, history
  <2> QED
    BY <1>6, <2>1, <2>2 DEF Fault
<1>7. CASE Tick
  BY <1>3, <1>4, <1>7 DEF Tick, envVars
<1>8. ASSUME NEW c \in Runs, Recover(c) PROVE MailInv'
  BY <1>1, <1>3, <1>4, <1>8 DEF Recover, Stuck, rowVars, envVars, TypeOK
<1>9. ASSUME NEW c \in Runs, RunStep(c) PROVE MailInv'
  <2>1. \A d \in Runs, i \in Ids : job'[d][i].pc = "fallback" => job[d][i].pc = "fallback"
    BY <1>1, <1>9 DEF RunStep, List, NextChunk, EndRun, NoJob, NewJob, TypeOK
  <2>2. UNCHANGED <<rowVars, members, subs, emails>>
    BY <1>9 DEF RunStep, List, NextChunk, EndRun, envVars, history
  <2> QED
    BY <1>3, <1>4, <2>1, <2>2 DEF rowVars
<1>10. ASSUME NEW c \in Runs, NEW id \in Ids, JobStep(c, id) PROVE MailInv'
  <2>1. \A d \in Runs, i \in Ids : d # c \/ i # id => job'[d][i] = job[d][i]
    <3>1. \E x : SetJob(c, id, x)
      BY <1>10, Zenon DEF JobStep, Claim, Gate, SendNowhere, FanOut, Decide, Write, Fallback
    <3> QED
      BY <1>1, <3>1, SetJobEffect
  <2>2. CASE Claim(c, id)
    <3>1. job'[c][id].pc # "fallback"
      BY <1>1, <2>2, SetJobEffect DEF Claim, NoJob
    <3> QED
      BY <1>1, <1>3, <1>4, <2>1, <2>2, <3>1 DEF Claim, Claimable, envVars, history, TypeOK
  <2>3. CASE Gate(c, id) \/ SendNowhere(c, id)
    <3>1. job'[c][id].pc # "fallback"
      BY <1>1, <2>3, SetJobEffect DEF Gate, SendNowhere, Decide, NoJob
    <3> QED
      BY <1>3, <1>4, <2>1, <2>3, <3>1 DEF Gate, SendNowhere, rowVars, envVars, history
  <2>4. CASE FanOut(c, id)
    <3>1. job'[c][id].pc # "fallback"
      <4>1. \E verdict, delay : Decide(c, id, verdict, delay)
        BY <2>4, Zenon DEF FanOut
      <4> QED
        BY <1>1, <4>1, SetJobEffect DEF Decide
    <3>2. \A u \in Users : subs'[u] = {} \/ u \in members
      BY <1>1, <1>4, <2>4 DEF FanOut, TypeOK
    <3> QED
      BY <1>3, <2>1, <2>4, <3>1, <3>2 DEF FanOut, rowVars
  <2>5. CASE Write(c, id)
    <3>1. Owns(c, id) /\ status[id] \in {"dispatching", "deleted"}
      BY <2>5 DEF Write, Owns, ExclusiveOwner, OwnerInv
    <3>2. CASE status' = status /\ job'[c][id] = NoJob
      BY <1>3, <1>4, <2>1, <2>5, <3>2 DEF Write, NoJob, rowVars, envVars, history
    <3>3. CASE ~(status' = status /\ job'[c][id] = NoJob)
      <4>1. status[id] = "dispatching" /\ emails[id] = 0
        BY <1>1, <2>5, <3>1, <3>3, SetJobEffect DEF Write, rowVars, MailInv
      <4>2. \A d \in Runs : job[d][id].pc # "fallback"
        BY <4>1 DEF MailInv
      <4>3. /\ status' = [status EXCEPT ![id] = StatusAfter(job[c][id].verdict)]
            /\ job'[c][id] = IF job[c][id].verdict = "failed" THEN [NoJob EXCEPT !.pc = "fallback"]
                                                             ELSE NoJob
        BY <1>1, <2>5, <3>3, SetJobEffect DEF Write, rowVars
      <4>4. StatusAfter(job[c][id].verdict) \in {"pending", "sent", "failed"}
        BY DEF StatusAfter
      <4>5. job'[c][id].pc = "fallback" => StatusAfter(job[c][id].verdict) = "failed"
        BY <4>3 DEF NoJob, StatusAfter, Requeues
      <4>6. UNCHANGED <<kind, members, subs, emails>>
        BY <2>5 DEF Write, rowVars, envVars, history
      <4>7. \A i \in Ids : status'[i] = IF i = id THEN StatusAfter(job[c][id].verdict) ELSE status[i]
        BY <1>1, <4>3 DEF TypeOK
      <4> QED
        BY <1>1, <2>1, <4>1, <4>2, <4>4, <4>5, <4>6, <4>7 DEF MailInv
    <3> QED
      BY <3>2, <3>3
  <2>6. CASE Fallback(c, id)
    <3>1. job'[c][id] = NoJob /\ job[c][id].pc = "fallback"
      BY <1>1, <2>6, SetJobEffect DEF Fallback
    <3>2. UNCHANGED <<status, kind, members, subs>>
      BY <2>6 DEF Fallback, rowVars, envVars
    <3>3. \A i \in Ids : i # id => emails'[i] = emails[i]
      BY <1>1, <2>6 DEF Fallback, TypeOK
    <3>4. \A d \in Runs : job'[d][id].pc # "fallback"
      BY <2>1, <3>1 DEF MailInv, NoJob
    <3>5. status[id] \in {"failed", "deleted"}
      BY <3>1 DEF MailInv
    <3> QED
      BY <2>1, <3>1, <3>2, <3>3, <3>4, <3>5 DEF MailInv, NoJob
  <2> QED
    BY <1>10, <2>2, <2>3, <2>4, <2>5, <2>6 DEF JobStep
<1>11. CASE UNCHANGED vars
  BY <1>3, <1>4, <1>11 DEF vars, rowVars, envVars, history
<1> QED
  BY <1>5, <1>6, <1>7, <1>8, <1>9, <1>10, <1>11 DEF Next

\* The phase of a row, case by case, before and after a step.
LEMMA Phases ==
    ASSUME NEW i \in Ids
    PROVE  /\ status[i] = "absent" => PhaseOf(i) = "none"
           /\ status[i] = "pending" => PhaseOf(i) = "queued"
           /\ status[i] = "deleted" => PhaseOf(i) = "gone"
           /\ status[i] \in {"sent", "failed"} => PhaseOf(i) = status[i]
           /\ status[i] = "dispatching" =>
                /\ (\A d \in Runs : ~Owns(d, i)) => PhaseOf(i) = "adrift"
                /\ \A c \in Runs : Owns(c, i) /\ (\A d \in Runs : Owns(d, i) => d = c) =>
                       PhaseOf(i) = IF job[c][i].verdict = "sent" THEN "handed" ELSE "inFlight"
BY DEF PhaseOf, OwnersOf

LEMMA NextPhases ==
    ASSUME NEW i \in Ids
    PROVE  /\ status'[i] = "absent" => PhaseOf(i)' = "none"
           /\ status'[i] = "pending" => PhaseOf(i)' = "queued"
           /\ status'[i] = "deleted" => PhaseOf(i)' = "gone"
           /\ status'[i] \in {"sent", "failed"} => PhaseOf(i)' = status'[i]
           /\ status'[i] = "dispatching" =>
                /\ (\A d \in Runs : ~Owns(d, i)') => PhaseOf(i)' = "adrift"
                /\ \A c \in Runs : Owns(c, i)' /\ (\A d \in Runs : Owns(d, i)' => d = c) =>
                       PhaseOf(i)' = IF job'[c][i].verdict = "sent" THEN "handed" ELSE "inFlight"
BY DEF PhaseOf, OwnersOf

\* A row whose status and whose owner's verdict stay has its phase.
LEMMA PhaseKept ==
    ASSUME NEW i \in Ids, status'[i] = status[i],
           \A d \in Runs : Owns(d, i)' <=> Owns(d, i),
           \A d \in Runs : Owns(d, i) =>
               (job'[d][i].verdict = "sent" <=> job[d][i].verdict = "sent")
    PROVE  PhaseOf(i)' = PhaseOf(i)
<1>1. OwnersOf(i)' = OwnersOf(i)
  BY DEF OwnersOf
<1>2. (\E c \in OwnersOf(i) : job'[c][i].verdict = "sent")
        <=> (\E c \in OwnersOf(i) : job[c][i].verdict = "sent")
  BY DEF OwnersOf
<1> QED
  BY <1>1, <1>2 DEF PhaseOf

\* The phase of a row no dispatcher may hold is that of its status.
LEMMA PhaseByStatus ==
    ASSUME NEW i \in Ids, status[i] \in Statuses, status[i] # "dispatching",
           status'[i] = status[i]
    PROVE  PhaseOf(i)' = PhaseOf(i)
<1>1. CASE status[i] = "absent"
  BY <1>1, Phases, NextPhases
<1>2. CASE status[i] = "pending"
  BY <1>2, Phases, NextPhases
<1>3. CASE status[i] = "deleted"
  BY <1>3, Phases, NextPhases
<1>4. CASE status[i] \in {"sent", "failed"}
  BY <1>4, Phases, NextPhases
<1> QED
  BY <1>1, <1>2, <1>3, <1>4 DEF Statuses

\* All rows keep their phase: the contract stutters.
LEMMA Stutters ==
    ASSUME \A i \in Ids : PhaseOf(i)' = PhaseOf(i), UNCHANGED <<deliveries, recoveries, emails>>
    PROVE  UNCHANGED Contract!cvars
BY DEF Contract!cvars

\* One row moves from phase a to phase b.
LEMMA OneMoves ==
    ASSUME NEW i \in Ids, NEW a, NEW b, PhaseOf(i) = a, PhaseOf(i)' = b,
           \A j \in Ids : j # i => PhaseOf(j)' = PhaseOf(j)
    PROVE  \A from : a \in from => Contract!Move(i, from, b)
BY DEF Contract!Move

\* Every step of the queue is a step of the contract, or invisible to it.
LEMMA Simulation ==
    ASSUME Pace # "overrun", OwnerInv, BudgetInv, MailInv, [Next]_vars
    PROVE  [Contract!CNext]_(Contract!cvars)
<1>1. TypeOK /\ TypeOK' /\ ExclusiveOwner
  BY TypeStep DEF OwnerInv
<1> DEFINE Goal == Contract!CNext \/ UNCHANGED Contract!cvars
<1> SUFFICES Goal
  OBVIOUS
<1>2. ASSUME UNCHANGED <<status, job, deliveries, recoveries, emails>> PROVE Goal
  <2>1. \A i \in Ids : PhaseOf(i)' = PhaseOf(i)
    BY <1>2, PhaseKept DEF Owns
  <2> QED
    BY <1>2, <2>1, Stutters
<1>3. CASE Environment
  <2>1. ASSUME NEW k \in Kinds, Enqueue(k) PROVE Goal
    <3>1. PICK n \in Ids : status[n] = "absent" /\ status' = [status EXCEPT ![n] = "pending"]
      BY <2>1 DEF Enqueue
    <3>2. UNCHANGED <<job, deliveries, recoveries, emails>>
      BY <2>1 DEF Enqueue, history
    <3>3. \A j \in Ids : j # n => PhaseOf(j)' = PhaseOf(j)
      BY <1>1, <3>1, <3>2, PhaseKept DEF Owns, TypeOK
    <3>4. PhaseOf(n) = "none" /\ PhaseOf(n)' = "queued"
      BY <1>1, <3>1, Phases, NextPhases DEF TypeOK
    <3>5. Contract!Accept(n)
      BY <3>2, <3>3, <3>4, OneMoves DEF Contract!Accept
    <3> QED
      BY <3>5 DEF Contract!CNext
  <2>2. ASSUME NEW u \in Users, PurgeUser(u) PROVE Goal
    <3> DEFINE S == {i \in Ids : status[i] # "absent" /\ kind[i].user = u}
    <3>1. /\ \A i \in Ids : status'[i] = IF i \in S THEN "deleted" ELSE status[i]
          /\ UNCHANGED <<job, deliveries, recoveries, emails>>
      BY <2>2 DEF PurgeUser, history
    <3>2. \A i \in Ids \ S : PhaseOf(i)' = PhaseOf(i)
      BY <3>1, PhaseKept DEF Owns
    <3>3. \A i \in S : PhaseOf(i)' = "gone"
      BY <3>1, NextPhases
    <3>4. \A i \in S : PhaseOf(i) # "none"
      <4>1. ASSUME NEW i \in S PROVE PhaseOf(i) # "none"
        <5>1. status[i] \in Statuses /\ status[i] # "absent"
          BY <1>1 DEF TypeOK
        <5>2. CASE status[i] = "dispatching"
          BY <5>2 DEF PhaseOf
        <5>3. CASE status[i] # "dispatching"
          BY <5>1, <5>3, Phases DEF Statuses
        <5> QED
          BY <5>2, <5>3
      <4> QED
        BY <4>1
    <3>5. Contract!Forget(S)
      BY <3>1, <3>2, <3>3, <3>4 DEF Contract!Forget
    <3> QED
      BY <3>5 DEF Contract!CNext
  <2>3. CASE \/ \E u \in Users, t \in Types : TogglePreference(u, t)
             \/ \E u \in Users, d \in Devices : ToggleDevice(u, d)
    BY <1>2, <2>3 DEF TogglePreference, ToggleDevice, rowVars, history
  <2> QED
    BY <1>3, <2>1, <2>2, <2>3 DEF Environment
<1>4. CASE Fault
  <2>1. CASE Crash
    <3> DEFINE S == {i \in Ids : status[i] = "dispatching" /\ \E d \in Runs : Owns(d, i)}
    <3>1. /\ \A d \in Runs, i \in Ids : ~Owns(d, i)'
          /\ UNCHANGED <<status, deliveries, recoveries, emails>>
      BY <2>1 DEF Crash, Owns, NoJob, rowVars, history
    <3>2. \A i \in S : PhaseOf(i)' = "adrift"
      BY <3>1, NextPhases
    <3>3. \A i \in S : PhaseOf(i) \in {"inFlight", "handed"}
      BY <1>1, Phases DEF ExclusiveOwner
    <3>4. ASSUME NEW i \in Ids \ S PROVE PhaseOf(i)' = PhaseOf(i)
      <4>1. CASE status[i] = "dispatching"
        BY <3>1, <4>1, PhaseKept
      <4>2. CASE status[i] # "dispatching"
        BY <1>1, <3>1, <4>2, PhaseByStatus DEF TypeOK
      <4> QED
        BY <4>1, <4>2
    <3>5. Contract!Abandon(S)
      BY <3>1, <3>2, <3>3, <3>4 DEF Contract!Abandon
    <3> QED
      BY <3>5 DEF Contract!CNext
  <2>2. ASSUME NEW c \in Runs, NEW id \in Ids, JobThrows(c, id) PROVE Goal
    <3>1. \A d \in Runs, i \in Ids : job'[d][i] = IF d = c /\ i = id THEN NoJob ELSE job[d][i]
      BY <1>1, <2>2, SetJobEffect DEF JobThrows
    <3>2. UNCHANGED <<status, deliveries, recoveries, emails>>
      BY <2>2 DEF JobThrows, rowVars, history
    <3>3. \A i \in Ids : i # id => PhaseOf(i)' = PhaseOf(i)
      BY <3>1, <3>2, PhaseKept DEF Owns
    <3>4. CASE Owns(c, id) /\ status[id] = "dispatching"
      <4>1. \A d \in Runs : ~Owns(d, id)'
        BY <1>1, <3>1, <3>4 DEF ExclusiveOwner, Owns, NoJob
      <4>2. PhaseOf(id)' = "adrift" /\ PhaseOf(id) \in {"inFlight", "handed"}
        BY <1>1, <3>2, <3>4, <4>1, Phases, NextPhases DEF ExclusiveOwner
      <4>3. Contract!Abandon({id})
        BY <3>2, <3>3, <4>2 DEF Contract!Abandon
      <4> QED
        BY <4>3 DEF Contract!CNext
    <3>5. CASE ~(Owns(c, id) /\ status[id] = "dispatching")
      <4>1. PhaseOf(id)' = PhaseOf(id)
        <5>1. CASE status[id] = "dispatching"
          <6>1. \A d \in Runs : Owns(d, id)' <=> Owns(d, id)
            BY <3>1, <3>5, <5>1 DEF Owns, NoJob
          <6>2. \A d \in Runs : Owns(d, id) => job'[d][id] = job[d][id]
            BY <3>1, <3>5, <5>1
          <6> QED
            BY <3>2, <6>1, <6>2, PhaseKept
        <5>2. CASE status[id] # "dispatching"
          BY <1>1, <3>2, <5>2, PhaseByStatus DEF TypeOK
        <5> QED
          BY <5>1, <5>2
      <4> QED
        BY <3>2, <3>3, <4>1, Stutters
    <3> QED
      BY <3>4, <3>5
  <2> QED
    BY <1>4, <2>1, <2>2 DEF Fault
<1>5. CASE Tick
  BY <1>2, <1>5 DEF Tick
<1>6. ASSUME NEW c \in Runs, Recover(c) PROVE Goal
  <2>1. CASE RecoveryRefused
    BY <1>2, <1>6, <2>1 DEF Recover, rowVars
  <2>2. CASE ~RecoveryRefused
    <3>1. /\ \A i \in Ids : status'[i] = IF i \in Stuck THEN "pending" ELSE status[i]
          /\ recoveries' = [i \in Ids |-> IF i \in Stuck THEN recoveries[i] + 1 ELSE recoveries[i]]
          /\ UNCHANGED <<job, deliveries, emails>>
      BY <1>6, <2>2 DEF Recover
    <3>2. \A i \in Stuck : PhaseOf(i)' = "queued"
      BY <3>1, NextPhases DEF Stuck
    <3>3. \A i \in Stuck : PhaseOf(i) = "adrift"
      <4>1. ASSUME NEW i \in Stuck, NEW d \in Runs PROVE ~Owns(d, i)
        BY <1>1, SmallNumbers DEF Stuck, OwnerInv, LeaseHeld, TypeOK
      <4> QED
        BY <4>1, Phases DEF Stuck
    <3>4. \A i \in Ids \ Stuck : PhaseOf(i)' = PhaseOf(i)
      BY <3>1, PhaseKept DEF Owns
    <3>5. Stuck \subseteq Ids
      BY DEF Stuck
    <3>6. Contract!TakeBack(Stuck)
      BY <3>1, <3>2, <3>3, <3>4, <3>5 DEF Contract!TakeBack
    <3> QED
      BY <3>5, <3>6 DEF Contract!CNext
  <2> QED
    BY <2>1, <2>2
<1>7. ASSUME NEW c \in Runs, RunStep(c) PROVE Goal
  <2>1. CASE List(c) \/ EndRun(c)
    BY <1>2, <2>1 DEF List, EndRun, rowVars, history
  <2>2. CASE NextChunk(c)
    <3>1. /\ \A d \in Runs, i \in Ids : \/ job'[d][i] = job[d][i]
                                        \/ job'[d][i] \in {NoJob, NewJob} /\ job[d][i].pc = "idle"
          /\ UNCHANGED <<status, deliveries, recoveries, emails>>
      BY <1>1, <2>2 DEF NextChunk, ChunkDone, TypeOK, rowVars, history
    <3>2. \A i \in Ids, d \in Runs : /\ Owns(d, i)' <=> Owns(d, i)
                                     /\ Owns(d, i) => job'[d][i] = job[d][i]
      BY <3>1 DEF Owns, NoJob, NewJob
    <3>3. \A i \in Ids : PhaseOf(i)' = PhaseOf(i)
      BY <3>1, <3>2, PhaseKept
    <3> QED
      BY <3>1, <3>3, Stutters
  <2> QED
    BY <1>7, <2>1, <2>2 DEF RunStep
<1>8. ASSUME NEW c \in Runs, NEW id \in Ids, JobStep(c, id) PROVE Goal
  <2>1. \A d \in Runs, i \in Ids : d # c \/ i # id => job'[d][i] = job[d][i]
    <3>1. \E x : SetJob(c, id, x)
      BY <1>8, Zenon DEF JobStep, Claim, Gate, SendNowhere, FanOut, Decide, Write, Fallback
    <3> QED
      BY <1>1, <3>1, SetJobEffect
  <2>2. \A i \in Ids : i # id => status'[i] = status[i]
    BY <1>1, <1>8 DEF JobStep, Claim, Gate, SendNowhere, FanOut, Write, Fallback, rowVars, TypeOK
  <2>3. \A i \in Ids : i # id => PhaseOf(i)' = PhaseOf(i)
    BY <2>1, <2>2, PhaseKept DEF Owns
  <2>4. Owns(c, id) => /\ status[id] \in {"dispatching", "deleted"}
                       /\ \A d \in Runs : Owns(d, id) => d = c
                       /\ OwnerBudget(id, job[c][id])
    BY <1>1 DEF ExclusiveOwner, BudgetInv
  <2>5. ASSUME UNCHANGED <<status, deliveries, recoveries, emails>>, Owns(c, id), Owns(c, id)',
               job'[c][id].verdict # "sent", job[c][id].verdict # "sent"
        PROVE  Goal
    <3>1. PhaseOf(id)' = PhaseOf(id)
      BY <2>1, <2>5, PhaseKept DEF Owns
    <3> QED
      BY <2>3, <2>5, <3>1, Stutters
  <2>6. CASE Claim(c, id)
    <3>1. CASE Claimable(id)
      <4>1. status[id] = "pending" /\ status'[id] = "dispatching"
        BY <1>1, <2>6, <3>1 DEF Claim, Claimable, TypeOK
      <4>2. job'[c][id].pc = "claimed" /\ job'[c][id].verdict = "none"
        BY <1>1, <2>6, <3>1, SetJobEffect DEF Claim, NoJob
      <4>3. \A d \in Runs : ~Owns(d, id)
        BY <1>1, <4>1 DEF ExclusiveOwner
      <4>4. Owns(c, id)' /\ \A d \in Runs : Owns(d, id)' => d = c
        BY <2>1, <4>2, <4>3 DEF Owns
      <4>5. PhaseOf(id) = "queued" /\ PhaseOf(id)' = "inFlight"
        BY <4>1, <4>2, <4>4, Phases, NextPhases
      <4>6. Contract!Take(id)
        BY <2>3, <2>6, <4>5, OneMoves DEF Contract!Take, Claim, history
      <4> QED
        BY <4>6 DEF Contract!CNext
    <3>2. CASE ~Claimable(id)
      <4>1. job'[c][id] = NoJob /\ status' = status
        BY <1>1, <2>6, <3>2, SetJobEffect DEF Claim
      <4>2. ~Owns(c, id) /\ ~Owns(c, id)'
        BY <2>6, <4>1 DEF Claim, Owns, NoJob
      <4>3. PhaseOf(id)' = PhaseOf(id)
        BY <2>1, <4>1, <4>2, PhaseKept DEF Owns
      <4> QED
        BY <2>3, <2>6, <4>3, Stutters DEF Claim, history
    <3> QED
      BY <3>1, <3>2
  <2>7. CASE Gate(c, id)
    <3>0. Owns(c, id) /\ UNCHANGED <<status, deliveries, recoveries, emails>>
      BY <2>7 DEF Gate, Owns, rowVars, history
    <3>1. CASE status[id] = "deleted"
      <4>1. PhaseOf(id) = "gone" /\ PhaseOf(id)' = "gone"
        BY <3>0, <3>1, Phases, NextPhases
      <4> QED
        BY <2>3, <3>0, <4>1, Stutters
    <3>2. CASE status[id] # "deleted"
      <4>1. /\ job'[c][id].pc \in {"send", "write"}
            /\ job'[c][id].verdict = GateVerdict(kind[id])
        BY <1>1, <2>7, <3>2, SetJobEffect DEF Gate
      <4>2. job[c][id].verdict = "none" /\ GateVerdict(kind[id]) # "sent"
        BY <2>4, <2>7, <3>0 DEF Gate, OwnerBudget, GateVerdict
      <4> QED
        BY <2>5, <3>0, <4>1, <4>2 DEF Owns
    <3> QED
      BY <3>1, <3>2
  <2>8. CASE SendNowhere(c, id)
    <3>0. Owns(c, id) /\ UNCHANGED <<status, deliveries, recoveries, emails>>
      BY <2>8 DEF SendNowhere, Owns, rowVars, history
    <3>1. job'[c][id].pc = "write" /\ job'[c][id].verdict = "no_subscriptions"
      BY <1>1, <2>8, SetJobEffect DEF SendNowhere, Decide
    <3>2. job[c][id].verdict = "none"
      BY <2>4, <2>8, <3>0 DEF SendNowhere, OwnerBudget
    <3> QED
      BY <2>5, <3>0, <3>1, <3>2 DEF Owns
  <2>9. CASE FanOut(c, id)
    <3>0. Owns(c, id) /\ UNCHANGED <<status, recoveries, emails>> /\ job[c][id].verdict = "none"
      BY <2>4, <2>9 DEF FanOut, Owns, rowVars, OwnerBudget
    <3>1. \A verdict, delay : Decide(c, id, verdict, delay) =>
            job'[c][id].pc = "write" /\ job'[c][id].verdict = verdict
      BY <1>1, SetJobEffect DEF Decide
    <3>2. \/ Decide(c, id, "sent", 0) /\ deliveries' = [deliveries EXCEPT ![id] = @ + 1]
          \/ Decide(c, id, "failed", 0) /\ deliveries' = deliveries
          \/ /\ \E k \in SendKinds : \E delay : Decide(c, id, Classify(k, job[c][id].seen), delay)
             /\ deliveries' = deliveries
      BY <2>9 DEF FanOut
    <3>3. CASE Decide(c, id, "sent", 0) /\ deliveries' = [deliveries EXCEPT ![id] = @ + 1]
      <4>1. status[id] # "deleted"
        BY <1>1, <2>9 DEF FanOut, MailInv, TypeOK, Kinds
      <4>2. status[id] = "dispatching"
        BY <2>4, <3>0, <4>1
      <4>3. job'[c][id].pc = "write" /\ job'[c][id].verdict = "sent"
        BY <3>1, <3>3
      <4>4. Owns(c, id)' /\ \A d \in Runs : Owns(d, id)' => d = c
        BY <2>1, <2>4, <3>0, <4>3 DEF Owns
      <4>5. PhaseOf(id) = "inFlight"
        BY <2>4, <3>0, <4>2, Phases
      <4>6. PhaseOf(id)' = "handed"
        BY <3>0, <4>2, <4>3, <4>4, NextPhases
      <4>7. Contract!Push(id)
        BY <2>3, <3>0, <3>3, <4>5, <4>6, OneMoves DEF Contract!Push
      <4> QED
        BY <4>7 DEF Contract!CNext
    <3>4. CASE /\ deliveries' = deliveries
               /\ \E verdict \in {"failed", "retry"} : \E delay : Decide(c, id, verdict, delay)
      BY <2>5, <3>0, <3>1, <3>4 DEF Owns
    <3>5. \A k \in SendKinds : Classify(k, job[c][id].seen) \in {"failed", "retry"}
      BY DEF Classify
    <3> QED
      BY <3>2, <3>3, <3>4, <3>5
  <2>10. CASE Write(c, id)
    <3> DEFINE v == job[c][id].verdict
    <3>0. Owns(c, id) /\ UNCHANGED <<deliveries, recoveries, emails>>
      BY <2>10 DEF Write, Owns, history
    <3>1. job'[c][id] \in {NoJob, [NoJob EXCEPT !.pc = "fallback"]}
      BY <1>1, <2>10, SetJobEffect DEF Write
    <3>2. \A d \in Runs : ~Owns(d, id)'
      BY <2>1, <2>4, <3>0, <3>1 DEF Owns, NoJob
    <3>3. CASE status[id] = "deleted"
      <4>1. status'[id] = "deleted"
        BY <2>10, <3>3 DEF Write, rowVars
      <4>2. PhaseOf(id) = "gone" /\ PhaseOf(id)' = "gone"
        BY <3>3, <4>1, Phases, NextPhases
      <4> QED
        BY <2>3, <3>0, <4>2, Stutters
    <3>4. CASE status[id] = "dispatching"
      <4>0. PhaseOf(id) = IF v = "sent" THEN "handed" ELSE "inFlight"
        BY <2>4, <3>0, <3>4, Phases
      <4>1. CASE Requeues(v) /\ PendingTwin(kind[id], id)
        <5>1. status'[id] = "dispatching"
          BY <2>10, <3>4, <4>1 DEF Write, rowVars
        <5>2. PhaseOf(id)' = "adrift"
          BY <3>2, <5>1, NextPhases
        <5>3. Contract!Abandon({id})
          BY <2>3, <3>0, <4>0, <5>2 DEF Contract!Abandon
        <5> QED
          BY <5>3 DEF Contract!CNext
      <4>2. CASE ~(Requeues(v) /\ PendingTwin(kind[id], id))
        <5>1. status'[id] = StatusAfter(v)
          BY <1>1, <2>10, <3>4, <4>2 DEF Write, TypeOK
        <5>2. CASE Requeues(v)
          <6>1. PhaseOf(id) = "inFlight"
            BY <4>0, <5>2 DEF Requeues
          <6>2. PhaseOf(id)' = "queued"
            BY <5>1, <5>2, NextPhases DEF StatusAfter
          <6>3. Contract!Release(id)
            BY <2>3, <3>0, <6>1, <6>2, OneMoves DEF Contract!Release
          <6> QED
            BY <6>3 DEF Contract!CNext
        <5>3. CASE v = "sent"
          <6>1. PhaseOf(id) = "handed"
            BY <4>0, <5>3
          <6>2. PhaseOf(id)' = "sent"
            BY <5>1, <5>3, NextPhases DEF StatusAfter, Requeues
          <6>3. Contract!Settle(id)
            BY <2>3, <3>0, <6>1, <6>2, OneMoves DEF Contract!Settle
          <6> QED
            BY <6>3 DEF Contract!CNext
        <5>4. CASE ~Requeues(v) /\ v # "sent"
          <6>1. PhaseOf(id) = "inFlight"
            BY <4>0, <5>4
          <6>2. PhaseOf(id)' = "failed"
            BY <5>1, <5>4, NextPhases DEF StatusAfter
          <6>3. Contract!Drop(id)
            BY <2>3, <3>0, <6>1, <6>2, OneMoves DEF Contract!Drop
          <6> QED
            BY <6>3 DEF Contract!CNext
        <5> QED
          BY <5>2, <5>3, <5>4
      <4> QED
        BY <4>1, <4>2
    <3> QED
      BY <2>4, <3>0, <3>3, <3>4
  <2>11. CASE Fallback(c, id)
    <3>0. /\ UNCHANGED <<status, deliveries, recoveries>>
          /\ status[id] \in {"failed", "deleted"} /\ emails[id] = 0
      BY <2>11 DEF Fallback, rowVars, MailInv
    <3>1. PhaseOf(id)' = PhaseOf(id)
      BY <3>0, Phases, NextPhases
    <3>2. \A i \in Ids : PhaseOf(i)' = PhaseOf(i)
      BY <2>3, <3>1
    <3>3. CASE emails' = emails
      BY <3>0, <3>2, <3>3, Stutters
    <3>4. CASE MayEmail(id) /\ emails' = [emails EXCEPT ![id] = @ + 1]
      <4>1. status[id] = "failed"
        BY <3>0, <3>4 DEF MayEmail, MailInv
      <4>2. PhaseOf(id) = "failed"
        BY <4>1, Phases
      <4>3. emails' = [emails EXCEPT ![id] = 1]
        BY <1>1, <3>0, <3>4 DEF TypeOK
      <4>4. Contract!Mail(id)
        BY <3>0, <3>2, <4>2, <4>3 DEF Contract!Mail
      <4> QED
        BY <4>4 DEF Contract!CNext
    <3> QED
      BY <2>11, <3>3, <3>4 DEF Fallback
  <2> QED
    BY <1>8, <2>6, <2>7, <2>8, <2>9, <2>10, <2>11 DEF JobStep
<1>9. CASE UNCHANGED vars
  BY <1>2, <1>9 DEF vars, rowVars, history
<1> QED
  BY <1>3, <1>4, <1>5, <1>6, <1>7, <1>8, <1>9 DEF Next

\* The empty table is the contract's initial state.
LEMMA ContractInit == Init => Contract!CInit
<1> SUFFICES ASSUME Init PROVE Contract!CInit
  OBVIOUS
<1>1. \A i \in Ids : PhaseOf(i) = "none"
  BY Phases DEF Init
<1> QED
  BY <1>1 DEF Init, Contract!CInit

\* As long as no job outlives the stuck threshold, the dispatcher with its
\* overlapping runs, retries, holds, recoveries, crashes and purges implements
\* the contract of one dispatcher at a time per row.
THEOREM QueueKeepsContract == ASSUME Pace # "overrun" PROVE Spec => KeepsContract
<1> DEFINE Inv == OwnerInv /\ BudgetInv /\ MailInv
<1>1. Init => Inv
  BY OwnerInit, BudgetInit, MailInit
<1>2. Inv /\ [Next]_vars => Inv'
  BY OwnerStep, BudgetStep, MailStep
<1>3. Spec => []Inv
  BY <1>1, <1>2, PTL DEF Spec
<1>4. Inv /\ [Next]_vars => [Contract!CNext]_(Contract!cvars)
  BY Simulation
<1> QED
  BY <1>3, <1>4, ContractInit, PTL DEF Spec, KeepsContract, Contract!CSpec

-----------------------------------------------------------------------------
(* Quiet hours, when every run ends within its tick.                       *)

\* What has passed the gates passed them in this hour.
GatedNow ==
    \A c \in Runs, id \in Ids :
        /\ Owns(c, id) => status[id] # "absent"
        /\ job[c][id].pc = "send" => ~IsQuietHour \/ kind[id].type \in QUIET_HOURS_EXEMPT_TYPES

LEMMA GatedStep ==
    ASSUME Pace = "prompt", OwnerInv, GatedNow, [Next]_vars PROVE GatedNow'
<1>1. TypeOK /\ TypeOK' /\ Pace # "overrun"
  BY TypeStep DEF OwnerInv
<1>2. ASSUME NEW c \in Runs, NEW id \in Ids, Owns(c, id)' PROVE status'[id] # "absent"
  <2>1. OwnerInv'
    BY <1>1, OwnerStep
  <2> QED
    BY <1>2, <2>1 DEF OwnerInv, ExclusiveOwner
<1> SUFFICES ASSUME NEW c \in Runs, NEW i \in Ids, job'[c][i].pc = "send"
             PROVE  (~IsQuietHour \/ kind[i].type \in QUIET_HOURS_EXEMPT_TYPES)'
  BY <1>2 DEF GatedNow
<1>3. ASSUME job[c][i].pc = "send", hour' = hour, kind'[i] = kind[i]
      PROVE  (~IsQuietHour \/ kind[i].type \in QUIET_HOURS_EXEMPT_TYPES)'
  BY <1>3 DEF GatedNow, IsQuietHour
<1>4. CASE Environment
  <2>1. ASSUME NEW k \in Kinds, Enqueue(k)
        PROVE  (~IsQuietHour \/ kind[i].type \in QUIET_HOURS_EXEMPT_TYPES)'
    <3>1. PICK n \in Ids : status[n] = "absent" /\ kind' = [kind EXCEPT ![n] = k]
      BY <2>1 DEF Enqueue
    <3>2. job' = job /\ hour' = hour
      BY <2>1 DEF Enqueue, timeVars
    <3>3. i # n
      BY <3>1, <3>2 DEF GatedNow, Owns
    <3> QED
      BY <1>1, <1>3, <3>1, <3>2, <3>3 DEF TypeOK
  <2> QED
    BY <1>3, <1>4, <2>1
    DEF Environment, TogglePreference, ToggleDevice, PurgeUser, rowVars, timeVars
<1>5. CASE Fault
  <2>1. CASE Crash
    BY <2>1 DEF Crash, NoJob
  <2>2. ASSUME NEW d \in Runs, NEW id \in Ids, JobThrows(d, id)
        PROVE  job[c][i].pc = "send" /\ hour' = hour /\ kind' = kind
    BY <1>1, <2>2, SetJobEffect DEF JobThrows, NoJob, rowVars, timeVars
  <2> QED
    BY <1>3, <1>5, <2>1, <2>2 DEF Fault
<1>6. CASE Tick
  BY <1>6 DEF Tick, TimeMayPass, OwnerInv, RunsHoldTheirJobs
<1>7. ASSUME NEW d \in Runs, Recover(d) PROVE job[c][i].pc = "send" /\ hour' = hour /\ kind' = kind
  BY <1>7 DEF Recover, rowVars
<1>8. ASSUME NEW d \in Runs, RunStep(d) PROVE job[c][i].pc = "send" /\ hour' = hour /\ kind' = kind
  BY <1>1, <1>8 DEF RunStep, List, NextChunk, EndRun, NoJob, NewJob, TypeOK, rowVars, timeVars
<1>9. ASSUME NEW d \in Runs, NEW id \in Ids, JobStep(d, id)
      PROVE  (~IsQuietHour \/ kind[i].type \in QUIET_HOURS_EXEMPT_TYPES)'
  <2>1. hour' = hour /\ kind' = kind
    BY <1>9 DEF JobStep, Claim, Gate, SendNowhere, FanOut, Write, Fallback, rowVars, timeVars
  <2>2. CASE d # c \/ i # id
    <3>1. \E x : SetJob(d, id, x)
      BY <1>9, Zenon DEF JobStep, Claim, Gate, SendNowhere, FanOut, Decide, Write, Fallback
    <3>2. job'[c][i] = job[c][i]
      BY <1>1, <2>2, <3>1, SetJobEffect
    <3> QED
      BY <1>3, <2>1, <3>2
  <2>3. CASE d = c /\ i = id
    <3>1. CASE Gate(c, i)
      <4>1. job'[c][i].pc = "send" => GateVerdict(kind[i]) = "none"
        BY <1>1, <3>1, SetJobEffect DEF Gate, NoJob
      <4> QED
        BY <2>1, <4>1 DEF GateVerdict, IsQuietHour
    <3>2. CASE ~Gate(c, i)
      <4>1. CASE SendNowhere(c, i) \/ FanOut(c, i)
        <5>1. \E verdict, delay : Decide(c, i, verdict, delay)
          BY <4>1, Zenon DEF SendNowhere, FanOut
        <5> QED
          BY <1>1, <5>1, SetJobEffect DEF Decide
      <4>2. CASE Claim(c, i) \/ Write(c, i) \/ Fallback(c, i)
        <5>1. job'[c][i] \in {NoJob, [NoJob EXCEPT !.pc = "claimed"],
                              [NoJob EXCEPT !.pc = "fallback"]}
          BY <1>1, <4>2, SetJobEffect DEF Claim, Write, Fallback
        <5> QED
          BY <5>1 DEF NoJob
      <4> QED
        BY <1>9, <2>3, <3>2, <4>1, <4>2 DEF JobStep
    <3> QED
      BY <3>1, <3>2
  <2> QED
    BY <2>2, <2>3
<1>10. CASE UNCHANGED vars
  BY <1>3, <1>10 DEF vars, rowVars, timeVars
<1> QED
  BY <1>3, <1>4, <1>5, <1>6, <1>7, <1>8, <1>9, <1>10 DEF Next

\* A push in the quiet hours is for an exempt type, whatever retries, holds and
\* recoveries carried the row there, when a run ends within its tick.
THEOREM NightIsQuiet ==
    ASSUME Pace = "prompt"
    PROVE  Spec => [][\A id \in Ids : deliveries'[id] # deliveries[id] =>
                        ~IsQuietHour \/ kind[id].type \in QUIET_HOURS_EXEMPT_TYPES]_vars
<1> DEFINE Quiet == \A id \in Ids : deliveries'[id] # deliveries[id] =>
                        ~IsQuietHour \/ kind[id].type \in QUIET_HOURS_EXEMPT_TYPES
<1>1. Init => GatedNow
  BY DEF Init, GatedNow, Owns, NoJob
<1>2. OwnerInv /\ GatedNow /\ [Next]_vars => (OwnerInv /\ GatedNow)'
  BY OwnerStep, GatedStep
<1>3. OwnerInv /\ GatedNow /\ [Next]_vars => [Quiet]_vars
  <2> SUFFICES ASSUME OwnerInv, GatedNow, Next, NEW id \in Ids, deliveries'[id] # deliveries[id]
               PROVE  ~IsQuietHour \/ kind[id].type \in QUIET_HOURS_EXEMPT_TYPES
    BY DEF vars
  <2>1. PICK c \in Runs, i \in Ids : FanOut(c, i)
    BY DEF Next, Environment, Enqueue, TogglePreference, ToggleDevice, PurgeUser, Fault, Crash,
       JobThrows, Tick, Recover, RunStep, List, NextChunk, EndRun, JobStep, Claim, Gate,
       SendNowhere, Write, Fallback, history
  <2>2. i = id /\ job[c][i].pc = "send"
    BY <2>1 DEF FanOut, OwnerInv, TypeOK
  <2> QED
    BY <2>2 DEF GatedNow
<1> QED
  BY <1>1, <1>2, <1>3, OwnerInit, PTL DEF Spec

================================================================================

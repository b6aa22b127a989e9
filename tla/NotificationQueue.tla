-------------------------- MODULE NotificationQueue --------------------------
(***************************************************************************)
(* The notification queue of apps/web: the table notification_queue, the   *)
(* enqueue helpers (lib/notifications/enqueue.ts) and the Web Push         *)
(* dispatcher (lib/push/dispatcher.ts), run by a cron every two minutes.   *)
(*                                                                         *)
(* A row is claimed (pending -> dispatching), gated on the member's        *)
(* preferences and quiet hours, fanned out to the member's devices, and    *)
(* then written back: sent, failed, or pending again.  Between two awaits  *)
(* of the dispatcher anything else may happen: another cron run, another   *)
(* job of the same run, an enqueue, a preference change, a purge of the    *)
(* member, a crash of the process.  The awaits between which the row or    *)
(* the decision can change are steps of their own here.                    *)
(*                                                                         *)
(* Time is counted in ticks and kept relative, so that it never runs out:  *)
(* wait[id] is what is left until next_attempt_at, age[id] the time since  *)
(* updated_at (it saturates just past the stuck threshold), hour the local *)
(* time of day, whose last NightLength ticks are the quiet hours.          *)
(***************************************************************************)
EXTENDS Integers, FiniteSets

CONSTANTS
    Users,          \* the members who receive notifications
    Types,          \* the notification types in play
    Keys,           \* payload dedup keys: a date, a weekStart, a discrepancyId
    Devices,        \* push endpoints a member may subscribe
    Runs,           \* cron invocations that may overlap
    MaxRows,        \* bound: rows ever enqueued
    MaxFaults,      \* bound: crashes, rejected database calls, overdue ticks
    MaxChurn,       \* bound: changes of preferences, devices and members
    MaxPerRun,      \* dispatchAllReady's maxPerRun
    Concurrency,    \* dispatchAllReady's CONCURRENCY
    Threshold,      \* STUCK_DISPATCHING_THRESHOLD_MS, in ticks
    BaseBackoff,    \* BASE_BACKOFF_MS, in ticks
    RetryAfters,    \* delays a push service may ask for, in ticks
    DayLength,      \* ticks in a day
    NightLength,    \* ticks of quiet hours at the end of each day
    Pace            \* how long a run may take: see TimeMayPass

Ids == 1..MaxRows

NOTIFICATION_TYPES ==
    {"annotation_received", "training_annotation_received",
     "checkin_morning_reminder", "checkin_evening_reminder",
     "douglas_card_delivered", "weekly_report_ready",
     "monthly_debrief_ready", "mindset_check_ready",
     "verification_gentle_reminder", "verification_proof_analyzed",
     "training_reply_received", "weekly_review_reminder",
     "calendar_ready", "data_export_ready"}

QUIET_HOURS_EXEMPT_TYPES ==
    {"annotation_received", "training_annotation_received",
     "verification_proof_analyzed", "training_reply_received"}

QUIET_HOURS_EXPIRE_TYPES ==
    {"checkin_morning_reminder", "checkin_evening_reminder"}

EMAIL_FALLBACK_SKIP_TYPES ==
    {"mindset_check_ready", "douglas_card_delivered",
     "verification_gentle_reminder"}

\* Types covered by a partial unique index on (user, type, payload key)
\* WHERE status = 'pending'.
PendingUniqueTypes ==
    {"checkin_morning_reminder", "checkin_evening_reminder",
     "mindset_check_ready", "verification_gentle_reminder"}

MAX_ATTEMPTS == 3

Kinds == [user : Users, type : Types, key : Keys]

ASSUME BoundsAssumption ==
    /\ MaxRows \in Nat /\ MaxFaults \in Nat /\ MaxChurn \in Nat
    /\ MaxPerRun \in Nat \ {0} /\ Concurrency \in Nat \ {0}

ASSUME TimeAssumption ==
    /\ Threshold \in Nat \ {0} /\ BaseBackoff \in Nat \ {0}
    /\ RetryAfters \subseteq Nat \ {0}
    /\ DayLength \in Nat \ {0} /\ NightLength \in 0..(DayLength - 1)
    /\ Pace \in {"prompt", "timely", "overrun"}

ASSUME SetsAssumption == Users # {} /\ Types # {} /\ Keys # {} /\ IsFiniteSet(Runs)

VARIABLES
    kind,       \* kind[id]: whose, which type, which payload key
    status,     \* status[id], "absent" before the insert, "deleted" after a purge
    attempts,   \* attempts[id]: the retry counter column
    wait,       \* wait[id]: ticks until next_attempt_at, 0 when claimable
    age,        \* age[id]: ticks since updated_at
    run,        \* run[c]: the phase and remaining work list of a cron run
    job,        \* job[c][id]: the dispatchOne call of run c on row id
    members,    \* users that still exist
    subs,       \* subs[u]: subscribed devices
    optOut,     \* <<user, type>> pairs switched off
    hour,       \* local time of day
    ran,        \* a run has started in this tick
    faults,     \* faults so far
    churn,      \* environment changes so far
    recoveries, \* recoveries[id]: times the row was rolled back as stuck
    fanouts,    \* fanouts[id]: times the row was sent to the member's devices
    deliveries, \* deliveries[id]: fan-outs that reached a device
    emails,     \* emails[id]: fallback emails sent for the row
    stale       \* rows a midnight has passed over

rowVars  == <<kind, status, attempts, wait, age>>
envVars  == <<members, subs, optOut, churn>>
timeVars == <<hour, ran>>
history  == <<recoveries, fanouts, deliveries, emails, stale>>
vars == <<rowVars, run, job, envVars, timeVars, faults, history>>

\* NotificationStatus, "absent" before the insert and "deleted" after a purge.
Statuses == {"absent", "pending", "dispatching", "sent", "failed", "deleted"}

\* What dispatchOne has decided to write.
Verdicts == {"none", "unknown_type", "preference_off", "defer", "expire",
             "no_subscriptions", "sent", "retry", "failed"}

\* start: about to claim; claimed: owns the row, about to gate; send: about to
\* fan out; write: about to write the verdict; fallback: row failed, about to
\* consider the fallback email.
JobPc == {"idle", "start", "claimed", "send", "write", "fallback"}

Jobs == [pc : JobPc, seen : Int, verdict : Verdicts, delay : Nat]

NoJob == [pc |-> "idle", seen |-> 0, verdict |-> "none", delay |-> 0]

NewJob == [NoJob EXCEPT !.pc = "start"]

NoRun == [phase |-> "idle", todo |-> {}]

Init ==
    /\ kind = [id \in Ids |-> CHOOSE k \in Kinds : TRUE]
    /\ status = [id \in Ids |-> "absent"]
    /\ attempts = [id \in Ids |-> 0]
    /\ wait = [id \in Ids |-> 0]
    /\ age = [id \in Ids |-> 0]
    /\ run = [c \in Runs |-> NoRun]
    /\ job = [c \in Runs |-> [id \in Ids |-> NoJob]]
    /\ members = Users
    /\ subs = [u \in Users |-> Devices]
    /\ optOut = {}
    /\ hour = 0
    /\ ran = FALSE
    /\ faults = 0
    /\ churn = 0
    /\ recoveries = [id \in Ids |-> 0]
    /\ fanouts = [id \in Ids |-> 0]
    /\ deliveries = [id \in Ids |-> 0]
    /\ emails = [id \in Ids |-> 0]
    /\ stale = {}

-----------------------------------------------------------------------------
(* The table and its partial unique indexes.                               *)

\* Another pending row with the same user, type and payload key.
PendingTwin(k, self) ==
    /\ k.type \in PendingUniqueTypes
    /\ \E j \in Ids \ {self} : status[j] = "pending" /\ kind[j] = k

\* The n oldest rows of S (ids grow with created_at).
TakeFifo(S, n) == {i \in S : Cardinality({j \in S : j < i}) < n}

Claimable(id) == status[id] = "pending" /\ wait[id] = 0

Ready == {id \in Ids : Claimable(id)}

\* The state of run c's dispatchOne on id becomes x.
SetJob(c, id, x) == job' = [job EXCEPT ![c][id] = x]

\* dispatchOne of run c has claimed id and not yet written its verdict.
Owns(c, id) == job[c][id].pc \in {"claimed", "send", "write"}

-----------------------------------------------------------------------------
(* Enqueue.  An insert that meets a pending twin raises P2002, which the   *)
(* helpers fold into a no-op: nothing changes.  The weekly review reminder *)
(* has no index; its helper looks for a live row first.                    *)

AlreadyNudged(k) ==
    /\ k.type = "weekly_review_reminder"
    /\ \E j \in Ids : kind[j] = k /\ status[j] \in {"pending", "dispatching", "sent"}

Enqueue(k) ==
    /\ k.user \in members
    /\ ~PendingTwin(k, 0)
    /\ ~AlreadyNudged(k)
    /\ \E id \in Ids :
         /\ status[id] = "absent"
         /\ \A j \in Ids : j < id => status[j] # "absent"
         /\ kind' = [kind EXCEPT ![id] = k]
         /\ status' = [status EXCEPT ![id] = "pending"]
         /\ age' = [age EXCEPT ![id] = 0]
    /\ UNCHANGED <<attempts, wait, run, job, envVars, timeVars, faults, history>>

-----------------------------------------------------------------------------
(* dispatchAllReady: recover, list, then walk the list chunk by chunk.     *)

\* Mutants: a threshold a live job can reach; no recovery at all.
StuckTooEarly == {id \in Ids : status[id] = "dispatching" /\ age[id] >= Threshold}
NeverStuck == {}

\* Rows whose dispatcher is taken for dead.
Stuck == {id \in Ids : status[id] = "dispatching" /\ age[id] > Threshold}

\* Rolling every stuck row back to pending breaks a partial unique index, so
\* the single UPDATE statement is refused as a whole.
RecoveryRefused ==
    \E id \in Stuck :
        \/ PendingTwin(kind[id], id)
        \/ /\ kind[id].type \in PendingUniqueTypes
           /\ \E j \in Stuck \ {id} : kind[j] = kind[id]

\* The cron line fires once per tick when runs are prompt.
CronMayFire == Pace = "prompt" => ~ran

Recover(c) ==
    /\ run[c].phase = "idle"
    /\ CronMayFire
    /\ ran' = TRUE
    /\ IF RecoveryRefused
         THEN UNCHANGED <<rowVars, run, recoveries>>   \* throws: the run ends here
         ELSE /\ status' = [id \in Ids |-> IF id \in Stuck THEN "pending" ELSE status[id]]
              /\ wait' = [id \in Ids |-> IF id \in Stuck THEN 0 ELSE wait[id]]
              /\ age' = [id \in Ids |-> IF id \in Stuck THEN 0 ELSE age[id]]
              /\ recoveries' = [id \in Ids |-> IF id \in Stuck THEN recoveries[id] + 1
                                                               ELSE recoveries[id]]
              /\ run' = [run EXCEPT ![c] = [phase |-> "list", todo |-> {}]]
              /\ UNCHANGED <<kind, attempts>>
    /\ UNCHANGED <<job, envVars, hour, faults, fanouts, deliveries, emails, stale>>

List(c) ==
    /\ run[c].phase = "list"
    /\ run' = [run EXCEPT ![c] = [phase |-> "work", todo |-> TakeFifo(Ready, MaxPerRun)]]
    /\ UNCHANGED <<rowVars, job, envVars, timeVars, faults, history>>

ChunkDone(c) == \A id \in Ids : job[c][id].pc = "idle"

NextChunk(c) ==
    /\ run[c].phase = "work"
    /\ run[c].todo # {}
    /\ ChunkDone(c)
    /\ LET chunk == TakeFifo(run[c].todo, Concurrency) IN
         /\ run' = [run EXCEPT ![c].todo = @ \ chunk]
         /\ job' = [job EXCEPT ![c] =
                      [id \in Ids |-> IF id \in chunk THEN NewJob ELSE NoJob]]
    /\ UNCHANGED <<rowVars, envVars, timeVars, faults, history>>

EndRun(c) ==
    /\ run[c].phase = "work"
    /\ run[c].todo = {}
    /\ ChunkDone(c)
    /\ run' = [run EXCEPT ![c] = NoRun]
    /\ UNCHANGED <<rowVars, job, envVars, timeVars, faults, history>>

-----------------------------------------------------------------------------
(* dispatchOne.                                                            *)

\* The conditional UPDATE that takes the row; the loser skips it.
Claim(c, id) ==
    /\ job[c][id].pc = "start"
    /\ IF Claimable(id)
         THEN /\ status' = [status EXCEPT ![id] = "dispatching"]
              /\ attempts' = [attempts EXCEPT ![id] = @ + 1]
              /\ age' = [age EXCEPT ![id] = 0]
              /\ SetJob(c, id, [NoJob EXCEPT !.pc = "claimed"])
         ELSE /\ SetJob(c, id, NoJob)
              /\ UNCHANGED <<status, attempts, age>>
    /\ UNCHANGED <<kind, wait, run, envVars, timeVars, faults, history>>

IsQuietHour == hour >= DayLength - NightLength

\* The next local 08:00 is the first tick of the next day.
QuietHoursEnd == DayLength - hour

\* Mutants: only dated reminders are held at night; a dated reminder is deferred.
GateVerdictNightLeak(k) ==
    IF k.type \notin NOTIFICATION_TYPES THEN "unknown_type"
    ELSE IF <<k.user, k.type>> \in optOut THEN "preference_off"
    ELSE IF k.type \in QUIET_HOURS_EXPIRE_TYPES /\ IsQuietHour THEN "expire" ELSE "none"
GateVerdictDeferFirst(k) ==
    IF k.type \notin NOTIFICATION_TYPES THEN "unknown_type"
    ELSE IF <<k.user, k.type>> \in optOut THEN "preference_off"
    ELSE IF k.type \in QUIET_HOURS_EXEMPT_TYPES \/ ~IsQuietHour THEN "none" ELSE "defer"

\* What the gates say of a claimed row, in the order of the early returns.
GateVerdict(k) ==
    IF k.type \notin NOTIFICATION_TYPES THEN "unknown_type"
    ELSE IF <<k.user, k.type>> \in optOut THEN "preference_off"
    ELSE IF k.type \in QUIET_HOURS_EXEMPT_TYPES \/ ~IsQuietHour THEN "none"
    ELSE IF k.type \in QUIET_HOURS_EXPIRE_TYPES THEN "expire"
    ELSE "defer"

Gate(c, id) ==
    /\ job[c][id].pc = "claimed"
    /\ LET verdict == GateVerdict(kind[id]) IN
       SetJob(c, id,
              IF status[id] = "deleted" THEN NoJob   \* row_disappeared_after_claim
              ELSE [pc      |-> IF verdict = "none" THEN "send" ELSE "write",
                    seen    |-> attempts[id],
                    verdict |-> verdict,
                    delay   |-> IF verdict = "defer" THEN QuietHoursEnd ELSE 0])
    /\ UNCHANGED <<rowVars, run, envVars, timeVars, faults, history>>

\* What a push service answers; transient stands for rate_limited,
\* server_error, timeout, network and promise_rejected.
SendKinds == {"delivered", "gone", "payload_too_large", "transient", "unknown"}

\* Mutant: one attempt too many.
ClassifyOffByOne(sendKind, attemptsAfter) ==
    IF sendKind = "transient" /\ attemptsAfter <= MAX_ATTEMPTS THEN "retry" ELSE "failed"

\* classifyError of the aggregate kind: only a transient error of a row with
\* attempts to spare is retried.
Classify(sendKind, attemptsAfter) ==
    IF sendKind = "transient" /\ attemptsAfter < MAX_ATTEMPTS THEN "retry" ELSE "failed"

\* nextAttemptDelay without a Retry-After: 4^(attempt-1), capped at 30.
Backoff(attempt) ==
    BaseBackoff * (CASE attempt <= 1 -> 1 [] attempt = 2 -> 4
                     [] attempt = 3 -> 16 [] OTHER -> 30)

Decide(c, id, verdict, delay) ==
    SetJob(c, id, [pc      |-> "write",
                   seen    |-> job[c][id].seen,
                   verdict |-> verdict,
                   delay   |-> IF verdict = "retry" THEN delay ELSE 0])

SendNowhere(c, id) ==
    /\ job[c][id].pc = "send"
    /\ subs[kind[id].user] = {}
    /\ Decide(c, id, "no_subscriptions", 0)
    /\ UNCHANGED <<rowVars, run, envVars, timeVars, faults, history>>

\* The fan-out over the member's devices and the aggregate decision.  The
\* aggregate kind is that of the last failing device, in an order the query
\* does not fix, and the Retry-After may come from another device.  Dead
\* endpoints are deleted without waiting for the answer, so each may survive.
FanOut(c, id) ==
    /\ job[c][id].pc = "send"
    /\ LET devices == subs[kind[id].user]
           seen    == job[c][id].seen
       IN
       /\ devices # {}
       /\ \E result \in [devices -> SendKinds] :
            LET gone   == {d \in devices : result[d] = "gone"}
                errors == {result[d] : d \in devices} \ {"gone", "delivered"}
            IN
            /\ \E purged \in SUBSET gone :
                 subs' = [subs EXCEPT ![kind[id].user] = @ \ purged]
            /\ \/ /\ \E d \in devices : result[d] = "delivered"
                  /\ Decide(c, id, "sent", 0)
                  /\ deliveries' = [deliveries EXCEPT ![id] = @ + 1]
               \/ /\ gone = devices
                  /\ Decide(c, id, "failed", 0)
                  /\ UNCHANGED deliveries
               \/ /\ \A d \in devices : result[d] # "delivered"
                  /\ \E last \in errors, delay \in RetryAfters \cup {Backoff(seen)} :
                       Decide(c, id, Classify(last, seen), delay)
                  /\ UNCHANGED deliveries
    /\ fanouts' = [fanouts EXCEPT ![id] = @ + 1]
    /\ UNCHANGED <<rowVars, run, members, optOut, churn, timeVars, faults,
                   recoveries, emails, stale>>

Requeues(verdict) == verdict \in {"retry", "defer"}

\* Mutant: no device to reach counts as a success.
StatusAfterLenient(verdict) ==
    IF Requeues(verdict) THEN "pending"
    ELSE IF verdict \in {"sent", "no_subscriptions"} THEN "sent" ELSE "failed"

StatusAfter(verdict) ==
    IF Requeues(verdict) THEN "pending" ELSE IF verdict = "sent" THEN "sent" ELSE "failed"

\* A hold for the quiet hours gives back the attempt the claim counted.
AttemptsAfter(verdict, n) == IF verdict = "defer" THEN n - 1 ELSE n

\* The verdict's UPDATE, by id and unconditional.  It throws on a row that a
\* purge deleted, and on a return to pending that meets a pending twin: the
\* row is then left as it was.
Write(c, id) ==
    /\ job[c][id].pc = "write"
    /\ LET verdict == job[c][id].verdict
           throws  == \/ status[id] = "deleted"
                      \/ Requeues(verdict) /\ PendingTwin(kind[id], id)
       IN
       IF throws
         THEN /\ SetJob(c, id, NoJob)
              /\ UNCHANGED rowVars
         ELSE /\ status' = [status EXCEPT ![id] = StatusAfter(verdict)]
              /\ wait' = [wait EXCEPT ![id] = IF Requeues(verdict) THEN job[c][id].delay ELSE @]
              /\ attempts' = [attempts EXCEPT ![id] = AttemptsAfter(verdict, @)]
              /\ age' = [age EXCEPT ![id] = 0]
              /\ SetJob(c, id, IF verdict = "failed" THEN [NoJob EXCEPT !.pc = "fallback"]
                                                     ELSE NoJob)
              /\ UNCHANGED kind
    /\ UNCHANGED <<run, envVars, timeVars, faults, history>>

\* The fallback email of a permanent failure: never for a push-only type;
\* otherwise it may be withheld by the 24 h cap, or its sending may throw.
MayEmail(id) ==
    /\ kind[id].type \notin EMAIL_FALLBACK_SKIP_TYPES
    /\ kind[id].user \in members

Fallback(c, id) ==
    /\ job[c][id].pc = "fallback"
    /\ SetJob(c, id, NoJob)
    /\ \/ UNCHANGED emails
       \/ /\ MayEmail(id)
          /\ emails' = [emails EXCEPT ![id] = @ + 1]
    /\ UNCHANGED <<rowVars, run, envVars, timeVars, faults,
                   recoveries, fanouts, deliveries, stale>>

-----------------------------------------------------------------------------
(* Faults and the world outside the dispatcher.                            *)

\* The process dies: every run and every job of it is lost.
Crash ==
    /\ faults < MaxFaults
    /\ faults' = faults + 1
    /\ run' = [c \in Runs |-> NoRun]
    /\ job' = [c \in Runs |-> [id \in Ids |-> NoJob]]
    /\ UNCHANGED <<rowVars, envVars, timeVars, history>>

\* A database call of one job rejects; allSettled contains it.
JobThrows(c, id) ==
    /\ faults < MaxFaults
    /\ job[c][id].pc # "idle"
    /\ faults' = faults + 1
    /\ SetJob(c, id, NoJob)
    /\ UNCHANGED <<rowVars, run, envVars, timeVars, history>>

TogglePreference(u, t) ==
    /\ churn < MaxChurn
    /\ u \in members
    /\ churn' = churn + 1
    /\ optOut' = IF <<u, t>> \in optOut THEN optOut \ {<<u, t>>} ELSE optOut \cup {<<u, t>>}
    /\ UNCHANGED <<rowVars, run, job, members, subs, timeVars, faults, history>>

ToggleDevice(u, d) ==
    /\ churn < MaxChurn
    /\ u \in members
    /\ churn' = churn + 1
    /\ subs' = [subs EXCEPT ![u] = IF d \in @ THEN @ \ {d} ELSE @ \cup {d}]
    /\ UNCHANGED <<rowVars, run, job, members, optOut, timeVars, faults, history>>

\* The hard purge of a member cascades to the queue and the subscriptions.
PurgeUser(u) ==
    /\ churn < MaxChurn
    /\ u \in members
    /\ churn' = churn + 1
    /\ members' = members \ {u}
    /\ subs' = [subs EXCEPT ![u] = {}]
    /\ optOut' = {p \in optOut : p[1] # u}
    /\ status' = [id \in Ids |-> IF status[id] # "absent" /\ kind[id].user = u
                                 THEN "deleted" ELSE status[id]]
    /\ UNCHANGED <<kind, attempts, wait, age, run, job, timeVars, faults, history>>

\* How far time may run ahead of the dispatcher.  "prompt": the cron fires in
\* every tick and a run ends within it (a run takes 125 s at most by the
\* comment on CONCURRENCY).  "timely": runs may drag on and overlap, but no
\* dispatchOne holds its row past the stuck threshold.  "overrun": it may, each
\* tick of it counting as a fault.
Overdue == \E c \in Runs, id \in Ids : Owns(c, id) /\ age[id] >= Threshold

TimeMayPass ==
    /\ Pace = "prompt" => ran /\ \A c \in Runs : run[c].phase = "idle"
    /\ Pace = "timely" => ~Overdue
    /\ Pace = "overrun" /\ Overdue => faults < MaxFaults

\* Midnight comes one tick into the quiet hours.
Midnight == (DayLength - NightLength + 1) % DayLength

Tick ==
    /\ TimeMayPass
    /\ hour' = (hour + 1) % DayLength
    /\ stale' = IF hour' = Midnight THEN {id \in Ids : status[id] # "absent"} ELSE stale
    /\ ran' = FALSE
    /\ wait' = [id \in Ids |-> IF wait[id] > 0 THEN wait[id] - 1 ELSE 0]
    /\ age' = [id \in Ids |-> IF age[id] > Threshold THEN age[id] ELSE age[id] + 1]
    /\ faults' = IF Pace = "overrun" /\ Overdue THEN faults + 1 ELSE faults
    /\ UNCHANGED <<kind, status, attempts, run, job, envVars,
                   recoveries, fanouts, deliveries, emails>>

-----------------------------------------------------------------------------
JobStep(c, id) ==
    \/ Claim(c, id) \/ Gate(c, id) \/ SendNowhere(c, id) \/ FanOut(c, id)
    \/ Write(c, id) \/ Fallback(c, id)

RunStep(c) == List(c) \/ NextChunk(c) \/ EndRun(c)

Environment ==
    \/ \E k \in Kinds : Enqueue(k)
    \/ \E u \in Users, t \in Types : TogglePreference(u, t)
    \/ \E u \in Users, d \in Devices : ToggleDevice(u, d)
    \/ \E u \in Users : PurgeUser(u)

Fault == Crash \/ \E c \in Runs, id \in Ids : JobThrows(c, id)

Next ==
    \/ Environment
    \/ Fault
    \/ Tick
    \/ \E c \in Runs : Recover(c) \/ RunStep(c)
    \/ \E c \in Runs, id \in Ids : JobStep(c, id)

Spec == Init /\ [][Next]_vars

\* The cron keeps firing, runs and jobs in progress go on, time passes.
Fairness ==
    /\ WF_vars(Tick)
    /\ \A c \in Runs : WF_vars(Recover(c)) /\ WF_vars(RunStep(c))
    /\ \A c \in Runs, id \in Ids : WF_vars(JobStep(c, id))

FairSpec == Spec /\ Fairness

-----------------------------------------------------------------------------
(* Properties.                                                             *)

\* Every variable has its type, and every delay counts forward.
TypeOK ==
    /\ kind \in [Ids -> Kinds]
    /\ status \in [Ids -> Statuses]
    /\ attempts \in [Ids -> Int]
    /\ wait \in [Ids -> Nat]
    /\ age \in [Ids -> 0..(Threshold + 1)]
    /\ run \in [Runs -> [phase : {"idle", "list", "work"}, todo : SUBSET Ids]]
    /\ job \in [Runs -> [Ids -> Jobs]]
    /\ members \subseteq Users
    /\ subs \in [Users -> SUBSET Devices]
    /\ optOut \subseteq Users \X Types
    /\ hour \in 0..(DayLength - 1)
    /\ ran \in BOOLEAN
    /\ faults \in 0..MaxFaults
    /\ churn \in 0..MaxChurn
    /\ recoveries \in [Ids -> Nat]
    /\ fanouts \in [Ids -> Nat]
    /\ deliveries \in [Ids -> Nat]
    /\ emails \in [Ids -> Nat]
    /\ stale \subseteq Ids

\* At most one dispatchOne at a time works on a row, and while it does the row
\* says dispatching (or is gone): overlapping cron runs, recovery included,
\* never share a row.  Holds as long as no job outlives the stuck threshold.
ExclusiveOwner ==
    \A id \in Ids, c \in Runs :
        Owns(c, id) =>
            /\ status[id] \in {"dispatching", "deleted"}
            /\ \A d \in Runs : Owns(d, id) => d = c

OwnersOf(id) == {c \in Runs : Owns(c, id)}

\* However many jobs share a row, each has counted its attempt and not yet given
\* it back: the decrement of a hold never takes the counter below zero.
AttemptsCoverOwners ==
    \A id \in Ids : Cardinality(OwnersOf(id)) <= attempts[id]

\* A claim costs an attempt only if it led to a fan-out or died: a hold for the
\* quiet hours is free.  A row is sent out at most MAX_ATTEMPTS times, plus
\* once for each time it was taken for stuck.
RetryBudget ==
    \A id \in Ids :
        /\ fanouts[id] <= MAX_ATTEMPTS + recoveries[id]
        /\ status[id] = "pending" => attempts[id] \in fanouts[id]..(fanouts[id] + recoveries[id])

\* A row that is sent or failed stays so until its member is purged, whatever
\* late job, recovery or second run still holds its id.
SettledStaysSettled ==
    [][\A id \in Ids : status[id] \in {"sent", "failed"} =>
                           status'[id] \in {status[id], "deleted"}]_vars

\* What the status says of the delivery is true: a sent row reached a device, a
\* failed or waiting row that was never recovered reached none, and only a
\* recovery can make a member receive a notification again.
DeliveryAccounting ==
    \A id \in Ids :
        /\ status[id] = "sent" => deliveries[id] > 0
        /\ deliveries[id] <= 1 + recoveries[id]
        /\ status[id] \in {"pending", "failed"} /\ recoveries[id] = 0 => deliveries[id] = 0

\* However long a row is held or retried, it is not pushed in the quiet hours
\* unless its type is exempt, nor, when it is dated to a day, after the midnight
\* that ends that day.
PushedInTime ==
    [][\A id \in Ids : deliveries'[id] # deliveries[id] =>
            /\ ~IsQuietHour \/ kind[id].type \in QUIET_HOURS_EXEMPT_TYPES
            /\ id \in stale => kind[id].type \notin QUIET_HOURS_EXPIRE_TYPES]_vars

\* Every row enqueued is eventually sent, failed or purged with its member, but
\* for a recovery that a pending twin refuses.
EveryRowSettles ==
    \A id \in Ids : status[id] = "pending" ~>
        status[id] \in {"sent", "failed", "deleted"} \/ RecoveryRefused

=============================================================================

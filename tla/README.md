# Verification of Fxmily

TLA+ models of the parts of this repository in which several actors share
state over time: cron runs, HTTP requests, background builds, mail and push
providers, the member, and the process that may be replaced between any two of
their steps. TLC checks small instances; TLAPS proves the theorems of section 5
for every value of the constants.

All paths are relative to the repository root; `lib/` stands for
`apps/web/src/lib/`.

## 1. Inventory

One Next.js process (`apps/web`) serves the site and the cron routes; Postgres
holds everything durable except uploads and export archives, which live on a
volume; a host crontab (`ops/cron/crontab.fxmily`) calls the cron routes with
`curl`; a mail provider (Resend) and the push services are external. There is
no queue broker and no distributed lock: everything that must happen once rests
on conditional `UPDATE`s, unique indexes and leases.

| Component | State | Operations | Interacts with | Hard behaviours |
| --- | --- | --- | --- | --- |
| Notification queue, Web Push dispatcher (`lib/push/dispatcher.ts`, `lib/notifications/enqueue.ts`) | `notification_queue` (status, attempts, next_attempt_at, updated_at), partial unique indexes on pending rows | enqueue; recover, list, chunk, claim, gate, fan out, write back, fallback mail; retries with backoff; holds for the quiet hours | every component that notifies; preferences; push subscriptions; mail | overlapping cron runs, runs that outlive the stuck threshold, crashes between push and write, refused recovery, purge during a send |
| Accounts (`lib/auth/*`, `lib/account/deletion.ts`, `lib/admin/member-moderation.ts`) | `users` (status, deletedAt, tokenVersion, passwordHash, PII), JWTs in browsers, `password_reset_tokens`, uploads | sign in, revocation check, forgot, reset, suspend, reinstate, request/cancel erasure, daily materialise and purge | exports (swept by the purge), every table by cascade | reads made ~150 ms (argon2) before the write they justify; a cron writing from an old list; a crash between sweeping uploads and deleting the row |
| Data export (`lib/account/export-archive.ts`, `app/account/data/actions.ts`) | `data_export_jobs`, archives on the volume | request (reap, dedup, cooldown, create), build (mark, stream, flip, prune, catch) | accounts (erasure sweep), notification queue | two stores without a transaction, two tabs, `after()` work that dies with the process, a slow build that is reaped alive |
| Check-in reminders (`lib/checkin/reminders.ts`, `lib/checkin/timezone.ts`) | check-ins, off days, pending reminders | scan: probe zones, read, enqueue; file, declare or withdraw an off day | notification queue, crontab | stale reads, local days and windows, the index that forgets rows once claimed |
| Monthly debrief delivery (`lib/monthly-debrief/batch.ts`, `lib/email/*`) | `monthly_debriefs`, `email_dispatch_claims`, `email_send_counters`, `email_suppressions` | upsert, claim, push, suppression check, reserve, send, confirm or release, stamp | the operator's machine, Resend, notification queue | four stores without a transaction, leases, timeouts whose request goes on |
| Push subscriptions (`lib/push/service.ts`) | devices of a member | subscribe (cap of ten, transfer of an endpoint), unsubscribe, cleanup | dispatcher | a device lost or gained during a fan-out |
| Mail webhook (`app/api/webhooks/resend/route.ts`) | `email_events`, `email_suppressions` | insert the event, then suppress | Resend's retries | the retry after a failure between the two writes |
| Verification of proofs (`lib/verification/batch.ts`, `service.ts`, `app/api/uploads`) | `mt5_account_proofs`, `broker_accounts`, `extracted_positions`, screens on the volume | upload, delete; pull; post: gates, attempts, accounts, positions under an advisory lock, removal of the screen | the operator's machine, reconciliation, notification queue | overlapping posts, a snapshot used by a whole post, two stores without a transaction, answers that never pass |
| Reconciliation (`lib/verification/reconcile.ts`) | `trades.match_status`, `discrepancies`, penalties | read, pair, judge, write verdict by verdict; motives, closures, deletions of trades | trades, proofs, score events | two passes, stale reads, rows that move under a unique index |
| Repetition alerts, gentle reminders (`lib/verification/alerts.ts`) | `alerts`, card deliveries, `gentle_reminder_at` | scan, raise, pick a card, deliver, retry; nudge | reconciliation, trigger engine, notification queue | two scans, a cap per day, an index without a window |
| Constancy score (`lib/verification/constancy.ts`) | score events, `discrepancies`, `constancy_scores` | ritual scan of yesterday, scans of meetings and tracking, weekly fold | check-ins, off days, meetings, tracking | missed and overlapping runs, a week's end between two scans |
| AI pipelines (`lib/weekly-report`, `lib/calendar`, ...) | one row per member and period | pull a snapshot, persist a text by upsert | operator's machine | re-runs, stale snapshots |
| Onboarding, invitations, access requests (`lib/access-request/service.ts`, `app/admin/access-requests`, `app/admin/invite`, `lib/auth/onboarding.ts`) | `access_requests` with a partial unique index on pending rows, `invitations`, `users` | file, approve, refuse, invite, mail, roll back, onboard, purge | accounts (creates them; erasure frees an address), mail | two admins on one request, transactions at READ COMMITTED, a mail that throws after the commit, a link submitted twice |
| Coaching, triggers, sessions, trades | micro-objectives, deliveries, occurrences, pre-trade links | generate, deliver with cooldown, complete, link | notification queue | "one live" rules enforced by read-then-write |
| Rate limiting | token buckets in memory | consume, refill, evict | every public form | numeric edges |
| Scoring, tracking, habits, audit, health, storage, safety filters, UI | per-member records | single upserts, recomputation, pure functions, rendering | | none that outlives one call |

What makes the modelled components correct:

- **Queue**: a row has one dispatcher at a time; a sent or failed row is never
  written again; the status tells the truth about the delivery; the pushes of a
  row are bounded; nothing is pushed at night that may wait, no dated reminder
  after its day; every row is settled in the end.
- **Accounts**: what the revocation check lets through is always current; a
  link rotates one password once; erasure happens only after an unbroken grace,
  is one-way, leaves no credential and no upload without its row, and completes.
- **Exports**: no archive of personal data without a row that names it; the
  member keeps the latest archive; a dead build locks nobody out.
- **Membership**: a request has one link and a link makes one account; a failed
  approval goes back to the queue; a refusal is not taken back; a stranger's
  data leave in the end.
- **Reminders**: no more reminders than scans in the window; members excused
  before their window are left alone; whoever owes a check-in is reminded.
- **Proofs**: what a capture shows is counted once and under the account it
  shows; its screen is kept until it is read and no longer; every capture is
  settled.
- **Reconciliation**: a gap is punished once; no accusation without evidence; no
  closed gap reopened; the tables follow the data.
- **Alerts**: no alert without repetition, no alert marked delivered without a
  card, every gap answered, an open alert retried.
- **Constancy**: nothing done in time is held against the member; nothing owed
  is forgotten; an explanation heals the score.
- **Monthly debrief**: a second mail only where the end of a send is in doubt;
  no false stamp; no send after a confirmation; nobody forgotten.

`PROJECT.json` lists the hazards with the line where each bites and the
properties that would catch it.

## 2. Plan

Written, in this order (most important behaviour first):

1. `NotificationQueue` (+ `MCQueue`, `NotificationQueueProofs`), then the
   abstract `NotificationContract` and `QueueRefinement`.
2. `Accounts` (+ `MCAccounts`, `AccountsProofs`).
3. `ExportJobs` (+ `MCExportJobs`; theorems in `AccountsProofs`).
4. `CheckinReminders` (+ `MCReminders`).
5. `MonthlyDispatch` (+ `MCDispatch`).

6. `Reconciliation` (+ `MCReconciliation`).
7. `RepetitionAlerts` (+ `MCAlerts`; theorems in `ProofAnalysisProofs`).
8. `ConstancyScore` (+ `MCConstancy`).
9. `ProofAnalysis` (+ `MCProofs`).
10. `Membership` (+ `MCMembership`).

Next, extending the model:

11. `MailWebhook`: provider deliveries with retries, `email_events`,
    suppression; it refines the `Suppress` of `MonthlyDispatch`.
12. `PushSubscriptions`: the cap of ten, the transfer of an endpoint between
    members, cleanup; composed with the fan-out of `NotificationQueue`.
13. `MicroObjectives` and `TriggerCooldown`: "one live" rules.
14. `WeeklyReminders`: the weekly and mindset scans, on the pattern of
    `CheckinReminders`; the 24 h cap of fallback mails.
15. `TokenBucket` and `LocalTime`: pure algorithms against reference
    definitions.

Proved, in this order: `NotificationQueue` and its refinement, `Accounts`,
`MonthlyDispatch`, `Membership`, `CheckinReminders`, `ProofAnalysis`,
`Reconciliation`, `ConstancyScore`, `ExportJobs`, `RepetitionAlerts` (section
5). With them every invariant the runs check is a theorem; what stays with TLC
is listed at the end of section 5.

## 3. Modules and code

Every definition that models code is in `PROJECT.json` under `map` with its
lines. Common conventions:

- An action is the code between two awaits whose interleaving can matter. A
  conditional `UPDATE` is one action with its predicate; a read followed by a
  write is two.
- Time is counted in ticks and kept relative to now (what is left of a delay,
  the age of a row), so that clocks never run out. `CheckinReminders`,
  `RepetitionAlerts` and `ConstancyScore`, which are about dates, count the
  ticks or days up to a bound instead.
- Crashes, throwing calls and refused removals take from one budget,
  `MaxFaults` (`MaxExportFaults` in `ExportJobs`); changes the environment makes
  of its own accord from `MaxChurn`. Both bounds are in the guards.
- Variables named in the last lines of a VARIABLES list (`fanouts`,
  `deliveries`, `rotations`, `refused`, `excused`, `spared`, `dueScans`,
  `mailed`, ...) are ghosts that count what happened; no guard of the program reads them.
- Definitions introduced by a comment "Mutant" are plausible mistakes used to
  show that a property can fail; no action uses them.

### NotificationQueue

`status`, `attempts`, `wait` (next_attempt_at), `age` (updated_at) are the
columns; `run[c]` is a `dispatchAllReady`, `job[c][id]` a `dispatchOne`.

| Action | Code |
| --- | --- |
| `Enqueue` | the helpers of `enqueue.ts`; a pending twin raises P2002, which is folded into a no-op |
| `Recover` | the stuck-row `UPDATE`; one statement, so one violation of a partial unique index refuses all of it, and the run ends there |
| `List`, `NextChunk`, `EndRun` | the listing (oldest first, `maxPerRun`) and `Promise.allSettled` over chunks of `CONCURRENCY` |
| `Claim` | `updateMany` where pending and due, `attempts + 1` |
| `Gate` | the early returns after the re-read: unknown type, preference off, quiet hours (exempt, expire, defer) |
| `SendNowhere`, `FanOut` | no subscription; one answer per device, any order, aggregate kind and Retry-After taken as the code takes them, dead endpoints dropped |
| `Write` | the verdict, by id: sent, failed, or pending again with a delay; a hold gives the attempt back |
| `Fallback` | the fallback mail of a row that failed for good |
| `JobThrows`, `Crash` | a rejected database call, the process replaced |
| `TogglePreference`, `ToggleDevice`, `PurgeUser`, `Tick` | the environment |

Left out: payloads, deep links, urgency and TTL of a push, the 24 h cap on
fallback mails, audit rows. The webhook of a push service is folded into the
outcomes of `FanOut`.

`NotificationContract` is what the queue promises about a row: queued, in
flight, handed over, adrift, sent, failed, gone. `QueueRefinement` maps the
detailed state on it (`PhaseOf`).

### Accounts

`LoginRead`/`LoginMint` are `authorizeCredentials` before and after argon2;
`Accepted` is the revocation check; `ForgotDelete`/`ForgotCreate`/`ForgotEmail`
the deferred forgot-password task, whose transaction is READ COMMITTED: its
DELETE sees the rows committed when it runs (`victims`). `ResetLookup` and
`ResetCommit` are the two halves of `completePasswordReset` around argon2.
`Suspend`, `Reinstate`, `RequestDeletion`, `CancelDeletion` are single
statements. The daily cron is `CronStart` (takes its `now`, lists),
`Materialise` per account with the predicate asserted again in the write,
`ListStale`, then `Sweep` and `DeleteRow` per account, `AccountThrows`,
`CronEnd`. `cronAge` keeps the run's `now` apart from the present.

Left out: rate limits, audit rows, the wording of mails, the takedown of an
avatar. Constant-time behaviour is not modelled.

### Membership

`Lookup`/`Insert` are `createAccessRequest`; `ApproveBegin`, `RejectBegin`,
`InviteBegin` the reads of a transaction up to the `UPDATE` that retires unused
invitations (`victims`: the rows committed by then), `ApproveCommit`,
`RejectCommit`, `InviteCommit` its end, where an approval asserts "pending"
again and a refusal does not. `MailTaken`, `MailSkipped`, `MailThrows` are the
outcomes of `sendEmail`, which skips a suppressed address or a spent budget
without an error, and whose timeout may deliver all the same. `Undo` is
`rollbackApproval`, or the delete of an invitation; the index on pending rows
may refuse the first one whole. `Peek`, `Recheck`, `Create` are
`completeOnboarding`. `Purge` is the weekly cron, `Erase` stands for the erasure
in `Accounts`.

Left out: the notice to the admin, the rate limit of the public form, the
sign-in after onboarding, audit rows. One address is followed.

### ExportJobs

`RequestReap`, `ReapFlip`, `ReapReclaim`, `ReapDone`, `Dedup`, `CoolDown`,
`Create` are the awaits of `requestDataExportAction`; `BuildMark`, `BuildOpen`,
`BuildFlush`, `BuildFlip`, `PruneList`, `PruneRemove`, `PruneDelete` those of
`runDataExportJob`, `BuildClean` and `BuildFail` its catch. `Remove` is
`removeExportZip`, which may be refused. `Erase` is the purge of the account,
which comes thirty days after the last request and is therefore one step here
(its own steps are in `Accounts`).

### CheckinReminders

`ScanStart` takes the scan's `now` and probes one instant per zone of the
cohort; `ScanCheckins` and `ScanOffDays` are the two reads; `Enqueue`, `LookUp`
one insert and what follows its P2002; `Claim`, `Settle`, `PutBack` the
dispatcher of `NotificationQueue` reduced to what a dated reminder can tell
apart. `LocalDate` and `LocalTime` shift the server's time by the zone.

### MonthlyDispatch

`Start`, `Upsert`, `SkipEntry`, `EndRun` are `persistGeneratedReports`; `Claim`
is the single INSERT ... ON CONFLICT of `claimEmailDispatchOn`, which keeps the
row's id when it takes an expired lease over; `Enqueue` the push row; `Check`,
`Reserve`, `Send` are `sendEmail`, whose first two stores fail open;
`MarkDelivered` and `Release` settle the claim, `Stamp` writes the row.
`Arrive` is a request that goes on after its timeout. Row ids are drawn from a
pool large enough to tell any two live ids apart.

Left out: the text of the debrief and its gates (an entry may be skipped), a
member suspended after the batch has read the active members.

### ProofAnalysis

`Store`, `CreateProof`, `CreateFails` are the two stores of an upload,
`DeleteRow` and `DeleteScreen` those of a deletion. `Pull` lists what is
pending; `Post` takes the snapshot of rows and members that the whole post works
from. Per entry: `Skip` (a failed reading, an unsafe text, a row or member that
is not there, nothing left to say), `Unreadable` (not a history, no account
number), `Invalid`, `LogInvalid`, `GiveUp` (the count of attempts, the log, the
verdict once they are used up), `Extraction`. An extraction resolves its account
in `ReadDeclared`, `Backfill`, `CreateAccount`, each an await, with the unique
index on the login in `Assign`; `Lookup` and `Insert` are the transaction, held
apart from another one of the same capture by the advisory lock (`LockFree`).
`Purge` removes the screen and stamps the row: one step, since the stamp only
saves a removal that would find nothing. `Fail` writes by the row's id: on a row
the member deleted it throws, which ends the post.

Left out: the count of the member's accounts and the push of the verdicts
(nothing here reads them), the texts, a second upload of the same bytes while
the first is in flight (its row is refused as in `CreateFails`).

### Reconciliation

A pass is `ReadTrades`, `ReadPositions` (one `Promise.all`, either order),
`ReadGaps`, then per verdict `Rewrite` (the trade), `Write`/`Insert` (the gap
and its penalty) and the retractions, in the order of the loop. `Verdicts` is
the pure part: the two greedy pairings (`Strict`, `Paired`: a match wins its
rows unless a better one that clashes with it has won) and the coverage windows
(`Confronted`). It is looked up in `Table`, so that TLC computes each
case once. The unique index is `Refuses`, the foreign key
with SET NULL is `Orphan`: deleting a trade moves its gaps to another key, and
the database may refuse that. The tolerance, the margin and the cluster gap are
the code's, in hours.

### RepetitionAlerts

A scan takes its `now` and reads gaps and alerts (`ReadAlerts`), then per rule
`Raise` (or an open alert met again), `Pick` (the cap of one alert card a day,
then the best card), `Deliver` or `DeliverFails`, `Mark`. The cron goes on with
the nudges: `ReadFresh`, `CountAll`, `Nudge`, `NudgeFails`. `Routine` is the
trigger engine, which yields to any card of the day. Settled gaps and midnight
come in between.

### ConstancyScore

A run is the ritual scan of yesterday (the gap of a blank day, then its events),
the scan of meetings, the scan of tracking, the fold of the current week, its
upsert; errors that a scan catches and errors that end the run are apart
(`Abort`). The member files, also late, declares and cancels off days, attends,
snoozes, explains; days pass with or without a run. `score` keeps what was
folded rather than its weights.

## 4. Runs

Each run finishes within about three minutes on two workers. `CHECK_DEADLOCK
FALSE` is given for `CheckinReminders`, whose clock stops at `Horizon`, and for
`ProofAnalysis`, where nothing is left to do once every capture is settled, and
for `Membership`, where an address may be done with its requests and links.

| Run | What it shows | Bounds, and why they are enough |
| --- | --- | --- |
| `queue_timely` | one owner at a time, bounded pushes, truthful status; the queue implements `NotificationContract`, in which final states are final | two overlapping runs on one row with one crash and one purge or change: the races are between two claims, or a claim and a recovery, of the same row; a threshold of two ticks leaves room for a job that ages |
| `queue_prompt` | no push at night; no dated reminder after its day; every row settles, but for a recovery that a pending twin refuses | two rows, one type that waits for the morning and one that does not, one row per run so that rows compete; a retry can be as long as two ticks; the night takes six ticks of eight with midnight one tick in: long enough that two retries, a crash and a recovery do not carry a row through it, as ten hours are against the real delays |
| `accounts` | what the revocation check lets through is current; a link rotates one password once; an erased account has no credential; uploads go before their row; grace is honoured, an erasure completes unless a suspension holds it | one member with two sign-ins, a forgotten password and two submissions of its link, one suspension or reinstatement, an erasure, the daily cron, one fault: every hazard is one stale read against one write, and all of them meet here |
| `membership` | a request has one unused link at most, a link makes one account, an approval without its mail is back in the queue, a refusal is not taken back | two admins, two tabs, a requester who files again, two requests and two invitations, one fault, one erasure: a race is between two decisions on one request, or between a rollback and a second request; the erasure lets a used link be tried on a free address |
| `export_one_tab` | ready is downloadable, no archive without its row, a dead build locks nobody out | four jobs and three faults: enough for a crash, a reap, a rebuild and a refused prune |
| `reminders_races` | no more reminders than scans; excused members left alone; whoever owes is reminded if cron and dispatcher keep up and nothing fails | two scans, zones one tick on either side of the server's (so that another date is in play from the second tick), a clock that runs past both windows of one zone and the morning of all, one fault, two changes |
| `dispatch_once` | no duplicate without doubt, true stamps, nobody forgotten | two batches on one member, two faults, a budget of one mail a day that another mail may take: a duplicate takes one fault, a failed confirmation or release on top of it a second |
| `reconcile_races` | a gap is punished once, nobody accused without evidence, nothing closed is reopened, the daily pass converges | two passes, two trades, two positions that dispute one trade with different sizes while the other trade lies in the window of one of them: every kind of verdict occurs and changes; one incident (a deletion, a motive, a closure, a pass cut off), which suffices for each race of one pass against it |
| `alerts_daily` | no false "delivered", every gap answered, an open alert delivered while in the window: if another rule has the slot of the day, on a later day | two rules that share a category of two cards, a threshold of two gaps, a window of two days. Two members (`DailyInit`, `DailyBounds`), one motive each at most: one gets up to two gaps over the last two days, with a batch beside the cron and a fault at any moment, for the races; the other begins with two gaps of each rule, has three days and a fault or a motive but no batch: both rules are raised on the first day, one takes its slot, the second is delivered on the next, or the window passes. The mutant, by which an alert card of the day before takes the slot too, fails on such a later day only |
| `constancy_week` | nothing done in time held against the member, gaps in the score of their day, nothing owed forgotten, an explanation heals the score | weeks of three days of which two are the week's end, four days, so that a week ends inside; one meeting, one instrument, two slots; two moves of the member, one day without a run, one error |
| `proofs_races` | what captures show is counted once and under the right account, screens go with verdicts, every capture is settled | two captures of one account, the first attached to a declared row and with a position without a ticket beside one both show; two batches at once, one mishap anywhere; only the first capture's answers may fail their schema, two attempts instead of three |

A run that shows a disagreement between the code and what it says of itself (it
checks one property, quoted from a comment, and TLC refutes it):

| Run | What the code does |
| --- | --- |
| `queue_wedged` | two dated reminders, one stuck and one pending: the recovery UPDATE is refused in every run and the dispatcher stops for everybody |

Configurations that reproduce disagreements of the same sort; run them
with the MC module named:

| Configuration (module) | Property | What the code does |
| --- | --- | --- |
| `ConstancySunday.cfg` (`MCConstancy`) | `EveryDayCounts`, "Anchoring `createdAt` to `yesterdayDate` keeps every ritual event in the week it belongs to" (`lib/verification/constancy.ts:241-242`) | the events of a week's last day are written on the next day, when the fold is at the next week (`constancy.ts:822`): they are in no score |
| `MembershipRejected.cfg` (`MCMembership`) | `RejectedOpensNothing`, "Terminal, no account is ever created" (`lib/access-request/service.ts:338`) | a refusal that has read "pending" commits by id after an approval: the request says rejected, its link is in the mail and works |
| `MembershipCapped.cfg` (`MCMembership`) | `ApprovedIsInvited`, "Delivery is NOT best-effort here" (`lib/email/send.ts:166`) | an address on the suppression list or a spent budget is no error of `sendEmail` (`lib/email/client.ts:119, 136`): the admin reads "email envoyé", nothing is rolled back, the requester has no link and is in no queue |
| `ExportMutualPrune.cfg` (`MCExportJobs`) | `KeepsTheLatest`, two tabs | each build prunes the other's archive, none is left (`app/account/data/actions.ts:52` reads, then creates) |
| `RemindersRepeat.cfg` (`MCReminders`) | `OneReminderPerSlotPerDay`, "exactly one reminder per slot per day" (`apps/web/src/app/api/cron/checkin-reminders/route.ts:19`) | a second reminder of the same slot and day in the next scan |
| `DispatchLostStamp.cfg` (`MCDispatch`) | `OverdueHeals`, "self-heal convergent" (`lib/monthly-debrief/overdue.ts:122`) | a lost stamp is never written by a later batch: the member stays overdue |
| `AlertsSilenced.cfg` (`MCAlerts`) | `OpenAlertIsRetried`, "RETRIED at each daily scan instead of silently staying `open` forever" (`lib/verification/alerts.ts:210-213`) | once an open alert is older than the window no scan reads it, the unique index refuses another, nothing ever dismisses it: the pattern is never answered again |
| `ReconcileDeletion.cfg` (`MCReconciliation`) | `DeletionGoesThrough`, "a member's images must not survive their trade" (`lib/trades/service.ts:481`) | SET NULL moves two gaps to one key: the second of two such trades cannot be deleted |
| `ConstancyRerun.cfg` (`MCConstancy`) | `OneVerdictPerSlot`, "un re-run du cron n'émet jamais deux fois" (`lib/verification/constancy.ts:44`) | a re-run after a late check-in writes a second, contrary event for the slot |
| `ProofsFlipped.cfg` (`MCProofs`) | `DoneStaysDone`, "a stale/contradictory second batch must never flip an already-analysed (`done`) proof back to `failed` while its positions remain" (`lib/verification/batch.ts:510-512`) | the guard reads the snapshot of the post and the write is by id: of two overlapping posts the later one fails a capture the first has just analysed |
| `QueueBudget.cfg` (`MCQueue`) | `ThreeAttemptsMax`, "3 attempts max" (`lib/push/dispatcher.ts:36`) | a row whose third attempt was lost in a crash is claimed a fourth time |
| `AccountsSuspendedErasure.cfg` (`MCAccounts`) | `ElapsedGraceErases`, "every scheduled deletion whose grace window has elapsed becomes a true soft-delete" (`lib/account/deletion.ts:215`) | a member suspended during the grace is never erased |
| `RemindersFarZone.cfg` (`MCReminders`) | `ReminderGetsThrough`, "an exact DST-proof SUPERSET of the member windows" (`ops/cron/crontab.fxmily:59`) | a member far from Paris is due at hours the crontab never fires |

Configurations that hold and widen a run:
`MembershipTypes` (`TypeOK` and, under the fairness of the purge,
`PersonalDataLeaves`, with one admin and two visitors), `ExportTwoTabs` (`ExportTypeOK`,
and no archive without its row, with two tabs and builds that outlive the
threshold), `AlertsTypes` (`AlertTypeOK` and `RepetitionOnly`: no alert without
repetition).

Smaller observations, from reading the code against the models:

- A `mismatch` verdict does not retract an earlier `false_declared` or
  `missing_declared` of the same rows; a pass with stale reads may resolve a
  gap that the data now support, and since a resolved gap still occupies its key
  it is not raised again.
- The cap of one alert card a day is a read followed by a write.
- A motive given after the last run of a week never reaches that week's score; a
  check-in filed late never clears the forgotten slot; the ritual scan looks
  only at yesterday, so that a day without a run has no events.
- `detectedAccountCount` "never decreases on its own" (`lib/verification/
  batch.ts:1015-1017`): it is counted, then written, so overlapping posts may
  write the older count last.
- A position without a ticket that two captures of one account show is inserted
  twice by overlapping posts, as the lock is keyed on the capture.
- A screen whose removal failed is not "swept the next time the proof is
  (re)touched" when the capture is done: a done capture is skipped before its
  purge.
- A capture the member deletes while a post is about to fail it ends the whole
  post: the remaining entries, the alert scan and the verdict push.
- Captures whose text trips the crisis or AMF filter stay pending without a cap
  on attempts.
- The webhook of the mail provider inserts the event before the suppression: if
  the second write fails, the retry is acknowledged as a duplicate
  (`app/api/webhooks/resend/route.ts:228`).
- An invitation and an approval under READ COMMITTED may leave two live links
  of one address ("only one token is ever active per email at a time",
  `app/admin/invite/actions.ts:60`); the unique index on the address still allows
  one account. "The token is read inside a serialisable transaction"
  (`lib/auth/onboarding.ts:19`), but no isolation level is set.
- If the requester files again between an approval and the failure of its mail,
  the rollback is refused whole: the request stays approved and its unmailed
  invitation stays live; the second request stands in the queue.
- "The invitation has its own TTL + purge path" (`prisma/schema.prisma:2989`): no
  statement deletes invitations but these rollbacks, so the addresses stay, also
  after the erasure of the account.
- Two concurrent forgot-password requests leave two live tokens ("at most one
  row ever exists per user", `lib/auth/password-reset.ts:27`).
- A second mail of the debrief needs no death of the process
  (`lib/email/dispatch-claim.ts:54`): a confirmation that fails suffices.
- Two captures of different accounts attached to one declared row: overlapping
  posts write its login one over the other, and positions stand under the wrong
  account; the run has one account.
- The reminder scan counts an error, "genuinely FAILED"
  (`lib/checkin/reminders.ts:59`), when the twin that refused an insert has been
  claimed before it is looked up.

### Fairness

- `NotificationQueue`: the cron keeps firing (`WF Recover`), runs and jobs in
  progress go on, time passes. Nothing is assumed of members, providers or
  faults. With `Pace = "prompt"` a run ends within a tick: the comment on
  `CONCURRENCY` bounds a run to 125 s, about the two minutes between two cron runs
  and short against a tick, as eight ticks make a day there.
- `Accounts`: the daily purge cron fires and finishes a step at a time, time
  passes. Nothing is assumed of members.
- `Membership` (in `MembershipTypes`): the weekly purge fires and days pass;
  nothing is assumed of visitors and admins.
- `Reconciliation`: the cron's pass comes back and goes on (`WF Advance(Daily)`);
  passes behind a batch may never run.
- `RepetitionAlerts`, `ConstancyScore`: the daily cron comes back and goes on
  (`WF CronStep`, `WF RunStep`); no day has to pass, nothing is assumed of
  members.
- `ProofAnalysis`: the worker comes back as long as captures are pending and a
  batch begun goes on (`WF Pull`, `WF BatchStep`); mishaps are bounded, answers
  that fail their schema are not.
- `ExportJobs`: the member keeps asking (the property is about a member who
  does), started requests and builds go on.
- `MonthlyDispatch`: the operator answers the daily overdue alert with a batch,
  as `lib/monthly-debrief/overdue.ts` expects; runs go on, time passes. Late
  requests need not arrive.

### Timing assumptions

`TimeMayPass` in each module says how slow the code may be. `queue_timely`, the
proofs about it and `MonthlyDispatch` assume that no job holds a row, or a claim,
past the threshold after which others take it over: a job is bounded by the push
timeout and a send by `SEND_TIMEOUT_MS` (10 s), against ten and thirty minutes.
`export_one_tab` assumes it of builds (`Timely`): seconds to a couple of minutes
against fifteen (`lib/account/export-archive.ts:50-58`). The configuration
`ExportTwoTabs` drops the assumption; so do `TypeCorrect`, `AttemptsAreCovered`
and `ArchivesAreFound`, which are proved at any pace (`Pace = "overrun"` lets two
jobs share a row). `ReminderGetsThrough` is about behaviours in which cron and
dispatcher have kept up so far, which the ghost `lagged` records.

## 5. Proofs

Eight modules (`<module>Proofs`) hold the theorems of the ten components.
`AccountsProofs` has a second part about `ExportJobs`, the archives an account
leaves behind, and `ProofAnalysisProofs` one about `RepetitionAlerts`, the alerts
a batch raises when it has read a proof. Such a module extends both components,
which is why these two have names of their own for what every component has
(`ExportSpec`, `ExportTypeOK`, `AlertSpec`, `AlertTypeOK`, ...); no theorem relates
the variables of one component to the other's. Every theorem is
checked from nothing by `tlapm`, down to the last leaf. What they take for granted are the
named ASSUMEs of the modules (bounds are naturals, thresholds and delays
positive, the sets of runs, scans and visits finite, names of different things
different) and, where a theorem says so, a hypothesis of its own:

| Hypothesis | Of | Where it comes from |
| --- | --- | --- |
| `Pace # "overrun"`, `Pace = "prompt"` | `OwnerIsExclusive` and what builds on it; `NightIsQuiet` | section "Timing assumptions"; a constant, so the theorems say what holds at each pace |
| `Timely`, `OneTab` | `ReadyCanBeDownloaded`, `OneTabKeepsTheLatest` | no build outlives the stale threshold (section "Timing assumptions"), and the member asks from one tab at a time, as in `export_one_tab`; `ExportMutualPrune` and `ExportTwoTabs` show two tabs. `ArchivesAreFound` needs neither |
| `Covered`: in every zone and slot the crontab fires in a tick of the window that is not quiet | `GetsThrough` | true of members near Paris (`ops/cron/crontab.fxmily:69`), as in `reminders_races`; `RemindersFarZone` shows what happens elsewhere |
| `AttachmentsAgree`: captures attached to one declared account show one login | `UnderTheirLogin` | what attaching means; the observation in section 4 on two accounts under one row is the case it excludes |
| `LookbackCovers`: the cron misses fewer days than the scans look back | `NothingForgotten`, `SameDayScore` | `MEETING_MISS_SCAN_LOOKBACK_DAYS = 2` against "a single missed cron run" (`lib/verification/constancy.ts:293-298`) |
| `OneRun`: runs of the scan do not overlap | `SameDayScore` | the crontab fires it once a day and `fxmily-cron` never fires it again (`--retry 0`), though nothing locks out a run started by hand; with two runs the property fails: the run that folded first may write last |

Before its proof each inductive invariant was given to TLC as an invariant of the
run it belongs to.

**NotificationQueue.**

- `TypeCorrect`: `TypeOK`, one lemma per group of actions.
- `OwnerIsExclusive`: `ExclusiveOwner` is not inductive: a second claim is
  impossible only because the row of an owner says dispatching, and a recovery
  only because its age is at most the threshold. The invariant `OwnerInv` adds
  that a run with jobs at work is in its work phase (`RunsHoldTheirJobs`), so
  that a new chunk never overwrites a job, and that an owner's row is no older
  than the threshold (`LeaseHeld`), which `Tick` preserves because of the pace.
- `SettledIsFinal`: an action property from the same invariant: only an owner
  writes a verdict, and an owner's row is not settled.
- `AttemptsAreCovered`: holds at any pace, also when two jobs that outlived the
  threshold share a row, which `queue_timely` does not reach. The number of
  owners of a row is at most its counter; each step changes the set of owners by
  one element at most (cardinality lemmas), and the counter with it.
- `BudgetIsKept` (`RetryBudget`), `DeliveriesAreAccounted`
  (`DeliveryAccounting`): from `BudgetInv`, which keeps two accounts of a row
  side by side: what its columns say (attempts against fan-outs and recoveries,
  per status) and what its owner knows between its claim and its write
  (`OwnerBudget`: not sent yet, or sent with this verdict). A held row gives its
  attempt back, so attempts and fan-outs agree only up to the recoveries; that
  is why the budget is `MAX_ATTEMPTS` plus one per recovery, and no less.
- `QueueKeepsContract` (`KeepsContract`): the refinement. `InitRefines` maps the
  initial states; then one step per action shows the contract's step of the one
  row it moves, or a stutter, from `OwnerInv`, `BudgetInv` and `MailInv` (who is
  gone has no devices; a row that failed is mailed by one job).
- `NightIsQuiet`: the half of `PushedInTime` about the quiet hours, when runs
  keep up with the clock: an owner about to push has passed the gate in this
  very tick. The other half, about the day of a dated reminder, depends on how
  delays, night and midnight lie to each other in the instance, and stays with
  TLC.

**Accounts.**

- `TypeCorrect`: `TypeOK`; the clock's lower end uses `Floor`.
- `SessionsAreCurrent` (`AcceptedIsCurrent`): inductive together with the
  fact that every session *and every sign-in between its read and its mint* is
  no newer than the account's version, and current if it has the same version
  (`Fresh`). It is the in-flight sign-ins that make the property hard.
- `ErasureLeavesNoCredential`, `GraceIsHonoured`, `ErasureIsOneWay`,
  `SweepBeforeDelete`: from `ErasureInv`, which relates the status of an account
  to its date and credential, and the cron's lists to the accounts on them: an
  account on the purge list is erased and past retention, and what is marked
  swept has no upload but refused ones.
- `LinkRotatesOnce`: from `TokensInv`: a token that is live, or none, has
  rotated nothing; one that has is used or gone, and neither comes back.

**ExportJobs** (`ArchiveInv`, `DownloadInv`).

- `ArchivesAreFound` (`EveryArchiveHasItsRow`): for any tabs and any pace. A
  build that may still write has a row that no prune lists, since prunes list
  rows that are ready and its own is running, or failed under it by the reap
  (`RowsOfBuilds`); what a prune is about to drop has no archive, and nobody
  writes one for a row that is ready (`PruneSettled`); when the account goes,
  nothing is at work for it (`Gone`).
- `ReadyCanBeDownloaded` (`ReadyIsDownloadable`): a reap removes the file of a
  job it has just flipped, which must not turn ready after that. One tab and
  timely builds give it: jobs are made one after the other (`InOrder`,
  `OneBuild`), the reap looks only for jobs older than any build at work
  (`ReapsTheOld`, `YoungBuilds`), and what a build has written is what its row
  says (`BuildsAtWork`).
- `OneTabKeepsTheLatest` (`KeepsTheLatest`): the job that prunes is ready and
  none of those it removes. It is the property that two tabs break (section 4).

**MonthlyDispatch** (`DispatchInv`; TLC: 174,899 states of `dispatch_once`).

- `NoDuplicate` (`NoDuplicateWithoutDoubt`): the count of mails that are out
  beyond the sends in doubt is at most one (`OneCertainMail`), and when it is
  one, then the claim is confirmed, or the one batch that saw the provider take
  the mail is about to confirm it, or the member is gone. That needs that one
  batch at a time holds the claim (`OneHolder`) and that the claim it holds is
  still the row's (`HoldersOwn`: same id, not confirmed, lease not run out).
- `StampTruth` (`StampIsTrue`): what a batch remembers of its mail is so
  (`MailIsTrue`), on top of the same.
- `ConfirmedFinal` (`ConfirmedIsFinal`): an action property: a confirmation and
  a request that leaves exclude each other by `HoldersOwn`.

**Membership** (`MembershipInv`; TLC: 1,482,189 states).

- `OneLink` (`OneLinkPerRequest`): a request in the queue has no unused link and
  an approved one is in one hand at most (`OneHand`); the links that two
  transactions are about to insert differ (`LinksInHand`).
- `LinkOnce` (`LinkOpensOnce`): a tab between its check and its insert holds a
  link that has opened nothing if the address is free (`SpentLinks`); it is the
  unique index on the address that stops the second tab.
- `ApprovalReaches` (`ApprovalReachesSomeone`): `InHandOrReached`.
- `RejectionFinal` (`RejectionIsTerminal`): an action property.

**CheckinReminders** (`RemindersInv`, `ThroughInv`).

- `BoundedByScans` (`RemindersBoundedByScans`): rows sent, in flight and pending
  are rows inserted, and rows inserted plus the scans that may still insert one
  are scans that found the slot due: two inequalities over cardinalities.
- `LeftAlone` (`ExcusedAreLeftAlone`): what was filed before its window is filed
  in every scan that has read the check-ins and in no list.
- `GetsThrough` (`ReminderGetsThrough`): an argument about time, put as an
  invariant: for an owed slot every good tick behind the clock has reminded
  (`GoodTicksRemind`), and in the present one, once a scan has started, a scan
  or the queue has it in hand (`UnderWay`). `Covered` then gives a good tick in
  the window that has just closed.
- The attempt to prove `LeftAlone` showed that the property was false with three
  changes of the environment instead of the two of the run: one ghost stood for
  both reasons, so that a slot off before its window, filed inside it and no
  longer off counted as excused although a scan may read in between. `excused`
  and `spared` now keep the reasons apart.

**ProofAnalysis** (`CountInv`, `LoginInv`, `ScreenInv`).

- `CountedOnce` (`RealityCountedOnce`): the advisory lock of a capture has one
  holder, and what is on record of its capture its holder has seen
  (`HolderHasSeen`); tickets are kept apart by the unique index.
- `UnderTheirLogin` (`PositionsUnderTheirLogin`): a row only ever gets the login
  it was meant for (`LoginsAsMeant`), and a post past the resolution holds a row
  of its capture's login (`RowsLookedUp`), whichever post made it.
- `ScreenFollows` (`ScreenFollowsVerdict`): the snapshot a post works from may be
  old, but what it says of a removed screen stays true (`EntriesKnown`), and a
  purge is about a settled capture (`PurgesSettled`).

**Reconciliation** (`PassInv`, `PenaltyInv`, `AccusedInv`; TLC: 960,381 states of
`reconcile_races`).

- `NobodyAccusedBlindly` (`AccusedOnEvidence`): coverage as the code computes it
  from clusters implies evidence position by position (`CoveredIsEvidence`,
  which takes the first position of a cluster by well-founded minimum); a pass
  may have read long ago, but positions only get more and closed trades do not
  open again, so what it carries is still justified when it writes (`PassesOK`).
- `PunishedOnce` (`ChargedOnce`): a key that was charged has its row, or its
  trade is deleted, and then the foreign key refuses a new row (`PenaltiesOK`).
- `ClosedForGood` (`ResolvedStaysResolved`): an action property; `GapsMove` lists
  what the actions may do to the table of gaps.

**ConstancyScore** (`AccusationInv`, `RecordInv`, `SameDayInv`; TLC: 551,476
states of `constancy_week`; the first two also with overlapping runs, 904,653).

- `NothingUnjust` (`NoUnjustAccusation`): a run that has read a slot as missing
  is about a day that is over, so that no later filing is in time
  (`MissingIsLate`); gaps of dues are written only when it is too late to do them
  (`GapsAreLate`). Any number of overlapping runs.
- `NothingForgotten` (`MissIsRecorded`): a due that is owed without a gap has
  seen one outage for each day since it is judged (`OneOutageADay`); since the
  lookback is longer than the outages, a run of today that is through without
  error found it (`ScansRecord`).
- `SameDayScore` (`GapsCountTheSameDay`): from `RecordInv` and the fact that what
  is folded counts the gaps of its day (`FoldCounts`), which nothing adds to
  after the scans, as they ran without error and found everything.

**RepetitionAlerts** (`AlertInv`, `OnlyRepeated`; TLC: 416,146 states of
`AlertsTypes`).

- `DeliveredAlertsHaveACard` (`DeliveredMeansCard`): an alert is marked only by a
  scan that knows a delivery of its day (`ScanCards`); a scan spans one midnight
  at most and no alert is of a day to come (`ScanDays`), whence the one day of
  tolerance in the property, which the invariant shows to be needed: another
  scan may raise the alert after midnight, this one delivers under its own date.
  That what is chosen is a card of the rule takes the least of a set of
  positions, by well-founded minimum (`ChoiceIsACard`).
- `NoAlertWithoutAPattern` (`RepetitionOnly`, also in `AlertsTypes`): the count an
  alert is raised from may be old when the row is written, and its gaps settled
  since; but a gap on record keeps its rule and its day (`GapsStand`), so that
  the pattern has repeated within a window (`RepeatsStand`), and a scan only ever
  has rules before it for which that was so (`OnlyRepeated`).
- The type invariant is not inductive alone: `Mark` updates the alert of the
  rule in hand, which is an alert because no step takes one away
  (`ScanRows`, `AlertsStand`). `Proceeds` says once how a scan gets on in any
  step, and each of the invariants uses it.

Each component's type invariant is proved too (`TypeCorrect`, `ExportTypeCorrect`,
`AlertsTypeCorrect`); the runs do not repeat it.

Only model-checked:

- every liveness property, and ENABLED in the fairness conditions: out of
  the prover's reach;
- the second half of `PushedInTime`: whether a dated reminder that failed in the
  evening is met again before midnight depends on how backoff, threshold, batch
  size and night lie to each other, and on no other member's rows wedging the
  recovery meanwhile;
- what the greedy pairing computes: the proofs use what it can return
  (`PairedIsCandidate`), not its order, since that takes an induction over the
  candidates;

## 6. Not modelled

- Taking back the cancellation of a meeting and shortening a pause of tracking,
  in `ConstancyScore`; removal of a broker account, which the code does not have.
- Scoring, tracking, habits, training, reviews, leaderboard: each call reads and
  writes one member's record by one upsert; nothing is in flight between calls.
- Safety filters, templates, rendering: pure functions over text.
- Storage drivers, backups, host scripts: I/O. What the models need of a
  storage delete is that it may be refused.
- Health and observability: read-only.
- The members' machines and the external AI: their texts are inputs.

The components the plan still has are listed in section 2.

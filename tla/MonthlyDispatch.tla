--------------------------- MODULE MonthlyDispatch ---------------------------
(***************************************************************************)
(* The delivery of the monthly debrief: the operator's machine posts a     *)
(* batch, persistGeneratedReports (lib/monthly-debrief/batch.ts) upserts   *)
(* one row per member and mails the member once, under a leased claim      *)
(* (lib/email/dispatch-claim-core.ts) taken before the send and confirmed  *)
(* or released after it.                                                   *)
(*                                                                         *)
(* The claim, the counter of the day, the provider and the row are four    *)
(* stores without a common transaction: the process may die, a call may    *)
(* fail and another batch may run between any two of the steps below.      *)
(***************************************************************************)
EXTENDS Integers, FiniteSets

CONSTANTS
    Members,    \* the recipients of the month's debriefs
    Runs,       \* batches that may be posted at the same time
    Lease,      \* DISPATCH_CLAIM_STALE_AFTER_MS, in ticks
    DayLength,  \* ticks in a day
    Cap,        \* RESEND_DAILY_CAP
    MaxFaults,  \* bound: crashes, failed calls, refused texts, lost requests
    MaxChurn    \* bound: purges, suppressions, other mails of the application

ASSUME DispatchAssumption ==
    /\ Members # {} /\ IsFiniteSet(Runs)
    /\ Lease \in Nat \ {0} /\ DayLength \in Nat \ {0} /\ Cap \in Nat \ {0}
    /\ MaxFaults \in Nat /\ MaxChurn \in Nat

VARIABLES
    members,    \* accounts that still exist
    stamp,      \* stamp[m]: sentToMemberAt and sentToMemberEmail of the row
    claim,      \* claim[m]: the row of email_dispatch_claims
    work,       \* work[r]: the persistGeneratedReports of run r
    queued,     \* members with a push row
    suppressed, \* addresses on the suppression list
    used,       \* today's count in email_send_counters
    hour,       \* ticks since midnight
    mailed,     \* mailed[m]: debrief mails the provider has taken
    adrift,     \* adrift[m]: requests still on their way after a timeout or a death
    cut,        \* cut[m]: sends the process did not live, or wait, to see the end of
    unmarked,   \* unmarked[m]: confirmations that failed after a delivered send
    faults,
    churn

store == <<members, stamp, claim, queued, suppressed, used>>
ghosts == <<mailed, adrift, cut, unmarked>>
vars == <<store, work, hour, ghosts, faults, churn>>

\* Row ids of claims, 0 for no row: a batch at work holds one at most, so that
\* this many tell any two apart.
ClaimIds == 0..(Cardinality(Runs) + 1)

NoClaim == [id |-> 0, delivered |-> FALSE, age |-> 0]

\* m: the entry being handled; id: its claim; mail: how the send ended.
NoWork == [pc |-> "idle", todo |-> {}, m |-> CHOOSE m \in Members : TRUE,
           id |-> 0, mail |-> "none"]

Init ==
    /\ members = Members
    /\ stamp = [m \in Members |-> "none"]
    /\ claim = [m \in Members |-> NoClaim]
    /\ work = [r \in Runs |-> NoWork]
    /\ queued = {}
    /\ suppressed = {}
    /\ used = 0
    /\ hour = 0
    /\ mailed = [m \in Members |-> 0]
    /\ adrift = [m \in Members |-> 0]
    /\ cut = [m \in Members |-> 0]
    /\ unmarked = [m \in Members |-> 0]
    /\ faults = 0
    /\ churn = 0

\* One more fault happens here.
Fails == faults < MaxFaults /\ faults' = faults + 1

At(r, pc) == work[r].pc = pc

Goto(r, pc) == work' = [work EXCEPT ![r].pc = pc]

\* The entry is done with, whatever became of it.
Leave(r) == work' = [work EXCEPT ![r] = [NoWork EXCEPT !.pc = "next", !.todo = work[r].todo]]

\* Run r has taken the claim of m and not yet confirmed or released it.
Holds(r, m) == work[r].m = m /\ work[r].pc \in {"enqueue", "check", "reserve", "send", "settle"}

-----------------------------------------------------------------------------
(* persistGeneratedReports, entry by entry.                                *)

Start(r) ==
    /\ At(r, "idle")
    /\ work' = [work EXCEPT ![r].pc = "next", ![r].todo = members]
    /\ UNCHANGED <<store, hour, ghosts, faults, churn>>

\* The upsert keeps the dispatch state and returns it: only a row that was not
\* sent is dispatched.
Undispatched(m) == stamp[m] = "none"

Upsert(r, m) ==
    /\ At(r, "next")
    /\ m \in work[r].todo
    /\ work' = [work EXCEPT ![r] =
                  [NoWork EXCEPT !.pc   = IF m \in members /\ Undispatched(m) THEN "claim" ELSE "next",
                                 !.todo = work[r].todo \ {m},
                                 !.m    = m]]
    /\ UNCHANGED <<store, hour, ghosts, faults, churn>>

\* The text of the entry is missing or refused by a gate, or the upsert fails.
SkipEntry(r, m) ==
    /\ At(r, "next")
    /\ m \in work[r].todo
    /\ Fails
    /\ work' = [work EXCEPT ![r].todo = @ \ {m}]
    /\ UNCHANGED <<store, hour, ghosts, churn>>

EndRun(r) ==
    /\ At(r, "next")
    /\ work[r].todo = {}
    /\ work' = [work EXCEPT ![r] = NoWork]
    /\ UNCHANGED <<store, hour, ghosts, faults, churn>>

-----------------------------------------------------------------------------
(* claimEmailDispatch: one statement.                                      *)

NeverExpired(m) == FALSE
ExpiredAtOnce(m) == claim[m].id # 0 /\ ~claim[m].delivered

Expired(m) == claim[m].id # 0 /\ ~claim[m].delivered /\ claim[m].age > Lease

\* An id no batch holds and the table does not have.
FreshId(m) == CHOOSE i \in ClaimIds \ {0} :
                  i # claim[m].id /\ \A r \in Runs : work[r].m = m => work[r].id # i

Granted(r, id) == work' = [work EXCEPT ![r].pc = "enqueue", ![r].id = id]

Claim(r) ==
    /\ At(r, "claim")
    /\ LET m == work[r].m IN
       \/ /\ m \in members
          /\ claim[m].id = 0
          /\ claim' = [claim EXCEPT ![m] = [NoClaim EXCEPT !.id = FreshId(m)]]
          /\ Granted(r, FreshId(m))
          /\ UNCHANGED faults
       \/ /\ m \in members
          /\ Expired(m)
          /\ claim' = [claim EXCEPT ![m].age = 0]     \* the row keeps its id
          /\ Granted(r, claim[m].id)
          /\ UNCHANGED faults
       \/ /\ m \notin members \/ (claim[m].id # 0 /\ ~Expired(m))
          /\ Leave(r)
          /\ UNCHANGED <<claim, faults>>
       \/ Fails /\ Leave(r) /\ UNCHANGED claim
    /\ UNCHANGED <<members, stamp, queued, suppressed, used, hour, ghosts, churn>>

\* The push row; a failure is only reported.
Enqueue(r) ==
    /\ At(r, "enqueue")
    /\ Goto(r, "check")
    /\ \/ queued' = queued \cup ({work[r].m} \cap members) /\ UNCHANGED faults
       \/ Fails /\ UNCHANGED queued
    /\ UNCHANGED <<members, stamp, claim, suppressed, used, hour, ghosts, churn>>

-----------------------------------------------------------------------------
(* sendEmail.                                                              *)

EndSend(r, mail) == work' = [work EXCEPT ![r].pc = "settle", ![r].mail = mail]

\* The suppression list; an unreachable one lets the mail pass.
Check(r) ==
    /\ At(r, "check")
    /\ \/ work[r].m \in suppressed /\ EndSend(r, "dead") /\ UNCHANGED faults
       \/ work[r].m \notin suppressed /\ Goto(r, "reserve") /\ UNCHANGED faults
       \/ Fails /\ Goto(r, "reserve")
    /\ UNCHANGED <<store, hour, ghosts, churn>>

BudgetLeft == used < Cap

\* The counter of the day, in one statement; it fails open as well.
Reserve(r) ==
    /\ At(r, "reserve")
    /\ \/ BudgetLeft /\ used' = used + 1 /\ Goto(r, "send") /\ UNCHANGED faults
       \/ ~BudgetLeft /\ EndSend(r, "refused") /\ UNCHANGED <<used, faults>>
       \/ Fails /\ Goto(r, "send") /\ UNCHANGED used
    /\ UNCHANGED <<members, stamp, claim, queued, suppressed, hour, ghosts, churn>>

\* The provider takes the mail, refuses it, or does not answer in time; then
\* the request goes on by itself and the claim stays in flight.
Send(r) ==
    /\ At(r, "send")
    /\ LET m == work[r].m IN
       \/ /\ mailed' = [mailed EXCEPT ![m] = @ + 1]
          /\ EndSend(r, "sent")
          /\ UNCHANGED <<adrift, cut, faults>>
       \/ /\ Fails
          /\ EndSend(r, "rejected")
          /\ UNCHANGED <<mailed, adrift, cut>>
       \/ /\ Fails
          /\ adrift' = [adrift EXCEPT ![m] = @ + 1]
          /\ cut' = [cut EXCEPT ![m] = @ + 1]
          /\ Leave(r)
          /\ UNCHANGED mailed
    /\ UNCHANGED <<store, hour, unmarked, churn>>

\* A request nobody waits for any more is delivered after all, or lost.
Arrive(m) ==
    /\ adrift[m] > 0
    /\ adrift' = [adrift EXCEPT ![m] = @ - 1]
    /\ \/ mailed' = [mailed EXCEPT ![m] = @ + 1]
       \/ UNCHANGED mailed
    /\ UNCHANGED <<store, work, hour, cut, unmarked, faults, churn>>

-----------------------------------------------------------------------------
(* What becomes of the claim, then of the row.                             *)

\* A mail that went out, or never will, confirms the claim; any other releases it.
Confirms(mail) == mail \in {"sent", "dead"}

\* The row of the claim is still there and it is the one run r was given.
Mine(r) == claim[work[r].m].id = work[r].id

MarkDelivered(r) ==
    /\ At(r, "settle")
    /\ Confirms(work[r].mail)
    /\ LET m == work[r].m IN
       \/ /\ Mine(r)
          /\ claim' = [claim EXCEPT ![m].delivered = TRUE]
          /\ Goto(r, "stamp")
          /\ UNCHANGED <<unmarked, faults>>
       \/ ~Mine(r) /\ Leave(r) /\ UNCHANGED <<claim, unmarked, faults>>
       \/ /\ Fails
          /\ unmarked' = [unmarked EXCEPT ![m] = @ + 1]
          /\ Leave(r)
          /\ UNCHANGED claim
    /\ UNCHANGED <<members, stamp, queued, suppressed, used, hour, mailed, adrift, cut, churn>>

\* The release is best effort; after a rejected send the error goes on up, past
\* the stamp.
Release(r) ==
    /\ At(r, "settle")
    /\ ~Confirms(work[r].mail)
    /\ \/ /\ claim' = IF Mine(r) /\ ~claim[work[r].m].delivered
                      THEN [claim EXCEPT ![work[r].m] = NoClaim] ELSE claim
          /\ UNCHANGED faults
       \/ Fails /\ UNCHANGED claim
    /\ IF work[r].mail = "rejected" THEN Leave(r) ELSE Goto(r, "stamp")
    /\ UNCHANGED <<members, stamp, queued, suppressed, used, hour, ghosts, churn>>

\* Mutant: the row is stamped whatever became of the mail.
StampedAlways(old, mail) == IF mail = "sent" THEN "sent" ELSE "dead"

\* sentToMemberAt is written if there is nothing left to try, and
\* sentToMemberEmail is rewritten in any case.
Stamped(old, mail) ==
    IF mail = "sent" THEN "sent"
    ELSE IF mail = "dead" \/ old # "none" THEN "dead" ELSE "none"

\* A failed stamp is only reported.
Stamp(r) ==
    /\ At(r, "stamp")
    /\ Leave(r)
    /\ LET m == work[r].m IN
       \/ /\ m \in members
          /\ stamp' = [stamp EXCEPT ![m] = Stamped(@, work[r].mail)]
          /\ UNCHANGED faults
       \/ m \notin members /\ UNCHANGED <<stamp, faults>>
       \/ Fails /\ UNCHANGED stamp
    /\ UNCHANGED <<members, claim, queued, suppressed, used, hour, ghosts, churn>>

-----------------------------------------------------------------------------
\* The process dies.  The request of a run that was sending may be out; a mail
\* that was taken is not confirmed.
Crash ==
    /\ Fails
    /\ work' = [r \in Runs |-> NoWork]
    /\ \E out \in SUBSET {r \in Runs : At(r, "send")} :
         LET lost(m) == {r \in out : work[r].m = m}
             taken(m) == {r \in Runs : At(r, "settle") /\ work[r].m = m /\ work[r].mail = "sent"} IN
         /\ adrift' = [m \in Members |-> adrift[m] + Cardinality(lost(m))]
         /\ cut' = [m \in Members |-> cut[m] + Cardinality(lost(m) \cup taken(m))]
    /\ UNCHANGED <<store, hour, mailed, unmarked, churn>>

Churn == churn < MaxChurn /\ churn' = churn + 1

\* The member is purged: the debrief, the claim and the push row go with them.
Purge(m) ==
    /\ Churn
    /\ m \in members
    /\ members' = members \ {m}
    /\ claim' = [claim EXCEPT ![m] = NoClaim]
    /\ stamp' = [stamp EXCEPT ![m] = "none"]
    /\ queued' = queued \ {m}
    /\ UNCHANGED <<suppressed, used, work, hour, ghosts, faults>>

\* The provider reports a hard bounce or a complaint of any mail.
Suppress(m) ==
    /\ Churn
    /\ suppressed' = suppressed \cup {m}
    /\ UNCHANGED <<members, stamp, claim, queued, used, work, hour, ghosts, faults>>

\* Another mail of the application takes a place in the day's budget.
OtherMail ==
    /\ Churn
    /\ BudgetLeft
    /\ used' = used + 1
    /\ UNCHANGED <<members, stamp, claim, queued, suppressed, work, hour, ghosts, faults>>

\* A send takes ten seconds at most and the lease thirty minutes: no claim
\* expires under a run that holds it.
TimeMayPass == \A r \in Runs : Holds(r, work[r].m) => claim[work[r].m].age < Lease

Aged(c) == IF c.id # 0 /\ c.age <= Lease THEN [c EXCEPT !.age = @ + 1] ELSE c

Tick ==
    /\ TimeMayPass
    /\ hour' = (hour + 1) % DayLength
    /\ used' = IF hour' = 0 THEN 0 ELSE used
    /\ claim' = [m \in Members |-> Aged(claim[m])]
    /\ UNCHANGED <<members, stamp, queued, suppressed, work, ghosts, faults, churn>>

RunStep(r) ==
    \/ Claim(r) \/ Enqueue(r) \/ Check(r) \/ Reserve(r) \/ Send(r)
    \/ MarkDelivered(r) \/ Release(r) \/ Stamp(r) \/ EndRun(r)
    \/ \E m \in Members : Upsert(r, m)

Environment ==
    \/ \E m \in Members : Arrive(m) \/ Purge(m) \/ Suppress(m)
    \/ OtherMail

Next ==
    \/ \E r \in Runs : Start(r) \/ RunStep(r) \/ \E m \in Members : SkipEntry(r, m)
    \/ Crash
    \/ Environment
    \/ Tick

Spec == Init /\ [][Next]_vars

\* The operator answers the daily alert with a batch, runs go on, time passes.
FairSpec ==
    /\ Spec
    /\ WF_vars(Tick)
    /\ \A r \in Runs : WF_vars(Start(r)) /\ WF_vars(RunStep(r))

-----------------------------------------------------------------------------
(* Properties.                                                             *)

Claims == [id : ClaimIds, delivered : BOOLEAN, age : 0..(Lease + 1)]

Works == [pc : {"idle", "next", "claim", "enqueue", "check", "reserve", "send", "settle", "stamp"},
          todo : SUBSET Members, m : Members, id : ClaimIds,
          mail : {"none", "sent", "dead", "refused", "rejected"}]

\* Every variable has its type.
TypeOK ==
    /\ members \subseteq Members
    /\ stamp \in [Members -> {"none", "sent", "dead"}]
    /\ claim \in [Members -> Claims]
    /\ work \in [Runs -> Works]
    /\ queued \subseteq Members
    /\ suppressed \subseteq Members
    /\ used \in 0..Cap
    /\ hour \in 0..(DayLength - 1)
    /\ mailed \in [Members -> Nat]
    /\ adrift \in [Members -> Nat]
    /\ cut \in [Members -> Nat]
    /\ unmarked \in [Members -> Nat]
    /\ faults \in 0..MaxFaults
    /\ churn \in 0..MaxChurn

\* A member gets a second mail only for a send whose end the process did not
\* see, or whose confirmation failed: neither batches that overlap, nor a
\* re-run, a lost stamp, a refusal or a failed release adds one.
NoDuplicateWithoutDoubt ==
    \A m \in Members : mailed[m] + adrift[m] <= 1 + cut[m] + unmarked[m]

\* The row never claims what did not happen: sentToMemberAt is set only for a
\* member whose mail the provider took, or whose address is dead, and a
\* confirmed claim, which stops every later batch, says the same.
StampIsTrue ==
    \A m \in Members :
        /\ stamp[m] = "sent" => mailed[m] > 0
        /\ stamp[m] = "dead" \/ claim[m].delivered => mailed[m] > 0 \/ m \in suppressed

\* Once a claim is confirmed no request for this debrief leaves any more.
ConfirmedIsFinal ==
    [][\A m \in Members : claim[m].delivered =>
            /\ mailed'[m] + adrift'[m] <= mailed[m] + adrift[m]
            /\ m \in members' => claim'[m].delivered]_vars

\* Every member gets the debrief in the end, unless the address is dead or the
\* account goes: the day's budget, a lost batch or a claim left in flight only
\* delays it.
NobodyForgotten ==
    \A m \in Members : m \in members ~> mailed[m] > 0 \/ m \in suppressed \/ m \notin members

=============================================================================

----------------------------- MODULE Membership -----------------------------
(* How a stranger becomes a member: the public request for access, its     *)
(* approval or refusal by an admin, the invitation that goes out by mail   *)
(* and is taken back when the mail fails, the account made from its link,  *)
(* and the weekly purge of requests (lib/access-request/service.ts,        *)
(* app/admin/{access-requests,invite}/actions.ts, lib/auth/onboarding.ts). *)
(*                                                                         *)
(* The module follows one e-mail address: every statement is about one     *)
(* address, save the purge, which takes each row on its own.  Transactions *)
(* run at READ COMMITTED, PostgreSQL's default: what one has read may      *)
(* change before it commits, unless its write asserts it again.  Row locks *)
(* only make a writer wait; the writes that matter meet rows by id, so     *)
(* waiting changes their order and not their effect.                       *)
EXTENDS Naturals, FiniteSets, FiniteSetsExt

CONSTANTS
    NRequests,   \* rows of access_requests this address may get (bound)
    NLinks,      \* invitations minted for it (bound)
    Desks,       \* calls of the admins' server actions at the same time
    Tabs,        \* submissions of the onboarding form at the same time
    Visits,      \* submissions of the public form at the same time
    MaxFaults,   \* processes that die and rollbacks that fail (bound)
    MaxErasures, \* accounts erased, which frees their address (bound)
    None

ASSUME BoundAssumption ==
    /\ NRequests \in Nat /\ NLinks \in Nat
    /\ MaxFaults \in Nat /\ MaxErasures \in Nat
    /\ IsFiniteSet(Visits)
ASSUME NoneAssumption == None \notin Nat

VARIABLES
    status,   \* access_requests.status; "none" not filed yet, "gone" purged
    old,      \* the first "old" requests were filed 30 days ago or more
    link,     \* invitations: "none", "live", "expired" (both with used_at
              \* null), "used", "gone"
    account,  \* whether the address has a row in users
    desk,     \* each admin call: where it is, its request, its invitation,
              \* and the unused invitations its UPDATE has met
    tab,      \* each onboarding submission: where it is, its invitation
    visit,    \* each public submission
    faults, erasures,
    source,   \* history: the request an invitation was minted for
    posted,   \* history: invitations whose mail the provider took
    opened,   \* history: accounts made through an invitation
    cut       \* history: requests approved without a mail because of a fault,
              \* or of a mail skipped without an error

rows == <<status, link, account>>
history == <<source, posted, opened, cut>>
vars == <<rows, old, desk, tab, visit, faults, erasures, history>>

Requests == 1..NRequests
Links == 1..NLinks

Filed(r) == status[r] \notin {"none", "gone"}
Unfiled == {r \in Requests : status[r] = "none"}
Pending == {r \in Requests : status[r] = "pending"}
Unused == {i \in Links : link[i] \in {"live", "expired"}}

IdleDesk == [at |-> "idle", req |-> None, link |-> None, victims |-> {}]
IdleTab == [at |-> "idle", link |-> None]
AtDesk(d, where) == desk[d].at = where
AtTab(t, where) == tab[t].at = where
Leave(d) == desk' = [desk EXCEPT ![d] = IdleDesk]
LeaveTab(t) == tab' = [tab EXCEPT ![t] = IdleTab]

Init ==
    /\ status = [r \in Requests |-> "none"]
    /\ old = 0
    /\ link = [i \in Links |-> "none"]
    /\ account = FALSE
    /\ desk = [d \in Desks |-> IdleDesk]
    /\ tab = [t \in Tabs |-> IdleTab]
    /\ visit = [v \in Visits |-> "idle"]
    /\ faults = 0 /\ erasures = 0
    /\ source = [i \in Links |-> None]
    /\ posted = {}
    /\ opened = [i \in Links |-> 0]
    /\ cut = {}

(* ------------------------------------------------------------------ *)
(* createAccessRequest: look for a member or a pending request, insert *)
(* ------------------------------------------------------------------ *)
Lookup(v) ==
    /\ visit[v] = "idle"
    /\ ~account /\ Pending = {}
    /\ Cardinality(Unfiled) > Cardinality({w \in Visits : visit[w] = "inserting"})
    /\ visit' = [visit EXCEPT ![v] = "inserting"]
    /\ UNCHANGED <<rows, old, desk, tab, faults, erasures, history>>

\* The partial unique index on pending rows refuses a second one: P2002,
\* answered like a success.
PendingTaken(r) == Pending \ {r} # {}

Insert(v) ==
    /\ visit[v] = "inserting"
    /\ LET r == Min(Unfiled) IN
       status' = IF PendingTaken(r) THEN status ELSE [status EXCEPT ![r] = "pending"]
    /\ visit' = [visit EXCEPT ![v] = "idle"]
    /\ UNCHANGED <<link, account, old, desk, tab, faults, erasures, history>>

(* ------------------------------------------------------------------ *)
(* The admins' transactions.  The first step ends with the UPDATE that *)
(* retires unused invitations: it meets those committed by then.  The  *)
(* second is the commit.                                               *)
(* ------------------------------------------------------------------ *)
FreeLinks == {i \in Links : link[i] = "none"} \ {desk[d].link : d \in Desks}

Begin(d, where, r) ==
    /\ AtDesk(d, "idle")
    /\ FreeLinks # {}
    /\ ~account
    /\ desk' = [desk EXCEPT ![d] =
                    [at |-> where, req |-> r, link |-> Min(FreeLinks), victims |-> Unused]]
    /\ UNCHANGED <<rows, old, tab, visit, faults, erasures, history>>

ApproveBegin(d, r) == status[r] = "pending" /\ Begin(d, "approving", r)
InviteBegin(d) == Begin(d, "inviting", None)

Minted(d) ==
    [i \in Links |-> CASE i = desk[d].link -> "live"
                       [] i \in desk[d].victims \cap Unused -> "used"
                       [] OTHER -> link[i]]

Mail(d) == desk' = [desk EXCEPT ![d].at = "mailing", ![d].victims = {}]

\* Mutant: the flip is by id alone, like that of a refusal.
FlipUnguarded(r) == TRUE

\* The flip asserts "pending" again: the loser's whole transaction is undone.
StillPending(r) == status[r] = "pending"

ApproveCommit(d) ==
    /\ AtDesk(d, "approving")
    /\ LET r == desk[d].req IN
       IF StillPending(r)
       THEN /\ status' = [status EXCEPT ![r] = "approved"]
            /\ link' = Minted(d)
            /\ source' = [source EXCEPT ![desk[d].link] = r]
            /\ Mail(d)
       ELSE Leave(d) /\ UNCHANGED <<status, link, source>>
    /\ UNCHANGED <<account, old, tab, visit, faults, erasures, posted, opened, cut>>

InviteCommit(d) ==
    /\ AtDesk(d, "inviting")
    /\ link' = Minted(d)
    /\ Mail(d)
    /\ UNCHANGED <<status, account, old, tab, visit, faults, erasures, history>>

RejectBegin(d, r) ==
    /\ AtDesk(d, "idle")
    /\ status[r] = "pending"
    /\ desk' = [desk EXCEPT ![d] = [IdleDesk EXCEPT !.at = "rejecting", !.req = r]]
    /\ UNCHANGED <<rows, old, tab, visit, faults, erasures, history>>

\* By id alone.  A row purged meanwhile makes the update throw; the mail of
\* refusal changes nothing, whatever becomes of it.
RejectCommit(d) ==
    /\ AtDesk(d, "rejecting")
    /\ LET r == desk[d].req IN
       status' = IF Filed(r) THEN [status EXCEPT ![r] = "rejected"] ELSE status
    /\ Leave(d)
    /\ UNCHANGED <<link, account, old, tab, visit, faults, erasures, history>>

(* ------------------------------------------------------------------ *)
(* The mail with the link, and the rollback when sendEmail throws      *)
(* ------------------------------------------------------------------ *)
Requested(d) == {desk[d].req} \ {None}

MailTaken(d) ==
    /\ AtDesk(d, "mailing")
    /\ posted' = posted \cup {desk[d].link}
    /\ Leave(d)
    /\ UNCHANGED <<rows, old, tab, visit, faults, erasures, source, opened, cut>>

\* A suppressed address or a spent daily budget: no mail and no error.
MailSkipped(d) ==
    /\ AtDesk(d, "mailing")
    /\ cut' = cut \cup Requested(d)
    /\ Leave(d)
    /\ UNCHANGED <<rows, old, tab, visit, faults, erasures, source, posted, opened>>

\* A refusal, or a timeout after which the mail may arrive all the same.
MailThrows(d) ==
    /\ AtDesk(d, "mailing")
    /\ \/ posted' = posted
       \/ posted' = posted \cup {desk[d].link}
    /\ desk' = [desk EXCEPT ![d].at = "undoing"]
    /\ UNCHANGED <<rows, old, tab, visit, faults, erasures, source, opened, cut>>

\* Mutants: the rollback only deletes the invitation; it puts any request back.
RevertedNever(r) == status
RevertedAnyway(r) == IF r # None /\ Filed(r) THEN [status EXCEPT ![r] = "pending"] ELSE status

\* What the rollback makes of the request: only an approved one goes back.
Reverted(r) ==
    IF r # None /\ status[r] = "approved" THEN [status EXCEPT ![r] = "pending"] ELSE status

\* rollbackApproval is one transaction: if another request has taken the
\* pending slot, the index refuses it whole.  An invitation of its own is a
\* plain delete.
Undo(d) ==
    /\ AtDesk(d, "undoing")
    /\ LET r == desk[d].req IN
       IF Reverted(r) # status /\ PendingTaken(r)
       THEN UNCHANGED <<status, link>>
       ELSE /\ status' = Reverted(r)
            /\ link' = [link EXCEPT ![desk[d].link] = "gone"]
    /\ Leave(d)
    /\ UNCHANGED <<account, old, tab, visit, faults, erasures, history>>

UndoFails(d) ==
    /\ AtDesk(d, "undoing")
    /\ faults < MaxFaults
    /\ faults' = faults + 1
    /\ cut' = cut \cup Requested(d)
    /\ Leave(d)
    /\ UNCHANGED <<rows, old, tab, visit, erasures, source, posted, opened>>

(* ------------------------------------------------------------------ *)
(* completeOnboarding: a first look, argon2, then a transaction that   *)
(* reads the invitation again, inserts the user, marks the invitation  *)
(* ------------------------------------------------------------------ *)
Usable(i) == link[i] = "live"

Peek(t, i) ==
    /\ AtTab(t, "idle")
    /\ i \in posted /\ Usable(i)
    /\ tab' = [tab EXCEPT ![t] = [at |-> "hashing", link |-> i]]
    /\ UNCHANGED <<rows, old, desk, visit, faults, erasures, history>>

Recheck(t) ==
    /\ AtTab(t, "hashing")
    /\ IF Usable(tab[t].link) /\ ~account
       THEN tab' = [tab EXCEPT ![t].at = "creating"]
       ELSE LeaveTab(t)
    /\ UNCHANGED <<rows, old, desk, visit, faults, erasures, history>>

\* The unique index on the address (P2002), or an invitation that a rollback
\* has deleted meanwhile, undoes the transaction.
MayCreate(i) == ~account /\ link[i] # "gone"

\* Mutant: the account is made and its invitation is not marked.
ConsumedNever(i) == link

Consumed(i) == [link EXCEPT ![i] = "used"]

Create(t) ==
    /\ AtTab(t, "creating")
    /\ LET i == tab[t].link IN
       IF MayCreate(i)
       THEN /\ account' = TRUE
            /\ link' = Consumed(i)
            /\ opened' = [opened EXCEPT ![i] = @ + 1]
       ELSE UNCHANGED <<account, link, opened>>
    /\ LeaveTab(t)
    /\ UNCHANGED <<status, old, desk, visit, faults, erasures, source, posted, cut>>

(* ------------------------------------------------------------------ *)
(* The cron, the clock, and what the process and the member may do     *)
(* ------------------------------------------------------------------ *)
Purged(r) ==
    \/ status[r] = "rejected"
    \/ status[r] \in {"pending", "approved"} /\ r <= old

Purge ==
    /\ \E r \in Requests : Purged(r)
    /\ status' = [r \in Requests |-> IF Purged(r) THEN "gone" ELSE status[r]]
    /\ UNCHANGED <<link, account, old, desk, tab, visit, faults, erasures, history>>

\* Thirty days of a request, seven of an invitation.
Age ==
    /\ old < NRequests /\ status[old + 1] # "none"
    /\ old' = old + 1
    /\ UNCHANGED <<rows, desk, tab, visit, faults, erasures, history>>

Expire(i) ==
    /\ link[i] = "live"
    /\ link' = [link EXCEPT ![i] = "expired"]
    /\ UNCHANGED <<status, account, old, desk, tab, visit, faults, erasures, history>>

\* The erasure of the account (module Accounts) puts another address in its
\* place.  It takes a day at least: no call that was in flight still is.
Erase ==
    /\ account /\ erasures < MaxErasures
    /\ \A d \in Desks : AtDesk(d, "idle")
    /\ \A t \in Tabs : AtTab(t, "idle")
    /\ account' = FALSE
    /\ erasures' = erasures + 1
    /\ UNCHANGED <<status, link, old, desk, tab, visit, faults, history>>

\* The process is replaced: open transactions are undone, calls that have
\* committed go no further.
Crash ==
    /\ faults < MaxFaults
    /\ faults' = faults + 1
    /\ cut' = cut \cup UNION {Requested(d) : d \in {e \in Desks :
                                  desk[e].at \in {"mailing", "undoing"}}}
    /\ desk' = [d \in Desks |-> IdleDesk]
    /\ tab' = [t \in Tabs |-> IdleTab]
    /\ visit' = [v \in Visits |-> "idle"]
    /\ UNCHANGED <<rows, old, erasures, source, posted, opened>>

Next ==
    \/ \E v \in Visits : Lookup(v) \/ Insert(v)
    \/ \E d \in Desks, r \in Requests : ApproveBegin(d, r) \/ RejectBegin(d, r)
    \/ \E d \in Desks : \/ InviteBegin(d) \/ ApproveCommit(d) \/ InviteCommit(d)
                        \/ RejectCommit(d) \/ MailTaken(d) \/ MailSkipped(d)
                        \/ MailThrows(d) \/ Undo(d) \/ UndoFails(d)
    \/ \E t \in Tabs, i \in Links : Peek(t, i)
    \/ \E t \in Tabs : Recheck(t) \/ Create(t)
    \/ \E i \in Links : Expire(i)
    \/ Purge \/ Age \/ Erase \/ Crash

Spec == Init /\ [][Next]_vars

\* The crontab fires the purge every week, and days pass.  Nothing is assumed
\* of visitors and admins.
FairSpec == Spec /\ WF_vars(Purge) /\ WF_vars(Age)

(* ------------------------------------------------------------------ *)
(* Properties                                                          *)
(* ------------------------------------------------------------------ *)
TypeOK ==
    /\ status \in [Requests -> {"none", "pending", "approved", "rejected", "gone"}]
    /\ old \in 0..NRequests
    /\ link \in [Links -> {"none", "live", "expired", "used", "gone"}]
    /\ account \in BOOLEAN
    /\ desk \in [Desks ->
           [at : {"idle", "approving", "inviting", "rejecting", "mailing", "undoing"},
            req : Requests \cup {None}, link : Links \cup {None}, victims : SUBSET Links]]
    /\ tab \in [Tabs -> [at : {"idle", "hashing", "creating"}, link : Links \cup {None}]]
    /\ visit \in [Visits -> {"idle", "inserting"}]
    /\ faults \in 0..MaxFaults /\ erasures \in 0..MaxErasures
    /\ source \in [Links -> Requests \cup {None}]
    /\ posted \subseteq Links /\ cut \subseteq Requests
    /\ opened \in [Links -> Nat]

LinksOf(r) == {i \in Links : source[i] = r}
AtWork(r) == \E d \in Desks : desk[d].req = r

\* A refusal is terminal: neither an approval that had read the request as
\* pending, nor the rollback of one, takes it back.
RejectionIsTerminal ==
    [][\A r \in Requests : status[r] = "rejected" => status'[r] \in {"rejected", "gone"}]_vars

\* However many admins approve a request, and however often its mail fails and
\* it is approved again, it has one unused link at most.
OneLinkPerRequest == \A r \in Requests : Cardinality(LinksOf(r) \cap Unused) <= 1

\* A link makes one account, also when two tabs submit it, and when the
\* account has been erased before it is tried again.
LinkOpensOnce == \A i \in Links : opened[i] <= 1

\* An approved request leaves the admins' queue only with its link in the
\* mail, unless a fault cut the call short: if the mail throws, the request is
\* back in the queue, or its author has filed another request.
ApprovalReachesSomeone ==
    \A r \in Requests : status[r] = "approved" /\ ~AtWork(r) =>
        \/ LinksOf(r) \cap posted # {}
        \/ r \in cut
        \/ \E q \in Requests \ {r} : status[q] # "none"

\* The name and address of a stranger do not stay: whatever the admins do or
\* fail to do, the purge takes every request in the end.
PersonalDataLeaves == \A r \in Requests : status[r] = "pending" ~> status[r] = "gone"
=============================================================================

------------------------ MODULE NotificationContract ------------------------
(***************************************************************************)
(* What the notification queue promises about a row, without claims, runs, *)
(* clocks, retries or quiet hours: an accepted row is worked on by one     *)
(* dispatcher at a time; it ends sent exactly when a push reached the      *)
(* member, failed when none did; only a row whose dispatcher was lost may  *)
(* be worked on again after a push went out; a failed row is mailed once   *)
(* at most; a purge ends everything.                                       *)
(***************************************************************************)
EXTENDS Naturals

CONSTANTS Rows      \* the rows that can ever be accepted

VARIABLES
    phase,      \* phase[r]: where the row stands
    got,        \* got[r]: pushes that reached the member
    lost,       \* lost[r]: times the row was taken back from a lost dispatcher
    mailed      \* mailed[r]: fallback emails sent

cvars == <<phase, got, lost, mailed>>

\* queued: waiting; inFlight: a dispatcher has it; handed: the push has gone
\* out, the outcome is not recorded yet; adrift: its dispatcher is gone.
Phases == {"none", "queued", "inFlight", "handed", "adrift", "sent", "failed", "gone"}

CInit ==
    /\ phase = [r \in Rows |-> "none"]
    /\ got = [r \in Rows |-> 0]
    /\ lost = [r \in Rows |-> 0]
    /\ mailed = [r \in Rows |-> 0]

Move(r, from, to) ==
    /\ phase[r] \in from
    /\ phase' = [phase EXCEPT ![r] = to]

Accept(r)  == Move(r, {"none"}, "queued") /\ UNCHANGED <<got, lost, mailed>>
Take(r)    == Move(r, {"queued"}, "inFlight") /\ UNCHANGED <<got, lost, mailed>>
Release(r) == Move(r, {"inFlight"}, "queued") /\ UNCHANGED <<got, lost, mailed>>
Settle(r)  == Move(r, {"handed"}, "sent") /\ UNCHANGED <<got, lost, mailed>>
Drop(r)    == Move(r, {"inFlight"}, "failed") /\ UNCHANGED <<got, lost, mailed>>

Push(r) ==
    /\ Move(r, {"inFlight"}, "handed")
    /\ got' = [got EXCEPT ![r] = @ + 1]
    /\ UNCHANGED <<lost, mailed>>

Mail(r) ==
    /\ phase[r] = "failed"
    /\ mailed[r] = 0
    /\ mailed' = [mailed EXCEPT ![r] = 1]
    /\ UNCHANGED <<phase, got, lost>>

\* The dispatchers of the rows S are lost.
Abandon(S) ==
    /\ \A r \in S : phase[r] \in {"inFlight", "handed"}
    /\ phase' = [r \in Rows |-> IF r \in S THEN "adrift" ELSE phase[r]]
    /\ UNCHANGED <<got, lost, mailed>>

\* The rows S are taken back from lost dispatchers.
TakeBack(S) ==
    /\ \A r \in S : phase[r] = "adrift"
    /\ phase' = [r \in Rows |-> IF r \in S THEN "queued" ELSE phase[r]]
    /\ lost' = [r \in Rows |-> IF r \in S THEN lost[r] + 1 ELSE lost[r]]
    /\ UNCHANGED <<got, mailed>>

\* The member of the rows S is purged.
Forget(S) ==
    /\ \A r \in S : phase[r] # "none"
    /\ phase' = [r \in Rows |-> IF r \in S THEN "gone" ELSE phase[r]]
    /\ UNCHANGED <<got, lost, mailed>>

CNext ==
    \/ \E r \in Rows : \/ Accept(r) \/ Take(r) \/ Release(r) \/ Push(r)
                       \/ Settle(r) \/ Drop(r) \/ Mail(r)
    \/ \E S \in SUBSET Rows : Abandon(S) \/ TakeBack(S) \/ Forget(S)

CSpec == CInit /\ [][CNext]_cvars

=============================================================================

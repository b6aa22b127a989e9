------------------------------ MODULE Accounts ------------------------------
(***************************************************************************)
(* The life of a member account: sign-in and session revocation            *)
(* (lib/auth/authorize-credentials.ts, session-revocation.ts), password    *)
(* reset (password-reset.ts), suspension (lib/admin/member-moderation.ts)  *)
(* and the erasure lifecycle (lib/account/deletion.ts) with its daily      *)
(* purge-deleted cron.                                                     *)
(*                                                                         *)
(* Sign-in reads the row, then spends ~150 ms on argon2 before a session   *)
(* is minted; a reset looks the token up, hashes, then commits; the cron   *)
(* lists accounts, then writes them one by one.  Whatever else happens in  *)
(* these gaps is what this module is about.                                *)
(*                                                                         *)
(* Dates are kept relative to now: due[u] is deletedAt - now, and a cron   *)
(* run that started cronAge ticks ago works with the instant now - cronAge.*)
(***************************************************************************)
EXTENDS Integers, FiniteSets

CONSTANTS
    Users,          \* members
    Logins,         \* sign-in attempts in flight
    Forgots,        \* forgot-password requests in flight
    Resets,         \* reset submissions in flight
    Tokens,         \* reset tokens that may ever be minted
    Files,          \* kinds of uploads the purge sweeps
    Grace,          \* GRACE_MS, in ticks
    HardPurge,      \* HARD_PURGE_DAYS, in ticks
    Ttl,            \* PASSWORD_RESET_TTL_MS, in ticks
    MaxModerations, \* bound: suspensions
    MaxFaults       \* bound: crashes, failed emails, failed storage deletes

ASSUME AccountsAssumption ==
    /\ Users # {}
    /\ Grace \in Nat \ {0} /\ HardPurge \in Nat \ {0} /\ Ttl \in Nat \ {0}
    /\ MaxModerations \in Nat /\ MaxFaults \in Nat

VARIABLES
    status,     \* UserStatus, "purged" once the row is gone
    scheduled,  \* deletedAt is set
    due,        \* deletedAt - now; 0 while deletedAt is not set
    scrubbed,   \* the PII columns are NULL
    secret,     \* generation of the password hash, 0 for NULL
    lastSecret, \* generations handed out
    version,    \* tokenVersion
    files,      \* files[u]: uploads on the volume
    sessions,   \* JWTs held by browsers: [user, version, secret]
    login,      \* login[l]: a sign-in between its read and its mint
    token,      \* token[t]: a password_reset_tokens row
    forgot,     \* forgot[f]: a forgot-password request at work
    reset,      \* reset[r]: a reset submission between lookup and commit
    rotations,  \* rotations[t]: passwords rotated with the token
    cron,       \* [phase, todo, swept] of the purge-deleted run
    cronAge,    \* ticks since that run took its "now"
    refused,    \* refused[u]: uploads whose delete failed in the last sweep
    moderations,
    faults

userVars   == <<status, scheduled, due, scrubbed, secret, lastSecret, version, files>>
resetVars  == <<token, forgot, reset, rotations>>
cronVars   == <<cron, cronAge>>
boundVars  == <<refused, moderations, faults>>
vars == <<userVars, sessions, login, resetVars, cronVars, boundVars>>

Floor == 0 - (HardPurge + 2)    \* due counts no further down than this

NoLogin == [on |-> FALSE, user |-> CHOOSE u \in Users : TRUE, version |-> 0, secret |-> 0]

NoToken == [state |-> "none", user |-> CHOOSE u \in Users : TRUE, ttl |-> 0, mailed |-> FALSE]

\* victims: the rows its DELETE statement has seen; mine: the token it minted.
NoForgot == [pc |-> "idle", user |-> CHOOSE u \in Users : TRUE, victims |-> {}, mine |-> {}]

\* todo: accounts left; swept: the account whose uploads have been swept.
NoCron == [phase |-> "idle", todo |-> {}, swept |-> {}]

Init ==
    /\ status = [u \in Users |-> "active"]
    /\ scheduled = [u \in Users |-> FALSE]
    /\ due = [u \in Users |-> 0]
    /\ scrubbed = [u \in Users |-> FALSE]
    /\ secret = [u \in Users |-> 1]
    /\ lastSecret = [u \in Users |-> 1]
    /\ version = [u \in Users |-> 0]
    /\ files = [u \in Users |-> Files]
    /\ sessions = {}
    /\ login = [l \in Logins |-> NoLogin]
    /\ token = [t \in Tokens |-> NoToken]
    /\ forgot = [f \in Forgots |-> NoForgot]
    /\ reset = [r \in Resets |-> {}]
    /\ rotations = [t \in Tokens |-> 0]
    /\ cron = NoCron
    /\ cronAge = 0
    /\ refused = [u \in Users |-> {}]
    /\ moderations = 0
    /\ faults = 0

-----------------------------------------------------------------------------
(* Sign-in and sessions.                                                   *)

\* authorizeCredentials reads an active row with a password, and the typed
\* password matches the hash it read.
LoginRead(l, u) ==
    /\ ~login[l].on
    /\ status[u] = "active"
    /\ secret[u] # 0
    /\ login' = [login EXCEPT ![l] =
                   [on |-> TRUE, user |-> u, version |-> version[u], secret |-> secret[u]]]
    /\ UNCHANGED <<userVars, sessions, resetVars, cronVars, boundVars>>

\* The session is minted with what was read, however old that is by now.
LoginMint(l) ==
    /\ login[l].on
    /\ sessions' = sessions \cup {[user    |-> login[l].user,
                                   version |-> login[l].version,
                                   secret  |-> login[l].secret]}
    /\ login' = [login EXCEPT ![l] = NoLogin]
    /\ UNCHANGED <<userVars, resetVars, cronVars, boundVars>>

\* applyRevocationCheck: the row exists and no bump happened since the mint.
Accepted(s) == status[s.user] # "purged" /\ version[s.user] = s.version

\* auth() tears a rejected session down; a member may also sign out.
DropSession(s) ==
    /\ s \in sessions
    /\ sessions' = sessions \ {s}
    /\ UNCHANGED <<userVars, login, resetVars, cronVars, boundVars>>

\* A server action of u gets past auth() and the status gate.
SignedIn(u) == status[u] = "active" /\ \E s \in sessions : s.user = u /\ Accepted(s)

-----------------------------------------------------------------------------
(* Moderation.  The row, its predicate and the bump are one statement.     *)

\* Mutant: suspension forgets to revoke.
VersionAfterSuspendKept(u) == version

VersionAfterSuspend(u) == [version EXCEPT ![u] = @ + 1]

Suspend(u) ==
    /\ moderations < MaxModerations
    /\ status[u] = "active"
    /\ status' = [status EXCEPT ![u] = "suspended"]
    /\ version' = VersionAfterSuspend(u)
    /\ moderations' = moderations + 1
    /\ UNCHANGED <<scheduled, due, scrubbed, secret, lastSecret, files,
                   sessions, login, resetVars, cronVars, refused, faults>>

MayReinstate(u) == status[u] = "suspended"

Reinstate(u) ==
    /\ MayReinstate(u)
    /\ status' = [status EXCEPT ![u] = "active"]
    /\ UNCHANGED <<scheduled, due, scrubbed, secret, lastSecret, version, files,
                   sessions, login, resetVars, cronVars, boundVars>>

-----------------------------------------------------------------------------
(* Erasure: request, cancel, and the cron's two phases.                    *)

RequestDeletion(u) ==
    /\ SignedIn(u)
    /\ ~scheduled[u]
    /\ scheduled' = [scheduled EXCEPT ![u] = TRUE]
    /\ due' = [due EXCEPT ![u] = Grace]
    /\ UNCHANGED <<status, scrubbed, secret, lastSecret, version, files,
                   sessions, login, resetVars, cronVars, boundVars>>

CancelDeletion(u) ==
    /\ SignedIn(u)
    /\ scheduled[u]
    /\ scheduled' = [scheduled EXCEPT ![u] = FALSE]
    /\ due' = [due EXCEPT ![u] = 0]
    /\ UNCHANGED <<status, scrubbed, secret, lastSecret, version, files,
                   sessions, login, resetVars, cronVars, boundVars>>

\* deletedAt <= the run's now.
Elapsed(u) == scheduled[u] /\ due[u] <= 0 - cronAge

\* Mutants: the write by id only, trusting the list; the date compared the
\* other way round.
MayMaterialiseListed(u) == status[u] = "active"
MayMaterialiseAhead(u) == status[u] = "active" /\ scheduled[u] /\ due[u] >= 0 - cronAge

MayMaterialise(u) == status[u] = "active" /\ Elapsed(u)

\* The cron starts: it takes its now and lists the elapsed accounts.
CronStart ==
    /\ cron.phase = "idle"
    /\ cron' = [phase |-> "materialise",
                todo  |-> {u \in Users : status[u] = "active" /\ scheduled[u] /\ due[u] <= 0},
                swept |-> {}]
    /\ cronAge' = 0
    /\ UNCHANGED <<userVars, sessions, login, resetVars, boundVars>>

\* One listed account: the predicate is asserted again in the write, so a
\* cancellation since the listing makes it a no-op.
Materialise(u) ==
    /\ cron.phase = "materialise"
    /\ u \in cron.todo
    /\ cron' = [cron EXCEPT !.todo = @ \ {u}]
    /\ IF MayMaterialise(u)
         THEN /\ status' = [status EXCEPT ![u] = "deleted"]
              /\ scheduled' = [scheduled EXCEPT ![u] = TRUE]
              /\ due' = [due EXCEPT ![u] = 0 - cronAge]
              /\ scrubbed' = [scrubbed EXCEPT ![u] = TRUE]
              /\ secret' = [secret EXCEPT ![u] = 0]
              /\ version' = [version EXCEPT ![u] = @ + 1]
         ELSE UNCHANGED <<status, scheduled, due, scrubbed, secret, version>>
    /\ UNCHANGED <<lastSecret, files, sessions, login, resetVars, cronAge, boundVars>>

\* Mutant: the threshold on the wrong side of now.
StaleFromStart(u) == status[u] = "deleted" /\ due[u] + cronAge < HardPurge

Stale(u) == status[u] = "deleted" /\ due[u] + cronAge < 0 - HardPurge

ListStale ==
    /\ cron.phase = "materialise"
    /\ cron.todo = {}
    /\ cron' = [phase |-> "purge", todo |-> {u \in Users : Stale(u)}, swept |-> {}]
    /\ UNCHANGED <<userVars, sessions, login, resetVars, cronAge, boundVars>>

\* The uploads of one listed account are deleted; a delete that fails is only
\* reported.
Sweep(u) ==
    /\ cron.phase = "purge"
    /\ cron.swept = {}
    /\ u \in cron.todo
    /\ cron' = [cron EXCEPT !.swept = {u}]
    /\ \E failed \in SUBSET files[u] :
         /\ failed # {} => faults < MaxFaults
         /\ files' = [files EXCEPT ![u] = failed]
         /\ refused' = [refused EXCEPT ![u] = failed]
         /\ faults' = IF failed # {} THEN faults + 1 ELSE faults
    /\ UNCHANGED <<status, scheduled, due, scrubbed, secret, lastSecret, version,
                   sessions, login, resetVars, cronAge, moderations>>

\* Mutant: the row may go before its uploads.
SweptFirstOrNot(u) == u \in cron.todo

SweptFirst(u) == u \in cron.swept

\* The row is deleted, by id; the cascade takes the reset tokens with it.
DeleteRow(u) ==
    /\ cron.phase = "purge"
    /\ SweptFirst(u)
    /\ cron' = [cron EXCEPT !.todo = @ \ {u}, !.swept = {}]
    /\ status' = [status EXCEPT ![u] = "purged"]
    /\ token' = [t \in Tokens |-> IF token[t].user = u /\ token[t].state # "none"
                                  THEN [token[t] EXCEPT !.state = "gone"] ELSE token[t]]
    /\ UNCHANGED <<scheduled, due, scrubbed, secret, lastSecret, version, files, sessions,
                   login, forgot, reset, rotations, cronAge, boundVars>>

\* The write of one account throws: it is counted and left for the next run.
AccountThrows(u) ==
    /\ faults < MaxFaults
    /\ u \in cron.todo
    /\ cron.swept \subseteq {u}
    /\ faults' = faults + 1
    /\ cron' = [cron EXCEPT !.todo = @ \ {u}, !.swept = {}]
    /\ UNCHANGED <<userVars, sessions, login, resetVars, cronAge, refused, moderations>>

CronEnd ==
    /\ cron.phase = "purge"
    /\ cron.todo = {}
    /\ cron' = NoCron
    /\ cronAge' = 0
    /\ UNCHANGED <<userVars, sessions, login, resetVars, boundVars>>

-----------------------------------------------------------------------------
(* Forgotten password.                                                     *)

Rows(u) == {t \in Tokens : token[t].state \in {"live", "used"} /\ token[t].user = u}

\* The deferred task finds an active account and its transaction issues its
\* DELETE: under READ COMMITTED it sees the rows committed so far.
ForgotDelete(f, u) ==
    /\ forgot[f].pc = "idle"
    /\ status[u] = "active"
    /\ forgot' = [forgot EXCEPT ![f] = [pc |-> "create", user |-> u,
                                        victims |-> Rows(u), mine |-> {}]]
    /\ UNCHANGED <<userVars, sessions, login, token, reset, rotations, cronVars, boundVars>>

\* The INSERT and the commit; on a purged account the foreign key refuses it.
ForgotCreate(f, t) ==
    /\ forgot[f].pc = "create"
    /\ token[t].state = "none"
    /\ LET u == forgot[f].user IN
       IF status[u] = "purged"
         THEN /\ forgot' = [forgot EXCEPT ![f] = NoForgot]
              /\ UNCHANGED token
         ELSE /\ token' = [s \in Tokens |->
                   IF s = t THEN [state |-> "live", user |-> u, ttl |-> Ttl, mailed |-> FALSE]
                   ELSE IF s \in forgot[f].victims THEN [token[s] EXCEPT !.state = "gone"]
                   ELSE token[s]]
              /\ forgot' = [forgot EXCEPT ![f].pc = "email", ![f].mine = {t}]
    /\ UNCHANGED <<userVars, sessions, login, reset, rotations, cronVars, boundVars>>

ForgotEmail(f) ==
    /\ forgot[f].pc = "email"
    /\ forgot' = [forgot EXCEPT ![f] = NoForgot]
    /\ \/ /\ token' = [t \in Tokens |-> IF t \in forgot[f].mine
                                        THEN [token[t] EXCEPT !.mailed = TRUE] ELSE token[t]]
          /\ UNCHANGED faults
       \/ /\ faults < MaxFaults          \* delivery fails: every token of the member goes
          /\ faults' = faults + 1
          /\ token' = [t \in Tokens |-> IF t \in Rows(forgot[f].user)
                                        THEN [token[t] EXCEPT !.state = "gone"] ELSE token[t]]
    /\ UNCHANGED <<userVars, sessions, login, reset, rotations, cronVars, refused, moderations>>

\* Mutant: the consuming write forgets that the token may be used by now.
ConsumableTwice(t) == token[t].state \in {"live", "used"} /\ token[t].ttl > 0

\* What both the lookup and the consuming write require of a token.
Consumable(t) == token[t].state = "live" /\ token[t].ttl > 0

\* The link is opened and submitted: lookup, then argon2.
ResetLookup(r, t) ==
    /\ reset[r] = {}
    /\ token[t].mailed
    /\ token[t].state = "live"
    /\ token[t].ttl > 0
    /\ reset' = [reset EXCEPT ![r] = {t}]
    /\ UNCHANGED <<userVars, sessions, login, token, forgot, rotations, cronVars, boundVars>>

\* Mutants: the password changes but nobody is signed out; a reset that does
\* not ask whether the account is active.
VersionAfterResetKept(u) == version
MayRotateAny(u) == status[u] # "purged"

VersionAfterReset(u) == [version EXCEPT ![u] = @ + 1]
MayRotate(u) == status[u] = "active"

\* One transaction: consume the token, then rotate the password of an active
\* account.  A token of an inactive account is burned.
ResetCommit(r, t) ==
    /\ reset[r] = {t}
    /\ reset' = [reset EXCEPT ![r] = {}]
    /\ IF ~Consumable(t)
         THEN UNCHANGED <<userVars, token, rotations>>
         ELSE LET u == token[t].user IN
              /\ token' = [token EXCEPT ![t].state = "used"]
              /\ IF MayRotate(u)
                   THEN /\ secret' = [secret EXCEPT ![u] = lastSecret[u] + 1]
                        /\ lastSecret' = [lastSecret EXCEPT ![u] = @ + 1]
                        /\ version' = VersionAfterReset(u)
                        /\ rotations' = [rotations EXCEPT ![t] = @ + 1]
                   ELSE UNCHANGED <<secret, lastSecret, version, rotations>>
              /\ UNCHANGED <<status, scheduled, due, scrubbed, files>>
    /\ UNCHANGED <<sessions, login, forgot, cronVars, boundVars>>

-----------------------------------------------------------------------------
\* The process dies: requests in flight and the cron run are lost.
Crash ==
    /\ faults < MaxFaults
    /\ faults' = faults + 1
    /\ login' = [l \in Logins |-> NoLogin]
    /\ forgot' = [f \in Forgots |-> NoForgot]
    /\ reset' = [r \in Resets |-> {}]
    /\ cron' = NoCron
    /\ cronAge' = 0
    /\ UNCHANGED <<userVars, sessions, token, rotations, refused, moderations>>

\* A token one tick later.
Aged(r) == IF r.ttl > 0 THEN [r EXCEPT !.ttl = @ - 1] ELSE r

\* A cron run is over within a tick of its start.
Tick ==
    /\ cronAge = 0
    /\ cronAge' = IF cron.phase = "idle" THEN 0 ELSE 1
    /\ due' = [u \in Users |-> IF scheduled[u] /\ due[u] > Floor THEN due[u] - 1 ELSE due[u]]
    /\ token' = [t \in Tokens |-> Aged(token[t])]
    /\ UNCHANGED <<status, scheduled, scrubbed, secret, lastSecret, version, files, sessions,
                   login, forgot, reset, rotations, cron, boundVars>>

SessionStep ==
    \/ \E l \in Logins, u \in Users : LoginRead(l, u)
    \/ \E l \in Logins : LoginMint(l)
    \/ \E s \in sessions : DropSession(s)

ResetStep ==
    \/ \E f \in Forgots, u \in Users : ForgotDelete(f, u)
    \/ \E f \in Forgots, t \in Tokens : ForgotCreate(f, t)
    \/ \E f \in Forgots : ForgotEmail(f)
    \/ \E r \in Resets, t \in Tokens : ResetLookup(r, t) \/ ResetCommit(r, t)

CronStep ==
    \/ CronStart \/ ListStale \/ CronEnd
    \/ \E u \in Users : Materialise(u) \/ Sweep(u) \/ DeleteRow(u)

Next ==
    \/ SessionStep
    \/ ResetStep
    \/ CronStep
    \/ \E u \in Users : \/ Suspend(u) \/ Reinstate(u)
                        \/ RequestDeletion(u) \/ CancelDeletion(u)
                        \/ AccountThrows(u)
    \/ Crash
    \/ Tick

Spec == Init /\ [][Next]_vars

\* The daily cron fires and finishes, time passes.
FairSpec == Spec /\ WF_vars(CronStep) /\ WF_vars(Tick)

-----------------------------------------------------------------------------
(* Properties.                                                             *)

Sessions == [user : Users, version : Nat, secret : Nat]
SignIns == [on : BOOLEAN, user : Users, version : Nat, secret : Nat]
TokenRows == [state : {"none", "live", "used", "gone"}, user : Users,
              ttl : 0..Ttl, mailed : BOOLEAN]
ForgotRequests == [pc : {"idle", "create", "email"}, user : Users,
                   victims : SUBSET Tokens, mine : SUBSET Tokens]
CronRuns == [phase : {"idle", "materialise", "purge"}, todo : SUBSET Users, swept : SUBSET Users]

\* Every variable has its type.
TypeOK ==
    /\ status \in [Users -> {"active", "suspended", "deleted", "purged"}]
    /\ scheduled \in [Users -> BOOLEAN]
    /\ due \in [Users -> Floor..Grace]
    /\ scrubbed \in [Users -> BOOLEAN]
    /\ secret \in [Users -> Nat]
    /\ lastSecret \in [Users -> Nat]
    /\ version \in [Users -> Nat]
    /\ files \in [Users -> SUBSET Files]
    /\ sessions \subseteq Sessions
    /\ login \in [Logins -> SignIns]
    /\ token \in [Tokens -> TokenRows]
    /\ forgot \in [Forgots -> ForgotRequests]
    /\ reset \in [Resets -> SUBSET Tokens]
    /\ rotations \in [Tokens -> Nat]
    /\ cron \in CronRuns
    /\ cronAge \in 0..1
    /\ refused \in [Users -> SUBSET Files]
    /\ moderations \in 0..MaxModerations
    /\ faults \in 0..MaxFaults

\* A session the revocation check lets through belongs to an active account: a
\* sign-in that read the row before a suspension or an erasure, and minted its
\* session after it, gains nothing, not even once the member is reinstated.
\* And it was opened with the password in force: one opened, or being opened,
\* with an older password dies with it.
AcceptedIsCurrent ==
    \A s \in sessions :
        Accepted(s) => status[s.user] = "active" /\ s.secret = secret[s.user]

\* An erased account is scrubbed and has no password, whatever reset was being
\* submitted when it was erased.
ErasedHasNoCredential ==
    \A u \in Users : status[u] = "deleted" => scrubbed[u] /\ secret[u] = 0

\* An account is erased only when its member asked for it, has not taken it
\* back, and the whole grace period has passed: the run that listed it may be
\* older than a cancellation and a new request.
GraceHonoured ==
    [][\A u \in Users : status[u] = "active" /\ status'[u] = "deleted" =>
            scheduled[u] /\ due[u] <= 0]_vars

\* Erasure is one-way, and the row goes only after the retention period.
ErasureIsFinal ==
    [][\A u \in Users :
            /\ status[u] = "deleted" => status'[u] \in {"deleted", "purged"}
            /\ status'[u] = "purged" /\ status[u] # "purged" =>
                   status[u] = "deleted" /\ due[u] < 0 - HardPurge]_vars

\* Once its row is gone, nothing names an account's uploads any more: those
\* that are left are the ones whose delete was refused, whatever crash came
\* between the sweep and the row.
NothingStranded == \A u \in Users : status[u] = "purged" => files[u] = refused[u]

\* A reset link rotates a password once.
ResetOnce == \A t \in Tokens : rotations[t] <= 1

\* A member who asked for erasure, leaves it so and is not suspended is erased,
\* and the row goes (the cron lists no suspended member).
ErasureCompletes ==
    \A u \in Users : scheduled[u] ~> (~scheduled[u] \/ status[u] \in {"suspended", "purged"})

=============================================================================

--------------------------- MODULE AccountsProofs ---------------------------
(* Theorems about Accounts, for every value of its constants, and in a     *)
(* second part about the archives an account leaves (ExportJobs).  Each    *)
(* invariant of the runs rests on a clause about the work in flight: what  *)
(* a sign-in holds, what the cron has listed, what a token can still do.   *)
EXTENDS Accounts, ExportJobs, TLAPS

\* The constants as facts of arithmetic.
LEMMA SmallNumbers ==
    /\ Users # {}
    /\ Grace \in Nat /\ HardPurge \in Nat /\ Ttl \in Nat
    /\ MaxModerations \in Nat /\ MaxFaults \in Nat
    /\ Floor \in Int /\ Floor = 0 - (HardPurge + 2)
    /\ 0 \in Floor..Grace /\ Grace \in Floor..Grace /\ 0 - 1 \in Floor..Grace
    /\ 0 \in 0..Ttl /\ Ttl \in 0..Ttl
BY AccountsAssumption DEF AccountsAssumption, Floor

\* What an idle sign-in, token, request and cron run look like.
LEMMA IdleTypes ==
    NoLogin \in SignIns /\ NoToken \in TokenRows /\ NoForgot \in ForgotRequests
        /\ NoCron \in CronRuns
<1>1. (CHOOSE u \in Users : TRUE) \in Users
  BY SmallNumbers
<1> QED
  BY <1>1, SmallNumbers DEF NoLogin, NoToken, NoForgot, NoCron,
                            SignIns, TokenRows, ForgotRequests, CronRuns

\* What may happen to a row of password_reset_tokens keeps its type.
LEMMA TokenRowTypes ==
    ASSUME NEW r \in TokenRows
    PROVE  /\ [r EXCEPT !.state = "gone"] \in TokenRows
           /\ [r EXCEPT !.state = "used"] \in TokenRows
           /\ [r EXCEPT !.mailed = TRUE] \in TokenRows
           /\ Aged(r) \in TokenRows
           /\ r.user \in Users
<1>1. CASE r.ttl > 0
  <2>1. r.ttl - 1 \in 0..Ttl
    BY <1>1, SmallNumbers DEF TokenRows
  <2> QED
    BY <1>1, <2>1 DEF TokenRows, Aged
<1>2. CASE ~(r.ttl > 0)
  BY <1>2 DEF TokenRows, Aged
<1> QED
  BY <1>1, <1>2

\* What the listing of the cron may become keeps its type.
LEMMA CronRunTypes ==
    ASSUME cron \in CronRuns, NEW u \in Users
    PROVE  /\ [cron EXCEPT !.todo = @ \ {u}] \in CronRuns
           /\ [cron EXCEPT !.todo = @ \ {u}, !.swept = {}] \in CronRuns
           /\ [cron EXCEPT !.swept = {u}] \in CronRuns
BY DEF CronRuns

\* The initial state is well typed.
LEMMA TypeInit == Init => TypeOK
<1> SUFFICES ASSUME Init PROVE TypeOK
  OBVIOUS
<1>1. /\ login \in [Logins -> SignIns] /\ token \in [Tokens -> TokenRows]
      /\ forgot \in [Forgots -> ForgotRequests] /\ cron \in CronRuns
  BY IdleTypes DEF Init
<1>2. moderations \in 0..MaxModerations /\ faults \in 0..MaxFaults
  BY SmallNumbers DEF Init
<1>3. due \in [Users -> Floor..Grace]
  BY SmallNumbers DEF Init
<1> QED
  BY <1>1, <1>2, <1>3 DEF Init, TypeOK

\* Every step keeps the types.
LEMMA TypeStep == TypeOK /\ [Next]_vars => TypeOK'
<1> SUFFICES ASSUME TypeOK, [Next]_vars PROVE TypeOK'
  OBVIOUS
<1> USE DEF TypeOK
<1>1. CASE SessionStep
  <2>1. ASSUME NEW l \in Logins, NEW u \in Users, LoginRead(l, u) PROVE TypeOK'
    BY <2>1 DEF LoginRead, SignIns, userVars, resetVars, cronVars, boundVars
  <2>2. ASSUME NEW l \in Logins, LoginMint(l) PROVE TypeOK'
    BY <2>2, IdleTypes DEF LoginMint, Sessions, SignIns, userVars, resetVars, cronVars, boundVars
  <2>3. ASSUME NEW s \in sessions, DropSession(s) PROVE TypeOK'
    BY <2>3 DEF DropSession, userVars, resetVars, cronVars, boundVars
  <2> QED
    BY <1>1, <2>1, <2>2, <2>3 DEF SessionStep
<1>2. CASE ResetStep
  <2>1. ASSUME NEW f \in Forgots, NEW u \in Users, ForgotDelete(f, u) PROVE TypeOK'
    BY <2>1 DEF ForgotDelete, Rows, ForgotRequests, userVars, cronVars, boundVars
  <2>2. ASSUME NEW f \in Forgots, NEW t \in Tokens, ForgotCreate(f, t) PROVE TypeOK'
    <3>1. CASE status[forgot[f].user] = "purged"
      BY <2>2, <3>1, IdleTypes DEF ForgotCreate, userVars, cronVars, boundVars
    <3>2. CASE status[forgot[f].user] # "purged"
      <4>1. [state |-> "live", user |-> forgot[f].user, ttl |-> Ttl, mailed |-> FALSE]
              \in TokenRows
        BY SmallNumbers DEF TokenRows, ForgotRequests
      <4>2. token' \in [Tokens -> TokenRows]
        <5>1. \A s \in Tokens : [token[s] EXCEPT !.state = "gone"] \in TokenRows
          BY TokenRowTypes
        <5> DEFINE entry == [state |-> "live", user |-> forgot[f].user, ttl |-> Ttl,
                             mailed |-> FALSE]
        <5> HIDE DEF entry
        <5>2. entry \in TokenRows
          BY <4>1 DEF entry
        <5>3. token' = [s \in Tokens |-> IF s = t THEN entry
                   ELSE IF s \in forgot[f].victims THEN [token[s] EXCEPT !.state = "gone"]
                   ELSE token[s]]
          BY <2>2, <3>2 DEF ForgotCreate, entry
        <5> QED
          BY <5>1, <5>2, <5>3
      <4>3. forgot' \in [Forgots -> ForgotRequests]
        <5>1. [forgot[f] EXCEPT !.pc = "email", !.mine = {t}] \in ForgotRequests
          <6>1. forgot[f] \in ForgotRequests /\ {t} \in SUBSET Tokens
            OBVIOUS
          <6> QED
            BY <6>1 DEF ForgotRequests
        <5>2. forgot' = [forgot EXCEPT ![f] = [forgot[f] EXCEPT !.pc = "email", !.mine = {t}]]
          BY <2>2, <3>2 DEF ForgotCreate
        <5> QED
          BY <5>1, <5>2
      <4> QED
        BY <2>2, <3>2, <4>2, <4>3 DEF ForgotCreate, userVars, cronVars, boundVars
    <3> QED
      BY <3>1, <3>2
  <2>3. ASSUME NEW f \in Forgots, ForgotEmail(f) PROVE TypeOK'
    <3>1. \A s \in Tokens : token[s] \in TokenRows
      OBVIOUS
    <3>2. token' \in [Tokens -> TokenRows]
      <4>1. \A s \in Tokens : /\ [token[s] EXCEPT !.mailed = TRUE] \in TokenRows
                              /\ [token[s] EXCEPT !.state = "gone"] \in TokenRows
        BY <3>1, TokenRowTypes
      <4> QED
        BY <2>3, <3>1, <4>1 DEF ForgotEmail
    <3>3. faults' \in 0..MaxFaults
      BY <2>3, SmallNumbers DEF ForgotEmail
    <3> QED
      BY <2>3, <3>2, <3>3, IdleTypes DEF ForgotEmail, userVars, cronVars
  <2>4. ASSUME NEW r \in Resets, NEW t \in Tokens, ResetLookup(r, t) PROVE TypeOK'
    BY <2>4 DEF ResetLookup, userVars, cronVars, boundVars
  <2>5. ASSUME NEW r \in Resets, NEW t \in Tokens, ResetCommit(r, t) PROVE TypeOK'
    <3>1. token' \in [Tokens -> TokenRows]
      <4>1. [token[t] EXCEPT !.state = "used"] \in TokenRows
        BY TokenRowTypes
      <4>2. CASE Consumable(t)
        BY <2>5, <4>1, <4>2 DEF ResetCommit
      <4>3. CASE ~Consumable(t)
        BY <2>5, <4>3 DEF ResetCommit
      <4> QED
        BY <4>2, <4>3
    <3>2. /\ secret' \in [Users -> Nat] /\ lastSecret' \in [Users -> Nat]
          /\ version' \in [Users -> Nat] /\ rotations' \in [Tokens -> Nat]
      <4>1. token[t].user \in Users
        BY TokenRowTypes
      <4>2. CASE ~Consumable(t)
        BY <2>5, <4>2 DEF ResetCommit, userVars
      <4>3. CASE Consumable(t) /\ MayRotate(token[t].user)
        BY <2>5, <4>1, <4>3 DEF ResetCommit, VersionAfterReset
      <4>4. CASE Consumable(t) /\ ~MayRotate(token[t].user)
        BY <2>5, <4>4 DEF ResetCommit
      <4> QED
        BY <4>2, <4>3, <4>4
    <3>3. UNCHANGED <<status, scheduled, due, scrubbed, files, sessions, login, forgot,
                      cronVars, boundVars>>
      BY <2>5 DEF ResetCommit, userVars
    <3>4. reset' \in [Resets -> SUBSET Tokens]
      BY <2>5 DEF ResetCommit
    <3> QED
      BY <3>1, <3>2, <3>3, <3>4 DEF cronVars, boundVars
  <2> QED
    BY <1>2, <2>1, <2>2, <2>3, <2>4, <2>5 DEF ResetStep
<1>3. CASE CronStep
  <2>1. CASE CronStart
    BY <2>1 DEF CronStart, CronRuns, userVars, resetVars, boundVars
  <2>2. CASE ListStale
    BY <2>2 DEF ListStale, CronRuns, userVars, resetVars, boundVars
  <2>3. CASE CronEnd
    BY <2>3, IdleTypes DEF CronEnd, userVars, resetVars, boundVars
  <2>4. ASSUME NEW u \in Users, Materialise(u) PROVE TypeOK'
    <3>1. 0 - cronAge \in Floor..Grace
      BY SmallNumbers
    <3>2. due' \in [Users -> Floor..Grace]
      BY <2>4, <3>1 DEF Materialise
    <3>3. cron' \in CronRuns
      BY <2>4, CronRunTypes DEF Materialise
    <3>4. /\ status' \in [Users -> {"active", "suspended", "deleted", "purged"}]
          /\ scheduled' \in [Users -> BOOLEAN] /\ scrubbed' \in [Users -> BOOLEAN]
          /\ secret' \in [Users -> Nat] /\ version' \in [Users -> Nat]
      <4>1. CASE MayMaterialise(u)
        <5>1. /\ status' = [status EXCEPT ![u] = "deleted"]
              /\ scheduled' = [scheduled EXCEPT ![u] = TRUE]
              /\ scrubbed' = [scrubbed EXCEPT ![u] = TRUE]
              /\ secret' = [secret EXCEPT ![u] = 0]
              /\ version' = [version EXCEPT ![u] = @ + 1]
          BY <2>4, <4>1, Zenon DEF Materialise
        <5>2. secret' \in [Users -> Nat] /\ version' \in [Users -> Nat]
          BY <5>1
        <5> QED
          BY <5>1, <5>2
      <4>2. CASE ~MayMaterialise(u)
        BY <2>4, <4>2 DEF Materialise
      <4> QED
        BY <4>1, <4>2
    <3> QED
      BY <2>4, <3>2, <3>3, <3>4 DEF Materialise, resetVars, boundVars
  <2>5. ASSUME NEW u \in Users, Sweep(u) PROVE TypeOK'
    <3>1. cron' \in CronRuns
      BY <2>5, CronRunTypes DEF Sweep
    <3>2. PICK failed \in SUBSET files[u] :
            /\ failed # {} => faults < MaxFaults
            /\ files' = [files EXCEPT ![u] = failed]
            /\ refused' = [refused EXCEPT ![u] = failed]
            /\ faults' = IF failed # {} THEN faults + 1 ELSE faults
      BY <2>5, Zenon DEF Sweep
    <3>3. faults' \in 0..MaxFaults
      BY <3>2, SmallNumbers
    <3>4. files' \in [Users -> SUBSET Files] /\ refused' \in [Users -> SUBSET Files]
      BY <3>2
    <3> QED
      BY <2>5, <3>1, <3>3, <3>4 DEF Sweep, resetVars
  <2>6. ASSUME NEW u \in Users, DeleteRow(u) PROVE TypeOK'
    <3>1. token' \in [Tokens -> TokenRows]
      BY <2>6, TokenRowTypes DEF DeleteRow
    <3> QED
      BY <2>6, <3>1, CronRunTypes DEF DeleteRow, boundVars
  <2> QED
    BY <1>3, <2>1, <2>2, <2>3, <2>4, <2>5, <2>6 DEF CronStep
<1>4. ASSUME NEW u \in Users, Suspend(u) PROVE TypeOK'
  BY <1>4, SmallNumbers DEF Suspend, VersionAfterSuspend, resetVars, cronVars
<1>5. ASSUME NEW u \in Users, Reinstate(u) PROVE TypeOK'
  BY <1>5 DEF Reinstate, resetVars, cronVars, boundVars
<1>6. ASSUME NEW u \in Users, RequestDeletion(u) PROVE TypeOK'
  BY <1>6, SmallNumbers DEF RequestDeletion, resetVars, cronVars, boundVars
<1>7. ASSUME NEW u \in Users, CancelDeletion(u) PROVE TypeOK'
  BY <1>7, SmallNumbers DEF CancelDeletion, resetVars, cronVars, boundVars
<1>8. ASSUME NEW u \in Users, AccountThrows(u) PROVE TypeOK'
  <2>1. cron' \in CronRuns
    BY <1>8, CronRunTypes DEF AccountThrows
  <2>2. faults' \in 0..MaxFaults
    BY <1>8, SmallNumbers DEF AccountThrows
  <2> QED
    BY <1>8, <2>1, <2>2 DEF AccountThrows, userVars, resetVars
<1>9. CASE Crash
  <2>1. faults' \in 0..MaxFaults
    BY <1>9, SmallNumbers DEF Crash
  <2>2. /\ login' \in [Logins -> SignIns] /\ forgot' \in [Forgots -> ForgotRequests]
        /\ reset' \in [Resets -> SUBSET Tokens] /\ cron' \in CronRuns
    BY <1>9, IdleTypes DEF Crash
  <2>3. cronAge' \in 0..1
    BY <1>9 DEF Crash
  <2> QED
    BY <1>9, <2>1, <2>2, <2>3 DEF Crash, userVars
<1>10. CASE Tick
  <2>1. due' \in [Users -> Floor..Grace]
    BY <1>10, SmallNumbers DEF Tick
  <2>2. token' \in [Tokens -> TokenRows]
    BY <1>10, TokenRowTypes DEF Tick
  <2>3. cronAge' \in 0..1
    BY <1>10 DEF Tick
  <2> QED
    BY <1>10, <2>1, <2>2, <2>3 DEF Tick, boundVars
<1>11. CASE UNCHANGED vars
  BY <1>11 DEF vars, userVars, resetVars, cronVars, boundVars
<1> QED
  BY <1>1, <1>2, <1>3, <1>4, <1>5, <1>6, <1>7, <1>8, <1>9, <1>10, <1>11 DEF Next

\* The steps that write a status.
LEMMA StatusCases ==
    ASSUME [Next]_vars, status' # status
    PROVE  \E u \in Users : Materialise(u) \/ DeleteRow(u) \/ Suspend(u) \/ Reinstate(u)
<1> USE DEF userVars
<1>1. ~SessionStep
  BY DEF SessionStep, LoginRead, LoginMint, DropSession
<1>2. ~ResetStep
  BY DEF ResetStep, ForgotDelete, ForgotCreate, ForgotEmail, ResetLookup, ResetCommit
<1>3. ~(CronStart \/ ListStale \/ CronEnd \/ Crash \/ Tick \/ UNCHANGED vars)
  BY DEF CronStart, ListStale, CronEnd, Crash, Tick, vars
<1>4. \A u \in Users : ~(Sweep(u) \/ RequestDeletion(u) \/ CancelDeletion(u) \/ AccountThrows(u))
  BY DEF Sweep, RequestDeletion, CancelDeletion, AccountThrows
<1> QED
  BY <1>1, <1>2, <1>3, <1>4 DEF Next, CronStep

-----------------------------------------------------------------------------
(* Erasure.  Between two steps the cron trusts its list: the accounts on it *)
(* are erased and out of their retention, and stay so, until it reaches     *)
(* them; the uploads of the one it has swept are those storage refused.     *)

\* What the cron has listed to purge, and what it has swept, is still so.
ListedInv ==
    cron.phase = "purge" =>
        /\ \A u \in cron.todo \cup cron.swept : status[u] = "deleted" /\ due[u] < 0 - HardPurge
        /\ \A u \in cron.swept : files[u] = refused[u]

\* The strengthening of ErasedHasNoCredential and NothingStranded.
ErasureInv == ListedInv /\ ErasedHasNoCredential /\ NothingStranded

\* The steps that touch the cron run or what it looks at; every other leaves them.
LEMMA ErasureCases ==
    ASSUME [Next]_vars
    PROVE  \/ UNCHANGED <<cron, status, due, files, refused, scrubbed, secret>>
           \/ CronStart \/ ListStale \/ CronEnd \/ Crash \/ Tick
           \/ \E u \in Users : Materialise(u) \/ Sweep(u) \/ DeleteRow(u) \/ AccountThrows(u)
           \/ \E u \in Users : Suspend(u) \/ Reinstate(u) \/ RequestDeletion(u) \/ CancelDeletion(u)
           \/ \E r \in Resets, t \in Tokens : ResetCommit(r, t)
<1> USE DEF userVars, resetVars, cronVars, boundVars
<1>1. SessionStep => UNCHANGED <<cron, status, due, files, refused, scrubbed, secret>>
  BY DEF SessionStep, LoginRead, LoginMint, DropSession
<1>2. CASE ResetStep
  <2>1. ASSUME NEW f \in Forgots, NEW u \in Users, ForgotDelete(f, u)
        PROVE  UNCHANGED <<cron, status, due, files, refused, scrubbed, secret>>
    BY <2>1 DEF ForgotDelete
  <2>2. ASSUME NEW f \in Forgots, NEW t \in Tokens, ForgotCreate(f, t)
        PROVE  UNCHANGED <<cron, status, due, files, refused, scrubbed, secret>>
    BY <2>2 DEF ForgotCreate
  <2>3. ASSUME NEW f \in Forgots, ForgotEmail(f)
        PROVE  UNCHANGED <<cron, status, due, files, refused, scrubbed, secret>>
    BY <2>3 DEF ForgotEmail
  <2>4. ASSUME NEW r \in Resets, NEW t \in Tokens, ResetLookup(r, t)
        PROVE  UNCHANGED <<cron, status, due, files, refused, scrubbed, secret>>
    BY <2>4 DEF ResetLookup
  <2> QED
    BY <1>2, <2>1, <2>2, <2>3, <2>4 DEF ResetStep
<1>3. UNCHANGED vars => UNCHANGED <<cron, status, due, files, refused, scrubbed, secret>>
  BY DEF vars
<1> QED
  BY <1>1, <1>2, <1>3 DEF Next, CronStep

\* The initial state: nothing is listed, nobody is erased.
LEMMA ErasureInit == Init => ErasureInv
BY DEF Init, NoCron, ErasureInv, ListedInv, ErasedHasNoCredential, NothingStranded

\* Every step keeps ErasureInv.
LEMMA ErasureStep == TypeOK /\ ErasureInv /\ [Next]_vars => ErasureInv'
<1> SUFFICES ASSUME TypeOK, ErasureInv, [Next]_vars PROVE ErasureInv'
  OBVIOUS
<1> USE DEF userVars, resetVars, cronVars, boundVars
<1> USE DEF ErasureInv, ListedInv, ErasedHasNoCredential, NothingStranded
<1>1. CASE UNCHANGED <<cron, status, due, files, refused, scrubbed, secret>>
  BY <1>1
<1>2. CASE CronStart
  BY <1>2 DEF CronStart
<1>3. CASE ListStale
  <2>1. ListedInv'
    BY <1>3, SmallNumbers DEF ListStale, Stale, TypeOK
  <2> QED
    BY <1>3, <2>1 DEF ListStale
<1>4. CASE CronEnd \/ Crash
  BY <1>4 DEF CronEnd, Crash, NoCron
<1>5. CASE Tick
  <2>1. \A u \in Users : due'[u] <= due[u] /\ due'[u] \in Int /\ due[u] \in Int
    BY <1>5, SmallNumbers DEF Tick, TypeOK
  <2>2. cron \in CronRuns
    BY DEF TypeOK
  <2>3. cron.todo \cup cron.swept \subseteq Users
    BY <2>2 DEF CronRuns
  <2>4. UNCHANGED <<cron, status, files, refused, scrubbed, secret>>
    BY <1>5 DEF Tick
  <2> QED
    BY <2>1, <2>3, <2>4, SmallNumbers
<1>6. ASSUME NEW u \in Users, Materialise(u) PROVE ErasureInv'
  <2>1. cron.phase = "materialise" /\ cron' = [cron EXCEPT !.todo = @ \ {u}]
    BY <1>6 DEF Materialise
  <2>2. ListedInv'
    BY <2>1 DEF TypeOK, CronRuns
  <2>3. ErasedHasNoCredential' /\ NothingStranded'
    BY <1>6 DEF Materialise, TypeOK
  <2> QED
    BY <2>2, <2>3
<1>7. ASSUME NEW u \in Users, Sweep(u) PROVE ErasureInv'
  <2>1. /\ cron.phase = "purge" /\ u \in cron.todo
        /\ cron' = [cron EXCEPT !.swept = {u}]
        /\ UNCHANGED <<status, due, scrubbed, secret>>
    BY <1>7 DEF Sweep
  <2>2. PICK failed \in SUBSET files[u] :
          /\ files' = [files EXCEPT ![u] = failed]
          /\ refused' = [refused EXCEPT ![u] = failed]
    BY <1>7, Zenon DEF Sweep
  <2>3. /\ cron'.phase = "purge" /\ cron'.todo = cron.todo /\ cron'.swept = {u}
        /\ files'[u] = refused'[u]
        /\ \A v \in Users \ {u} : files'[v] = files[v] /\ refused'[v] = refused[v]
    BY <2>1, <2>2 DEF TypeOK, CronRuns
  <2>4. status[u] = "deleted"
    BY <2>1
  <2> QED
    BY <2>1, <2>3, <2>4
<1>8. ASSUME NEW u \in Users, DeleteRow(u) PROVE ErasureInv'
  <2>1. /\ cron.phase = "purge" /\ u \in cron.swept
        /\ cron' = [cron EXCEPT !.todo = @ \ {u}, !.swept = {}]
        /\ status' = [status EXCEPT ![u] = "purged"]
        /\ UNCHANGED <<due, scrubbed, secret, files, refused>>
    BY <1>8 DEF DeleteRow, SweptFirst
  <2>2. cron'.phase = "purge" /\ cron'.todo = cron.todo \ {u} /\ cron'.swept = {}
    BY <2>1 DEF TypeOK, CronRuns
  <2>3. cron.todo \subseteq Users
    BY DEF TypeOK, CronRuns
  <2>4. \A v \in Users : status'[v] = IF v = u THEN "purged" ELSE status[v]
    BY <2>1 DEF TypeOK
  <2> QED
    BY <2>1, <2>2, <2>3, <2>4
<1>9. ASSUME NEW u \in Users, AccountThrows(u) PROVE ErasureInv'
  <2>1. /\ cron' = [cron EXCEPT !.todo = @ \ {u}, !.swept = {}]
        /\ UNCHANGED <<status, due, scrubbed, secret, files, refused>>
    BY <1>9 DEF AccountThrows
  <2>2. cron'.phase = cron.phase /\ cron'.todo = cron.todo \ {u} /\ cron'.swept = {}
    BY <2>1 DEF TypeOK, CronRuns
  <2> QED
    BY <2>1, <2>2
<1>10. ASSUME NEW u \in Users,
              Suspend(u) \/ Reinstate(u) \/ RequestDeletion(u) \/ CancelDeletion(u)
       PROVE  ErasureInv'
  \* None of them touches an erased account.
  <2>1. status[u] \in {"active", "suspended"} /\ status'[u] \in {"active", "suspended"}
    BY <1>10 DEF Suspend, Reinstate, MayReinstate, RequestDeletion, CancelDeletion,
                 SignedIn, TypeOK
  <2>2. \A v \in Users \ {u} : status'[v] = status[v] /\ due'[v] = due[v]
    BY <1>10 DEF Suspend, Reinstate, RequestDeletion, CancelDeletion, TypeOK
  <2>3. UNCHANGED <<cron, files, refused, scrubbed, secret>>
    BY <1>10 DEF Suspend, Reinstate, RequestDeletion, CancelDeletion
  <2>4. cron.todo \cup cron.swept \subseteq Users
    BY DEF TypeOK, CronRuns
  <2> QED
    BY <2>1, <2>2, <2>3, <2>4
<1>11. ASSUME NEW r \in Resets, NEW t \in Tokens, ResetCommit(r, t) PROVE ErasureInv'
  <2>1. UNCHANGED <<cron, status, due, files, refused, scrubbed>>
    BY <1>11 DEF ResetCommit
  <2>2. \A u \in Users : status[u] # "active" => secret'[u] = secret[u]
    BY <1>11 DEF ResetCommit, MayRotate, TypeOK
  <2> QED
    BY <2>1, <2>2
<1> QED
  BY <1>1, <1>2, <1>3, <1>4, <1>5, <1>6, <1>7, <1>8, <1>9, <1>10, <1>11, ErasureCases

-----------------------------------------------------------------------------
(* Sessions.  What a browser or a sign-in in flight holds is either older   *)
(* than the version in force, which the revocation check refuses, or was    *)
(* read from the row as it still is.                                        *)

\* x is refused, or it was read from the row as it still is.
Fresh(x) ==
    /\ x.version <= version[x.user]
    /\ x.version = version[x.user] => status[x.user] = "active" /\ x.secret = secret[x.user]

\* Every session is fresh, and so will be the session of every sign-in in flight.
SessionsInv ==
    /\ \A s \in sessions : Fresh(s)
    /\ \A l \in Logins : login[l].on => Fresh(login[l])

\* The steps that touch a row, a session or a sign-in; every other leaves them.
LEMMA SessionCases ==
    ASSUME [Next]_vars
    PROVE  \/ UNCHANGED <<status, secret, version, sessions, login>>
           \/ \E l \in Logins, u \in Users : LoginRead(l, u)
           \/ \E l \in Logins : LoginMint(l)
           \/ \E s \in sessions : DropSession(s)
           \/ \E r \in Resets, t \in Tokens : ResetCommit(r, t)
           \/ \E u \in Users : Materialise(u) \/ DeleteRow(u) \/ Suspend(u) \/ Reinstate(u)
           \/ Crash
<1> USE DEF userVars, resetVars, cronVars, boundVars
<1>1. CASE SessionStep
  BY <1>1 DEF SessionStep
<1>2. CASE ResetStep
  <2>1. ASSUME NEW f \in Forgots, NEW u \in Users, ForgotDelete(f, u)
        PROVE  UNCHANGED <<status, secret, version, sessions, login>>
    BY <2>1 DEF ForgotDelete
  <2>2. ASSUME NEW f \in Forgots, NEW t \in Tokens, ForgotCreate(f, t)
        PROVE  UNCHANGED <<status, secret, version, sessions, login>>
    BY <2>2 DEF ForgotCreate
  <2>3. ASSUME NEW f \in Forgots, ForgotEmail(f)
        PROVE  UNCHANGED <<status, secret, version, sessions, login>>
    BY <2>3 DEF ForgotEmail
  <2>4. ASSUME NEW r \in Resets, NEW t \in Tokens, ResetLookup(r, t)
        PROVE  UNCHANGED <<status, secret, version, sessions, login>>
    BY <2>4 DEF ResetLookup
  <2> QED
    BY <1>2, <2>1, <2>2, <2>3, <2>4 DEF ResetStep
<1>3. CASE CronStep
  <2>1. CronStart \/ ListStale \/ CronEnd => UNCHANGED <<status, secret, version, sessions, login>>
    BY DEF CronStart, ListStale, CronEnd
  <2>2. ASSUME NEW u \in Users, Sweep(u)
        PROVE  UNCHANGED <<status, secret, version, sessions, login>>
    BY <2>2 DEF Sweep
  <2> QED
    BY <1>3, <2>1, <2>2 DEF CronStep
<1>4. ASSUME NEW u \in Users, RequestDeletion(u) \/ CancelDeletion(u) \/ AccountThrows(u)
      PROVE  UNCHANGED <<status, secret, version, sessions, login>>
  BY <1>4 DEF RequestDeletion, CancelDeletion, AccountThrows
<1>5. Tick \/ UNCHANGED vars => UNCHANGED <<status, secret, version, sessions, login>>
  BY DEF Tick, vars
<1> QED
  BY <1>1, <1>2, <1>3, <1>4, <1>5 DEF Next

\* A bump of one member's version makes everything that was read before it stale,
\* and leaves what belongs to others as it is.
LEMMA BumpStales ==
    ASSUME TypeOK, NEW u \in Users, NEW x, x.user \in Users, x.version \in Nat, Fresh(x),
           version' = [version EXCEPT ![u] = @ + 1],
           \A v \in Users \ {u} : status'[v] = status[v] /\ secret'[v] = secret[v]
    PROVE  Fresh(x)'
<1>1. CASE x.user = u
  <2>1. version'[u] = version[u] + 1 /\ version[u] \in Nat
    BY DEF TypeOK
  <2> QED
    BY <1>1, <2>1 DEF Fresh
<1>2. CASE x.user # u
  BY <1>2 DEF Fresh, TypeOK
<1> QED
  BY <1>1, <1>2

\* The records of sessions and sign-ins have a user and a version.
LEMMA SessionFields ==
    ASSUME TypeOK
    PROVE  /\ \A s \in sessions : s.user \in Users /\ s.version \in Nat
           /\ \A l \in Logins : login[l].user \in Users /\ login[l].version \in Nat
BY DEF TypeOK, Sessions, SignIns

\* Every step keeps sessions and sign-ins fresh.
LEMMA SessionsStep == TypeOK /\ ErasureInv /\ SessionsInv /\ [Next]_vars => SessionsInv'
<1> SUFFICES ASSUME TypeOK, ErasureInv, SessionsInv, [Next]_vars PROVE SessionsInv'
  OBVIOUS
<1> USE DEF userVars, resetVars, cronVars, boundVars
<1>1. CASE UNCHANGED <<status, secret, version, sessions, login>>
  BY <1>1 DEF SessionsInv, Fresh
<1>2. ASSUME NEW l \in Logins, NEW u \in Users, LoginRead(l, u) PROVE SessionsInv'
  <2>1. UNCHANGED <<status, secret, version, sessions>>
    BY <1>2 DEF LoginRead
  <2>2. \A k \in Logins : login'[k] =
          IF k = l THEN [on |-> TRUE, user |-> u, version |-> version[u], secret |-> secret[u]]
          ELSE login[k]
    BY <1>2 DEF LoginRead, TypeOK
  <2>3. status[u] = "active" /\ version[u] \in Nat
    BY <1>2 DEF LoginRead, TypeOK
  <2> QED
    BY <2>1, <2>2, <2>3 DEF SessionsInv, Fresh
<1>3. ASSUME NEW l \in Logins, LoginMint(l) PROVE SessionsInv'
  <2>1. UNCHANGED <<status, secret, version>> /\ login[l].on
    BY <1>3 DEF LoginMint
  <2>2. \A k \in Logins : login'[k] = IF k = l THEN NoLogin ELSE login[k]
    BY <1>3 DEF LoginMint, TypeOK
  <2>3. \A s \in sessions' : s \in sessions \/ s = [user |-> login[l].user,
             version |-> login[l].version, secret |-> login[l].secret]
    BY <1>3 DEF LoginMint
  <2>4. \A s \in sessions' : Fresh(s)
    BY <2>1, <2>3 DEF SessionsInv, Fresh
  <2>5. ASSUME NEW k \in Logins, login'[k].on PROVE login[k].on /\ login'[k] = login[k]
    <3>1. NoLogin.on = FALSE
      BY DEF NoLogin
    <3>2. k # l
      BY <2>2, <2>5, <3>1
    <3>3. login'[k] = login[k]
      BY <2>2, <3>2
    <3> QED
      BY <2>5, <3>3
  <2>6. ASSUME NEW k \in Logins, login'[k].on PROVE Fresh(login[k])'
    <3>1. login'[k] = login[k] /\ Fresh(login[k])
      BY <2>5, <2>6 DEF SessionsInv
    <3> QED
      BY <2>1, <3>1 DEF Fresh
  <2>7. \A s \in sessions' : Fresh(s)'
    BY <2>1, <2>4 DEF Fresh
  <2> QED
    BY <2>6, <2>7 DEF SessionsInv
<1>4. ASSUME NEW s \in sessions, DropSession(s) PROVE SessionsInv'
  BY <1>4 DEF DropSession, SessionsInv, Fresh
<1>5. ASSUME NEW r \in Resets, NEW t \in Tokens, ResetCommit(r, t) PROVE SessionsInv'
  <2> DEFINE u == token[t].user
  <2>1. sessions' = sessions /\ login' = login
    BY <1>5 DEF ResetCommit
  <2>2. u \in Users
    BY TokenRowTypes DEF TypeOK, ResetCommit
  <2>3. CASE Consumable(t) /\ MayRotate(u)
    <3>1. version' = [version EXCEPT ![u] = @ + 1]
      BY <1>5, <2>3 DEF ResetCommit, VersionAfterReset
    <3>2. \A v \in Users \ {u} : status'[v] = status[v] /\ secret'[v] = secret[v]
      BY <1>5, <2>3, <2>2 DEF ResetCommit, TypeOK
    <3> HIDE DEF u
    <3> QED
      BY <2>1, <2>2, <3>1, <3>2, SessionFields, BumpStales DEF SessionsInv
  <2>4. CASE ~(Consumable(t) /\ MayRotate(u))
    <3>1. UNCHANGED <<status, secret, version>>
      BY <1>5, <2>4 DEF ResetCommit
    <3> QED
      BY <2>1, <3>1 DEF SessionsInv, Fresh
  <2> QED
    BY <2>3, <2>4
<1>6. ASSUME NEW u \in Users, Materialise(u) PROVE SessionsInv'
  <2>1. sessions' = sessions /\ login' = login
    BY <1>6 DEF Materialise
  <2>2. CASE MayMaterialise(u)
    <3>1. version' = [version EXCEPT ![u] = @ + 1]
      BY <1>6, <2>2 DEF Materialise
    <3>2. \A v \in Users \ {u} : status'[v] = status[v] /\ secret'[v] = secret[v]
      BY <1>6, <2>2 DEF Materialise, TypeOK
    <3> QED
      BY <2>1, <3>1, <3>2, SessionFields, BumpStales DEF SessionsInv
  <2>3. CASE ~MayMaterialise(u)
    BY <1>6, <2>1, <2>3 DEF Materialise, SessionsInv, Fresh
  <2> QED
    BY <2>2, <2>3
<1>7. ASSUME NEW u \in Users, Suspend(u) PROVE SessionsInv'
  <2>1. sessions' = sessions /\ login' = login
    BY <1>7 DEF Suspend
  <2>2. version' = [version EXCEPT ![u] = @ + 1]
    BY <1>7 DEF Suspend, VersionAfterSuspend
  <2>3. \A v \in Users \ {u} : status'[v] = status[v] /\ secret'[v] = secret[v]
    BY <1>7 DEF Suspend, TypeOK
  <2> QED
    BY <2>1, <2>2, <2>3, SessionFields, BumpStales DEF SessionsInv
<1>8. ASSUME NEW u \in Users, DeleteRow(u) \/ Reinstate(u), status[u] # "active" PROVE SessionsInv'
  \* What is fresh belongs to an active member, so not to u.
  <2>1. UNCHANGED <<secret, version, sessions, login>>
    BY <1>8 DEF DeleteRow, Reinstate
  <2>2. \A v \in Users \ {u} : status'[v] = status[v]
    BY <1>8 DEF DeleteRow, Reinstate, TypeOK
  <2> QED
    BY <1>8, <2>1, <2>2, SessionFields DEF SessionsInv, Fresh
<1>9. CASE Crash
  BY <1>9 DEF Crash, SessionsInv, Fresh, NoLogin
<1>10. ASSUME NEW u \in Users, Reinstate(u) PROVE SessionsInv'
  BY <1>8, <1>10 DEF Reinstate, MayReinstate
<1>11. ASSUME NEW u \in Users, DeleteRow(u) PROVE SessionsInv'
  <2>1. status[u] = "deleted"
    BY <1>11 DEF DeleteRow, SweptFirst, ErasureInv, ListedInv
  <2> QED
    BY <1>8, <1>11, <2>1
<1> QED
  BY <1>1, <1>2, <1>3, <1>4, <1>5, <1>6, <1>7, <1>9, <1>10, <1>11, SessionCases

\* The initial state: no session, no sign-in in flight.
LEMMA SessionsInit == Init => SessionsInv
BY DEF Init, NoLogin, SessionsInv

-----------------------------------------------------------------------------
(* Reset links.                                                             *)

\* A token that may still be consumed has rotated nothing.
TokensInv == \A t \in Tokens :
    /\ rotations[t] <= 1
    /\ token[t].state \in {"none", "live"} => rotations[t] = 0

\* Every step keeps TokensInv: tokens only ever move on, except that a fresh one
\* becomes live, and only the consuming write rotates.
LEMMA TokensStep == TypeOK /\ TokensInv /\ [Next]_vars => TokensInv'
<1> SUFFICES ASSUME TypeOK, TokensInv, [Next]_vars PROVE TokensInv'
  OBVIOUS
<1> USE DEF userVars, resetVars, cronVars, boundVars
<1>1. CASE UNCHANGED <<token, rotations>>
  BY <1>1 DEF TokensInv
<1>2. ASSUME UNCHANGED rotations,
             \A t \in Tokens : token'[t].state \in {"none", "live"} =>
                                 token[t].state \in {"none", "live"}
      PROVE  TokensInv'
  BY <1>2 DEF TokensInv
<1>3. CASE SessionStep
  BY <1>1, <1>3 DEF SessionStep, LoginRead, LoginMint, DropSession
<1>4. CASE ResetStep
  <2>1. ASSUME NEW f \in Forgots, NEW u \in Users, ForgotDelete(f, u) PROVE TokensInv'
    BY <1>1, <2>1 DEF ForgotDelete
  <2>2. ASSUME NEW f \in Forgots, NEW t \in Tokens, ForgotCreate(f, t) PROVE TokensInv'
    <3>1. CASE status[forgot[f].user] = "purged"
      BY <1>1, <2>2, <3>1 DEF ForgotCreate
    <3>2. CASE status[forgot[f].user] # "purged"
      <4>1. token[t].state = "none" /\ rotations' = rotations
        BY <2>2 DEF ForgotCreate
      <4>2. \A s \in Tokens : s # t => token'[s] =
                IF s \in forgot[f].victims THEN [token[s] EXCEPT !.state = "gone"] ELSE token[s]
        BY <2>2, <3>2 DEF ForgotCreate
      <4>3. \A s \in Tokens : token[s] \in TokenRows
        BY DEF TypeOK
      <4>4. \A s \in Tokens : [token[s] EXCEPT !.state = "gone"].state = "gone"
        BY <4>3 DEF TokenRows
      <4> QED
        BY <1>2, <4>1, <4>2, <4>4
    <3> QED
      BY <3>1, <3>2
  <2>3. ASSUME NEW f \in Forgots, ForgotEmail(f) PROVE TokensInv'
    <3>1. \A s \in Tokens :
            /\ [token[s] EXCEPT !.mailed = TRUE].state = token[s].state
            /\ [token[s] EXCEPT !.state = "gone"].state = "gone"
      BY DEF TypeOK, TokenRows
    <3> QED
      BY <1>2, <2>3, <3>1 DEF ForgotEmail
  <2>4. ASSUME NEW r \in Resets, NEW t \in Tokens, ResetLookup(r, t) PROVE TokensInv'
    BY <1>1, <2>4 DEF ResetLookup
  <2>5. ASSUME NEW r \in Resets, NEW t \in Tokens, ResetCommit(r, t) PROVE TokensInv'
    <3>1. CASE ~Consumable(t)
      BY <1>1, <2>5, <3>1 DEF ResetCommit
    <3>2. CASE Consumable(t)
      <4>1. token' = [token EXCEPT ![t].state = "used"] /\ token[t].state = "live"
        BY <2>5, <3>2 DEF ResetCommit, Consumable
      <4>2. rotations' = [rotations EXCEPT ![t] = @ + 1] \/ rotations' = rotations
        BY <2>5, <3>2 DEF ResetCommit
      <4>3. token'[t].state = "used" /\ \A s \in Tokens \ {t} : token'[s] = token[s]
        BY <4>1 DEF TypeOK, TokenRows
      <4>4. rotations'[t] <= 1 /\ \A s \in Tokens \ {t} : rotations'[s] = rotations[s]
        BY <4>1, <4>2 DEF TypeOK, TokensInv
      <4> QED
        BY <4>3, <4>4 DEF TokensInv
    <3> QED
      BY <3>1, <3>2
  <2> QED
    BY <1>4, <2>1, <2>2, <2>3, <2>4, <2>5 DEF ResetStep
<1>5. CASE CronStep
  <2>1. CronStart \/ ListStale \/ CronEnd => UNCHANGED <<token, rotations>>
    BY DEF CronStart, ListStale, CronEnd
  <2>2. ASSUME NEW u \in Users, Materialise(u) \/ Sweep(u) PROVE UNCHANGED <<token, rotations>>
    BY <2>2 DEF Materialise, Sweep
  <2>3. ASSUME NEW u \in Users, DeleteRow(u) PROVE TokensInv'
    <3>1. \A s \in Tokens : [token[s] EXCEPT !.state = "gone"].state = "gone"
      BY DEF TypeOK, TokenRows
    <3> QED
      BY <1>2, <2>3, <3>1 DEF DeleteRow
  <2> QED
    BY <1>1, <1>5, <2>1, <2>2, <2>3 DEF CronStep
<1>6. ASSUME NEW u \in Users,
             \/ Suspend(u) \/ Reinstate(u) \/ RequestDeletion(u) \/ CancelDeletion(u)
             \/ AccountThrows(u)
      PROVE  UNCHANGED <<token, rotations>>
  BY <1>6 DEF Suspend, Reinstate, RequestDeletion, CancelDeletion, AccountThrows
<1>7. Crash \/ UNCHANGED vars => UNCHANGED <<token, rotations>>
  BY DEF Crash, vars
<1>8. CASE Tick
  <2>1. \A s \in Tokens : Aged(token[s]).state = token[s].state
    BY DEF TypeOK, TokenRows, Aged
  <2> QED
    BY <1>2, <1>8, <2>1 DEF Tick
<1> QED
  BY <1>1, <1>3, <1>4, <1>5, <1>6, <1>7, <1>8 DEF Next

-----------------------------------------------------------------------------
(* The theorems.                                                            *)

\* Every variable keeps its type, in any cohort and for any grace, retention
\* and token lifetime.
THEOREM TypeCorrect == Spec => []TypeOK
BY TypeInit, TypeStep, PTL DEF Spec

\* An erased account is scrubbed and has no password, whatever was in flight
\* when the cron wrote it.
THEOREM ErasureLeavesNoCredential == Spec => []ErasedHasNoCredential
<1>1. ErasureInv => ErasedHasNoCredential
  BY DEF ErasureInv
<1> QED
  BY <1>1, TypeCorrect, ErasureInit, ErasureStep, PTL DEF Spec

\* A row is deleted only once its uploads are, but for those storage refused,
\* wherever the cron run dies.
THEOREM SweepBeforeDelete == Spec => []NothingStranded
<1>1. ErasureInv => NothingStranded
  BY DEF ErasureInv
<1> QED
  BY <1>1, TypeCorrect, ErasureInit, ErasureStep, PTL DEF Spec

\* An accepted session belongs to an active account and was opened with the
\* password in force, for any number of sign-ins in flight.
THEOREM SessionsAreCurrent == Spec => []AcceptedIsCurrent
<1>1. TypeOK /\ SessionsInv => AcceptedIsCurrent
  BY DEF SessionsInv, Fresh, AcceptedIsCurrent, Accepted
<1> QED
  BY <1>1, TypeCorrect, ErasureInit, ErasureStep, SessionsInit, SessionsStep, PTL DEF Spec

\* A reset link rotates one password once, however many times it is submitted.
THEOREM LinkRotatesOnce == Spec => []ResetOnce
<1>1. Init => TokensInv
  BY DEF Init, NoToken, TokensInv
<1>2. TokensInv => ResetOnce
  BY DEF TokensInv, ResetOnce
<1> QED
  BY <1>1, <1>2, TypeCorrect, TokensStep, PTL DEF Spec

\* No account is erased before the grace its member asked for has passed,
\* however old the list of the cron run that erases it.
THEOREM GraceIsHonoured == Spec => GraceHonoured
<1> DEFINE A == \A u \in Users : status[u] = "active" /\ status'[u] = "deleted" =>
                   scheduled[u] /\ due[u] <= 0
<1>1. TypeOK /\ [Next]_vars => A
  <2> SUFFICES ASSUME TypeOK, [Next]_vars, NEW v \in Users,
                      status[v] = "active", status'[v] = "deleted"
               PROVE  scheduled[v] /\ due[v] <= 0
    BY Zenon
  <2>1. ASSUME NEW u \in Users, Materialise(u) PROVE scheduled[v] /\ due[v] <= 0
    <3>1. v = u /\ MayMaterialise(u)
      BY <2>1 DEF Materialise, TypeOK
    <3> QED
      BY <3>1, SmallNumbers DEF MayMaterialise, Elapsed, TypeOK
  <2>2. ASSUME NEW u \in Users, \/ Suspend(u) \/ Reinstate(u) \/ DeleteRow(u) PROVE FALSE
    BY <2>2 DEF Suspend, Reinstate, DeleteRow, TypeOK
  <2>3. status' # status
    OBVIOUS
  <2> QED
    BY <2>1, <2>2, <2>3, StatusCases
<1> QED
  BY <1>1, TypeCorrect, PTL DEF Spec, GraceHonoured

\* An erasure is never undone, and the row goes only after the retention.
THEOREM ErasureIsOneWay == Spec => ErasureIsFinal
<1> DEFINE A == \A u \in Users :
                  /\ status[u] = "deleted" => status'[u] \in {"deleted", "purged"}
                  /\ status'[u] = "purged" /\ status[u] # "purged" =>
                         status[u] = "deleted" /\ due[u] < 0 - HardPurge
<1>1. TypeOK /\ ErasureInv /\ [Next]_vars => A
  <2> SUFFICES ASSUME TypeOK, ErasureInv, [Next]_vars, NEW v \in Users
               PROVE  /\ status[v] = "deleted" => status'[v] \in {"deleted", "purged"}
                      /\ status'[v] = "purged" /\ status[v] # "purged" =>
                             status[v] = "deleted" /\ due[v] < 0 - HardPurge
    BY Zenon
  <2>1. CASE status'[v] = status[v]
    BY <2>1
  <2>2. ASSUME NEW u \in Users, DeleteRow(u), status'[v] # status[v]
        PROVE  v = u /\ status'[v] = "purged" /\ status[v] = "deleted" /\ due[v] < 0 - HardPurge
    BY <2>2 DEF DeleteRow, SweptFirst, ErasureInv, ListedInv, TypeOK
  <2>3. ASSUME NEW u \in Users, Materialise(u) \/ Suspend(u) \/ Reinstate(u),
               status'[v] # status[v]
        PROVE  status[v] # "deleted" /\ status'[v] # "purged"
    BY <2>3 DEF Materialise, MayMaterialise, Suspend, Reinstate, MayReinstate, TypeOK
  <2> QED
    BY <2>1, <2>2, <2>3, StatusCases
<1> QED
  BY <1>1, TypeCorrect, ErasureInit, ErasureStep, PTL DEF Spec, ErasureIsFinal

-----------------------------------------------------------------------------
(* The archives an account leaves behind (ExportJobs).                      *)

\* What a build may be.
BuildPcs == {"idle", "mark", "open", "flush", "flip", "clean", "fail", "list", "prune"}
ABuild == [pc : BuildPcs, todo : SUBSET Jobs, removed : SUBSET Jobs]

Writing == {"mark", "open", "flush", "flip", "clean", "fail"}
Pruning == {"list", "prune"}

\* Build j goes to pc and keeps its lists; the others stay.
Goes(j, pc) ==
    /\ build' \in [Jobs -> ABuild]
    /\ \A k \in Jobs :
          /\ build'[k].pc = (IF k = j THEN pc ELSE build[k].pc)
          /\ build'[k].todo = build[k].todo
          /\ build'[k].removed = build[k].removed

\* A step of a build that sets its pc moves that build alone, and leaves its
\* lists.
LEMMA SetBuildMoves ==
    ASSUME build \in [Jobs -> ABuild], NEW j \in Jobs, NEW pc \in BuildPcs,
           SetBuild(j, pc)
    PROVE  Goes(j, pc)
<1> DEFINE entry == [build[j] EXCEPT !.pc = pc]
<1>1. entry \in ABuild /\ entry.pc = pc
      /\ entry.todo = build[j].todo /\ entry.removed = build[j].removed
  BY DEF ABuild
<1>2. build' = [build EXCEPT ![j] = entry]
  BY DEF SetBuild
<1> HIDE DEF entry
<1> QED
  BY <1>1, <1>2 DEF Goes

\* A removal by the prune changes the lists of the build that makes it alone.
LEMMA PruneRemoveMoves ==
    ASSUME build \in [Jobs -> ABuild], NEW j \in Jobs, NEW i \in Jobs,
           PruneRemove(j, i)
    PROVE  /\ build' \in [Jobs -> ABuild]
           /\ \A k \in Jobs :
                 /\ build'[k].pc = build[k].pc
                 /\ build'[k].todo \subseteq build[k].todo
                 /\ build'[k].removed \subseteq build[k].removed \cup Removed(i)
                 /\ k # j => build'[k] = build[k]
<1> DEFINE gone == Removed(i)
           entry == [pc |-> "prune", todo |-> build[j].todo \ {i},
                     removed |-> build[j].removed \cup gone]
<1>1. build' = [build EXCEPT ![j] = entry]
  BY DEF PruneRemove
<1>2. entry \in ABuild
  BY DEF ABuild, BuildPcs, Removed
<1>3. /\ entry.pc = build[j].pc
      /\ entry.todo \subseteq build[j].todo
      /\ entry.removed = build[j].removed \cup gone
  BY DEF PruneRemove
<1> HIDE DEF gone, entry
<1> QED
  BY <1>1, <1>2, <1>3 DEF gone

\* A removal touches one file, and removes it or fails.
LEMMA RemoveTouches ==
    ASSUME ExportAssumption, ExportTypeOK, NEW j \in Jobs, Remove(j)
    PROVE  /\ zip' \in [Jobs -> {"none", "partial", "full"}]
           /\ exportFaults' \in 0..MaxExportFaults
           /\ \A k \in Jobs : zip'[k] = zip[k] \/ (k = j /\ zip'[k] = "none")
<1>1. /\ zip \in [Jobs -> {"none", "partial", "full"}]
      /\ zip' = zip \/ zip' = [zip EXCEPT ![j] = "none"]
  BY DEF Remove, ExportTypeOK
<1>2. exportFaults' \in 0..MaxExportFaults
  BY DEF ExportAssumption, Remove, ExportTypeOK, Fails
<1> QED
  BY <1>1, <1>2

\* A request is well formed.
ARequest == [pc : {"idle", "reap", "dedup", "cooldown", "create"},
             todo : SUBSET Jobs, flipped : SUBSET Jobs]

\* Every step keeps the types.
LEMMA ExportTypeStep ==
    ASSUME ExportAssumption, ExportTypeOK, [ExportNext]_exportVars PROVE ExportTypeOK'
<1>0. ExportTypeOK /\ build \in [Jobs -> ABuild]
  BY DEF ExportTypeOK, ABuild, BuildPcs
<1>1. ASSUME NEW r \in Requests, RequestReap(r) PROVE ExportTypeOK'
  BY <1>1 DEF ExportTypeOK, RequestReap, SetReq, Zombies, Running, Fails
<1>2. ASSUME NEW r \in Requests, ReapDone(r) PROVE ExportTypeOK'
  BY <1>2 DEF ExportTypeOK, ReapDone, SetReq
<1>3. ASSUME NEW r \in Requests, Dedup(r) PROVE ExportTypeOK'
  BY <1>3 DEF ExportTypeOK, Dedup, SetReq
<1>4. ASSUME NEW r \in Requests, CoolDown(r) PROVE ExportTypeOK'
  BY <1>4 DEF ExportTypeOK, CoolDown, SetReq
<1>5. ASSUME NEW r \in Requests, ReapThrows(r) PROVE ExportTypeOK'
  BY <1>5 DEF ExportTypeOK, ReapThrows, SetReq, Fails
<1>6. ASSUME NEW r \in Requests, RequestThrows(r) PROVE ExportTypeOK'
  BY <1>6 DEF ExportTypeOK, RequestThrows, SetReq, Fails
<1>7. ASSUME NEW r \in Requests, NEW j \in Jobs, ReapFlip(r, j) PROVE ExportTypeOK'
  <2>1. row' \in [Jobs -> {"absent", "pending", "processing", "ready", "failed", "deleted"}]
    BY <1>0, <1>7 DEF ExportTypeOK, ReapFlip
  <2>2. req' \in [Requests -> ARequest]
    <3>1. [req[r] EXCEPT !.flipped = {j}] \in ARequest
          /\ [pc |-> "reap", todo |-> req[r].todo \ {j}, flipped |-> {}] \in ARequest
      BY <1>0 DEF ExportTypeOK, ARequest
    <3>2. req \in [Requests -> ARequest]
      BY <1>0 DEF ExportTypeOK, ARequest
    <3> QED
      BY <1>7, <3>1, <3>2 DEF ReapFlip, SetReq
  <2> QED
    BY <1>7, <2>2 DEF ExportTypeOK, ReapFlip, ARequest
<1>8. ASSUME NEW r \in Requests, NEW j \in Jobs, ReapReclaim(r, j) PROVE ExportTypeOK'
  BY <1>8, RemoveTouches DEF ExportTypeOK, ReapReclaim, SetReq
<1>9. ASSUME NEW r \in Requests, NEW j \in Jobs, Create(r, j) PROVE ExportTypeOK'
  BY <1>9, SetBuildMoves DEF ExportTypeOK, Create, SetReq, Goes, ABuild, BuildPcs
<1>10. ASSUME NEW j \in Jobs, BuildMark(j) PROVE ExportTypeOK'
  BY <1>10, SetBuildMoves DEF ExportTypeOK, BuildMark, Goes, ABuild, BuildPcs
<1>11. ASSUME NEW j \in Jobs, BuildOpen(j) PROVE ExportTypeOK'
  BY <1>11, SetBuildMoves DEF ExportTypeOK, BuildOpen, Goes, ABuild, BuildPcs
<1>12. ASSUME NEW j \in Jobs, BuildFlush(j) PROVE ExportTypeOK'
  <2>1. Goes(j, "flip") \/ Goes(j, "clean")
    BY <1>0, <1>12, SetBuildMoves DEF BuildFlush, BuildPcs
  <2>2. zip' \in [Jobs -> {"none", "partial", "full"}]
    BY <1>0, <1>12 DEF ExportTypeOK, BuildFlush
  <2> QED
    BY <1>12, <2>1 DEF ExportTypeOK, BuildFlush, Goes, ABuild
<1>13. ASSUME NEW j \in Jobs, BuildFlip(j) PROVE ExportTypeOK'
  BY <1>13, SetBuildMoves DEF ExportTypeOK, BuildFlip, CooldownFromNow, Goes, ABuild,
     BuildPcs
<1>14. ASSUME NEW j \in Jobs, BuildThrows(j) PROVE ExportTypeOK'
  <2>1. Goes(j, "clean")
    BY <1>0, <1>14, SetBuildMoves DEF BuildThrows, BuildPcs
  <2> QED
    BY <1>14, <2>1 DEF ExportTypeOK, BuildThrows, Fails, Goes, ABuild
<1>15. ASSUME NEW j \in Jobs, BuildClean(j) PROVE ExportTypeOK'
  BY <1>15, SetBuildMoves, RemoveTouches DEF ExportTypeOK, BuildClean, Goes, ABuild,
     BuildPcs
<1>16. ASSUME NEW j \in Jobs, BuildFail(j) PROVE ExportTypeOK'
  <2>1. Goes(j, "idle")
    BY <1>0, <1>16, SetBuildMoves DEF BuildFail, BuildPcs
  <2>2. row' \in [Jobs -> {"absent", "pending", "processing", "ready", "failed", "deleted"}]
    BY <1>0, <1>16 DEF BuildFail, ExportTypeOK
  <2>3. exportFaults' \in 0..MaxExportFaults
    BY <1>16 DEF BuildFail, ExportTypeOK, Fails
  <2> QED
    BY <1>16, <2>1, <2>3 DEF ExportTypeOK, BuildFail, Goes, ABuild
<1>17. ASSUME NEW j \in Jobs, PruneList(j) PROVE ExportTypeOK'
  BY <1>17 DEF ExportTypeOK, PruneList, Superseded
<1>18. ASSUME NEW j \in Jobs, PruneDelete(j) PROVE ExportTypeOK'
  BY <1>18 DEF ExportTypeOK, PruneDelete, NoBuild, Fails
<1>19. ASSUME NEW j \in Jobs, NEW i \in Jobs, PruneRemove(j, i) PROVE ExportTypeOK'
  BY <1>19, PruneRemoveMoves, RemoveTouches DEF ExportTypeOK, PruneRemove, ABuild,
     BuildPcs
<1>20. ASSUME ProcessDies PROVE ExportTypeOK'
  BY <1>20 DEF ExportTypeOK, ProcessDies, NoReq, NoBuild, Fails
<1>21. ASSUME Erase PROVE ExportTypeOK'
  <2>1. PICK kept \in SUBSET {j \in Swept : zip[j] # "none"} :
          /\ IF kept = {} THEN UNCHANGED exportFaults ELSE Fails
          /\ zip' = [j \in Jobs |-> IF j \in Swept \ kept THEN "none" ELSE zip[j]]
          /\ stranded' = kept
    BY <1>21 DEF Erase
  <2>2. exportFaults' \in 0..MaxExportFaults /\ stranded' \subseteq Jobs
    BY <2>1 DEF ExportTypeOK, Fails, Swept
  <2>3. zip' \in [Jobs -> {"none", "partial", "full"}]
    BY <1>0, <2>1 DEF ExportTypeOK
  <2>4. row' \in [Jobs -> {"absent", "pending", "processing", "ready", "failed", "deleted"}]
    BY <1>0, <1>21 DEF Erase, ExportTypeOK
  <2> QED
    BY <1>21, <2>2, <2>3 DEF ExportTypeOK, Erase
<1>22. ASSUME JobsAge PROVE ExportTypeOK'
  BY <1>22 DEF ExportTypeOK, JobsAge
<1>23. CASE UNCHANGED exportVars
  BY <1>0, <1>23 DEF ExportTypeOK, exportVars
<1> QED
  BY <1>1, <1>2, <1>3, <1>4, <1>5, <1>6, <1>7, <1>8, <1>9, <1>10, <1>11, <1>12,
     <1>13,
     <1>14, <1>15, <1>16, <1>17, <1>18, <1>19, <1>20, <1>21, <1>22, <1>23
  DEF ExportNext, RequestStep, BuildStep

\* The variables of the export have their types, whatever the tabs do.
THEOREM ExportTypeCorrect == ExportSpec => []ExportTypeOK
<1>1. ExportInit => ExportTypeOK
  <2>1. NoReq \in ARequest /\ NoBuild \in ABuild /\ 0 \in 0..(StaleAge + 1) /\ 0 \in 0..Cooldown
        /\ 0 \in 0..MaxExportFaults
    BY ExportAssumption DEF NoReq, NoBuild, ARequest, ABuild, BuildPcs
  <2> QED
    <3> SUFFICES ASSUME ExportInit PROVE ExportTypeOK
      OBVIOUS
    <3>1. req \in [Requests -> ARequest] /\ build \in [Jobs -> ABuild]
      BY <2>1 DEF ExportInit
    <3>2. age \in [Jobs -> 0..(StaleAge + 1)] /\ fresh \in [Jobs -> 0..Cooldown]
          /\ exportFaults \in 0..MaxExportFaults
      BY <2>1 DEF ExportInit
    <3> QED
      BY <3>1, <3>2 DEF ExportInit, ExportTypeOK, ARequest, ABuild, BuildPcs
<1>2. ExportTypeOK /\ [ExportNext]_exportVars => ExportTypeOK'
  BY ExportTypeStep, ExportAssumption
<1> QED
  BY <1>1, <1>2, PTL DEF ExportSpec

\* A build works on a row of its own, which only the reap may have failed
\* under it.
RowsOfBuilds ==
    \A j \in Jobs :
        /\ build[j].pc \in Writing => row[j] \in {"pending", "processing", "failed"}
        /\ build[j].pc \in Pruning => row[j] \in {"ready", "deleted"}

\* What a prune has listed is finished, and what it will drop has no archive.
PruneSettled ==
    \A j \in Jobs : \A i \in build[j].todo \cup build[j].removed :
        /\ row[i] \in {"ready", "deleted"}
        /\ i \in build[j].removed => zip[i] = "none"

\* Nothing is at work for an account that is gone.
Gone ==
    /\ \A r \in Requests : req[r].flipped # {} => req[r].pc = "reap"
    /\ IF member THEN stranded = {} ELSE Quiet

ArchiveInv == EveryArchiveHasItsRow /\ RowsOfBuilds /\ PruneSettled /\ Gone

\* Every step keeps it.
LEMMA ArchiveStep ==
    ASSUME ExportAssumption, ExportTypeOK, ArchiveInv, [ExportNext]_exportVars
    PROVE  ArchiveInv'
<1>0. /\ ExportTypeOK /\ build \in [Jobs -> ABuild]
      /\ EveryArchiveHasItsRow /\ RowsOfBuilds /\ PruneSettled /\ Gone
  BY DEF ArchiveInv, ExportTypeOK, ABuild, BuildPcs
<1> USE DEF ArchiveInv
<1>1. ASSUME NEW r \in Requests, RequestReap(r) PROVE ArchiveInv'
  BY <1>1 DEF ExportTypeOK, EveryArchiveHasItsRow, RowsOfBuilds, PruneSettled, Gone,
     RequestReap, SetReq
<1>2. ASSUME NEW r \in Requests, ReapDone(r) PROVE ArchiveInv'
  BY <1>2 DEF EveryArchiveHasItsRow, RowsOfBuilds, PruneSettled, Gone, Quiet, ReapDone,
     SetReq
<1>3. ASSUME NEW r \in Requests, Dedup(r) PROVE ArchiveInv'
  BY <1>3 DEF EveryArchiveHasItsRow, RowsOfBuilds, PruneSettled, Gone, Quiet, Dedup,
     SetReq
<1>4. ASSUME NEW r \in Requests, CoolDown(r) PROVE ArchiveInv'
  BY <1>4 DEF EveryArchiveHasItsRow, RowsOfBuilds, PruneSettled, Gone, Quiet, CoolDown,
     SetReq
<1>5. ASSUME NEW r \in Requests, ReapThrows(r) PROVE ArchiveInv'
  BY <1>5 DEF EveryArchiveHasItsRow, RowsOfBuilds, PruneSettled, Gone, Quiet,
     ReapThrows, SetReq
<1>6. ASSUME NEW r \in Requests, RequestThrows(r) PROVE ArchiveInv'
  BY <1>6 DEF EveryArchiveHasItsRow, RowsOfBuilds, PruneSettled, Gone, Quiet,
     RequestThrows, SetReq
<1>7. ASSUME NEW r \in Requests, NEW j \in Jobs, ReapFlip(r, j) PROVE ArchiveInv'
  <2>1. CASE j \in Running
    <3>1. row' = [row EXCEPT ![j] = "failed"] /\ UNCHANGED <<zip, build, member, stranded>>
      BY <1>7, <2>1 DEF ReapFlip
    <3>2. EveryArchiveHasItsRow' /\ RowsOfBuilds'
      BY <2>1, <3>1 DEF EveryArchiveHasItsRow, RowsOfBuilds, Running
    <3>3. PruneSettled'
      BY <2>1, <3>1 DEF PruneSettled, Running
    <3>4. Gone'
      <4>1. \A q \in Requests : req'[q].pc = req[q].pc /\ (q # r => req'[q] = req[q])
        BY <1>7, <2>1 DEF ExportTypeOK, ReapFlip
      <4>2. req[r].pc = "reap" /\ member
        BY <1>7 DEF Gone, Quiet, ReapFlip
      <4> QED
        BY <3>1, <4>1, <4>2 DEF Gone
    <3> QED
      BY <3>2, <3>3, <3>4
  <2>2. CASE j \notin Running
    BY <1>0, <1>7, <2>2 DEF ExportTypeOK, EveryArchiveHasItsRow, RowsOfBuilds,
       PruneSettled, Gone, Quiet, Writing, ReapFlip, SetReq
  <2> QED
    BY <2>1, <2>2
<1>8. ASSUME NEW r \in Requests, NEW j \in Jobs, ReapReclaim(r, j) PROVE ArchiveInv'
  BY <1>8, RemoveTouches DEF ExportTypeOK, EveryArchiveHasItsRow, RowsOfBuilds,
     PruneSettled, Gone, Quiet, Writing, ReapReclaim, SetReq
<1>9. ASSUME NEW r \in Requests, NEW j \in Jobs, Create(r, j) PROVE ArchiveInv'
  BY <1>0, <1>9, SetBuildMoves DEF ExportTypeOK, EveryArchiveHasItsRow, RowsOfBuilds,
     PruneSettled, Gone, Quiet, Pruning, Create, SetReq, BuildPcs, Goes
<1>10. ASSUME NEW j \in Jobs, BuildMark(j) PROVE ArchiveInv'
  BY <1>0, <1>10, SetBuildMoves DEF EveryArchiveHasItsRow, RowsOfBuilds, PruneSettled,
     Gone, Quiet, Writing, Pruning, BuildMark, BuildPcs, Goes
<1>11. ASSUME NEW j \in Jobs, BuildOpen(j) PROVE ArchiveInv'
  <2>1. Goes(j, "flush") /\ zip' = [zip EXCEPT ![j] = "partial"]
        /\ UNCHANGED <<row, req, member, stranded>>
    BY <1>0, <1>11, SetBuildMoves DEF BuildOpen, BuildPcs
  <2>2. build[j].pc \in Writing /\ row[j] \in {"pending", "processing", "failed"}
    BY <1>11 DEF BuildOpen, RowsOfBuilds, Writing
  <2>3. EveryArchiveHasItsRow' /\ PruneSettled'
    BY <2>1, <2>2 DEF Goes, EveryArchiveHasItsRow, PruneSettled
  <2>4. RowsOfBuilds' /\ Gone'
    BY <2>1, <2>2 DEF Goes, RowsOfBuilds, Gone, Quiet, Writing, Pruning
  <2> QED
    BY <2>3, <2>4
<1>12. ASSUME NEW j \in Jobs, BuildFlush(j) PROVE ArchiveInv'
  BY <1>0, <1>12, SetBuildMoves DEF ExportTypeOK, EveryArchiveHasItsRow, RowsOfBuilds,
     PruneSettled, Gone, Quiet, Writing, Pruning, BuildFlush, BuildPcs, Goes
<1>13. ASSUME NEW j \in Jobs, BuildFlip(j) PROVE ArchiveInv'
  BY <1>0, <1>13, SetBuildMoves DEF ExportTypeOK, EveryArchiveHasItsRow, RowsOfBuilds,
     PruneSettled, Gone, Quiet, Writing, BuildFlip, BuildPcs, Goes
<1>14. ASSUME NEW j \in Jobs, BuildThrows(j) PROVE ArchiveInv'
  <2>1. Goes(j, "clean")
    BY <1>0, <1>14, SetBuildMoves DEF BuildThrows, BuildPcs
  <2> QED
    BY <2>1, <1>14 DEF Goes, BuildThrows, EveryArchiveHasItsRow, RowsOfBuilds,
       PruneSettled, Gone, Quiet, Writing, Pruning
<1>15. ASSUME NEW j \in Jobs, BuildClean(j) PROVE ArchiveInv'
  BY <1>0, <1>15, SetBuildMoves, RemoveTouches
     DEF ExportTypeOK, EveryArchiveHasItsRow, RowsOfBuilds, PruneSettled, Gone, Quiet,
     Writing, Pruning, BuildClean, BuildPcs, Goes
<1>16. ASSUME NEW j \in Jobs, BuildFail(j) PROVE ArchiveInv'
  <2>1. Goes(j, "idle") /\ build[j].pc = "fail" /\ UNCHANGED <<zip, req, member, stranded>>
    BY <1>0, <1>16, SetBuildMoves DEF BuildFail, BuildPcs
  <2>2. /\ row[j] \in {"pending", "processing", "failed"}
        /\ row'[j] \in {"pending", "processing", "failed"}
        /\ \A k \in Jobs : k # j => row'[k] = row[k]
    BY <1>16 DEF ExportTypeOK, BuildFail, RowsOfBuilds, Writing
  <2>3. EveryArchiveHasItsRow'
    BY <1>0, <2>1, <2>2 DEF EveryArchiveHasItsRow
  <2>4. PruneSettled'
    <3>1. \A k \in Jobs : \A i \in build[k].todo \cup build[k].removed : i \in Jobs /\ i # j
      BY <1>0, <2>2 DEF ABuild, PruneSettled
    <3> QED
      BY <2>1, <2>2, <3>1 DEF Goes, PruneSettled
  <2>5. RowsOfBuilds' /\ Gone'
    BY <2>1, <2>2 DEF Goes, RowsOfBuilds, Gone, Quiet, Pruning
  <2> QED
    BY <2>3, <2>4, <2>5
<1>17. ASSUME NEW j \in Jobs, PruneList(j) PROVE ArchiveInv'
  BY <1>17 DEF EveryArchiveHasItsRow, RowsOfBuilds, PruneSettled, Gone, Quiet, Writing,
     Pruning, PruneList, Superseded
<1>18. ASSUME NEW j \in Jobs, PruneDelete(j) PROVE ArchiveInv'
  BY <1>18 DEF ExportTypeOK, EveryArchiveHasItsRow, RowsOfBuilds, PruneSettled, Gone,
     Quiet, Writing, Pruning, PruneDelete, NoBuild
<1>19. ASSUME NEW j \in Jobs, NEW i \in Jobs, PruneRemove(j, i) PROVE ArchiveInv'
  BY <1>19, RemoveTouches DEF ExportTypeOK, EveryArchiveHasItsRow, RowsOfBuilds,
     PruneSettled, Gone, Quiet, PruneRemove, Removed
<1>20. ASSUME ProcessDies PROVE ArchiveInv'
  BY <1>20 DEF EveryArchiveHasItsRow, RowsOfBuilds, PruneSettled, Gone, Quiet, Writing,
     Pruning, ProcessDies, NoReq, NoBuild
<1>21. ASSUME Erase PROVE ArchiveInv'
  BY <1>21 DEF ExportTypeOK, EveryArchiveHasItsRow, RowsOfBuilds, PruneSettled, Gone,
     Quiet, Writing, Erase, Swept
<1>22. ASSUME JobsAge PROVE ArchiveInv'
  BY <1>22 DEF EveryArchiveHasItsRow, RowsOfBuilds, PruneSettled, Gone, Quiet, JobsAge
<1>23. CASE UNCHANGED exportVars
  BY <1>23 DEF EveryArchiveHasItsRow, RowsOfBuilds, PruneSettled, Gone, Quiet,
     exportVars
<1> QED
  BY <1>1, <1>2, <1>3, <1>4, <1>5, <1>6, <1>7, <1>8, <1>9, <1>10, <1>11, <1>12,
     <1>13,
     <1>14, <1>15, <1>16, <1>17, <1>18, <1>19, <1>20, <1>21, <1>22, <1>23
  DEF ExportNext, RequestStep, BuildStep

\* Every archive on the volume is named by a row, or the erasure has counted it
\* as stranded: for any number of tabs, and builds however slow.
THEOREM ArchivesAreFound == ExportSpec => []EveryArchiveHasItsRow
<1>1. ExportInit => ArchiveInv
  BY DEF ExportInit, NoReq, NoBuild, ArchiveInv, EveryArchiveHasItsRow, RowsOfBuilds,
     PruneSettled, Gone, Writing, Pruning
<1>2. ExportTypeOK /\ ArchiveInv /\ [ExportNext]_exportVars => ArchiveInv'
  BY ArchiveStep, ExportAssumption
<1>3. ArchiveInv => EveryArchiveHasItsRow
  BY DEF ArchiveInv
<1> QED
  BY <1>1, <1>2, <1>3, ExportTypeCorrect, PTL DEF ExportSpec

\* The jobs whose build has not ended.
Busy == {j \in Jobs : build[j].pc # "idle"}

\* One tab asks at a time.
OneTab == \A r, s \in Requests : r = s

\* A row comes after every older one, and none after the one being built.
InOrder ==
    \A j, k \in Jobs : j < k /\ (row[j] = "absent" \/ j \in Busy) => row[k] = "absent"

\* No build is as old as what the reap looks for.
YoungBuilds ==
    \A j \in Jobs :
        /\ j \in Busy => age[j] <= StaleAge
        /\ row[j] = "absent" => age[j] = 0

\* The reap has hold of old jobs only, and the one whose file it removes is not
\* ready.
ReapsTheOld ==
    \A r \in Requests :
        /\ \A j \in req[r].todo : age[j] > StaleAge
        /\ \A j \in req[r].flipped : row[j] \in {"failed", "deleted"} /\ age[j] > StaleAge

\* One build at a time: a request goes past the dedup only when what runs is
\* pruning, and past the cooldown only when nothing runs.
OneBuild ==
    /\ \A i, j \in Busy : i = j
    /\ \A r \in Requests : \A j \in Busy :
         /\ req[r].pc # "create"
         /\ req[r].pc = "cooldown" => build[j].pc \in Pruning

\* Before the flip the row runs; after it the archive is there, is within its
\* cooldown and supersedes older ones only.
BuildsAtWork ==
    \A j \in Jobs :
        /\ build[j].pc \in Writing => row[j] \in {"pending", "processing"}
        /\ build[j].pc = "flip" => zip[j] = "full"
        /\ build[j].pc \in Pruning => row[j] = "ready" /\ zip[j] = "full" /\ fresh[j] > 0
        /\ \A i \in build[j].todo \cup build[j].removed : i < j

DownloadInv ==
    ReadyIsDownloadable /\ InOrder /\ YoungBuilds /\ ReapsTheOld /\ OneBuild /\ BuildsAtWork

\* Every step keeps it.
LEMMA DownloadStep ==
    ASSUME ExportAssumption, Timely, OneTab, ExportTypeOK, DownloadInv,
           [ExportNext]_exportVars
    PROVE  DownloadInv'
<1>0. /\ ExportTypeOK /\ build \in [Jobs -> ABuild]
      /\ ReadyIsDownloadable /\ InOrder /\ YoungBuilds
      /\ ReapsTheOld /\ OneBuild /\ BuildsAtWork
  BY DEF DownloadInv, ExportTypeOK, ABuild, BuildPcs
<1>1. ASSUME NEW r \in Requests, RequestReap(r) PROVE  DownloadInv'
  BY <1>1 DEF ExportTypeOK, RequestReap, SetReq, Zombies, Busy, ReadyIsDownloadable,
     BuildsAtWork, ReapsTheOld, InOrder, YoungBuilds, OneBuild, OneTab, DownloadInv
<1>2. ASSUME NEW r \in Requests, ReapDone(r) PROVE  DownloadInv'
  BY <1>2 DEF ReapDone, SetReq, Busy, ReadyIsDownloadable, BuildsAtWork, ReapsTheOld,
     InOrder, YoungBuilds, OneBuild, DownloadInv
<1>3. ASSUME NEW r \in Requests, Dedup(r) PROVE  DownloadInv'
  <2>1. OneBuild'
    <3>1. CASE Running # {}
      <4>1. req'[r].pc = "idle"
        BY <1>3, <3>1 DEF ExportTypeOK, Dedup, Reusable, SetReq
      <4> QED
        BY <1>0, <1>3, <4>1 DEF OneBuild, OneTab, Dedup, Busy
    <3>2. CASE Running = {}
      <4>1. req'[r].pc = "cooldown"
        BY <1>3, <3>2 DEF ExportTypeOK, Dedup, Reusable, SetReq
      <4>2. \A k \in Busy : build[k].pc \in Pruning
        BY <1>0, <3>2 DEF Busy, Pruning, Writing, Running, BuildsAtWork, ABuild,
           BuildPcs
      <4> QED
        BY <1>0, <1>3, <4>1, <4>2 DEF OneBuild, OneTab, Dedup, Busy
    <3> QED BY <3>1, <3>2
  <2>2. ReadyIsDownloadable' /\ InOrder' /\ YoungBuilds' /\ ReapsTheOld' /\ BuildsAtWork'
    BY <1>0, <1>3 DEF Dedup, SetReq, Busy, ReadyIsDownloadable, BuildsAtWork,
       ReapsTheOld, InOrder, YoungBuilds
  <2> QED
    BY <2>1, <2>2 DEF DownloadInv
<1>4. ASSUME NEW r \in Requests, CoolDown(r) PROVE  DownloadInv'
  <2>1. OneBuild'
    <3>1. \A k \in Busy : k \in RecentlyReady
      BY <1>0, <1>4 DEF CoolDown, OneBuild, BuildsAtWork, RecentlyReady, Busy
    <3>2. req'[r].pc = IF RecentlyReady # {} THEN "idle" ELSE "create"
      BY <1>4 DEF ExportTypeOK, CoolDown, SetReq
    <3> QED
      BY <1>0, <1>4, <3>1, <3>2 DEF OneBuild, OneTab, CoolDown, Busy
  <2>2. ReadyIsDownloadable' /\ InOrder' /\ YoungBuilds' /\ ReapsTheOld' /\ BuildsAtWork'
    BY <1>0, <1>4 DEF CoolDown, SetReq, Busy, ReadyIsDownloadable, BuildsAtWork,
       ReapsTheOld, InOrder, YoungBuilds
  <2> QED
    BY <2>1, <2>2 DEF DownloadInv
<1>5. ASSUME NEW r \in Requests, ReapThrows(r) PROVE  DownloadInv'
  BY <1>5 DEF ReapThrows, SetReq, Busy, ReadyIsDownloadable, BuildsAtWork, ReapsTheOld,
     InOrder, YoungBuilds, OneBuild, DownloadInv
<1>6. ASSUME NEW r \in Requests, RequestThrows(r) PROVE  DownloadInv'
  BY <1>6 DEF RequestThrows, SetReq, Busy, ReadyIsDownloadable, BuildsAtWork,
     ReapsTheOld, InOrder, YoungBuilds, OneBuild, DownloadInv
<1>7. ASSUME NEW r \in Requests, NEW j \in Jobs, ReapFlip(r, j) PROVE  DownloadInv'
  <2>1. BuildsAtWork'
    <3>1. CASE j \in Running
      <4>1. j \notin Busy
        <5>1. age[j] > StaleAge
          BY <1>0, <1>7 DEF ReapFlip, ReapsTheOld
        <5>2. age[j] \in Int /\ StaleAge \in Int
          BY <1>0 DEF ExportTypeOK, ExportAssumption
        <5> QED
          BY <1>0, <5>1, <5>2 DEF YoungBuilds
      <4>2. row' = [row EXCEPT ![j] = "failed"] /\ UNCHANGED <<zip, fresh, build>>
        BY <1>7, <3>1 DEF ReapFlip
      <4> QED
        BY <1>0, <4>1, <4>2 DEF BuildsAtWork, Busy, Writing, Pruning
    <3>2. CASE j \notin Running
      BY <1>0, <1>7, <3>2 DEF ReapFlip, BuildsAtWork
    <3> QED BY <3>1, <3>2
  <2>2. ReadyIsDownloadable'
    BY <1>0, <1>7 DEF ExportTypeOK, ReapFlip, Running, ReadyIsDownloadable
  <2>3. InOrder'
    BY <1>0, <1>7 DEF ExportTypeOK, ReapFlip, Running, Busy, InOrder
  <2>4. YoungBuilds'
    BY <1>0, <1>7 DEF ExportTypeOK, ReapFlip, Busy, YoungBuilds
  <2>5. ReapsTheOld'
    <3>1. CASE j \in Running
      <4>1. /\ row' = [row EXCEPT ![j] = "failed"] /\ UNCHANGED age
            /\ req' = [req EXCEPT ![r].flipped = {j}]
        BY <1>7, <3>1 DEF ReapFlip
      <4>2. \A q \in Requests :
               /\ req'[q].todo = req[q].todo
               /\ (req'[q].flipped = req[q].flipped \/ req'[q].flipped = {j})
        BY <1>0, <4>1 DEF ExportTypeOK
      <4>3. row'[j] = "failed" /\ \A k \in Jobs : k # j => row'[k] = row[k]
        BY <1>0, <4>1 DEF ExportTypeOK
      <4>4. j \in req[r].todo /\ \A q \in Requests : req[q].flipped \subseteq Jobs
        BY <1>0, <1>7 DEF ReapFlip, ExportTypeOK
      <4> QED
        BY <1>0, <4>1, <4>3, <4>4 DEF ReapsTheOld
    <3>2. CASE j \notin Running
      BY <1>0, <1>7, <3>2 DEF ExportTypeOK, ReapFlip, SetReq, ReapsTheOld
    <3> QED
      BY <3>1, <3>2
  <2>6. OneBuild'
    BY <1>0, <1>7 DEF ExportTypeOK, ReapFlip, SetReq, Busy, OneBuild, OneTab
  <2> QED
    BY <2>1, <2>2, <2>3, <2>4, <2>5, <2>6 DEF DownloadInv
<1>8. ASSUME NEW r \in Requests, NEW j \in Jobs, ReapReclaim(r, j) PROVE  DownloadInv'
  <2>1. ReadyIsDownloadable'
    <3>1. row[j] # "ready"
      BY <1>0, <1>8 DEF ReapReclaim, ReapsTheOld
    <3>2. \A k \in Jobs : k # j => zip'[k] = zip[k]
      BY <1>0, <1>8, RemoveTouches DEF ReapReclaim
    <3> QED
      BY <1>0, <1>8, <3>1, <3>2 DEF ReapReclaim, ReadyIsDownloadable
  <2>2. InOrder' /\ YoungBuilds' /\ ReapsTheOld' /\ OneBuild' /\ BuildsAtWork'
    BY <1>0, <1>8, RemoveTouches DEF ReapReclaim, SetReq, Busy, Writing, InOrder,
       BuildsAtWork, YoungBuilds, ReapsTheOld, OneBuild
  <2> QED
    BY <2>1, <2>2 DEF DownloadInv
<1>9. ASSUME NEW r \in Requests, NEW j \in Jobs, Create(r, j) PROVE  DownloadInv'
  <2>1. Goes(j, "mark")
    BY <1>0, <1>9, SetBuildMoves DEF Create, BuildPcs
  <2>2. InOrder'
    <3>1. Goes(j, "mark") /\ row' = [row EXCEPT ![j] = "pending"]
      BY <1>0, <1>9, SetBuildMoves DEF Create, BuildPcs
    <3>2. Busy = {}
      BY <1>0, <1>9 DEF Create, OneBuild
    <3>3. \A k \in Jobs : k < j => row[k] # "absent"
      BY <1>9 DEF Create
    <3>4. \A k \in Jobs : k > j => row[k] = "absent"
      BY <1>0, <1>9 DEF Create, InOrder
    <3>5. ASSUME NEW k \in Jobs, NEW l \in Jobs, k < l, row'[k] = "absent" \/ k \in Busy'
          PROVE  row'[l] = "absent"
      <4>1. k >= j
        <5>1. k = j \/ row'[k] = "absent"
          BY <3>1, <3>2, <3>5 DEF Goes, Busy
        <5>2. k = j \/ row[k] = "absent"
          BY <1>0, <3>1, <5>1 DEF ExportTypeOK
        <5> QED
          BY <3>3, <5>2 DEF Jobs, ExportAssumption
      <4>2. l > j
        BY <4>1, <3>5 DEF Jobs, ExportAssumption
      <4> QED
        BY <3>1, <3>4, <4>2 DEF Jobs
    <3> QED BY <3>5 DEF InOrder
  <2>3. ReadyIsDownloadable'
    BY <1>0, <1>9 DEF Create, ReadyIsDownloadable
  <2>4. YoungBuilds'
    BY <1>0, <1>9, <2>1 DEF Create, Goes, Busy, YoungBuilds
  <2>5. ReapsTheOld'
    BY <1>0, <1>9 DEF Create, SetReq, ReapsTheOld
  <2>6. OneBuild'
    BY <1>0, <1>9, <2>1 DEF ExportTypeOK, Create, SetReq, Goes, Busy, Writing, Pruning,
       OneBuild, OneTab
  <2>7. BuildsAtWork'
    BY <1>0, <1>9, <2>1 DEF ExportTypeOK, Create, Goes, Pruning, BuildsAtWork
  <2> QED
    BY <2>2, <2>3, <2>4, <2>5, <2>6, <2>7 DEF DownloadInv
<1>10. ASSUME NEW j \in Jobs, BuildMark(j) PROVE  DownloadInv'
  <2>1. Goes(j, "open")
    BY <1>0, <1>10, SetBuildMoves DEF BuildMark, BuildPcs
  <2>2. OneBuild'
    <3>1. Goes(j, "open")
      BY <1>0, <1>10, SetBuildMoves DEF BuildMark, BuildPcs
    <3>2. j \in Busy /\ Busy' = Busy /\ build[j].pc \notin Pruning
      BY <1>10, <3>1 DEF BuildMark, Goes, Busy, Pruning
    <3> QED
      BY <1>0, <1>10, <3>2 DEF BuildMark, OneBuild
  <2>3. ReadyIsDownloadable'
    BY <1>0, <1>10 DEF BuildMark, Writing, ReadyIsDownloadable, BuildsAtWork
  <2>4. InOrder'
    BY <1>0, <1>10, <2>1 DEF BuildMark, Goes, Busy, Writing, InOrder, BuildsAtWork
  <2>5. YoungBuilds'
    BY <1>0, <1>10, <2>1 DEF BuildMark, Goes, Busy, YoungBuilds
  <2>6. ReapsTheOld'
    BY <1>0, <1>10 DEF BuildMark, Writing, ReapsTheOld, BuildsAtWork
  <2>7. BuildsAtWork'
    BY <1>0, <1>10, <2>1 DEF BuildMark, Goes, Writing, Pruning, BuildsAtWork
  <2> QED
    BY <2>2, <2>3, <2>4, <2>5, <2>6, <2>7 DEF DownloadInv
<1>11. ASSUME NEW j \in Jobs, BuildOpen(j) PROVE  DownloadInv'
  <2>1. Goes(j, "flush")
    BY <1>0, <1>11, SetBuildMoves DEF BuildOpen, BuildPcs
  <2>2. ReadyIsDownloadable'
    <3>1. row[j] # "ready" /\ UNCHANGED row
      BY <1>0, <1>11 DEF BuildOpen, BuildsAtWork, Writing
    <3>2. \A k \in Jobs : k # j => zip'[k] = zip[k]
      BY <1>0, <1>11 DEF ExportTypeOK, BuildOpen
    <3> QED
      BY <1>0, <3>1, <3>2 DEF ReadyIsDownloadable
  <2>3. InOrder'
    BY <1>0, <1>11, <2>1 DEF BuildOpen, Goes, Busy, InOrder
  <2>4. YoungBuilds'
    BY <1>0, <1>11, <2>1 DEF BuildOpen, Goes, Busy, YoungBuilds
  <2>5. ReapsTheOld'
    BY <1>0, <1>11 DEF BuildOpen, ReapsTheOld
  <2>6. OneBuild'
    <3>1. j \in Busy /\ Busy' = Busy /\ build[j].pc \notin Pruning
      BY <1>11, <2>1 DEF BuildOpen, Goes, Busy, Pruning
    <3> QED
      BY <1>0, <1>11, <3>1 DEF BuildOpen, OneBuild
  <2>7. BuildsAtWork'
    BY <1>0, <1>11, <2>1 DEF BuildOpen, Goes, Writing, Pruning, BuildsAtWork
  <2> QED
    BY <2>2, <2>3, <2>4, <2>5, <2>6, <2>7 DEF DownloadInv
<1>12. ASSUME NEW j \in Jobs, BuildFlush(j) PROVE  DownloadInv'
  <2>1. BuildsAtWork'
    <3>1. CASE zip[j] = "partial"
      <4>1. Goes(j, "flip") /\ zip' = [zip EXCEPT ![j] = "full"]
        BY <1>0, <1>12, <3>1, SetBuildMoves DEF BuildFlush, BuildPcs
      <4> QED
        BY <1>0, <1>12, <4>1 DEF ExportTypeOK, BuildFlush, BuildsAtWork, Goes, Writing,
           Pruning
    <3>2. CASE zip[j] # "partial"
      <4>1. Goes(j, "clean")
        BY <1>0, <1>12, <3>2, SetBuildMoves DEF BuildFlush, BuildPcs
      <4> QED
        BY <1>0, <1>12, <3>2, <4>1 DEF BuildFlush, BuildsAtWork, Goes, Writing, Pruning
    <3> QED BY <3>1, <3>2
  <2>2. ReadyIsDownloadable'
    BY <1>0, <1>12 DEF ExportTypeOK, BuildFlush, ReadyIsDownloadable
  <2>3. InOrder'
    BY <1>0, <1>12, SetBuildMoves DEF BuildFlush, Goes, BuildPcs, Busy, InOrder
  <2>4. YoungBuilds'
    BY <1>0, <1>12, SetBuildMoves DEF BuildFlush, Goes, BuildPcs, Busy, YoungBuilds
  <2>5. ReapsTheOld'
    BY <1>0, <1>12 DEF BuildFlush, ReapsTheOld
  <2>6. OneBuild'
    <3>1. Goes(j, "flip") \/ Goes(j, "clean")
      BY <1>0, <1>12, SetBuildMoves DEF BuildFlush, BuildPcs
    <3>2. j \in Busy /\ Busy' = Busy /\ build[j].pc \notin Pruning
      BY <1>12, <3>1 DEF BuildFlush, Goes, Busy, Pruning
    <3> QED
      BY <1>0, <1>12, <3>2 DEF BuildFlush, OneBuild
  <2> QED
    BY <2>1, <2>2, <2>3, <2>4, <2>5, <2>6 DEF DownloadInv
<1>13. ASSUME NEW j \in Jobs, BuildFlip(j) PROVE  DownloadInv'
  <2>1. Goes(j, "list")
    BY <1>0, <1>13, SetBuildMoves DEF BuildFlip, BuildPcs
  <2>2. BuildsAtWork'
    <3>1. Goes(j, "list")
      BY <1>0, <1>13, SetBuildMoves DEF BuildFlip, BuildPcs
    <3>2. zip[j] = "full" /\ row'[j] = "ready" /\ fresh'[j] > 0 /\ UNCHANGED zip
      BY <1>0, <1>13 DEF ExportTypeOK, BuildFlip, BuildsAtWork, CooldownFromNow
    <3>4. \A k \in Jobs : k # j => build'[k].pc = "idle"
      BY <1>0, <1>13, <3>1 DEF BuildFlip, OneBuild, Busy, Goes
    <3> QED
      BY <1>0, <3>1, <3>2, <3>4 DEF BuildsAtWork, Goes, Writing, Pruning
  <2>3. ReadyIsDownloadable'
    BY <1>0, <1>13 DEF BuildFlip, ReadyIsDownloadable, BuildsAtWork
  <2>4. InOrder'
    BY <1>0, <1>13, <2>1 DEF BuildFlip, Goes, Busy, Writing, InOrder, BuildsAtWork
  <2>5. YoungBuilds'
    BY <1>0, <1>13, <2>1 DEF BuildFlip, Goes, Busy, YoungBuilds
  <2>6. ReapsTheOld'
    BY <1>0, <1>13 DEF BuildFlip, Writing, ReapsTheOld, BuildsAtWork
  <2>7. OneBuild'
    <3>1. j \in Busy /\ Busy' = Busy /\ build[j].pc \notin Pruning
      BY <1>13, <2>1 DEF BuildFlip, Goes, Busy, Pruning
    <3> QED
      BY <1>0, <1>13, <3>1 DEF BuildFlip, OneBuild
  <2> QED
    BY <2>2, <2>3, <2>4, <2>5, <2>6, <2>7 DEF DownloadInv
<1>14. ASSUME NEW j \in Jobs, BuildThrows(j) PROVE  DownloadInv'
  <2>1. Goes(j, "clean")
    BY <1>0, <1>14, SetBuildMoves DEF BuildThrows, BuildPcs
  <2>2. ReadyIsDownloadable'
    BY <1>0, <1>14 DEF BuildThrows, ReadyIsDownloadable
  <2>3. InOrder'
    BY <1>0, <1>14, <2>1 DEF BuildThrows, Goes, Busy, InOrder
  <2>4. YoungBuilds'
    BY <1>0, <1>14, <2>1 DEF BuildThrows, Goes, Busy, YoungBuilds
  <2>5. ReapsTheOld'
    BY <1>0, <1>14 DEF BuildThrows, ReapsTheOld
  <2>6. OneBuild'
    <3>1. j \in Busy /\ Busy' = Busy /\ build[j].pc \notin Pruning
      BY <1>14, <2>1 DEF BuildThrows, Goes, Busy, Pruning
    <3> QED
      BY <1>0, <1>14, <3>1 DEF BuildThrows, OneBuild
  <2>7. BuildsAtWork'
    BY <1>0, <1>14, <2>1 DEF BuildThrows, Goes, Writing, Pruning, BuildsAtWork
  <2> QED
    BY <2>2, <2>3, <2>4, <2>5, <2>6, <2>7 DEF DownloadInv
<1>15. ASSUME NEW j \in Jobs, BuildClean(j) PROVE  DownloadInv'
  <2>1. Goes(j, "fail")
    BY <1>0, <1>15, SetBuildMoves DEF BuildClean, BuildPcs
  <2>2. ReadyIsDownloadable'
    <3>1. row[j] # "ready"
      BY <1>0, <1>15 DEF BuildClean, BuildsAtWork, Writing
    <3>2. \A k \in Jobs : k # j => zip'[k] = zip[k]
      BY <1>0, <1>15, RemoveTouches DEF BuildClean
    <3> QED
      BY <1>0, <1>15, <3>1, <3>2 DEF BuildClean, ReadyIsDownloadable
  <2>3. InOrder'
    BY <1>0, <1>15, <2>1 DEF BuildClean, Goes, Busy, InOrder
  <2>4. YoungBuilds'
    BY <1>0, <1>15, <2>1 DEF BuildClean, Goes, Busy, YoungBuilds
  <2>5. ReapsTheOld'
    BY <1>0, <1>15 DEF BuildClean, ReapsTheOld
  <2>6. OneBuild'
    <3>1. j \in Busy /\ Busy' = Busy /\ build[j].pc \notin Pruning
      BY <1>15, <2>1 DEF BuildClean, Goes, Busy, Pruning
    <3> QED
      BY <1>0, <1>15, <3>1 DEF BuildClean, OneBuild
  <2>7. BuildsAtWork'
    <3>1. UNCHANGED <<row, fresh>> /\ build[j].pc = "clean"
      BY <1>15 DEF BuildClean
    <3>2. \A k \in Jobs : k # j => zip'[k] = zip[k]
      BY <1>0, <1>15, RemoveTouches DEF BuildClean
    <3> QED
      BY <1>0, <2>1, <3>1, <3>2 DEF BuildsAtWork, Goes, Writing, Pruning
  <2> QED
    BY <2>2, <2>3, <2>4, <2>5, <2>6, <2>7 DEF DownloadInv
<1>16. ASSUME NEW j \in Jobs, BuildFail(j) PROVE  DownloadInv'
  <2>1. Goes(j, "idle")
    BY <1>0, <1>16, SetBuildMoves DEF BuildFail, BuildPcs
  <2>2. ReadyIsDownloadable'
    BY <1>0, <1>16 DEF ExportTypeOK, BuildFail, Writing, ReadyIsDownloadable,
       BuildsAtWork
  <2>3. InOrder'
    BY <1>0, <1>16, <2>1 DEF ExportTypeOK, BuildFail, Goes, Busy, Writing, InOrder,
       BuildsAtWork
  <2>4. YoungBuilds'
    BY <1>0, <1>16, <2>1 DEF ExportTypeOK, BuildFail, Goes, Busy, YoungBuilds
  <2>5. ReapsTheOld'
    BY <1>0, <1>16 DEF ExportTypeOK, BuildFail, ReapsTheOld
  <2>6. OneBuild'
    BY <1>0, <1>16, <2>1 DEF BuildFail, Goes, Busy, OneBuild
  <2>7. BuildsAtWork'
    BY <1>0, <1>16, <2>1 DEF BuildFail, Goes, Busy, Writing, Pruning, BuildsAtWork,
       OneBuild
  <2> QED
    BY <2>2, <2>3, <2>4, <2>5, <2>6, <2>7 DEF DownloadInv
<1>17. ASSUME NEW j \in Jobs, PruneList(j) PROVE  DownloadInv'
  <2>1. BuildsAtWork'
    <3>1. j \in Busy /\ build[j].pc \in Pruning
      BY <1>17 DEF PruneList, Busy, Pruning
    <3>2. \A k \in Superseded(j) : k < j
      BY <1>0, <3>1 DEF Superseded, InOrder, Jobs
    <3>3. /\ build'[j] = [pc |-> "prune", todo |-> Superseded(j), removed |-> {}]
          /\ \A k \in Jobs : k # j => build'[k] = build[k]
      BY <1>0, <1>17 DEF PruneList
    <3> QED
      BY <1>0, <1>17, <3>1, <3>2 DEF PruneList, BuildsAtWork, Writing
  <2>2. ReadyIsDownloadable' /\ InOrder' /\ YoungBuilds' /\ ReapsTheOld' /\ OneBuild'
    BY <1>0, <1>17 DEF PruneList, Busy, Pruning, ReadyIsDownloadable, ReapsTheOld,
       InOrder, YoungBuilds, OneBuild
  <2> QED
    BY <2>1, <2>2 DEF DownloadInv
<1>18. ASSUME NEW j \in Jobs, PruneDelete(j) PROVE  DownloadInv'
  <2>1. ReadyIsDownloadable'
    <3>1. /\ row[j] = "ready" /\ zip[j] = "full"
          /\ \A k \in build[j].removed : k < j
      BY <1>0, <1>18 DEF PruneDelete, BuildsAtWork, Pruning
    <3>2. j \notin build[j].removed
      BY <3>1 DEF Jobs, ExportAssumption
    <3>3. CASE row' = row
      BY <1>0, <1>18, <3>3 DEF PruneDelete, ReadyIsDownloadable
    <3>4. CASE row' = [k \in Jobs |-> IF k \in build[j].removed THEN "deleted" ELSE row[k]]
      <4>1. row'[j] = "ready" /\ zip'[j] = "full"
        BY <1>18, <3>1, <3>2 DEF PruneDelete
      <4>2. ASSUME NEW k \in Jobs, row'[k] = "ready", zip'[k] # "full"
            PROVE  \E l \in Jobs : l > k /\ row'[l] = "ready" /\ zip'[l] = "full"
        <5>1. row[k] = "ready" /\ zip[k] # "full"
          BY <1>18, <3>4, <4>2 DEF PruneDelete
        <5>2. PICK l \in Jobs : l > k /\ row[l] = "ready" /\ zip[l] = "full"
          BY <1>0, <5>1 DEF ReadyIsDownloadable
        <5>3. CASE l \in build[j].removed
          BY <3>1, <4>1, <5>2, <5>3 DEF Jobs
        <5>4. CASE l \notin build[j].removed
          BY <1>18, <5>2, <5>4 DEF PruneDelete
        <5> QED BY <5>3, <5>4
      <4> QED BY <4>2 DEF ReadyIsDownloadable
    <3> QED BY <1>18, <3>3, <3>4 DEF PruneDelete
  <2>2. InOrder' /\ YoungBuilds' /\ ReapsTheOld' /\ OneBuild' /\ BuildsAtWork'
    BY <1>0, <1>18 DEF ExportTypeOK, PruneDelete, NoBuild, Busy, Writing, Pruning,
       InOrder, BuildsAtWork, YoungBuilds, ReapsTheOld, OneBuild
  <2> QED
    BY <2>1, <2>2 DEF DownloadInv
<1>19. ASSUME NEW j \in Jobs, NEW i \in Jobs, PruneRemove(j, i) PROVE  DownloadInv'
  <2>1. ReadyIsDownloadable'
    <3>1. row[j] = "ready" /\ zip[j] = "full" /\ i < j
      BY <1>0, <1>19 DEF PruneRemove, BuildsAtWork, Pruning
    <3>2. \A k \in Jobs : k # i => zip'[k] = zip[k]
      BY <1>0, <1>19, RemoveTouches DEF PruneRemove
    <3>3. ASSUME NEW k \in Jobs, row'[k] = "ready", zip'[k] # "full"
          PROVE  \E l \in Jobs : l > k /\ row'[l] = "ready" /\ zip'[l] = "full"
      <4>1. CASE k = i
        BY <1>19, <3>1, <3>2, <4>1 DEF PruneRemove, Jobs
      <4>2. CASE k # i
        <5>1. PICK l \in Jobs : l > k /\ row[l] = "ready" /\ zip[l] = "full"
          BY <1>0, <1>19, <3>2, <3>3, <4>2 DEF ReadyIsDownloadable, PruneRemove
        <5>2. CASE l = i
          BY <1>19, <3>1, <3>2, <5>1 DEF PruneRemove, Jobs
        <5>3. CASE l # i
          BY <1>19, <3>2, <5>1, <5>3 DEF PruneRemove
        <5> QED BY <5>2, <5>3
      <4> QED BY <4>1, <4>2
    <3> QED BY <3>3 DEF ReadyIsDownloadable
  <2>2. InOrder'
    BY <1>0, <1>19 DEF PruneRemove, Busy, InOrder
  <2>3. YoungBuilds'
    BY <1>0, <1>19 DEF PruneRemove, Busy, YoungBuilds
  <2>4. ReapsTheOld'
    BY <1>0, <1>19 DEF PruneRemove, ReapsTheOld
  <2>5. OneBuild'
    BY <1>0, <1>19 DEF PruneRemove, Busy, OneBuild
  <2>6. BuildsAtWork'
    <3>1. row[j] = "ready" /\ zip[j] = "full" /\ fresh[j] > 0 /\ i < j /\ j \in Busy
      BY <1>0, <1>19 DEF PruneRemove, BuildsAtWork, Pruning, Busy
    <3>2. \A k \in Jobs : k # i => zip'[k] = zip[k]
      BY <1>0, <1>19, RemoveTouches DEF PruneRemove
    <3>3. \A k \in Jobs : k # j => build[k].pc = "idle"
      BY <1>0, <3>1 DEF OneBuild, Busy
    <3>4. Removed(i) \subseteq {i} /\ i # j
      BY <3>1 DEF Removed, Jobs
    <3>5. build[j].pc = "prune"
      BY <1>19 DEF PruneRemove
    <3>6. \A k \in Jobs : \A x \in build'[k].todo \cup build'[k].removed : x < k
      BY <1>0, <1>19, <3>1, <3>4, PruneRemoveMoves DEF BuildsAtWork
    <3>7. UNCHANGED <<row, fresh>>
      BY <1>19 DEF PruneRemove
    <3> QED
      BY <1>0, <1>19, <3>2, <3>3, <3>4, <3>6, <3>7, PruneRemoveMoves DEF BuildsAtWork,
         Pruning
  <2> QED
    BY <2>1, <2>2, <2>3, <2>4, <2>5, <2>6 DEF DownloadInv
<1>20. ASSUME ProcessDies PROVE  DownloadInv'
  BY <1>20 DEF ProcessDies, NoReq, NoBuild, Busy, Writing, Pruning,
     ReadyIsDownloadable, BuildsAtWork, ReapsTheOld, InOrder, YoungBuilds, OneBuild,
     DownloadInv
<1>21. ASSUME Erase PROVE  DownloadInv'
  <2>1. BuildsAtWork'
    <3>1. UNCHANGED build /\ \A k \in Jobs : build[k].pc = "idle"
      BY <1>21 DEF Erase, Quiet
    <3> QED
      BY <1>0, <3>1 DEF BuildsAtWork, Writing, Pruning
  <2>2. ReadyIsDownloadable' /\ InOrder' /\ YoungBuilds' /\ ReapsTheOld' /\ OneBuild'
    BY <1>0, <1>21 DEF ExportTypeOK, Erase, Busy, ReadyIsDownloadable, ReapsTheOld,
       InOrder, YoungBuilds, OneBuild
  <2> QED
    BY <2>1, <2>2 DEF DownloadInv
<1>22. ASSUME JobsAge PROVE  DownloadInv'
  BY <1>22 DEF ExportTypeOK, JobsAge, Busy, Pruning, ReadyIsDownloadable, BuildsAtWork,
     ReapsTheOld, InOrder, YoungBuilds, TimeMayPass, OneBuild, DownloadInv
<1>23. CASE UNCHANGED exportVars
  BY <1>23 DEF exportVars, DownloadInv, ReadyIsDownloadable, InOrder, YoungBuilds,
     ReapsTheOld, OneBuild, BuildsAtWork, Busy
<1> QED
  BY <1>1, <1>2, <1>3, <1>4, <1>5, <1>6, <1>7, <1>8, <1>9, <1>10, <1>11, <1>12,
     <1>13,
     <1>14, <1>15, <1>16, <1>17, <1>18, <1>19, <1>20, <1>21, <1>22, <1>23
  DEF ExportNext, RequestStep, BuildStep

LEMMA DownloadInit == ASSUME ExportAssumption PROVE ExportInit => DownloadInv
<1> SUFFICES ASSUME ExportInit PROVE DownloadInv
  OBVIOUS
<1>1. Busy = {} /\ ReadyIsDownloadable /\ InOrder /\ ReapsTheOld
  BY DEF ExportInit, NoReq, NoBuild, Busy, ReadyIsDownloadable, InOrder, ReapsTheOld
<1>2. YoungBuilds
  BY <1>1 DEF ExportInit, YoungBuilds
<1>3. OneBuild /\ BuildsAtWork
  BY <1>1 DEF ExportInit, NoBuild, OneBuild, BuildsAtWork, Writing, Pruning
<1> QED
  BY <1>1, <1>2, <1>3 DEF DownloadInv

\* A ready job can be downloaded, unless a later one has superseded it, when one
\* tab asks and builds are shorter than the threshold of the reap.
THEOREM ReadyCanBeDownloaded ==
    ASSUME Timely, OneTab PROVE ExportSpec => []ReadyIsDownloadable
<1>1. ExportTypeOK /\ DownloadInv /\ [ExportNext]_exportVars => DownloadInv'
  BY DownloadStep, ExportAssumption
<1>2. DownloadInv => ReadyIsDownloadable
  BY DEF DownloadInv
<1>3. ExportInit => DownloadInv
  BY DownloadInit, ExportAssumption
<1> QED
  BY <1>1, <1>2, <1>3, ExportTypeCorrect, PTL DEF ExportSpec

\* Once a build has run to its end the member has an archive to download until
\* the account goes, under the same two conditions: with two tabs, two builds
\* may prune one another's archive.
THEOREM OneTabKeepsTheLatest ==
    ASSUME Timely, OneTab PROVE ExportSpec => []KeepsTheLatest
<1> DEFINE SomeReady == served /\ member => \E j \in Jobs : row[j] = "ready"
<1>1. ExportInit => SomeReady
  BY DEF ExportInit
<1>2. ExportTypeOK /\ DownloadInv /\ SomeReady /\ [ExportNext]_exportVars => SomeReady'
  <2> SUFFICES ASSUME ExportTypeOK, DownloadInv, SomeReady, [ExportNext]_exportVars,
                      served', member'
               PROVE  \E j \in Jobs : row'[j] = "ready"
    OBVIOUS
  <2>1. ASSUME NEW j \in Jobs, PruneDelete(j)
        PROVE  row'[j] = "ready"
    BY <2>1, ExportAssumption DEF PruneDelete, DownloadInv, BuildsAtWork, Pruning,
       Jobs, ExportAssumption
  <2> DEFINE Keeps == /\ UNCHANGED <<served, member>>
                      /\ \A k \in Jobs : row[k] = "ready" => row'[k] = "ready"
  <2>2. ASSUME NEW r \in Requests, NEW j \in Jobs, ReapFlip(r, j) \/ Create(r, j)
        PROVE  Keeps
    BY <2>2 DEF ReapFlip, Create, Running, ExportTypeOK
  <2>3. ASSUME NEW j \in Jobs, BuildMark(j) \/ BuildFlip(j) \/ BuildFail(j) PROVE Keeps
    <3>1. row[j] # "ready"
      BY <2>3 DEF BuildMark, BuildFlip, BuildFail, DownloadInv, BuildsAtWork, Writing
    <3>2. PICK x : row' = [row EXCEPT ![j] = x] \/ row' = row
      BY <2>3 DEF BuildMark, BuildFlip, BuildFail
    <3>3. \A k \in Jobs : row[k] = "ready" => row'[k] = "ready"
      BY <3>1, <3>2 DEF ExportTypeOK
    <3> QED
      BY <2>3, <3>3 DEF BuildMark, BuildFlip, BuildFail
  <2>4. CASE UNCHANGED <<row, served, member>>
    BY <2>4
  <2>5. CASE Erase
    BY <2>5 DEF Erase
  <2> QED
    BY <2>1, <2>2, <2>3, <2>5 DEF ExportNext, RequestStep, BuildStep, exportVars,
       RequestReap, ReapReclaim, ReapDone, ReapThrows, RequestThrows, Dedup, CoolDown,
       BuildOpen, BuildFlush, BuildThrows, BuildClean, PruneList, PruneRemove,
       ProcessDies, JobsAge
<1>3. DownloadInv /\ SomeReady => KeepsTheLatest
  BY DEF DownloadInv, ReadyIsDownloadable, KeepsTheLatest
<1>4. ExportInit => DownloadInv
  BY DownloadInit, ExportAssumption
<1>5. ExportTypeOK /\ DownloadInv /\ [ExportNext]_exportVars => DownloadInv'
  BY DownloadStep, ExportAssumption
<1> QED
  BY <1>1, <1>2, <1>3, <1>4, <1>5, ExportTypeCorrect, PTL DEF ExportSpec

=============================================================================

------------------------- MODULE MonthlyDispatchProofs -------------------------
(* Theorems about MonthlyDispatch, for every value of its constants.       *)
EXTENDS MonthlyDispatch, FiniteSetTheorems, FunctionTheorems, TLAPS

\* The constants as facts of arithmetic.
LEMMA Numbers ==
    /\ IsFiniteSet(Runs) /\ Cardinality(Runs) \in Nat
    /\ Lease \in Nat /\ Lease > 0 /\ DayLength \in Nat /\ DayLength > 0
    /\ Cap \in Nat /\ Cap > 0 /\ MaxFaults \in Nat /\ MaxChurn \in Nat
    /\ 0 \in 0..(DayLength - 1) /\ 0 \in 0..Cap /\ 0 \in 0..MaxFaults /\ 0 \in 0..MaxChurn
    /\ 0 \in ClaimIds
BY DispatchAssumption, FS_CardinalityType DEF DispatchAssumption, ClaimIds

\* The constant records have their types.
LEMMA Constants == NoClaim \in Claims /\ NoWork \in Works
<1>1. NoClaim \in Claims
  BY Numbers DEF NoClaim, Claims
<1>2. (CHOOSE m \in Members : TRUE) \in Members
  BY DispatchAssumption DEF DispatchAssumption
<1>3. NoWork \in Works
  BY <1>2, Numbers DEF NoWork, Works
<1> QED
  BY <1>1, <1>3

\* There is an id no batch holds for the member: there is one id more than
\* there are batches.
LEMMA FreshIdExists ==
    ASSUME TypeOK, NEW m \in Members, claim[m].id = 0
    PROVE  FreshId(m) \in ClaimIds /\ FreshId(m) # 0
<1> DEFINE held == [r \in Runs |-> work[r].id]
           Ids == 1..(Cardinality(Runs) + 1)
<1>1. held \in Surjection(Runs, Range(held))
  <2>1. held \in [Runs -> ClaimIds]
    BY DEF TypeOK, Works
  <2> QED
    BY <2>1, Fun_RangeProperties
<1>2. IsFiniteSet(Range(held)) /\ Cardinality(Range(held)) <= Cardinality(Runs)
  BY <1>1, Numbers, FS_Surjection
<1>3. IsFiniteSet(Ids) /\ Cardinality(Ids) = Cardinality(Runs) + 1
  <2> DEFINE n == Cardinality(Runs) + 1
  <2>1. n \in Int /\ 1 \in Int /\ ~(1 > n)
    BY Numbers
  <2> HIDE DEF n
  <2>2. IsFiniteSet(1..n) /\ Cardinality(1..n) = n - 1 + 1
    BY <2>1, FS_Interval
  <2> QED
    BY <2>1, <2>2 DEF n
<1>4. ~(Ids \subseteq Range(held))
  BY <1>2, <1>3, Numbers, FS_Subset, FS_CardinalityType
<1>5. PICK i \in Ids : \A r \in Runs : work[r].id # i
  BY <1>4 DEF Range
<1>6. i \in ClaimIds \ {0} /\ i # claim[m].id
  BY Numbers DEF ClaimIds
<1> QED
  BY <1>5, <1>6 DEF FreshId

\* Giving one run a new state leaves the others alone.
LEMMA WorkOf ==
    ASSUME TypeOK, NEW r \in Runs, NEW x, work' = [work EXCEPT ![r] = x]
    PROVE  \A s \in Runs : work'[s] = IF s = r THEN x ELSE work[s]
BY DEF TypeOK

\* Whatever way a run moves on, its state keeps its type.
LEMMA RunMovesType ==
    ASSUME TypeOK, NEW r \in Runs
    PROVE  /\ Leave(r) => work' \in [Runs -> Works]
           /\ \A pc \in {"next", "enqueue", "check", "reserve", "send", "stamp"} :
                Goto(r, pc) => work' \in [Runs -> Works]
           /\ \A mail \in {"sent", "dead", "refused", "rejected"} :
                EndSend(r, mail) => work' \in [Runs -> Works]
           /\ \A id \in ClaimIds : Granted(r, id) => work' \in [Runs -> Works]
<1> USE DEF TypeOK
<1>1. ASSUME Leave(r) PROVE work' \in [Runs -> Works]
  <2>1. [NoWork EXCEPT !.pc = "next", !.todo = work[r].todo] \in Works
    BY Constants DEF Works
  <2> QED
    BY <1>1, <2>1 DEF Leave
<1>2. ASSUME NEW pc \in {"next", "enqueue", "check", "reserve", "send", "stamp"}, Goto(r, pc)
      PROVE  work' \in [Runs -> Works]
  BY <1>2 DEF Goto, Works
<1>3. ASSUME NEW mail \in {"sent", "dead", "refused", "rejected"}, EndSend(r, mail)
      PROVE  work' \in [Runs -> Works]
  <2>1. [work[r] EXCEPT !.pc = "settle", !.mail = mail] \in Works
    BY DEF Works
  <2>2. work' = [work EXCEPT ![r] = [work[r] EXCEPT !.pc = "settle", !.mail = mail]]
    BY <1>3 DEF EndSend
  <2> QED
    BY <1>3, <2>1, <2>2
<1>4. ASSUME NEW id \in ClaimIds, Granted(r, id) PROVE work' \in [Runs -> Works]
  <2>1. [work[r] EXCEPT !.pc = "enqueue", !.id = id] \in Works
    BY DEF Works
  <2>2. work' = [work EXCEPT ![r] = [work[r] EXCEPT !.pc = "enqueue", !.id = id]]
    BY <1>4 DEF Granted
  <2> QED
    BY <1>4, <2>1, <2>2
<1> QED
  BY <1>1, <1>2, <1>3, <1>4

LEMMA TypeInit == Init => TypeOK
BY Constants, Numbers DEF Init, TypeOK

\* Every step of a run, of its environment and of the clock keeps the types.
LEMMA TypeStep == TypeOK /\ [Next]_vars => TypeOK'
<1> SUFFICES ASSUME TypeOK, [Next]_vars PROVE TypeOK'
  OBVIOUS
<1> USE DEF TypeOK
<1>f. Fails => faults' \in 0..MaxFaults
  BY Numbers DEF Fails
<1>c. Churn => churn' \in 0..MaxChurn
  BY Numbers DEF Churn
<1>1. ASSUME NEW r \in Runs, Start(r) PROVE TypeOK'
  <2>1. work' \in [Runs -> Works]
    <3>1. work' = [work EXCEPT ![r] = [work[r] EXCEPT !.pc = "next", !.todo = members]]
      BY <1>1 DEF Start
    <3>2. [work[r] EXCEPT !.pc = "next", !.todo = members] \in Works
      BY DEF Works
    <3> QED
      BY <3>1, <3>2
  <2> QED
    BY <1>1, <2>1 DEF Start, store, ghosts
<1>2. ASSUME NEW r \in Runs, NEW m \in Members, Upsert(r, m) PROVE TypeOK'
  BY <1>2, Constants DEF Upsert, Works, store, ghosts
<1>3. ASSUME NEW r \in Runs, NEW m \in Members, SkipEntry(r, m) PROVE TypeOK'
  BY <1>3, <1>f DEF SkipEntry, Works, store, ghosts
<1>4. ASSUME NEW r \in Runs, EndRun(r) PROVE TypeOK'
  BY <1>4, Constants DEF EndRun, store, ghosts
<1>5. ASSUME NEW r \in Runs, Claim(r) PROVE TypeOK'
  <2> DEFINE m == work[r].m
  <2>1. m \in Members /\ claim[m] \in Claims /\ claim[m].id \in ClaimIds
    BY DEF Works, Claims
  <2>2. claim' \in [Members -> Claims]
    <3>1. claim[m].id = 0 => [NoClaim EXCEPT !.id = FreshId(m)] \in Claims
      BY <2>1, FreshIdExists, Constants DEF Claims
    <3>2. [claim[m] EXCEPT !.age = 0] \in Claims
      BY <2>1, Numbers DEF Claims
    <3> QED
      BY <1>5, <2>1, <3>1, <3>2 DEF Claim
  <2>3. work' \in [Runs -> Works]
    <3>1. Leave(r) => work' \in [Runs -> Works]
      BY RunMovesType
    <3>2. \A id \in ClaimIds : Granted(r, id) => work' \in [Runs -> Works]
      BY RunMovesType
    <3>3. claim[m].id = 0 => FreshId(m) \in ClaimIds
      BY <2>1, FreshIdExists
    <3> QED
      BY <1>5, <2>1, <3>1, <3>2, <3>3 DEF Claim
  <2>4. faults' \in 0..MaxFaults
    BY <1>5, <1>f DEF Claim
  <2> QED
    BY <1>5, <2>2, <2>3, <2>4 DEF Claim, ghosts
<1>6. ASSUME NEW r \in Runs, Enqueue(r) PROVE TypeOK'
  <2>1. work' \in [Runs -> Works]
    BY <1>6, RunMovesType DEF Enqueue
  <2> QED
    BY <1>6, <1>f, <2>1 DEF Enqueue, Works, ghosts
<1>7. ASSUME NEW r \in Runs, Check(r) PROVE TypeOK'
  <2>1. work' \in [Runs -> Works]
    BY <1>7, RunMovesType DEF Check
  <2> QED
    BY <1>7, <1>f, <2>1 DEF Check, store, ghosts
<1>8. ASSUME NEW r \in Runs, Reserve(r) PROVE TypeOK'
  <2>1. work' \in [Runs -> Works]
    BY <1>8, RunMovesType DEF Reserve
  <2>2. used' \in 0..Cap
    BY <1>8, Numbers DEF Reserve, BudgetLeft
  <2> QED
    BY <1>8, <1>f, <2>1, <2>2 DEF Reserve, ghosts
<1>9. ASSUME NEW r \in Runs, Send(r) PROVE TypeOK'
  <2>1. work' \in [Runs -> Works]
    BY <1>9, RunMovesType DEF Send
  <2> QED
    BY <1>9, <1>f, <2>1 DEF Send, store
<1>10. ASSUME NEW m \in Members, Arrive(m) PROVE TypeOK'
  BY <1>10 DEF Arrive, store
<1>11. ASSUME NEW r \in Runs, MarkDelivered(r) PROVE TypeOK'
  <2>1. work' \in [Runs -> Works]
    BY <1>11, RunMovesType DEF MarkDelivered
  <2>2. claim' \in [Members -> Claims]
    <3>1. work[r].m \in Members
      BY DEF Works
    <3>2. [claim[work[r].m] EXCEPT !.delivered = TRUE] \in Claims
      BY <3>1 DEF Claims
    <3> QED
      BY <1>11, <3>1, <3>2 DEF MarkDelivered
  <2>3. unmarked' \in [Members -> Nat]
    BY <1>11 DEF MarkDelivered
  <2> QED
    BY <1>11, <1>f, <2>1, <2>2, <2>3 DEF MarkDelivered
<1>12. ASSUME NEW r \in Runs, Release(r) PROVE TypeOK'
  <2>1. work' \in [Runs -> Works]
    BY <1>12, RunMovesType DEF Release
  <2>2. claim' \in [Members -> Claims]
    BY <1>12, Constants DEF Release
  <2> QED
    BY <1>12, <1>f, <2>1, <2>2 DEF Release, ghosts
<1>13. ASSUME NEW r \in Runs, Stamp(r) PROVE TypeOK'
  <2>1. work' \in [Runs -> Works]
    BY <1>13, RunMovesType DEF Stamp
  <2>2. stamp' \in [Members -> {"none", "sent", "dead"}]
    BY <1>13 DEF Stamp, Stamped
  <2> QED
    BY <1>13, <1>f, <2>1, <2>2 DEF Stamp, ghosts
<1>14. CASE Crash
  <2>1. PICK out \in SUBSET {r \in Runs : At(r, "send")} :
          LET lost(m) == {r \in out : work[r].m = m}
              taken(m) == {r \in Runs : At(r, "settle") /\ work[r].m = m /\ work[r].mail = "sent"} IN
          /\ adrift' = [m \in Members |-> adrift[m] + Cardinality(lost(m))]
          /\ cut' = [m \in Members |-> cut[m] + Cardinality(lost(m) \cup taken(m))]
    BY <1>14 DEF Crash
  <2>2. \A S \in SUBSET Runs : Cardinality(S) \in Nat
    BY Numbers, FS_Subset, FS_CardinalityType
  <2>3. adrift' \in [Members -> Nat] /\ cut' \in [Members -> Nat]
    <3>1. \A m \in Members : Cardinality({r \in out : work[r].m = m}) \in Nat
      BY <2>2
    <3>2. \A m \in Members : Cardinality({r \in out : work[r].m = m}
             \cup {r \in Runs : At(r, "settle") /\ work[r].m = m /\ work[r].mail = "sent"}) \in Nat
      BY <2>2
    <3> QED
      BY <2>1, <3>1, <3>2
  <2> QED
    BY <1>14, <1>f, <2>3, Constants DEF Crash, store
<1>15. ASSUME NEW m \in Members, Purge(m) PROVE TypeOK'
  BY <1>15, <1>c, Constants DEF Purge, ghosts
<1>16. ASSUME NEW m \in Members, Suppress(m) PROVE TypeOK'
  BY <1>16, <1>c DEF Suppress, ghosts
<1>17. CASE OtherMail
  BY <1>17, <1>c, Numbers DEF OtherMail, BudgetLeft, ghosts
<1>18. CASE Tick
  <2>1. hour' \in 0..(DayLength - 1) /\ used' \in 0..Cap
    BY <1>18, Numbers DEF Tick
  <2>2. \A m \in Members : Aged(claim[m]) \in Claims
    BY Numbers DEF Aged, Claims
  <2> QED
    BY <1>18, <2>1, <2>2 DEF Tick, ghosts
<1>19. CASE UNCHANGED vars
  BY <1>19 DEF vars, store, ghosts
<1> QED
  BY <1>1, <1>2, <1>3, <1>4, <1>5, <1>6, <1>7, <1>8, <1>9, <1>10, <1>11, <1>12, <1>13,
     <1>14, <1>15, <1>16, <1>17, <1>18, <1>19
  DEF Next, RunStep, Environment

\* Every variable keeps its type, whatever is lost, cut short or purged.
THEOREM TypeCorrect == Spec => []TypeOK
  BY TypeInit, TypeStep, PTL DEF Spec

-----------------------------------------------------------------------------
(* One batch at a time holds the claim of a member, and the claim it holds *)
(* is the row's: no duplicate, no false stamp.                             *)

Holding(r) == Holds(r, work[r].m)

\* A batch that holds a claim has an id, and as long as the member exists the
\* row is the one it was given, unconfirmed and not expired.
HoldersOwn ==
    \A r \in Runs : Holding(r) =>
        /\ work[r].id # 0
        /\ work[r].m \in members =>
              /\ claim[work[r].m].id = work[r].id
              /\ ~claim[work[r].m].delivered
              /\ claim[work[r].m].age <= Lease

OneHolder ==
    \A r, s \in Runs : Holding(r) /\ Holding(s) /\ work[r].m = work[s].m => r = s

\* A purged member has no claim; a confirmation stands on a row.
ClaimsOfMembers ==
    \A m \in Members : /\ m \notin members => claim[m] = NoClaim
                       /\ claim[m].delivered => claim[m].id # 0

\* Run r has seen the provider take the mail of m and has not yet said so.
HasSent(r, m) == At(r, "settle") /\ work[r].m = m /\ work[r].mail = "sent"

\* What is out beyond the sends whose end is in doubt.
Excess(m) == (mailed[m] + adrift[m]) - (cut[m] + unmarked[m])

\* One mail may be out for certain; then the claim is confirmed, or about to
\* be, or gone with the member; and nobody who may still send holds a claim.
OneCertainMail ==
    /\ \A m \in Members : Excess(m) <= 1
    /\ \A m \in members : Excess(m) > 0 => claim[m].delivered \/ \E r \in Runs : HasSent(r, m)
    /\ \A r \in Runs : Holding(r) /\ ~HasSent(r, work[r].m) => Excess(work[r].m) <= 0

\* What a batch remembers of its mail is so.
MailIsTrue ==
    \A r \in Runs : /\ work[r].mail = "sent" => mailed[work[r].m] > 0
                    /\ work[r].mail = "dead" => work[r].m \in suppressed

DispatchInv ==
    /\ TypeOK /\ HoldersOwn /\ OneHolder /\ ClaimsOfMembers
    /\ OneCertainMail /\ MailIsTrue

LEMMA DispatchInit == Init => DispatchInv
<1> SUFFICES ASSUME Init PROVE DispatchInv
  OBVIOUS
<1>1. TypeOK
  BY TypeInit
<1>2. \A r \in Runs : work[r].mail = "none" /\ ~Holding(r)
  BY DEF Init, Holding, Holds, NoWork
<1>3. HoldersOwn /\ OneHolder /\ MailIsTrue
  BY <1>2 DEF HoldersOwn, OneHolder, MailIsTrue
<1>4. OneCertainMail
  BY <1>2 DEF Init, OneCertainMail, Excess
<1>5. ClaimsOfMembers
  BY DEF Init, ClaimsOfMembers, NoClaim
<1> QED
  BY <1>1, <1>3, <1>4, <1>5 DEF DispatchInv

\* The sends in doubt only grow in step with what is out.
LEMMA ExcessType == ASSUME TypeOK PROVE \A n \in Members : Excess(n) \in Int
  BY DEF TypeOK, Excess

\* A batch that drops its entry, whatever it did with the mail, or goes on
\* towards its end, disturbs nothing, unless it forgets that the mail is out.
LEMMA Dropping ==
    ASSUME DispatchInv, TypeOK', NEW r \in Runs, NEW x \in Works,
           work' = [work EXCEPT ![r] = x],
           UNCHANGED <<members, claim, suppressed>>,
           \A n \in Members : Excess(n)' <= Excess(n) /\ (mailed[n] > 0 => mailed'[n] > 0),
           x.pc \in {"idle", "next", "claim", "stamp"},
           \A n \in members : HasSent(r, n) => Excess(n)' <= 0,
           x.mail = "none" \/ (x.mail = work[r].mail /\ x.m = work[r].m)
    PROVE  DispatchInv'
<1> USE DEF DispatchInv
<1>m. \A s \in Runs : work[s].m \in Members
  BY DEF TypeOK, Works
<1>e. \A n \in Members : Excess(n) \in Int /\ Excess(n)' \in Int
  BY DEF TypeOK, Excess
<1>1. \A s \in Runs : work'[s] = IF s = r THEN x ELSE work[s]
  BY WorkOf
<1>2. ~Holding(r)' /\ \A s \in Runs : s # r => (Holding(s)' <=> Holding(s))
  BY <1>1 DEF Holding, Holds, At
<1>3. \A s \in Runs : \A m : HasSent(s, m)' <=> HasSent(s, m) /\ s # r
  BY <1>1 DEF HasSent, At
<1>4. HoldersOwn' /\ OneHolder'
  BY <1>1, <1>2 DEF HoldersOwn, OneHolder
<1>5. ClaimsOfMembers'
  BY DEF ClaimsOfMembers
<1>6. OneCertainMail'
  <2>1. \A n \in Members : Excess(n)' <= 1
    BY <1>e DEF OneCertainMail
  <2>2. ASSUME NEW n \in members, Excess(n)' > 0
        PROVE  claim[n].delivered \/ \E s \in Runs : HasSent(s, n)'
    <3>1. n \in Members /\ Excess(n) > 0
      BY <1>e, <2>2 DEF TypeOK
    <3>2. ~HasSent(r, n)
      BY <1>e, <2>2, <3>1
    <3> QED
      BY <1>3, <3>1, <3>2 DEF OneCertainMail
  <2>3. ASSUME NEW s \in Runs, Holding(s)', ~HasSent(s, work[s].m)'
        PROVE  Excess(work[s].m)' <= 0
    <3>1. s # r /\ work'[s] = work[s] /\ Holding(s)
      BY <1>1, <1>2, <2>3
    <3>2. ~HasSent(s, work[s].m)
      BY <1>3, <2>3, <3>1 DEF HasSent
    <3>3. Excess(work[s].m) <= 0
      BY <3>1, <3>2 DEF OneCertainMail
    <3> QED
      BY <1>e, <1>m, <3>1, <3>3
  <2> QED
    BY <2>1, <2>2, <2>3 DEF OneCertainMail
<1>7. MailIsTrue'
  BY <1>1, <1>m DEF MailIsTrue
<1> QED
  BY <1>4, <1>5, <1>6, <1>7

LEMMA LettingGo ==
    ASSUME DispatchInv, TypeOK', NEW r \in Runs, NEW x \in Works,
           work' = [work EXCEPT ![r] = x],
           UNCHANGED <<members, claim, mailed, adrift, cut, unmarked, suppressed>>,
           x.pc \in {"idle", "next", "claim", "stamp"},
           ~HasSent(r, work[r].m),
           x.mail = "none" \/ (x.mail = work[r].mail /\ x.m = work[r].m)
    PROVE  DispatchInv'
<1>1. \A n \in Members : Excess(n)' = Excess(n) /\ Excess(n) \in Int
  BY ExcessType DEF Excess, DispatchInv
<1>2. \A n \in Members : Excess(n)' <= Excess(n) /\ (mailed[n] > 0 => mailed'[n] > 0)
  BY <1>1
<1>3. \A n \in members : HasSent(r, n) => Excess(n)' <= 0
  BY DEF HasSent
<1> QED
  BY <1>2, <1>3, Dropping

\* So does a batch that goes on with its claim and has not sent the mail.
LEMMA GoingOn ==
    ASSUME DispatchInv, TypeOK', NEW r \in Runs, NEW x \in Works,
           work' = [work EXCEPT ![r] = x],
           UNCHANGED <<members, claim, mailed, adrift, cut, unmarked, suppressed>>,
           Holding(r), ~At(r, "settle"),
           x.m = work[r].m, x.id = work[r].id,
           \/ x.mail = work[r].mail /\ x.pc # "settle"
           \/ x.mail # "sent" /\ (x.mail = "dead" => work[r].m \in suppressed)
    PROVE  DispatchInv'
<1> USE DEF DispatchInv
<1>1. \A s \in Runs : work'[s] = IF s = r THEN x ELSE work[s]
  BY WorkOf
<1>2. \A s \in Runs : Holding(s)' => Holding(s)
  BY <1>1 DEF Holding, Holds, At
<1>3. \A s \in Runs : \A m : HasSent(s, m)' <=> HasSent(s, m)
  BY <1>1 DEF HasSent, At
<1>4. HoldersOwn' /\ OneHolder'
  BY <1>1, <1>2 DEF HoldersOwn, OneHolder
<1>5. ClaimsOfMembers'
  BY DEF ClaimsOfMembers
<1>6. OneCertainMail'
  BY <1>1, <1>2, <1>3 DEF OneCertainMail, Excess
<1>7. MailIsTrue'
  BY <1>1 DEF MailIsTrue
<1> QED
  BY <1>4, <1>5, <1>6, <1>7

\* Nor what happens around the batches: members and their claims go, time
\* passes, requests that were adrift end.
LEMMA Standing ==
    ASSUME DispatchInv, TypeOK', UNCHANGED work,
           members' \subseteq members, suppressed \subseteq suppressed',
           \A n \in members' : claim'[n].id = claim[n].id /\ claim'[n].delivered = claim[n].delivered,
           \A n \in Members \ members' : claim'[n] = NoClaim,
           \A n \in Members : Excess(n)' <= Excess(n) /\ (mailed[n] > 0 => mailed'[n] > 0),
           \A r \in Runs : Holding(r) /\ work[r].m \in members' => claim'[work[r].m].age <= Lease
    PROVE  DispatchInv'
<1> USE DEF DispatchInv
<1>m. \A s \in Runs : work[s].m \in Members
  BY DEF TypeOK, Works
<1>e. \A n \in Members : Excess(n) \in Int /\ Excess(n)' \in Int
  BY DEF TypeOK, Excess
<1>1. /\ \A s \in Runs : Holding(s)' <=> Holding(s)
      /\ \A s \in Runs : \A n : HasSent(s, n)' <=> HasSent(s, n)
  BY DEF Holding, Holds, HasSent, At
<1>2. HoldersOwn' /\ OneHolder'
  BY <1>1 DEF HoldersOwn, OneHolder
<1>3. ClaimsOfMembers'
  <2>1. \A n \in members' : n \in Members
    BY DEF TypeOK
  <2> QED
    BY <2>1 DEF ClaimsOfMembers, NoClaim
<1>4. OneCertainMail'
  <2>1. \A n \in Members : Excess(n)' <= 1
    BY <1>e DEF OneCertainMail
  <2>2. \A n \in members' : Excess(n)' > 0 => Excess(n) > 0
    BY <1>e DEF TypeOK
  <2>3. ASSUME NEW s \in Runs, Holding(s)', ~HasSent(s, work[s].m)'
        PROVE  Excess(work[s].m)' <= 0
    <3>1. Excess(work[s].m) <= 0
      BY <1>1, <2>3 DEF OneCertainMail
    <3> QED
      BY <1>e, <1>m, <3>1
  <2> QED
    BY <1>1, <2>1, <2>2, <2>3 DEF OneCertainMail
<1>5. MailIsTrue'
  BY <1>m DEF MailIsTrue
<1> QED
  BY <1>2, <1>3, <1>4, <1>5

\* Nothing a batch, its end or the world around it does breaks the invariant.
LEMMA DispatchStep == ASSUME DispatchInv, [Next]_vars PROVE DispatchInv'
<1>t. TypeOK /\ TypeOK'
  BY TypeStep DEF DispatchInv
<1>m. \A r \in Runs : work[r] \in Works /\ work[r].m \in Members
  BY <1>t DEF TypeOK, Works
<1>l. ASSUME NEW r \in Runs, Leave(r), ~HasSent(r, work[r].m),
             UNCHANGED <<members, claim, mailed, adrift, cut, unmarked, suppressed>>
      PROVE  DispatchInv'
  <2> DEFINE x == [NoWork EXCEPT !.pc = "next", !.todo = work[r].todo]
  <2>1. work' = [work EXCEPT ![r] = x]
    BY <1>l DEF Leave
  <2>2. x \in Works /\ x.pc = "next" /\ x.mail = "none"
    BY <1>m, Constants DEF Works, NoWork
  <2> HIDE DEF x
  <2> QED
    BY <1>t, <1>l, <2>1, <2>2, LettingGo
<1>d. ASSUME NEW r \in Runs, Leave(r), UNCHANGED <<members, claim, suppressed>>,
             \A n \in Members : Excess(n)' <= Excess(n) /\ (mailed[n] > 0 => mailed'[n] > 0),
             \A n \in members : HasSent(r, n) => Excess(n)' <= 0
      PROVE  DispatchInv'
  <2> DEFINE x == [NoWork EXCEPT !.pc = "next", !.todo = work[r].todo]
  <2>1. work' = [work EXCEPT ![r] = x]
    BY <1>d DEF Leave
  <2>2. x \in Works /\ x.pc = "next" /\ x.mail = "none"
    BY <1>m, Constants DEF Works, NoWork
  <2> HIDE DEF x
  <2> QED
    BY <1>t, <1>d, <2>1, <2>2, Dropping
<1>g. ASSUME NEW r \in Runs, Holding(r), ~At(r, "settle"), NEW pc \in {"check", "reserve", "send"},
             Goto(r, pc), UNCHANGED <<members, claim, mailed, adrift, cut, unmarked, suppressed>>
      PROVE  DispatchInv'
  <2> DEFINE x == [work[r] EXCEPT !.pc = pc]
  <2>1. work' = [work EXCEPT ![r] = x]
    BY <1>g DEF Goto
  <2>2. x \in Works /\ x.m = work[r].m /\ x.id = work[r].id /\ x.mail = work[r].mail
           /\ x.pc # "settle"
    BY <1>m, <1>g DEF Works
  <2> HIDE DEF x
  <2> QED
    BY <1>t, <1>g, <2>1, <2>2, GoingOn
<1>s. ASSUME NEW r \in Runs, Holding(r), ~At(r, "settle"), NEW mail \in {"dead", "refused", "rejected"},
             EndSend(r, mail), mail = "dead" => work[r].m \in suppressed,
             UNCHANGED <<members, claim, mailed, adrift, cut, unmarked, suppressed>>
      PROVE  DispatchInv'
  <2> DEFINE x == [work[r] EXCEPT !.pc = "settle", !.mail = mail]
  <2>1. work' = [work EXCEPT ![r] = x]
    BY <1>t, <1>m, <1>s DEF EndSend, TypeOK, Works
  <2>2. x \in Works /\ x.m = work[r].m /\ x.id = work[r].id /\ x.mail = mail
    BY <1>m, <1>s DEF Works
  <2> HIDE DEF x
  <2> QED
    BY <1>t, <1>s, <2>1, <2>2, GoingOn
<1>1. ASSUME NEW r \in Runs, Start(r) PROVE DispatchInv'
  <2> DEFINE x == [work[r] EXCEPT !.pc = "next", !.todo = members]
  <2>1. work' = [work EXCEPT ![r] = x]
    BY <1>1, <1>t DEF Start, TypeOK
  <2>2. x \in Works /\ x.pc = "next" /\ x.mail = work[r].mail /\ x.m = work[r].m
    BY <1>t, <1>m DEF Works, TypeOK
  <2>3. ~HasSent(r, work[r].m)
    BY <1>1 DEF Start, HasSent, At
  <2> HIDE DEF x
  <2> QED
    BY <1>1, <1>t, <2>1, <2>2, <2>3, LettingGo DEF Start, store, ghosts
<1>2. ASSUME NEW r \in Runs, NEW m \in Members, Upsert(r, m) PROVE DispatchInv'
  <2> DEFINE x == [NoWork EXCEPT !.pc = IF m \in members /\ Undispatched(m) THEN "claim" ELSE "next",
                                 !.todo = work[r].todo \ {m}, !.m = m]
  <2>1. work' = [work EXCEPT ![r] = x]
    BY <1>2 DEF Upsert
  <2>2. x \in Works /\ x.pc \in {"claim", "next"} /\ x.mail = "none"
    BY <1>m, Constants DEF Works, NoWork
  <2>3. ~HasSent(r, work[r].m)
    BY <1>2 DEF Upsert, HasSent, At
  <2> HIDE DEF x
  <2> QED
    BY <1>2, <1>t, <2>1, <2>2, <2>3, LettingGo DEF Upsert, store, ghosts
<1>3. ASSUME NEW r \in Runs, NEW m \in Members, SkipEntry(r, m) PROVE DispatchInv'
  <2> DEFINE x == [work[r] EXCEPT !.todo = work[r].todo \ {m}]
  <2>1. work' = [work EXCEPT ![r] = x]
    BY <1>3, <1>t, <1>m DEF SkipEntry, TypeOK, Works
  <2>2. x \in Works /\ x.pc = "next" /\ x.mail = work[r].mail /\ x.m = work[r].m
    BY <1>3, <1>m DEF Works, SkipEntry, At
  <2>3. ~HasSent(r, work[r].m)
    BY <1>3 DEF SkipEntry, HasSent, At
  <2> HIDE DEF x
  <2> QED
    BY <1>3, <1>t, <2>1, <2>2, <2>3, LettingGo DEF SkipEntry, store, ghosts
<1>4. ASSUME NEW r \in Runs, EndRun(r) PROVE DispatchInv'
  <2>1. work' = [work EXCEPT ![r] = NoWork]
    BY <1>4 DEF EndRun
  <2>2. NoWork \in Works /\ NoWork.pc = "idle" /\ NoWork.mail = "none"
    BY Constants DEF NoWork
  <2>3. ~HasSent(r, work[r].m)
    BY <1>4 DEF EndRun, HasSent, At
  <2> QED
    BY <1>4, <1>t, <2>1, <2>2, <2>3, LettingGo DEF EndRun, store, ghosts
<1>5. ASSUME NEW r \in Runs, Claim(r) PROVE DispatchInv'
  <2> DEFINE m == work[r].m
  <2>1. CASE UNCHANGED claim /\ Leave(r)
    <3>1. ~HasSent(r, m)
      BY <1>5 DEF Claim, HasSent, At
    <3> QED
      BY <1>5, <1>l, <2>1, <3>1 DEF Claim, ghosts
  <2>2. ASSUME NEW id \in ClaimIds \ {0}, NEW k \in Claims, m \in members,
               claim[m].id = 0 \/ Expired(m), Granted(r, id),
               claim' = [claim EXCEPT ![m] = k], k.id = id, ~k.delivered, k.age = 0
        PROVE  DispatchInv'
    <3> DEFINE x == [work[r] EXCEPT !.pc = "enqueue", !.id = id]
    <3>1. work' = [work EXCEPT ![r] = x]
      BY <1>t, <1>m, <2>2 DEF Granted, TypeOK, Works
    <3>2. x \in Works /\ x.pc = "enqueue" /\ x.m = m /\ x.id = id /\ x.mail = work[r].mail
      BY <1>m, <2>2 DEF Works
    <3> HIDE DEF x
    <3>3. \A s \in Runs : work'[s] = IF s = r THEN x ELSE work[s]
      BY <1>t, <3>1, WorkOf
    <3>4. \A s \in Runs : work[s].m = m => ~Holding(s)
      BY <1>t, <1>m, <2>2, Numbers
      DEF DispatchInv, HoldersOwn, Expired, NoClaim, TypeOK, Claims
    <3>5. ~At(r, "settle")
      BY <1>5 DEF Claim, At
    <3>6. \A s \in Runs : \A n : HasSent(s, n)' <=> HasSent(s, n)
      BY <3>2, <3>3, <3>5 DEF HasSent, At
    <3>7. \A s \in Runs : Holding(s)' <=> s = r \/ Holding(s)
      BY <3>2, <3>3 DEF Holding, Holds
    <3>8. \A n \in Members : claim'[n] = IF n = m THEN k ELSE claim[n]
      BY <1>t, <2>2 DEF TypeOK
    <3>9. UNCHANGED <<members, stamp, suppressed, mailed, adrift, cut, unmarked>>
      BY <1>5 DEF Claim, ghosts
    <3>10. HoldersOwn'
      BY <1>m, <2>2, <3>2, <3>3, <3>4, <3>7, <3>8, <3>9, Numbers DEF DispatchInv, HoldersOwn
    <3>11. OneHolder'
      BY <3>2, <3>3, <3>4, <3>7 DEF DispatchInv, OneHolder
    <3>12. ClaimsOfMembers'
      BY <2>2, <3>8, <3>9 DEF DispatchInv, ClaimsOfMembers
    <3>13. ~claim[m].delivered
      BY <1>m, <2>2 DEF DispatchInv, ClaimsOfMembers, Expired
    <3>14. Excess(m) <= 0
      <4>1. \A s \in Runs : ~HasSent(s, m)
        BY <3>4 DEF HasSent, Holding, Holds, At
      <4>2. Excess(m) \in Int
        BY <1>t, <1>m DEF Excess, TypeOK
      <4> QED
        BY <2>2, <3>13, <4>1, <4>2 DEF DispatchInv, OneCertainMail
    <3>15. OneCertainMail'
      <4>1. \A n : Excess(n)' = Excess(n)
        BY <3>9 DEF Excess
      <4>2. \A n \in members' : Excess(n)' > 0 =>
               claim'[n].delivered \/ \E s \in Runs : HasSent(s, n)'
        <5>1. \A n \in members : n \in Members /\ Excess(n) \in Int
          BY <1>t, ExcessType DEF TypeOK
        <5>2. \A n \in members : Excess(n) > 0 => n # m
          BY <3>14, <5>1
        <5> QED
          BY <3>6, <3>8, <3>9, <4>1, <5>1, <5>2 DEF DispatchInv, OneCertainMail
      <4>3. ASSUME NEW s \in Runs, Holding(s)', ~HasSent(s, work[s].m)'
            PROVE  Excess(work'[s].m) <= 0
        <5>1. CASE s = r
          BY <3>2, <3>3, <3>14, <5>1
        <5>2. CASE s # r
          BY <3>3, <3>6, <3>7, <4>3, <5>2 DEF DispatchInv, OneCertainMail
        <5> QED
          BY <5>1, <5>2
      <4> QED
        BY <4>1, <4>2, <4>3 DEF DispatchInv, OneCertainMail
    <3>16. MailIsTrue'
      BY <2>2, <3>2, <3>3, <3>8, <3>9 DEF DispatchInv, MailIsTrue
    <3> QED
      BY <1>t, <3>10, <3>11, <3>12, <3>15, <3>16 DEF DispatchInv
  <2>3. CASE m \in members /\ claim[m].id = 0
             /\ claim' = [claim EXCEPT ![m] = [NoClaim EXCEPT !.id = FreshId(m)]]
             /\ Granted(r, FreshId(m))
    <3>1. FreshId(m) \in ClaimIds \ {0}
      BY <1>t, <1>m, <2>3, FreshIdExists
    <3>2. [NoClaim EXCEPT !.id = FreshId(m)] \in Claims
      BY <3>1, Constants DEF Claims
    <3> QED
      BY <2>2, <2>3, <3>1, <3>2 DEF NoClaim
  <2>4. CASE m \in members /\ Expired(m) /\ claim' = [claim EXCEPT ![m].age = 0]
             /\ Granted(r, claim[m].id)
    <3>1. claim[m] \in Claims /\ claim[m].id \in ClaimIds \ {0} /\ ~claim[m].delivered
      BY <1>t, <1>m, <2>4 DEF TypeOK, Claims, Expired
    <3>2. [claim[m] EXCEPT !.age = 0] \in Claims
      BY <3>1, Numbers DEF Claims
    <3>3. claim' = [claim EXCEPT ![m] = [claim[m] EXCEPT !.age = 0]]
      BY <2>4
    <3> QED
      BY <2>2, <2>4, <3>1, <3>2, <3>3 DEF Claims
  <2> QED
    BY <1>5, <2>1, <2>3, <2>4 DEF Claim
<1>6. ASSUME NEW r \in Runs, Enqueue(r) PROVE DispatchInv'
  <2>1. Holding(r) /\ ~At(r, "settle") /\ Goto(r, "check")
    BY <1>6 DEF Enqueue, Holding, Holds, At
  <2> QED
    BY <1>6, <1>g, <2>1 DEF Enqueue, ghosts
<1>7. ASSUME NEW r \in Runs, Check(r) PROVE DispatchInv'
  <2>1. Holding(r) /\ ~At(r, "settle")
    BY <1>7 DEF Check, Holding, Holds, At
  <2>2. CASE Goto(r, "reserve")
    BY <1>7, <1>g, <2>1, <2>2 DEF Check, store, ghosts
  <2>3. CASE work[r].m \in suppressed /\ EndSend(r, "dead")
    BY <1>7, <1>s, <2>1, <2>3 DEF Check, store, ghosts
  <2> QED
    BY <1>7, <2>2, <2>3 DEF Check
<1>8. ASSUME NEW r \in Runs, Reserve(r) PROVE DispatchInv'
  <2>1. Holding(r) /\ ~At(r, "settle")
    BY <1>8 DEF Reserve, Holding, Holds, At
  <2>2. CASE Goto(r, "send")
    BY <1>8, <1>g, <2>1, <2>2 DEF Reserve, ghosts
  <2>3. CASE EndSend(r, "refused")
    BY <1>8, <1>s, <2>1, <2>3 DEF Reserve, ghosts
  <2> QED
    BY <1>8, <2>2, <2>3 DEF Reserve
<1>9. ASSUME NEW r \in Runs, Send(r) PROVE DispatchInv'
  <2> DEFINE m == work[r].m
  <2>1. Holding(r) /\ ~At(r, "settle") /\ m \in Members
    BY <1>9, <1>m DEF Send, Holding, Holds, At
  <2>2. CASE EndSend(r, "rejected") /\ UNCHANGED <<mailed, adrift, cut>>
    BY <1>9, <1>s, <2>1, <2>2 DEF Send, store
  <2>3. CASE /\ adrift' = [adrift EXCEPT ![m] = @ + 1]
             /\ cut' = [cut EXCEPT ![m] = @ + 1]
             /\ Leave(r)
             /\ UNCHANGED mailed
    <3>1. \A n \in Members : Excess(n)' = Excess(n) /\ Excess(n) \in Int
      BY <1>9, <1>t, <2>1, <2>3 DEF Send, Excess, TypeOK
    <3>2. \A n \in members : ~HasSent(r, n)
      BY <2>1 DEF HasSent
    <3>3. UNCHANGED <<members, claim, suppressed>> /\ TypeOK
      BY <1>9, <1>t DEF Send, store
    <3> QED
      BY <1>d, <2>3, <3>1, <3>2, <3>3
  <2>4. CASE mailed' = [mailed EXCEPT ![m] = @ + 1] /\ EndSend(r, "sent") /\ UNCHANGED <<adrift, cut>>
    <3> DEFINE x == [work[r] EXCEPT !.pc = "settle", !.mail = "sent"]
    <3>1. work' = [work EXCEPT ![r] = x]
      BY <1>t, <1>m, <2>4 DEF EndSend, TypeOK, Works
    <3>2. x \in Works /\ x.pc = "settle" /\ x.m = m /\ x.id = work[r].id /\ x.mail = "sent"
      BY <1>m DEF Works
    <3> HIDE DEF x
    <3>3. \A s \in Runs : work'[s] = IF s = r THEN x ELSE work[s]
      BY <1>t, <3>1, WorkOf
    <3>4. UNCHANGED <<members, claim, suppressed, unmarked>>
      BY <1>9 DEF Send, store
    <3>5. \A s \in Runs : Holding(s)' <=> Holding(s)
      BY <2>1, <3>2, <3>3 DEF Holding, Holds
    <3>6. \A s \in Runs : \A n : HasSent(s, n)' <=> HasSent(s, n) \/ (s = r /\ n = m)
      BY <2>1, <3>2, <3>3 DEF HasSent, At
    <3>7. \A n \in Members : /\ Excess(n) \in Int
                             /\ Excess(n)' = IF n = m THEN Excess(n) + 1 ELSE Excess(n)
      BY <1>t, <2>1, <2>4, <3>4 DEF Excess, TypeOK
    <3>8. HoldersOwn' /\ OneHolder' /\ ClaimsOfMembers'
      BY <3>2, <3>3, <3>4, <3>5 DEF DispatchInv, HoldersOwn, OneHolder, ClaimsOfMembers
    <3>9. Excess(m) <= 0
      BY <2>1 DEF DispatchInv, OneCertainMail, HasSent
    <3>10. OneCertainMail'
      <4>1. \A n \in Members : Excess(n)' <= 1
        BY <3>7, <3>9 DEF DispatchInv, OneCertainMail
      <4>2. ASSUME NEW n \in members, Excess(n)' > 0
            PROVE  claim[n].delivered \/ \E s \in Runs : HasSent(s, n)'
        <5>1. n # m => Excess(n) > 0
          BY <1>t, <3>7, <4>2 DEF TypeOK
        <5> QED
          BY <3>6, <5>1 DEF DispatchInv, OneCertainMail
      <4>3. ASSUME NEW s \in Runs, Holding(s)', ~HasSent(s, work[s].m)'
            PROVE  Excess(work[s].m)' <= 0
        <5>1. s # r
          BY <2>1, <3>2, <3>3, <3>6, <4>3
        <5>2. work[s].m # m /\ work'[s] = work[s] /\ ~HasSent(s, work[s].m)
          BY <2>1, <3>3, <3>5, <3>6, <4>3, <5>1 DEF DispatchInv, OneHolder
        <5>3. Excess(work[s].m) <= 0
          BY <3>5, <4>3, <5>2 DEF DispatchInv, OneCertainMail
        <5> QED
          BY <1>m, <3>7, <5>2, <5>3
      <4> QED
        BY <3>4, <4>1, <4>2, <4>3 DEF OneCertainMail
    <3>11. MailIsTrue'
      <4>1. mailed'[m] > 0 /\ \A n \in Members : mailed[n] > 0 => mailed'[n] > 0
        BY <1>t, <2>1, <2>4 DEF TypeOK
      <4> QED
        BY <1>m, <3>2, <3>3, <3>4, <4>1 DEF DispatchInv, MailIsTrue
    <3> QED
      BY <1>t, <3>8, <3>10, <3>11 DEF DispatchInv
  <2> QED
    BY <1>9, <2>2, <2>3, <2>4 DEF Send
<1>10. ASSUME NEW m \in Members, Arrive(m) PROVE DispatchInv'
  <2>1. /\ members' \subseteq members /\ suppressed \subseteq suppressed' /\ UNCHANGED work
        /\ \A n \in members' : claim'[n].id = claim[n].id /\ claim'[n].delivered = claim[n].delivered
        /\ \A n \in Members \ members' : claim'[n] = NoClaim
    BY <1>10 DEF Arrive, store, DispatchInv, ClaimsOfMembers
  <2>2. \A n \in Members : Excess(n)' <= Excess(n) /\ (mailed[n] > 0 => mailed'[n] > 0)
    BY <1>10, <1>t DEF Arrive, Excess, TypeOK
  <2>3. \A r \in Runs : Holding(r) /\ work[r].m \in members' => claim'[work[r].m].age <= Lease
    BY <1>10 DEF Arrive, store, DispatchInv, HoldersOwn
  <2> QED
    BY <1>t, <2>1, <2>2, <2>3, Standing
<1>11. ASSUME NEW r \in Runs, MarkDelivered(r) PROVE DispatchInv'
  <2> DEFINE m == work[r].m
  <2>1. Holding(r) /\ At(r, "settle") /\ m \in Members
    BY <1>11, <1>m DEF MarkDelivered, Holding, Holds, At
  <2>2. CASE ~Mine(r) /\ Leave(r) /\ UNCHANGED <<claim, unmarked, faults>>
    <3>1. m \notin members
      BY <2>1, <2>2 DEF Mine, DispatchInv, HoldersOwn
    <3>2. \A n \in members : ~HasSent(r, n)
      BY <3>1 DEF HasSent
    <3>3. \A n \in Members : Excess(n)' = Excess(n) /\ Excess(n) \in Int
      BY <1>11, <1>t, <2>2, ExcessType DEF MarkDelivered, Excess
    <3>4. UNCHANGED <<members, claim, suppressed, mailed>>
      BY <1>11, <2>2 DEF MarkDelivered
    <3> QED
      BY <1>d, <2>2, <3>2, <3>3, <3>4
  <2>3. CASE unmarked' = [unmarked EXCEPT ![m] = @ + 1] /\ Leave(r) /\ UNCHANGED claim
    <3>1. \A n \in Members : /\ Excess(n) \in Int
                             /\ Excess(n)' = IF n = m THEN Excess(n) - 1 ELSE Excess(n)
      BY <1>11, <1>t, <2>1, <2>3 DEF MarkDelivered, Excess, TypeOK
    <3>2. \A n \in members : HasSent(r, n) => n = m /\ Excess(n) <= 1
      BY <1>t DEF HasSent, DispatchInv, OneCertainMail, TypeOK
    <3>3. UNCHANGED <<members, claim, suppressed, mailed>>
      BY <1>11, <2>3 DEF MarkDelivered
    <3>4. \A n \in members : HasSent(r, n) => Excess(n)' <= 0
      BY <2>1, <3>1, <3>2
    <3>5. \A n \in Members : Excess(n)' <= Excess(n)
      BY <3>1
    <3> QED
      BY <1>d, <2>3, <3>3, <3>4, <3>5
  <2>4. CASE Mine(r) /\ claim' = [claim EXCEPT ![m].delivered = TRUE] /\ Goto(r, "stamp")
             /\ UNCHANGED unmarked
    <3> DEFINE x == [work[r] EXCEPT !.pc = "stamp"]
    <3>1. work' = [work EXCEPT ![r] = x]
      BY <2>4 DEF Goto
    <3>2. x \in Works /\ x.pc = "stamp" /\ x.m = m /\ x.mail = work[r].mail
      BY <1>m DEF Works
    <3> HIDE DEF x
    <3>3. \A s \in Runs : work'[s] = IF s = r THEN x ELSE work[s]
      BY <1>t, <3>1, WorkOf
    <3>4. UNCHANGED <<members, suppressed, mailed, adrift, cut, unmarked>>
      BY <1>11, <2>4 DEF MarkDelivered
    <3>5. \A s \in Runs : Holding(s)' <=> Holding(s) /\ s # r
      BY <3>2, <3>3 DEF Holding, Holds
    <3>6. \A s \in Runs : \A n : HasSent(s, n)' <=> HasSent(s, n) /\ s # r
      BY <3>2, <3>3 DEF HasSent, At
    <3>7. \A n \in Members : /\ n # m => claim'[n] = claim[n]
                             /\ claim'[n].id = claim[n].id
                             /\ claim'[n].delivered <=> claim[n].delivered \/ n = m
      BY <1>t, <2>1, <2>4 DEF TypeOK, Claims
    <3>8. \A s \in Runs : Holding(s) /\ s # r => work[s].m # m
      BY <2>1 DEF DispatchInv, OneHolder
    <3>9. HoldersOwn'
      BY <1>m, <3>3, <3>4, <3>5, <3>7, <3>8 DEF DispatchInv, HoldersOwn
    <3>10. OneHolder'
      BY <3>3, <3>5 DEF DispatchInv, OneHolder
    <3>11. claim[m].id # 0 /\ m \in members
      BY <1>t, <2>1, <2>4 DEF Mine, DispatchInv, HoldersOwn, ClaimsOfMembers, NoClaim
    <3>12. ClaimsOfMembers'
      BY <3>4, <3>7, <3>11 DEF DispatchInv, ClaimsOfMembers
    <3>13. \A n \in Members : Excess(n)' = Excess(n)
      BY <3>4 DEF Excess
    <3>14. OneCertainMail'
      <4>1. ASSUME NEW n \in members, Excess(n) > 0
            PROVE  claim'[n].delivered \/ \E s \in Runs : HasSent(s, n)'
        <5>1. n \in Members
          BY <1>t DEF TypeOK
        <5>2. HasSent(r, n) => n = m
          BY DEF HasSent
        <5> QED
          BY <3>6, <3>7, <4>1, <5>1, <5>2 DEF DispatchInv, OneCertainMail
      <4>2. ASSUME NEW s \in Runs, Holding(s)', ~HasSent(s, work[s].m)'
            PROVE  Excess(work'[s].m) <= 0
        BY <3>3, <3>5, <3>6, <4>2 DEF DispatchInv, OneCertainMail
      <4>3. \A n \in members : n \in Members
        BY <1>t DEF TypeOK
      <4>4. \A s \in Runs : work'[s].m \in Members
        BY <1>t DEF TypeOK, Works
      <4>5. \A n \in Members : Excess(n)' <= 1
        BY <3>13 DEF DispatchInv, OneCertainMail
      <4>6. \A n \in members' : Excess(n)' > 0 =>
               claim'[n].delivered \/ \E s \in Runs : HasSent(s, n)'
        BY <3>4, <3>13, <4>1, <4>3
      <4>7. ASSUME NEW s \in Runs, Holding(s)', ~HasSent(s, work[s].m)'
            PROVE  Excess(work[s].m)' <= 0
        BY <3>13, <4>2, <4>4, <4>7
      <4> QED
        BY <4>5, <4>6, <4>7 DEF OneCertainMail
    <3>15. MailIsTrue'
      BY <3>2, <3>3, <3>4 DEF DispatchInv, MailIsTrue
    <3> QED
      BY <1>t, <3>9, <3>10, <3>12, <3>14, <3>15 DEF DispatchInv
  <2> QED
    BY <1>11, <2>2, <2>3, <2>4 DEF MarkDelivered
<1>12. ASSUME NEW r \in Runs, Release(r) PROVE DispatchInv'
  <2> DEFINE m == work[r].m
  <2>1. Holding(r) /\ At(r, "settle") /\ m \in Members /\ ~HasSent(r, m)
    BY <1>12, <1>m DEF Release, Holding, Holds, At, HasSent, Confirms
  <2>2. UNCHANGED <<members, suppressed, mailed, adrift, cut, unmarked>>
    BY <1>12 DEF Release, ghosts
  <2>3. PICK x \in Works : /\ work' = [work EXCEPT ![r] = x]
                           /\ x.pc \in {"next", "stamp"}
                           /\ x.mail = "none" \/ (x.mail = work[r].mail /\ x.m = m)
    <3>1. CASE Leave(r)
      <4> DEFINE y == [NoWork EXCEPT !.pc = "next", !.todo = work[r].todo]
      <4>1. y \in Works /\ y.pc = "next" /\ y.mail = "none"
        BY <1>m, Constants DEF Works, NoWork
      <4>2. work' = [work EXCEPT ![r] = y]
        BY <3>1 DEF Leave
      <4> HIDE DEF y
      <4> QED
        BY <4>1, <4>2
    <3>2. CASE Goto(r, "stamp")
      <4> DEFINE y == [work[r] EXCEPT !.pc = "stamp"]
      <4>1. y \in Works /\ y.pc = "stamp" /\ y.mail = work[r].mail /\ y.m = m
        BY <1>m DEF Works
      <4>2. work' = [work EXCEPT ![r] = y]
        BY <3>2 DEF Goto
      <4> HIDE DEF y
      <4> QED
        BY <4>1, <4>2
    <3> QED
      BY <1>12, <3>1, <3>2 DEF Release
  <2>4. CASE UNCHANGED claim
    BY <1>t, <2>1, <2>2, <2>3, <2>4, LettingGo
  <2>5. CASE claim' = [claim EXCEPT ![m] = NoClaim]
    <3>1. \A s \in Runs : work'[s] = IF s = r THEN x ELSE work[s]
      BY <1>t, <2>3, WorkOf
    <3>2. \A s \in Runs : Holding(s)' <=> Holding(s) /\ s # r
      BY <2>3, <3>1 DEF Holding, Holds
    <3>3. \A s \in Runs : \A n : HasSent(s, n)' <=> HasSent(s, n)
      <4>1. \A n : ~HasSent(r, n)
        BY <2>1 DEF HasSent
      <4>2. \A s \in Runs : \A n : HasSent(s, n)' <=> HasSent(s, n) /\ s # r
        BY <2>3, <3>1 DEF HasSent, At
      <4> QED
        BY <4>1, <4>2
    <3>4. \A n \in Members : claim'[n] = IF n = m THEN NoClaim ELSE claim[n]
      BY <1>t, <2>5 DEF TypeOK
    <3>5. \A s \in Runs : Holding(s) /\ s # r => work[s].m # m
      BY <2>1 DEF DispatchInv, OneHolder
    <3>6. HoldersOwn' /\ OneHolder'
      BY <1>m, <2>2, <3>1, <3>2, <3>4, <3>5 DEF DispatchInv, HoldersOwn, OneHolder
    <3>7. ClaimsOfMembers'
      BY <2>2, <3>4 DEF DispatchInv, ClaimsOfMembers, NoClaim
    <3>8. \A n \in Members : Excess(n)' = Excess(n) /\ Excess(n) \in Int
      BY <1>t, <2>2, ExcessType DEF Excess
    <3>9. Excess(m) <= 0
      BY <2>1 DEF DispatchInv, OneCertainMail
    <3>10. OneCertainMail'
      <4>1. \A n \in Members : Excess(n)' <= 1
        BY <3>8 DEF DispatchInv, OneCertainMail
      <4>2. ASSUME NEW n \in members', Excess(n)' > 0
            PROVE  claim'[n].delivered \/ \E s \in Runs : HasSent(s, n)'
        <5>1. n \in members /\ n \in Members /\ Excess(n) > 0
          BY <1>t, <2>2, <3>8, <4>2 DEF TypeOK
        <5>2. n # m
          BY <3>8, <3>9, <5>1
        <5> QED
          BY <3>3, <3>4, <5>1, <5>2 DEF DispatchInv, OneCertainMail
      <4>3. ASSUME NEW s \in Runs, Holding(s)', ~HasSent(s, work[s].m)'
            PROVE  Excess(work[s].m)' <= 0
        <5>1. s # r /\ Holding(s) /\ work'[s] = work[s] /\ ~HasSent(s, work[s].m)
          BY <3>1, <3>2, <3>3, <4>3
        <5>2. Excess(work[s].m) <= 0
          BY <5>1 DEF DispatchInv, OneCertainMail
        <5> QED
          BY <1>m, <3>8, <5>1, <5>2
      <4> QED
        BY <4>1, <4>2, <4>3 DEF OneCertainMail
    <3>11. MailIsTrue'
      BY <2>2, <2>3, <3>1 DEF DispatchInv, MailIsTrue
    <3> QED
      BY <1>t, <3>6, <3>7, <3>10, <3>11 DEF DispatchInv
  <2> QED
    BY <1>12, <2>4, <2>5 DEF Release
<1>13. ASSUME NEW r \in Runs, Stamp(r) PROVE DispatchInv'
  <2>1. ~HasSent(r, work[r].m)
    BY <1>13 DEF Stamp, HasSent, At
  <2> QED
    BY <1>13, <1>l, <2>1 DEF Stamp, ghosts
<1>14. CASE Crash
  <2> DEFINE Taken(m) == {r \in Runs : HasSent(r, m)}
  <2>1. /\ UNCHANGED <<members, claim, suppressed, mailed, unmarked>>
        /\ work' = [r \in Runs |-> NoWork]
    BY <1>14 DEF Crash, store
  <2>2. PICK out \in SUBSET {r \in Runs : At(r, "send")} :
          LET lost(m) == {r \in out : work[r].m = m}
              taken(m) == {r \in Runs : At(r, "settle") /\ work[r].m = m /\ work[r].mail = "sent"} IN
          /\ adrift' = [m \in Members |-> adrift[m] + Cardinality(lost(m))]
          /\ cut' = [m \in Members |-> cut[m] + Cardinality(lost(m) \cup taken(m))]
    BY <1>14 DEF Crash
  <2>3. ASSUME NEW m \in Members
        PROVE  /\ Excess(m)' = Excess(m) - Cardinality(Taken(m))
               /\ Excess(m) \in Int /\ Cardinality(Taken(m)) \in Nat
    <3> DEFINE lost == {r \in out : work[r].m = m}
               taken == {r \in Runs : At(r, "settle") /\ work[r].m = m /\ work[r].mail = "sent"}
    <3>1. taken = Taken(m)
      BY DEF HasSent
    <3>2. IsFiniteSet(lost) /\ IsFiniteSet(taken)
      BY Numbers, FS_Subset
    <3>3. lost \cap taken = {}
      BY DEF At
    <3>4. /\ Cardinality(lost) \in Nat /\ Cardinality(taken) \in Nat
          /\ Cardinality(lost \cup taken) = Cardinality(lost) + Cardinality(taken) - Cardinality(lost \cap taken)
      BY <3>2, FS_Union, FS_CardinalityType
    <3>5. Cardinality(lost \cap taken) = 0
      BY <3>3, FS_EmptySet
    <3>6. adrift'[m] = adrift[m] + Cardinality(lost) /\ cut'[m] = cut[m] + Cardinality(lost \cup taken)
      BY <2>2
    <3> HIDE DEF lost, taken, Taken
    <3> QED
      BY <1>t, <2>1, <3>1, <3>4, <3>5, <3>6 DEF Excess, TypeOK
  <2>4. \A m \in Members, r \in Runs : HasSent(r, m) => Cardinality(Taken(m)) > 0
    <3> SUFFICES ASSUME NEW m \in Members, NEW r \in Runs, HasSent(r, m)
                 PROVE  Cardinality(Taken(m)) > 0
      OBVIOUS
    <3>1. IsFiniteSet(Taken(m)) /\ Taken(m) # {}
      BY Numbers, FS_Subset
    <3> HIDE DEF Taken
    <3> QED
      BY <2>3, <3>1, FS_EmptySet
  <2> HIDE DEF Taken
  <2>5. \A r \in Runs : work'[r].mail = "none" /\ ~Holding(r)'
    BY <2>1 DEF Holding, Holds, NoWork
  <2>6. HoldersOwn' /\ OneHolder' /\ MailIsTrue' /\ ClaimsOfMembers'
    BY <2>1, <2>5 DEF HoldersOwn, OneHolder, MailIsTrue, ClaimsOfMembers, DispatchInv
  <2>7. OneCertainMail'
    <3>1. \A m \in Members : Excess(m)' <= 1
      BY <2>3 DEF DispatchInv, OneCertainMail
    <3>2. ASSUME NEW m \in members, Excess(m)' > 0 PROVE claim[m].delivered
      <4>1. m \in Members /\ Excess(m) > 0
        BY <1>t, <2>3, <3>2 DEF TypeOK
      <4>2. \A r \in Runs : ~HasSent(r, m)
        BY <2>3, <2>4, <3>2, <4>1 DEF DispatchInv, OneCertainMail
      <4> QED
        BY <4>1, <4>2 DEF DispatchInv, OneCertainMail
    <3> QED
      BY <2>1, <2>5, <3>1, <3>2 DEF OneCertainMail
  <2> QED
    BY <1>t, <2>6, <2>7 DEF DispatchInv
<1>e. ASSUME UNCHANGED <<mailed, adrift, cut, unmarked>>
      PROVE  \A n \in Members : Excess(n)' <= Excess(n) /\ (mailed[n] > 0 => mailed'[n] > 0)
  <2>1. \A n \in Members : Excess(n)' = Excess(n) /\ Excess(n) \in Int
    BY <1>e, <1>t, ExcessType DEF Excess
  <2> QED
    BY <1>e, <2>1
<1>15. ASSUME NEW m \in Members, Purge(m) PROVE DispatchInv'
  <2>1. /\ members' \subseteq members /\ suppressed \subseteq suppressed' /\ UNCHANGED work
        /\ \A n \in members' : n # m
        /\ \A n \in Members : claim'[n] = IF n = m THEN NoClaim ELSE claim[n]
    BY <1>15, <1>t DEF Purge, TypeOK
  <2>2. \A n \in members' : claim'[n].id = claim[n].id /\ claim'[n].delivered = claim[n].delivered
    BY <1>t, <2>1 DEF TypeOK
  <2>3. \A n \in Members \ members' : claim'[n] = NoClaim
    BY <1>15, <2>1 DEF Purge, DispatchInv, ClaimsOfMembers
  <2>4. \A r \in Runs : Holding(r) /\ work[r].m \in members' => claim'[work[r].m].age <= Lease
    BY <1>m, <2>1 DEF DispatchInv, HoldersOwn
  <2> QED
    BY <1>15, <1>t, <1>e, <2>1, <2>2, <2>3, <2>4, Standing DEF Purge, ghosts
<1>16. ASSUME NEW m \in Members, Suppress(m) PROVE DispatchInv'
  <2>1. \A r \in Runs : Holding(r) /\ work[r].m \in members' => claim'[work[r].m].age <= Lease
    BY <1>16 DEF Suppress, DispatchInv, HoldersOwn
  <2> QED
    BY <1>16, <1>t, <1>e, <2>1, Standing DEF Suppress, ghosts, DispatchInv, ClaimsOfMembers
<1>17. CASE OtherMail
  <2>1. \A r \in Runs : Holding(r) /\ work[r].m \in members' => claim'[work[r].m].age <= Lease
    BY <1>17 DEF OtherMail, DispatchInv, HoldersOwn
  <2> QED
    BY <1>17, <1>t, <1>e, <2>1, Standing DEF OtherMail, ghosts, DispatchInv, ClaimsOfMembers
<1>18. CASE Tick
  <2>1. \A n \in Members : /\ claim'[n] = Aged(claim[n])
                           /\ claim'[n].id = claim[n].id
                           /\ claim'[n].delivered = claim[n].delivered
    <3>1. \A n \in Members : claim[n] \in Claims
      BY <1>t DEF TypeOK
    <3> QED
      BY <1>18, <3>1 DEF Tick, Aged, Claims
  <2>2. \A n \in Members \ members' : claim'[n] = NoClaim
    BY <1>18, <2>1 DEF Tick, Aged, NoClaim, DispatchInv, ClaimsOfMembers
  <2>3. ASSUME NEW r \in Runs, Holding(r) PROVE claim'[work[r].m].age <= Lease
    <3>1. claim[work[r].m] \in Claims /\ claim[work[r].m].age < Lease
      BY <1>18, <1>t, <1>m, <2>3 DEF Tick, TimeMayPass, Holding, TypeOK
    <3>2. \A c \in Claims : c.age < Lease => Aged(c).age <= Lease
      BY Numbers DEF Aged, Claims
    <3> QED
      BY <1>m, <2>1, <3>1, <3>2
  <2>4. \A n \in members' : n \in Members
    BY <1>t DEF TypeOK
  <2> QED
    BY <1>18, <1>t, <1>e, <2>1, <2>2, <2>3, <2>4, Standing DEF Tick, ghosts
<1>19. CASE UNCHANGED vars
  <2>1. UNCHANGED work /\ \A r \in Runs : work[r].m \in members' /\ Holding(r) => claim'[work[r].m].age <= Lease
    BY <1>19 DEF vars, store, DispatchInv, HoldersOwn
  <2> QED
    BY <1>19, <1>t, <1>e, <2>1, Standing DEF vars, store, ghosts, DispatchInv, ClaimsOfMembers
<1> QED
  BY <1>1, <1>2, <1>3, <1>4, <1>5, <1>6, <1>7, <1>8, <1>9, <1>10, <1>11, <1>12, <1>13,
     <1>14, <1>15, <1>16, <1>17, <1>18, <1>19
  DEF Next, RunStep, Environment

THEOREM DispatchCorrect == Spec => []DispatchInv
  BY DispatchInit, DispatchStep, PTL DEF Spec

\* A member gets a second mail only for a send whose end the process did not
\* see or whose confirmation failed, for any number of members, of overlapping
\* batches, of crashes and of failed calls.
THEOREM NoDuplicate == Spec => []NoDuplicateWithoutDoubt
<1>1. DispatchInv => NoDuplicateWithoutDoubt
  BY DEF DispatchInv, OneCertainMail, NoDuplicateWithoutDoubt, Excess, TypeOK
<1> QED
  BY <1>1, DispatchCorrect, PTL

\* The provider's mails and the suppression list only grow.
LEMMA MailsGrow ==
    ASSUME DispatchInv, [Next]_vars
    PROVE  \A m \in Members : /\ mailed[m] > 0 => mailed'[m] > 0
                              /\ m \in suppressed => m \in suppressed'
<1> USE DEF DispatchInv, TypeOK
<1>0. ASSUME NEW r \in Runs, Send(r)
      PROVE  suppressed' = suppressed /\ \A m \in Members : mailed[m] > 0 => mailed'[m] > 0
  BY <1>0 DEF Send, store, Works
<1>1. ASSUME NEW r \in Runs, RunStep(r)
      PROVE  suppressed' = suppressed /\ \A m \in Members : mailed[m] > 0 => mailed'[m] > 0
  BY <1>0, <1>1 DEF RunStep, Claim, Enqueue, Check, Reserve, MarkDelivered, Release, Stamp,
              EndRun, Upsert, store, ghosts
<1>2. ASSUME NEW m \in Members, Arrive(m) PROVE suppressed \subseteq suppressed' /\ \A n \in Members : mailed[n] > 0 => mailed'[n] > 0
  BY <1>2 DEF Arrive, store
<1> QED
  BY <1>1, <1>2 DEF Next, Environment, Start, SkipEntry, Crash, Purge, Suppress, OtherMail, Tick,
                    vars, store, ghosts

LEMMA StampStep == ASSUME DispatchInv, StampIsTrue, [Next]_vars PROVE StampIsTrue'
<1>t. TypeOK /\ TypeOK'
  BY TypeStep DEF DispatchInv
<1>m. \A r \in Runs : work[r] \in Works /\ work[r].m \in Members
  BY <1>t DEF TypeOK, Works
<1>g. \A m \in Members : /\ mailed[m] > 0 => mailed'[m] > 0
                         /\ m \in suppressed => m \in suppressed'
  BY MailsGrow
<1>1. ASSUME \A m \in Members : /\ stamp'[m] \in {stamp[m], "none"}
                                /\ claim'[m].delivered => claim[m].delivered
      PROVE  StampIsTrue'
  BY <1>1, <1>g DEF StampIsTrue
<1>2. ASSUME NEW r \in Runs, MarkDelivered(r) PROVE StampIsTrue'
  <2>1. UNCHANGED stamp /\ \A m \in Members : claim'[m].delivered => claim[m].delivered \/ m = work[r].m
    BY <1>2, <1>t, <1>m DEF MarkDelivered, TypeOK, Claims
  <2>2. mailed[work[r].m] > 0 \/ work[r].m \in suppressed
    BY <1>2 DEF MarkDelivered, Confirms, DispatchInv, MailIsTrue
  <2> QED
    BY <1>g, <1>m, <2>1, <2>2 DEF StampIsTrue
<1>3. ASSUME NEW r \in Runs, Stamp(r) PROVE StampIsTrue'
  <2>1. UNCHANGED claim
        /\ \A m \in Members : stamp'[m] = stamp[m] \/ (m = work[r].m /\ stamp'[m] = Stamped(stamp[m], work[r].mail))
    BY <1>3, <1>t, <1>m DEF Stamp, TypeOK
  <2>2. /\ work[r].mail = "sent" => mailed[work[r].m] > 0
        /\ work[r].mail = "dead" => work[r].m \in suppressed
    BY DEF DispatchInv, MailIsTrue
  <2>3. ASSUME NEW m \in Members, m = work[r].m, stamp'[m] = Stamped(stamp[m], work[r].mail)
        PROVE  /\ stamp'[m] = "sent" => mailed[m] > 0
               /\ stamp'[m] = "dead" => mailed[m] > 0 \/ m \in suppressed
    <3>1. stamp[m] \in {"none", "sent", "dead"}
      BY <1>t DEF TypeOK
    <3>2. stamp[m] # "none" => mailed[m] > 0 \/ m \in suppressed
      BY <3>1 DEF StampIsTrue
    <3> QED
      BY <2>2, <2>3, <3>2 DEF Stamped
  <2> QED
    BY <1>g, <1>m, <2>1, <2>3 DEF StampIsTrue
<1>4. ASSUME NEW r \in Runs, Claim(r) PROVE StampIsTrue'
  <2>1. UNCHANGED stamp /\ \A m \in Members : claim'[m].delivered => claim[m].delivered
    <3> DEFINE new == [NoClaim EXCEPT !.id = FreshId(work[r].m)]
               taken == [claim[work[r].m] EXCEPT !.age = 0]
    <3>1. ~new.delivered
      BY DEF NoClaim
    <3>2. taken.delivered = claim[work[r].m].delivered
      BY <1>t, <1>m DEF TypeOK, Claims
    <3>3. /\ UNCHANGED stamp
          /\ \/ UNCHANGED claim
             \/ claim' = [claim EXCEPT ![work[r].m] = new]
             \/ claim' = [claim EXCEPT ![work[r].m] = taken]
      BY <1>4 DEF Claim
    <3> HIDE DEF new, taken
    <3> QED
      BY <1>t, <3>1, <3>2, <3>3 DEF TypeOK
  <2> QED
    BY <1>1, <2>1
<1>5. ASSUME NEW r \in Runs, Release(r) PROVE StampIsTrue'
  <2>1. UNCHANGED stamp /\ \A m \in Members : claim'[m].delivered => claim[m].delivered
    BY <1>5, <1>t, <1>m DEF Release, NoClaim, TypeOK
  <2> QED
    BY <1>1, <2>1
<1>6. ASSUME NEW m \in Members, Purge(m) PROVE StampIsTrue'
  <2>1. \A n \in Members : stamp'[n] \in {stamp[n], "none"} /\ (claim'[n].delivered => claim[n].delivered)
    BY <1>6, <1>t DEF Purge, NoClaim, TypeOK
  <2> QED
    BY <1>1, <2>1
<1>7. CASE Tick
  <2>1. UNCHANGED stamp /\ \A m \in Members : claim'[m].delivered => claim[m].delivered
    <3>1. \A m \in Members : claim[m] \in Claims
      BY <1>t DEF TypeOK
    <3> QED
      BY <1>7, <3>1 DEF Tick, Aged, Claims
  <2> QED
    BY <1>1, <2>1
<1>8. CASE UNCHANGED <<stamp, claim>>
  BY <1>1, <1>8
<1>9. ASSUME NEW r \in Runs, RunStep(r) PROVE StampIsTrue'
  BY <1>2, <1>3, <1>4, <1>5, <1>8, <1>9
  DEF RunStep, Enqueue, Check, Reserve, Send, EndRun, Upsert, store
<1> QED
  BY <1>6, <1>7, <1>8, <1>9
  DEF Next, Environment, Start, SkipEntry, Crash, Arrive, Suppress, OtherMail, vars, store

\* sentToMemberAt and a confirmed claim never say what did not happen.
THEOREM StampTruth == Spec => []StampIsTrue
<1>1. Init => StampIsTrue
  BY DEF Init, StampIsTrue, NoClaim
<1> QED
  BY <1>1, StampStep, DispatchCorrect, PTL DEF Spec

\* Once a claim is confirmed, no request for this debrief leaves any more and
\* the confirmation stays as long as the member does.
THEOREM ConfirmedFinal == Spec => ConfirmedIsFinal
<1>1. ASSUME DispatchInv, [Next]_vars, NEW m \in Members, claim[m].delivered
      PROVE  /\ mailed'[m] + adrift'[m] <= mailed[m] + adrift[m]
             /\ m \in members' => claim'[m].delivered
  <2>t. TypeOK /\ mailed[m] \in Nat /\ adrift[m] \in Nat
    BY <1>1 DEF DispatchInv, TypeOK
  <2>m. \A r \in Runs : work[r].m \in Members
    BY <2>t DEF TypeOK, Works
  <2>1. claim[m].id # 0 /\ m \in members
    BY <1>1 DEF DispatchInv, ClaimsOfMembers, NoClaim
  <2>2. \A r \in Runs : ~Holds(r, m)
    BY <1>1, <2>1 DEF DispatchInv, HoldersOwn, Holding, Holds
  <2>3. ASSUME UNCHANGED <<mailed, adrift>>,
               UNCHANGED claim \/ \E k \in Members \ {m} : \E c : claim' = [claim EXCEPT ![k] = c]
        PROVE  /\ mailed'[m] + adrift'[m] <= mailed[m] + adrift[m]
               /\ m \in members' => claim'[m].delivered
    BY <1>1, <2>3, <2>t DEF TypeOK
  <2>4. ASSUME NEW r \in Runs, Claim(r)
        PROVE  UNCHANGED claim \/ \E k \in Members \ {m} : \E c : claim' = [claim EXCEPT ![k] = c]
    <3> DEFINE new == [NoClaim EXCEPT !.id = FreshId(work[r].m)]
               taken == [claim[work[r].m] EXCEPT !.age = 0]
    <3>1. \/ UNCHANGED claim
          \/ work[r].m # m /\ claim' = [claim EXCEPT ![work[r].m] = new]
          \/ work[r].m # m /\ claim' = [claim EXCEPT ![work[r].m] = taken]
      BY <1>1, <2>1, <2>4 DEF Claim, Expired
    <3> HIDE DEF new, taken
    <3> QED
      BY <2>m, <3>1
  <2>5. ASSUME NEW r \in Runs, Send(r)
        PROVE  mailed'[m] = mailed[m] /\ adrift'[m] = adrift[m]
    <3>1. work[r].m # m /\ work[r].m \in Members
      BY <2>2, <2>5, <2>m DEF Send, Holds, At
    <3> QED
      BY <2>5, <2>t, <3>1 DEF Send, TypeOK
  <2>6. ASSUME NEW r \in Runs, MarkDelivered(r) \/ Release(r)
        PROVE  UNCHANGED claim \/ \E k \in Members \ {m} : \E c : claim' = [claim EXCEPT ![k] = c]
    <3> DEFINE w == work[r].m
               c == [claim[w] EXCEPT !.delivered = TRUE]
    <3>1. w # m /\ w \in Members
      BY <2>2, <2>6, <2>m DEF MarkDelivered, Release, Holds, At
    <3>2. UNCHANGED claim \/ claim' = [claim EXCEPT ![w] = c] \/ claim' = [claim EXCEPT ![w] = NoClaim]
      BY <2>6 DEF MarkDelivered, Release
    <3> HIDE DEF w, c
    <3> QED
      BY <3>1, <3>2
  <2>7. ASSUME NEW r \in Runs, RunStep(r)
        PROVE  /\ mailed'[m] + adrift'[m] <= mailed[m] + adrift[m]
               /\ m \in members' => claim'[m].delivered
    <3>1. CASE Send(r)
      BY <1>1, <2>t, <2>5, <3>1 DEF Send, store
    <3>2. CASE Claim(r)
      BY <2>3, <2>4, <3>2 DEF Claim, ghosts
    <3>3. CASE MarkDelivered(r) \/ Release(r)
      BY <2>3, <2>6, <3>3 DEF MarkDelivered, Release, ghosts
    <3> QED
      BY <2>3, <2>7, <3>1, <3>2, <3>3
      DEF RunStep, Enqueue, Check, Reserve, Stamp, EndRun, Upsert, store, ghosts
  <2>8. ASSUME NEW k \in Members, Arrive(k)
        PROVE  /\ mailed'[m] + adrift'[m] <= mailed[m] + adrift[m]
               /\ claim'[m].delivered
    BY <1>1, <2>8, <2>t DEF Arrive, store, TypeOK
  <2>9. CASE Crash
    <3>1. PICK out \in SUBSET {r \in Runs : At(r, "send")} :
            adrift' = [n \in Members |-> adrift[n] + Cardinality({r \in out : work[r].m = n})]
      BY <2>9 DEF Crash
    <3>2. {r \in out : work[r].m = m} = {}
      BY <2>2 DEF Holds, At
    <3>3. adrift'[m] = adrift[m] + Cardinality({})
      BY <3>1, <3>2
    <3>4. adrift'[m] = adrift[m]
      BY <2>t, <3>3, FS_EmptySet
    <3> QED
      BY <1>1, <2>9, <2>t, <3>4 DEF Crash, store
  <2>10. ASSUME NEW k \in Members, Purge(k)
         PROVE  /\ mailed'[m] + adrift'[m] <= mailed[m] + adrift[m]
                /\ m \in members' => claim'[m].delivered
    BY <1>1, <2>10, <2>t DEF Purge, ghosts, TypeOK
  <2>11. CASE Tick
    <3>1. claim'[m].delivered
      <4>1. claim[m] \in Claims
        BY <2>t DEF TypeOK
      <4> QED
        BY <1>1, <2>11, <4>1 DEF Tick, Aged, Claims
    <3> QED
      BY <2>11, <2>t, <3>1 DEF Tick, ghosts
  <2> QED
    BY <1>1, <2>3, <2>7, <2>8, <2>9, <2>10, <2>11
    DEF Next, Environment, Start, SkipEntry, Suppress, OtherMail, vars, store, ghosts
<1>2. DispatchInv /\ [Next]_vars =>
        [\A m \in Members : claim[m].delivered =>
              /\ mailed'[m] + adrift'[m] <= mailed[m] + adrift[m]
              /\ m \in members' => claim'[m].delivered]_vars
  BY <1>1
<1> QED
  BY <1>2, DispatchCorrect, PTL DEF Spec, ConfirmedIsFinal

================================================================================
